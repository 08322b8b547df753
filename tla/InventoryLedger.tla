-------------------------- MODULE InventoryLedger --------------------------
(***************************************************************************)
(* What a paper futures account promises, without any of the bookkeeping   *)
(* of futures_fund/account.py: a bank and an inventory.  A trade buys or   *)
(* sells units at one price per symbol and pays a friction for every unit  *)
(* it moves; a funding settlement credits or debits the bank.  There are   *)
(* no entry prices, no realized or unrealized profit, no roles and no      *)
(* closed legs here: PaperTrading is shown to implement this ledger.       *)
(***************************************************************************)
EXTENDS Totals

CONSTANTS Symbols,      \* tradable symbols
          Marks,        \* prices a unit can trade at
          FrictionUnit, \* fee plus slippage of one unit
          StartCash

VARIABLES bank,       \* money after paying for the whole inventory
          inventory,  \* [Symbols -> Int], signed units
          credited    \* net funding credited so far

ledgerVars == <<bank, inventory, credited>>

LedgerInit ==
    /\ bank = StartCash
    /\ inventory = [s \in Symbols |-> 0]
    /\ credited = 0

\* Funding arrives, then the inventory is rebalanced at one mark per symbol.
\* Nothing else moves money.
Rebalance ==
    \E mark \in [Symbols -> Marks] :
        LET moved == [s \in Symbols |-> inventory'[s] - inventory[s]]
            paid  == [s \in Symbols |-> moved[s] * mark[s]
                                        + FrictionUnit * (IF moved[s] < 0 THEN -moved[s]
                                                                          ELSE moved[s])]
        IN  bank' = bank + (credited' - credited) - Total(paid, Symbols)

Ledger == LedgerInit /\ [][Rebalance]_ledgerVars
=============================================================================

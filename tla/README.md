# Verification of the PAPER crypto desk

TLA+ models of the parts of this repository whose correctness depends on order:
commands that overlap, processes that die between two file writes, schedulers that
retry, clocks that move.  TLC checks the models on small instances; TLAPS proves for
every instance the safety properties and the refinements that the runs check.

    tlc -config AccountCommitLockOnly.cfg MCAccountCommit
    tlapm AccountCommit_proofs.tla

## The system

The desk keeps a PAPER trading account in a state directory (`live_state`).  Once a
day a language-model session runs a cycle: it recovers what an earlier run left,
asks a watchdog for permission, seals a decision bundle (prepare), lets its agents
weigh it, and reconciles the account to it.  Twice a day a heartbeat without any
model settles funding.  Cron polls a launcher script for each every ten minutes.
All of this is short-lived processes on one host that share files; nothing stays in
memory between them.

| Component | State | Operations | Hard behaviour |
|---|---|---|---|
| Account commit protocol (`state_transaction.py`, `reconcile_commit.py`, `heartbeat.py`, `durable_io.py`) | `account.json`, two intent files, cycle directories, heartbeat index, equity and ledger rows, `account-events.jsonl`, protocol file, the flock on the directory | load, stage, recover (replay), verify, retire | crash between any two writes; tasks that overlap between load and stage; two kinds of intent |
| Cross-section prepare and reconcile (`desk_cross_section_*.py`, `pending_io.py`, `cross_section.py`) | the pending bundle | select, seal, validate weights, bind the revision, reconcile | the bundle outlives what it was sealed for |
| Schedule gate and launchers (`desk_schedule_gate.py`, `run_*.sh`, `install_desk_cron.py`) | claims file, `desk-cycle.lock` | check, claim, release, seed, run with a timeout | overlapping polls, crash after claim, retry after failure, clock correction |
| Watchdog and outcome (`desk_watchdog.py`, `desk_cycle_outcome.py`) | last outcome | classify the gap, attest a session | state read before the session and used after it |
| Decision chains (`desk_cross_section_*`; legacy: `desk_decision_start.py`, `desk_revision_receipt.py`, `desk_reconcile.py`, `precheck.py`, `adversary_binding.py`) | packets, proposals, verdict, revision, receipts | seal, validate, review, revise once, verify, execute | agents rewrite their files; commands die between two writes; what was reviewed is not what is executed |
| Run lock (`runlock.py`) | `.run.lock` | acquire, reclaim stale, release | lock file created empty; read, then unlink |
| Directive lifecycle (`directives.py`) | intent, claim, tomb, consumption records | claim, receipt, finalize, recover | crash between renames; the operator edits the source meanwhile |
| Funding clock (`funding_history.py`, `funding_intervals.py`) | interval proofs, last funding instant | expected boundaries, collect, prove coverage | boundaries counted twice or never; late publication; interval change |
| Paper account (`account.py`, the fill half of `desk_cycle.py`) | cash, positions, totals, closed legs | settle funding, round, scale, fill, close, flip, transfer a role | flips, partial fills, attribution of every cost |
| Cycle due (`scheduling.py`) | last report | decide which candle to serve | future stamps, skipped candles |
| Health alert (`desk_health_alert.py`) | cursor, alert ledger | deduplicate, append, hook, repair | three effects, damaged storage |
| Proxy supervisor (`proxy_process.py`) | process table, monitor file, start lock | probe, stop, start, await | stale pids, hangs, calls that die |
| Reflection, scorecards, performance | rules, scorecards | score, migrate, report | migration interrupted, watermark behind or ahead |

How they interact: cron starts the launchers; a launcher asks the gate, takes
`desk-cycle.lock`, claims a slot and runs a session or a heartbeat; both call the
commands, which share the state directory under a flock that is held for a load, for
a staging or for a replay, never across a whole task.  The watchdog and the
attestation read the same completed-cycle markers the commit protocol publishes
last.  A cycle claims at most one operator directive before its packet is sealed and
consumes it after its marker.  Heartbeats and reconciles both settle funding on the
account; the reconcile then fills the decided book.  The launcher calls the proxy
manager before it claims, and a separate cron entry polls the desk's health.

What makes each correct: a commit is atomic, never lost, never repeated, always
finished; a slot is served at most once; cycles keep their cadence; a decision is
only applied to the account it was made for; a lock has one holder; a directive takes
effect exactly once; a funding boundary is charged exactly once; the account's
balances add up; what is executed was reviewed, on this account; an incident is told;
the data proxy comes back.

## Modules

| Module | Part | Promise it implements | Instance | Proofs |
|---|---|---|---|---|
| `AccountCommit` | commit protocol, one action per file write | `AccountLedger` | `MCAccountCommit` | `AccountCommit_proofs` |
| `DeskSchedule` | the schedule above it, a whole replay as one step | | `MCDeskSchedule` | `DeskSchedule_proofs` |
| `RunLock` | lock file of the offline runner | | `MCRunLock` | `DeskSchedule_proofs` |
| `DirectiveLifecycle` | operator directives | `DirectiveQueue` | `MCDirectiveLifecycle` | `DirectiveLifecycle_proofs` |
| `FundingHistory`, `PaperAccount` (with `Totals`), `ExecutionBasket`, composed by `PaperTrading` | funding proofs, account, fills, over time | `InventoryLedger` | `MCPaperTrading` | `PaperTrading_proofs` |
| `CrossSection`, used by `WeightChain` | the weekly decision | `WeeklySelection` | `MCWeightChain` | `WeightChain_proofs` |
| `DecisionChain` | the legacy decision by files | | `MCDecisionChain` | `DecisionChain_proofs` |
| `Precheck`, `AdversaryBinding`, used by `RevisionAuthority` | the legacy decision by content | | `MCRevisionAuthority` | `RevisionAuthority_proofs` |
| `ProxySupervisor` | proxy manager | | `MCProxySupervisor` | `Operations_proofs` |
| `HealthAlert`, composed with `ProxySupervisor` by `Operations` | health poll | | `MCOperations` | `Operations_proofs` |

The modules meet at named points.  `PaperTrading` has one process at a time on the
account and a commit that is one step: `AccountCommit` shows that overlapping tasks
and crashes allow this.  `WeightChain` and `DecisionChain` end in a commit of the
same kind.  `RevisionAuthority` assumes that each artifact is the right one, which is
what `DecisionChain` shows, and `DecisionChain` takes the set of contents a verdict
allows, which is what `RevisionAuthority` is about.

### AccountCommit

A generation (a reconcile of a cycle or a heartbeat of a slot) is named by the
instant its account is computed.  One number therefore stands for its commit id, its
event timestamp and its account hash, which in the code are a uuid4, a wall-clock
instant and a SHA-256: what the protocol compares is only equality, and for events
and rows also order.  A file holds the number of the generation whose bytes it
contains; what those bytes claim (base account, predecessor event, predecessor
heartbeat) is the record `intent[n]`.

| TLA+ | Code |
|---|---|
| `account`, `wal`, `events`, `protocol`, `bundle` | `account.json`, the two `*-transaction.json`, `account-events.jsonl`, `reconcile-protocol.json`, `pending/` |
| `file[u][f]` | the artifacts, account state, equity row, ledger row, index row, report and `complete.json` of a cycle or slot |
| `flock`, `launcher` | `exclusive_state_transaction_lock`, `desk-cycle.lock` |
| `proc[p]` | where a command is, its cycle or slot, the base it loaded, the account it computed |
| `Start*`, `Work` | the commands up to `stage_*_transaction` |
| `WriteIntent` | the durable write of the intent at the end of staging |
| `Admissible`, `BeginReplay`, `RetireIntent` | the checks of `_recover_*_unlocked` and its early return on an intact marker |
| `SaveAccount` ... `FinishReplay`, in the order `After` | the writes of the replay |
| `Halt`, `Crash` | an exception; a kill, timeout or power loss, which drop both locks |

Abstractions.  A crash falls between two `durable_write` calls, which are atomic
(temporary file, fsync, rename).  All artifact files of a generation are one write.
`prepare` stands for the runbook's recover-then-prepare.  Heartbeats name a slot.
The launchers' lock covers a prepare and the reconcile that follows it as two
separate tasks, so another task may come between them: more behaviours than the
code.  The checks of market data and of the decision are the choice `GiveUp`.  The
desk starts fresh.  Not modelled: manifests of older versions and files damaged by
something else than a crash, and a directive bound to a cycle (the cross-section
path always binds the absent one).

### AccountLedger

Stage one generation computed on the current book for a unit never committed;
commit it.  `AccountCommit` implements it under the mapping in its last lines: a
generation counts as committed when its marker stands and everything it lists is
intact, and as staged while its intent is on disk and it is not.

### DeskSchedule

| TLA+ | Code |
|---|---|
| `Due`, `Claim`, `HeartbeatFails` | `due_slot`, `claim_due_slot`, `release_claim` |
| `Poll`, `TakeLock`, `PreflightFails`, `ClaimRefused` | the launcher scripts up to the run |
| `Admitted`, `Prepare` | the watchdog inside `desk_cross_section_prepare.py` |
| `Reconcilable`, `Reconcile` | age and account checks and staging of `desk_cross_section_reconcile.py` |
| `Recover` | `desk_recover.py`, at any time: by the agent, by a heartbeat, by hand |
| `SessionExits`, `Verdict` | `desk_cycle_outcome.py --attest` after an exit 0 |
| `Die` | nonzero exit, timeout, crash of a launcher |

The agent is not trusted: it may call prepare and reconcile in any order, as often
as it likes, and exit 0 whatever happened.  Times are minutes and the constants of
the code keep their values (slots at 00:07, 08:07 and 16:07, grace 6 h, early 18 h,
decision age 90 minutes).  `done.time` is the report's `ran_at`, which the watchdog
reads.  A run may go on until the end of the clock step in which its timeout falls.

### RunLock

One action is one system call of one process, because that is where another process
can come in: the file is created by one call and written by the next, a reclaim
reads, reads again and unlinks.

| TLA+ | Code |
|---|---|
| `file` | `.run.lock`: whose payload it is for, and whether that payload is in it yet |
| `proc[p]` | the line of `try_acquire` a process has reached, its `now`, the holder it read, its tries; `held` until it releases |
| `CreateExcl`, `WritePayload` | the two calls of `_create_excl` |
| `ReadHolder`, `Compare`, `Unlink` | `_read` with `_is_stale`, then the two halves of `_unlink_if_same` |
| `GaveUp`, `Release` | the end of the retry loop; `release` |

A caller reads its clock once, before the call, so `start` is both what it writes and
what it judges leases by.  The clock is one clock for all; what differs between
processes is when they read it.  Calls overlap at every system call, holders outlive
their lease, processes die anywhere.  The code does leave windows in which a live lock
is removed (observed disagreements 4 and 5): `robbed` is history and records who lost
its file in one of them, `UnlinkWindow` and `ReleaseWindow` name them, and no action
reads it.  `OneHolder` says that nothing but those windows lets two processes in.

### DirectiveLifecycle

| TLA+ | Code |
|---|---|
| `source`, `bytes` | the inbox file: its inode and the version of its bytes |
| `store`, `active`, `acks` | `directive-claims-v1`: claim, duplicate and tombstone names, `active.json`, `consumptions/` |
| `done`, `wal` | completed cycles with the claim their receipt archives; the staged reconcile |
| `task` | the one call that holds the state lock, at the line it has reached |
| `evidence`, `pending`, `reconciler` | the commands that carry a claim from one call to the next |
| `shadow` | an inbox name whose removal is not durable yet |

Every call of `directives.py` holds the state lock, so `task` is one call; the
operator replaces, edits in place or removes the inbox file between any two of its
steps.  A rename is durable after both directories are synced: a power loss before
that brings the old name back.  The base account is the number of completed cycles.
Symlinks, device numbers and the JSON schema of a directive are left out.

A claim that no longer matches its intent halts every later command by design.  The
operator can bring that about (observed disagreement 8), nothing else can:
`HaltedByOperatorOnly` says that archives, acknowledgements and receipts never
conflict, that a staged cycle stays replayable whatever the operator does, that a
claim of a completed cycle can be consumed whatever the operator does, and that an
open claim still finds its file as it was read unless the operator touched that file
by the inbox name since then.  `disturbed` is the history of the last clause: it is
cleared when a claim's intent is written for the file then in the inbox.

### PaperTrading

| TLA+ | Code |
|---|---|
| `FundingHistory` | expected boundaries, lag, interval proofs of `funding_history.py` |
| `PaperAccount` | `settle_funding_events`, `apply_fills`, `drain_closed_legs` and what they call |
| `ExecutionBasket` | lot rounding, common participation, clips and minimums of `desk_cycle.py` |
| `account`, `basket` | the paper account; a reconcile between its first observation and its commit |
| `every`, `pending`, `feed` | the venue: schedule, unpublished and published events |
| `archive` | sums over the closed legs already journaled |
| `owed`, `missed` | history: what each boundary should charge, and what no proof can know |

Time is in ticks, three to an hour; quantities are whole units, money whole cents.  A
position keeps quantity times entry price, so that no average is rounded; frictions
are proportional to units.  Settlement works on a copy that is published whole, as in
the code.  `altered` is history: the symbols whose interval changed since the last
settlement, and since a basket's first observation once and twice.  `missed` is the one
exception of `FundingExact`: when an interval changes and an event is late in one and
the same window, the collector cannot tell and the code accepts the window.  A window
in which the interval changed and changed back looks like one without a change; it is
one of these.  `NoStraddledBasket` has a second exception, a new symbol whose interval
changes twice between the decision's look at it and the fill's.  The bootstrap of intervals from an old heartbeat log and
the older `settle_funding` are not modelled.

### WeightChain

| TLA+ | Code |
|---|---|
| `CrossSection` | liquidity ranking, sleeves, packet, proposal, precheck and revision rules of `cross_section.py` |
| `weekly`, `pointer` | `weekly/<week>.json`, `weekly/current.json` |
| `pending` | `pending/current.json` and the files under it |
| `command` | a prepare or validate between two of its writes |
| `reconciler` | reconcile between its verification and its commit |
| `briefs`, `verdicts` | history: packets handed to agents, verdicts returned |

The session runs one command at a time; agents are processes of their own and write
their file at any moment: the allocators against any packet they were ever briefed
with, the PM and the Adversary against the brief on disk when they write (a file of
theirs on an older brief names other digests and is refused).  Heartbeats
and deploys happen between any two steps.  The sha256 of a packet is its number, of
another artifact the artifact.  The four sealed files before `meta.json` are one
write.  Features and marks are abstracted to the order and the sizes that the rules
compare.  Nothing on the weekly path counts reviews or revisions: the properties
speak of what is executed.

### DecisionChain and RevisionAuthority

`DecisionChain`: `files` is the pending directory, `command` the list of writes a
command has left (it may die before each), `reconciler` what `desk_reconcile.py` has
read so far, `reviews` and `sealed` the history of verdicts and receipts.  The seal is
a transaction file and six writes that a later call replays.  Account, memory and
build are versions.  The reflector's head, the evidence itself and the citations are
abstracted; the three specialists are one file; what a revision may contain is a set.

`RevisionAuthority`: one cycle is a book over the inventory, one verdict, one
revision, one fill, whole or in a common part.  `Precheck` computes actions,
turnover, cost and the bounds B1 to B12 with the percentages of the code,
`AdversaryBinding` the checks on a verdict and on a revision.  Costs are reduced to
which symbols cannot be priced, do not repay or are barred; a cycle has two markets,
that of the evidence and the one the fill finds, and `ExceptionsQuoted` judges every
aggressive change on both.  An adversary may quote exceptions without a directive, and
a revision may change a thesis: a restart keeps only its horizons.  Rows that echo reads,
calibrations and prior theses echo them exactly.  B3, B5 and B6 are folded into
`Neutral` and `Spread`; graduation is left out.

### ProxySupervisor, HealthAlert, Operations

| TLA+ | Code |
|---|---|
| `procs` | what runs under a pid, whether it listens, the signal it got |
| `owner`, `call` | `binance-proxy-start.lock`; a call of `ensure_binance_proxy` at the step it has reached |
| `ProbeHttp`, `ProbeOwners` | the two halves of `_proxy_health_snapshot` |
| `Stop`, `Stopped`, `Kill` | `_stop_exact_proxy` |
| `Start`, `AwaitChild`, `StartTimeout` | `Popen` and the wait for it |
| `cursor`, `ledger`, `told`, `heard` | `desk-health-alert-state.json`, `desk-health-alerts.jsonl`, its last event, what the hook last got |
| `poll` | `desk_health_alert.py` at the step it has reached |

An identity (start time, command line, directory) is abstracted to what kind of
program runs under the pid; re-reading it and signalling is one step, as close as the
code can make it, and the signals of one round go out together.  The pid file and the
log are not read by anything and left out.  A report is the two proxy rows and the
two storage rows; the other rows compare ages.  Polls do not overlap (one cron entry
every ten minutes, a hook timeout of thirty seconds).  The installed cron line names
no `--alert-command`; the model has one, which includes the hook's failures.

## Runs

| Run | Question | Result |
|---|---|---|
| `launched` | With the launchers' lock, does recovery ever refuse, is the protocol the abstract ledger, is an intent always resolved? | holds |
| `lock_only` | What does the state lock guarantee without the launchers' lock? | holds |
| `schedule` | Is every slot served at most once, does a session open one cycle, do cycles keep 18 hours? | holds |
| `runlock` | Do two processes hold the lock only through the named windows; is a dead holder's lock always removed? | holds |
| `directives` | Is an instruction applied exactly once, as sealed; can anything but the operator's touching a claimed file halt the desk? | holds; no |
| `paper_trading` | Is every boundary charged once, every cent attributed, every book followed? | holds |
| `weights` | Is the allocation that is executed the one that was reviewed, on this account, in this week's names? | holds |
| `decision_chain` | Is the book that is executed the reviewed one or its one revision; can a seal always be replayed? | holds |
| `authority` | Does all risk, every end, restart and exception pass the one verdict? | holds |
| `proxy` | Are only proxies signalled, do they not pile up, does one come back? | holds |
| `operations` | Is every condition told once, also when polls, hooks and files fail, and an outage told at all? | holds |
| `weekly_crash` | Can a later cycle of the week always load the week's snapshot? | no: violation |

Bounds.

* `lock_only`, `launched`: two processes (what one task can do to another happens
  between two, and a crash plus a relaunch reuses a process), two slots and three
  generations: two that compete and one built on the winner.  One crash in
  `lock_only`; two in `launched`, where the lock removes most interleavings, so a
  recovery can itself be interrupted.
* `schedule`: from 23:07 over two full slots and two heartbeat slots to 02:07 two days
  later in steps of three hours, which puts two polls inside each six-hour grace
  window and one outside; three generations; one oddity, a clock correction or a
  launch by hand.
* `runlock`: a lease of two instants and a clock that goes twice that far, so a lock
  is taken, expires, is reclaimed and expires again; two tries where the code has
  eight, one that meets a stale lock and one after the reclaim; two crashes.
* `directives`: two files, two cycles, three claims, one edit, two power losses; an
  interrupted recovery is itself interrupted.  With three files the safety properties
  were checked as well (966,000 states).
* `paper_trading`: one symbol that settles every hour and one every two, from the tick
  before the first boundary to the tick after the second, so that windows end before,
  on and after one; one late event, two interval changes (there and back, or of both
  symbols), two reconciles among four books (growth, role change, flip with
  both sides of a symbol, reduction that drops a name), two price and two depth maps.
* `weights`: five symbols for a universe of four and sleeves of two, so one symbol is
  left out and membership may change; two instants of a two-instant week and the next
  week's first; two packets, two cycles, five agent files per packet, one fault.
* `decision_chain`: two contents, one evidence packet, five agent files per packet
  (a book, its verdict, its revision and two rewrites) and one fault; with six files
  checked as well (2.77 million states).
* `authority`: two coins and BTC, a cash of four units so that a quarter, half, three
  quarters and all are distinct under the code's percentages; a menu of eleven books,
  two of them the seed on another view and on another horizon; markets that are calm
  or have one dear, one unpriced and one barred symbol, so that a dear coin can be
  opened with an insuring hedge; two cycles, rejections that set out to change up to two symbols.  Two bounds differ from
  the code because shares of four units are quarters: a leg may be 50 percent of the
  gross (35 in the code) and a restart's seed 50 percent of the cash (20).
* `proxy`: two callers, three pids, three faults of any kind.  `operations`: one
  caller and two pids, because there the subject is the poll; two faults, one
  reminder window.
* `weekly_crash` allows one dead command, which is all it needs.

Deadlock is checked for the commit protocol, the run lock, the directives, the proxy
and the operations.  The other runs switch the check off: their clock or their budget
of cycles ends.

Symmetry is used in runs without liveness only.  The type invariants of the modules
are proved (see Proofs); only that of the commit protocol is also kept in a run.

Fairness of `AccountCommit` (`FairSpec`, run `launched`).  A command that can take its next step takes it
(weak fairness of `Recover`, `Work` and `Halt`): a live process is scheduled.  Cron
polls for heartbeats for ever, so a process that is again and again free while the
launchers' lock is again and again free does start one (strong fairness of
`StartHeartbeat`).  Nothing is assumed of the operator, of `desk_recover.py` by hand
or of the daily session, and crashes are finitely many.

Fairness of `RunLock`.  A live process takes its next system call and in the end
releases, the cadences keep calling `try_acquire`, and time passes; all weak.
Without calls nobody would look at the lock left behind.

Fairness of `DirectiveLifecycle`.  A call that runs takes its next step and a staged
reconcile is replayed (weak); recovery is started again and again, because every
scheduled command begins with it (strong, since other calls take the lock in between).
Liveness is claimed for the directive of a completed cycle only: before that the
operator may take it back.

Fairness of `ProxySupervisor` and `Operations`.  Launchers keep calling and cron keeps
polling (weak), a blocked flock is granted (strong), processes bind, and exit when
killed (weak), the start deadline fires for a child that hangs.  Faults are finitely
many; another program on the port may stay for ever, which is why `SelfHeals` and
`OutageTold` speak of either case.

## Findings

`weekly_crash`: `_write_weekly_snapshot` writes the week's snapshot and then the
pointer.  After a crash between the two every prepare of that week refuses, because
the pointer names another week or, without a pointer, because the rebuilt snapshot has
another creation time.  The runbook says later cycles load the snapshot.

Observed disagreements.  The following were found by checking stronger properties than
those kept, each with a counterexample of TLC, and are described here instead of in a
run of their own.

1. A slot's retry is a no-op only under the launchers' lock.  The slot check of
   `desk_heartbeat.py` (line 67) precedes the staging lock and is not repeated under
   it.  After two overlapping runs by hand for one slot every later recovery refuses.
2. The first staging of a fresh desk writes the protocol file before the intent
   (`reconcile_commit.py`, line 631).  After a crash between the two no account can be
   loaded and there is nothing to recover.
3. `before_cycle` is taken before the session recovers (`run_scheduled_cycle.sh`, line
   159): a correct session that first finishes its predecessor's cycle is rejected as
   a cycle jump.
4. `try_acquire` says that exactly one of several reclaimers returns True
   (`runlock.py`, lines 100-103).  Two do, each way with a counterexample: the file is
   empty between its creation and its write (line 67), is read as stale and removed;
   another holder's file takes the place of the stale one between the second read of
   `_unlink_if_same` and its unlink (line 85); and a caller that read its clock before
   the holder did takes the holder's stamp for one of the future, hence corrupt
   (line 56), and removes a live lock.
5. `release` (`runlock.py`, line 125) removes whatever lock is there: a holder past its
   lease, or one that lost its file through 4, removes its successor's.  `OneHolder`
   excepts the holder whose file was removed in one of these windows, and no other.
6. `desk_cross_section_reconcile.py` (line 408) archives decision files that it reads
   again after it verified them.  What it executes is what it verified.
7. For BTC that goes from hedge to alpha the verdict reviews the whole seat while the
   revision is compared by traded quantity (`adversary_binding.py`, line 1980), so a
   larger fresh seat may pass.  `NoUnreviewedRisk` names this exception.
8. `desk-restart-runbook.md` (lines 74-77) has recovery replay a prepared claim and
   forbids repairing one by hand.  When the operator edits the file in place, replaces
   or withdraws it between the claim's reading and its rename and the process dies
   before it restores or abandons, the claim cannot be replayed: every later run halts
   at the integrity check (`directives.py`, line 683), on a lost payload (690), on a
   source that meets the restore (602), or on a replaced second name left in quarantine
   (615).  The same holds when a power loss brings back the inbox name of a claimed
   file and that name is edited.  `HaltedByOperatorOnly` excepts exactly these.
9. `desk_health_alert.py` empties a damaged ledger (line 212) before it appends the
   event that reports the damage (213).  A poll that dies in between leaves a sound,
   empty ledger, and LEDGER_INVALID is never told; `PollTells` speaks of polls that end.

## Proofs

Every safety invariant, action property and refinement that a passing run checks is
also a theorem, for every value of the constants under the assumptions named in the
modules (bounds are natural numbers, null values differ from what they stand for,
and what is listed below).  In each module the argument is the same: an inductive
invariant, conjunction of named parts, that `Init` implies and every action
preserves; the properties follow from it and, when they are about steps, from one
look at the action that could break them.  The type invariants of the modules are
proved (`TypeCorrect`, `LockTypeCorrect`) or are parts of the invariants.  None of the
properties is inductive; what has to be added to each is what the code relies on
without saying so.

| Property of a run | Theorem | Under |
|---|---|---|
| `TypeOK`, `AtMostOneIntent`, `BookFollowsChain`, `NoLostUpdate`, `PublishedWhole`, `CommittedIsImmutable` | `TypeCorrect`, `SingleIntent`, `BookChain`, `LostUpdateNever`, `WholeWhenPublished`, `CommittedStays` | |
| `RecoveryNeverRefuses`, `ImplementsLedger` | `RecoveryAlwaysPossible`, `LedgerImplemented` | `Launched` |
| `OncePerSlot`, `OneCyclePerSession`, `CadenceKept` | `SlotServedOnce`, `SessionOpensOne`, `CadenceHolds` | |
| `OneHolder` | `SingleFlight` | |
| `HaltedByOperatorOnly`, `AppliedAsSealed`, `ImplementsQueue` | `OnlyTheOperatorHalts`, `SealedIsApplied`, `QueueImplemented` | |
| `AttributionComplete`, `ImplementsInventory`, `FillsFollowBook` | `CentsAttributed`, `InventoryImplemented`, `BookIsFollowed` | |
| `FundingExact`, `NoStraddledBasket` | `FundingIsExact`, `BasketsClear` | |
| `ExecutedIsReviewed`, `DecidedOnThisAccount`, `ImplementsSelection` | `ReviewedAsExecuted`, `DecisionFitsAccount`, `SelectionImplemented` | |
| `ExecutedWasReviewed`, `OneStatePerDecision`, `SealNeverWedged` | `ReviewedBeforeExecuted`, `OneAccountPerDecision`, `SealReplayable` | `ReceiptIsNoMark` |
| `NoUnreviewedRisk`, `HeldWasAudited`, `IncumbentsEndReviewed`, `RestartHolds`, `ExceptionsQuoted` | `RiskReviewed`, `SeatsAudited`, `EndsAudited`, `RestartKept`, `ExceptionsAreQuoted` | |
| `OnlyProxySignalled`, `NoPileUp` | `StrangersSpared`, `OneProxy` | |
| `PollTells`, `NoStorm` | `CompletedPollTells`, `RemindersSpaced` | |

Two hypotheses go beyond the assumptions of the modules.

* `Launched`: prepare, reconcile and heartbeat hold the launchers' lock, as the scripts
  make them; `desk_recover.py` need not.  Without it both properties are false
  (observed disagreement 1), and the run `lock_only` checks what is left.
* `ReceiptIsNoMark`: a revision receipt is neither an absent nor an empty file.  It
  says that two null values are not records, which TLC cannot evaluate as an
  assumption.

### AccountCommit_proofs

Four invariants, each on top of the one before.

* `ControlInv` adds to `TypeOK` who holds the state lock (`LockInv`: exactly the process
  that stages or replays), what a task knows at each of its steps (`LocalInv`,
  `BundleInv`) and that a replay works on the one intent on disk at a write that intent
  has (`IntentInv`).  Without it a replay could start with no intent, or a staging
  could write a second one.
* `BookInv` adds to `BookFollowsChain` that the process about to write its intent still
  sees the account it computed on, that a replay past its first write sees its own
  account, and that past the event the chain ends in it.  `LostUpdateNever` follows,
  because only a replay writes `account.json` (`OnlyReplaySaves`).
* `PublishInv` says that drafts have fresh names (`FreshInv`), that a replay has written
  what comes before the write it has reached and no marker (`WrittenInv`, `Done`), and
  that files without a marker belong to the intent on disk (`HalfInv`); then a marker
  stands over intact files only, and no later replay touches them.
* `LaunchedInv` is about the desk as it is run.  `GuardInv`: one scheduled task, and
  past its recoveries no intent.  `ChainInv`, `MarkInv`: the intent on disk is the last
  event or extends it, and likewise for heartbeat rows.  `OwnerInv`, `EventInv`: a file
  belongs to the one generation of its unit, and an event has all its files unless its
  intent is still there.  `UnitInv`: the unit a task works on has no generation yet, a
  sealed decision's for as long as its base is the head.  From these an interrupted
  replay can always be resumed, and its marker is one step of `AccountLedger`.

### DeskSchedule_proofs

`ScheduleInv` for the schedule: the launcher past its own lock holds it (`LockInv`); a
run serves a slot of its kind and has not outlived its timeout by a clock step
(`RunInv`); what is staged continues the account it was computed on (`IntentInv`,
`BundleInv`); a session opens at most one cycle, which makes its sealed decision stale
and is too recent for another (`SessionInv`); a session exists for claimed slots only (`ClaimInv`).  `OncePerSlot` for heartbeats is part
of it.  `StepAssumption` says that the longest run and one clock step end before
another cycle is admitted, which is what `CadenceKept` hangs on.

`ExclusionInv` for the run lock: whoever is inside its lease and lost nothing in a
window owns the file, empty while it writes and whole while it holds (`OwnsFile`), and
whoever is about to remove a file found that very holder stale, twice if there was one
(`Judged`).  Two such owners of one file are one process.  The step that could break it
is an unlink: by `Judged` the holder it removes is past its lease, or the unlink falls
in a window and the loser is in `robbed`.

### DirectiveLifecycle_proofs

`LifecycleInv` has seven parts.  `NamesInv`: one payload under the claim's names, at most
one second name, and nothing applied can be claimed again.  `AgreeInv`: claim, archive
and acknowledgements agree.  `TaskInv` is the list of what each step of a call relies
on, grouped by what the call does: placing, cleaning up, claiming.  `PacketInv`,
`ReconcilerInv` and `WalInv` say that a claim a packet of the next cycle is bound to is
`Secure`: nothing but the completion of that cycle can end it.  `HonourInv`, on top of
it, follows the file of an open claim from its reading to its rename: until the operator
touches it, the inbox or a claim's name has it, with the bytes that were read.  In the queue a directive waits while the
inbox or a claim's name holds its file, and is applied with the archive of its cycle.

### PaperTrading_proofs

The account's balances are sums and folds over finite sets of symbols.  The induction
theorems of the library take a predicate as parameter, which no installed prover can
be given; `SubsetInduction` takes a set of subsets instead, and the lemmas about
`Totals` (what one term changes, what a fold of bounded steps keeps) come from it.

`TradeInv` (`AccountInv`, `ArchiveInv`, `VenueInv`): the account is well formed, cash is
what is attributed to open legs and archive, a closed leg is drained at once.
`CentsAttributed` and the inventory refinement follow the settlement and each fill
through `scale`, `close`, `flip` and role transfer; `BookIsFollowed` follows the lot
rounding, the common participation and the clips of one basket.

`HistoryInv` is about funding: a boundary happens once and in time (`EventInv`); what is
owed is owed once (`OwedInv`) and, beyond the funding clock, on the units held at every
boundary (`UnsettledInv`); an interval that looks unchanged has not changed since the
clock, unless the symbol is in `altered` (`IntervalInv`); since a basket's first leg was
observed every boundary is of the decided or of the current schedule (`SinceInv`).
Then a proof of coverage that the collector accepts contains exactly what is owed in
its window, or the window is in `missed`.  A settlement that would leave negative cash is
refused by the code, and `FundingProven` says so.

### WeightChain_proofs

`WeightInv`: a week's snapshot is a selection of that week (`WeeklyInv`); a prepare works
on its own week and writes the first snapshot or the one there is (`PrepareInv`,
`TodoInv`); the sealed packet is of a week on disk and of the account at its revision
(`MetaInv`, `SealInv`); the Adversary's file is a verdict on this packet (`VerdictInv`);
while reconcile runs the sealed packet stays what it verified (`ReconcilerInv`).
`RankingSelects` shows that liquidity and momentum ranks choose two disjoint sleeves of
the same size out of the universe, whatever the order.

### DecisionChain_proofs and RevisionAuthority_proofs

`DecisionInv` speaks of plans: the writes a command has left, as they stand in the
transaction.  `CommandInv` says that a create-once file is absent or empty until its
last write and that nothing planned conflicts with a current transaction; then a seal
that died anywhere can be replayed (`SealReplayable`).  `ReviewInv`, `FieldInv` and `ReadInv`
say what each stage of the reconcile has read and that it is bound to one verdict.

`AuthorityInv` is short (holdings have the sizes of the menu, `HeldInv`; phases,
`PhaseInv`; what is executed is the reviewed book or a bound revision of it,
`ArtifactInv`): what matters is in the algebra of `Precheck` and `AdversaryBinding`.  The
theorems follow each of the rows a verdict must carry to the units that are filled,
whole or in a common part.

### Operations_proofs

`SupervisorInv`: who holds the start lock and stops has every proxy in its list, and once
it has signalled, none is left that was not told to stop (`StopInv`); so it starts one
beside none (`AtMostOne`).  `AlertInv`: what a poll knows
at each step (`PollInv`), and that ledger, cursor and hook tell the same event unless a
poll is between two of them or died there (`AgreeInv`, `HeardInv`, `BlankInv`).  The
supervisor's invariant is reused in the composition, where it gives the report's rows.

### Only model-checked

The liveness properties `IntentResolved`, `NeverWedged`, `DirectiveConsumed`, `SelfHeals`
and `OutageTold`: fairness and ENABLED are out of the prover's reach.  The violation
`WeekLoads` is TLC's alone.  That the assumptions hold of the code (the launchers take
the lock, the timeouts are those of the scripts) is read from the source and stated in
the modules.

## Plan

Done: the models of the table above, and the proofs of every safety property and
refinement they are checked for.  Left, in this order:

1. Proofs that relate modules: that a task of `DeskSchedule` is a run of `AccountCommit`
   with a replay as one step, and that the commit of `PaperTrading` is one.
2. The directive's finalization inside the attestation of `DeskSchedule`.
3. `Scorecard` watermark and migration, `Reflection` rule lifecycle, recovery of
   manifests of older versions in `AccountCommit`.

## Not modelled

* Reflection, scorecards and their migrations: rule lifecycles and watermarks over
  large histories, planned.
* Performance reporting and research validation: read-only floating-point statistics.
* Market data, vendors and exchange: network access and numerical features; they enter
  as success, failure, lateness or a choice of values.
* Cycle due: a pure decision that only the offline harness `run_desk_cli.py` calls.
* Configuration, prompts and provenance hashing, apart from the build fingerprint of
  the decision chains; the candle client of the proxy.
* Floating-point rounding everywhere: quantities, money and weights are whole numbers.

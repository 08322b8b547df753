------------------------- MODULE WeightChain_proofs -------------------------
(***************************************************************************)
(* Proofs about the weekly decision chain, for every universe, sleeve      *)
(* size, market history, agents' output and number of faults: the ranking  *)
(* selects two disjoint sleeves of equal size, what commits was reviewed   *)
(* and was decided on the account it replaces, and the chain implements    *)
(* the promise that a week's selection is chosen once.                     *)
(***************************************************************************)
EXTENDS WeightChain, FiniteSetTheorems, TLAPS

Sleeves(snapshot) == [long |-> snapshot.long, short |-> snapshot.short]
Chosen(snapshot)  == snapshot \in Snapshots /\ Selection!IsSelection(Sleeves(snapshot))

\* A week's snapshot is a selection of that week.
WeeklyInv ==
    /\ DOMAIN weekly = Week
    /\ \A w \in Week : weekly[w] # None => Chosen(weekly[w]) /\ weekly[w].week = w

\* A prepare works on its own week: the snapshot it writes is the first one of the week or
\* the one that is there, and what it seals is on disk.
Frozen == weekly[WeekOf(command.ts)] = command.weekly
PrepareInv ==
    /\ command.for \in {"weekly", "seal"} =>
         Chosen(command.weekly) /\ command.weekly.week = WeekOf(command.ts)
    /\ command.for = "weekly" =>
         \/ /\ command.todo = <<"snapshot", "pointer">>
            /\ weekly[WeekOf(command.ts)] \in {None, command.weekly}
         \/ command.todo = <<"pointer">> /\ Frozen
    /\ command.for = "seal" => Frozen

\* The writes a command has left.
TodoInv ==
    command.for \in {"seal", "finalize"} =>
        \/ command.for = "seal" /\ command.todo = <<>>
        \/ \E h : command.todo = <<h>> /\ h.file \in {"current", "final_precheck"}
        \/ \E h, k : /\ command.todo = <<h, k>>
                     /\ h.file = (IF command.for = "seal" THEN "meta" ELSE "final")
                     /\ k.file \in {"current", "final_precheck"}

\* A directory with a meta.json, or about to get one, holds a sealed packet.
MetaInv ==
    /\ Meta # None => pending.dir # 0
    /\ command.for = "seal" /\ command.todo # <<>> => pending.dir # 0

\* The packet that is sealed is of a week that is on disk, and its holdings are those of the
\* account as long as that is at the sealed revision.
SealInv ==
    pending.dir # 0 =>
        /\ Packet.week \in Week /\ weekly[Packet.week] = Packet.weekly /\ Packet.weekly # None
        /\ files["market_state"].account \in 0..account.rev
        /\ files["market_state"].account = account.rev => Packet.holdings = account.holdings

\* The Adversary's file is a verdict on this packet.
VerdictInv == files["adversary"] # None => files["adversary"] \in verdicts

\* While reconcile runs, no command does, and the sealed packet stays what it verified.
ReconcilerInv ==
    reconciler # None =>
        /\ command.for = "idle" /\ pending.dir # 0
        /\ reconciler.packet = Packet /\ reconciler.cycle = Packet.cycle
        /\ reconciler.base = files["market_state"].account
        /\ \A s \in Selected(Packet) : reconciler.final.weights[s] \in Int
        /\ ReviewedAs(reconciler.final, reconciler.packet)
        /\ reconciler.stage = "executed" =>
             reconciler.book \in [Symbols -> Int] /\ Achieved(reconciler.book, Packet)

\* The variables have the fields that the steps change.
ShapeInv ==
    /\ now \in Time /\ command.ts \in Time /\ command.stamp \in Nat
    /\ DOMAIN command = {"for", "ts", "stamp", "weekly", "todo"}
    /\ DOMAIN pending = {"current", "dir", "files"} /\ DOMAIN pending.files = File
    /\ account \in [rev : Nat, holdings : [Symbols -> Int]]
    /\ completed \in Nat
    /\ reconciler # None =>
         DOMAIN reconciler = {"stage", "cycle", "packet", "base", "final", "book", "chain"}

WeightInv == /\ ShapeInv /\ WeeklyInv /\ PrepareInv /\ TodoInv /\ MetaInv
             /\ SealInv /\ VerdictInv /\ ReconcilerInv

-----------------------------------------------------------------------------
(* The ranking.                                                            *)

\* Of the members of a finite set under a strict total order, the first n are n.
LEMMA FirstCount ==
  ASSUME NEW U, IsFiniteSet(U), NEW n \in Nat, n <= Cardinality(U), NEW ahead,
         \A s \in U : s \notin ahead[s],
         \A s, x \in U : s # x => x \in ahead[s] \/ s \in ahead[x],
         \A s, x, y \in U : x \in ahead[s] /\ y \in ahead[x] => y \in ahead[s]
  PROVE  Cardinality(First(U, n, ahead)) = n
<1> DEFINE Before(s) == ahead[s] \cap U
           N == Cardinality(U)
           rank == [s \in U |-> Cardinality(Before(s))]
           F == First(U, n, ahead)
<1>1. N \in Nat /\ n <= N
  BY FS_CardinalityType
<1>2. ASSUME NEW s \in U
      PROVE  IsFiniteSet(Before(s)) /\ Cardinality(Before(s)) \in 0..(N - 1)
  <2>1. IsFiniteSet(U \ {s}) /\ Cardinality(U \ {s}) = N - 1
    BY FS_RemoveElement
  <2>2. Before(s) \in SUBSET (U \ {s})
    OBVIOUS
  <2>3. IsFiniteSet(Before(s)) /\ Cardinality(Before(s)) <= N - 1
    BY <2>1, <2>2, FS_Subset
  <2>4. Cardinality(Before(s)) \in Nat
    BY <2>3, FS_CardinalityType
  <2> HIDE DEF N
  <2> QED BY <1>1, <2>3, <2>4
<1>3. ASSUME NEW s \in U, NEW x \in U, x \in ahead[s]
      PROVE  Cardinality(Before(x)) < Cardinality(Before(s))
  <2>1. Before(x) \cup {x} \in SUBSET Before(s) /\ x \notin Before(x)
    BY <1>3
  <2>2. Cardinality(Before(x) \cup {x}) = Cardinality(Before(x)) + 1
    BY <1>2, <2>1, FS_AddElement
  <2>3. Cardinality(Before(x) \cup {x}) <= Cardinality(Before(s))
    BY <1>2, <2>1, FS_Subset
  <2>4. Cardinality(Before(x)) \in Nat /\ Cardinality(Before(s)) \in Nat
    BY <1>2, FS_CardinalityType
  <2> HIDE DEF Before
  <2> QED BY <2>2, <2>3, <2>4
<1>4. rank \in Injection(U, 0..(N - 1))
  <2>1. rank \in [U -> 0..(N - 1)]
    BY <1>2
  <2>2. ASSUME NEW x \in U, NEW y \in U, x # y
        PROVE  rank[x] # rank[y]
    <3> HIDE DEF Before, N
    <3>1. rank[x] < rank[y] \/ rank[y] < rank[x]
      BY <1>3, <2>2
    <3>2. rank[x] \in 0..(N - 1) /\ rank[y] \in 0..(N - 1)
      BY <1>2
    <3> QED BY <1>1, <3>1, <3>2
  <2> HIDE DEF rank
  <2> QED BY <2>1, <2>2 DEF Injection, IsInjective
<1>5. IsFiniteSet(0..(N - 1)) /\ Cardinality(0..(N - 1)) = N
  <2> HIDE DEF N
  <2>1. IsFiniteSet(0..(N - 1)) /\ Cardinality(0..(N - 1)) = IF 0 > N - 1 THEN 0 ELSE N - 1 - 0 + 1
    BY <1>1, FS_Interval
  <2> QED BY <1>1, <2>1
<1>6. rank \in Surjection(U, 0..(N - 1))
  BY <1>4, <1>5, FS_Injection
<1>7. F = {s \in U : rank[s] < n} /\ IsFiniteSet(F)
  <2>1. F = {s \in U : rank[s] < n}
    BY DEF First
  <2> QED BY <2>1, FS_Subset
<1> DEFINE g == [s \in F |-> rank[s]]
<1>8. g \in Bijection(F, 0..(n - 1))
  <2> HIDE DEF rank, F, N
  <2>0. /\ rank \in [U -> 0..(N - 1)]
        /\ \A x, y \in U : rank[x] = rank[y] => x = y
    BY <1>4 DEF Injection, IsInjective
  <2>1. g \in [F -> 0..(n - 1)]
    <3>1. ASSUME NEW s \in F PROVE rank[s] \in 0..(n - 1)
      BY <1>1, <1>7, <2>0
    <3> QED BY <3>1
  <2>2. g \in Injection(F, 0..(n - 1))
    BY <1>7, <2>0, <2>1 DEF Injection, IsInjective
  <2>3. ASSUME NEW k \in 0..(n - 1)
        PROVE  \E s \in F : g[s] = k
    <3>1. k \in 0..(N - 1) /\ k < n
      BY <1>1
    <3>2. PICK s \in U : rank[s] = k
      BY <1>6, <3>1 DEF Surjection
    <3>3. s \in F
      BY <1>7, <3>1, <3>2
    <3> QED BY <3>2, <3>3
  <2>4. g \in Surjection(F, 0..(n - 1))
    BY <2>1, <2>3 DEF Surjection
  <2> QED BY <2>2, <2>4 DEF Bijection
<1>9. Cardinality(0..(n - 1)) = n
  BY FS_Interval
<1> QED BY <1>7, <1>8, <1>9, FS_Bijection DEF ExistsBijection

\* The first n and the last n of a set of at least 2n have no member in common.
LEMMA EndsDisjoint ==
  ASSUME NEW U, IsFiniteSet(U), NEW n \in Nat, 2 * n <= Cardinality(U), NEW ahead, NEW behind,
         \A s, x \in U : s # x => x \in ahead[s] \/ x \in behind[s]
  PROVE  First(U, n, ahead) \cap First(U, n, behind) = {}
<1> SUFFICES ASSUME NEW s \in U, Cardinality(ahead[s] \cap U) < n, Cardinality(behind[s] \cap U) < n
             PROVE  FALSE
  BY DEF First
<1> DEFINE A == ahead[s] \cap U
           B == behind[s] \cap U
<1>1. IsFiniteSet(A) /\ IsFiniteSet(B)
  BY FS_Subset
<1>2. Cardinality(A) \in Nat /\ Cardinality(B) \in Nat /\ Cardinality(A \cap B) \in Nat
  BY <1>1, FS_CardinalityType, FS_Intersection
<1>3. /\ IsFiniteSet(A \cup B)
      /\ Cardinality(A \cup B) = Cardinality(A) + Cardinality(B) - Cardinality(A \cap B)
  BY <1>1, FS_Union
<1>4. /\ IsFiniteSet((A \cup B) \cup {s})
      /\ Cardinality((A \cup B) \cup {s}) <= Cardinality(A \cup B) + 1
  <2>1. Cardinality(A \cup B) \in Nat
    BY <1>3, FS_CardinalityType
  <2> DEFINE C == A \cup B
  <2> HIDE DEF C
  <2>2. /\ IsFiniteSet(C \cup {s})
        /\ Cardinality(C \cup {s}) = IF s \in C THEN Cardinality(C) ELSE Cardinality(C) + 1
    BY <1>3, FS_AddElement DEF C
  <2>3. Cardinality(C) \in Nat
    BY <2>1 DEF C
  <2>4. Cardinality(C \cup {s}) <= Cardinality(C) + 1
    BY <2>2, <2>3
  <2> QED BY <2>2, <2>4 DEF C
<1>5. U \in SUBSET ((A \cup B) \cup {s})
  OBVIOUS
<1>6. Cardinality(U) <= Cardinality((A \cup B) \cup {s}) /\ Cardinality(U) \in Nat
  BY <1>4, <1>5, FS_Subset, FS_CardinalityType
<1>7. Cardinality((A \cup B) \cup {s}) \in Nat
  BY <1>4, FS_CardinalityType
<1>8. Cardinality(A) < n /\ Cardinality(B) < n
  OBVIOUS
<1> HIDE DEF A, B
<1> QED BY <1>2, <1>3, <1>4, <1>6, <1>7, <1>8

\* Outperforming is a strict total order of the symbols: a tie is broken by the symbol.
LEMMA RankingOrders ==
  ASSUME NEW market \in Markets
  PROVE  /\ \A s \in Symbols : s \notin Above(market)[s] /\ s \notin Below(market)[s]
         /\ \A s, x \in Symbols : x \in Above(market)[s] <=> s \in Below(market)[x]
         /\ \A s, x \in Symbols : s # x => x \in Above(market)[s] \/ s \in Above(market)[x]
         /\ \A s, x, y \in Symbols :
              x \in Above(market)[s] /\ y \in Above(market)[x] => y \in Above(market)[s]
<1> DEFINE R(s) == TotalReturn(market, s)
<1>1. \A s \in Symbols : R(s) \in Int /\ s \in Int
  BY WeightAssumption, CrossSectionAssumption DEF TotalReturn
<1>2. \A s, x \in Symbols : Outperforms(market, x, s) <=> R(x) > R(s) \/ (R(x) = R(s) /\ x < s)
  BY DEF Outperforms
<1>3. \A s, x \in Symbols : /\ x \in Above(market)[s] <=> Outperforms(market, x, s)
                            /\ x \in Below(market)[s] <=> Outperforms(market, s, x)
  BY DEF Above, Below
<1> HIDE DEF R
<1>4. \A s \in Symbols : ~Outperforms(market, s, s)
  BY <1>1, <1>2
<1>5. \A s, x \in Symbols : s # x => Outperforms(market, x, s) \/ Outperforms(market, s, x)
  BY <1>1, <1>2
<1>6. \A s, x, y \in Symbols :
        Outperforms(market, x, s) /\ Outperforms(market, y, x) => Outperforms(market, y, s)
  BY <1>1, <1>2
<1> QED BY <1>3, <1>4, <1>5, <1>6

\* WeeklySelection counts as CrossSection does.
LEMMA CountSame == \A S : Selection!Cardinality(S) = Cardinality(S)
  BY DEF Cardinality, Selection!Cardinality

\* The weekly ranking selects: two disjoint sleeves of SleeveSize names.
LEMMA RankingSelects ==
  ASSUME NEW market \in Markets, Rankable(market), NEW t \in Time, NEW stamp \in Nat
  PROVE  LET snapshot == BuildWeeklySnapshot(market, t, stamp)
         IN  Chosen(snapshot) /\ snapshot.week = WeekOf(t)
<1> DEFINE U == Liquid(market)
           long == First(U, SleeveSize, Above(market))
           short == First(U, SleeveSize, Below(market))
<1>1. U \in SUBSET Symbols /\ IsFiniteSet(U) /\ Cardinality(U) = UniverseSize
  <2>1. U \in SUBSET Symbols
    BY DEF Liquid, First, Eligible
  <2> QED BY <2>1, CrossSectionAssumption, FS_Subset DEF Rankable
<1>2. SleeveSize \in Nat \ {0} /\ SleeveSize <= Cardinality(U) /\ 2 * SleeveSize <= Cardinality(U)
  BY <1>1, CrossSectionAssumption
<1> HIDE DEF U
<1>3. Cardinality(long) = SleeveSize
  BY <1>1, <1>2, RankingOrders, FirstCount
<1>4. Cardinality(short) = SleeveSize
  <2>1. \A s, x \in Symbols : s # x => x \in Below(market)[s] \/ s \in Below(market)[x]
    BY RankingOrders
  <2>2. \A s, x, y \in Symbols :
          x \in Below(market)[s] /\ y \in Below(market)[x] => y \in Below(market)[s]
    BY RankingOrders
  <2> QED BY <1>1, <1>2, <2>1, <2>2, RankingOrders, FirstCount
<1>5. long \cap short = {}
  <2>1. \A s, x \in U : s # x => x \in Above(market)[s] \/ x \in Below(market)[s]
    BY <1>1, RankingOrders
  <2> QED BY <1>1, <1>2, <2>1, EndsDisjoint
<1>6. long \in SUBSET Symbols /\ short \in SUBSET Symbols
  BY <1>1 DEF First
<1>7. long # {}
  <2>1. Cardinality({}) = 0
    BY FS_EmptySet
  <2> QED BY <1>2, <1>3, <2>1
<1> DEFINE snapshot == BuildWeeklySnapshot(market, t, stamp)
<1>8. /\ snapshot.long = long /\ snapshot.short = short /\ snapshot.week = WeekOf(t)
      /\ snapshot = [week |-> WeekOf(t), created |-> stamp, universe |-> U,
                     long |-> long, short |-> short]
  BY DEF BuildWeeklySnapshot, U
<1>9. WeekOf(t) \in Int
  BY CrossSectionAssumption, WeightAssumption DEF WeekOf, Time
<1> HIDE DEF long, short, snapshot
<1>10. snapshot \in Snapshots
  BY <1>1, <1>6, <1>8, <1>9 DEF Snapshots
<1>11. Selection!IsSelection(Sleeves(snapshot))
  BY <1>3, <1>4, <1>5, <1>6, <1>7, <1>8, CountSame DEF Sleeves, Selection!IsSelection
<1> QED BY <1>8, <1>10, <1>11 DEF Chosen, snapshot

-----------------------------------------------------------------------------
(* The invariant.                                                          *)

LEMMA WeekTyped == \A t \in Time : WeekOf(t) \in Week
<1> SUFFICES ASSUME NEW t \in Time PROVE WeekOf(t) \in Week
  OBVIOUS
<1>1. /\ t \in Nat /\ Horizon \in Nat /\ t <= Horizon
      /\ WeekLength \in Nat /\ WeekLength > 0
  BY WeightAssumption, CrossSectionAssumption DEF Time
<1>2. /\ t \div WeekLength \in Nat /\ Horizon \div WeekLength \in Nat
      /\ t \div WeekLength <= Horizon \div WeekLength
  BY <1>1
<1> QED BY <1>2 DEF WeekOf, Week

\* A desk that has never traded.
LEMMA WeightInit == Init => WeightInv
<1> SUFFICES ASSUME Init PROVE WeightInv
  OBVIOUS
<1>1. ShapeInv
  <2>1. 0 \in Time
    BY WeightAssumption DEF Time
  <2> QED BY <2>1 DEF Init, ShapeInv, Idle, NoFiles
<1>2. WeeklyInv
  BY DEF Init, WeeklyInv
<1>3. PrepareInv /\ TodoInv /\ MetaInv
  BY DEF Init, PrepareInv, TodoInv, MetaInv, Idle, NoFiles, files, Meta, File, Sealed
<1>4. SealInv /\ VerdictInv /\ ReconcilerInv
  BY DEF Init, SealInv, VerdictInv, ReconcilerInv, NoFiles, files, File, Sealed
<1> QED BY <1>1, <1>2, <1>3, <1>4 DEF WeightInv

\* A file that is not the packet or the market state.
LEMMA FileWritten ==
  ASSUME ShapeInv, VerdictInv, NEW f \in File \ {"weight_packet", "market_state"}, NEW value,
         pending' = [pending EXCEPT !.files[f] = value],
         verdicts \subseteq verdicts', f = "adversary" => value \in verdicts'
  PROVE  /\ DOMAIN pending' = {"current", "dir", "files"} /\ DOMAIN pending'.files = File
         /\ pending'.dir = pending.dir
         /\ Packet' = Packet /\ files'["market_state"] = files["market_state"]
         /\ f # "meta" => Meta' = Meta
         /\ VerdictInv'
<1>1. {"meta", "weight_packet", "market_state", "adversary"} \subseteq File
  BY DEF File, Sealed
<1>2. /\ DOMAIN pending' = {"current", "dir", "files"} /\ pending'.dir = pending.dir
      /\ pending'.files = [pending.files EXCEPT ![f] = value]
  BY DEF ShapeInv
<1>3. DOMAIN pending'.files = File
  BY <1>2 DEF ShapeInv
<1>4. \A g \in File : pending'.files[g] = IF g = f THEN value ELSE pending.files[g]
  BY <1>2 DEF ShapeInv
<1>5. VerdictInv'
  BY <1>1, <1>4 DEF VerdictInv, files
<1> QED BY <1>1, <1>2, <1>3, <1>4, <1>5 DEF files, Packet, Meta

\* The reconcile in progress is not disturbed by what leaves the packet, the market state
\* and the verdicts.
LEMMA ReconcilerKept ==
  ASSUME ReconcilerInv, UNCHANGED reconciler, verdicts \subseteq verdicts',
         Packet' = Packet, files'["market_state"] = files["market_state"],
         pending'.dir = pending.dir, reconciler # None => command'.for = "idle"
  PROVE  ReconcilerInv'
<1> SUFFICES ASSUME reconciler # None PROVE ReconcilerInv'
  BY DEF ReconcilerInv
<1>1. ReviewedAs(reconciler.final, reconciler.packet)'
  BY DEF ReconcilerInv, ReviewedAs
<1> QED BY <1>1 DEF ReconcilerInv

\* Nor is the sealed packet.
LEMMA SealKept ==
  ASSUME SealInv, WeeklyInv, UNCHANGED <<weekly, account>>, Packet' = Packet,
         files'["market_state"] = files["market_state"], pending'.dir = pending.dir
  PROVE  SealInv'
  BY DEF SealInv

-----------------------------------------------------------------------------
(* prepare.                                                                *)

LEMMA Prepares ==
  ASSUME WeightInv,
         PrepareLoads \/ \E market \in {m \in Markets : Rankable(m)} : PrepareBuilds(market)
  PROVE  WeightInv'
<1> USE DEF WeightInv
<1>1. /\ command.for = "idle" /\ reconciler = None
      /\ UNCHANGED <<now, weekly, pending, account, reconciler, completed, verdicts>>
  BY DEF PrepareLoads, PrepareBuilds, Free, done, history
<1>2. WeekOf(now) \in Week
  BY WeekTyped DEF ShapeInv
<1>3. /\ DOMAIN command' = {"for", "ts", "stamp", "weekly", "todo"}
      /\ command'.ts = now /\ command'.stamp \in Nat
  BY DEF PrepareLoads, PrepareBuilds, Enter, ShapeInv
<1>4. PrepareInv' /\ TodoInv' /\ (command'.for = "seal" => command'.todo = <<>>)
  <2>1. CASE PrepareLoads
    <3>1. /\ command'.for = "seal" /\ command'.todo = <<>> /\ command'.ts = now
          /\ command'.weekly = weekly[WeekOf(now)] /\ weekly[WeekOf(now)] # None
      BY <2>1 DEF PrepareLoads, Enter
    <3>2. Chosen(command'.weekly) /\ command'.weekly.week = WeekOf(now)
      BY <1>2, <3>1 DEF WeeklyInv
    <3> QED BY <1>1, <3>1, <3>2 DEF PrepareInv, TodoInv, Frozen
  <2>2. ASSUME NEW market \in Markets, Rankable(market), PrepareBuilds(market)
        PROVE  PrepareInv' /\ TodoInv' /\ (command'.for = "seal" => command'.todo = <<>>)
    <3>1. /\ command'.for = "weekly" /\ command'.todo = <<"snapshot", "pointer">>
          /\ command'.ts = now
          /\ command'.weekly = BuildWeeklySnapshot(market, now, command.stamp + 1)
          /\ weekly[WeekOf(now)] \in {None, command'.weekly}
      BY <2>2 DEF PrepareBuilds, Enter, WriteWeeklySnapshot
    <3>2. now \in Time /\ command.stamp + 1 \in Nat
      BY DEF ShapeInv
    <3>3. Chosen(command'.weekly) /\ command'.weekly.week = WeekOf(now)
      BY <2>2, <3>1, <3>2, RankingSelects
    <3> QED BY <1>1, <3>1, <3>3 DEF PrepareInv, TodoInv
  <2> QED BY <2>1, <2>2
<1>5. ShapeInv'
  BY <1>1, <1>3 DEF ShapeInv
<1>6. WeeklyInv' /\ MetaInv' /\ SealInv' /\ VerdictInv' /\ ReconcilerInv'
  BY <1>1, <1>4
  DEF WeeklyInv, MetaInv, SealInv, VerdictInv, ReconcilerInv, files, Meta, Packet
<1> QED BY <1>4, <1>5, <1>6

LEMMA WeeklyWritten ==
  ASSUME WeightInv, WriteWeekly
  PROVE  WeightInv'
<1> USE DEF WeightInv
<1> DEFINE w == WeekOf(command.ts)
<1>1. /\ command.for = "weekly" /\ w \in Week /\ command.todo # <<>>
      /\ UNCHANGED <<now, pending, account, reconciler, completed, verdicts>>
  BY WeekTyped DEF WriteWeekly, ShapeInv, PrepareInv, done, history
<1>2. reconciler = None
  BY <1>1 DEF ReconcilerInv
<1>3. Chosen(command.weekly) /\ command.weekly.week = w /\ weekly[w] \in {None, command.weekly}
  BY <1>1 DEF PrepareInv, Frozen
<1>4. CASE Head(command.todo) = "snapshot"
  <2>1. /\ weekly' = [weekly EXCEPT ![w] = command.weekly]
        /\ command' = [command EXCEPT !.todo = Tail(@)]
    BY <1>4 DEF WriteWeekly
  <2>2. command.todo = <<"snapshot", "pointer">>
    BY <1>1, <1>4 DEF PrepareInv
  <2>3. Tail(command.todo) = <<"pointer">>
    BY <2>2
  <2>4. command' = [command EXCEPT !.todo = <<"pointer">>]
    BY <2>1, <2>3
  <2>5. ShapeInv'
    BY <1>1, <1>2, <2>4 DEF ShapeInv
  <2>6. WeeklyInv'
    BY <1>1, <1>3, <2>1 DEF WeeklyInv
  <2>7. PrepareInv' /\ TodoInv' /\ MetaInv'
    BY <1>1, <1>3, <2>1, <2>4 DEF PrepareInv, TodoInv, MetaInv, Frozen, ShapeInv, WeeklyInv, Meta, files
  <2>8. SealInv'
    BY <1>1, <1>3, <2>1 DEF SealInv, Packet, files, WeeklyInv
  <2>9. VerdictInv' /\ ReconcilerInv'
    BY <1>1, <1>2 DEF VerdictInv, ReconcilerInv, files
  <2> QED BY <2>5, <2>6, <2>7, <2>8, <2>9
<1>5. CASE Head(command.todo) # "snapshot"
  <2>1. /\ weekly' = weekly
        /\ command' = [command EXCEPT !.for = "seal", !.todo = <<>>]
    BY <1>5 DEF WriteWeekly
  <2>2. Frozen
    <3>1. Head(<<"snapshot", "pointer">>) = "snapshot"
      OBVIOUS
    <3> QED BY <1>1, <1>5, <3>1 DEF PrepareInv
  <2>3. ShapeInv'
    BY <1>1, <1>2, <2>1 DEF ShapeInv
  <2>4. PrepareInv' /\ TodoInv' /\ MetaInv'
    BY <1>1, <1>3, <2>1, <2>2 DEF PrepareInv, TodoInv, MetaInv, Frozen, ShapeInv, Meta, files
  <2>5. WeeklyInv' /\ SealInv' /\ VerdictInv' /\ ReconcilerInv'
    BY <1>1, <1>2, <2>1 DEF WeeklyInv, SealInv, VerdictInv, ReconcilerInv, files, Packet
  <2> QED BY <2>3, <2>4, <2>5
<1> QED BY <1>4, <1>5

LEMMA Seals ==
  ASSUME WeightInv, Seal
  PROVE  WeightInv'
<1> USE DEF WeightInv
<1>1. /\ command.for = "seal" /\ WeekOf(command.ts) \in Week /\ Chosen(command.weekly)
      /\ command.weekly.week = WeekOf(command.ts) /\ Frozen
      /\ UNCHANGED <<now, weekly, account, reconciler, completed>> /\ reconciler = None
  BY WeekTyped DEF Seal, ShapeInv, PrepareInv, ReconcilerInv, done
<1>2. /\ pending'.dir = completed + 1 /\ DOMAIN pending' = {"current", "dir", "files"}
      /\ DOMAIN pending'.files = File
      /\ pending'.files["meta"] = None /\ pending'.files["adversary"] = None
      /\ pending'.files["market_state"].account = account.rev
      /\ pending'.files["weight_packet"].week = command.weekly.week
      /\ pending'.files["weight_packet"].weekly = command.weekly
      /\ pending'.files["weight_packet"].holdings = account.holdings
  BY DEF Seal, ShapeInv, NoFiles, File, Sealed, Cycle
<1>3. \E m, c : /\ command' = [command EXCEPT !.todo = <<m, c>>]
               /\ m.file = "meta" /\ c.file = "current"
  <2>1. \E value : command' = [command EXCEPT !.todo = <<[file |-> "meta", value |-> value],
                                                       [file |-> "current", value |-> Cycle]>>]
    BY Zenon DEF Seal
  <2>2. PICK value : command' = [command EXCEPT !.todo = <<[file |-> "meta", value |-> value],
                                                           [file |-> "current", value |-> Cycle]>>]
    BY <2>1
  <2> DEFINE m == [file |-> "meta", value |-> value]
             c == [file |-> "current", value |-> Cycle]
  <2>3. m.file = "meta" /\ c.file = "current" /\ command' = [command EXCEPT !.todo = <<m, c>>]
    BY <2>2
  <2> HIDE DEF m, c
  <2> QED BY <2>3
<1>4. ShapeInv'
  BY <1>1, <1>2, <1>3 DEF ShapeInv
<1>5. PrepareInv' /\ TodoInv'
  BY <1>1, <1>3 DEF PrepareInv, TodoInv, Frozen, ShapeInv
<1>6. MetaInv' /\ VerdictInv'
  BY <1>2 DEF MetaInv, VerdictInv, Meta, files, ShapeInv
<1>7. SealInv'
  <2>1. command.weekly # None
    BY <1>1, WeightAssumption DEF Chosen
  <2>2. account.rev \in 0..account.rev
    BY DEF ShapeInv
  <2> QED BY <1>1, <1>2, <2>1, <2>2 DEF SealInv, Packet, files, Frozen
<1>8. WeeklyInv' /\ ReconcilerInv'
  BY <1>1 DEF WeeklyInv, ReconcilerInv
<1> QED BY <1>4, <1>5, <1>6, <1>7, <1>8

LEMMA NextWritten ==
  ASSUME WeightInv, WriteNext
  PROVE  WeightInv'
<1> USE DEF WeightInv
<1> DEFINE h == Head(command.todo)
<1>1. /\ command.for \in {"seal", "finalize"} /\ command.todo # <<>>
      /\ UNCHANGED <<now, weekly, account, reconciler, completed, verdicts>> /\ reconciler = None
  BY DEF WriteNext, ReconcilerInv, done
<1>2. /\ h.file \in {"meta", "final", "current", "final_precheck"}
      /\ h.file = "meta" => pending.dir # 0
      /\ \/ \E k : /\ command' = [command EXCEPT !.todo = <<k>>]
                   /\ k.file \in {"current", "final_precheck"}
         \/ command' = [Idle EXCEPT !.stamp = command.stamp]
  <2>1. CASE \E k : command.todo = <<k>> /\ k.file \in {"current", "final_precheck"}
    <3>1. PICK k : command.todo = <<k>> /\ k.file \in {"current", "final_precheck"}
      BY <2>1
    <3>2. h = k /\ Len(command.todo) = 1
      BY <3>1
    <3> QED BY <3>1, <3>2 DEF WriteNext
  <2>2. CASE \E j, k : /\ command.todo = <<j, k>>
                       /\ j.file = (IF command.for = "seal" THEN "meta" ELSE "final")
                       /\ k.file \in {"current", "final_precheck"}
    <3>1. PICK j, k : /\ command.todo = <<j, k>>
                      /\ j.file = (IF command.for = "seal" THEN "meta" ELSE "final")
                      /\ k.file \in {"current", "final_precheck"}
      BY <2>2
    <3>2. h = j /\ Len(command.todo) = 2 /\ Tail(command.todo) = <<k>>
      BY <3>1
    <3>3. command' = [command EXCEPT !.todo = <<k>>]
      <4>1. command' = [command EXCEPT !.todo = Tail(@)]
        BY <3>2 DEF WriteNext
      <4> QED BY <3>2, <4>1
    <3>4. h.file = "meta" => pending.dir # 0
      BY <1>1, <3>1, <3>2 DEF MetaInv
    <3> QED BY <3>1, <3>2, <3>3, <3>4
  <2> QED BY <1>1, <2>1, <2>2 DEF TodoInv
<1>3. /\ DOMAIN pending' = {"current", "dir", "files"} /\ DOMAIN pending'.files = File
      /\ pending'.dir = pending.dir /\ Packet' = Packet
      /\ files'["market_state"] = files["market_state"]
      /\ Meta' # None => pending.dir # 0
      /\ VerdictInv'
  <2>1. CASE h.file = "current"
    <3>1. pending' = [pending EXCEPT !.current = h.value]
      BY <2>1 DEF WriteNext
    <3> QED BY <1>1, <3>1 DEF ShapeInv, MetaInv, VerdictInv, Packet, Meta, files
  <2>2. CASE h.file # "current"
    <3>1. pending' = [pending EXCEPT !.files[h.file] = h.value]
      BY <2>2 DEF WriteNext
    <3>2. h.file \in File \ {"weight_packet", "market_state"} /\ h.file # "adversary"
      BY <1>2, <2>2 DEF File
    <3> HIDE DEF h
    <3> QED BY <1>1, <1>2, <3>1, <3>2, FileWritten DEF MetaInv
  <2> QED BY <2>1, <2>2
<1>4. ShapeInv'
  <2>1. /\ DOMAIN command' = {"for", "ts", "stamp", "weekly", "todo"}
        /\ command'.ts \in Time /\ command'.stamp \in Nat
    <3>1. 0 \in Time
      BY WeightAssumption DEF Time
    <3> QED BY <1>2, <3>1 DEF ShapeInv, Idle
  <2> QED BY <1>1, <1>3, <2>1 DEF ShapeInv
<1>5. PrepareInv' /\ TodoInv' /\ MetaInv'
  <2>1. CASE command' = [Idle EXCEPT !.stamp = command.stamp]
    BY <1>3, <2>1 DEF PrepareInv, TodoInv, MetaInv, Idle
  <2>2. ASSUME NEW k, command' = [command EXCEPT !.todo = <<k>>],
               k.file \in {"current", "final_precheck"}
        PROVE  PrepareInv' /\ TodoInv' /\ MetaInv'
    <3>1. command'.for = command.for /\ command'.ts = command.ts
          /\ command'.weekly = command.weekly /\ command'.todo = <<k>>
      BY <2>2 DEF ShapeInv
    <3>2. PrepareInv' /\ TodoInv'
      BY <1>1, <2>2, <3>1 DEF PrepareInv, TodoInv, Frozen
    <3>3. MetaInv'
      BY <1>1, <1>3, <3>1 DEF MetaInv
    <3> QED BY <3>2, <3>3
  <2> QED BY <1>2, <2>1, <2>2
<1>6. WeeklyInv' /\ SealInv' /\ ReconcilerInv'
  BY <1>1, <1>3, SealKept DEF WeeklyInv, ReconcilerInv
<1> QED BY <1>3, <1>4, <1>5, <1>6

-----------------------------------------------------------------------------
(* The agents and the commands between them.                               *)

\* A step that writes one file that is not the packet, the market state or meta.json.
LEMMA FileSteps ==
  ASSUME WeightInv, NEW f \in File \ {"weight_packet", "market_state", "meta"}, NEW value,
         pending' = [pending EXCEPT !.files[f] = value],
         verdicts \subseteq verdicts', f = "adversary" => value \in verdicts',
         UNCHANGED <<now, weekly, account, command, reconciler, completed>>
  PROVE  WeightInv'
<1> USE DEF WeightInv
<1>1. /\ DOMAIN pending' = {"current", "dir", "files"} /\ DOMAIN pending'.files = File
      /\ pending'.dir = pending.dir /\ Packet' = Packet /\ Meta' = Meta
      /\ files'["market_state"] = files["market_state"] /\ VerdictInv'
  BY FileWritten
<1>2. ShapeInv' /\ WeeklyInv' /\ PrepareInv' /\ TodoInv' /\ MetaInv'
  BY <1>1 DEF ShapeInv, WeeklyInv, PrepareInv, TodoInv, MetaInv, Frozen
<1>3. SealInv' /\ ReconcilerInv'
  BY <1>1, SealKept, ReconcilerKept DEF ReconcilerInv
<1> QED BY <1>1, <1>2, <1>3

LEMMA AgentSteps ==
  ASSUME WeightInv, Agent
  PROVE  WeightInv'
<1>1. {"alpha", "risk", "pm", "revision", "adversary"}
        \subseteq File \ {"weight_packet", "market_state", "meta"}
  BY DEF File, Sealed
<1>2. ASSUME NEW f \in {"alpha", "risk", "pm", "revision"}, NEW value,
             AgentWrites(f, value), UNCHANGED verdicts
      PROVE  WeightInv'
  BY <1>1, <1>2, FileSteps DEF AgentWrites, done
<1>3. ASSUME NEW v, AgentWrites("adversary", v), verdicts' = verdicts \cup {v}
      PROVE  WeightInv'
  BY <1>1, <1>3, FileSteps DEF AgentWrites, done
<1>4. CASE Allocate("alpha") \/ Allocate("risk")
  BY <1>2, <1>4 DEF Allocate
<1>5. CASE PmDecides \/ PmRevises
  BY <1>2, <1>5 DEF PmDecides, PmRevises
<1>6. CASE AdversaryDecides
  BY <1>3, <1>6 DEF AdversaryDecides
<1> QED BY <1>4, <1>5, <1>6 DEF Agent

LEMMA ValidateSteps ==
  ASSUME WeightInv, ConsensusInput \/ Precheck \/ AdversaryDigest
  PROVE  WeightInv'
<1>1. ASSUME NEW check, NEW f \in {"digest", "precheck", "revision_digest"}, NEW value,
             Validate(check, f, value)
      PROVE  WeightInv'
  <2>1. f \in File \ {"weight_packet", "market_state", "meta"} /\ f # "adversary"
    BY DEF File
  <2> QED BY <1>1, <2>1, FileSteps DEF Validate, done, history
<1> QED BY <1>1 DEF ConsensusInput, Precheck, AdversaryDigest

LEMMA FinalizeStep ==
  ASSUME WeightInv, Finalize
  PROVE  WeightInv'
<1> USE DEF WeightInv
<1>1. /\ command.for = "idle" /\ reconciler = None
      /\ UNCHANGED <<now, weekly, pending, account, reconciler, completed, verdicts>>
  BY DEF Finalize, Free, done, history
<1>2. \E h, k : /\ command' = [command EXCEPT !.for = "finalize", !.todo = <<h, k>>]
               /\ h.file = "final" /\ k.file = "final_precheck"
  <2>1. \E x, y : command' = [command EXCEPT !.for = "finalize", !.todo =
                     <<[file |-> "final", value |-> x], [file |-> "final_precheck", value |-> y]>>]
    BY Zenon DEF Finalize
  <2>2. PICK x, y : command' = [command EXCEPT !.for = "finalize", !.todo =
                      <<[file |-> "final", value |-> x], [file |-> "final_precheck", value |-> y]>>]
    BY <2>1
  <2> DEFINE h == [file |-> "final", value |-> x]
             k == [file |-> "final_precheck", value |-> y]
  <2>3. /\ h.file = "final" /\ k.file = "final_precheck"
        /\ command' = [command EXCEPT !.for = "finalize", !.todo = <<h, k>>]
    BY <2>2
  <2> HIDE DEF h, k
  <2> QED BY <2>3
<1>3. ShapeInv' /\ PrepareInv' /\ TodoInv' /\ MetaInv'
  BY <1>1, <1>2 DEF ShapeInv, PrepareInv, TodoInv, MetaInv, Meta, files
<1>4. WeeklyInv' /\ SealInv' /\ VerdictInv' /\ ReconcilerInv'
  BY <1>1 DEF WeeklyInv, SealInv, VerdictInv, ReconcilerInv, Packet, files
<1> QED BY <1>3, <1>4

-----------------------------------------------------------------------------
(* reconcile.                                                              *)

\* A verified chain ends in what the Adversary accepted, or in the revision it asked for.
LEMMA VerifiedIsReviewed ==
  ASSUME VerdictInv, Final
  PROVE  ReviewedAs(Decided, Packet) /\ \A s \in Selected(Packet) : Decided.weights[s] \in Int
<1> DEFINE v == files["adversary"]
<1>1. v \in verdicts /\ v.packet = Packet.id /\ v.allocation = files["pm"]
  BY DEF VerdictInv, Final, Reviewed, VerdictBound
<1>2. MinWeight..MaxWeight \subseteq Int
  OBVIOUS
<1>3. CASE v.accept
  <2>1. Decided = v.allocation /\ ValidateAllocation(Decided, Packet, "pm")
    BY <1>1, <1>3 DEF Decided, Final, Reviewed, PmBound
  <2>2. ReviewedAs(Decided, Packet)
    BY <1>1, <1>3, <2>1 DEF ReviewedAs
  <2> QED BY <1>2, <2>1, <2>2 DEF ValidateAllocation
<1>4. CASE ~v.accept
  <2>1. /\ ValidateRevisionConstraints(Decided, Packet, v.constraints)
        /\ Decided.src = [pm |-> v.allocation, adversary |-> v]
    BY <1>1, <1>4 DEF Decided, Final, RevisionBound, RevisionSources
  <2>2. ReviewedAs(Decided, Packet)
    BY <1>1, <1>4, <2>1 DEF ReviewedAs, ValidateRevisionConstraints
  <2> QED BY <1>2, <2>1, <2>2 DEF ValidateAllocation, ValidateRevisionConstraints
<1> QED BY <1>3, <1>4

LEMMA VerifyStep ==
  ASSUME WeightInv, Verify
  PROVE  WeightInv'
<1> USE DEF WeightInv
<1>1. /\ command.for = "idle" /\ Final /\ BoundPacket /\ AccountAsSealed
      /\ UNCHANGED <<now, weekly, pending, account, command, completed, verdicts>>
  BY DEF Verify, Free, VerifiedFinal, PacketIntact, done, history
<1>2. pending.dir # 0
  BY <1>1 DEF BoundPacket, Resolvable, MetaInv
<1>3. reconciler' = [stage |-> "verified", cycle |-> Packet.cycle, packet |-> Packet,
                     base |-> account.rev, final |-> Decided, book |-> <<>>,
                     chain |-> [f \in Audited |-> files[f]]]
  BY DEF Verify
<1>4. /\ DOMAIN reconciler' = {"stage", "cycle", "packet", "base", "final", "book", "chain"}
      /\ reconciler'.stage = "verified" /\ reconciler'.cycle = Packet.cycle
      /\ reconciler'.packet = Packet /\ reconciler'.base = account.rev
      /\ reconciler'.final = Decided
  BY <1>3
<1>5. ReviewedAs(reconciler.final, reconciler.packet)'
  <2>1. ReviewedAs(Decided, Packet)
    BY <1>1, VerifiedIsReviewed
  <2> QED BY <1>1, <1>4, <2>1 DEF ReviewedAs
<1>6. \A s \in Selected(Packet) : Decided.weights[s] \in Int
  BY <1>1, VerifiedIsReviewed
<1>7. Packet' = Packet /\ files' = files /\ Meta' = Meta
  BY <1>1 DEF Packet, files, Meta
<1>8. ReconcilerInv'
  BY <1>1, <1>2, <1>4, <1>5, <1>6, <1>7 DEF ReconcilerInv, AccountAsSealed
<1>9. ShapeInv'
  BY <1>1, <1>4 DEF ShapeInv
<1>10. WeeklyInv' /\ PrepareInv' /\ TodoInv' /\ MetaInv' /\ SealInv' /\ VerdictInv'
  BY <1>1, <1>7 DEF WeeklyInv, PrepareInv, TodoInv, MetaInv, SealInv, VerdictInv, Frozen
<1> QED BY <1>8, <1>9, <1>10

\* What a market capture can fill is a book of whole units.
LEMMA FillsTyped ==
  ASSUME NEW a, NEW p, \A s \in Selected(p) : a.weights[s] \in Int
  PROVE  \A h \in Fills(a, p) : h \in [Symbols -> Int]
<1> DEFINE full == [s \in Symbols |-> Target(a, p, s)]
<1>1. \A s \in Symbols : Side(p, s) \in Int
  BY DEF Side
<1>2. ASSUME NEW s \in Symbols PROVE Target(a, p, s) \in Int
  BY <1>1 DEF Target
<1>3. full \in [Symbols -> Int]
  BY <1>2
<1>4. ASSUME NEW s \in Selected(p) \cap Thin
      PROVE  [full EXCEPT ![s] = @ - Side(p, s)] \in [Symbols -> Int]
  <2>1. CASE s \in Symbols
    BY <1>1, <1>3, <2>1
  <2>2. CASE s \notin Symbols
    BY <1>3, <2>2
  <2> QED BY <2>1, <2>2
<1> QED BY <1>3, <1>4 DEF Fills

LEMMA ExecuteStep ==
  ASSUME WeightInv, reconciler # None, Execute
  PROVE  WeightInv'
<1> USE DEF WeightInv
<1>1. UNCHANGED <<now, weekly, pending, account, command, completed, verdicts>>
  BY DEF Execute, done, history
<1>2. PICK h \in Fills(reconciler.final, reconciler.packet) :
        /\ Achieved(h, reconciler.packet)
        /\ reconciler' = [reconciler EXCEPT !.stage = "executed", !.book = h]
  BY DEF Execute
<1>3. h \in [Symbols -> Int]
  BY FillsTyped DEF ReconcilerInv
<1>4. /\ DOMAIN reconciler' = DOMAIN reconciler /\ reconciler'.book = h
      /\ reconciler'.cycle = reconciler.cycle /\ reconciler'.packet = reconciler.packet
      /\ reconciler'.base = reconciler.base /\ reconciler'.final = reconciler.final
  BY <1>2 DEF ShapeInv
<1>5. Packet' = Packet /\ files' = files /\ Meta' = Meta
  BY <1>1 DEF Packet, files, Meta
<1>6. ReviewedAs(reconciler.final, reconciler.packet)'
  BY <1>1, <1>4 DEF ReconcilerInv, ReviewedAs
<1>7. ReconcilerInv'
  BY <1>1, <1>2, <1>3, <1>4, <1>5, <1>6 DEF ReconcilerInv
<1>8. ShapeInv'
  BY <1>1, <1>4 DEF ShapeInv
<1>9. WeeklyInv' /\ PrepareInv' /\ TodoInv' /\ MetaInv' /\ SealInv' /\ VerdictInv'
  BY <1>1, <1>5 DEF WeeklyInv, PrepareInv, TodoInv, MetaInv, SealInv, VerdictInv, Frozen
<1> QED BY <1>7, <1>8, <1>9

LEMMA CommitStep ==
  ASSUME WeightInv, reconciler # None, reconciler.stage = "executed", Commit
  PROVE  WeightInv'
<1> USE DEF WeightInv
<1>1. /\ UNCHANGED <<now, weekly, pending, command, verdicts>> /\ reconciler' = None
      /\ completed' = completed + 1
      /\ account' = [rev |-> account.rev + 1, holdings |-> reconciler.book]
  BY DEF Commit, history
<1>2. Packet' = Packet /\ files' = files /\ Meta' = Meta
  BY <1>1 DEF Packet, files, Meta
<1>3. ShapeInv'
  BY <1>1 DEF ShapeInv, ReconcilerInv
<1>4. SealInv'
  <2>1. account.rev \in Nat /\ account'.rev = account.rev + 1
    BY <1>1 DEF ShapeInv
  <2> QED BY <1>1, <1>2, <2>1 DEF SealInv
<1>5. WeeklyInv' /\ PrepareInv' /\ TodoInv' /\ MetaInv' /\ VerdictInv' /\ ReconcilerInv'
  BY <1>1, <1>2 DEF WeeklyInv, PrepareInv, TodoInv, MetaInv, VerdictInv, ReconcilerInv, Frozen
<1> QED BY <1>3, <1>4, <1>5

LEMMA HaltStep ==
  ASSUME WeightInv, Halt
  PROVE  WeightInv'
<1> USE DEF WeightInv
<1>1. /\ UNCHANGED <<now, weekly, pending, account, command, completed, verdicts>>
      /\ reconciler' = None
  BY DEF Halt, done, history
<1> QED
  BY <1>1
  DEF ShapeInv, WeeklyInv, PrepareInv, TodoInv, MetaInv, SealInv, VerdictInv, ReconcilerInv,
      Frozen, Packet, Meta, files

\* Time, heartbeats, deploys and dying commands.
LEMMA SurroundingSteps ==
  ASSUME WeightInv, Tick \/ Heartbeat \/ Deploy \/ Crash
  PROVE  WeightInv'
<1> USE DEF WeightInv
<1>1. UNCHANGED <<weekly, pending, reconciler, completed, verdicts>>
  BY DEF Tick, Heartbeat, Deploy, Crash, done, history
<1>2. Packet' = Packet /\ files' = files /\ Meta' = Meta
  BY <1>1 DEF Packet, files, Meta
<1>3. /\ account' \in [rev : Nat, holdings : [Symbols -> Int]] /\ account'.rev >= account.rev
      /\ account'.rev = account.rev => account'.holdings = account.holdings
  BY DEF Tick, Heartbeat, Deploy, Crash, ShapeInv
<1>4. now' \in Time
  BY WeightAssumption DEF Tick, Heartbeat, Deploy, Crash, ShapeInv, Time
<1>5. /\ DOMAIN command' = {"for", "ts", "stamp", "weekly", "todo"}
      /\ command'.ts \in Time /\ command'.stamp \in Nat
      /\ command' = command \/ (command'.for = "idle" /\ command.for # "idle")
  <2>1. CASE Crash
    <3>1. 0 \in Time
      BY WeightAssumption DEF Time
    <3>2. command' = [Idle EXCEPT !.stamp = command.stamp] /\ command.for # "idle"
      BY <2>1 DEF Crash
    <3> QED BY <3>1, <3>2 DEF ShapeInv, Idle
  <2>2. CASE Tick \/ Heartbeat \/ Deploy
    BY <2>2 DEF Tick, Heartbeat, Deploy, ShapeInv
  <2> QED BY <2>1, <2>2
<1>6. ShapeInv'
  BY <1>1, <1>3, <1>4, <1>5 DEF ShapeInv
<1>7. WeeklyInv' /\ PrepareInv' /\ TodoInv' /\ MetaInv' /\ VerdictInv'
  BY <1>1, <1>2, <1>5
  DEF WeeklyInv, PrepareInv, TodoInv, MetaInv, VerdictInv, Frozen
<1>8. SealInv'
  <2>1. account.rev \in Nat /\ account'.rev \in Nat
    BY <1>3 DEF ShapeInv
  <2> QED BY <1>1, <1>2, <1>3, <2>1 DEF SealInv
<1>9. ReconcilerInv'
  <2>1. reconciler # None => command'.for = "idle"
    BY <1>5 DEF ReconcilerInv
  <2> QED BY <1>1, <1>2, <2>1, ReconcilerKept
<1> QED BY <1>6, <1>7, <1>8, <1>9

LEMMA WeightStep ==
  ASSUME WeightInv, [Next]_vars
  PROVE  WeightInv'
<1>1. CASE Reconcile
  BY <1>1, VerifyStep, ExecuteStep, CommitStep, HaltStep DEF Reconcile
<1>2. CASE UNCHANGED vars
  BY <1>2
  DEF vars, done, history, WeightInv, ShapeInv, WeeklyInv, PrepareInv, TodoInv, MetaInv, SealInv,
      VerdictInv, ReconcilerInv, Frozen, Packet, Meta, files, ReviewedAs
<1> QED
  BY <1>1, <1>2, Prepares, WeeklyWritten, Seals, NextWritten, AgentSteps, ValidateSteps,
     FinalizeStep, SurroundingSteps
  DEF Next

-----------------------------------------------------------------------------
\* The invariant of the weekly chain: a prepare seals the week that is on disk, the sealed
\* packet describes the account at its revision, and a reconcile in progress holds what the
\* Adversary reviewed.
THEOREM WeeklyChainSafe == Spec => []WeightInv
<1> QED BY WeightInit, WeightStep, PTL DEF Spec

\* Only a commit completes a cycle.
LEMMA OnlyCommits ==
  ASSUME WeightInv, [Next]_vars, completed' # completed
  PROVE  reconciler # None /\ reconciler.stage = "executed" /\ Commit
BY DEF Next, vars, done, PrepareLoads, PrepareBuilds, WriteWeekly, Seal, WriteNext, ConsensusInput,
   Precheck, AdversaryDigest, Validate, Finalize, Agent, Allocate, PmDecides, AdversaryDecides,
   PmRevises, AgentWrites, Reconcile, Verify, Execute, Halt, Tick, Heartbeat, Deploy, Crash

\* ExecutedIsReviewed: whatever agents write late and commands leave half done, the weights
\* that commit are ones the Adversary accepted, or a revision inside the caps it set.
THEOREM ReviewedAsExecuted == Spec => ExecutedIsReviewed
<1>1. ASSUME WeightInv, [Next]_vars, completed' # completed
      PROVE  ReviewedAs(reconciler.final, reconciler.packet)
  BY <1>1, OnlyCommits DEF WeightInv, ReconcilerInv
<1>2. WeightInv /\ [Next]_vars
        => [completed' # completed => ReviewedAs(reconciler.final, reconciler.packet)]_vars
  BY <1>1
<1> QED BY <1>2, WeeklyChainSafe, PTL DEF Spec, ExecutedIsReviewed

\* DecidedOnThisAccount: weights are executed on the account that the packet described, for
\* the cycle it was sealed for.
THEOREM DecisionFitsAccount == Spec => DecidedOnThisAccount
<1> DEFINE Fits == LET p == reconciler.packet
                   IN /\ p.cycle = Cycle
                      /\ files["market_state"].account = account.rev
                      /\ p.holdings = account.holdings
<1>1. ASSUME WeightInv, [Next]_vars, completed' # completed
      PROVE  Fits
  <2>1. reconciler # None /\ Stageable
    BY <1>1, OnlyCommits DEF Commit
  <2> QED BY <1>1, <2>1 DEF WeightInv, ReconcilerInv, SealInv, Stageable
<1>2. WeightInv /\ [Next]_vars => [completed' # completed => Fits]_vars
  BY <1>1
<1> QED BY <1>2, WeeklyChainSafe, PTL DEF Spec, DecidedOnThisAccount

-----------------------------------------------------------------------------
(* The weekly promise.                                                     *)

selection == [w \in Week |-> Selecting(w)]

\* WeeklySelection sums as CrossSection does.
LEMMA SumSame == \A h : Selection!SumFunction(h) = SumFunction(h)
  BY DEF SumFunction, SumFunctionOnSet, FoldFunctionOnSet, MapThenFoldSet,
     Selection!SumFunction, Selection!SumFunctionOnSet, Selection!FoldFunctionOnSet,
     Selection!MapThenFoldSet

\* An achieved book holds the selection, each name on its side, and is neutral.
LEMMA AchievedSided ==
  ASSUME NEW p, Chosen(p.weekly), NEW h \in [Symbols -> Int], Achieved(h, p)
  PROVE  Selection!Sided(h, Sleeves(p.weekly)) /\ Selection!Neutral(h)
<1> DEFINE s == p.weekly
<1>1. s.long \subseteq Symbols /\ s.short \subseteq Symbols /\ s.long \cap s.short = {}
  BY DEF Chosen, Snapshots, Selection!IsSelection, Sleeves
<1>2. /\ \A x \in Symbols : h[x] # 0 <=> x \in Selected(p)
      /\ \A x \in Selected(p) : h[x] * Side(p, x) > 0
      /\ Abs(SumFunction(h)) <= MaxResidual
  BY DEF Achieved
<1>3. \A x \in s.long : Side(p, x) = 1 /\ x \in Selected(p)
  BY DEF Side, Selected
<1>4. \A x \in s.short : Side(p, x) = -1 /\ x \in Selected(p)
  BY <1>1 DEF Side, Selected
<1>5. ASSUME NEW x \in s.long PROVE x \in Symbols /\ h[x] > 0
  BY <1>1, <1>2, <1>3
<1>6. ASSUME NEW x \in s.short PROVE x \in Symbols /\ h[x] < 0
  <2>1. x \in Symbols /\ h[x] * (-1) > 0 /\ h[x] \in Int
    BY <1>1, <1>2, <1>4
  <2> QED BY <2>1
<1>7. ASSUME NEW x \in Symbols, h[x] # 0 PROVE x \in s.long \/ x \in s.short
  BY <1>2, <1>7 DEF Selected
<1> HIDE DEF s
<1>8. {x \in Symbols : h[x] > 0} = s.long /\ {x \in Symbols : h[x] < 0} = s.short
  BY <1>5, <1>6, <1>7
<1>9. Selection!Sided(h, Sleeves(s))
  BY <1>8 DEF Selection!Sided, Sleeves
<1>10. Selection!Neutral(h)
  BY <1>2, SumSame DEF Selection!Neutral, Selection!Abs, Abs
<1> QED BY <1>9, <1>10 DEF s

\* A week that has a snapshot has a selection.
LEMMA SelectingChosen ==
  ASSUME WeeklyInv, NEW w \in Week, weekly[w] # None
  PROVE  Selecting(w) = Sleeves(weekly[w]) /\ Selecting(w) # None
         /\ Selection!IsSelection(Selecting(w))
<1>1. Chosen(weekly[w]) /\ Selecting(w) = Sleeves(weekly[w])
  BY DEF WeeklyInv, Selecting, Sleeves
<1>2. Sleeves(weekly[w]) \in [long : SUBSET Symbols, short : SUBSET Symbols]
  BY <1>1 DEF Chosen, Snapshots, Sleeves
<1> QED BY <1>1, <1>2, WeightAssumption DEF Chosen

\* A snapshot that is written selects its week, or writes again what is there.
LEMMA WriteSelects ==
  ASSUME WeightInv, WeightInv', WriteWeekly
  PROVE  (\E w \in Week : Selection!Select(w)) \/ UNCHANGED <<selection, account.holdings>>
<1>0. WeekOf(command.ts) \in Week
  BY WeekTyped DEF WeightInv, ShapeInv
<1>1. PICK w \in Week :
        /\ DOMAIN weekly = Week /\ weekly[w] \in {None, command.weekly}
        /\ command.weekly # None /\ account' = account
        /\ weekly' = weekly \/ weekly' = [weekly EXCEPT ![w] = command.weekly]
  BY <1>0, WeightAssumption
  DEF WriteWeekly, WeightInv, WeeklyInv, PrepareInv, Frozen, Chosen
<1>2. CASE weekly' = weekly \/ weekly[w] # None
  <2>1. \A x \in Week : weekly'[x] = weekly[x]
    BY <1>1, <1>2
  <2>2. \A x \in Week : Selecting(x)' = Selecting(x)
    BY <2>1 DEF Selecting
  <2> QED BY <1>1, <2>2 DEF selection
<1>3. CASE weekly' # weekly /\ weekly[w] = None
  <2>1. weekly' = [weekly EXCEPT ![w] = command.weekly] /\ command.for = "weekly"
    BY <1>1, <1>3 DEF WriteWeekly
  <2>2. \A x \in Week \ {w} : Selecting(x)' = Selecting(x)
    BY <1>1, <2>1 DEF Selecting
  <2>3. Selecting(w)' = Sleeves(command.weekly) /\ Selecting(w) = None
    <3>1. weekly'[w] = command.weekly /\ weekly'[w] # None
      BY <1>1, <2>1
    <3>2. Selecting(w) = None
      BY <1>3 DEF Selecting
    <3>3. Selecting(w)' = Sleeves(weekly'[w])
      BY <3>1 DEF Selecting, Sleeves
    <3> QED BY <3>1, <3>2, <3>3
  <2>4. Chosen(command.weekly)
    BY <2>1 DEF WeightInv, PrepareInv
  <2>5. Sleeves(command.weekly) # None /\ Selection!IsSelection(Sleeves(command.weekly))
    <3>1. Sleeves(command.weekly) \in [long : SUBSET Symbols, short : SUBSET Symbols]
      BY <2>4 DEF Chosen, Snapshots, Sleeves
    <3> QED BY <2>4, <3>1, WeightAssumption DEF Chosen
  <2>6. Selection!Select(w)
    <3>1. /\ selection[w] = None /\ selection'[w] # None
          /\ Selection!IsSelection(selection'[w])
      BY <1>1, <2>3, <2>5 DEF selection
    <3>2. selection' = [selection EXCEPT ![w] = selection'[w]]
      BY <2>2 DEF selection
    <3> QED BY <1>1, <3>1, <3>2 DEF Selection!Select, selection
  <2> QED BY <1>1, <2>6
<1> QED BY <1>2, <1>3

\* A commit rebalances to the selection of the packet's week.
LEMMA CommitRebalances ==
  ASSUME WeightInv, reconciler # None, reconciler.stage = "executed", Commit
  PROVE  \E w \in Week : Selection!Rebalance(w)
<1> DEFINE w == Packet.week
           h == reconciler.book
<1>1. /\ w \in Week /\ weekly[w] = Packet.weekly /\ weekly[w] # None
      /\ h \in [Symbols -> Int] /\ Achieved(h, Packet)
  BY DEF WeightInv, ReconcilerInv, SealInv
<1>2. Selecting(w) = Sleeves(Packet.weekly) /\ Selecting(w) # None
  BY <1>1, SelectingChosen DEF WeightInv
<1>3. Selection!Sided(h, Sleeves(Packet.weekly)) /\ Selection!Neutral(h)
  BY <1>1, AchievedSided DEF WeightInv, WeeklyInv
<1>4. account'.holdings = h /\ weekly' = weekly
  BY DEF Commit
<1>5. \A x \in Week : Selecting(x)' = Selecting(x)
  BY <1>4 DEF Selecting
<1> HIDE DEF w, h
<1>6. Selection!Rebalance(w)
  BY <1>1, <1>2, <1>3, <1>4, <1>5 DEF Selection!Rebalance
<1> QED BY <1>1, <1>6

\* Every other step leaves the snapshots and the holdings.
LEMMA OthersKeep ==
  ASSUME WeightInv, [Next]_vars, ~WriteWeekly,
         ~(reconciler # None /\ reconciler.stage = "executed" /\ Commit)
  PROVE  weekly' = weekly /\ account'.holdings = account.holdings
BY DEF WeightInv, ShapeInv, Next, vars, done, PrepareLoads, PrepareBuilds, Seal, WriteNext,
   ConsensusInput, Precheck, AdversaryDigest, Validate, Finalize, Agent, Allocate, PmDecides,
   AdversaryDecides, PmRevises, AgentWrites, Reconcile, Verify, Execute, Halt, Tick, Heartbeat,
   Deploy, Crash

\* ImplementsSelection: the two sleeves of a week are chosen once, and every rebalance leaves
\* exactly those names, on those sides, neutral to the tolerance.
THEOREM SelectionImplemented == Spec => ImplementsSelection
<1>1. Init => Selection!Init
  BY DEF Init, Selection!Init, Selecting
<1>2. WeightInv /\ WeightInv' /\ [Next]_vars => [Selection!Next]_<<selection, account.holdings>>
  <2> SUFFICES ASSUME WeightInv, WeightInv', [Next]_vars
               PROVE  [Selection!Next]_<<selection, account.holdings>>
    OBVIOUS
  <2>1. CASE WriteWeekly
    BY <2>1, WriteSelects DEF Selection!Next
  <2>2. CASE reconciler # None /\ reconciler.stage = "executed" /\ Commit
    BY <2>2, CommitRebalances DEF Selection!Next
  <2>3. CASE ~WriteWeekly /\ ~(reconciler # None /\ reconciler.stage = "executed" /\ Commit)
    <3>1. weekly' = weekly /\ account'.holdings = account.holdings
      BY <2>3, OthersKeep
    <3>2. \A x \in Week : Selecting(x)' = Selecting(x)
      BY <3>1 DEF Selecting
    <3> QED BY <3>1, <3>2 DEF selection
  <2> QED BY <2>1, <2>2, <2>3
<1> QED
  BY <1>1, <1>2, WeeklyChainSafe, PTL DEF Spec, ImplementsSelection, Selection!Spec, selection
=============================================================================

------------------------- MODULE DecisionChain_proofs -------------------------
(***************************************************************************)
(* What the decision chain promises for any number of packets, agent       *)
(* writes and faults: a book that commits was reviewed as it is executed,  *)
(* on the account it was measured on, and an interrupted seal can be       *)
(* replayed for as long as what it was prepared on is current.             *)
(***************************************************************************)
EXTENDS DecisionChain, TLAPS

\* A revision receipt is neither an absent file nor an empty one.
ReceiptIsNoMark == \A d, b : [dispatch |-> d, book |-> b] \notin {None, Torn}

-----------------------------------------------------------------------------
\* The inductive invariant.  What a command has left to write is a plan: the parts of
\* the invariant about it take the plan as an argument, for a command that starts.

\* What was prechecked and reviewed had read the packet's one digest.
OfDigest(precheck) ==
    /\ files["digest"] \notin {None, Torn}
    /\ precheck.book.reads = files["digest"]

Prechecks == {"precheck", "precheck_original"}

\* A file that is created once is absent or empty until its last write, and no command
\* writes a verdict.
Orderly(todo) ==
    \A i \in 1..Len(todo) :
        /\ todo[i].file # "verdict"
        /\ todo[i].file \in {"digest", "output"} =>
               /\ files[todo[i].file] \in {None, Torn}
               /\ i < Len(todo) => todo[i].value = Torn
               /\ todo[i].value # Torn => todo[i].value # None
        /\ todo[i].file \in Prechecks => OfDigest(todo[i].value)

\* What a transaction lets a file hold.
Allowed(t, file) ==
    CASE file = "meta" -> {t.base, t.final}
      [] file \in {"pre", "pre_side"} -> {None, t.pre}
      [] file = "provenance" -> {None, t.provenance}
      [] OTHER -> {None, t.pre, t.performance}

SealFiles == {"meta", "pre", "pre_side", "provenance", "performance", "performance_side"}

Fits(t, todo) ==
    \A i \in 1..Len(todo) : todo[i].file \in SealFiles =>
        todo[i].value \in Allowed(t, todo[i].file)

\* A transaction is of this state or an earlier one.
Bound(t) ==
    /\ t.performance.account \in Nat /\ t.performance.account <= account.rev
    /\ t.performance.memory \in Nat /\ t.performance.memory <= memory
    /\ t.provenance \in Nat /\ t.provenance <= build

\* While it is current, nothing on disk and nothing about to be written conflicts with it.
Replays(t, todo) == Bound(t) /\ (StillCurrent(t) => Preflight(t) /\ Fits(t, todo))

Sealing(for, todo) ==
    /\ Present("transaction") => Replays(files["transaction"], todo)
    /\ \A i \in 1..Len(todo) : todo[i].file = "transaction" =>
           for = "seal" /\ Len(todo) = 1 /\ Replays(todo[i].value, todo)
    /\ for = "evidence" => ~Present("transaction")

Plan(for, todo) ==
    /\ \E X : todo \in Seq([file : File, value : X])
    /\ Orderly(todo)
    /\ Sealing(for, todo)

\* One process at a time writes; a command that is over has nothing left to write.
CommandInv ==
    /\ DOMAIN command = {"for", "todo"}
    /\ command.for = "idle" => command.todo = <<>>
    /\ reconciler # None => command.for = "idle"
    /\ Plan(command.for, command.todo)

\* The verdict file is always a review of this packet, and the one sealed book is the
\* one the receipt holds.
ReviewInv ==
    /\ files["verdict"] # None => files["verdict"] \in reviews
    /\ sealed = IF files["output"] \in {None, Torn} THEN {} ELSE {files["output"].book}
    /\ \A f \in Prechecks : files[f] # None => OfDigest(files[f])
    /\ \A v \in reviews : OfDigest(v.precheck)

\* What the reconciler has read by each stage.
Has(fields) == fields \subseteq DOMAIN reconciler

FieldInv ==
    reconciler # None =>
        /\ Has({"stage", "meta"})
        /\ reconciler.stage \in {"meta", "performance", "reads", "decision", "account", "verified"}
        /\ reconciler.stage # "meta" => Has({"performance"})
        /\ reconciler.stage \notin {"meta", "performance"} => Has({"reads"})
        /\ reconciler.stage \in {"decision", "account", "verified"} =>
               Has({"book", "verdict", "policy"})
        /\ reconciler.stage \in {"account", "verified"} => Has({"base"})

\* The verified chain, in terms of the verdict that was read.
Verified ==
    LET v == reconciler.verdict IN
        /\ v.performance = reconciler.performance /\ v.precheck.meta = reconciler.meta
        /\ v.precheck.held = account.cycle
        /\ reconciler.book.reads = reconciler.reads
        /\ IF v.accept THEN v.precheck.book = reconciler.book
           ELSE sealed = {reconciler.book} /\ reconciler.book.content \in v.allowed

ReadInv ==
    reconciler # None =>
        /\ reconciler.stage \notin {"meta", "performance"} =>
               reconciler.reads = files["digest"]
        /\ reconciler.stage \in {"decision", "account", "verified"} =>
               reconciler.verdict \in reviews
        /\ reconciler.stage \in {"account", "verified"} =>
               reconciler.performance.account = reconciler.base
        /\ reconciler.stage = "verified" => Verified

StateInv ==
    /\ DOMAIN files = File /\ DOMAIN account = {"cycle", "rev"}
    /\ account.rev \in Nat /\ memory \in Nat /\ build \in Nat

DecisionInv == StateInv /\ CommandInv /\ ReviewInv /\ FieldInv /\ ReadInv

-----------------------------------------------------------------------------
\* Commands.

LEMMA DecisionInit == Init => DecisionInv
  <1> SUFFICES ASSUME Init PROVE DecisionInv
    OBVIOUS
  <1>1. command.todo \in Seq([file : File, value : {}]) /\ Len(command.todo) = 0
    BY DEF Init, Idle
  <1>2. \A f \in File : files[f] = None
    BY DEF Init, Empty
  <1>3. Plan(command.for, command.todo)
    BY <1>1, <1>2 DEF Plan, Orderly, Sealing, Present, File, Seals, Init, Idle
  <1> QED
    BY <1>2, <1>3 DEF Init, Idle, Empty, DecisionInv, StateInv, CommandInv, ReviewInv, FieldInv,
                      ReadInv, File, Seals, Downstream, Agents, Prechecks

\* What the files and the state do not touch is kept when only the command changes.
LEMMA CommandSet ==
    ASSUME DecisionInv, NEW for, NEW todo, Plan(for, todo),
           command' = [for |-> for, todo |-> todo],
           for = "idle" => todo = <<>>,
           reconciler # None => for = "idle",
           UNCHANGED <<state, files, reconciler, reviews, sealed>>
    PROVE  DecisionInv'
  <1>1. /\ files' = files /\ reconciler' = reconciler /\ reviews' = reviews /\ sealed' = sealed
        /\ account' = account /\ memory' = memory /\ build' = build
    BY DEF state
  <1>2. CommandInv'
    <2>1. command'.for = for /\ command'.todo = todo /\ DOMAIN command' = {"for", "todo"}
      OBVIOUS
    <2>2. \E X : command'.todo \in Seq([file : File, value : X])
      BY <2>1 DEF Plan
    <2>3. Orderly(command.todo)'
      BY <1>1, <2>1 DEF Plan, Orderly, OfDigest
    <2>4. \A t : Replays(t, todo) => Replays(t, command.todo)'
      BY <1>1, <2>1 DEF Replays, Bound, StillCurrent, Preflight, Snapshot, Fits, Allowed
    <2>5. Sealing(command.for, command.todo)'
      BY <1>1, <2>1, <2>4 DEF Plan, Sealing, Present
    <2> QED
      BY <1>1, <2>1, <2>2, <2>3, <2>5 DEF CommandInv, Plan
  <1> QED
    BY <1>1, <1>2 DEF DecisionInv, StateInv, ReviewInv, OfDigest, FieldInv, Has, ReadInv, Verified

\* A command that starts.
LEMMA CommandStarts ==
    ASSUME DecisionInv, NEW for, NEW todo, Run(for, todo), Plan(for, todo), for # "idle"
    PROVE  DecisionInv'
  BY CommandSet DEF Run, Free

\* A command that ends, or dies.
LEMMA NothingPlanned == ASSUME DecisionInv PROVE Plan("idle", <<>>)
  <1>1. <<>> \in Seq([file : File, value : {}]) /\ Len(<<>>) = 0
    OBVIOUS
  <1>2. Present("transaction") => Replays(files["transaction"], <<>>)
    BY <1>1 DEF DecisionInv, CommandInv, Plan, Sealing, Replays, Fits
  <1> QED
    BY <1>1, <1>2 DEF Plan, Orderly, Sealing

\* A plan of files that are no seal's keeps whatever transaction is on disk.
LEMMA PlanBesideSeal ==
    ASSUME DecisionInv, NEW for, NEW todo, for # "evidence",
           \E X : todo \in Seq([file : File, value : X]), Orderly(todo),
           \A i \in 1..Len(todo) : todo[i].file \notin SealFiles \cup {"transaction"}
    PROVE  Plan(for, todo)
  BY DEF Plan, Sealing, Replays, Fits, DecisionInv, CommandInv

LEMMA PerformanceStep == ASSUME DecisionInv, Performance PROVE DecisionInv'
  <1> DEFINE snap == Snapshot(files["meta"])
             todo == <<Write("performance", snap), Write("performance_side", snap)>>
  <1>1. todo \in Seq([file : File, value : {snap}])
    BY DEF Write, File
  <1>2. /\ Len(todo) = 2
        /\ \A i \in 1..Len(todo) : /\ todo[i].file \in {"performance", "performance_side"}
                                   /\ todo[i].value = snap
    BY DEF Write
  <1>3. Orderly(todo)
    BY <1>2 DEF Orderly, Prechecks
  <1>4. ASSUME Present("transaction"), StillCurrent(files["transaction"])
        PROVE  Fits(files["transaction"], todo)
    <2> DEFINE t == files["transaction"]
    <2>1. Preflight(t)
      BY <1>4 DEF DecisionInv, CommandInv, Plan, Sealing, Replays
    <2>2. snap \in {t.pre, t.performance}
      BY <1>4, <2>1 DEF Preflight, StillCurrent
    <2> QED
      BY <1>2, <2>2 DEF Fits, Allowed
  <1>5. Present("transaction") => Replays(files["transaction"], todo)
    BY <1>4 DEF DecisionInv, CommandInv, Plan, Sealing, Replays
  <1>6. Plan("performance", todo)
    BY <1>1, <1>2, <1>3, <1>5 DEF Plan, Sealing
  <1> QED
    BY <1>6, CommandStarts DEF Performance

LEMMA SealStartsStep == ASSUME DecisionInv, SealStarts PROVE DecisionInv'
  <1> DEFINE t == NewTransaction
             todo == <<Write("transaction", t)>>
  <1>1. todo \in Seq([file : File, value : {t}])
    BY DEF Write, File, Seals
  <1>2. Len(todo) = 1 /\ \A i \in 1..Len(todo) : todo[i].file = "transaction" /\ todo[i].value = t
    BY DEF Write
  <1>3. Orderly(todo)
    BY <1>2 DEF Orderly, Prechecks
  <1>4. Bound(t)
    BY DEF Bound, NewTransaction, Snapshot, DecisionInv, StateInv
  <1>5. Preflight(t)
    BY DEF Preflight, NewTransaction, SealStarts, Present, PresealValid
  <1>6. Fits(t, todo)
    BY <1>2 DEF Fits, SealFiles
  <1>7. Plan("seal", todo)
    BY <1>1, <1>2, <1>3, <1>4, <1>5, <1>6 DEF Plan, Sealing, Replays, SealStarts
  <1> QED
    BY <1>7, CommandStarts DEF SealStarts

\* What a replay writes is what its transaction allows.
LEMMA ReplayPlan ==
    ASSUME DecisionInv, Present("transaction")
    PROVE  Plan("replay", ReplayWrites(files["transaction"]))
  <1> DEFINE t == files["transaction"]
             todo == ReplayWrites(t)
  <1>1. todo \in Seq([file : File, value : {t.pre, t.provenance, t.final, t.performance}])
    BY DEF ReplayWrites, Write, File, Seals
  <1>2. \A i \in 1..Len(todo) :
           todo[i].file \in SealFiles /\ todo[i].value \in Allowed(t, todo[i].file)
    BY DEF ReplayWrites, Write, SealFiles, Allowed
  <1>3. Orderly(todo)
    BY <1>2 DEF Orderly, Prechecks, SealFiles
  <1>4. Fits(t, todo)
    BY <1>2 DEF Fits
  <1>5. Replays(t, todo)
    BY <1>4 DEF DecisionInv, CommandInv, Plan, Sealing, Replays
  <1> QED
    BY <1>1, <1>2, <1>3, <1>5 DEF Plan, Sealing, SealFiles

LEMMA SealReplaysStep == ASSUME DecisionInv, SealReplays PROVE DecisionInv'
  BY CommandStarts, ReplayPlan DEF SealReplays, Replayable

LEMMA SealContinuesStep == ASSUME DecisionInv, SealContinues PROVE DecisionInv'
  <1>1. reconciler = None
    BY DEF DecisionInv, CommandInv, SealContinues
  <1>2. CASE Replayable
    <2> DEFINE todo == ReplayWrites(files["transaction"])
    <2>1. Plan("replay", todo)
      BY <1>2, ReplayPlan DEF Replayable
    <2>2. command' = [for |-> "replay", todo |-> todo]
      BY <1>2 DEF SealContinues
    <2> HIDE DEF todo
    <2> QED
      BY <1>1, <2>1, <2>2, CommandSet DEF SealContinues
  <1>3. CASE ~Replayable
    BY <1>1, <1>3, CommandSet, NothingPlanned DEF SealContinues, Idle
  <1> QED
    BY <1>2, <1>3

LEMMA CrashStep == ASSUME DecisionInv, Crash PROVE DecisionInv'
  BY CommandSet, NothingPlanned DEF Crash, Fault, Idle, DecisionInv, CommandInv

LEMMA ReadsDigestStep == ASSUME DecisionInv, ReadsDigest PROVE DecisionInv'
  <1> DEFINE todo == <<Write("digest", Torn), Write("digest", files["reads"])>>
  <1>1. todo \in Seq([file : File, value : {Torn, files["reads"]}])
    BY DEF Write, File, Downstream
  <1>2. /\ Len(todo) = 2
        /\ todo[1].value = Torn /\ todo[2].value = files["reads"]
        /\ \A i \in 1..Len(todo) : todo[i].file = "digest"
    BY DEF Write
  <1>3. Orderly(todo)
    BY <1>2 DEF Orderly, Prechecks, ReadsDigest, Present
  <1>4. Plan("digest", todo)
    BY <1>1, <1>2, <1>3, PlanBesideSeal DEF SealFiles
  <1> QED
    BY <1>4, CommandStarts DEF ReadsDigest

LEMMA PrecheckStep ==
    ASSUME DecisionInv, NEW book, NEW out \in Prechecks, Precheck(book, out)
    PROVE  DecisionInv'
  <1> DEFINE computed == ComputePrecheck(files[book])
             todo == <<Write("policy", build), Write(out, computed)>>
  <1>1. todo \in Seq([file : File, value : {build, computed}])
    BY DEF Write, File, Downstream, Prechecks
  <1>2. /\ Len(todo) = 2
        /\ todo[1].file = "policy" /\ todo[2].file = out /\ todo[2].value = computed
        /\ \A i \in 1..Len(todo) : i = 1 \/ i = 2
    BY DEF Write
  <1>3. OfDigest(computed)
    BY DEF OfDigest, Precheck, ComputePrecheck
  <1>4. Orderly(todo)
    BY <1>2, <1>3 DEF Orderly, Prechecks
  <1>5. Plan("precheck", todo)
    BY <1>1, <1>2, <1>4, PlanBesideSeal DEF SealFiles, Prechecks
  <1> QED
    BY <1>5, CommandStarts DEF Precheck

LEMMA ReceiptPrepareStep == ASSUME DecisionInv, ReceiptPrepare PROVE DecisionInv'
  <1> DEFINE todo == <<Write("dispatch", Torn), Write("dispatch", Dispatch)>>
  <1>1. todo \in Seq([file : File, value : {Torn, Dispatch}])
    BY DEF Write, File, Downstream
  <1>2. Len(todo) = 2 /\ \A i \in 1..Len(todo) : todo[i].file = "dispatch"
    BY DEF Write
  <1>3. Orderly(todo)
    BY <1>2 DEF Orderly, Prechecks
  <1>4. Plan("receipt", todo)
    BY <1>1, <1>2, <1>3, PlanBesideSeal DEF SealFiles
  <1> QED
    BY <1>4, CommandStarts DEF ReceiptPrepare

LEMMA ReceiptSealStep ==
    ASSUME ReceiptIsNoMark, DecisionInv, ReceiptSeal PROVE DecisionInv'
  <1> DEFINE receipt == [dispatch |-> Dispatch, book |-> files["book"]]
             todo == <<Write("output", Torn), Write("output", receipt)>>
  <1>0. receipt # None
    BY DEF ReceiptIsNoMark
  <1> HIDE DEF receipt
  <1>1. todo \in Seq([file : File, value : {Torn, receipt}])
    BY DEF Write, File, Downstream
  <1>2. /\ Len(todo) = 2 /\ todo[1].value = Torn /\ todo[2].value = receipt
        /\ \A i \in 1..Len(todo) : todo[i].file = "output"
    BY DEF Write
  <1>3. Orderly(todo)
    BY <1>0, <1>2 DEF Orderly, Prechecks, ReceiptSeal, Exclusive, Present
  <1>4. Plan("receipt", todo)
    BY <1>1, <1>2, <1>3, PlanBesideSeal DEF SealFiles
  <1> QED
    BY <1>4, CommandStarts DEF ReceiptSeal, receipt

LEMMA SealEndsStep == ASSUME DecisionInv, SealEnds PROVE DecisionInv'
  <1>1. /\ \A f \in File \ {"transaction"} : files'[f] = files[f]
        /\ files'["transaction"] \in {None, files["transaction"]} /\ DOMAIN files' = File
    BY DEF SealEnds, DecisionInv, StateInv
  <1>2. /\ command' = Idle /\ reconciler' = reconciler /\ reconciler = None
        /\ account' = account /\ memory' = memory /\ build' = build
        /\ reviews' = reviews /\ sealed' = sealed
    BY DEF SealEnds, state, DecisionInv, CommandInv
  <1>3. {"digest", "output", "verdict"} \cup Prechecks \cup SealFiles \subseteq File \ {"transaction"}
    BY DEF File, Seals, Downstream, Agents, Prechecks, SealFiles
  <1>4. Plan("idle", <<>>)'
    <2>1. <<>> \in Seq([file : File, value : {}]) /\ Len(<<>>) = 0
      OBVIOUS
    <2>2. ASSUME files'["transaction"] # None
          PROVE  Replays(files["transaction"], <<>>)'
      <3>1. files'["transaction"] = files["transaction"] /\ Present("transaction")
        BY <1>1, <2>2 DEF Present
      <3>2. Replays(files["transaction"], <<>>)
        BY <3>1, NothingPlanned DEF Plan, Sealing
      <3>3. \A f \in SealFiles : files'[f] = files[f]
        BY <1>1, <1>3
      <3> QED
        BY <1>2, <3>1, <3>2, <3>3 DEF Replays, Bound, StillCurrent, Preflight, Snapshot, Fits,
                                      Allowed, SealFiles
    <2> QED
      BY <2>1, <2>2 DEF Plan, Orderly, Sealing, Present
  <1>5. CommandInv'
    BY <1>2, <1>4 DEF CommandInv, Idle
  <1> QED
    BY <1>1, <1>2, <1>3, <1>5 DEF DecisionInv, StateInv, ReviewInv, OfDigest, FieldInv, ReadInv

LEMMA Ends ==
    ASSUME NEW S, NEW s \in Seq(S), s # <<>>
    PROVE  /\ Len(s) \in Nat \ {0} /\ Head(s) = s[1] /\ s[1] \in S
           /\ Tail(s) \in Seq(S) /\ Len(Tail(s)) = Len(s) - 1
           /\ \A i \in 1..Len(Tail(s)) : Tail(s)[i] = s[i + 1]
  OBVIOUS

\* One write: the head of the plan reaches its file and the rest stays planned.
LEMMA WriteEffect ==
    ASSUME DecisionInv, WriteNext
    PROVE  LET w == command.todo[1] IN
           /\ Len(command.todo) \in Nat \ {0} /\ w.file \in File
           /\ DOMAIN files' = File
           /\ \A f \in File : files'[f] = IF f = w.file THEN w.value ELSE files[f]
           /\ sealed' = IF w.file = "output" /\ w.value # Torn THEN sealed \cup {w.value.book}
                        ELSE sealed
           /\ DOMAIN command' = {"for", "todo"}
           /\ command'.for = "idle" => command'.todo = <<>>
           /\ command'.for \in {"idle", command.for}
           /\ \E X : command'.todo \in Seq([file : File, value : X])
           /\ Len(command'.todo) \in Nat /\ Len(command'.todo) < Len(command.todo)
           /\ \A i \in 1..Len(command'.todo) :
                  /\ i + 1 \in 2..Len(command.todo)
                  /\ command'.todo[i] = command.todo[i + 1]
                  /\ i < Len(command'.todo) => i + 1 < Len(command.todo)
           /\ reconciler = None /\ reconciler' = None
           /\ account' = account /\ memory' = memory /\ build' = build /\ reviews' = reviews
  <1> DEFINE todo == command.todo
             w == todo[1]
  <1>1. PICK X : todo \in Seq([file : File, value : X])
    BY DEF DecisionInv, CommandInv, Plan
  <1>a. todo # <<>>
    BY DEF WriteNext
  <1>3. /\ Len(todo) \in Nat \ {0} /\ Head(todo) = w /\ w \in [file : File, value : X]
        /\ Tail(todo) \in Seq([file : File, value : X]) /\ Len(Tail(todo)) = Len(todo) - 1
        /\ \A i \in 1..Len(Tail(todo)) : Tail(todo)[i] = todo[i + 1]
    BY <1>1, <1>a, Ends
  <1>2. todo # <<>> /\ Len(todo) \in Nat \ {0} /\ Head(todo) = w /\ w.file \in File
    BY <1>a, <1>3
  <1>4. \/ command' = Idle
        \/ command' = [command EXCEPT !.todo = Tail(todo)]
    BY DEF WriteNext
  <1>5. DOMAIN command = {"for", "todo"} /\ command.for # "idle"
    BY <1>2 DEF DecisionInv, CommandInv
  <1>6. <<>> \in Seq([file : File, value : X]) /\ Len(<<>>) = 0
    OBVIOUS
  <1>7. /\ DOMAIN command' = {"for", "todo"}
        /\ command'.for = "idle" => command'.todo = <<>>
        /\ command'.for \in {"idle", command.for}
        /\ command'.todo \in {<<>>, Tail(todo)}
    BY <1>4, <1>5 DEF Idle
  <1>8. /\ files' = [files EXCEPT ![w.file] = w.value]
        /\ sealed' = IF w.file = "output" /\ w.value # Torn THEN sealed \cup {w.value.book}
                        ELSE sealed
        /\ reconciler' = reconciler /\ reviews' = reviews
        /\ account' = account /\ memory' = memory /\ build' = build
    BY <1>2 DEF WriteNext, state
  <1>9. DOMAIN files = File /\ reconciler = None
    BY <1>5 DEF DecisionInv, StateInv, CommandInv
  <1>10. /\ Len(command'.todo) \in Nat /\ Len(command'.todo) < Len(todo)
         /\ \A i \in 1..Len(command'.todo) :
                  /\ i + 1 \in 2..Len(todo)
                  /\ command'.todo[i] = todo[i + 1]
                  /\ i < Len(command'.todo) => i + 1 < Len(todo)
    <2>1. CASE command'.todo = <<>>
      BY <1>2, <1>6, <2>1
    <2>2. CASE command'.todo = Tail(todo)
      BY <1>3, <2>2
    <2> QED
      BY <1>7, <2>1, <2>2
  <1>11. /\ DOMAIN files' = File
         /\ \A f \in File : files'[f] = IF f = w.file THEN w.value ELSE files[f]
    BY <1>8, <1>9
  <1>12. command'.todo \in Seq([file : File, value : X])
    BY <1>3, <1>6, <1>7
  <1> QED
    BY <1>2, <1>7, <1>8, <1>9, <1>10, <1>11, <1>12

LEMMA WriteNextStep == ASSUME DecisionInv, WriteNext PROVE DecisionInv'
  <1> DEFINE todo == command.todo
             rest == command'.todo
             w == todo[1]
  <1>1. /\ Len(todo) \in Nat \ {0} /\ w.file \in File
        /\ DOMAIN files' = File
        /\ \A f \in File : files'[f] = IF f = w.file THEN w.value ELSE files[f]
        /\ sealed' = IF w.file = "output" /\ w.value # Torn THEN sealed \cup {w.value.book}
                     ELSE sealed
        /\ DOMAIN command' = {"for", "todo"}
        /\ command'.for = "idle" => rest = <<>>
        /\ command'.for \in {"idle", command.for}
        /\ \E X : rest \in Seq([file : File, value : X])
        /\ Len(rest) \in Nat /\ Len(rest) < Len(todo)
        /\ reconciler = None /\ reconciler' = None
        /\ account' = account /\ memory' = memory /\ build' = build /\ reviews' = reviews
    BY WriteEffect
  <1>2. \A i \in 1..Len(rest) :
            /\ i + 1 \in 2..Len(todo)
            /\ rest[i] = todo[i + 1]
            /\ i < Len(rest) => i + 1 < Len(todo)
    BY WriteEffect
  <1>3. Orderly(todo) /\ Sealing(command.for, todo)
    BY DEF DecisionInv, CommandInv, Plan
  <1>4. 1 \in 1..Len(todo) /\ (\A i \in 1..Len(rest) : 1 < Len(todo) /\ i + 1 \in 1..Len(todo))
    BY <1>1, <1>2
  <1>5. /\ {"digest", "output", "verdict", "transaction"} \cup Prechecks \cup SealFiles \subseteq File
        /\ {"digest", "output", "verdict", "transaction"} \cap (Prechecks \cup SealFiles) = {}
    BY DEF File, Seals, Downstream, Agents, Prechecks, SealFiles
  <1> HIDE DEF todo, rest, w
  \* Writing the digest, which was not there, contradicts anything computed from it.
  <1>6. \A p : OfDigest(p) => OfDigest(p)'
    BY <1>1, <1>3, <1>4, <1>5 DEF OfDigest, Orderly, w
  <1>7. Orderly(command.todo)'
    <2> SUFFICES ASSUME NEW i \in 1..Len(rest)
                 PROVE  /\ rest[i].file # "verdict"
                        /\ rest[i].file \in {"digest", "output"} =>
                              /\ files'[rest[i].file] \in {None, Torn}
                              /\ i < Len(rest) => rest[i].value = Torn
                              /\ rest[i].value # Torn => rest[i].value # None
                        /\ rest[i].file \in Prechecks => OfDigest(command.todo[i].value)'
      BY DEF Orderly, rest
    <2> DEFINE j == i + 1
    <2>1. j \in 1..Len(todo) /\ rest[i] = todo[j] /\ (i < Len(rest) => j < Len(todo)) /\ 1 < Len(todo)
      BY <1>2, <1>4
    <2> HIDE DEF j
    <2>2. /\ todo[j].file # "verdict"
          /\ todo[j].file \in {"digest", "output"} =>
               /\ files[todo[j].file] \in {None, Torn}
               /\ j < Len(todo) => todo[j].value = Torn
               /\ todo[j].value # Torn => todo[j].value # None
          /\ todo[j].file \in Prechecks => OfDigest(todo[j].value)
      BY <1>3, <2>1 DEF Orderly
    <2>3. w.file \in {"digest", "output"} => w.value = Torn
      BY <1>3, <1>4, <2>1 DEF Orderly, w
    <2>4. todo[j].file \in {"digest", "output"} => files'[todo[j].file] \in {None, Torn}
      BY <1>1, <1>5, <2>2, <2>3
    <2>5. rest[i].file \in Prechecks => OfDigest(command.todo[i].value)'
      BY <1>6, <2>1, <2>2 DEF OfDigest, rest
    <2> QED
      BY <2>1, <2>2, <2>4, <2>5
  \* A transaction and the seal's files.
  <1>8. ASSUME NEW t, Replays(t, todo) PROVE Replays(t, command.todo)'
    <2>1. Bound(t)'
      BY <1>1, <1>8 DEF Replays, Bound
    <2>2. ASSUME StillCurrent(t)' PROVE Preflight(t)' /\ Fits(t, command.todo)'
      <3>1. Preflight(t) /\ Fits(t, todo)
        BY <1>1, <1>8, <2>2 DEF Replays, StillCurrent, Snapshot
      <3>2. w.file \in SealFiles => w.value \in Allowed(t, w.file)
        BY <1>4, <3>1 DEF Fits, w
      <3>3. Preflight(t)'
        BY <1>1, <1>5, <3>1, <3>2 DEF Preflight, Allowed, SealFiles
      <3>4. Fits(t, command.todo)'
        BY <1>2, <1>4, <3>1 DEF Fits, Allowed, rest
      <3> QED
        BY <3>3, <3>4
    <2> QED
      BY <2>1, <2>2 DEF Replays
  <1>9. Sealing(command.for, command.todo)'
    <2>1. ASSUME files'["transaction"] # None
          PROVE  Replays(files["transaction"], command.todo)'
      <3>1. CASE w.file = "transaction"
        <4>1. Replays(w.value, todo) /\ files'["transaction"] = w.value
          BY <1>1, <1>3, <1>4, <1>5, <3>1 DEF Sealing, w
        <4> QED
          BY <1>8, <4>1
      <3>2. CASE w.file # "transaction"
        <4>1. files'["transaction"] = files["transaction"]
          BY <1>1, <1>5, <3>2
        <4>2. Replays(files["transaction"], todo)
          BY <1>3, <2>1, <4>1 DEF Sealing, Present
        <4> QED
          BY <1>8, <4>1, <4>2
      <3> QED
        BY <3>1, <3>2
    <2>2. \A i \in 1..Len(rest) : rest[i].file # "transaction"
      BY <1>2, <1>3, <1>4 DEF Sealing
    <2>3. command'.for = "evidence" => files'["transaction"] = None
      BY <1>1, <1>3, <1>4, <1>5 DEF Sealing, Present, w
    <2> QED
      BY <2>1, <2>2, <2>3 DEF Sealing, Present, rest
  <1>10. CommandInv'
    BY <1>1, <1>7, <1>9 DEF CommandInv, Plan, rest
  <1>11. ReviewInv'
    <2>1. files'["verdict"] # None => files'["verdict"] \in reviews'
      BY <1>1, <1>3, <1>4, <1>5 DEF Orderly, w, DecisionInv, ReviewInv
    <2>2. sealed' = IF files'["output"] \in {None, Torn} THEN {} ELSE {files'["output"].book}
      <3>1. sealed = IF files["output"] \in {None, Torn} THEN {} ELSE {files["output"].book}
        BY DEF DecisionInv, ReviewInv
      <3>2. CASE w.file = "output"
        <4>1. /\ files["output"] \in {None, Torn} /\ files'["output"] = w.value
              /\ w.value # Torn => w.value # None
          BY <1>1, <1>3, <1>4, <1>5, <3>2 DEF Orderly, w
        <4> QED
          BY <1>1, <3>1, <3>2, <4>1
      <3>3. CASE w.file # "output"
        BY <1>1, <1>5, <3>1, <3>3
      <3> QED
        BY <3>2, <3>3
    <2>3. ASSUME NEW f \in Prechecks, files'[f] # None PROVE OfDigest(files[f])'
      <3>1. CASE f = w.file
        <4>1. OfDigest(w.value) /\ files'[f] = w.value
          BY <1>1, <1>3, <1>4, <1>5, <3>1 DEF Orderly, w
        <4> QED
          BY <1>6, <4>1
      <3>2. CASE f # w.file
        <4>1. files'[f] = files[f] /\ OfDigest(files[f])
          BY <1>1, <1>5, <2>3, <3>2 DEF DecisionInv, ReviewInv
        <4> QED
          BY <1>6, <4>1
      <3> QED
        BY <3>1, <3>2
    <2>4. \A v \in reviews' : OfDigest(v.precheck)'
      BY <1>1, <1>6 DEF DecisionInv, ReviewInv
    <2> QED
      BY <2>1, <2>2, <2>3, <2>4 DEF ReviewInv
  <1> QED
    BY <1>1, <1>10, <1>11 DEF DecisionInv, StateInv, FieldInv, ReadInv

LEMMA EvidenceStep == ASSUME DecisionInv, Evidence PROVE DecisionInv'
  <1> DEFINE value == [cycle |-> account.cycle + 1, packet |-> packets + 1,
                       pre |-> None, provenance |-> None]
             todo == <<Write("meta", value)>>
  <1>1. /\ command' = [for |-> "evidence", todo |-> todo]
        /\ \A f \in File : files'[f] = None
        /\ DOMAIN files' = File /\ reviews' = {} /\ sealed' = {}
        /\ reconciler = None /\ reconciler' = None
        /\ account' = account /\ memory' = memory /\ build' = build
    BY DEF Evidence, Free, Empty, state
  <1> HIDE DEF value
  <1>2. /\ todo \in Seq([file : File, value : {value}]) /\ Len(todo) = 1
        /\ \A i \in 1..Len(todo) : todo[i].file = "meta"
    BY DEF Write, File
  <1>3. /\ command'.todo = todo /\ command'.for = "evidence"
        /\ DOMAIN command' = {"for", "todo"}
    BY <1>1
  <1> HIDE DEF todo
  <1>4. {"digest", "output", "verdict", "transaction"} \cup Prechecks \subseteq File
    BY DEF File, Seals, Downstream, Agents, Prechecks
  <1>5. Orderly(command.todo)'
    BY <1>2, <1>3 DEF Orderly, Prechecks
  <1>6. Sealing(command.for, command.todo)'
    BY <1>1, <1>2, <1>3, <1>4 DEF Sealing, Present
  <1>7. CommandInv'
    BY <1>1, <1>2, <1>3, <1>5, <1>6 DEF CommandInv, Plan
  <1> QED
    BY <1>1, <1>4, <1>7 DEF DecisionInv, StateInv, ReviewInv, FieldInv, ReadInv

-----------------------------------------------------------------------------
\* Agents.

LEMMA AgentFile ==
    ASSUME DecisionInv,
           NEW f \in {"reads", "book", "book_original", "verdict", "precheck_original"}, NEW value,
           files' = [files EXCEPT ![f] = value],
           reviews \subseteq reviews',
           UNCHANGED <<state, command, reconciler, sealed>>,
           f = "verdict" => value \in reviews',
           f = "precheck_original" => OfDigest(value),
           \A v \in reviews' : v \in reviews \/ OfDigest(v.precheck)
    PROVE  DecisionInv'
  <1>1. /\ DOMAIN files' = File
        /\ \A g \in File : files'[g] = IF g = f THEN value ELSE files[g]
        /\ command' = command /\ reconciler' = reconciler /\ sealed' = sealed
        /\ account' = account /\ memory' = memory /\ build' = build
    BY DEF DecisionInv, StateInv, state
  <1>2. /\ {"digest", "output", "transaction", "verdict"} \cup SealFiles \cup Prechecks \subseteq File
        /\ f \notin {"digest", "output", "transaction"} \cup SealFiles
    BY DEF File, Seals, SealFiles, Downstream, Agents, Prechecks
  <1>3. \A p : OfDigest(p)' <=> OfDigest(p)
    BY <1>1, <1>2 DEF OfDigest
  <1>4. Orderly(command.todo)'
    <2>1. Orderly(command.todo)
      BY DEF DecisionInv, CommandInv, Plan
    <2>2. \A i : OfDigest(command.todo[i].value)' <=> OfDigest(command.todo[i].value)
      BY <1>1, <1>3 DEF OfDigest
    <2> QED
      BY <1>1, <1>2, <2>1, <2>2 DEF Orderly
  <1>5. Sealing(command.for, command.todo)'
    <2>1. Sealing(command.for, command.todo)
      BY DEF DecisionInv, CommandInv, Plan
    <2>2. \A t : Replays(t, command.todo) => Replays(t, command.todo)'
      BY <1>1, <1>2 DEF Replays, Bound, StillCurrent, Snapshot, Preflight, Fits, Allowed, SealFiles
    <2> QED
      BY <1>1, <1>2, <2>1, <2>2 DEF Sealing, Present
  <1>6. CommandInv'
    BY <1>1, <1>4, <1>5 DEF DecisionInv, CommandInv, Plan
  <1>7. ReviewInv'
    <2>1. \A v \in reviews' : OfDigest(v.precheck)'
      BY <1>3 DEF DecisionInv, ReviewInv, OfDigest
    <2>2. ASSUME NEW g \in Prechecks, files'[g] # None PROVE OfDigest(files[g])'
      BY <1>1, <1>2, <1>3, <2>2 DEF DecisionInv, ReviewInv, OfDigest, Prechecks
    <2> QED
      BY <1>1, <1>2, <2>1, <2>2 DEF DecisionInv, ReviewInv
  <1>8. FieldInv' /\ ReadInv'
    BY <1>1, <1>2 DEF DecisionInv, FieldInv, Has, ReadInv, Verified
  <1> QED
    BY <1>1, <1>6, <1>7, <1>8 DEF DecisionInv, StateInv

LEMMA AgentStep == ASSUME DecisionInv, Agent PROVE DecisionInv'
  <1>1. CASE Specialists
    BY <1>1, AgentFile DEF Specialists, AgentWrites, DecisionInv
  <1>2. CASE PmWrites
    <2>1. PICK c \in Contents : AgentWrites("book", [content |-> c, reads |-> files["digest"]])
      BY <1>2 DEF PmWrites
    <2> QED
      BY <1>2, <2>1, AgentFile DEF PmWrites, AgentWrites
  <1>3. CASE AdversaryWrites
    <2>1. PICK allowed \in {{c} : c \in Contents} \cup {{}} :
            LET v == [cycle |-> files["meta"].cycle, accept |-> allowed = {}, allowed |-> allowed,
                      precheck |-> files["precheck"], performance |-> files["performance"],
                      policy |-> files["policy"]]
            IN AgentWrites("verdict", v) /\ reviews' = reviews \cup {v}
      BY <1>3 DEF AdversaryWrites
    <2> DEFINE v == [cycle |-> files["meta"].cycle, accept |-> allowed = {}, allowed |-> allowed,
                     precheck |-> files["precheck"], performance |-> files["performance"],
                     policy |-> files["policy"]]
    <2>2. v.precheck = files["precheck"] /\ OfDigest(v.precheck)
      BY <1>3 DEF AdversaryWrites, Present, DecisionInv, ReviewInv, Prechecks
    <2>3. AgentWrites("verdict", v) /\ reviews' = reviews \cup {v}
      BY <2>1
    <2> HIDE DEF v
    <2> QED
      BY <2>2, <2>3, AgentFile DEF AgentWrites
  <1>4. CASE KeepOriginal
    BY <1>4, AgentFile DEF KeepOriginal, AgentWrites
  <1>5. CASE KeepPrecheck
    <2>1. OfDigest(files["precheck"])
      BY <1>5 DEF KeepPrecheck, Present, DecisionInv, ReviewInv, Prechecks
    <2> QED
      BY <1>5, <2>1, AgentFile DEF KeepPrecheck
  <1> QED
    BY <1>1, <1>2, <1>3, <1>4, <1>5 DEF Agent

-----------------------------------------------------------------------------
\* The reconciler.

\* A read adds its fields to what was read before and changes nothing else.
LEMMA ReadEffect ==
    ASSUME NEW stage, NEW fields, Reads(stage, fields), "stage" \notin DOMAIN fields
    PROVE  /\ DOMAIN reconciler' = DOMAIN fields \cup DOMAIN reconciler \cup {"stage"}
           /\ reconciler'.stage = stage
           /\ \A f \in DOMAIN fields : reconciler'[f] = fields[f]
           /\ \A f \in DOMAIN reconciler \ (DOMAIN fields \cup {"stage"}) :
                  reconciler'[f] = reconciler[f]
           /\ account' = account /\ memory' = memory /\ build' = build
           /\ files' = files /\ command' = command /\ reviews' = reviews /\ sealed' = sealed
  BY DEF Reads, state

LEMMA PlanKept ==
    ASSUME UNCHANGED <<state, files, command>>, Plan(command.for, command.todo)
    PROVE  Plan(command.for, command.todo)'
  <1>1. /\ account' = account /\ memory' = memory /\ build' = build
        /\ files' = files /\ command' = command
    BY DEF state
  <1>2. Orderly(command.todo)'
    BY <1>1 DEF Plan, Orderly, OfDigest
  <1>3. \A t : Replays(t, command.todo) => Replays(t, command.todo)'
    BY <1>1 DEF Replays, Bound, StillCurrent, Preflight, Snapshot, Fits, Allowed
  <1>4. Sealing(command.for, command.todo)'
    BY <1>1, <1>3 DEF Plan, Sealing, Present
  <1> QED
    BY <1>1, <1>2, <1>4 DEF Plan

LEMMA ReconcilerReads ==
    ASSUME DecisionInv, reconciler # None,
           UNCHANGED <<state, files, command, reviews, sealed>>, FieldInv', ReadInv'
    PROVE  DecisionInv'
  <1>1. /\ account' = account /\ memory' = memory /\ build' = build
        /\ files' = files /\ command' = command /\ reviews' = reviews /\ sealed' = sealed
    BY DEF state
  <1>2. CommandInv'
    BY <1>1, PlanKept DEF DecisionInv, CommandInv
  <1> QED
    BY <1>1, <1>2 DEF DecisionInv, StateInv, ReviewInv, OfDigest

LEMMA ReadStartStep == ASSUME DecisionInv, ReadStart PROVE DecisionInv'
  <1>1. FieldInv' /\ ReadInv'
    BY DEF ReadStart, FieldInv, Has, ReadInv
  <1>2. CommandInv'
    BY PlanKept DEF ReadStart, Free, DecisionInv, CommandInv
  <1> QED
    BY <1>1, <1>2 DEF ReadStart, DecisionInv, StateInv, ReviewInv, OfDigest, state

LEMMA ReadPerformanceStep == ASSUME DecisionInv, ReadPerformance PROVE DecisionInv'
  <1> DEFINE fields == [performance |-> files["performance"]]
  <1>1. Reads("performance", fields) /\ reconciler # None /\ reconciler.stage = "meta"
    BY DEF ReadPerformance, At
  <1>2. DOMAIN fields = {"performance"}
    OBVIOUS
  <1>3. DOMAIN reconciler' = DOMAIN reconciler \cup {"performance", "stage"}
        /\ reconciler'.stage = "performance"
    BY <1>1, <1>2, ReadEffect
  <1>4. FieldInv' /\ ReadInv'
    BY <1>1, <1>3 DEF DecisionInv, FieldInv, Has, ReadInv
  <1> QED
    BY <1>1, <1>4, ReconcilerReads DEF Reads

LEMMA ReadReadsStep == ASSUME DecisionInv, ReadReads PROVE DecisionInv'
  <1> DEFINE fields == [reads |-> files["reads"]]
  <1>1. Reads("reads", fields) /\ reconciler # None /\ reconciler.stage = "performance"
        /\ files["digest"] = files["reads"]
    BY DEF ReadReads, At
  <1>2. DOMAIN fields = {"reads"} /\ fields["reads"] = files["reads"]
    OBVIOUS
  <1>3. /\ DOMAIN reconciler' = DOMAIN reconciler \cup {"reads", "stage"}
        /\ reconciler'.stage = "reads" /\ reconciler'.reads = files["reads"] /\ files' = files
    BY <1>1, <1>2, ReadEffect
  <1>4. FieldInv' /\ ReadInv'
    BY <1>1, <1>3 DEF DecisionInv, FieldInv, Has, ReadInv
  <1> QED
    BY <1>1, <1>4, ReconcilerReads DEF Reads

LEMMA ReadDecisionStep == ASSUME DecisionInv, ReadDecision PROVE DecisionInv'
  <1> DEFINE fields == [book |-> files["book"], verdict |-> files["verdict"],
                        policy |-> files["policy"]]
  <1>1. Reads("decision", fields) /\ reconciler # None /\ reconciler.stage = "reads"
        /\ files["verdict"] \in reviews
    BY DEF ReadDecision, At, Present, DecisionInv, ReviewInv
  <1>2. DOMAIN fields = {"book", "verdict", "policy"} /\ fields["verdict"] = files["verdict"]
    OBVIOUS
  <1>3. /\ DOMAIN reconciler' = DOMAIN reconciler \cup {"book", "verdict", "policy", "stage"}
        /\ reconciler'.stage = "decision" /\ reconciler'.verdict = files["verdict"]
        /\ files' = files /\ reviews' = reviews
    <2> HIDE DEF fields
    <2>1. /\ DOMAIN reconciler' = DOMAIN fields \cup DOMAIN reconciler \cup {"stage"}
          /\ reconciler'.stage = "decision"
          /\ \A f \in DOMAIN fields : reconciler'[f] = fields[f]
          /\ files' = files /\ reviews' = reviews
      BY <1>1, <1>2, ReadEffect
    <2> QED BY <1>2, <2>1
  <1>4. reconciler'.reads = reconciler.reads
    <2>1. "reads" \in DOMAIN reconciler
      BY <1>1 DEF DecisionInv, FieldInv, Has
    <2> HIDE DEF fields
    <2>2. "reads" \in DOMAIN reconciler \ (DOMAIN fields \cup {"stage"})
      BY <1>2, <2>1
    <2> QED BY <1>1, <1>2, <2>2, ReadEffect
  <1>5. FieldInv' /\ ReadInv'
    BY <1>1, <1>3, <1>4 DEF DecisionInv, FieldInv, Has, ReadInv
  <1> QED
    BY <1>1, <1>5, ReconcilerReads DEF Reads

LEMMA ReadAccountStep == ASSUME DecisionInv, ReadAccount PROVE DecisionInv'
  <1> DEFINE fields == [base |-> account.rev]
  <1>1. Reads("account", fields) /\ reconciler # None /\ reconciler.stage = "decision"
        /\ reconciler.performance.account = account.rev
    BY DEF ReadAccount, At
  <1>2. DOMAIN fields = {"base"} /\ fields["base"] = account.rev
    OBVIOUS
  <1>3. /\ DOMAIN reconciler' = DOMAIN reconciler \cup {"base", "stage"}
        /\ reconciler'.stage = "account" /\ reconciler'.base = account.rev
        /\ files' = files /\ reviews' = reviews
    BY <1>1, <1>2, ReadEffect
  <1>4. /\ reconciler'.reads = reconciler.reads /\ reconciler'.verdict = reconciler.verdict
        /\ reconciler'.performance = reconciler.performance
    <2>1. {"reads", "verdict", "performance"} \subseteq DOMAIN reconciler \ (DOMAIN fields \cup {"stage"})
      BY <1>1, <1>2 DEF DecisionInv, FieldInv, Has
    <2> QED
      BY <1>1, <1>2, <2>1, ReadEffect
  <1>5. FieldInv' /\ ReadInv'
    BY <1>1, <1>3, <1>4 DEF DecisionInv, FieldInv, Has, ReadInv
  <1> QED
    BY <1>1, <1>5, ReconcilerReads DEF Reads

\* The last read verifies the chain.
LEMMA ChainIsVerified ==
    ASSUME ReceiptIsNoMark, DecisionInv, ChainVerified
    PROVE  Verified
  <1> DEFINE v == reconciler.verdict
             checked(file, book) == [book |-> book, meta |-> reconciler.meta, held |-> account.cycle]
  <1>1. CASE v.accept
    BY <1>1 DEF ChainVerified, AcceptedChain, VerdictBinding, PrecheckVerified, Verified
  <1>2. CASE ~v.accept
    <2>1. RevisedChain /\ reconciler.book.reads = reconciler.reads
      BY <1>2 DEF ChainVerified
    <2>2. /\ v.precheck = files["precheck_original"] /\ v.performance = reconciler.performance
          /\ v.precheck.meta = reconciler.meta /\ v.precheck.held = account.cycle
      BY <2>1 DEF RevisedChain, VerdictBinding, PrecheckVerified
    <2>3. files["output"] \notin {None, Torn} /\ files["output"].book = reconciler.book
      BY <2>1 DEF RevisedChain, ReceiptsVerified, ReceiptIsNoMark
    <2>4. sealed = {reconciler.book}
      BY <2>3 DEF DecisionInv, ReviewInv
    <2> QED
      BY <1>2, <2>1, <2>2, <2>4 DEF RevisedChain, Verified
  <1> QED
    BY <1>1, <1>2

LEMMA ReadChainStep ==
    ASSUME ReceiptIsNoMark, DecisionInv, ReadChain PROVE DecisionInv'
  <1>1. Reads("verified", <<>>) /\ reconciler # None /\ reconciler.stage = "account"
        /\ Verified
    BY ChainIsVerified DEF ReadChain, At
  <1>2. DOMAIN <<>> = {}
    OBVIOUS
  <1>3. /\ DOMAIN reconciler' = DOMAIN reconciler \cup {"stage"} /\ reconciler'.stage = "verified"
        /\ \A f \in DOMAIN reconciler \ {"stage"} : reconciler'[f] = reconciler[f]
        /\ files' = files /\ reviews' = reviews /\ sealed' = sealed /\ account' = account
    BY <1>1, <1>2, ReadEffect
  <1>4. {"meta", "performance", "reads", "book", "verdict", "policy", "base"} \subseteq DOMAIN reconciler
    BY <1>1 DEF DecisionInv, FieldInv, Has
  <1>5. /\ reconciler'.meta = reconciler.meta /\ reconciler'.performance = reconciler.performance
        /\ reconciler'.reads = reconciler.reads /\ reconciler'.book = reconciler.book
        /\ reconciler'.verdict = reconciler.verdict /\ reconciler'.base = reconciler.base
    BY <1>3, <1>4
  <1>6. FieldInv' /\ ReadInv'
    BY <1>1, <1>3, <1>4, <1>5 DEF DecisionInv, FieldInv, Has, ReadInv, Verified
  <1> QED
    BY <1>1, <1>6, ReconcilerReads DEF Reads

LEMMA HaltStep == ASSUME DecisionInv, Halt PROVE DecisionInv'
  BY ReconcilerReads DEF Halt, DecisionInv, FieldInv, ReadInv

-----------------------------------------------------------------------------
\* The state moves on: what was bound to an earlier one stays bound, and what is current
\* was current before.
LEMMA StateMoves ==
    ASSUME DecisionInv,
           UNCHANGED <<files, command, reviews, sealed>>,
           DOMAIN account' = {"cycle", "rev"},
           account'.rev \in Nat, memory' \in Nat, build' \in Nat,
           account.rev <= account'.rev, memory <= memory', build <= build',
           reconciler' = None \/ (reconciler' = reconciler /\ account'.cycle = account.cycle)
    PROVE  DecisionInv'
  <1>1. \A t : Replays(t, command.todo) => Replays(t, command.todo)'
    <2> SUFFICES ASSUME NEW t, Replays(t, command.todo) PROVE Replays(t, command.todo)'
      OBVIOUS
    <2>1. Bound(t) /\ Bound(t)'
      BY DEF Replays, Bound, DecisionInv, StateInv
    <2>2. ASSUME StillCurrent(t)' PROVE StillCurrent(t)
      <3>1. /\ t.provenance = build' /\ t.performance.account = account'.rev
            /\ t.performance.memory = memory'
        BY <2>2 DEF StillCurrent, Snapshot
      <3>2. build' = build /\ account'.rev = account.rev /\ memory' = memory
        BY <2>1, <3>1 DEF Bound, DecisionInv, StateInv
      <3> QED
        BY <2>2, <3>2 DEF StillCurrent, Snapshot
    <2> QED
      BY <2>1, <2>2 DEF Replays, Preflight, Fits, Allowed
  <1>2. CommandInv'
    BY <1>1 DEF DecisionInv, CommandInv, Plan, Orderly, OfDigest, Sealing, Present
  <1>3. FieldInv' /\ ReadInv'
    BY DEF DecisionInv, FieldInv, Has, ReadInv, Verified
  <1> QED
    BY <1>2, <1>3 DEF DecisionInv, StateInv, ReviewInv, OfDigest

LEMMA CommitStep == ASSUME DecisionInv, Commit PROVE DecisionInv'
  BY StateMoves DEF Commit, DecisionInv, StateInv

LEMMA FaultStep ==
    ASSUME DecisionInv, Score \/ Heartbeat \/ Deploy \/ Crash PROVE DecisionInv'
  <1>1. CASE Score
    BY <1>1, StateMoves DEF Score, Fault, DecisionInv, StateInv
  <1>2. CASE Heartbeat
    BY <1>2, StateMoves DEF Heartbeat, Fault, DecisionInv, StateInv
  <1>3. CASE Deploy
    BY <1>3, StateMoves DEF Deploy, Fault, DecisionInv, StateInv
  <1> QED
    BY <1>1, <1>2, <1>3, CrashStep

LEMMA DecisionStep ==
    ASSUME ReceiptIsNoMark, DecisionInv, [Next]_vars
    PROVE  DecisionInv'
  <1>1. CASE UNCHANGED vars
    <2>1. reconciler' = reconciler /\ UNCHANGED <<state, files, command, reviews, sealed>>
      BY <1>1 DEF vars
    <2>2. CommandInv'
      BY <2>1, PlanKept DEF DecisionInv, CommandInv
    <2> QED
      BY <2>1, <2>2 DEF state, DecisionInv, StateInv, ReviewInv, OfDigest, FieldInv, Has, ReadInv,
                        Verified
  <1>2. CASE Next
    BY <1>2, EvidenceStep, PerformanceStep, SealStartsStep, SealReplaysStep, SealContinuesStep,
       SealEndsStep, ReadsDigestStep, PrecheckStep, ReceiptPrepareStep, ReceiptSealStep,
       WriteNextStep, AgentStep, ReadStartStep, ReadPerformanceStep, ReadReadsStep,
       ReadDecisionStep, ReadAccountStep, ReadChainStep, CommitStep, HaltStep, FaultStep
       DEF Next, Reconcile, Prechecks
  <1> QED
    BY <1>1, <1>2

THEOREM ChainInvariant == ASSUME ReceiptIsNoMark PROVE Spec => []DecisionInv
  <1>1. DecisionInv /\ [Next]_vars => DecisionInv'
    BY DecisionStep
  <1> QED
    BY <1>1, DecisionInit, PTL DEF Spec

-----------------------------------------------------------------------------
\* What a commit says of the decision it executes.

\* The only step that ends a cycle is the commit of a verified chain.
LEMMA OnlyCommitEndsCycle ==
    ASSUME DecisionInv, [Next]_vars, account'.cycle # account.cycle PROVE Commit
  <1>1. account' # account
    OBVIOUS
  <1>2. ~Evidence /\ ~Performance /\ ~SealStarts /\ ~SealReplays /\ ~SealContinues /\ ~SealEnds
    BY <1>1 DEF state, Evidence, Performance, SealStarts, SealReplays, SealContinues, SealEnds, Run
  <1>3. /\ ~ReadsDigest /\ ~ReceiptPrepare /\ ~ReceiptSeal
        /\ \A book, out : ~Precheck(book, out)
    BY <1>1 DEF state, ReadsDigest, Precheck, ReceiptPrepare, ReceiptSeal, Run
  <1>4. ~WriteNext
    BY <1>1 DEF state, WriteNext
  <1>5. \A file, value : ~AgentWrites(file, value)
    BY <1>1 DEF state, AgentWrites
  <1>6. ~Agent
    BY <1>1, <1>5 DEF state, Agent, Specialists, PmWrites, AdversaryWrites, KeepOriginal, KeepPrecheck
  <1>7. \A stage, fields : ~Reads(stage, fields)
    BY <1>1 DEF state, Reads
  <1>8. Reconcile => Commit
    BY <1>1, <1>7 DEF state, Reconcile, ReadStart, ReadPerformance, ReadReads, ReadDecision,
                      ReadAccount, ReadChain, Halt
  <1>9. ~Score /\ ~Heartbeat /\ ~Deploy /\ ~Crash
    BY DEF state, Score, Heartbeat, Deploy, Crash, DecisionInv, StateInv
  <1> QED
    BY <1>1, <1>2, <1>3, <1>4, <1>6, <1>8, <1>9 DEF Next, vars, state

\* No book commits that was not reviewed as it is executed: a verdict of this packet
\* accepts its precheck, or rejects an original whose one sealed revision it is.
THEOREM ReviewedBeforeExecuted == ASSUME ReceiptIsNoMark PROVE Spec => ExecutedWasReviewed
  <1>1. ASSUME DecisionInv, [Next]_vars, account'.cycle # account.cycle
        PROVE  ReviewedAsExecuted
    <2> DEFINE v == reconciler.verdict
    <2>1. reconciler # None /\ reconciler.stage = "verified"
      BY <1>1, OnlyCommitEndsCycle DEF Commit, At
    <2>2. v \in reviews /\ Verified /\ reconciler.reads = files["digest"]
      BY <1>1, <2>1 DEF DecisionInv, ReadInv
    <2>3. v.precheck.book.reads = reconciler.reads
      BY <1>1, <2>2 DEF DecisionInv, ReviewInv, OfDigest
    <2> QED
      BY <2>2, <2>3 DEF Verified, ReviewedAsExecuted
  <1>2. DecisionInv /\ [Next]_vars => [account'.cycle # account.cycle => ReviewedAsExecuted]_vars
    BY <1>1
  <1> QED
    BY <1>2, ChainInvariant, PTL DEF Spec, ExecutedWasReviewed

\* No decision commits on an account, or on holdings, other than those it was measured
\* and reviewed on.
THEOREM OneAccountPerDecision == ASSUME ReceiptIsNoMark PROVE Spec => OneStatePerDecision
  <1>1. ASSUME DecisionInv, [Next]_vars, account'.cycle # account.cycle
        PROVE  /\ reconciler.verdict.performance.account = account.rev
               /\ reconciler.verdict.precheck.held = account.cycle
    <2>1. reconciler # None /\ reconciler.stage = "verified" /\ reconciler.base = account.rev
      BY <1>1, OnlyCommitEndsCycle DEF Commit, At
    <2>2. Verified /\ reconciler.performance.account = reconciler.base
      BY <1>1, <2>1 DEF DecisionInv, ReadInv
    <2> QED
      BY <2>1, <2>2 DEF Verified
  <1>2. DecisionInv /\ [Next]_vars =>
            [account'.cycle # account.cycle =>
                 /\ reconciler.verdict.performance.account = account.rev
                 /\ reconciler.verdict.precheck.held = account.cycle]_vars
    BY <1>1
  <1> QED
    BY <1>2, ChainInvariant, PTL DEF Spec, OneStatePerDecision

\* A seal that was interrupted anywhere can be replayed while what it was prepared on is
\* current.
THEOREM SealReplayable == ASSUME ReceiptIsNoMark PROVE Spec => []SealNeverWedged
  <1>1. DecisionInv => SealNeverWedged
    BY DEF DecisionInv, CommandInv, Plan, Sealing, Replays, SealNeverWedged
  <1> QED
    BY <1>1, ChainInvariant, PTL
=============================================================================

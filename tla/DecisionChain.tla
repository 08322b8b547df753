---------------------------- MODULE DecisionChain ----------------------------
(***************************************************************************)
(* The full decision chain that desk_reconcile.py accepts: evidence, the   *)
(* decision-start seal, specialist reads and their digest, the PM's book   *)
(* and its precheck, the Adversary's verdict, one receipted revision, and  *)
(* the verification that reads all of it back.                             *)
(*                                                                         *)
(* The files of pending/<cycle> are written by commands, one at a time,    *)
(* any of which may die between two writes, and by agents that write their *)
(* own file whenever they finish.  Scoring changes the memory, a heartbeat *)
(* the account and a deploy the build between any two steps.  The sha256   *)
(* of an artifact is the artifact; what a role or a book contains is a     *)
(* number.                                                                 *)
(***************************************************************************)
EXTENDS Naturals, Sequences, FiniteSets

CONSTANTS
    None,
    Torn,         \* a file created and not yet written
    Contents,     \* what a specialist packet or a book may contain
    MaxEvidence,  \* bound: evidence packets
    MaxWrites,    \* bound: agent files per packet
    MaxFaults     \* bound: scores, heartbeats, deploys and dead commands together

VARIABLES
    account, memory, build, \* versions the packet is bound to
    files,      \* the pending directory
    command,    \* the command that is writing
    reconciler, \* desk_reconcile.py, with what it has read
    reviews,    \* history: what the Adversary reviewed in this packet
    sealed,     \* history: the books sealed as this packet's revision
    packets, writes, faults

bounds == <<packets, writes, faults>>
state  == <<account, memory, build>>
vars   == <<state, files, command, reconciler, reviews, sealed, bounds>>

Agents == {"reads", "book", "book_original", "verdict"}
Downstream == Agents \cup {"digest", "precheck", "precheck_original", "policy",
                           "dispatch", "output"}
Seals == {"pre", "pre_side", "provenance", "transaction"}
File == {"meta", "performance", "performance_side"} \cup Seals \cup Downstream

Empty == [f \in File |-> None]
Idle  == [for |-> "idle", todo |-> <<>>]
Free  == command.for = "idle" /\ reconciler = None

Write(file, value) == [file |-> file, value |-> value]

Init ==
    /\ account = [cycle |-> 0, rev |-> 0] /\ memory = 0 /\ build = 0
    /\ files = Empty /\ command = Idle /\ reconciler = None
    /\ reviews = {} /\ sealed = {}
    /\ packets = 0 /\ writes = 0 /\ faults = 0

-----------------------------------------------------------------------------
\* Commands: a guard, then durable writes one at a time.

Run(name, todo) ==
    /\ Free
    /\ command' = [for |-> name, todo |-> todo]
    /\ UNCHANGED <<state, files, reconciler, reviews, sealed, bounds>>

\* desk_evidence.py allocates the next cycle and empties its directory; meta.json is
\* written after the evidence it names, and the pointer after meta.json.
Evidence ==
    /\ Free /\ packets < MaxEvidence /\ packets' = packets + 1
    /\ files' = Empty /\ writes' = 0 /\ reviews' = {} /\ sealed' = {}
    /\ command' = [for |-> "evidence",
                   todo |-> <<Write("meta", [cycle |-> account.cycle + 1, packet |-> packets + 1,
                                             pre |-> None, provenance |-> None])>>]
    /\ UNCHANGED <<state, reconciler, faults>>

\* The snapshot a rebuild gives: bound to the meta, the account and the memory.
Snapshot(meta) == [meta |-> meta, account |-> account.rev, memory |-> memory]

Present(file) == files[file] # None

Performance ==
    /\ Present("meta")
    /\ Run("performance", <<Write("performance", Snapshot(files["meta"])),
                            Write("performance_side", Snapshot(files["meta"]))>>)

\* -- desk_decision_start.py

SealedMeta(base, provenance, pre) == [base EXCEPT !.pre = pre, !.provenance = provenance]

Unsealed(meta) == meta.pre = None /\ meta.provenance = None

\* The packet is bound to the meta and its sidecar to the packet.
PresealValid(meta) ==
    /\ Present("performance") /\ files["performance"].meta = meta
    /\ files["performance_side"] = files["performance"]

NewTransaction ==
    LET base == files["meta"]
        final == SealedMeta(base, build, files["performance"])
    IN [base |-> base, final |-> final, pre |-> files["performance"], provenance |-> build,
        performance |-> Snapshot(final)]

\* Mutant: a replay that accepts only the meta.json it started from.
PreflightStrict(t) ==
    /\ files["meta"] = t.base
    /\ files["pre"] \in {None, t.pre} /\ files["pre_side"] \in {None, t.pre}
    /\ files["provenance"] \in {None, t.provenance}
    /\ files["performance"] \in {None, t.pre, t.performance}
    /\ files["performance_side"] \in {None, t.pre, t.performance}

\* What a replay may find beside its transaction.
Preflight(t) ==
    /\ files["meta"] \in {t.base, t.final}
    /\ files["pre"] \in {None, t.pre} /\ files["pre_side"] \in {None, t.pre}
    /\ files["provenance"] \in {None, t.provenance}
    /\ files["performance"] \in {None, t.pre, t.performance}
    /\ files["performance_side"] \in {None, t.pre, t.performance}

\* In the order of _replay_transaction; writing again what is already there changes nothing.
ReplayWrites(t) ==
    <<Write("pre", t.pre), Write("pre_side", t.pre),
      Write("provenance", t.provenance), Write("meta", t.final),
      Write("performance", t.performance), Write("performance_side", t.performance)>>

NothingDownstream == \A f \in Downstream : ~Present(f)

SealStarts ==
    /\ Present("meta") /\ NothingDownstream /\ ~Present("transaction")
    /\ Unsealed(files["meta"])
    /\ \A f \in {"pre", "pre_side", "provenance"} : ~Present(f)
    /\ PresealValid(files["meta"])
    /\ Run("seal", <<Write("transaction", NewTransaction)>>)

Replayable ==
    /\ Present("transaction") /\ NothingDownstream
    /\ Preflight(files["transaction"]) /\ files["transaction"].provenance = build

\* A second run replays the transaction a first one left.
SealReplays == Replayable /\ Run("replay", ReplayWrites(files["transaction"]))

\* Everything is read back and rebuilt before the transaction is removed.
SealedAs(t) ==
    LET meta == files["meta"]
    IN /\ meta.provenance = files["provenance"] /\ files["provenance"] = build
       /\ meta.pre = files["pre"] /\ files["pre_side"] = files["pre"]
       /\ Snapshot(meta) = t.performance
       /\ PresealValid(meta)

SealEnds ==
    /\ command.for = "replay" /\ command.todo = <<>>
    /\ files' = IF SealedAs(files["transaction"]) THEN [files EXCEPT !["transaction"] = None]
                ELSE files
    /\ command' = Idle
    /\ UNCHANGED <<state, reconciler, reviews, sealed, bounds>>

\* The run that wrote the transaction goes on to replay it.
SealContinues ==
    /\ command.for = "seal" /\ command.todo = <<>>
    /\ command' = IF Replayable
                  THEN [for |-> "replay", todo |-> ReplayWrites(files["transaction"])]
                  ELSE Idle
    /\ UNCHANGED <<state, files, reconciler, reviews, sealed, bounds>>

\* -- desk_reads_digest.py: at least one role parses; the digest is created once.

ReadsDigest ==
    /\ Present("meta") /\ ~Present("digest") /\ Present("reads")
    /\ Run("digest", <<Write("digest", Torn), Write("digest", files["reads"])>>)

\* -- desk_precheck.py, for the book or for its original.

ComputePrecheck(book) == [book |-> book, meta |-> files["meta"], held |-> account.cycle]

Precheck(book, out) ==
    /\ Present("meta") /\ Present(book)
    /\ files["digest"] \notin {None, Torn}
    /\ files[book].reads = files["digest"] /\ files["reads"] = files["digest"]
    /\ Run("precheck", <<Write("policy", build), Write(out, ComputePrecheck(files[book]))>>)

\* -- desk_revision_receipt.py

Dispatch == [original |-> files["book_original"], precheck |-> files["precheck_original"],
             verdict |-> files["verdict"]]

RevisionInputs ==
    /\ Present("meta") /\ Present("verdict") /\ Present("book_original")
    /\ Present("precheck_original") /\ Present("book") /\ Present("precheck")
    /\ files["verdict"].accept = FALSE /\ files["verdict"].cycle = files["meta"].cycle

\* O_EXCL: an existing receipt, even an empty one, is never replaced.
Exclusive(file) == ~Present(file)

ReceiptPrepare ==
    /\ RevisionInputs /\ ~Present("output") /\ Exclusive("dispatch")
    /\ files["book"] = files["book_original"]
    /\ files["precheck"] = files["precheck_original"]
    /\ Run("receipt", <<Write("dispatch", Torn), Write("dispatch", Dispatch)>>)

ReceiptSeal ==
    /\ RevisionInputs /\ files["dispatch"] = Dispatch /\ Exclusive("output")
    /\ Run("receipt", <<Write("output", Torn),
                        Write("output", [dispatch |-> Dispatch, book |-> files["book"]])>>)

\* One durable write; a sealed revision is remembered.
WriteNext ==
    LET w == Head(command.todo)
    IN /\ command.todo # <<>>
       /\ files' = [files EXCEPT ![w.file] = w.value]
       /\ sealed' = IF w.file = "output" /\ w.value # Torn THEN sealed \cup {w.value.book}
                    ELSE sealed
       /\ command' = IF Len(command.todo) = 1 /\ command.for \notin {"seal", "replay"}
                     THEN Idle ELSE [command EXCEPT !.todo = Tail(@)]
       /\ UNCHANGED <<state, reconciler, reviews, bounds>>

-----------------------------------------------------------------------------
\* Agents, and the session that keeps the originals of a rejected book.

AgentWrites(file, value) ==
    /\ value # files[file] /\ writes < MaxWrites /\ writes' = writes + 1
    /\ files' = [files EXCEPT ![file] = value]
    /\ UNCHANGED <<state, command, reconciler, sealed, packets, faults>>

Specialists == \E c \in Contents : AgentWrites("reads", c) /\ UNCHANGED reviews

\* The PM binds the digest it was given; it writes the first book and its revision.
PmWrites ==
    /\ files["digest"] \notin {None, Torn}
    /\ \E c \in Contents : AgentWrites("book", [content |-> c, reads |-> files["digest"]])
    /\ UNCHANGED reviews

\* A rejection names the contents a revision may have.
AdversaryWrites ==
    /\ Present("precheck") /\ Present("policy") /\ Present("performance")
    /\ \E allowed \in {{c} : c \in Contents} \cup {{}} :
         LET v == [cycle |-> files["meta"].cycle, accept |-> allowed = {}, allowed |-> allowed,
                   precheck |-> files["precheck"], performance |-> files["performance"],
                   policy |-> files["policy"]]
         IN AgentWrites("verdict", v) /\ reviews' = reviews \cup {v}

KeepOriginal ==
    /\ Free /\ Present("verdict") /\ Present("book") /\ Present("precheck")
    /\ files["verdict"].accept = FALSE
    /\ AgentWrites("book_original", files["book"]) /\ UNCHANGED reviews

KeepPrecheck ==
    /\ Free /\ Present("book_original") /\ Present("precheck")
    /\ files["precheck_original"] # files["precheck"]
    /\ files' = [files EXCEPT !["precheck_original"] = files["precheck"]]
    /\ UNCHANGED <<state, command, reconciler, reviews, sealed, bounds>>

Agent == Specialists \/ PmWrites \/ AdversaryWrites \/ KeepOriginal \/ KeepPrecheck

-----------------------------------------------------------------------------
\* desk_reconcile.py reads the chain back in this order, and nothing twice.

Reads(stage, fields) ==
    /\ reconciler' = [f \in DOMAIN fields \cup DOMAIN reconciler \cup {"stage"} |->
                        IF f = "stage" THEN stage
                        ELSE IF f \in DOMAIN fields THEN fields[f] ELSE reconciler[f]]
    /\ UNCHANGED <<state, files, command, reviews, sealed, bounds>>

At(stage) == reconciler # None /\ reconciler.stage = stage

ReadStart ==
    /\ Free /\ Present("meta")
    /\ files["meta"].cycle = account.cycle + 1
    /\ reconciler' = [stage |-> "meta", meta |-> files["meta"]]
    /\ UNCHANGED <<state, files, command, reviews, sealed, bounds>>

\* load_bound_decision_start_provenance and load_bound_pre_reflection_performance.
SealVerified(meta) ==
    /\ ~Unsealed(meta)
    /\ meta.provenance = files["provenance"] /\ files["provenance"] = build
    /\ meta.pre = files["pre"] /\ files["pre_side"] = files["pre"]

PerformanceVerified(meta) ==
    /\ files["performance"] = Snapshot(meta)
    /\ files["performance_side"] = files["performance"]

ReadPerformance ==
    /\ At("meta") /\ SealVerified(reconciler.meta) /\ PerformanceVerified(reconciler.meta)
    /\ Reads("performance", [performance |-> files["performance"]])

ReadReads ==
    /\ At("performance") /\ Present("reads") /\ files["digest"] = files["reads"]
    /\ Reads("reads", [reads |-> files["reads"]])

PolicyCurrent == files["policy"] = build

ReadDecision ==
    /\ At("reads") /\ Present("book") /\ Present("verdict") /\ PolicyCurrent
    /\ Reads("decision", [book |-> files["book"], verdict |-> files["verdict"],
                          policy |-> files["policy"]])

\* Mutant: the account is loaded and not compared with the packet's.
ReadAccountUnchecked == At("decision") /\ Reads("account", [base |-> account.rev])

ReadAccount ==
    /\ At("decision") /\ reconciler.performance.account = account.rev
    /\ Reads("account", [base |-> account.rev])

\* The precheck on disk is the one its book, meta and holdings give.
PrecheckVerified(file, book) ==
    files[file] = [book |-> book, meta |-> reconciler.meta, held |-> account.cycle]

ReceiptsVerified ==
    LET expected == [original |-> files["book_original"], verdict |-> reconciler.verdict,
                     precheck |-> files["precheck_original"]]
    IN /\ files["dispatch"] = expected
       /\ files["output"] = [dispatch |-> expected, book |-> reconciler.book]

\* Mutant: the verdict is not tied to the precheck on disk.
VerdictBindingByPolicy(precheck) ==
    LET v == reconciler.verdict
    IN /\ v.cycle = reconciler.meta.cycle /\ v.policy = reconciler.policy
       /\ v.performance = reconciler.performance

\* verify_verdict_binding: the verdict is of this precheck, policy and performance packet.
VerdictBinding(precheck) ==
    LET v == reconciler.verdict
    IN /\ v.cycle = reconciler.meta.cycle /\ v.precheck = files[precheck]
       /\ v.policy = reconciler.policy /\ v.performance = reconciler.performance

NoRevisionArtifacts ==
    \A f \in {"book_original", "precheck_original", "dispatch", "output"} : ~Present(f)

AcceptedChain == NoRevisionArtifacts /\ VerdictBinding("precheck")

\* verify_revision_binding is RevisionAuthority's; here it is the contents allowed.
RevisedChain ==
    /\ Present("book_original")
    /\ PrecheckVerified("precheck_original", files["book_original"])
    /\ ReceiptsVerified /\ VerdictBinding("precheck_original")
    /\ reconciler.book.content \in reconciler.verdict.allowed

ChainVerified ==
    /\ reconciler.book.reads = reconciler.reads
    /\ PrecheckVerified("precheck", reconciler.book)
    /\ IF reconciler.verdict.accept THEN AcceptedChain ELSE RevisedChain

ReadChain == /\ At("account") /\ ChainVerified = TRUE
             /\ Reads("verified", <<>>)

\* The account swaps from the base it was verified on.
Commit ==
    /\ At("verified") /\ reconciler.base = account.rev
    /\ account' = [cycle |-> account.cycle + 1, rev |-> account.rev + 1]
    /\ reconciler' = None
    /\ UNCHANGED <<memory, build, files, command, reviews, sealed, bounds>>

Halt == /\ reconciler # None /\ reconciler' = None
        /\ UNCHANGED <<state, files, command, reviews, sealed, bounds>>

Reconcile == \/ ReadStart \/ ReadPerformance \/ ReadReads \/ ReadDecision \/ ReadAccount
             \/ ReadChain \/ Commit \/ Halt

-----------------------------------------------------------------------------
\* What else moves.

Fault == /\ faults < MaxFaults /\ faults' = faults + 1
         /\ UNCHANGED <<files, reconciler, reviews, sealed, packets, writes>>

Score == Fault /\ memory' = memory + 1 /\ UNCHANGED <<account, build, command>>
Heartbeat == Fault /\ account' = [account EXCEPT !.rev = @ + 1]
                   /\ UNCHANGED <<memory, build, command>>
Deploy == Fault /\ build' = build + 1 /\ UNCHANGED <<account, memory, command>>
Crash == command.for # "idle" /\ Fault /\ command' = Idle /\ UNCHANGED state

Next ==
    \/ Evidence \/ Performance \/ SealStarts \/ SealReplays \/ SealContinues \/ SealEnds
    \/ ReadsDigest
    \/ Precheck("book", "precheck") \/ Precheck("book_original", "precheck_original")
    \/ ReceiptPrepare \/ ReceiptSeal \/ WriteNext
    \/ Agent \/ Reconcile
    \/ Score \/ Heartbeat \/ Deploy \/ Crash

Spec == Init /\ [][Next]_vars

-----------------------------------------------------------------------------
\* Every file and process is in its domain, and a running command has writes left or a
\* seal to finish.
TypeOK ==
    /\ DOMAIN files = File /\ account \in [cycle : Nat, rev : Nat]
    /\ files["meta"] # None => files["meta"].packet \in 1..packets
    /\ files["reads"] \in Contents \cup {None}
    /\ command.for = "idle" => command.todo = <<>>
    /\ command.for \notin {"idle", "seal", "replay"} => command.todo # <<>>
    /\ reconciler # None => reconciler.meta.cycle = account.cycle + 1

\* What commits was reviewed as it is executed: a verdict of this packet accepts the book's
\* precheck, or rejects an original whose one sealed revision is the book, inside what the
\* verdict allows; and verdict, book and reads are bound to one meta and one performance
\* packet (_verify_decision_chain).
ReviewedAsExecuted ==
    \E v \in reviews :
        /\ v.performance = reconciler.performance /\ v.precheck.meta = reconciler.meta
        /\ v.precheck.book.reads = reconciler.reads /\ reconciler.book.reads = reconciler.reads
        /\ IF v.accept THEN v.precheck.book = reconciler.book
           ELSE sealed = {reconciler.book} /\ reconciler.book.content \in v.allowed
ExecutedWasReviewed == [][account'.cycle # account.cycle => ReviewedAsExecuted]_vars

\* A decision commits on the account it was measured and reviewed on: no heartbeat or
\* other cycle has moved the account since the performance packet that the verdict names,
\* nor the holdings since the precheck (desk_reconcile.py, main).
OneStatePerDecision ==
    [][account'.cycle # account.cycle =>
          /\ reconciler.verdict.performance.account = account.rev
          /\ reconciler.verdict.precheck.held = account.cycle]_vars

\* While the build and the state an interrupted seal was prepared on are current, it can
\* be replayed: no files its crash leaves, or a rerun of the performance packet on top of
\* them, conflict with its transaction.
StillCurrent(t) == /\ t.provenance = build
                   /\ t.pre = Snapshot(t.base) /\ t.performance = Snapshot(t.final)
SealNeverWedged ==
    Present("transaction") /\ command.for = "idle" =>
        (StillCurrent(files["transaction"]) => Preflight(files["transaction"]))
=============================================================================

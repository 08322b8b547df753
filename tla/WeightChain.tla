----------------------------- MODULE WeightChain -----------------------------
(***************************************************************************)
(* The weekly cross-section decision chain: prepare freezes the week's     *)
(* selection and seals a packet, two allocators propose weights, the PM    *)
(* merges them, the Adversary accepts or rejects, at most one revision     *)
(* follows, and reconcile re-verifies the chain from disk, captures the    *)
(* market and commits.                                                     *)
(*                                                                         *)
(* The session runs one command at a time.  The agents are separate        *)
(* processes that write their file whenever they finish: the allocators    *)
(* against any packet they were briefed with, the PM and the Adversary     *)
(* against the brief on disk when they write; the funding heartbeat changes the        *)
(* account and a deploy changes the build between any two steps.  A        *)
(* command may die between two of its writes.                              *)
(***************************************************************************)
EXTENDS CrossSection, Sequences, SequencesExt

CONSTANTS
    Tilts,        \* the weight shapes an agent chooses between
    Caps,         \* the constraints an Adversary chooses between
    Markets,      \* the weekly market histories the exchange may return
    Thin,         \* symbols whose book may fill a unit short
    MaxResidual,  \* achieved dollar residual tolerated, in units
    MaxDeploy,    \* achieved gross tolerated either side of the target, in units
    MaxName,      \* achieved single-name limit, in units
    MaxAge,       \* max_decision_age_minutes, in instants
    Horizon,      \* bound: instants
    MaxPrepares,  \* bound: packets
    MaxCycles,    \* bound: completed cycles
    MaxWrites,    \* bound: agent files per packet
    MaxFaults     \* bound: deploys, heartbeats and dead commands together

VARIABLES
    now,
    weekly,     \* weekly/<week>.json
    pointer,    \* weekly/current.json
    pending,    \* pending/current.json, and the files of the last directory made
    account,    \* the holdings, and the revision its sha stands for
    build,      \* the source and prompt build
    command,    \* the prepare or validate command that is running
    reconciler, \* desk_cross_section_reconcile.py between verification and commit
    completed,  \* completed cycles
    last,       \* when the last one completed
    briefs,     \* history: the packets of this cycle that agents were given
    verdicts,   \* history: the verdicts the Adversary returned on this packet
    writes, faults

done == <<completed, last>>
history == <<briefs, verdicts>>
bounds  == <<writes, faults>>
vars == <<now, weekly, pointer, pending, account, build, command, reconciler, done,
          history, bounds>>

\* weekly/<week>.json, schema WeeklyUniverse.
Snapshots == [week : Int, created : Nat, universe : SUBSET Symbols,
              long : SUBSET Symbols, short : SUBSET Symbols]

\* None stands for no file; returns and funding are numbers.
ASSUME WeightAssumption ==
    /\ Horizon \in Nat
    /\ None \notin Snapshots /\ None \notin [long : SUBSET Symbols, short : SUBSET Symbols]
    /\ \A m \in Markets : \A s \in Symbols : {m[s].price, m[s].funding} \subseteq Int

Week == 0..(Horizon \div WeekLength)
Time == 0..Horizon

\* In the order prepare writes them, then the agents' and the commands'.
Sealed == {"weekly_universe", "weight_packet", "market_state", "runtime_provenance"}
File == Sealed \cup {"meta", "alpha", "risk", "digest", "pm", "precheck", "adversary",
                     "revision_digest", "revision", "final", "final_precheck"}
NoFiles == [f \in File |-> None]

Idle == [for |-> "idle", ts |-> 0, stamp |-> 0, weekly |-> None, todo |-> <<>>]

Init ==
    /\ now = 0 /\ weekly = [w \in Week |-> None] /\ pointer = None
    /\ pending = [current |-> 0, dir |-> 0, files |-> NoFiles]
    /\ account = [rev |-> 0, holdings |-> [s \in Symbols |-> 0]]
    /\ build = 0 /\ command = Idle /\ reconciler = None
    /\ completed = 0 /\ last = None
    /\ briefs = {} /\ verdicts = {}
    /\ writes = 0 /\ faults = 0

Cycle == completed + 1

\* The session runs its commands one at a time.
Free == command.for = "idle" /\ reconciler = None

-----------------------------------------------------------------------------
\* desk_cross_section_prepare.py

\* The snapshot of the week is on disk and the pointer names it.
Pointed(w) == pointer = [week |-> w, snapshot |-> weekly[w]]

\* The week has no snapshot, or the pointer was never written: build.
Unread(w) == weekly[w] = None \/ pointer = None

\* Not before the last cycle of the cadence.
Due == IF last = None THEN TRUE ELSE last < now

Enter(for, snapshot, todo) ==
    command' = [for |-> for, ts |-> now, stamp |-> command.stamp + 1,
                weekly |-> snapshot, todo |-> todo]

PrepareLoads ==
    LET w == WeekOf(now)
    IN /\ Free /\ command.stamp < MaxPrepares /\ Due
       /\ weekly[w] # None /\ Pointed(w) /\ WellFormedSnapshot(weekly[w])
       /\ Enter("seal", weekly[w], <<>>)
       /\ UNCHANGED <<now, weekly, pointer, pending, account, build, reconciler, done,
                      history, bounds>>

\* Mutant: the new snapshot replaces an existing one.
WriteWeeklySnapshotOver(w, snapshot) == TRUE

\* An existing snapshot must be the one just built.
WriteWeeklySnapshot(w, snapshot) == weekly[w] \in {None, snapshot}

PrepareBuilds(market) ==
    LET w == WeekOf(now)
        snapshot == BuildWeeklySnapshot(market, now, command.stamp + 1)
    IN /\ Free /\ command.stamp < MaxPrepares /\ Due
       /\ Unread(w) /\ WriteWeeklySnapshot(w, snapshot)
       /\ Enter("weekly", snapshot, <<"snapshot", "pointer">>)
       /\ UNCHANGED <<now, weekly, pointer, pending, account, build, reconciler, done,
                      history, bounds>>

WriteWeekly ==
    /\ command.for = "weekly"
    /\ IF Head(command.todo) = "snapshot"
       THEN /\ weekly' = [weekly EXCEPT ![WeekOf(command.ts)] = command.weekly]
            /\ command' = [command EXCEPT !.todo = Tail(@)]
            /\ UNCHANGED pointer
       ELSE /\ pointer' = [week |-> WeekOf(command.ts), snapshot |-> command.weekly]
            /\ command' = [command EXCEPT !.for = "seal", !.todo = <<>>]
            /\ UNCHANGED weekly
    /\ UNCHANGED <<now, pending, account, build, reconciler, done, history, bounds>>

\* The account and the market are read and the cycle's directory is filled anew.  Nothing
\* reads its files before meta.json and the pointer name them.
Seal ==
    LET p == [id |-> command.stamp, cycle |-> Cycle, ts |-> command.ts,
              week |-> command.weekly.week, weekly |-> command.weekly,
              holdings |-> account.holdings]
        market == [cycle |-> Cycle, ts |-> command.ts, account |-> account.rev]
        meta == [cycle |-> Cycle, ts |-> command.ts, packet |-> p.id,
                 weekly |-> command.weekly, market |-> market, build |-> build]
    IN /\ command.for = "seal" /\ command.todo = <<>>
       /\ ValidatePolicyBinding(command.weekly, p)
       /\ pending' = [pending EXCEPT !.dir = Cycle,
            !.files = [NoFiles EXCEPT !["weekly_universe"] = command.weekly,
                                      !["weight_packet"] = p, !["market_state"] = market,
                                      !["runtime_provenance"] = build]]
       /\ command' = [command EXCEPT !.todo = <<[file |-> "meta", value |-> meta],
                                               [file |-> "current", value |-> Cycle]>>]
       /\ writes' = 0 /\ verdicts' = {} /\ briefs' = {b \in briefs : b.cycle = Cycle}
       /\ UNCHANGED <<now, weekly, pointer, account, build, reconciler, done, faults>>

\* One durable write of a command; its last one ends it.
WriteNext ==
    LET h == Head(command.todo)
    IN /\ command.for \in {"seal", "finalize"} /\ command.todo # <<>>
       /\ pending' = IF h.file = "current" THEN [pending EXCEPT !.current = h.value]
                     ELSE [pending EXCEPT !.files[h.file] = h.value]
       /\ command' = IF Len(command.todo) > 1 THEN [command EXCEPT !.todo = Tail(@)]
                     ELSE [Idle EXCEPT !.stamp = command.stamp]
       /\ briefs' = IF h.file = "current" THEN briefs \cup {pending.files["weight_packet"]}
                    ELSE briefs
       /\ UNCHANGED <<now, weekly, pointer, account, build, reconciler, done, verdicts, bounds>>

-----------------------------------------------------------------------------
\* What a command reads back.

files == pending.files
Meta == files["meta"]
Packet == files["weight_packet"]

\* resolve_pending: the pointer names this directory, its meta is whole and recent.
Resolvable == /\ pending.dir = pending.current
              /\ Meta # None /\ Meta.cycle = pending.current
              /\ now - Meta.ts <= MaxAge

BoundPacket ==
    /\ Resolvable
    /\ Meta.packet = Packet.id /\ Meta.cycle = Packet.cycle
    /\ Meta.weekly = files["weekly_universe"] /\ Packet.weekly = Meta.weekly
    /\ ValidatePolicyBinding(Meta.weekly, Packet)

ProposalDigests == [alpha |-> files["alpha"], risk |-> files["risk"]]

Proposals ==
    /\ ValidateAllocation(files["alpha"], Packet, "alpha")
    /\ ValidateAllocation(files["risk"], Packet, "risk")

PmBound == /\ Proposals
           /\ ValidateAllocation(files["pm"], Packet, "pm")
           /\ files["pm"].src = ProposalDigests

Prechecked == files["precheck"] = BuildAllocationPrecheck(files["pm"], Packet)

VerdictBound ==
    LET v == files["adversary"]
    IN /\ v # None /\ WellFormedVerdict(v)
       /\ v.cycle = Packet.cycle /\ v.packet = Packet.id
       /\ v.allocation = files["pm"] /\ v.precheck = files["precheck"]

RevisionSources == [pm |-> files["pm"], adversary |-> files["adversary"]]

\* Mutant: the constraints are not applied.
RevisionUnconstrained ==
    /\ files["revision"] # None
    /\ ValidateAllocation(files["revision"], Packet, "pm_revision")
    /\ files["revision"].src = RevisionSources

RevisionBound ==
    /\ files["revision"] # None
    /\ ValidateRevisionConstraints(files["revision"], Packet, files["adversary"].constraints)
    /\ files["revision"].src = RevisionSources

Decided == IF files["adversary"].accept THEN files["pm"] ELSE files["revision"]

Reviewed == PmBound /\ Prechecked /\ VerdictBound
Final == Reviewed /\ IF files["adversary"].accept THEN TRUE ELSE RevisionBound

-----------------------------------------------------------------------------
\* desk_cross_section_validate.py: the kinds that write.  No agent writes the file a
\* command writes, so reading its inputs and writing one output is one step.

Validate(check, file, value) ==
    /\ Free /\ BoundPacket = TRUE /\ check = TRUE
    /\ pending' = [pending EXCEPT !.files[file] = value]
    /\ UNCHANGED <<now, weekly, pointer, account, build, command, reconciler, done,
                   history, bounds>>

ConsensusInput ==
    Validate(Proposals, "digest", [packet |-> Packet.id, src |-> ProposalDigests])

Precheck == Validate(PmBound, "precheck", BuildAllocationPrecheck(files["pm"], Packet))

RejectedReview == Reviewed /\ ~files["adversary"].accept

AdversaryDigest == Validate(RejectedReview, "revision_digest", RevisionSources)

\* Two files, one after the other.
Finalize ==
    /\ Free /\ BoundPacket = TRUE /\ Final = TRUE
    /\ command' = [command EXCEPT !.for = "finalize", !.todo =
          <<[file |-> "final", value |-> Decided],
            [file |-> "final_precheck", value |-> BuildAllocationPrecheck(Decided, Packet)]>>]
    /\ UNCHANGED <<now, weekly, pointer, pending, account, build, reconciler, done,
                   history, bounds>>

-----------------------------------------------------------------------------
\* The agents: each writes its own file, whenever it finishes.

Shape(p, tilt) ==
    LET even == Sleeve \div SleeveSize
        first(sleeve) == CHOOSE s \in sleeve : \A x \in sleeve : s <= x
        final(sleeve) == CHOOSE s \in sleeve : \A x \in sleeve : s >= x
    IN [s \in Selected(p) |-> CASE s = first(p.weekly.long) -> even + tilt
                                [] s = final(p.weekly.long) -> even - tilt
                                [] OTHER -> even]

Proposal(role, p, src, tilt) ==
    [role |-> role, packet |-> p.id, src |-> src, weights |-> Shape(p, tilt)]

AgentWrites(file, value) ==
    /\ value # files[file]
    /\ writes < MaxWrites /\ writes' = writes + 1
    /\ pending' = [pending EXCEPT !.files[file] = value]
    /\ UNCHANGED <<now, weekly, pointer, account, build, command, reconciler, done, briefs,
                   faults>>

\* A briefing for this directory, the current one or one it replaced.
Briefing == {p \in briefs : p.cycle = pending.dir}

Allocate(role) ==
    \E p \in Briefing, tilt \in Tilts[role] :
        AgentWrites(role, Proposal(role, p, None, tilt)) /\ UNCHANGED verdicts

PmDecides ==
    \E digest \in {files["digest"]} \ {None}, tilt \in Tilts["pm"] :
        /\ AgentWrites("pm", Proposal("pm", Packet, digest.src, tilt))
        /\ UNCHANGED verdicts

\* The Adversary reviews the precheck: its digests, its targets and its turnover.
AdversaryDecides ==
    \E precheck \in {files["precheck"]} \ {None}, c \in Caps \cup {None} :
        LET v == [cycle |-> precheck.cycle, packet |-> precheck.packet,
                  allocation |-> precheck.allocation, precheck |-> precheck,
                  accept |-> (c = None), constraints |-> c]
        IN AgentWrites("adversary", v) /\ verdicts' = verdicts \cup {v}

PmRevises ==
    \E digest \in {files["revision_digest"]} \ {None}, tilt \in Tilts["revision"] :
        /\ AgentWrites("revision", Proposal("pm_revision", Packet, digest, tilt))
        /\ UNCHANGED verdicts

Agent == Allocate("alpha") \/ Allocate("risk") \/ PmDecides \/ AdversaryDecides \/ PmRevises

-----------------------------------------------------------------------------
\* desk_cross_section_reconcile.py

\* Every digest of the packet, recomputed from disk.
PacketIntact ==
    /\ BoundPacket
    /\ Meta.market = files["market_state"]
    /\ files["market_state"].cycle = Packet.cycle /\ files["market_state"].ts = Packet.ts
    /\ Meta.build = files["runtime_provenance"]

SourceUnchanged == Meta.build = build

\* The final files are the ones the chain decides.
FinalDurable == /\ files["final"] = Decided
                /\ files["final_precheck"] = BuildAllocationPrecheck(Decided, Packet)

VerifiedFinal == Final /\ FinalDurable

\* What the cycle archives of the chain.
Audited == {"alpha", "risk", "pm", "precheck"}

\* Mutant: only the staging compares accounts.
AccountUnchecked == TRUE

AccountAsSealed == files["market_state"].account = account.rev

Verify ==
    /\ Free
    /\ PacketIntact /\ SourceUnchanged /\ VerifiedFinal /\ AccountAsSealed
    /\ reconciler' = [stage |-> "verified", cycle |-> Packet.cycle, packet |-> Packet,
                      base |-> account.rev, final |-> Decided, book |-> <<>>,
                      chain |-> [f \in Audited |-> files[f]]]
    /\ UNCHANGED <<now, weekly, pointer, pending, account, build, command, done,
                   history, bounds>>

\* A fresh capture fills the targets, or all of them but a unit of one.
Fills(a, p) ==
    LET full == [s \in Symbols |-> Target(a, p, s)]
    IN {full} \cup {[full EXCEPT ![s] = @ - Side(p, s)] : s \in Selected(p) \cap Thin}

Gross(h) == SumFunction([s \in Symbols |-> Abs(h[s])])

Achieved(h, p) ==
    /\ {s \in Symbols : h[s] # 0} = Selected(p)
    /\ \A s \in Selected(p) : h[s] * Side(p, s) > 0
    /\ Abs(Gross(h) - 2 * Sleeve) <= MaxDeploy
    /\ Abs(SumFunction(h)) <= MaxResidual
    /\ \A s \in Symbols : Abs(h[s]) <= MaxName

Execute ==
    \E h \in {f \in Fills(reconciler.final, reconciler.packet) :
                Achieved(f, reconciler.packet)} :
        /\ reconciler' = [reconciler EXCEPT !.stage = "executed", !.book = h]
        /\ UNCHANGED <<now, weekly, pointer, pending, account, build, command, done,
                       history, bounds>>

\* The audited files are read again, and the account swaps from its base or not at all.
Stageable == /\ reconciler.base = account.rev /\ reconciler.cycle = Cycle
             /\ \A f \in Audited \cup {"digest"} : files[f] # None

Commit ==
    /\ Stageable
    /\ completed' = completed + 1
    /\ last' = now
    /\ account' = [rev |-> account.rev + 1, holdings |-> reconciler.book]
    /\ reconciler' = None
    /\ UNCHANGED <<now, weekly, pointer, pending, build, command, history, bounds>>

Halt == /\ reconciler' = None
        /\ UNCHANGED <<now, weekly, pointer, pending, account, build, command, done,
                       history, bounds>>

Reconcile ==
    \/ Verify
    \/ reconciler # None /\ reconciler.stage = "verified" /\ Execute
    \/ reconciler # None /\ reconciler.stage = "executed" /\ completed < MaxCycles /\ Commit
    \/ reconciler # None /\ Halt

-----------------------------------------------------------------------------
\* What else moves.

Tick == /\ now < Horizon /\ now' = now + 1
        /\ UNCHANGED <<weekly, pointer, pending, account, build, command, reconciler, done,
                       history, bounds>>

Heartbeat ==
    /\ faults < MaxFaults /\ faults' = faults + 1
    /\ account' = [account EXCEPT !.rev = @ + 1]
    /\ UNCHANGED <<now, weekly, pointer, pending, build, command, reconciler, done,
                   history, writes>>

Deploy ==
    /\ faults < MaxFaults /\ faults' = faults + 1
    /\ build' = build + 1
    /\ UNCHANGED <<now, weekly, pointer, pending, account, command, reconciler, done,
                   history, writes>>

\* A command dies where it stands.
Crash ==
    /\ faults < MaxFaults /\ faults' = faults + 1
    /\ command.for # "idle"
    /\ command' = [Idle EXCEPT !.stamp = command.stamp]
    /\ UNCHANGED <<now, weekly, pointer, pending, account, build, reconciler, done,
                   history, writes>>

Next ==
    \/ PrepareLoads \/ (\E market \in {m \in Markets : Rankable(m)} : PrepareBuilds(market))
    \/ WriteWeekly \/ Seal \/ WriteNext
    \/ ConsensusInput \/ Precheck \/ AdversaryDigest \/ Finalize
    \/ Agent \/ Reconcile
    \/ Tick \/ Heartbeat \/ Deploy \/ Crash

Spec == Init /\ [][Next]_vars

-----------------------------------------------------------------------------
\* Every file and every process is in its domain, and a command in progress knows what
\* is left of it.
TypeOK ==
    /\ now \in Time /\ pending.current \in 0..MaxCycles + 1 /\ pending.dir \in 0..MaxCycles + 1
    /\ DOMAIN pending.files = File
    /\ \A w \in Week : weekly[w] # None => weekly[w].week = w
    /\ DOMAIN account.holdings = Symbols
    /\ command.for = "idle" <=> (command.todo = <<>> /\ command.weekly = None)
    /\ reconciler # None => reconciler.stage \in {"verified", "executed"}

\* What commits was reviewed as it is executed: the Adversary returned a verdict on that
\* packet that accepts it, or one that rejects its original and whose caps and turnover
\* limit it keeps (_verified_final).
ReviewedAs(a, p) ==
    \E v \in verdicts :
        /\ v.packet = p.id
        /\ IF v.accept THEN v.allocation = a
           ELSE /\ a.src = [pm |-> v.allocation, adversary |-> v]
                /\ \A s \in v.constraints.capped : a.weights[s] <= v.constraints.cap
                /\ v.constraints.turnover # None => Turnover(a, p) <= v.constraints.turnover
ExecutedIsReviewed ==
    [][completed' # completed => ReviewedAs(reconciler.final, reconciler.packet)]_vars

\* Weights are executed on the account the packet described, for the cycle it was
\* sealed for, however long the agents and the market capture take.
DecidedOnThisAccount ==
    [][completed' # completed =>
         LET p == reconciler.packet
         IN /\ p.cycle = Cycle
            /\ files["market_state"].account = account.rev
            /\ p.holdings = account.holdings]_vars

\* Whatever prepare starts over, the selection of a week that has reached an agent or a
\* book is chosen once, and each rebalance holds exactly it, neutral to the tolerance.
Selecting(w) == IF weekly[w] = None THEN None
                ELSE [long |-> weekly[w].long, short |-> weekly[w].short]
Selection == INSTANCE WeeklySelection
    WITH selected <- [w \in Week |-> Selecting(w)], held <- account.holdings
ImplementsSelection == Selection!Spec

\* The runbook: later cycles of a week load its snapshot.
WeekLoads == \A w \in Week : weekly[w] # None /\ w = WeekOf(now) /\ command.for = "idle"
                 => Pointed(w)
=============================================================================

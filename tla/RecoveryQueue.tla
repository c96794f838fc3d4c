--------------------------- MODULE RecoveryQueue ---------------------------
(***************************************************************************)
(* The durable archive recovery queue and the processes that share it:     *)
(* the coordinator tick, one verification worker unit per archive family,  *)
(* the exact-path repair service and the operator's commands.  Every       *)
(* queue operation is one SQLite transaction, hence one action; what       *)
(* happens between two transactions of a process is a step of its own.     *)
(*                                                                         *)
(* Clock readings are abstracted to what the code compares: cooling[f] is  *)
(* next_retry_at > now, expired[f] is expires_at <= now, reconfigured[f]   *)
(* is a fingerprint that no longer matches.  A verification_id is the      *)
(* number of its epoch, so identifiers are ordered by evidence start; 0    *)
(* is NULL in a row, and in the report the evidence that predates the      *)
(* queue.  Daily audits are numbered in the order they were requested.     *)
(***************************************************************************)
EXTENDS Naturals, FiniteSets

CONSTANTS
    Families,         \* the catalogue's archive families
    Raw,              \* the family named "raw", alone in its lane
    SourceErrors,     \* distinct source metadata fault messages
    NoError,          \* no sticky source fault is recorded
    NoFamily,         \* no family: a free commit lock, an idle process
    MaxEpochs,        \* bound: epochs ever issued
    MaxAudits,        \* bound: daily audits ever requested
    Disturbances,     \* kinds of environment interference that may happen
    MaxDisturbances   \* bound: how many of them

ASSUME FamiliesAssumption == NoFamily \notin Families
ASSUME ErrorsAssumption == NoError \notin SourceErrors
ASSUME BoundsAssumption ==
    /\ MaxEpochs \in Nat
    /\ MaxAudits \in Nat
    /\ MaxDisturbances \in Nat

VARIABLES
    \* the jobs table
    state, generation, verification_id, remaining, cooling, expired,
    reconfigured, startedAudit, sourceError, lastEvidence,
    \* the other tables, and the supply of fresh verification ids
    repair_requests, daily_audits, daily_jobs, observations, issued,
    \* the canonical evidence: report identity, cleanliness, gate streak
    published, clean, streak, commitLock,
    \* processes: worker units with the epoch they claimed, coordinator, repair
    unit, epoch, tick, repair, repairStarted,
    \* history: the last epoch issued before the latest copy boundary, the
    \* clean observations since, the generation an epoch was issued in
    copyMark, fresh, epochGeneration,
    disturbed

rowVars == <<state, generation, verification_id, remaining, cooling, expired,
             reconfigured, startedAudit, sourceError, lastEvidence>>
auditVars == <<daily_audits, daily_jobs, observations>>
evidenceVars == <<published, clean, streak, commitLock>>
historyVars == <<copyMark, fresh, epochGeneration>>
vars == <<rowVars, repair_requests, auditVars, issued, evidenceVars, unit,
          epoch, tick, repair, repairStarted, historyVars, disturbed>>

States == {"idle", "queued", "launching", "running", "retry_wait", "blocked",
           "repairing"}
ACTIVE == {"launching", "running", "repairing"}
RequestTypes == [job : Families, kind : {"report", "manual"}, epoch : Nat,
                 generation : Nat, completed : BOOLEAN]
Epochs == [generation : Nat, verification_id : Nat, stable : BOOLEAN]
NoEpoch == [generation |-> 0, verification_id |-> 0, stable |-> FALSE]
CreditTypes == [audit : Nat, job : Families, verification_id : Nat]
IdleTick == [pc |-> "idle", need |-> {}, job |-> NoFamily, generation |-> 0]
NoRepair == [pc |-> "off", job |-> NoFamily, todo |-> {}, dirty |-> {},
             identity |-> [f \in Families |-> 0]]

AtLeast(a, b) == IF a >= b THEN a ELSE b

(***************************************************************************)
(* The environment: every interference is counted, so that a run can bound *)
(* it and liveness can be asked of a system that is eventually left alone. *)
(***************************************************************************)
Disturb(kind) == /\ kind \in Disturbances
                 /\ disturbed < MaxDisturbances
                 /\ disturbed' = disturbed + 1
Calm == UNCHANGED disturbed

Holding == {"observing", "publishing", "published"}
Lane(f) == IF f = Raw THEN "raw" ELSE "products"
\* the lane's flock, and what a look at the rows would give in its place
LaneFree_Rows(f) ==
    \A g \in Families : Lane(g) = Lane(f) => state[g] # "running"
LaneFree(f) == \A g \in Families : Lane(g) = Lane(f) => unit[g] \notin Holding
LockFree == commitLock = NoFamily

\* the row still belongs to the epoch the worker claimed
Owned(f) == /\ state[f] = "running"
            /\ generation[f] = epoch[f].generation
            /\ verification_id[f] = epoch[f].verification_id
\* Queue.validate, and what it would be if it looked at the deadline only
Valid_DeadlineOnly(f) == ~expired[f]
Valid(f) == Owned(f) /\ ~expired[f]

Uncredited(f) == {a \in 1..daily_audits :
                    ~ \E c \in daily_jobs : c.audit = a /\ c.job = f}

Init ==
    /\ state = [f \in Families |-> "idle"]
    /\ generation = [f \in Families |-> 0]
    /\ verification_id = [f \in Families |-> 0]
    /\ remaining = [f \in Families |-> 0]
    /\ cooling = [f \in Families |-> FALSE]
    /\ expired = [f \in Families |-> FALSE]
    /\ reconfigured = [f \in Families |-> FALSE]
    /\ startedAudit = [f \in Families |-> 0]
    /\ sourceError = [f \in Families |-> NoError]
    /\ lastEvidence = [f \in Families |-> 0]
    /\ repair_requests = {}
    /\ daily_audits = 0
    /\ daily_jobs = {}
    /\ observations = {}
    /\ issued = 0
    /\ published = [f \in Families |-> 0]
    /\ clean \in [Families -> BOOLEAN]
    /\ streak = [f \in Families |-> IF clean[f] THEN 2 ELSE 0]
    /\ commitLock = NoFamily
    /\ unit = [f \in Families |-> "inactive"]
    /\ epoch = [f \in Families |-> NoEpoch]
    /\ tick = IdleTick
    /\ repair = NoRepair
    /\ repairStarted \in BOOLEAN
    /\ copyMark = [f \in Families |-> 0]
    /\ fresh = [f \in Families |-> 2]
    /\ epochGeneration = [f \in Families |-> 0]
    /\ disturbed = 0

\* The row keeps its epoch columns.
KeepEpochs == UNCHANGED <<verification_id, expired, reconfigured, startedAudit>>

\* Clears the row's epoch columns of every family in S.
DropEpoch(S) ==
    /\ verification_id' = [f \in Families |->
                             IF f \in S THEN 0 ELSE verification_id[f]]
    /\ expired' = [f \in Families |-> f \notin S /\ expired[f]]
    /\ reconfigured' = [f \in Families |-> f \notin S /\ reconfigured[f]]
    /\ startedAudit' = [f \in Families |->
                          IF f \in S THEN 0 ELSE startedAudit[f]]

\* Starting a unit that is already active is a no-op.
StartRepair == repairStarted' = (repairStarted \/ repair.pc = "off")

-----------------------------------------------------------------------------
(***************************************************************************)
(* Requests: Queue.enqueue for some families, and for a new daily audit.   *)
(***************************************************************************)
Enqueue(S, confirmations) ==
    /\ state' = [f \in Families |-> IF f \in S /\ state[f] = "idle"
                                    THEN "queued" ELSE state[f]]
    /\ remaining' = [f \in Families |-> IF f \in S
                       THEN AtLeast(remaining[f], confirmations)
                       ELSE remaining[f]]
    /\ KeepEpochs
    /\ UNCHANGED <<generation, cooling, sourceError, lastEvidence>>

OperatorEnqueue(f, confirmations) ==
    /\ Disturb("request")
    /\ Enqueue({f}, confirmations)
    /\ UNCHANGED <<repair_requests, auditVars, issued, evidenceVars, unit,
                   epoch, tick, repair, repairStarted, historyVars>>

(***************************************************************************)
(* The coordinator: one pass of tick().  It reads a report and gate, then  *)
(* seeds, requests the day's audit, reconciles rows with units and fills   *)
(* the two lanes, each in its own transaction.                             *)
(***************************************************************************)
\* the gate does not show stable parity
Unstable_Never == {}
Unstable == {f \in Families : streak[f] < 2}

TickRead ==
    /\ tick.pc = "idle" /\ LockFree
    /\ tick' = [tick EXCEPT !.pc = "seed",
                            !.need = Unstable]
    /\ Calm
    /\ UNCHANGED <<rowVars, repair_requests, auditVars, issued, evidenceVars,
                   unit, epoch, repair, repairStarted, historyVars>>

\* seed_and_schedule's transaction; old: families whose evidence is too old
TickSeed(old) ==
    /\ tick.pc = "seed"
    /\ IF old = {} THEN Calm ELSE Disturb("refresh")
    /\ LET due == {f \in tick.need \cup old : state[f] = "idle"}
       IN  Enqueue(due, 1)
    /\ tick' = [tick EXCEPT !.pc = "daily", !.need = {}]
    /\ UNCHANGED <<repair_requests, auditVars, issued, evidenceVars, unit,
                   epoch, repair, repairStarted, historyVars>>

\* seed_and_schedule's daily request, once per day after 03:20
TickDaily(due) ==
    /\ tick.pc = "daily"
    /\ tick' = [tick EXCEPT !.pc = "recover"]
    /\ due => daily_audits < MaxAudits
    /\ IF due THEN Enqueue(Families, 1) ELSE UNCHANGED rowVars
    /\ daily_audits' = IF due THEN daily_audits + 1 ELSE daily_audits
    /\ Calm
    /\ UNCHANGED <<repair_requests, daily_jobs, observations, issued,
                   evidenceVars, unit, epoch, repair, repairStarted,
                   historyVars>>

\* Units that systemd may report as inactive: a start job still pending counts.
MayLookInactive(f) == unit[f] \in {"inactive", "starting"}
LateLaunches == {f \in Families : state[f] = "launching" /\ MayLookInactive(f)}

RepairDue == \E f \in Families : state[f] = "repairing"

\* recover_workers; late: launches whose 120 second grace is over
TickRecover(late) ==
    /\ tick.pc = "recover"
    /\ LET lost == late \cup {f \in Families : state[f] = "running"
                                               /\ unit[f] = "inactive"}
       IN  state' = [f \in Families |-> IF f \in lost THEN "retry_wait"
                                        ELSE state[f]]
           /\ cooling' = [f \in Families |-> f \notin lost /\ cooling[f]]
    /\ IF RepairDue THEN StartRepair ELSE UNCHANGED repairStarted
    /\ tick' = [tick EXCEPT !.pc = "raw"]
    /\ KeepEpochs
    /\ Calm
    /\ UNCHANGED <<generation, remaining, sourceError, lastEvidence,
                   repair_requests, auditVars, issued, evidenceVars, unit,
                   epoch, repair, historyVars>>

Candidates(lane) ==
    {f \in Families : Lane(f) = lane /\ ~cooling[f]
                      /\ state[f] \in {"queued", "retry_wait"}}
LaneBusy(lane) ==
    \E f \in Families : Lane(f) = lane /\ state[f] \in {"running", "launching"}
Chosen(lane, f) == /\ f \in Candidates(lane)
                   /\ \A g \in Candidates(lane) :
                        lastEvidence[f] <= lastEvidence[g]
NextLane(lane) == IF lane = "raw"
                  THEN [IdleTick EXCEPT !.pc = "products"] ELSE IdleTick

\* launch_ready finds nothing to do in a lane
TickSkip(lane) ==
    /\ tick.pc = lane
    /\ LaneBusy(lane) \/ Candidates(lane) = {}
    /\ tick' = NextLane(lane)
    /\ Calm
    /\ UNCHANGED <<rowVars, repair_requests, auditVars, issued, evidenceVars,
                   unit, epoch, repair, repairStarted, historyVars>>

\* launch_ready commits the launch, and then systemctl start answers
TickLaunch(lane, f, started) ==
    /\ tick.pc = lane
    /\ ~LaneBusy(lane) /\ Chosen(lane, f)
    /\ state' = [state EXCEPT ![f] = "launching"]
    /\ IF started
       THEN /\ Calm
            /\ unit' = [unit EXCEPT ![f] =
                          IF @ = "inactive" THEN "starting" ELSE @]
            /\ tick' = NextLane(lane)
       ELSE /\ Disturb("launch")
            /\ UNCHANGED unit
            /\ tick' = [tick EXCEPT !.pc = "failed", !.job = f,
                                    !.generation = generation[f]]
    /\ KeepEpochs
    /\ UNCHANGED <<generation, remaining, cooling, sourceError, lastEvidence,
                   repair_requests, auditVars, issued, evidenceVars, epoch,
                   repair, repairStarted, historyVars>>

\* launch_ready's handler of a launch that raised
TickLaunchFailed ==
    /\ tick.pc = "failed"
    /\ LET f == tick.job
           back == state[f] = "launching" /\ generation[f] = tick.generation
       IN  /\ state' = [state EXCEPT ![f] = IF back THEN "retry_wait" ELSE @]
           /\ cooling' = [cooling EXCEPT ![f] = back \/ @]
           /\ tick' = NextLane(Lane(f))
    /\ KeepEpochs
    /\ Calm
    /\ UNCHANGED <<generation, remaining, sourceError, lastEvidence,
                   repair_requests, auditVars, issued, evidenceVars, unit,
                   epoch, repair, repairStarted, historyVars>>

-----------------------------------------------------------------------------
(***************************************************************************)
(* The worker unit of a family: run_worker under its lane's lock.          *)
(***************************************************************************)
\* The unit ends; its ExecStopPost asks for a repair run.
Stop(f) ==
    /\ unit' = [unit EXCEPT ![f] = "inactive"]
    /\ epoch' = [epoch EXCEPT ![f] = NoEpoch]
    /\ StartRepair

\* claim would accept the row
Claimable_Repairing(f) == /\ state[f] \in {"queued", "retry_wait", "launching",
                                           "repairing"}
                          /\ ~cooling[f]
Claimable(f) == state[f] \in {"queued", "retry_wait", "launching"} /\ ~cooling[f]
Resumable(f) == /\ verification_id[f] # 0
                /\ ~expired[f] /\ ~reconfigured[f]

\* The lane is held by another unit, or there is nothing to claim.
WorkerReturns(f) ==
    /\ unit[f] = "starting"
    /\ ~LaneFree(f) \/ ~Claimable(f)
    /\ Stop(f)
    /\ Calm
    /\ UNCHANGED <<rowVars, repair_requests, auditVars, issued, evidenceVars,
                   tick, repair, historyVars>>

\* claim: a frozen checkpoint is resumed, anything else starts a new epoch
WorkerClaims(f) ==
    /\ unit[f] = "starting" /\ LaneFree(f) /\ Claimable(f)
    /\ Resumable(f) \/ issued < MaxEpochs
    /\ LET vid == IF Resumable(f) THEN verification_id[f] ELSE issued + 1
       IN  /\ issued' = IF Resumable(f) THEN issued ELSE issued + 1
           /\ verification_id' = [verification_id EXCEPT ![f] = vid]
           /\ epoch' = [epoch EXCEPT ![f] = [generation |-> generation[f],
                                             verification_id |-> vid,
                                             stable |-> FALSE]]
           /\ epochGeneration' = [epochGeneration EXCEPT ![f] =
                 IF Resumable(f) THEN @ ELSE generation[f]]
           /\ startedAudit' = [startedAudit EXCEPT ![f] =
                 IF Resumable(f) THEN @ ELSE daily_audits]
    /\ expired' = [expired EXCEPT ![f] = FALSE]
    /\ reconfigured' = [reconfigured EXCEPT ![f] = FALSE]
    /\ state' = [state EXCEPT ![f] = "running"]
    /\ unit' = [unit EXCEPT ![f] = "observing"]
    /\ Calm
    /\ UNCHANGED <<generation, remaining, cooling, sourceError, lastEvidence,
                   repair_requests, auditVars, evidenceVars, tick, repair,
                   repairStarted, copyMark, fresh>>

\* Queue.fail's update: category is the error's class or a source fault message
FailRow(f, category) ==
    /\ state' = [state EXCEPT ![f] =
                   IF category = "config" THEN "blocked" ELSE "retry_wait"]
    /\ cooling' = [cooling EXCEPT ![f] = TRUE]
    /\ sourceError' = [sourceError EXCEPT ![f] =
                         IF category \in SourceErrors THEN category ELSE @]
    /\ IF category = "restart" THEN DropEpoch({f}) ELSE KeepEpochs
    /\ UNCHANGED <<generation, remaining, lastEvidence>>

\* An observation that is still valid meets an error of some class.
WorkerFails(f, category) ==
    /\ unit[f] = "observing" /\ Valid(f)
    /\ Disturb(IF category \in SourceErrors THEN "source" ELSE category)
    /\ FailRow(f, category)
    /\ Stop(f)
    /\ UNCHANGED <<repair_requests, auditVars, issued, evidenceVars, tick,
                   repair, historyVars>>

\* validate raises: an expired epoch is retried, a fenced one is abandoned
WorkerInvalid(f) ==
    /\ unit[f] \in {"observing", "published"} /\ ~Valid(f)
    /\ IF Owned(f) THEN FailRow(f, "transient") ELSE UNCHANGED rowVars
    /\ Stop(f)
    /\ Calm
    /\ UNCHANGED <<repair_requests, auditVars, issued, evidenceVars, tick,
                   repair, historyVars>>

\* BlockingIOError: a lock is busy, held by a publisher or for a moment
WorkerDefers(f) ==
    /\ unit[f] = "observing"
    /\ IF LockFree THEN Disturb("busy") ELSE Calm
    /\ IF Owned(f)
       THEN /\ state' = [state EXCEPT ![f] = "retry_wait"]
            /\ cooling' = [cooling EXCEPT ![f] = TRUE]
       ELSE UNCHANGED <<state, cooling>>
    /\ Stop(f)
    /\ KeepEpochs
    /\ UNCHANGED <<generation, remaining, sourceError, lastEvidence,
                   repair_requests, auditVars, issued, evidenceVars, tick,
                   repair, historyVars>>

\* publish_family takes the commit lock and validates the epoch under it
WorkerLocks(f) ==
    /\ unit[f] = "observing" /\ LockFree /\ Valid(f)
    /\ commitLock' = f
    /\ unit' = [unit EXCEPT ![f] = "publishing"]
    /\ Calm
    /\ UNCHANGED <<rowVars, repair_requests, auditVars, issued, published,
                   clean, streak, epoch, tick, repair, repairStarted,
                   historyVars>>

\* publish_family switches latest, unless it shows this observation already
WorkerPublishes(f, isClean) ==
    /\ unit[f] = "publishing"
    /\ LET vid == epoch[f].verification_id
           again == published[f] = vid
       IN  /\ again => isClean = clean[f]
           /\ IF isClean \/ again THEN Calm ELSE Disturb("dirty")
           /\ published' = [published EXCEPT ![f] = vid]
           /\ clean' = [clean EXCEPT ![f] = isClean]
           /\ streak' = [streak EXCEPT ![f] =
                IF again THEN @
                ELSE IF ~isClean THEN 0
                ELSE IF @ < 2 THEN @ + 1 ELSE 2]
    /\ commitLock' = NoFamily
    /\ unit' = [unit EXCEPT ![f] = "published"]
    /\ epoch' = [epoch EXCEPT ![f].stable = streak'[f] = 2]
    /\ StartRepair
    /\ UNCHANGED <<rowVars, repair_requests, auditVars, issued, tick, repair,
                   historyVars>>

\* The oldest daily audit that this epoch's start can satisfy, if any.
Credited_All(f) == {a \in Uncredited(f) : a <= startedAudit[f]}
Credited(f) == {a \in Uncredited(f) :
                  /\ a <= startedAudit[f]
                  /\ \A b \in Uncredited(f) : a <= b}

\* A daily audit was requested that this observation does not credit.
Newer_Forgotten(f) == FALSE
Newer(f) == Uncredited(f) \ Credited(f) # {}

\* The confirmations still to come: a clean observation is one of them.
Rest(f) == IF clean[f] /\ remaining[f] > 0
           THEN remaining[f] - 1 ELSE remaining[f]

\* complete's decisions: what is left to confirm, and the credited audit
CompleteRow(f) ==
    LET vid == epoch[f].verification_id
        owed == IF clean[f] /\ ~epoch[f].stable
                THEN AtLeast(Rest(f), 1) ELSE Rest(f)
    IN  /\ observations' = observations \cup {vid}
        /\ daily_jobs' = daily_jobs \cup
             {[audit |-> a, job |-> f, verification_id |-> vid] :
                a \in Credited(f)}
        /\ remaining' = [remaining EXCEPT ![f] = owed]
        /\ cooling' = [cooling EXCEPT ![f] = owed > 0]
        /\ state' = [state EXCEPT ![f] =
                       IF owed > 0 \/ Newer(f) THEN "queued" ELSE "idle"]
        /\ lastEvidence' = [lastEvidence EXCEPT ![f] = vid]
        /\ sourceError' = [sourceError EXCEPT ![f] = NoError]
        /\ fresh' = [fresh EXCEPT ![f] =
                       IF clean[f] /\ vid > copyMark[f] /\ @ < 2
                       THEN @ + 1 ELSE @]

WorkerCompletes(f) ==
    /\ unit[f] = "published" /\ Valid(f)
    /\ IF epoch[f].verification_id \in observations
       THEN UNCHANGED <<rowVars, daily_jobs, observations, fresh>>
       ELSE CompleteRow(f) /\ DropEpoch({f}) /\ UNCHANGED generation
    /\ Stop(f)
    /\ Calm
    /\ UNCHANGED <<repair_requests, daily_audits, issued, evidenceVars, tick,
                   repair, copyMark, epochGeneration>>

\* A worker process dies: flocks vanish with it, the row stays as it was.
WorkerCrashes(f) ==
    /\ unit[f] # "inactive"
    /\ Disturb("crash")
    /\ Stop(f)
    /\ commitLock' = IF commitLock = f THEN NoFamily ELSE commitLock
    /\ UNCHANGED <<rowVars, repair_requests, auditVars, issued, published,
                   clean, streak, tick, repair, historyVars>>

-----------------------------------------------------------------------------
(***************************************************************************)
(* The exact-path repair service: one pass over a pinned snapshot.         *)
(***************************************************************************)
RepairStarts ==
    /\ repair.pc = "off" /\ repairStarted /\ LockFree
    /\ repair' = [pc |-> "scan", job |-> NoFamily, todo |-> Families,
                  dirty |-> {f \in Families : ~clean[f]},
                  identity |-> published]
    /\ repairStarted' = FALSE
    /\ Calm
    /\ UNCHANGED <<rowVars, repair_requests, auditVars, issued, evidenceVars,
                   unit, epoch, tick, historyVars>>

Scanning(f) == repair.pc = "scan" /\ f \in repair.todo
Proceed(f) == repair' = [repair EXCEPT !.pc = "scan", !.job = NoFamily,
                                    !.todo = @ \ {f}]
Current_Always(f) == TRUE
Current(f) == published[f] = repair.identity[f]

\* The request this pass makes for a family: one per report identity.
Reports(f) == {r \in repair_requests :
                 /\ r.job = f /\ r.kind = "report"
                 /\ r.epoch = repair.identity[f]}
Pending(f) == {r \in repair_requests : r.job = f /\ ~r.completed}

\* The clean observations a family owes after a repair.
RepairConfirmations_One == 1
RepairConfirmations == 2

\* Queue.source_metadata_failed's update
FaultRow(f, error) ==
    /\ generation' = [generation EXCEPT ![f] = @ + 1]
    /\ state' = [state EXCEPT ![f] = "retry_wait"]
    /\ remaining' = [remaining EXCEPT ![f] = AtLeast(@, RepairConfirmations)]
    /\ cooling' = [cooling EXCEPT ![f] = TRUE]
    /\ sourceError' = [sourceError EXCEPT ![f] = error]
    /\ DropEpoch({f})
    /\ UNCHANGED lastEvidence

\* Queue.invalidate for a request not recorded yet
Invalidate(f, kind, id) ==
    /\ repair_requests' = repair_requests \cup
         {[job |-> f, kind |-> kind, epoch |-> id,
           generation |-> generation[f] + 1, completed |-> FALSE]}
    /\ generation' = [generation EXCEPT ![f] = @ + 1]
    /\ state' = [state EXCEPT ![f] = "repairing"]
    /\ remaining' = [remaining EXCEPT ![f] = RepairConfirmations]
    /\ DropEpoch({f})
    /\ UNCHANGED <<cooling, sourceError, lastEvidence>>

\* One of the requests in R owns the row's current generation.
OwnsRow_Any(f, R) == R # {}
OwnsRow(f, R) == \E r \in R : r.generation = generation[f]

\* Queue.repair_finished for each of a family's pending requests R: the row
\* is requeued only by the one that owns the row's generation.
Finish(f, R) ==
    /\ repair_requests' = (repair_requests \ R) \cup
         {[r EXCEPT !.completed = TRUE] : r \in R}
    /\ IF OwnsRow(f, R)
       THEN /\ state' = [state EXCEPT ![f] = "queued"]
            /\ remaining' = [remaining EXCEPT ![f] = RepairConfirmations]
            /\ cooling' = [cooling EXCEPT ![f] = FALSE]
       ELSE UNCHANGED <<state, remaining, cooling>>
    /\ KeepEpochs
    /\ UNCHANGED <<generation, sourceError, lastEvidence>>

\* The pinned evidence or a candidate's source metadata is invalid.  The
\* family is fenced if the report still shows the evidence that was read.
RepairMeetsFault(f, error) ==
    /\ Scanning(f) /\ LockFree
    /\ Disturb("source")
    /\ IF Current(f) /\ sourceError[f] # error
       THEN FaultRow(f, error) ELSE UNCHANGED rowVars
    /\ Proceed(f)
    /\ UNCHANGED <<repair_requests, auditVars, issued, evidenceVars, unit,
                   epoch, tick, repairStarted, historyVars>>

\* No candidate is ready: nothing to copy, unfinished requests are finished.
RepairFindsNothing(f) ==
    /\ Scanning(f)
    /\ Finish(f, Pending(f))
    /\ Proceed(f)
    /\ Calm
    /\ UNCHANGED <<auditVars, issued, evidenceVars, unit, epoch, tick,
                   repairStarted, historyVars>>

\* Newer evidence, or a repair of this evidence that is already complete.
RepairSkips(f) ==
    /\ Scanning(f) /\ f \in repair.dirty /\ LockFree
    /\ ~Current(f) \/ \E r \in Reports(f) : r.completed
    /\ Proceed(f)
    /\ Calm
    /\ UNCHANGED <<rowVars, repair_requests, auditVars, issued, evidenceVars,
                   unit, epoch, tick, repairStarted, historyVars>>

\* Invalidate under the commit lock, then copy; a request that an earlier
\* run left unfinished is resumed as it is.
RepairCopies(f) ==
    /\ Scanning(f) /\ f \in repair.dirty /\ LockFree /\ Current(f)
    /\ \A r \in Reports(f) : ~r.completed
    /\ IF Reports(f) = {}
       THEN Invalidate(f, "report", repair.identity[f])
       ELSE UNCHANGED <<rowVars, repair_requests>>
    /\ repair' = [repair EXCEPT !.pc = "copy", !.job = f]
    /\ copyMark' = [copyMark EXCEPT ![f] = issued]
    /\ fresh' = [fresh EXCEPT ![f] = 0]
    /\ Calm
    /\ UNCHANGED <<auditVars, issued, evidenceVars, unit, epoch, tick,
                   repairStarted, epochGeneration>>

\* rclone ends, well or badly: an exit status lets the pass go on, an
\* exception ends it.
RepairCopied(f, goesOn) ==
    /\ repair.pc = "copy" /\ repair.job = f
    /\ Finish(f, {r \in Reports(f) : ~r.completed})
    /\ IF goesOn THEN Proceed(f) ELSE repair' = NoRepair
    /\ copyMark' = [copyMark EXCEPT ![f] = issued]
    /\ fresh' = [fresh EXCEPT ![f] = 0]
    /\ Calm
    /\ UNCHANGED <<auditVars, issued, evidenceVars, unit, epoch, tick,
                   repairStarted, epochGeneration>>

\* repair_job meets invalid source metadata before rclone starts: the fault
\* is recorded for the request, under the commit lock.
RepairFaults(f, error) ==
    /\ repair.pc = "copy" /\ repair.job = f /\ LockFree
    /\ Disturb("source")
    /\ LET accepted == /\ Current(f) /\ state[f] = "repairing"
                       /\ \E r \in Reports(f) :
                            ~r.completed /\ r.generation = generation[f]
       IN  IF accepted
           THEN FaultRow(f, error) /\ repair' = [repair EXCEPT !.pc = "fault"]
           ELSE UNCHANGED rowVars /\ Proceed(f)
    /\ UNCHANGED <<repair_requests, auditVars, issued, evidenceVars, unit,
                   epoch, tick, repairStarted, historyVars>>

RepairEndsFault(f) ==
    /\ repair.pc = "fault" /\ repair.job = f
    /\ Finish(f, {r \in Reports(f) : ~r.completed})
    /\ Proceed(f)
    /\ Calm
    /\ UNCHANGED <<auditVars, issued, evidenceVars, unit, epoch, tick,
                   repairStarted, historyVars>>

RepairEnds ==
    /\ repair.pc = "scan" /\ repair.todo = {}
    /\ repair' = NoRepair
    /\ Calm
    /\ UNCHANGED <<rowVars, repair_requests, auditVars, issued, evidenceVars,
                   unit, epoch, tick, repairStarted, historyVars>>

\* The service dies, the copy with it; its requests stay unfinished.
RepairCrashes ==
    /\ repair.pc # "off"
    /\ Disturb("repairCrash")
    /\ repair' = NoRepair
    /\ copyMark' = [f \in Families |->
          IF repair.pc = "copy" /\ repair.job = f THEN issued ELSE copyMark[f]]
    /\ UNCHANGED <<rowVars, repair_requests, auditVars, issued, evidenceVars,
                   unit, epoch, tick, repairStarted, fresh, epochGeneration>>

-----------------------------------------------------------------------------
(***************************************************************************)
(* The operator's commands, each under the commit lock.                    *)
(***************************************************************************)
OperatorInvalidate(f) ==
    /\ LockFree
    /\ Disturb("invalidate")
    /\ Invalidate(f, "manual", 0)
    /\ UNCHANGED <<auditVars, issued, evidenceVars, unit, epoch, tick, repair,
                   repairStarted, historyVars>>

OperatorRetry(f) ==
    /\ LockFree /\ state[f] \notin ACTIVE
    /\ Disturb("retry")
    /\ state' = [state EXCEPT ![f] = "queued"]
    /\ generation' = [generation EXCEPT ![f] = @ + 1]
    /\ remaining' = [remaining EXCEPT ![f] = AtLeast(@, 1)]
    /\ cooling' = [cooling EXCEPT ![f] = FALSE]
    /\ DropEpoch({f})
    /\ UNCHANGED <<sourceError, lastEvidence, repair_requests, auditVars,
                   issued, evidenceVars, unit, epoch, tick, repair,
                   repairStarted, historyVars>>

OperatorResumes(f) ==
    /\ LockFree /\ unit[f] = "inactive"
    /\ state[f] = "blocked" /\ Resumable(f)
    /\ Disturb("resume")
    /\ state' = [state EXCEPT ![f] = "queued"]
    /\ remaining' = [remaining EXCEPT ![f] = AtLeast(@, 1)]
    /\ cooling' = [cooling EXCEPT ![f] = FALSE]
    /\ KeepEpochs
    /\ UNCHANGED <<generation, sourceError, lastEvidence, repair_requests,
                   auditVars, issued, evidenceVars, unit, epoch, tick, repair,
                   repairStarted, historyVars>>

(***************************************************************************)
(* Time, redeployment and reboots.                                         *)
(***************************************************************************)
CoolsDown(f) ==
    /\ cooling[f]
    /\ cooling' = [cooling EXCEPT ![f] = FALSE]
    /\ KeepEpochs
    /\ Calm
    /\ UNCHANGED <<state, generation, remaining, sourceError, lastEvidence,
                   repair_requests, auditVars, issued, evidenceVars, unit,
                   epoch, tick, repair, repairStarted, historyVars>>

Expires(f) ==
    /\ verification_id[f] # 0 /\ ~expired[f]
    /\ Disturb("expire")
    /\ expired' = [expired EXCEPT ![f] = TRUE]
    /\ UNCHANGED <<state, generation, verification_id, remaining, cooling,
                   reconfigured, startedAudit, sourceError, lastEvidence,
                   repair_requests, auditVars, issued, evidenceVars, unit,
                   epoch, tick, repair, repairStarted, historyVars>>

\* A deployment changes the configuration every fingerprint covers.
Reconfigures ==
    /\ Disturb("reconfigure")
    /\ reconfigured' = [f \in Families |-> verification_id[f] # 0]
    /\ UNCHANGED <<state, generation, verification_id, remaining, cooling,
                   expired, startedAudit, sourceError, lastEvidence,
                   repair_requests, auditVars, issued, evidenceVars, unit,
                   epoch, tick, repair, repairStarted, historyVars>>

\* refresh_gate: an observation becomes too old to count as a confirmation
GateAges(f) ==
    /\ LockFree /\ streak[f] > 0
    /\ Disturb("age")
    /\ streak' = [streak EXCEPT ![f] = @ - 1]
    /\ UNCHANGED <<rowVars, repair_requests, auditVars, issued, published,
                   clean, commitLock, unit, epoch, tick, repair, repairStarted,
                   historyVars>>

\* Every process ends at once; the database and the evidence survive.
Reboots ==
    /\ Disturb("reboot")
    /\ unit' = [f \in Families |-> "inactive"]
    /\ epoch' = [f \in Families |-> NoEpoch]
    /\ tick' = IdleTick
    /\ repair' = NoRepair
    /\ repairStarted' = FALSE
    /\ commitLock' = NoFamily
    /\ copyMark' = [f \in Families |->
          IF repair.pc = "copy" /\ repair.job = f THEN issued ELSE copyMark[f]]
    /\ UNCHANGED <<rowVars, repair_requests, auditVars, issued, published,
                   clean, streak, fresh, epochGeneration>>

-----------------------------------------------------------------------------
Coordinator ==
    \/ TickRead
    \/ \E old \in SUBSET Families : TickSeed(old)
    \/ \E due \in BOOLEAN : TickDaily(due)
    \/ \E late \in SUBSET LateLaunches : TickRecover(late)
    \/ \E lane \in {"raw", "products"} :
         \/ TickSkip(lane)
         \/ \E f \in Families, started \in BOOLEAN : TickLaunch(lane, f, started)
    \/ TickLaunchFailed

Categories == {"transient", "config", "restart"} \cup SourceErrors

Worker(f) ==
    \/ WorkerReturns(f)
    \/ WorkerClaims(f)
    \/ \E category \in Categories : WorkerFails(f, category)
    \/ WorkerInvalid(f)
    \/ WorkerDefers(f)
    \/ WorkerLocks(f)
    \/ \E isClean \in BOOLEAN : WorkerPublishes(f, isClean)
    \/ WorkerCompletes(f)
    \/ WorkerCrashes(f)

Repair ==
    \/ RepairStarts
    \/ \E f \in Families :
         \/ \E error \in SourceErrors :
              RepairMeetsFault(f, error) \/ RepairFaults(f, error)
         \/ RepairFindsNothing(f)
         \/ RepairSkips(f)
         \/ RepairCopies(f)
         \/ \E goesOn \in BOOLEAN : RepairCopied(f, goesOn)
         \/ RepairEndsFault(f)
    \/ RepairEnds
    \/ RepairCrashes

Operator ==
    \E f \in Families :
      \/ \E confirmations \in 1..2 : OperatorEnqueue(f, confirmations)
      \/ OperatorInvalidate(f)
      \/ OperatorRetry(f)
      \/ OperatorResumes(f)

Environment ==
    \/ \E f \in Families : CoolsDown(f) \/ Expires(f) \/ GateAges(f)
    \/ Reconfigures
    \/ Reboots

Next == \/ Coordinator
        \/ \E f \in Families : Worker(f)
        \/ Repair
        \/ Operator
        \/ Environment

Spec == Init /\ [][Next]_vars
-----------------------------------------------------------------------------
(***************************************************************************)
(* Safety.                                                                 *)
(***************************************************************************)

RowsOK ==
    /\ state \in [Families -> States]
    /\ generation \in [Families -> Nat]
    /\ verification_id \in [Families -> Nat]
    /\ remaining \in [Families -> Nat]
    /\ cooling \in [Families -> BOOLEAN]
    /\ expired \in [Families -> BOOLEAN]
    /\ reconfigured \in [Families -> BOOLEAN]
    /\ startedAudit \in [Families -> Nat]
    /\ sourceError \in [Families -> SourceErrors \cup {NoError}]
    /\ lastEvidence \in [Families -> Nat]

AuditsOK ==
    /\ daily_audits \in Nat
    /\ daily_jobs \subseteq CreditTypes
    /\ observations \subseteq Nat

EvidenceOK ==
    /\ published \in [Families -> Nat]
    /\ clean \in [Families -> BOOLEAN]
    /\ streak \in [Families -> Nat]
    /\ commitLock \in Families \cup {NoFamily}

WorkersOK ==
    /\ unit \in [Families -> {"inactive", "starting"} \cup Holding]
    /\ epoch \in [Families -> Epochs]

TickOK == tick \in [pc : {"idle", "seed", "daily", "recover", "raw",
                          "products", "failed"},
                    need : SUBSET Families, job : Families \cup {NoFamily},
                    generation : Nat]

RepairOK ==
    /\ repair \in [pc : {"off", "scan", "copy", "fault"},
                   job : Families \cup {NoFamily}, todo : SUBSET Families,
                   dirty : SUBSET Families, identity : [Families -> Nat]]
    /\ repairStarted \in BOOLEAN

HistoryOK ==
    /\ copyMark \in [Families -> Nat]
    /\ fresh \in [Families -> Nat]
    /\ epochGeneration \in [Families -> Nat]

\* Every variable has its type.
TypeOK ==
    /\ RowsOK
    /\ repair_requests \subseteq RequestTypes
    /\ AuditsOK
    /\ issued \in Nat
    /\ EvidenceOK
    /\ WorkersOK
    /\ TickOK
    /\ RepairOK
    /\ HistoryOK
    /\ disturbed \in Nat

\* A family is repairing exactly while an unfinished repair request owns its
\* current generation: no unfinished repair is forgotten by the queue, and no
\* family waits for a repair that nobody is still due to finish.  (invalidate,
\* repair_finished, source_metadata_failed, retry)
RepairingIsOwed ==
    \A f \in Families :
        state[f] = "repairing" <=>
            \E r \in repair_requests :
                /\ r.job = f /\ ~r.completed
                /\ r.generation = generation[f]

\* An epoch that a row can still resume was issued in the row's generation:
\* no frozen checkpoint survives a repair, a source fault or a fresh retry.
CheckpointsKeepGeneration ==
    \A f \in Families :
        verification_id[f] # 0 => epochGeneration[f] = generation[f]

\* A row is idle only when nothing is owed: no confirmation remains and every
\* daily audit requested so far has been credited, whatever state the row was
\* in when the request came.  (enqueue keeps busy rows as they are)
NoRequestIsLost ==
    \A f \in Families :
        state[f] = "idle" => remaining[f] = 0 /\ Uncredited(f) = {}

\* Each daily audit is credited by an observation of its own, older audits
\* first: a scan after an outage cannot complete several daily cycles.
AuditsCreditedInOrder ==
    \A c, d \in daily_jobs :
        c.job = d.job /\ c.audit < d.audit =>
            /\ c.verification_id < d.verification_id
            /\ c.audit \notin Uncredited(c.job)

\* No observation is recorded twice: a recorded epoch is never a row's epoch
\* again, even if the worker died between publication and queue commit.
RecordedEpochsRetired ==
    \A f \in Families : verification_id[f] \notin observations

\* latest only ever moves to evidence of the epoch its row is running, in the
\* generation the epoch was issued in: an observation that a repair or a
\* successor invalidated while it was being published does not get through.
PublicationIsFenced ==
    [][\A f \in Families :
         published'[f] # published[f] =>
            /\ state[f] = "running"
            /\ published'[f] = verification_id[f]
            /\ epochGeneration[f] = generation[f]]_vars

\* While a family's files are being copied no observation of it is running.
CopyExcludesObservation ==
    \A f \in Families :
        repair.pc = "copy" /\ repair.job = f => state[f] # "running"

\* After a copy a family owes, or has since had, two clean observations that
\* began when the copy was over; so it is not idle before it had both.
TwoFreshConfirmations ==
    \A f \in Families : fresh[f] + remaining[f] >= 2

\* Evidence that begins to be shown was not collected across a copy.
PublishedEvidenceIsUncopied ==
    [][\A f \in Families :
         published'[f] # published[f] => published'[f] > copyMark[f]]_vars

\* While a family is copied, latest still shows the evidence the copy was
\* decided from: the pass pinned it before it reached this family.
CopyMatchesLatest ==
    \A f \in Families :
        repair.pc = "copy" /\ repair.job = f =>
            published[f] = repair.identity[f]

\* One worker process per lane scans and publishes, also when a launch given
\* up as lost starts late, or an invalidated worker has not noticed yet.
LaneHasOneWorker ==
    \A f, g \in Families :
        /\ Lane(f) = Lane(g)
        /\ unit[f] \in Holding /\ unit[g] \in Holding
        => f = g

-----------------------------------------------------------------------------
(***************************************************************************)
(* Fairness: the coordinator timer keeps firing and its clock advances     *)
(* past every grace and cooldown; started units, the repair service and    *)
(* their subprocesses take their next step or fail.                        *)
(***************************************************************************)
WorkerProgress(f) ==
    \/ WorkerReturns(f) \/ WorkerClaims(f) \/ WorkerInvalid(f)
    \/ WorkerLocks(f) \/ WorkerCompletes(f)
    \/ \E isClean \in BOOLEAN : WorkerPublishes(f, isClean)

RepairProgress ==
    \/ RepairStarts \/ RepairEnds
    \/ \E f \in Families :
         \/ RepairFindsNothing(f) \/ RepairSkips(f) \/ RepairCopies(f)
         \/ RepairCopied(f, TRUE) \/ RepairEndsFault(f)

LaneProgress(lane) ==
    TickSkip(lane) \/ \E f \in Families : TickLaunch(lane, f, TRUE)

Fairness ==
    /\ WF_vars(TickRead)
    /\ WF_vars(TickSeed({}))
    /\ WF_vars(TickDaily(FALSE))
    /\ SF_vars(TickRecover(LateLaunches))
    /\ WF_vars(\E late \in SUBSET LateLaunches : TickRecover(late))
    /\ \A lane \in {"raw", "products"} : WF_vars(LaneProgress(lane))
    /\ WF_vars(TickLaunchFailed)
    /\ WF_vars(RepairProgress)
    /\ \A f \in Families : WF_vars(WorkerProgress(f)) /\ WF_vars(CoolsDown(f))

FairSpec == Spec /\ Fairness

\* A repairing family does not stay so, whichever process dies in between.
RepairingEnds ==
    \A f \in Families : state[f] = "repairing" ~> state[f] # "repairing"

\* Once the environment lets go, every request is served: each family ends
\* idle, with stable parity, or blocked until the operator retries it.
QueueSettles ==
    <>[](\A f \in Families :
            \/ state[f] = "blocked"
            \/ state[f] = "idle" /\ streak[f] = 2 /\ clean[f])
=============================================================================

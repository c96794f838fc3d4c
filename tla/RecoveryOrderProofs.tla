------------------------- MODULE RecoveryOrderProofs -------------------------
(***************************************************************************)
(* What a request, an audit and a copy are owed, for any number of         *)
(* families, epochs, audits and disturbances.  Few steps touch the         *)
(* evidence of a row; the first lemma says what all the others leave.      *)
(***************************************************************************)
EXTENDS RecoveryQueueProofs

\* No evidence is issued or recorded, rows keep or drop their epochs, no row
\* becomes idle and nothing is asked of an idle row, and no lane is entered.
Routine ==
    /\ UNCHANGED <<issued, daily_audits, daily_jobs, observations>>
    /\ \A f \in Families :
          /\ verification_id'[f] \in {verification_id[f], 0}
          /\ state'[f] = "idle" => state[f] = "idle" /\ remaining'[f] = remaining[f]
          /\ unit'[f] \in Holding => unit[f] \in Holding

LEMMA EnqueueRoutine ==
    ASSUME TypeOK, NEW S, NEW c, Enqueue(S, c)
    PROVE  \A f \in Families :
              /\ verification_id'[f] = verification_id[f]
              /\ state'[f] = "idle" => /\ f \notin S /\ state[f] = "idle"
                                       /\ remaining'[f] = remaining[f]
  BY DEF TypeOK, RowsOK, Enqueue, KeepEpochs

LEMMA CoordinatorRoutine ==
    ASSUME TypeOK, Coordinator, ~ \E due \in BOOLEAN : TickDaily(due)
    PROVE  Routine
  <1>0. /\ state \in [Families -> States]
        /\ unit \in [Families -> {"inactive", "starting"} \cup Holding]
    BY DEF TypeOK, RowsOK, WorkersOK
  <1>1. CASE TickRead
    BY <1>1 DEF TickRead, rowVars, auditVars, Routine
  <1>2. ASSUME NEW old \in SUBSET Families, TickSeed(old) PROVE Routine
    <2> DEFINE due == {f \in tick.need \cup old : state[f] = "idle"}
    <2>1. Enqueue(due, 1) /\ UNCHANGED <<unit, issued, auditVars>>
      BY <1>2 DEF TickSeed
    <2> HIDE DEF due
    <2> QED BY <2>1, EnqueueRoutine DEF Routine, auditVars
  <1>3. ASSUME NEW late \in SUBSET LateLaunches, TickRecover(late) PROVE Routine
    BY <1>3 DEF TickRecover, KeepEpochs, auditVars, Routine
  <1>4. ASSUME NEW lane \in {"raw", "products"}, TickSkip(lane) PROVE Routine
    BY <1>4 DEF TickSkip, rowVars, auditVars, Routine
  <1>5. ASSUME NEW lane \in {"raw", "products"}, NEW f \in Families,
               NEW started \in BOOLEAN, TickLaunch(lane, f, started)
        PROVE Routine
    <2>1. \A g \in Families : state'[g] = "idle" => state[g] = "idle"
      BY <1>0, <1>5 DEF TickLaunch
    <2>2. \A g \in Families : unit'[g] \in Holding => unit[g] \in Holding
      BY <1>0, <1>5 DEF TickLaunch, Holding
    <2> QED BY <1>5, <2>1, <2>2 DEF TickLaunch, KeepEpochs, auditVars, Routine
  <1>6. CASE TickLaunchFailed
    BY <1>0, <1>6 DEF TickLaunchFailed, KeepEpochs, auditVars, Routine
  <1> QED BY <1>1, <1>2, <1>3, <1>4, <1>5, <1>6 DEF Coordinator

LEMMA StopRoutine ==
    ASSUME TypeOK, NEW f \in Families, Stop(f)
    PROVE  \A g \in Families : unit'[g] \in Holding => unit[g] \in Holding
  BY DEF TypeOK, WorkersOK, Stop, Holding

LEMMA FailRowRoutine ==
    ASSUME TypeOK, NEW f \in Families, NEW category, FailRow(f, category)
    PROVE  \A g \in Families :
              /\ verification_id'[g] \in {verification_id[g], 0}
              /\ state'[g] = "idle" => state[g] = "idle"
              /\ remaining'[g] = remaining[g]
  BY DEF TypeOK, RowsOK, FailRow, DropEpoch, KeepEpochs

LEMMA WorkerRoutine ==
    ASSUME TypeOK, NEW f \in Families, Worker(f), ~WorkerClaims(f), ~WorkerCompletes(f)
    PROVE  Routine
  <1>0. /\ state \in [Families -> States]
        /\ unit \in [Families -> {"inactive", "starting"} \cup Holding]
    BY DEF TypeOK, RowsOK, WorkersOK
  <1>1. CASE WorkerReturns(f) \/ WorkerCrashes(f)
    BY <1>1, StopRoutine DEF WorkerReturns, WorkerCrashes, rowVars, auditVars, Routine
  <1>2. ASSUME NEW category \in Categories, WorkerFails(f, category) PROVE Routine
    BY <1>2, StopRoutine, FailRowRoutine DEF WorkerFails, auditVars, Routine
  <1>3. CASE WorkerInvalid(f)
    <2>1. CASE Owned(f)
      BY <1>3, <2>1, StopRoutine, FailRowRoutine DEF WorkerInvalid, auditVars, Routine
    <2>2. CASE ~Owned(f)
      BY <1>3, <2>2, StopRoutine DEF WorkerInvalid, rowVars, auditVars, Routine
    <2> QED BY <2>1, <2>2
  <1>4. CASE WorkerDefers(f)
    <2>1. \A g \in Families : state'[g] = "idle" => state[g] = "idle"
      BY <1>0, <1>4 DEF WorkerDefers
    <2> QED BY <1>4, <2>1, StopRoutine DEF WorkerDefers, KeepEpochs, auditVars, Routine
  <1>5. CASE WorkerLocks(f)
    BY <1>0, <1>5 DEF WorkerLocks, Holding, rowVars, auditVars, Routine
  <1>6. ASSUME NEW isClean \in BOOLEAN, WorkerPublishes(f, isClean) PROVE Routine
    BY <1>0, <1>6 DEF WorkerPublishes, Holding, rowVars, auditVars, Routine
  <1> QED BY <1>1, <1>2, <1>3, <1>4, <1>5, <1>6 DEF Worker

LEMMA FinishRoutine ==
    ASSUME TypeOK, NEW f \in Families, NEW R, Finish(f, R)
    PROVE  \A g \in Families :
              /\ verification_id'[g] = verification_id[g]
              /\ state'[g] = "idle" => state[g] = "idle" /\ remaining'[g] = remaining[g]
  BY DEF TypeOK, RowsOK, Finish, KeepEpochs

LEMMA FaultRowRoutine ==
    ASSUME TypeOK, NEW f \in Families, NEW error, FaultRow(f, error)
    PROVE  \A g \in Families :
              /\ verification_id'[g] \in {verification_id[g], 0}
              /\ state'[g] = "idle" => state[g] = "idle" /\ remaining'[g] = remaining[g]
  BY DEF TypeOK, RowsOK, FaultRow, DropEpoch

LEMMA InvalidateRoutine ==
    ASSUME TypeOK, NEW f \in Families, NEW kind, NEW id, Invalidate(f, kind, id)
    PROVE  \A g \in Families :
              /\ verification_id'[g] \in {verification_id[g], 0}
              /\ state'[g] = "idle" => state[g] = "idle" /\ remaining'[g] = remaining[g]
  BY DEF TypeOK, RowsOK, Invalidate, DropEpoch

LEMMA RepairRoutine == TypeOK /\ Repair => Routine
  <1> SUFFICES ASSUME TypeOK, Repair PROVE Routine
    OBVIOUS
  <1>1. ASSUME NEW f \in Families, NEW error \in SourceErrors,
               RepairMeetsFault(f, error) \/ RepairFaults(f, error)
        PROVE Routine
    <2>1. FaultRow(f, error) \/ UNCHANGED rowVars
      BY <1>1, Zenon DEF RepairMeetsFault, RepairFaults
    <2>2. UNCHANGED <<issued, auditVars, unit>>
      BY <1>1 DEF RepairMeetsFault, RepairFaults
    <2> QED BY <2>1, <2>2, FaultRowRoutine DEF Routine, auditVars, rowVars
  <1>2. ASSUME NEW f \in Families, RepairCopies(f) PROVE Routine
    <2>1. UNCHANGED <<issued, auditVars, unit>>
      BY <1>2 DEF RepairCopies
    <2>2. CASE Reports(f) = {}
      <3>1. Invalidate(f, "report", repair.identity[f])
        BY <1>2, <2>2 DEF RepairCopies
      <3> QED BY <2>1, <3>1, InvalidateRoutine DEF Routine, auditVars
    <2>3. CASE Reports(f) # {}
      BY <1>2, <2>1, <2>3 DEF RepairCopies, Routine, auditVars, rowVars
    <2> QED BY <2>2, <2>3
  <1>3. ASSUME NEW f \in Families,
               \/ RepairFindsNothing(f) \/ RepairEndsFault(f)
               \/ \E goesOn \in BOOLEAN : RepairCopied(f, goesOn)
        PROVE Routine
    <2>1. \/ Finish(f, Pending(f))
          \/ Finish(f, {r \in Reports(f) : ~r.completed})
      BY <1>3 DEF RepairFindsNothing, RepairEndsFault, RepairCopied
    <2>2. UNCHANGED <<issued, auditVars, unit>>
      BY <1>3 DEF RepairFindsNothing, RepairEndsFault, RepairCopied
    <2> QED BY <2>1, <2>2, FinishRoutine DEF Routine, auditVars
  <1>4. CASE \/ RepairStarts \/ RepairEnds \/ RepairCrashes
             \/ \E f \in Families : RepairSkips(f)
    BY <1>4 DEF RepairStarts, RepairEnds, RepairCrashes, RepairSkips, rowVars,
         auditVars, Routine
  <1> QED BY <1>1, <1>2, <1>3, <1>4 DEF Repair

LEMMA OperatorRoutine == TypeOK /\ Operator => Routine
  <1> SUFFICES ASSUME TypeOK, NEW f \in Families,
                      \/ \E confirmations \in 1..2 :
                           OperatorEnqueue(f, confirmations)
                      \/ OperatorInvalidate(f)
                      \/ OperatorRetry(f)
                      \/ OperatorResumes(f)
               PROVE Routine
    BY DEF Operator
  <1>1. ASSUME NEW c \in 1..2, OperatorEnqueue(f, c) PROVE Routine
    BY <1>1, EnqueueRoutine DEF OperatorEnqueue, auditVars, Routine
  <1>2. CASE OperatorInvalidate(f)
    BY <1>2, InvalidateRoutine DEF OperatorInvalidate, auditVars, Routine
  <1>3. CASE OperatorRetry(f) \/ OperatorResumes(f)
    BY <1>3 DEF TypeOK, RowsOK, OperatorRetry, OperatorResumes, DropEpoch, KeepEpochs,
         auditVars, Routine
  <1> QED BY <1>1, <1>2, <1>3

LEMMA EnvironmentRoutine == Environment => Routine
  BY DEF Environment, CoolsDown, Expires, GateAges, Reconfigures, Reboots, KeepEpochs,
       Holding, rowVars, auditVars, Routine

LEMMA MostStepsAreRoutine ==
    ASSUME TypeOK, [Next]_vars
    PROVE  \/ Routine
           \/ \E due \in BOOLEAN : TickDaily(due)
           \/ \E f \in Families : WorkerClaims(f) \/ WorkerCompletes(f)
  <1>1. UNCHANGED vars => Routine
    BY DEF vars, rowVars, auditVars, Routine
  <1> QED BY <1>1, CoordinatorRoutine, WorkerRoutine, RepairRoutine, OperatorRoutine,
        EnvironmentRoutine DEF Next

\* What a claim and a completion do to the rows.
LEMMA ClaimIssues ==
    ASSUME TypeOK, NEW f \in Families, WorkerClaims(f)
    PROVE  /\ \/ issued' = issued /\ verification_id'[f] = verification_id[f]
              \/ issued' = issued + 1 /\ verification_id'[f] = issued + 1
           /\ \A g \in Families \ {f} : /\ verification_id'[g] = verification_id[g]
                                        /\ state'[g] = state[g]
           /\ state'[f] = "running"
           /\ UNCHANGED <<remaining, daily_audits, daily_jobs, observations>>
  BY DEF TypeOK, RowsOK, WorkerClaims, auditVars

LEMMA CompletionRecords ==
    ASSUME FenceInv, RecordedEpochsRetired, NEW f \in Families, WorkerCompletes(f)
    PROVE  /\ CompleteRow(f) /\ DropEpoch({f})
           /\ UNCHANGED <<issued, daily_audits>>
           /\ epoch[f].verification_id = verification_id[f]
           /\ verification_id[f] # 0
  <1>1. Owned(f) /\ unit[f] = "published" /\ UNCHANGED <<issued, daily_audits>>
    BY DEF WorkerCompletes, Valid
  <1>2. epoch[f].verification_id = verification_id[f] /\ verification_id[f] # 0
    BY <1>1 DEF Owned, FenceInv, WorkersHoldEpochs, Holding
  <1>3. CompleteRow(f) /\ DropEpoch({f})
    BY <1>2 DEF WorkerCompletes, RecordedEpochsRetired
  <1> QED
    BY <1>1, <1>2, <1>3

-----------------------------------------------------------------------------
\* Epochs are issued in order and to one row each; what is recorded is used up.
EpochsAreOwn ==
    /\ observations \subseteq 1..issued
    /\ \A f \in Families : verification_id[f] <= issued
    /\ \A f, g \in Families :
          verification_id[f] = verification_id[g] /\ verification_id[f] # 0 => f = g
    /\ RecordedEpochsRetired

LEMMA EpochsAreOwnStep ==
    ASSUME TypeOK, FenceInv, EpochsAreOwn, [Next]_vars
    PROVE  EpochsAreOwn'
  <1>0. /\ verification_id \in [Families -> Nat] /\ issued \in Nat
        /\ observations \subseteq Nat
    BY DEF TypeOK, RowsOK, AuditsOK
  <1>1. CASE Routine
    BY <1>0, <1>1 DEF Routine, EpochsAreOwn, RecordedEpochsRetired
  <1>2. CASE \E due \in BOOLEAN : TickDaily(due)
    <2>1. UNCHANGED <<verification_id, issued, observations>>
      BY <1>2 DEF TickDaily, Enqueue, KeepEpochs, rowVars
    <2> QED BY <2>1 DEF EpochsAreOwn, RecordedEpochsRetired
  <1>3. ASSUME NEW f \in Families, WorkerClaims(f) PROVE EpochsAreOwn'
    <2>1. /\ \A g \in Families \ {f} : verification_id'[g] = verification_id[g]
          /\ \/ issued' = issued /\ verification_id'[f] = verification_id[f]
             \/ issued' = issued + 1 /\ verification_id'[f] = issued + 1
          /\ UNCHANGED observations
      BY <1>3, ClaimIssues
    <2>2. \A i \in observations : 1 <= i /\ i <= issued
      BY DEF EpochsAreOwn
    <2>3. \A g \in Families : verification_id'[g] <= issued'
      BY <1>0, <2>1 DEF EpochsAreOwn
    <2>4. RecordedEpochsRetired'
      BY <1>0, <2>1, <2>2 DEF EpochsAreOwn, RecordedEpochsRetired
    <2>5. observations' \subseteq 1..issued'
      BY <1>0, <2>1, <2>2
    <2>6. \A g, h \in Families :
              verification_id'[g] = verification_id'[h] /\ verification_id'[g] # 0 => g = h
      BY <1>0, <2>1 DEF EpochsAreOwn
    <2> QED BY <2>3, <2>4, <2>5, <2>6 DEF EpochsAreOwn
  <1>4. ASSUME NEW f \in Families, WorkerCompletes(f) PROVE EpochsAreOwn'
    <2>1. /\ verification_id[f] # 0 /\ issued' = issued
          /\ observations' = observations \cup {verification_id[f]}
      BY <1>4, CompletionRecords DEF CompleteRow, EpochsAreOwn
    <2>2. \A g \in Families :
              verification_id'[g] = IF g = f THEN 0 ELSE verification_id[g]
      BY <1>4, CompletionRecords DEF DropEpoch, EpochsAreOwn
    <2>3. \A i \in observations : 1 <= i /\ i <= issued
      BY DEF EpochsAreOwn
    <2>4. observations' \subseteq 1..issued'
      <3>1. verification_id[f] \in Nat /\ verification_id[f] <= issued
        BY <1>0 DEF EpochsAreOwn
      <3>2. \A i \in observations' : i \in Nat /\ 1 <= i /\ i <= issued
        <4>1. ASSUME NEW i \in observations
              PROVE  i \in Nat /\ 1 <= i /\ i <= issued
          BY <1>0, <2>3
        <4>2. 1 <= verification_id[f]
          BY <2>1, <3>1
        <4> QED BY <2>1, <3>1, <4>1, <4>2
      <3>3. observations' \subseteq 1..issued
        BY <1>0, <3>2
      <3> QED BY <2>1, <3>3
    <2>5. RecordedEpochsRetired'
      <3>1. \A g \in Families : verification_id[g] \notin observations
        BY DEF EpochsAreOwn, RecordedEpochsRetired
      <3>2. \A g \in Families \ {f} : verification_id[g] # verification_id[f]
        BY <2>1 DEF EpochsAreOwn
      <3>3. 0 \notin observations
        BY <2>3
      <3> QED BY <2>1, <2>2, <3>1, <3>2, <3>3 DEF RecordedEpochsRetired
    <2>6. \A g \in Families : verification_id'[g] <= issued'
      BY <1>0, <2>1, <2>2 DEF EpochsAreOwn
    <2>7. \A g, h \in Families :
              verification_id'[g] = verification_id'[h] /\ verification_id'[g] # 0 => g = h
      BY <2>2 DEF EpochsAreOwn
    <2> QED BY <2>4, <2>5, <2>6, <2>7 DEF EpochsAreOwn
  <1> QED BY <1>1, <1>2, <1>3, <1>4, MostStepsAreRoutine

LEMMA InvariantsHold == Spec => [](TypeOK /\ RequestInv /\ FenceInv /\ EpochsAreOwn)
  <1>1. Init => TypeOK /\ RequestInv /\ FenceInv /\ EpochsAreOwn
    BY InitType DEF Init, RequestInv, RequestsNotAhead, RequestsDistinct,
         RepairingIsOwed, FenceInv, PublisherOwnsRow, WorkersHoldEpochs, Holding,
         EpochsAreOwn, RecordedEpochsRetired
  <1> QED BY <1>1, TypeCorrect, RequestsHold, FenceStep, EpochsAreOwnStep, PTL DEF Spec

(***************************************************************************)
(* No observation is recorded twice: not by a worker that was killed       *)
(* between the publication and the commit, nor by one that resumes.        *)
(***************************************************************************)
THEOREM EpochsRetired == Spec => []RecordedEpochsRetired
  <1>1. EpochsAreOwn => RecordedEpochsRetired
    BY DEF EpochsAreOwn
  <1> QED BY <1>1, InvariantsHold, PTL

-----------------------------------------------------------------------------
LEMMA LaneStep ==
    ASSUME TypeOK, LaneHasOneWorker, [Next]_vars
    PROVE  LaneHasOneWorker'
  <1>0. unit \in [Families -> {"inactive", "starting"} \cup Holding]
    BY DEF TypeOK, WorkersOK
  <1>1. CASE Routine
    BY <1>1 DEF Routine, LaneHasOneWorker
  <1>2. CASE \E due \in BOOLEAN : TickDaily(due)
    BY <1>2 DEF TickDaily, LaneHasOneWorker
  <1>3. ASSUME NEW f \in Families, WorkerClaims(f) PROVE LaneHasOneWorker'
    <2>1. LaneFree(f) /\ unit' = [unit EXCEPT ![f] = "observing"]
      BY <1>3 DEF WorkerClaims
    <2>2. \A g \in Families \ {f} : unit'[g] = unit[g]
      BY <1>0, <2>1
    <2> QED BY <2>1, <2>2 DEF LaneHasOneWorker, LaneFree
  <1>4. ASSUME NEW f \in Families, WorkerCompletes(f) PROVE LaneHasOneWorker'
    BY <1>4, StopRoutine DEF WorkerCompletes, LaneHasOneWorker
  <1> QED BY <1>1, <1>2, <1>3, <1>4, MostStepsAreRoutine

(***************************************************************************)
(* Two workers of a lane never observe or publish at once, whatever the    *)
(* rows say and however late a launch that was given up starts.            *)
(***************************************************************************)
THEOREM LanesExclude == Spec => []LaneHasOneWorker
  <1>1. Init => LaneHasOneWorker
    BY DEF Init, LaneHasOneWorker, Holding
  <1> QED BY <1>1, TypeCorrect, LaneStep, PTL DEF Spec

-----------------------------------------------------------------------------
LEMMA RequestStep ==
    ASSUME TypeOK, FenceInv, EpochsAreOwn, NoRequestIsLost, [Next]_vars
    PROVE  NoRequestIsLost'
  <1>0. /\ state \in [Families -> States] /\ remaining \in [Families -> Nat]
        /\ cooling \in [Families -> BOOLEAN] /\ clean \in [Families -> BOOLEAN]
    BY DEF TypeOK, RowsOK, EvidenceOK
  <1>1. CASE Routine
    <2>1. \A f \in Families : Uncredited(f)' = Uncredited(f)
      BY <1>1 DEF Routine, Uncredited
    <2> QED BY <1>1, <2>1 DEF Routine, NoRequestIsLost
  <1>2. ASSUME NEW due \in BOOLEAN, TickDaily(due) PROVE NoRequestIsLost'
    <2>1. CASE due
      <3>1. \A f \in Families : state'[f] # "idle"
        BY <1>2, <2>1, EnqueueRoutine DEF TickDaily
      <3> QED BY <3>1 DEF NoRequestIsLost
    <2>2. CASE ~due
      <3>1. UNCHANGED <<state, remaining, daily_audits, daily_jobs>>
        BY <1>2, <2>2 DEF TickDaily, rowVars
      <3> QED BY <3>1 DEF NoRequestIsLost, Uncredited
    <2> QED BY <2>1, <2>2
  <1>3. ASSUME NEW f \in Families, WorkerClaims(f) PROVE NoRequestIsLost'
    <2>1. \A g \in Families : Uncredited(g)' = Uncredited(g)
      BY <1>3, ClaimIssues DEF Uncredited
    <2>2. \A g \in Families : state'[g] = "idle" =>
              state[g] = "idle" /\ remaining'[g] = remaining[g]
      BY <1>3, ClaimIssues
    <2> QED BY <2>1, <2>2 DEF NoRequestIsLost
  <1>4. ASSUME NEW f \in Families, WorkerCompletes(f) PROVE NoRequestIsLost'
    <2> DEFINE vid == epoch[f].verification_id
               owed == IF clean[f] /\ ~epoch[f].stable THEN AtLeast(Rest(f), 1) ELSE Rest(f)
               credits == {[audit |-> a, job |-> f, verification_id |-> vid] :
                               a \in Credited(f)}
    <2>1. CompleteRow(f) /\ daily_audits' = daily_audits
      BY <1>4, CompletionRecords DEF EpochsAreOwn
    <2>2. /\ daily_jobs' = daily_jobs \cup credits
          /\ remaining' = [remaining EXCEPT ![f] = owed]
          /\ state' = [state EXCEPT ![f] = IF owed > 0 \/ Newer(f) THEN "queued" ELSE "idle"]
      BY <2>1 DEF CompleteRow
    <2>3. owed \in Nat
      BY <1>0 DEF Rest, AtLeast
    <2>4. \A c \in credits : c.job = f /\ c.audit \in Credited(f)
      OBVIOUS
    <2>5. \A a \in Credited(f) : \E c \in credits : c.audit = a /\ c.job = f
      <3> SUFFICES ASSUME NEW a \in Credited(f)
                   PROVE  \E c \in credits : c.audit = a /\ c.job = f
        OBVIOUS
      <3> WITNESS [audit |-> a, job |-> f, verification_id |-> vid] \in credits
      <3> QED OBVIOUS
    <2> HIDE DEF owed, credits
    <2>6. ASSUME NEW g \in Families \ {f}, state'[g] = "idle"
          PROVE  remaining'[g] = 0 /\ Uncredited(g)' = {}
      <3>1. state[g] = "idle" /\ remaining'[g] = remaining[g]
        BY <1>0, <2>2, <2>6
      <3>2. Uncredited(g)' \subseteq Uncredited(g)
        BY <2>1, <2>2 DEF Uncredited
      <3> QED BY <3>1, <3>2 DEF NoRequestIsLost
    <2>7. ASSUME state'[f] = "idle" PROVE remaining'[f] = 0 /\ Uncredited(f)' = {}
      <3>1. ~(owed > 0) /\ Uncredited(f) \subseteq Credited(f)
        BY <1>0, <2>2, <2>7 DEF Newer
      <3>2. remaining'[f] = 0
        BY <1>0, <2>2, <2>3, <3>1
      <3>3. Uncredited(f)' \subseteq Uncredited(f) \ Credited(f)
        BY <2>1, <2>2, <2>5 DEF Uncredited
      <3> QED BY <3>1, <3>2, <3>3
    <2> QED BY <2>6, <2>7 DEF NoRequestIsLost
  <1> QED BY <1>1, <1>2, <1>3, <1>4, MostStepsAreRoutine

(***************************************************************************)
(* A row that is idle owes nothing: a request or a daily audit that comes  *)
(* while the family is busy is served after it.                            *)
(***************************************************************************)
THEOREM RequestsAreServed == Spec => []NoRequestIsLost
  <1>1. Init => NoRequestIsLost
    <2>1. Init => \A f \in Families : Uncredited(f) = {}
      BY DEF Init, Uncredited
    <2> QED BY <2>1 DEF Init, NoRequestIsLost
  <1> QED BY <1>1, InvariantsHold, RequestStep, PTL DEF Spec

-----------------------------------------------------------------------------
\* The credited audits of a family are its first ones, each by later evidence than
\* the one before, and the epoch that a row runs is later than all of it.
CreditsAreOrdered ==
    /\ \A c \in daily_jobs :
          /\ c.verification_id <= issued
          /\ verification_id[c.job] # 0 => c.verification_id < verification_id[c.job]
          /\ \A a \in 1..c.audit : \E d \in daily_jobs : d.audit = a /\ d.job = c.job
    /\ \A c, d \in daily_jobs :
          c.job = d.job /\ c.audit < d.audit => c.verification_id < d.verification_id

LEMMA CreditStep ==
    ASSUME TypeOK, FenceInv, EpochsAreOwn, CreditsAreOrdered, [Next]_vars
    PROVE  CreditsAreOrdered'
  <1>0. /\ verification_id \in [Families -> Nat] /\ issued \in Nat /\ daily_audits \in Nat
        /\ \A c \in daily_jobs : c.job \in Families /\ c.audit \in Nat /\ c.verification_id \in Nat
    BY DEF TypeOK, RowsOK, AuditsOK, CreditTypes
  <1>1. CASE Routine
    BY <1>0, <1>1 DEF Routine, CreditsAreOrdered
  <1>2. CASE \E due \in BOOLEAN : TickDaily(due)
    <2>1. UNCHANGED <<verification_id, issued, daily_jobs>>
      BY <1>2 DEF TickDaily, Enqueue, KeepEpochs, rowVars
    <2> QED BY <2>1 DEF CreditsAreOrdered
  <1>3. ASSUME NEW f \in Families, WorkerClaims(f) PROVE CreditsAreOrdered'
    <2>1. /\ \A g \in Families \ {f} : verification_id'[g] = verification_id[g]
          /\ \/ issued' = issued /\ verification_id'[f] = verification_id[f]
             \/ issued' = issued + 1 /\ verification_id'[f] = issued + 1
          /\ daily_jobs' = daily_jobs
      BY <1>3, ClaimIssues
    <2>2. ASSUME NEW c \in daily_jobs
          PROVE  /\ c.verification_id <= issued'
                 /\ verification_id'[c.job] # 0 => c.verification_id < verification_id'[c.job]
      <3>1. /\ c.verification_id <= issued
            /\ verification_id[c.job] # 0 => c.verification_id < verification_id[c.job]
        BY DEF CreditsAreOrdered
      <3> QED BY <1>0, <2>1, <3>1
    <2> QED BY <2>1, <2>2 DEF CreditsAreOrdered
  <1>4. ASSUME NEW f \in Families, WorkerCompletes(f) PROVE CreditsAreOrdered'
    <2> DEFINE vid == verification_id[f]
               credits == {[audit |-> a, job |-> f, verification_id |-> vid] :
                               a \in Credited(f)}
    <2>1. /\ CompleteRow(f) /\ issued' = issued /\ daily_audits' = daily_audits
          /\ epoch[f].verification_id = vid /\ vid # 0
      BY <1>4, CompletionRecords DEF EpochsAreOwn
    <2>2. daily_jobs' = daily_jobs \cup credits
      BY <2>1 DEF CompleteRow
    <2>3. \A g \in Families :
              verification_id'[g] = IF g = f THEN 0 ELSE verification_id[g]
      BY <1>4, CompletionRecords DEF DropEpoch, EpochsAreOwn
    <2>4. \A c \in credits : /\ c.job = f /\ c.verification_id = vid
                             /\ c.audit \in Credited(f)
      OBVIOUS
    <2>5. vid \in Nat /\ vid <= issued
      BY <1>0 DEF EpochsAreOwn
    <2> HIDE DEF vid, credits
    <2>6. \A c \in daily_jobs : c.job = f => c.verification_id < vid
      BY <2>1 DEF CreditsAreOrdered, vid
    <2>7. ASSUME NEW c \in credits
          PROVE  /\ c.audit \in Nat
                 /\ \A d \in daily_jobs : d.job = f => d.audit < c.audit
                 /\ \A a \in 1..c.audit :
                        a = c.audit \/ \E d \in daily_jobs : d.audit = a /\ d.job = f
      <3>1. /\ c.audit \in 1..daily_audits
            /\ ~ \E d \in daily_jobs : d.audit = c.audit /\ d.job = f
            /\ \A b \in Uncredited(f) : c.audit <= b
        BY <2>4 DEF Credited, Uncredited
      <3>2. ASSUME NEW d \in daily_jobs, d.job = f PROVE d.audit < c.audit
        <4>1. \A a \in 1..d.audit : \E e \in daily_jobs : e.audit = a /\ e.job = f
          BY <3>2 DEF CreditsAreOrdered
        <4>2. c.audit \notin 1..d.audit
          BY <3>1, <4>1
        <4> QED BY <1>0, <3>1, <4>2
      <3>3. ASSUME NEW a \in 1..c.audit, a # c.audit
            PROVE  \E d \in daily_jobs : d.audit = a /\ d.job = f
        <4>1. a \in 1..daily_audits /\ a < c.audit
          BY <1>0, <3>1, <3>3
        <4>2. a \notin Uncredited(f)
          BY <1>0, <3>1, <4>1
        <4> QED BY <4>1, <4>2 DEF Uncredited
      <3> QED BY <1>0, <3>1, <3>2, <3>3
    <2>8. ASSUME NEW c \in daily_jobs'
          PROVE  /\ c.verification_id <= issued'
                 /\ verification_id'[c.job] # 0 => c.verification_id < verification_id'[c.job]
                 /\ \A a \in 1..c.audit : \E d \in daily_jobs' : d.audit = a /\ d.job = c.job
      <3>1. CASE c \in daily_jobs
        BY <1>0, <2>1, <2>2, <2>3, <3>1 DEF CreditsAreOrdered
      <3>2. CASE c \in credits
        <4>1. c.job = f /\ c.verification_id = vid
          BY <2>4, <3>2
        <4>2. \A a \in 1..c.audit : \E d \in daily_jobs' : d.audit = a /\ d.job = f
          BY <2>2, <2>7, <3>2, <4>1
        <4> QED BY <2>1, <2>3, <2>5, <4>1, <4>2
      <3> QED BY <2>2, <3>1, <3>2
    <2>9. ASSUME NEW c \in daily_jobs', NEW d \in daily_jobs', c.job = d.job, c.audit < d.audit
          PROVE  c.verification_id < d.verification_id
      <3>1. CASE c \in daily_jobs /\ d \in daily_jobs
        BY <2>9, <3>1 DEF CreditsAreOrdered
      <3>2. CASE c \in daily_jobs /\ d \in credits
        BY <2>4, <2>6, <2>9, <3>2
      <3>3. CASE c \in credits /\ d \in daily_jobs
        <4>1. d.audit < c.audit
          BY <2>4, <2>7, <2>9, <3>3
        <4> QED BY <1>0, <2>7, <2>9, <3>3, <4>1
      <3>4. CASE c \in credits /\ d \in credits
        <4>1. c.audit \in Credited(f) /\ d.audit \in Credited(f)
          BY <2>4, <3>4
        <4>2. d.audit <= c.audit
          BY <4>1 DEF Credited
        <4> QED BY <2>7, <2>9, <3>4, <4>2
      <3> QED BY <2>2, <3>1, <3>2, <3>3, <3>4
    <2> QED BY <2>8, <2>9 DEF CreditsAreOrdered
  <1> QED BY <1>1, <1>2, <1>3, <1>4, MostStepsAreRoutine

(***************************************************************************)
(* Each daily audit is credited by evidence of its own, in order, however  *)
(* many are due after an outage.                                           *)
(***************************************************************************)
THEOREM CreditsInOrder == Spec => []AuditsCreditedInOrder
  <1>1. Init => CreditsAreOrdered
    BY DEF Init, CreditsAreOrdered
  <1>2. TypeOK /\ CreditsAreOrdered => AuditsCreditedInOrder
    BY DEF TypeOK, AuditsOK, CreditTypes, CreditsAreOrdered, AuditsCreditedInOrder, Uncredited
  <1> QED BY <1>1, <1>2, InvariantsHold, CreditStep, PTL DEF Spec

-----------------------------------------------------------------------------
\* The rest is about copies, when no source fault interferes with them.  An
\* unfinished report request then keeps its family repairing and latest in place.
RepairIsOwn ==
    /\ repair.pc # "fault"
    /\ repair.pc = "copy" => /\ repair.job \in Families
                             /\ \E r \in Reports(repair.job) : ~r.completed
    /\ \A r \in repair_requests : r.kind = "report" /\ ~r.completed =>
          state[r.job] = "repairing" /\ r.epoch = published[r.job]

\* A family that repairs has no epoch and owes both confirmations; epochs are
\* issued after the last copy.
EvidenceIsFresh ==
    \A f \in Families :
       /\ state[f] = "repairing" => verification_id[f] = 0 /\ remaining[f] >= 2
       /\ copyMark[f] <= issued
       /\ verification_id[f] # 0 => verification_id[f] > copyMark[f]
       /\ fresh[f] + remaining[f] >= 2

CopyInv == RepairIsOwn /\ EvidenceIsFresh

\* What the steps of others than the repair service do to a family's repair.
Aside ==
    /\ \A r : r.kind = "report" => (r \in repair_requests' <=> r \in repair_requests)
    /\ UNCHANGED <<repair, copyMark, fresh, issued>>
    /\ \A f \in Families :
          /\ verification_id'[f] \in {verification_id[f], 0}
          /\ state[f] = "repairing" => state'[f] = "repairing"
          /\ state'[f] = "repairing" =>
                \/ state[f] = "repairing"
                \/ verification_id'[f] = 0 /\ remaining'[f] >= 2
          /\ remaining'[f] >= remaining[f] \/ remaining'[f] >= 2

\* latest of a family that repairs stays.
LatestStays ==
    \A f \in Families : state[f] = "repairing" => published'[f] = published[f]

LEMMA AsideKeepsCopies ==
    ASSUME TypeOK, TypeOK', CopyInv, Aside, LatestStays
    PROVE  CopyInv'
  <1>0. /\ verification_id \in [Families -> Nat] /\ remaining \in [Families -> Nat]
        /\ copyMark \in [Families -> Nat] /\ fresh \in [Families -> Nat] /\ issued \in Nat
        /\ \A r \in repair_requests : r.job \in Families
    BY DEF TypeOK, RowsOK, HistoryOK, RequestTypes
  <1>1. /\ repair' = repair
        /\ \A r : r.kind = "report" => (r \in repair_requests' <=> r \in repair_requests)
    BY DEF Aside
  <1>2. \A f : Reports(f)' = Reports(f)
    BY <1>1 DEF Reports
  <1>3. RepairIsOwn'
    <2>1. ASSUME NEW r \in repair_requests', r.kind = "report", ~r.completed
          PROVE  state'[r.job] = "repairing" /\ r.epoch = published'[r.job]
      <3>1. r \in repair_requests
        BY <1>1, <2>1
      <3>2. r.job \in Families /\ state[r.job] = "repairing" /\ r.epoch = published[r.job]
        BY <1>0, <2>1, <3>1 DEF CopyInv, RepairIsOwn
      <3> QED BY <3>2 DEF Aside, LatestStays
    <2> QED BY <1>1, <1>2, <2>1 DEF CopyInv, RepairIsOwn
  <1>4. EvidenceIsFresh'
    <2> SUFFICES ASSUME NEW f \in Families
                 PROVE  /\ state'[f] = "repairing" =>
                              verification_id'[f] = 0 /\ remaining'[f] >= 2
                        /\ copyMark'[f] <= issued'
                        /\ verification_id'[f] # 0 => verification_id'[f] > copyMark'[f]
                        /\ fresh'[f] + remaining'[f] >= 2
      BY DEF EvidenceIsFresh
    <2>1. remaining' \in [Families -> Nat]
      BY DEF TypeOK, RowsOK
    <2> QED BY <1>0, <2>1 DEF CopyInv, EvidenceIsFresh, Aside
  <1> QED BY <1>3, <1>4 DEF CopyInv

LEMMA EnqueueAside ==
    ASSUME TypeOK, NEW S, NEW c \in Nat, Enqueue(S, c)
    PROVE  \A f \in Families :
              /\ verification_id'[f] = verification_id[f]
              /\ state'[f] = "repairing" <=> state[f] = "repairing"
              /\ remaining'[f] >= remaining[f]
  BY DEF TypeOK, RowsOK, Enqueue, KeepEpochs, AtLeast

LEMMA CoordinatorAside == TypeOK /\ Coordinator => Aside
  <1> SUFFICES ASSUME TypeOK, Coordinator PROVE Aside
    OBVIOUS
  <1>0. state \in [Families -> States] /\ remaining \in [Families -> Nat]
    BY DEF TypeOK, RowsOK
  <1>1. UNCHANGED <<repair_requests, repair, historyVars, issued>>
    BY DEF Coordinator, TickRead, TickSeed, TickDaily, TickRecover, TickSkip, TickLaunch,
         TickLaunchFailed
  <1>2. ASSUME \A f \in Families :
                  /\ verification_id'[f] = verification_id[f]
                  /\ state'[f] = "repairing" <=> state[f] = "repairing"
                  /\ remaining'[f] >= remaining[f]
        PROVE  Aside
    BY <1>1, <1>2 DEF Aside, historyVars
  <1>3. ASSUME UNCHANGED rowVars PROVE Aside
    BY <1>0, <1>2, <1>3 DEF rowVars
  <1>4. ASSUME NEW old \in SUBSET Families, TickSeed(old) PROVE Aside
    <2> DEFINE due == {f \in tick.need \cup old : state[f] = "idle"}
    <2>1. Enqueue(due, 1)
      BY <1>4 DEF TickSeed
    <2> HIDE DEF due
    <2> QED BY <1>2, <2>1, EnqueueAside
  <1>5. ASSUME NEW due \in BOOLEAN, TickDaily(due) PROVE Aside
    <2>1. CASE due
      BY <1>2, <1>5, <2>1, EnqueueAside DEF TickDaily
    <2>2. CASE ~due
      BY <1>3, <1>5, <2>2 DEF TickDaily
    <2> QED BY <2>1, <2>2
  <1>6. ASSUME NEW late \in SUBSET LateLaunches, TickRecover(late) PROVE Aside
    <2>1. UNCHANGED <<verification_id, remaining>>
      BY <1>6 DEF TickRecover, KeepEpochs
    <2>2. \A f \in Families : state'[f] = "repairing" <=> state[f] = "repairing"
      BY <1>6 DEF TickRecover, LateLaunches
    <2> QED BY <1>0, <1>2, <2>1, <2>2
  <1>7. ASSUME NEW lane \in {"raw", "products"}, NEW f \in Families,
               NEW started \in BOOLEAN, TickLaunch(lane, f, started)
        PROVE  Aside
    <2>1. UNCHANGED <<verification_id, remaining>>
      BY <1>7 DEF TickLaunch, KeepEpochs
    <2>2. state[f] \in {"queued", "retry_wait"} /\ state' = [state EXCEPT ![f] = "launching"]
      BY <1>7 DEF TickLaunch, Chosen, Candidates
    <2> QED BY <1>0, <1>2, <2>1, <2>2
  <1>8. CASE TickLaunchFailed
    <2>1. UNCHANGED <<verification_id, remaining>>
      BY <1>8 DEF TickLaunchFailed, KeepEpochs
    <2>2. \A f \in Families : state'[f] = "repairing" <=> state[f] = "repairing"
      BY <1>0, <1>8 DEF TickLaunchFailed
    <2> QED BY <1>0, <1>2, <2>1, <2>2
  <1>9. CASE TickRead \/ \E lane \in {"raw", "products"} : TickSkip(lane)
    BY <1>3, <1>9 DEF TickRead, TickSkip
  <1> QED BY <1>4, <1>5, <1>6, <1>7, <1>8, <1>9 DEF Coordinator

LEMMA FailRowAside ==
    ASSUME TypeOK, NEW f \in Families, state[f] = "running", NEW category,
           FailRow(f, category)
    PROVE  \A g \in Families :
              /\ verification_id'[g] \in {verification_id[g], 0}
              /\ state'[g] = "repairing" <=> state[g] = "repairing"
              /\ remaining'[g] >= remaining[g]
  BY DEF TypeOK, RowsOK, FailRow, DropEpoch, KeepEpochs

LEMMA WorkerAside ==
    ASSUME TypeOK, NEW f \in Families, Worker(f), ~WorkerClaims(f), ~WorkerCompletes(f)
    PROVE  Aside
  <1>0. state \in [Families -> States] /\ remaining \in [Families -> Nat]
    BY DEF TypeOK, RowsOK
  <1>1. UNCHANGED <<repair_requests, repair, historyVars, issued>>
    BY DEF Worker, WorkerReturns, WorkerFails, WorkerInvalid, WorkerDefers, WorkerLocks,
         WorkerPublishes, WorkerCrashes
  <1>2. ASSUME \A g \in Families :
                  /\ verification_id'[g] \in {verification_id[g], 0}
                  /\ state'[g] = "repairing" <=> state[g] = "repairing"
                  /\ remaining'[g] >= remaining[g]
        PROVE  Aside
    BY <1>1, <1>2 DEF Aside, historyVars
  <1>3. ASSUME UNCHANGED rowVars PROVE Aside
    BY <1>0, <1>2, <1>3 DEF rowVars
  <1>4. ASSUME NEW category \in Categories, WorkerFails(f, category) PROVE Aside
    BY <1>2, <1>4, FailRowAside DEF WorkerFails, Valid, Owned
  <1>5. CASE WorkerInvalid(f)
    <2>1. CASE Owned(f)
      BY <1>2, <1>5, <2>1, FailRowAside DEF WorkerInvalid, Owned
    <2>2. CASE ~Owned(f)
      BY <1>3, <1>5, <2>2 DEF WorkerInvalid
    <2> QED BY <2>1, <2>2
  <1>6. CASE WorkerDefers(f)
    <2>1. UNCHANGED <<verification_id, remaining>>
      BY <1>6 DEF WorkerDefers, KeepEpochs
    <2>2. \A g \in Families : state'[g] = "repairing" <=> state[g] = "repairing"
      BY <1>0, <1>6 DEF WorkerDefers, Owned
    <2> QED BY <1>0, <1>2, <2>1, <2>2
  <1>7. CASE \/ WorkerReturns(f) \/ WorkerLocks(f) \/ WorkerCrashes(f)
             \/ \E isClean \in BOOLEAN : WorkerPublishes(f, isClean)
    BY <1>3, <1>7 DEF WorkerReturns, WorkerLocks, WorkerPublishes, WorkerCrashes
  <1> QED BY <1>4, <1>5, <1>6, <1>7 DEF Worker

LEMMA OperatorAside == TypeOK /\ Operator => Aside
  <1> SUFFICES ASSUME TypeOK, NEW f \in Families,
                      \/ \E confirmations \in 1..2 :
                           OperatorEnqueue(f, confirmations)
                      \/ OperatorInvalidate(f)
                      \/ OperatorRetry(f)
                      \/ OperatorResumes(f)
               PROVE Aside
    BY DEF Operator
  <1>0. /\ state \in [Families -> States] /\ remaining \in [Families -> Nat]
        /\ verification_id \in [Families -> Nat]
    BY DEF TypeOK, RowsOK
  <1>1. UNCHANGED <<repair, historyVars, issued>>
    BY DEF OperatorEnqueue, OperatorInvalidate, OperatorRetry, OperatorResumes
  <1>2. ASSUME NEW c \in 1..2, OperatorEnqueue(f, c) PROVE Aside
    <2>1. Enqueue({f}, c) /\ repair_requests' = repair_requests
      BY <1>2 DEF OperatorEnqueue
    <2> QED BY <1>1, <2>1, EnqueueAside DEF Aside, historyVars
  <1>3. CASE OperatorInvalidate(f)
    <2>1. Invalidate(f, "manual", 0)
      BY <1>3 DEF OperatorInvalidate
    <2>2. \A r : r.kind = "report" => (r \in repair_requests' <=> r \in repair_requests)
      BY <2>1 DEF Invalidate
    <2>3. \A g \in Families :
             /\ verification_id'[g] = IF g = f THEN 0 ELSE verification_id[g]
             /\ state'[g] = IF g = f THEN "repairing" ELSE state[g]
             /\ remaining'[g] = IF g = f THEN 2 ELSE remaining[g]
      BY <1>0, <2>1 DEF Invalidate, DropEpoch, RepairConfirmations
    <2> QED BY <1>0, <1>1, <2>2, <2>3 DEF Aside, historyVars
  <1>4. CASE OperatorRetry(f) \/ OperatorResumes(f)
    <2>1. /\ state[f] # "repairing" /\ repair_requests' = repair_requests
          /\ state' = [state EXCEPT ![f] = "queued"]
          /\ remaining' = [remaining EXCEPT ![f] = AtLeast(@, 1)]
      BY <1>4 DEF OperatorRetry, OperatorResumes, ACTIVE
    <2>2. \A g \in Families : verification_id'[g] \in {verification_id[g], 0}
      BY <1>4 DEF OperatorRetry, OperatorResumes, DropEpoch, KeepEpochs
    <2> QED BY <1>0, <1>1, <2>1, <2>2 DEF Aside, historyVars, AtLeast
  <1> QED BY <1>2, <1>3, <1>4

LEMMA EnvironmentAside == TypeOK /\ Environment /\ ~Reboots => Aside
  BY DEF TypeOK, RowsOK, Environment, CoolsDown, Expires, GateAges, Reconfigures,
       KeepEpochs, rowVars, historyVars, Aside

\* What finishing all unfinished report requests of a family leaves.
LEMMA FinishCopies ==
    ASSUME TypeOK, RequestInv, NEW f \in Families, NEW R \in SUBSET Pending(f), Finish(f, R),
           \A r \in repair_requests :
              r.job = f /\ r.kind = "report" /\ ~r.completed => r \in R
    PROVE  /\ \A r \in repair_requests' :
                 r.kind = "report" /\ ~r.completed => r \in repair_requests /\ r.job # f
           /\ \A g \in Families \ {f} : /\ state'[g] = state[g]
                                        /\ remaining'[g] = remaining[g]
           /\ verification_id' = verification_id
           /\ \/ state'[f] = state[f] /\ remaining'[f] = remaining[f]
              \/ state'[f] = "queued" /\ remaining'[f] = 2
  <1>1. ASSUME NEW r \in repair_requests', r.kind = "report", ~r.completed
        PROVE  r \in repair_requests /\ r.job # f
    <2>1. r \notin {[q EXCEPT !.completed = TRUE] : q \in R}
      BY <1>1 DEF Pending, TypeOK, RequestTypes
    <2>2. r \in repair_requests \ R
      BY <2>1, Zenon DEF Finish
    <2> QED BY <1>1, <2>2
  <1>2. verification_id' = verification_id
    BY DEF Finish, KeepEpochs
  <1>3. \/ UNCHANGED <<state, remaining>>
        \/ /\ state' = [state EXCEPT ![f] = "queued"]
           /\ remaining' = [remaining EXCEPT ![f] = 2]
    BY DEF Finish, RepairConfirmations
  <1> QED BY <1>1, <1>2, <1>3 DEF TypeOK, RowsOK

LEMMA RepairCopyStep ==
    ASSUME TypeOK, RequestInv, CopyInv, "source" \notin Disturbances, Repair
    PROVE  CopyInv'
  <1>0. /\ state \in [Families -> States] /\ remaining \in [Families -> Nat]
        /\ verification_id \in [Families -> Nat]
        /\ copyMark \in [Families -> Nat] /\ fresh \in [Families -> Nat] /\ issued \in Nat
        /\ repair_requests \subseteq RequestTypes
        /\ published \in [Families -> Nat]
        /\ repair \in [pc : {"off", "scan", "copy", "fault"},
                       job : Families \cup {NoFamily}, todo : SUBSET Families,
                       dirty : SUBSET Families, identity : [Families -> Nat]]
    BY DEF TypeOK, RowsOK, HistoryOK, EvidenceOK, RepairOK
  <1>a. repair' = NoRepair => repair'.pc = "off"
    BY DEF NoRepair
  <1>b. ASSUME NEW f \in Families, Proceed(f) PROVE repair'.pc = "scan"
    BY <1>0, <1>b DEF Proceed
  <1>1. ASSUME RepairIsOwn, repair'.pc \in {"off", "scan"},
               UNCHANGED <<repair_requests, published, state>>
        PROVE  RepairIsOwn'
    BY <1>1 DEF RepairIsOwn
  <1>2. ASSUME UNCHANGED <<state, remaining, verification_id, copyMark, fresh, issued>>
        PROVE  EvidenceIsFresh'
    BY <1>2 DEF CopyInv, EvidenceIsFresh
  <1>3. CASE \/ RepairStarts \/ RepairEnds
             \/ \E f \in Families : RepairSkips(f)
    <2>1. repair'.pc \in {"off", "scan"}
      BY <1>a, <1>b, <1>3 DEF RepairStarts, RepairEnds, RepairSkips
    <2>2. UNCHANGED <<rowVars, repair_requests, evidenceVars, historyVars, issued>>
      BY <1>3 DEF RepairStarts, RepairEnds, RepairSkips
    <2> QED BY <1>1, <1>2, <2>1, <2>2 DEF CopyInv, rowVars, evidenceVars, historyVars
  <1>4. CASE RepairCrashes
    <2>1. /\ repair'.pc = "off"
          /\ UNCHANGED <<rowVars, repair_requests, evidenceVars, fresh, issued>>
          /\ copyMark' = [f \in Families |-> IF repair.pc = "copy" /\ repair.job = f
                                             THEN issued ELSE copyMark[f]]
      BY <1>4 DEF RepairCrashes, NoRepair
    <2>2. \A f \in Families : repair.pc = "copy" /\ repair.job = f => verification_id[f] = 0
      BY <1>0 DEF CopyInv, RepairIsOwn, EvidenceIsFresh, Reports
    <2>3. EvidenceIsFresh'
      BY <1>0, <2>1, <2>2 DEF CopyInv, EvidenceIsFresh, rowVars
    <2> QED BY <1>1, <2>1, <2>3 DEF CopyInv, rowVars, evidenceVars
  <1>5. ASSUME NEW f \in Families, RepairFindsNothing(f) PROVE CopyInv'
    <2>1. /\ Finish(f, Pending(f)) /\ repair'.pc = "scan"
          /\ UNCHANGED <<published, copyMark, fresh, issued>>
      BY <1>0, <1>5 DEF RepairFindsNothing, Proceed, evidenceVars, historyVars
    <2>2. \A r \in repair_requests :
             r.job = f /\ r.kind = "report" /\ ~r.completed => r \in Pending(f)
      BY DEF Pending
    <2>3. /\ \A r \in repair_requests' :
                r.kind = "report" /\ ~r.completed => r \in repair_requests /\ r.job # f
          /\ \A g \in Families \ {f} : /\ state'[g] = state[g]
                                       /\ remaining'[g] = remaining[g]
          /\ verification_id' = verification_id
          /\ \/ state'[f] = state[f] /\ remaining'[f] = remaining[f]
             \/ state'[f] = "queued" /\ remaining'[f] = 2
      BY <2>1, <2>2, FinishCopies
    <2>4. RepairIsOwn'
      BY <1>0, <2>1, <2>3 DEF CopyInv, RepairIsOwn, RequestTypes
    <2>5. EvidenceIsFresh'
      BY <1>0, <2>1, <2>3 DEF CopyInv, EvidenceIsFresh
    <2> QED BY <2>4, <2>5 DEF CopyInv
  <1>6. ASSUME NEW f \in Families, NEW goesOn \in BOOLEAN, RepairCopied(f, goesOn)
        PROVE  CopyInv'
    <2> DEFINE R == {r \in Reports(f) : ~r.completed}
    <2>1. /\ Finish(f, R)
          /\ Proceed(f) \/ repair' = NoRepair
          /\ UNCHANGED <<published, issued>>
          /\ copyMark' = [copyMark EXCEPT ![f] = issued]
          /\ fresh' = [fresh EXCEPT ![f] = 0]
      BY <1>6 DEF RepairCopied, evidenceVars
    <2>2. PICK q \in Reports(f) : ~q.completed
      BY <1>6 DEF RepairCopied, CopyInv, RepairIsOwn
    <2>3. state[f] = "repairing" /\ repair.identity[f] = published[f]
      BY <2>2 DEF CopyInv, RepairIsOwn, Reports
    <2>4. \A r \in repair_requests :
             r.job = f /\ r.kind = "report" /\ ~r.completed => r \in R
      BY <2>3 DEF CopyInv, RepairIsOwn, Reports
    <2>5. R \in SUBSET Pending(f)
      BY DEF Reports, Pending
    <2> HIDE DEF R
    <2>6. /\ \A r \in repair_requests' :
                r.kind = "report" /\ ~r.completed => r \in repair_requests /\ r.job # f
          /\ \A g \in Families \ {f} : /\ state'[g] = state[g]
                                       /\ remaining'[g] = remaining[g]
          /\ verification_id' = verification_id
          /\ \/ state'[f] = state[f] /\ remaining'[f] = remaining[f]
             \/ state'[f] = "queued" /\ remaining'[f] = 2
      BY <2>1, <2>4, <2>5, FinishCopies
    <2>7. RepairIsOwn'
      BY <1>0, <1>a, <1>b, <2>1, <2>6 DEF CopyInv, RepairIsOwn, RequestTypes
    <2>8. verification_id[f] = 0 /\ remaining'[f] >= 2
      BY <1>0, <2>3, <2>6 DEF CopyInv, EvidenceIsFresh
    <2>9. EvidenceIsFresh'
      BY <1>0, <2>1, <2>3, <2>6, <2>8 DEF CopyInv, EvidenceIsFresh
    <2> QED BY <2>7, <2>9 DEF CopyInv
  <1>7. ASSUME NEW f \in Families, RepairCopies(f) PROVE CopyInv'
    <2>1. /\ Current(f) /\ \A r \in Reports(f) : ~r.completed
          /\ UNCHANGED <<published, issued>>
          /\ repair' = [repair EXCEPT !.pc = "copy", !.job = f]
          /\ copyMark' = [copyMark EXCEPT ![f] = issued]
          /\ fresh' = [fresh EXCEPT ![f] = 0]
      BY <1>7 DEF RepairCopies, evidenceVars
    <2>2. repair'.pc = "copy" /\ repair'.job = f /\ repair'.identity = repair.identity
      BY <1>0, <2>1
    <2>3. CASE Reports(f) = {}
      <3> DEFINE new == [job |-> f, kind |-> "report", epoch |-> repair.identity[f],
                         generation |-> generation[f] + 1, completed |-> FALSE]
      <3>1. Invalidate(f, "report", repair.identity[f])
        BY <1>7, <2>3 DEF RepairCopies
      <3>2. repair_requests' = repair_requests \cup {new}
        BY <3>1 DEF Invalidate
      <3>3. \A g \in Families :
               /\ verification_id'[g] = IF g = f THEN 0 ELSE verification_id[g]
               /\ state'[g] = IF g = f THEN "repairing" ELSE state[g]
               /\ remaining'[g] = IF g = f THEN 2 ELSE remaining[g]
        BY <1>0, <3>1 DEF Invalidate, DropEpoch, RepairConfirmations
      <3>4. new \in Reports(f)' /\ ~new.completed
        BY <2>2, <3>2 DEF Reports
      <3>5. new.job = f /\ new.epoch = published[f]
        BY <2>1 DEF Current
      <3> HIDE DEF new
      <3>6. RepairIsOwn'
        BY <1>0, <2>1, <2>2, <3>2, <3>3, <3>4, <3>5 DEF CopyInv, RepairIsOwn, RequestTypes
      <3>7. EvidenceIsFresh'
        BY <1>0, <2>1, <3>3 DEF CopyInv, EvidenceIsFresh
      <3> QED BY <3>6, <3>7 DEF CopyInv
    <2>4. CASE Reports(f) # {}
      <3>1. UNCHANGED <<rowVars, repair_requests>>
        BY <1>7, <2>4 DEF RepairCopies
      <3>2. Reports(f)' = Reports(f)
        BY <2>2, <3>1 DEF Reports
      <3>3. state[f] = "repairing"
        BY <2>1, <2>4 DEF CopyInv, RepairIsOwn, Reports
      <3>4. verification_id[f] = 0 /\ remaining[f] >= 2
        BY <3>3 DEF CopyInv, EvidenceIsFresh
      <3>5. RepairIsOwn'
        BY <2>1, <2>2, <2>4, <3>1, <3>2 DEF CopyInv, RepairIsOwn, rowVars
      <3>6. EvidenceIsFresh'
        BY <1>0, <2>1, <3>1, <3>4 DEF CopyInv, EvidenceIsFresh, rowVars
      <3> QED BY <3>5, <3>6 DEF CopyInv
    <2> QED BY <2>3, <2>4
  <1>8. ASSUME NEW f \in Families
        PROVE  /\ ~ \E error \in SourceErrors : RepairMeetsFault(f, error) \/ RepairFaults(f, error)
               /\ ~RepairEndsFault(f)
    BY DEF RepairMeetsFault, RepairFaults, RepairEndsFault, Disturb, CopyInv, RepairIsOwn
  <1> QED BY <1>3, <1>4, <1>5, <1>6, <1>7, <1>8 DEF Repair

\* A claimed family is not repairing, and a new epoch comes after every copy.
LEMMA ClaimCopyStep ==
    ASSUME TypeOK, CopyInv, NEW f \in Families, WorkerClaims(f)
    PROVE  CopyInv'
  <1>0. /\ verification_id \in [Families -> Nat] /\ copyMark \in [Families -> Nat]
        /\ state \in [Families -> States] /\ issued \in Nat
        /\ repair_requests \subseteq RequestTypes
    BY DEF TypeOK, RowsOK, HistoryOK
  <1>1. /\ state[f] # "repairing" /\ state' = [state EXCEPT ![f] = "running"]
        /\ UNCHANGED <<remaining, repair_requests, published, repair, copyMark, fresh>>
    BY DEF WorkerClaims, Claimable, evidenceVars
  <1>2. /\ \/ issued' = issued /\ verification_id'[f] = verification_id[f]
           \/ issued' = issued + 1 /\ verification_id'[f] = issued + 1
        /\ \A g \in Families \ {f} : verification_id'[g] = verification_id[g]
    BY ClaimIssues
  <1>3. \A g \in Families : state'[g] = "repairing" <=> state[g] = "repairing"
    BY <1>0, <1>1
  <1>4. RepairIsOwn'
    BY <1>0, <1>1, <1>3 DEF CopyInv, RepairIsOwn, Reports, RequestTypes
  <1>5. EvidenceIsFresh'
    <2> SUFFICES ASSUME NEW g \in Families
                 PROVE  /\ state'[g] = "repairing" =>
                              verification_id'[g] = 0 /\ remaining'[g] >= 2
                        /\ copyMark'[g] <= issued'
                        /\ verification_id'[g] # 0 => verification_id'[g] > copyMark'[g]
                        /\ fresh'[g] + remaining'[g] >= 2
      BY DEF EvidenceIsFresh
    <2>1. CASE g = f
      BY <1>0, <1>1, <1>2, <1>3, <2>1 DEF CopyInv, EvidenceIsFresh
    <2>2. CASE g # f
      BY <1>0, <1>1, <1>2, <1>3, <2>2 DEF CopyInv, EvidenceIsFresh
    <2> QED BY <2>1, <2>2
  <1> QED BY <1>4, <1>5 DEF CopyInv

\* A confirmation is paid by an observation that began after the copy.
LEMMA CompleteCopyStep ==
    ASSUME TypeOK, FenceInv, EpochsAreOwn, CopyInv, NEW f \in Families, WorkerCompletes(f)
    PROVE  CopyInv'
  <1>0. /\ verification_id \in [Families -> Nat] /\ copyMark \in [Families -> Nat]
        /\ state \in [Families -> States] /\ remaining \in [Families -> Nat]
        /\ fresh \in [Families -> Nat] /\ repair_requests \subseteq RequestTypes
    BY DEF TypeOK, RowsOK, HistoryOK
  <1>1. /\ CompleteRow(f) /\ DropEpoch({f}) /\ issued' = issued
        /\ epoch[f].verification_id = verification_id[f] /\ verification_id[f] # 0
    BY CompletionRecords DEF EpochsAreOwn
  <1>2. /\ state[f] = "running"
        /\ UNCHANGED <<repair_requests, published, repair, copyMark>>
    BY DEF WorkerCompletes, Valid, Owned, evidenceVars
  <1>3. \A g \in Families :
           verification_id'[g] = IF g = f THEN 0 ELSE verification_id[g]
    BY <1>1 DEF DropEpoch
  <1>4. PICK owed : /\ owed = Rest(f) \/ owed = AtLeast(Rest(f), 1)
                    /\ remaining' = [remaining EXCEPT ![f] = owed]
    BY <1>1 DEF CompleteRow
  <1>5. /\ owed >= remaining[f] \/ (clean[f] /\ owed >= remaining[f] - 1)
        /\ owed \in Nat
    BY <1>0, <1>4 DEF Rest, AtLeast
  <1>6. \E s \in {"queued", "idle"} : state' = [state EXCEPT ![f] = s]
    BY <1>1 DEF CompleteRow
  <1>7. fresh' = [fresh EXCEPT ![f] =
                    IF clean[f] /\ verification_id[f] > copyMark[f] /\ fresh[f] < 2
                    THEN fresh[f] + 1 ELSE fresh[f]]
    BY <1>1 DEF CompleteRow
  <1>8. \A g \in Families : state'[g] = "repairing" <=> state[g] = "repairing"
    BY <1>0, <1>2, <1>6
  <1>9. RepairIsOwn'
    BY <1>0, <1>2, <1>8 DEF CopyInv, RepairIsOwn, Reports, RequestTypes
  <1>10. fresh'[f] + remaining'[f] >= 2
    <2>1. fresh[f] + remaining[f] >= 2 /\ verification_id[f] > copyMark[f]
      BY <1>1 DEF CopyInv, EvidenceIsFresh
    <2>2. owed >= 0
      BY <1>0, <1>4 DEF Rest, AtLeast
    <2> QED BY <1>0, <1>4, <1>5, <1>7, <2>1, <2>2
  <1>11. EvidenceIsFresh'
    <2> SUFFICES ASSUME NEW g \in Families
                 PROVE  /\ state'[g] = "repairing" =>
                              verification_id'[g] = 0 /\ remaining'[g] >= 2
                        /\ copyMark'[g] <= issued'
                        /\ verification_id'[g] # 0 => verification_id'[g] > copyMark'[g]
                        /\ fresh'[g] + remaining'[g] >= 2
      BY DEF EvidenceIsFresh
    <2>1. CASE g = f
      BY <1>0, <1>1, <1>2, <1>3, <1>8, <1>10, <2>1 DEF CopyInv, EvidenceIsFresh
    <2>2. CASE g # f
      <3>1. remaining'[g] = remaining[g] /\ fresh'[g] = fresh[g]
        BY <1>0, <1>4, <1>7, <2>2
      <3> QED BY <1>0, <1>1, <1>2, <1>3, <1>8, <2>2, <3>1 DEF CopyInv, EvidenceIsFresh
    <2> QED BY <2>1, <2>2
  <1> QED BY <1>9, <1>11 DEF CopyInv

LEMMA RebootCopyStep ==
    ASSUME TypeOK, CopyInv, Reboots
    PROVE  CopyInv'
  <1>1. /\ repair' = NoRepair
        /\ UNCHANGED <<rowVars, repair_requests, published, fresh, issued>>
        /\ copyMark' = [f \in Families |-> IF repair.pc = "copy" /\ repair.job = f
                                           THEN issued ELSE copyMark[f]]
    BY DEF Reboots
  <1>2. \A f \in Families : repair.pc = "copy" /\ repair.job = f => verification_id[f] = 0
    BY DEF CopyInv, RepairIsOwn, EvidenceIsFresh, Reports
  <1>3. repair'.pc = "off"
    BY <1>1 DEF NoRepair
  <1>4. RepairIsOwn'
    BY <1>1, <1>3 DEF CopyInv, RepairIsOwn, rowVars
  <1>5. EvidenceIsFresh'
    BY <1>1, <1>2 DEF CopyInv, EvidenceIsFresh, rowVars, TypeOK, HistoryOK
  <1> QED BY <1>4, <1>5 DEF CopyInv

LEMMA CopyStep ==
    ASSUME TypeOK, TypeOK', RequestInv, FenceInv, EpochsAreOwn, CheckpointsKeepGeneration,
           CopyInv, "source" \notin Disturbances, [Next]_vars
    PROVE  CopyInv'
  <1>1. LatestStays
    BY OnlyWorkersPublish DEF LatestStays
  <1>2. UNCHANGED vars => Aside
    BY DEF vars, rowVars, historyVars, Aside, TypeOK, RowsOK
  <1>3. CASE Aside
    BY <1>1, <1>3, AsideKeepsCopies
  <1> QED BY <1>2, <1>3, CoordinatorAside, WorkerAside, OperatorAside, EnvironmentAside,
        RepairCopyStep, ClaimCopyStep, CompleteCopyStep, RebootCopyStep
        DEF Next

LEMMA CopiesHold == ASSUME "source" \notin Disturbances PROVE Spec => []CopyInv
  <1>1. Init => CopyInv
    BY DEF Init, CopyInv, RepairIsOwn, EvidenceIsFresh, NoRepair
  <1>2. /\ TypeOK /\ RequestInv /\ FenceInv /\ EpochsAreOwn /\ CheckpointsKeepGeneration
        /\ TypeOK' /\ CopyInv /\ [Next]_vars
        => CopyInv'
    BY CopyStep
  <1> QED BY <1>1, <1>2, InvariantsHold, CheckpointGenerations, PTL DEF Spec

(***************************************************************************)
(* While rclone rewrites a family's files no observation of it runs: the   *)
(* request that started the copy keeps the row repairing.  This and the    *)
(* next three assume that no source fault requeues the row meanwhile.      *)
(***************************************************************************)
THEOREM CopiesExclude ==
    ASSUME "source" \notin Disturbances
    PROVE  Spec => []CopyExcludesObservation
  <1>1. CopyInv => CopyExcludesObservation
    BY DEF CopyInv, RepairIsOwn, Reports, CopyExcludesObservation
  <1> QED BY <1>1, CopiesHold, PTL

(***************************************************************************)
(* A copy is made from the evidence that is latest as long as it lasts.    *)
(***************************************************************************)
THEOREM CopiesMatch ==
    ASSUME "source" \notin Disturbances
    PROVE  Spec => []CopyMatchesLatest
  <1>1. CopyInv => CopyMatchesLatest
    BY DEF CopyInv, RepairIsOwn, Reports, CopyMatchesLatest
  <1> QED BY <1>1, CopiesHold, PTL

(***************************************************************************)
(* A copied family owes two clean observations that began after the copy.  *)
(***************************************************************************)
THEOREM CopiesAreConfirmed ==
    ASSUME "source" \notin Disturbances
    PROVE  Spec => []TwoFreshConfirmations
  <1>1. CopyInv => TwoFreshConfirmations
    BY DEF CopyInv, EvidenceIsFresh, TwoFreshConfirmations
  <1> QED BY <1>1, CopiesHold, PTL

(***************************************************************************)
(* latest never moves to evidence that was collected across a copy.        *)
(***************************************************************************)
THEOREM PublishedUncopied ==
    ASSUME "source" \notin Disturbances
    PROVE  Spec => PublishedEvidenceIsUncopied
  <1>1. TypeOK /\ FenceInv /\ CheckpointsKeepGeneration /\ CopyInv /\ [Next]_vars =>
          [\A f \in Families :
             published'[f] # published[f] => published'[f] > copyMark[f]]_vars
    BY OnlyWorkersPublish DEF CopyInv, EvidenceIsFresh
  <1> QED BY <1>1, InvariantsHold, CheckpointGenerations, CopiesHold, PTL
        DEF Spec, PublishedEvidenceIsUncopied

=============================================================================

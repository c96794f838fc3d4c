------------------------ MODULE RecoveryQueueProofs ------------------------
(***************************************************************************)
(* What holds of the recovery queue for every catalogue, every set of      *)
(* disturbances and every bound.                                           *)
(***************************************************************************)
EXTENDS RecoveryQueue, TLAPS

(***************************************************************************)
(* Type correctness.                                                       *)
(***************************************************************************)
LEMMA KeepEpochsType == ASSUME RowsOK, KeepEpochs
    PROVE /\ verification_id' \in [Families -> Nat]
          /\ expired' \in [Families -> BOOLEAN]
          /\ reconfigured' \in [Families -> BOOLEAN]
          /\ startedAudit' \in [Families -> Nat]
  BY DEF RowsOK, KeepEpochs

LEMMA DropEpochType == ASSUME RowsOK, NEW S, DropEpoch(S)
    PROVE /\ verification_id' \in [Families -> Nat]
          /\ expired' \in [Families -> BOOLEAN]
          /\ reconfigured' \in [Families -> BOOLEAN]
          /\ startedAudit' \in [Families -> Nat]
  <1>1. verification_id' \in [Families -> Nat]
    BY DEF RowsOK, DropEpoch
  <1>2. startedAudit' \in [Families -> Nat]
    BY DEF RowsOK, DropEpoch
  <1>3. expired' \in [Families -> BOOLEAN]
    BY Zenon DEF RowsOK, DropEpoch
  <1>4. reconfigured' \in [Families -> BOOLEAN]
    BY Zenon DEF RowsOK, DropEpoch
  <1> QED BY <1>1, <1>2, <1>3, <1>4

LEMMA EnqueueType == ASSUME RowsOK, NEW S, NEW c \in Nat, Enqueue(S, c)
    PROVE RowsOK'
  <1>1. state' \in [Families -> States]
    BY DEF RowsOK, Enqueue, States
  <1>2. remaining' \in [Families -> Nat]
    BY DEF RowsOK, Enqueue, AtLeast
  <1> QED BY <1>1, <1>2, KeepEpochsType DEF RowsOK, Enqueue

LEMMA FailRowType == ASSUME RowsOK, NEW f \in Families, NEW c, FailRow(f, c)
    PROVE RowsOK'
  <1>1. state' \in [Families -> States]
    BY DEF RowsOK, FailRow, States
  <1>2. sourceError' \in [Families -> SourceErrors \cup {NoError}]
    BY DEF RowsOK, FailRow
  <1>3. cooling' \in [Families -> BOOLEAN]
    BY DEF RowsOK, FailRow
  <1> QED BY <1>1, <1>2, <1>3, KeepEpochsType, DropEpochType DEF RowsOK, FailRow

LEMMA FaultRowType ==
    ASSUME RowsOK, NEW f \in Families, NEW e \in SourceErrors, FaultRow(f, e)
    PROVE RowsOK'
  <1>1. /\ state' \in [Families -> States]
        /\ generation' \in [Families -> Nat]
        /\ cooling' \in [Families -> BOOLEAN]
        /\ sourceError' \in [Families -> SourceErrors \cup {NoError}]
    BY DEF RowsOK, FaultRow, States
  <1>2. remaining' \in [Families -> Nat]
    BY DEF RowsOK, FaultRow, AtLeast, RepairConfirmations
  <1> QED BY <1>1, <1>2, DropEpochType DEF RowsOK, FaultRow

LEMMA InvalidateType ==
    ASSUME RowsOK, repair_requests \subseteq RequestTypes, NEW f \in Families,
           NEW k \in {"report", "manual"}, NEW id \in Nat, Invalidate(f, k, id)
    PROVE RowsOK' /\ repair_requests' \subseteq RequestTypes
  <1>1. /\ state' \in [Families -> States]
        /\ generation' \in [Families -> Nat]
        /\ remaining' \in [Families -> Nat]
    BY DEF RowsOK, Invalidate, States, RepairConfirmations
  <1>2. generation[f] + 1 \in Nat
    BY DEF RowsOK
  <1>3. [job |-> f, kind |-> k, epoch |-> id, generation |-> generation[f] + 1,
         completed |-> FALSE] \in RequestTypes
    BY <1>2 DEF RequestTypes
  <1>4. repair_requests' \subseteq RequestTypes
    BY <1>3 DEF Invalidate
  <1> QED BY <1>1, <1>4, DropEpochType DEF RowsOK, Invalidate

LEMMA FinishType ==
    ASSUME RowsOK, repair_requests \subseteq RequestTypes, NEW f \in Families,
           NEW R \in SUBSET repair_requests, Finish(f, R)
    PROVE RowsOK' /\ repair_requests' \subseteq RequestTypes
  <1>1. /\ state' \in [Families -> States]
        /\ remaining' \in [Families -> Nat]
        /\ cooling' \in [Families -> BOOLEAN]
    <2>1. CASE OwnsRow(f, R)
      <3>1. /\ state' = [state EXCEPT ![f] = "queued"]
            /\ remaining' = [remaining EXCEPT ![f] = RepairConfirmations]
            /\ cooling' = [cooling EXCEPT ![f] = FALSE]
        BY <2>1, Zenon DEF Finish
      <3> QED BY <3>1 DEF RowsOK, States, RepairConfirmations
    <2>2. CASE ~OwnsRow(f, R)
      <3>1. UNCHANGED <<state, remaining, cooling>>
        BY <2>2, Zenon DEF Finish
      <3> QED BY <3>1 DEF RowsOK
    <2> QED BY <2>1, <2>2
  <1>2. \A r \in R : [r EXCEPT !.completed = TRUE] \in RequestTypes
    BY DEF RequestTypes
  <1>3. repair_requests' \subseteq RequestTypes
    BY <1>2 DEF Finish
  <1> QED BY <1>1, <1>3, KeepEpochsType DEF RowsOK, Finish

LEMMA NextLaneType ==
    ASSUME NEW lane \in {"raw", "products"}
    PROVE NextLane(lane) \in [pc : {"idle", "seed", "daily", "recover", "raw",
                                    "products", "failed"},
                              need : SUBSET Families,
                              job : Families \cup {NoFamily}, generation : Nat]
  BY DEF NextLane, IdleTick

LEMMA ProceedType ==
    ASSUME RepairOK, NEW f \in Families, Proceed(f),
           repairStarted' \in BOOLEAN
    PROVE RepairOK'
  BY DEF RepairOK, Proceed

LEMMA StopType ==
    ASSUME WorkersOK, RepairOK, NEW f \in Families, Stop(f)
    PROVE WorkersOK' /\ repairStarted' \in BOOLEAN
  <1>1. NoEpoch \in Epochs
    BY DEF NoEpoch, Epochs
  <1>2. WorkersOK'
    BY <1>1 DEF WorkersOK, Stop
  <1>3. repairStarted' \in BOOLEAN
    BY Zenon DEF RepairOK, Stop, StartRepair
  <1> QED BY <1>2, <1>3

LEMMA InitType == Init => TypeOK
  <1> SUFFICES ASSUME Init PROVE TypeOK
    OBVIOUS
  <1>1. RowsOK
    BY DEF Init, RowsOK, States
  <1>2. AuditsOK /\ EvidenceOK /\ HistoryOK
    BY DEF Init, AuditsOK, EvidenceOK, HistoryOK
  <1>3. WorkersOK
    BY DEF Init, WorkersOK, NoEpoch, Epochs
  <1>4. TickOK /\ RepairOK
    BY DEF Init, TickOK, RepairOK, IdleTick, NoRepair
  <1> QED BY <1>1, <1>2, <1>3, <1>4 DEF Init, TypeOK, RequestTypes

LEMMA CoordinatorType == TypeOK /\ Coordinator => TypeOK'
  <1> SUFFICES ASSUME TypeOK, Coordinator PROVE TypeOK'
    OBVIOUS
  <1> USE DEF TypeOK
  <1>1. CASE TickRead
    BY <1>1 DEF TickRead, TickOK, Unstable, Calm, rowVars, auditVars,
         evidenceVars, historyVars, RowsOK, AuditsOK, EvidenceOK, WorkersOK,
         RepairOK, HistoryOK
  <1>2. ASSUME NEW old \in SUBSET Families, TickSeed(old) PROVE TypeOK'
    <2>1. RowsOK'
      <3> DEFINE due == {f \in tick.need \cup old : state[f] = "idle"}
      <3>1. Enqueue(due, 1)
        BY <1>2 DEF TickSeed
      <3> HIDE DEF due
      <3> QED BY <3>1, EnqueueType
    <2>2. TickOK'
      <3>1. tick' = [tick EXCEPT !.pc = "daily", !.need = {}]
        BY <1>2, Zenon DEF TickSeed
      <3> QED BY <3>1 DEF TickOK
    <2>3. disturbed' \in Nat
      <3>1. Calm \/ Disturb("refresh")
        BY <1>2, Zenon DEF TickSeed
      <3> QED BY <3>1 DEF Calm, Disturb
    <2> QED BY <1>2, <2>1, <2>2, <2>3 DEF TickSeed, auditVars, evidenceVars,
         historyVars, AuditsOK, EvidenceOK, WorkersOK, RepairOK, HistoryOK
  <1>3. ASSUME NEW due \in BOOLEAN, TickDaily(due) PROVE TypeOK'
    <2>1. RowsOK'
      <3>1. CASE due
        BY <1>3, <3>1, EnqueueType DEF TickDaily
      <3>2. CASE ~due
        BY <1>3, <3>2 DEF TickDaily, rowVars, RowsOK
      <3> QED BY <3>1, <3>2
    <2>2. TickOK' /\ AuditsOK'
      BY <1>3 DEF TickDaily, TickOK, AuditsOK
    <2> QED BY <1>3, <2>1, <2>2 DEF TickDaily, Calm, evidenceVars,
         historyVars, EvidenceOK, WorkersOK, RepairOK, HistoryOK
  <1>4. ASSUME NEW late \in SUBSET LateLaunches, TickRecover(late) PROVE TypeOK'
    <2>1. state' \in [Families -> States]
      BY <1>4 DEF TickRecover, RowsOK, States
    <2>2. cooling' \in [Families -> BOOLEAN]
      BY <1>4, Zenon DEF TickRecover, RowsOK
    <2>3. RowsOK'
      BY <1>4, <2>1, <2>2, KeepEpochsType DEF TickRecover, RowsOK
    <2>4. repairStarted' \in BOOLEAN
      BY <1>4, Zenon DEF TickRecover, StartRepair, RepairOK
    <2>5. TickOK'
      BY <1>4 DEF TickRecover, TickOK
    <2> QED BY <1>4, <2>3, <2>4, <2>5 DEF TickRecover, Calm, auditVars,
         evidenceVars, historyVars, AuditsOK, EvidenceOK, WorkersOK, RepairOK,
         HistoryOK
  <1>5. ASSUME NEW lane \in {"raw", "products"}, TickSkip(lane) PROVE TypeOK'
    BY <1>5, NextLaneType DEF TickSkip, TickOK, Calm, rowVars, auditVars,
         evidenceVars, historyVars, RowsOK, AuditsOK, EvidenceOK, WorkersOK,
         RepairOK, HistoryOK
  <1>6. ASSUME NEW lane \in {"raw", "products"}, NEW f \in Families,
               NEW started \in BOOLEAN, TickLaunch(lane, f, started)
        PROVE TypeOK'
    <2>1. state' \in [Families -> States]
      BY <1>6 DEF TickLaunch, RowsOK, States
    <2>2. RowsOK'
      BY <1>6, <2>1, KeepEpochsType DEF TickLaunch, RowsOK
    <2>3. WorkersOK'
      BY <1>6 DEF TickLaunch, WorkersOK
    <2>4. TickOK'
      BY <1>6, NextLaneType, ZenonT(40) DEF TickLaunch, TickOK, RowsOK
    <2>5. disturbed' \in Nat
      BY <1>6 DEF TickLaunch, Calm, Disturb
    <2> QED BY <1>6, <2>2, <2>3, <2>4, <2>5 DEF TickLaunch, auditVars,
         evidenceVars, historyVars, AuditsOK, EvidenceOK, RepairOK, HistoryOK
  <1>7. CASE TickLaunchFailed
    <2> DEFINE f == tick.job
               back == state[f] = "launching" /\ generation[f] = tick.generation
    <2>1. state' \in [Families -> States]
      BY <1>7 DEF TickLaunchFailed, RowsOK, States
    <2>2. cooling' \in [Families -> BOOLEAN]
      <3>1. cooling' = [cooling EXCEPT ![f] = back \/ @]
        BY <1>7 DEF TickLaunchFailed
      <3>2. back \in BOOLEAN /\ (back \/ cooling[f]) \in BOOLEAN
        OBVIOUS
      <3> QED BY <3>1, <3>2 DEF RowsOK
    <2>3. RowsOK'
      BY <1>7, <2>1, <2>2, KeepEpochsType DEF TickLaunchFailed, RowsOK
    <2>4. TickOK'
      BY <1>7, NextLaneType DEF TickLaunchFailed, TickOK, Lane
    <2> QED BY <1>7, <2>3, <2>4 DEF TickLaunchFailed, Calm, auditVars,
         evidenceVars, historyVars, AuditsOK, EvidenceOK, WorkersOK, RepairOK,
         HistoryOK
  <1> QED BY <1>1, <1>2, <1>3, <1>4, <1>5, <1>6, <1>7 DEF Coordinator

LEMMA WorkerType ==
    ASSUME TypeOK, NEW f \in Families, Worker(f)
    PROVE TypeOK'
  <1> USE DEF TypeOK
  <1>1. CASE WorkerReturns(f)
    BY <1>1, StopType DEF WorkerReturns, Calm, rowVars, auditVars,
         evidenceVars, historyVars, RowsOK, AuditsOK, EvidenceOK, TickOK,
         RepairOK, HistoryOK
  <1>2. CASE WorkerClaims(f)
    <2> DEFINE vid == IF Resumable(f) THEN verification_id[f] ELSE issued + 1
    <2>1. vid \in Nat
      BY DEF RowsOK
    <2>2. verification_id' = [verification_id EXCEPT ![f] = vid]
      BY <1>2 DEF WorkerClaims
    <2>3. epoch' = [epoch EXCEPT ![f] = [generation |-> generation[f],
                      verification_id |-> vid, stable |-> FALSE]]
      BY <1>2 DEF WorkerClaims
    <2> HIDE DEF vid
    <2>4. RowsOK'
      BY <1>2, <2>1, <2>2 DEF WorkerClaims, RowsOK, AuditsOK, States
    <2>5. [generation |-> generation[f], verification_id |-> vid,
           stable |-> FALSE] \in Epochs
      BY <2>1 DEF RowsOK, Epochs
    <2>6. WorkersOK'
      BY <1>2, <2>3, <2>5 DEF WorkerClaims, WorkersOK, Holding
    <2>7. issued' \in Nat /\ HistoryOK'
      BY <1>2 DEF WorkerClaims, HistoryOK, RowsOK
    <2> QED BY <1>2, <2>4, <2>6, <2>7 DEF WorkerClaims, Calm, auditVars,
         evidenceVars, AuditsOK, EvidenceOK, TickOK, RepairOK
  <1>3. ASSUME NEW category \in Categories, WorkerFails(f, category)
        PROVE TypeOK'
    BY <1>3, FailRowType, StopType DEF WorkerFails, Disturb, auditVars,
         evidenceVars, historyVars, AuditsOK, EvidenceOK, TickOK, RepairOK,
         HistoryOK
  <1>4. CASE WorkerInvalid(f)
    <2>1. RowsOK'
      <3>1. CASE Owned(f)
        BY <1>4, <3>1, FailRowType DEF WorkerInvalid
      <3>2. CASE ~Owned(f)
        BY <1>4, <3>2 DEF WorkerInvalid, rowVars, RowsOK
      <3> QED BY <3>1, <3>2
    <2> QED BY <1>4, <2>1, StopType DEF WorkerInvalid, Calm, auditVars,
         evidenceVars, historyVars, AuditsOK, EvidenceOK, TickOK, RepairOK,
         HistoryOK
  <1>5. CASE WorkerDefers(f)
    <2>1. state' \in [Families -> States] /\ cooling' \in [Families -> BOOLEAN]
      <3>1. CASE Owned(f)
        BY <1>5, <3>1 DEF WorkerDefers, RowsOK, States
      <3>2. CASE ~Owned(f)
        BY <1>5, <3>2 DEF WorkerDefers, RowsOK
      <3> QED BY <3>1, <3>2
    <2>2. RowsOK'
      BY <1>5, <2>1, KeepEpochsType DEF WorkerDefers, RowsOK
    <2>3. disturbed' \in Nat
      BY <1>5 DEF WorkerDefers, Disturb, Calm
    <2> QED BY <1>5, <2>2, <2>3, StopType DEF WorkerDefers, auditVars,
         evidenceVars, historyVars, AuditsOK, EvidenceOK, TickOK, RepairOK,
         HistoryOK
  <1>6. CASE WorkerLocks(f)
    BY <1>6 DEF WorkerLocks, Holding, Calm, rowVars, auditVars, historyVars,
         RowsOK, AuditsOK, EvidenceOK, WorkersOK, TickOK, RepairOK, HistoryOK
  <1>7. ASSUME NEW isClean \in BOOLEAN, WorkerPublishes(f, isClean)
        PROVE TypeOK'
    <2>1. published' \in [Families -> Nat] /\ streak' \in [Families -> Nat]
      BY <1>7 DEF WorkerPublishes, EvidenceOK, WorkersOK, Epochs
    <2>2. clean' \in [Families -> BOOLEAN] /\ commitLock' = NoFamily
      BY <1>7 DEF WorkerPublishes, EvidenceOK
    <2>3. EvidenceOK'
      BY <2>1, <2>2 DEF EvidenceOK
    <2>4. epoch' \in [Families -> Epochs]
      BY <1>7 DEF WorkerPublishes, WorkersOK, Epochs
    <2>5. WorkersOK'
      BY <1>7, <2>4 DEF WorkerPublishes, WorkersOK, Holding
    <2>6. repairStarted' \in BOOLEAN
      BY <1>7, Zenon DEF WorkerPublishes, StartRepair, RepairOK
    <2>7. disturbed' \in Nat
      BY <1>7 DEF WorkerPublishes, Calm, Disturb
    <2> QED BY <1>7, <2>3, <2>5, <2>6, <2>7 DEF WorkerPublishes, rowVars,
         auditVars, historyVars, RowsOK, AuditsOK, TickOK, RepairOK, HistoryOK
  <1>8. CASE WorkerCompletes(f)
    <2>1. CASE epoch[f].verification_id \in observations
      BY <1>8, <2>1, StopType DEF WorkerCompletes, Calm, rowVars,
         evidenceVars, RowsOK, AuditsOK, EvidenceOK, TickOK, RepairOK, HistoryOK
    <2>2. CASE epoch[f].verification_id \notin observations
      <3>1. CompleteRow(f) /\ DropEpoch({f}) /\ UNCHANGED generation
        BY <1>8, <2>2 DEF WorkerCompletes
      <3>2. epoch[f].verification_id \in Nat
        BY DEF WorkersOK, Epochs
      <3>3. Rest(f) \in Nat
        BY DEF Rest, RowsOK
      <3>4. /\ remaining' \in [Families -> Nat]
            /\ state' \in [Families -> States]
            /\ lastEvidence' \in [Families -> Nat]
            /\ sourceError' \in [Families -> SourceErrors \cup {NoError}]
        BY <3>1, <3>2, <3>3 DEF CompleteRow, RowsOK, States, AtLeast
      <3>5. cooling' \in [Families -> BOOLEAN]
        BY <3>1 DEF CompleteRow, RowsOK
      <3>6. RowsOK'
        BY <3>1, <3>4, <3>5, DropEpochType DEF RowsOK
      <3>7. fresh' \in [Families -> Nat]
        BY <3>1 DEF CompleteRow, HistoryOK
      <3>8. Credited(f) \subseteq Nat
        BY DEF Credited, Uncredited, AuditsOK
      <3>9. daily_jobs' \subseteq CreditTypes
        BY <3>1, <3>2, <3>8 DEF CompleteRow, AuditsOK, CreditTypes
      <3>10. observations' \subseteq Nat
        BY <3>1, <3>2 DEF CompleteRow, AuditsOK
      <3> QED BY <1>8, <3>6, <3>7, <3>9, <3>10, StopType DEF WorkerCompletes,
           Calm, evidenceVars, AuditsOK, EvidenceOK, TickOK, RepairOK, HistoryOK
    <2> QED BY <2>1, <2>2
  <1>9. CASE WorkerCrashes(f)
    BY <1>9, StopType DEF WorkerCrashes, Disturb, rowVars, auditVars,
         historyVars, RowsOK, AuditsOK, EvidenceOK, TickOK, RepairOK, HistoryOK
  <1> QED BY <1>1, <1>2, <1>3, <1>4, <1>5, <1>6, <1>7, <1>8, <1>9 DEF Worker

LEMMA RepairType == TypeOK /\ Repair => TypeOK'
  <1> SUFFICES ASSUME TypeOK, Repair PROVE TypeOK'
    OBVIOUS
  <1> USE DEF TypeOK
  <1>0. /\ NoRepair \in [pc : {"off", "scan", "copy", "fault"},
                         job : Families \cup {NoFamily},
                         todo : SUBSET Families, dirty : SUBSET Families,
                         identity : [Families -> Nat]]
        /\ \A f \in Families : Reports(f) \subseteq repair_requests
        /\ \A f \in Families : Pending(f) \subseteq repair_requests
    BY DEF NoRepair, Reports, Pending
  <1>1. CASE RepairStarts
    BY <1>1 DEF RepairStarts, Calm, rowVars, auditVars, evidenceVars,
         historyVars, RowsOK, AuditsOK, EvidenceOK, WorkersOK, TickOK, RepairOK,
         HistoryOK
  <1>2. ASSUME NEW f \in Families, NEW error \in SourceErrors,
               RepairMeetsFault(f, error)
        PROVE TypeOK'
    <2>1. RowsOK'
      <3>1. CASE Current(f) /\ sourceError[f] # error
        BY <1>2, <3>1, FaultRowType DEF RepairMeetsFault
      <3>2. CASE ~(Current(f) /\ sourceError[f] # error)
        BY <1>2, <3>2 DEF RepairMeetsFault, rowVars, RowsOK
      <3> QED BY <3>1, <3>2
    <2>2. RepairOK'
      BY <1>2, ProceedType DEF RepairMeetsFault, RepairOK
    <2> QED BY <1>2, <2>1, <2>2 DEF RepairMeetsFault, Disturb, auditVars,
         evidenceVars, historyVars, AuditsOK, EvidenceOK, WorkersOK, TickOK,
         HistoryOK
  <1>3. ASSUME NEW f \in Families, NEW error \in SourceErrors,
               RepairFaults(f, error)
        PROVE TypeOK'
    <2> DEFINE accepted == /\ Current(f) /\ state[f] = "repairing"
                           /\ \E r \in Reports(f) :
                                ~r.completed /\ r.generation = generation[f]
    <2>0. IF accepted
          THEN FaultRow(f, error) /\ repair' = [repair EXCEPT !.pc = "fault"]
          ELSE UNCHANGED rowVars /\ Proceed(f)
      BY <1>3 DEF RepairFaults
    <2> HIDE DEF accepted
    <2>1. RowsOK'
      BY <2>0, FaultRowType DEF rowVars, RowsOK
    <2>2. RepairOK'
      BY <1>3, <2>0, ProceedType DEF RepairFaults, RepairOK
    <2> QED BY <1>3, <2>1, <2>2 DEF RepairFaults, Disturb, auditVars,
         evidenceVars, historyVars, AuditsOK, EvidenceOK, WorkersOK, TickOK,
         HistoryOK
  <1>4. ASSUME NEW f \in Families, RepairFindsNothing(f) PROVE TypeOK'
    <2>1. RowsOK' /\ repair_requests' \subseteq RequestTypes
      BY <1>4, <1>0, FinishType DEF RepairFindsNothing
    <2>2. RepairOK'
      BY <1>4, ProceedType DEF RepairFindsNothing, RepairOK
    <2> QED BY <1>4, <2>1, <2>2 DEF RepairFindsNothing, Calm, auditVars,
         evidenceVars, historyVars, AuditsOK, EvidenceOK, WorkersOK, TickOK,
         HistoryOK
  <1>5. ASSUME NEW f \in Families, RepairSkips(f) PROVE TypeOK'
    <2>1. RepairOK'
      BY <1>5, ProceedType DEF RepairSkips, RepairOK
    <2> QED BY <1>5, <2>1 DEF RepairSkips, Calm, rowVars, auditVars,
         evidenceVars, historyVars, RowsOK, AuditsOK, EvidenceOK, WorkersOK,
         TickOK, HistoryOK
  <1>6. ASSUME NEW f \in Families, RepairCopies(f) PROVE TypeOK'
    <2>1. RowsOK' /\ repair_requests' \subseteq RequestTypes
      <3>1. CASE Reports(f) = {}
        <4>1. repair.identity[f] \in Nat
          BY DEF RepairOK
        <4> QED BY <1>6, <3>1, <4>1, InvalidateType DEF RepairCopies
      <3>2. CASE Reports(f) # {}
        BY <1>6, <3>2 DEF RepairCopies, rowVars, RowsOK
      <3> QED BY <3>1, <3>2
    <2>2. RepairOK'
      BY <1>6 DEF RepairCopies, RepairOK
    <2>3. HistoryOK'
      BY <1>6 DEF RepairCopies, HistoryOK
    <2> QED BY <1>6, <2>1, <2>2, <2>3 DEF RepairCopies, Calm, auditVars,
         evidenceVars, AuditsOK, EvidenceOK, WorkersOK, TickOK
  <1>7. ASSUME NEW f \in Families, NEW goesOn \in BOOLEAN,
               RepairCopied(f, goesOn)
        PROVE TypeOK'
    <2>0. Finish(f, {r \in Reports(f) : ~r.completed})
      BY <1>7 DEF RepairCopied
    <2>1. RowsOK' /\ repair_requests' \subseteq RequestTypes
      <3> DEFINE R == {r \in Reports(f) : ~r.completed}
      <3>1. R \in SUBSET repair_requests
        BY <1>0
      <3> HIDE DEF R
      <3> QED BY <2>0, <3>1, FinishType DEF R
    <2>2. RepairOK'
      BY <1>7, <1>0, ProceedType DEF RepairCopied, RepairOK
    <2>3. HistoryOK'
      BY <1>7 DEF RepairCopied, HistoryOK
    <2> QED BY <1>7, <2>1, <2>2, <2>3 DEF RepairCopied, Calm, auditVars,
         evidenceVars, AuditsOK, EvidenceOK, WorkersOK, TickOK
  <1>8. ASSUME NEW f \in Families, RepairEndsFault(f) PROVE TypeOK'
    <2>0. Finish(f, {r \in Reports(f) : ~r.completed})
      BY <1>8 DEF RepairEndsFault
    <2>1. RowsOK' /\ repair_requests' \subseteq RequestTypes
      <3> DEFINE R == {r \in Reports(f) : ~r.completed}
      <3>1. R \in SUBSET repair_requests
        BY <1>0
      <3> HIDE DEF R
      <3> QED BY <2>0, <3>1, FinishType DEF R
    <2>2. RepairOK'
      BY <1>8, ProceedType DEF RepairEndsFault, RepairOK
    <2> QED BY <1>8, <2>1, <2>2 DEF RepairEndsFault, Calm, auditVars,
         evidenceVars, historyVars, AuditsOK, EvidenceOK, WorkersOK, TickOK,
         HistoryOK
  <1>9. CASE RepairEnds
    BY <1>9, <1>0 DEF RepairEnds, Calm, rowVars, auditVars, evidenceVars,
         historyVars, RowsOK, AuditsOK, EvidenceOK, WorkersOK, TickOK, RepairOK,
         HistoryOK
  <1>10. CASE RepairCrashes
    BY <1>10, <1>0 DEF RepairCrashes, Disturb, rowVars, auditVars, evidenceVars,
         RowsOK, AuditsOK, EvidenceOK, WorkersOK, TickOK, RepairOK, HistoryOK
  <1> QED BY <1>1, <1>2, <1>3, <1>4, <1>5, <1>6, <1>7, <1>8, <1>9, <1>10
        DEF Repair

LEMMA OperatorType == TypeOK /\ Operator => TypeOK'
  <1> SUFFICES ASSUME TypeOK, NEW f \in Families,
                      \/ \E confirmations \in 1..2 :
                           OperatorEnqueue(f, confirmations)
                      \/ OperatorInvalidate(f)
                      \/ OperatorRetry(f)
                      \/ OperatorResumes(f)
               PROVE TypeOK'
    BY DEF Operator
  <1> USE DEF TypeOK
  <1>1. ASSUME NEW c \in 1..2, OperatorEnqueue(f, c) PROVE TypeOK'
    <2>1. RowsOK'
      BY <1>1, EnqueueType DEF OperatorEnqueue
    <2> QED BY <1>1, <2>1 DEF OperatorEnqueue, Disturb, auditVars,
         evidenceVars, historyVars, AuditsOK, EvidenceOK, WorkersOK, TickOK,
         RepairOK, HistoryOK
  <1>2. CASE OperatorInvalidate(f)
    BY <1>2, InvalidateType DEF OperatorInvalidate, Disturb, auditVars,
         evidenceVars, historyVars, AuditsOK, EvidenceOK, WorkersOK, TickOK,
         RepairOK, HistoryOK
  <1>3. CASE OperatorRetry(f)
    <2>1. /\ state' \in [Families -> States]
          /\ generation' \in [Families -> Nat]
          /\ remaining' \in [Families -> Nat]
          /\ cooling' \in [Families -> BOOLEAN]
      BY <1>3 DEF OperatorRetry, RowsOK, States, AtLeast
    <2>2. RowsOK'
      BY <1>3, <2>1, DropEpochType DEF OperatorRetry, RowsOK
    <2> QED BY <1>3, <2>2 DEF OperatorRetry, Disturb, auditVars,
         evidenceVars, historyVars, AuditsOK, EvidenceOK, WorkersOK, TickOK,
         RepairOK, HistoryOK
  <1>4. CASE OperatorResumes(f)
    <2>1. /\ state' \in [Families -> States]
          /\ remaining' \in [Families -> Nat]
          /\ cooling' \in [Families -> BOOLEAN]
      BY <1>4 DEF OperatorResumes, RowsOK, States, AtLeast
    <2>2. RowsOK'
      BY <1>4, <2>1, KeepEpochsType DEF OperatorResumes, RowsOK
    <2> QED BY <1>4, <2>2 DEF OperatorResumes, Disturb, auditVars,
         evidenceVars, historyVars, AuditsOK, EvidenceOK, WorkersOK, TickOK,
         RepairOK, HistoryOK
  <1> QED BY <1>1, <1>2, <1>3, <1>4

LEMMA EnvironmentType == TypeOK /\ Environment => TypeOK'
  <1> SUFFICES ASSUME TypeOK, Environment PROVE TypeOK'
    OBVIOUS
  <1> USE DEF TypeOK
  <1>1. ASSUME NEW f \in Families, CoolsDown(f) PROVE TypeOK'
    <2>1. RowsOK'
      BY <1>1, KeepEpochsType DEF CoolsDown, RowsOK
    <2> QED BY <1>1, <2>1 DEF CoolsDown, Calm, auditVars, evidenceVars,
         historyVars, AuditsOK, EvidenceOK, WorkersOK, TickOK, RepairOK,
         HistoryOK
  <1>2. ASSUME NEW f \in Families, Expires(f) PROVE TypeOK'
    BY <1>2 DEF Expires, Disturb, auditVars, evidenceVars, historyVars, RowsOK,
         AuditsOK, EvidenceOK, WorkersOK, TickOK, RepairOK, HistoryOK
  <1>3. ASSUME NEW f \in Families, GateAges(f) PROVE TypeOK'
    <2>1. streak' \in [Families -> Nat]
      BY <1>3 DEF GateAges, EvidenceOK
    <2> QED BY <1>3, <2>1 DEF GateAges, Disturb, rowVars, auditVars,
         historyVars, RowsOK, AuditsOK, EvidenceOK, WorkersOK, TickOK, RepairOK,
         HistoryOK
  <1>4. CASE Reconfigures
    BY <1>4 DEF Reconfigures, Disturb, auditVars, evidenceVars, historyVars,
         RowsOK, AuditsOK, EvidenceOK, WorkersOK, TickOK, RepairOK, HistoryOK
  <1>5. CASE Reboots
    <2>1. WorkersOK' /\ TickOK' /\ RepairOK'
      BY <1>5 DEF Reboots, WorkersOK, TickOK, RepairOK, NoEpoch, Epochs,
           IdleTick, NoRepair
    <2> QED BY <1>5, <2>1 DEF Reboots, Disturb, rowVars, auditVars, RowsOK,
         AuditsOK, EvidenceOK, HistoryOK
  <1> QED BY <1>1, <1>2, <1>3, <1>4, <1>5 DEF Environment

LEMMA StutterType == TypeOK /\ UNCHANGED vars => TypeOK'
  BY DEF TypeOK, vars, rowVars, auditVars, evidenceVars, historyVars, RowsOK,
       AuditsOK, EvidenceOK, WorkersOK, TickOK, RepairOK, HistoryOK

\* Every variable keeps its type, whatever the catalogue and the bounds.
THEOREM TypeCorrect == Spec => []TypeOK
  <1>1. TypeOK /\ [Next]_vars => TypeOK'
    BY CoordinatorType, WorkerType, RepairType, OperatorType, EnvironmentType,
       StutterType DEF Next
  <1> QED BY <1>1, InitType, PTL DEF Spec

-----------------------------------------------------------------------------
(***************************************************************************)
(* Repair requests and the state "repairing".  The invariant is inductive  *)
(* once it says that requests never run ahead of their row's generation,   *)
(* so that a new generation has no request, and that a generation has at   *)
(* most one, so that finishing it leaves none.                             *)
(***************************************************************************)
RequestsNotAhead ==
    \A r \in repair_requests : r.generation <= generation[r.job]

RequestsDistinct ==
    \A r, s \in repair_requests :
        r.job = s.job /\ r.generation = s.generation => r = s

RequestInv == RequestsNotAhead /\ RequestsDistinct /\ RepairingIsOwed

\* Steps that leave requests, generations and repairing families alone.
LEMMA RequestsUntouched ==
    ASSUME RequestInv, UNCHANGED <<generation, repair_requests>>,
           \A f \in Families : state'[f] = "repairing" <=> state[f] = "repairing"
    PROVE RequestInv'
  BY DEF RequestInv, RequestsNotAhead, RequestsDistinct, RepairingIsOwed

\* A new generation without a request: source faults and fresh retries.
LEMMA NewGeneration ==
    ASSUME TypeOK, RequestInv, NEW f \in Families, NEW s,
           s # "repairing", UNCHANGED repair_requests,
           state' = [state EXCEPT ![f] = s],
           generation' = [generation EXCEPT ![f] = @ + 1]
    PROVE RequestInv'
  <1>1. RequestsNotAhead'
    BY DEF TypeOK, RowsOK, RequestInv, RequestsNotAhead, RequestTypes
  <1>2. RequestsDistinct'
    BY DEF RequestInv, RequestsDistinct
  <1>3. ASSUME NEW g \in Families
        PROVE state'[g] = "repairing" <=>
                \E r \in repair_requests' :
                    r.job = g /\ ~r.completed /\ r.generation = generation'[g]
    <2>1. CASE g = f
      BY <2>1 DEF TypeOK, RowsOK, RequestInv, RequestsNotAhead, RequestTypes
    <2>2. CASE g # f
      BY <2>2 DEF TypeOK, RowsOK, RequestInv, RepairingIsOwed
    <2> QED BY <2>1, <2>2
  <1> QED BY <1>1, <1>2, <1>3 DEF RequestInv, RepairingIsOwed

LEMMA InvalidateRequests ==
    ASSUME TypeOK, RequestInv, NEW f \in Families,
           NEW k \in {"report", "manual"}, NEW id \in Nat, Invalidate(f, k, id)
    PROVE RequestInv'
  <1> DEFINE new == [job |-> f, kind |-> k, epoch |-> id,
                     generation |-> generation[f] + 1, completed |-> FALSE]
  <1>0. /\ repair_requests' = repair_requests \cup {new}
        /\ generation' = [generation EXCEPT ![f] = @ + 1]
        /\ state' = [state EXCEPT ![f] = "repairing"]
    BY DEF Invalidate
  <1>1. /\ new.job = f /\ new.generation = generation[f] + 1
        /\ new.completed = FALSE
    OBVIOUS
  <1> HIDE DEF new
  <1>2. \A r \in repair_requests : r.job \in Families /\ r.generation \in Nat
    BY DEF TypeOK, RequestTypes
  <1>3. /\ generation \in [Families -> Nat]
        /\ state \in [Families -> States]
    BY DEF TypeOK, RowsOK
  <1>4. \A r \in repair_requests : r.generation <= generation[r.job]
    BY DEF RequestInv, RequestsNotAhead
  <1>5. RequestsNotAhead'
    BY <1>0, <1>1, <1>2, <1>3, <1>4 DEF RequestsNotAhead
  <1>6. RequestsDistinct'
    BY <1>0, <1>1, <1>2, <1>3, <1>4 DEF RequestInv, RequestsDistinct
  <1>7. ASSUME NEW g \in Families
        PROVE state'[g] = "repairing" <=>
                \E r \in repair_requests' :
                    r.job = g /\ ~r.completed /\ r.generation = generation'[g]
    <2>1. CASE g = f
      BY <2>1, <1>0, <1>1, <1>3
    <2>2. CASE g # f
      BY <2>2, <1>0, <1>1, <1>3 DEF RequestInv, RepairingIsOwed
    <2> QED BY <2>1, <2>2
  <1> QED BY <1>5, <1>6, <1>7 DEF RequestInv, RepairingIsOwed

\* Only a repairing family can be requeued by a request that is finished.
LEMMA FinishedWasRepairing ==
    ASSUME RequestInv, NEW f \in Families, NEW R \in SUBSET Pending(f),
           OwnsRow(f, R)
    PROVE state[f] = "repairing"
  BY DEF RequestInv, RepairingIsOwed, Pending, OwnsRow

LEMMA FinishRequests ==
    ASSUME TypeOK, RequestInv, NEW f \in Families,
           NEW R \in SUBSET Pending(f), Finish(f, R)
    PROVE RequestInv'
  <1> DEFINE done(r) == [r EXCEPT !.completed = TRUE]
  <1>0. /\ repair_requests' = (repair_requests \ R) \cup {done(r) : r \in R}
        /\ generation' = generation
    BY Zenon DEF Finish
  <1>1. R \subseteq repair_requests
    BY DEF Pending
  <1>2. \A r \in R : /\ r \in RequestTypes /\ r.job = f /\ ~r.completed
    BY <1>1 DEF Pending, TypeOK
  <1>3. \A r \in R : /\ done(r).job = r.job
                     /\ done(r).generation = r.generation
                     /\ done(r).completed = TRUE
    BY <1>2 DEF RequestTypes
  <1>4. /\ generation \in [Families -> Nat]
        /\ state \in [Families -> States]
    BY DEF TypeOK, RowsOK
  <1>5. \A r \in repair_requests' :
          \/ r \in repair_requests \ R
          \/ \E q \in R : r = done(q)
    BY <1>0
  <1> HIDE DEF done
  <1>6. RequestsNotAhead'
    BY <1>0, <1>1, <1>3, <1>5 DEF RequestInv, RequestsNotAhead
  <1>7. RequestsDistinct'
    <2> SUFFICES ASSUME NEW r \in repair_requests', NEW s \in repair_requests',
                        r.job = s.job, r.generation = s.generation
                 PROVE r = s
      BY DEF RequestsDistinct
    <2>0. \A x, y \in repair_requests :
            x.job = y.job /\ x.generation = y.generation => x = y
      BY DEF RequestInv, RequestsDistinct
    <2>1. CASE r \in repair_requests \ R /\ s \in repair_requests \ R
      BY <2>0, <2>1
    <2>2. CASE r \in repair_requests \ R /\ \E q \in R : s = done(q)
      BY <2>0, <2>2, <1>1, <1>3
    <2>3. CASE s \in repair_requests \ R /\ \E q \in R : r = done(q)
      BY <2>0, <2>3, <1>1, <1>3
    <2>4. CASE /\ \E q \in R : r = done(q)
               /\ \E q \in R : s = done(q)
      BY <2>0, <2>4, <1>1, <1>3
    <2> QED BY <2>1, <2>2, <2>3, <2>4, <1>5
  <1>8. ASSUME NEW g \in Families
        PROVE state'[g] = "repairing" <=>
                \E r \in repair_requests' :
                    r.job = g /\ ~r.completed /\ r.generation = generation'[g]
    <2>0. state[g] = "repairing" <=>
                \E r \in repair_requests :
                    r.job = g /\ ~r.completed /\ r.generation = generation[g]
      BY DEF RequestInv, RepairingIsOwed
    <2>1. \A r \in repair_requests' : ~r.completed => r \in repair_requests \ R
      BY <1>3, <1>5
    <2>2. \A r \in repair_requests \ R : r \in repair_requests'
      BY <1>0
    <2>3. CASE OwnsRow(f, R)
      <3>1. state' = [state EXCEPT ![f] = "queued"]
        BY <2>3, Zenon DEF Finish
      <3>2. CASE g # f
        BY <3>1, <3>2, <2>0, <2>1, <2>2, <1>0, <1>2, <1>4
      <3>3. CASE g = f
        <4>1. PICK q \in R : q.generation = generation[f]
          BY <2>3 DEF OwnsRow
        <4>2. \A r \in repair_requests :
                r.job = f /\ r.generation = generation[f] => r = q
          BY <4>1, <1>1, <1>2 DEF RequestInv, RequestsDistinct
        <4>3. ~ \E r \in repair_requests' :
                  r.job = f /\ ~r.completed /\ r.generation = generation[f]
          BY <4>1, <4>2, <2>1
        <4> QED BY <3>1, <3>3, <4>3, <1>0, <1>4
      <3> QED BY <3>2, <3>3
    <2>4. CASE ~OwnsRow(f, R)
      <3>1. state' = state
        BY <2>4, Zenon DEF Finish
      <3>2. \A r \in R : r.generation # generation[f]
        BY <2>4 DEF OwnsRow
      <3>3. \A r \in repair_requests :
              r.job = g /\ r.generation = generation[g] => r \notin R
        BY <3>2, <1>2
      <3> QED BY <3>1, <3>3, <2>0, <2>1, <2>2, <1>0, <1>1
    <2> QED BY <2>3, <2>4
  <1> QED BY <1>6, <1>7, <1>8 DEF RequestInv, RepairingIsOwed

\* Enqueueing never makes a family repair, nor stops one from repairing.
LEMMA EnqueueRequests ==
    ASSUME TypeOK, RequestInv, NEW S, NEW c, Enqueue(S, c),
           UNCHANGED repair_requests
    PROVE RequestInv'
  <1>1. \A f \in Families : state'[f] = "repairing" <=> state[f] = "repairing"
    BY DEF Enqueue
  <1>2. UNCHANGED generation
    BY DEF Enqueue
  <1> QED BY <1>1, <1>2, RequestsUntouched

LEMMA CoordinatorRequests == TypeOK /\ RequestInv /\ Coordinator => RequestInv'
  <1> SUFFICES ASSUME TypeOK, RequestInv, Coordinator PROVE RequestInv'
    OBVIOUS
  <1>0. state \in [Families -> States]
    BY DEF TypeOK, RowsOK
  <1>1. CASE TickRead
    BY <1>1, RequestsUntouched DEF TickRead, rowVars
  <1>2. ASSUME NEW old \in SUBSET Families, TickSeed(old) PROVE RequestInv'
    <2> DEFINE due == {f \in tick.need \cup old : state[f] = "idle"}
    <2>1. Enqueue(due, 1) /\ UNCHANGED repair_requests
      BY <1>2 DEF TickSeed
    <2> HIDE DEF due
    <2> QED BY <2>1, EnqueueRequests
  <1>3. ASSUME NEW due \in BOOLEAN, TickDaily(due) PROVE RequestInv'
    <2>1. CASE due
      BY <1>3, <2>1, EnqueueRequests DEF TickDaily
    <2>2. CASE ~due
      BY <1>3, <2>2, RequestsUntouched DEF TickDaily, rowVars
    <2> QED BY <2>1, <2>2
  <1>4. ASSUME NEW late \in SUBSET LateLaunches, TickRecover(late)
        PROVE RequestInv'
    <2>1. \A f \in Families : state'[f] = "repairing" <=> state[f] = "repairing"
      BY <1>4 DEF TickRecover, LateLaunches
    <2> QED BY <1>4, <2>1, RequestsUntouched DEF TickRecover
  <1>5. ASSUME NEW lane \in {"raw", "products"}, TickSkip(lane)
        PROVE RequestInv'
    BY <1>5, RequestsUntouched DEF TickSkip, rowVars
  <1>6. ASSUME NEW lane \in {"raw", "products"}, NEW f \in Families,
               NEW started \in BOOLEAN, TickLaunch(lane, f, started)
        PROVE RequestInv'
    <2>1. state[f] # "repairing"
      BY <1>6 DEF TickLaunch, Chosen, Candidates
    <2>2. state' = [state EXCEPT ![f] = "launching"]
          /\ UNCHANGED <<generation, repair_requests>>
      BY <1>6 DEF TickLaunch
    <2> QED BY <1>0, <2>1, <2>2, RequestsUntouched
  <1>7. CASE TickLaunchFailed
    <2>1. \A g \in Families : state'[g] = "repairing" <=> state[g] = "repairing"
      BY <1>0, <1>7 DEF TickLaunchFailed
    <2> QED BY <1>7, <2>1, RequestsUntouched DEF TickLaunchFailed
  <1> QED BY <1>1, <1>2, <1>3, <1>4, <1>5, <1>6, <1>7 DEF Coordinator

\* A worker changes its row's state only while the row is not repairing.
LEMMA WorkerRequests ==
    ASSUME TypeOK, RequestInv, NEW f \in Families, Worker(f)
    PROVE RequestInv'
  <1>0. state \in [Families -> States]
    BY DEF TypeOK, RowsOK
  <1>1. ASSUME NEW s, s # "repairing", state[f] # "repairing",
               state' = [state EXCEPT ![f] = s],
               UNCHANGED <<generation, repair_requests>>
        PROVE RequestInv'
    BY <1>0, <1>1, RequestsUntouched
  <1>2. ASSUME UNCHANGED <<state, generation, repair_requests>>
        PROVE RequestInv'
    BY <1>2, RequestsUntouched
  <1>3. CASE WorkerReturns(f)
    BY <1>2, <1>3 DEF WorkerReturns, rowVars
  <1>4. CASE WorkerClaims(f)
    BY <1>1, <1>4 DEF WorkerClaims, Claimable
  <1>5. ASSUME NEW category \in Categories, WorkerFails(f, category)
        PROVE RequestInv'
    BY <1>1, <1>5 DEF WorkerFails, Valid, Owned, FailRow
  <1>6. CASE WorkerInvalid(f)
    <2>1. CASE Owned(f)
      BY <1>1, <1>6, <2>1 DEF WorkerInvalid, Owned, FailRow
    <2>2. CASE ~Owned(f)
      BY <1>2, <1>6, <2>2 DEF WorkerInvalid, rowVars
    <2> QED BY <2>1, <2>2
  <1>7. CASE WorkerDefers(f)
    <2>1. CASE Owned(f)
      BY <1>1, <1>7, <2>1 DEF WorkerDefers, Owned
    <2>2. CASE ~Owned(f)
      BY <1>2, <1>7, <2>2 DEF WorkerDefers
    <2> QED BY <2>1, <2>2
  <1>8. CASE WorkerLocks(f)
    BY <1>2, <1>8 DEF WorkerLocks, rowVars
  <1>9. ASSUME NEW isClean \in BOOLEAN, WorkerPublishes(f, isClean)
        PROVE RequestInv'
    BY <1>2, <1>9 DEF WorkerPublishes, rowVars
  <1>10. CASE WorkerCompletes(f)
    <2>1. CASE epoch[f].verification_id \in observations
      BY <1>2, <1>10, <2>1 DEF WorkerCompletes, rowVars
    <2>2. CASE epoch[f].verification_id \notin observations
      BY <1>1, <1>10, <2>2 DEF WorkerCompletes, CompleteRow, Valid, Owned
    <2> QED BY <2>1, <2>2
  <1>11. CASE WorkerCrashes(f)
    BY <1>2, <1>11 DEF WorkerCrashes, rowVars
  <1> QED BY <1>3, <1>4, <1>5, <1>6, <1>7, <1>8, <1>9, <1>10, <1>11 DEF Worker

LEMMA RepairRequests == TypeOK /\ RequestInv /\ Repair => RequestInv'
  <1> SUFFICES ASSUME TypeOK, RequestInv, Repair PROVE RequestInv'
    OBVIOUS
  <1>1. ASSUME UNCHANGED <<state, generation, repair_requests>>
        PROVE RequestInv'
    BY <1>1, RequestsUntouched
  <1>2. ASSUME NEW f \in Families, Finish(f, {r \in Reports(f) : ~r.completed})
        PROVE RequestInv'
    <2> DEFINE R == {r \in Reports(f) : ~r.completed}
    <2>1. R \in SUBSET Pending(f)
      BY DEF Reports, Pending
    <2>2. Finish(f, R)
      BY <1>2
    <2> HIDE DEF R
    <2> QED BY <2>1, <2>2, FinishRequests
  <1>3. ASSUME NEW f \in Families, NEW e, FaultRow(f, e),
               UNCHANGED repair_requests
        PROVE RequestInv'
    BY <1>3, NewGeneration DEF FaultRow
  <1>4. CASE RepairStarts
    BY <1>1, <1>4 DEF RepairStarts, rowVars
  <1>5. ASSUME NEW f \in Families, NEW error \in SourceErrors,
               RepairMeetsFault(f, error)
        PROVE RequestInv'
    <2>1. FaultRow(f, error) \/ UNCHANGED rowVars
      BY <1>5, Zenon DEF RepairMeetsFault
    <2> QED BY <1>1, <1>3, <1>5, <2>1 DEF RepairMeetsFault, rowVars
  <1>6. ASSUME NEW f \in Families, NEW error \in SourceErrors,
               RepairFaults(f, error)
        PROVE RequestInv'
    <2>1. FaultRow(f, error) \/ UNCHANGED rowVars
      BY <1>6, Zenon DEF RepairFaults
    <2> QED BY <1>1, <1>3, <1>6, <2>1 DEF RepairFaults, rowVars
  <1>7. ASSUME NEW f \in Families, RepairFindsNothing(f) PROVE RequestInv'
    BY <1>7, FinishRequests DEF RepairFindsNothing
  <1>8. ASSUME NEW f \in Families, RepairSkips(f) PROVE RequestInv'
    BY <1>1, <1>8 DEF RepairSkips, rowVars
  <1>9. ASSUME NEW f \in Families, RepairCopies(f) PROVE RequestInv'
    <2>1. repair.identity[f] \in Nat
      BY DEF TypeOK, RepairOK
    <2>2. CASE Reports(f) = {}
      BY <1>9, <2>1, <2>2, InvalidateRequests DEF RepairCopies
    <2>3. CASE Reports(f) # {}
      BY <1>1, <1>9, <2>3 DEF RepairCopies, rowVars
    <2> QED BY <2>2, <2>3
  <1>10. ASSUME NEW f \in Families, NEW goesOn \in BOOLEAN,
                RepairCopied(f, goesOn)
         PROVE RequestInv'
    BY <1>2, <1>10 DEF RepairCopied
  <1>11. ASSUME NEW f \in Families, RepairEndsFault(f) PROVE RequestInv'
    BY <1>2, <1>11 DEF RepairEndsFault
  <1>12. CASE RepairEnds
    BY <1>1, <1>12 DEF RepairEnds, rowVars
  <1>13. CASE RepairCrashes
    BY <1>1, <1>13 DEF RepairCrashes, rowVars
  <1> QED BY <1>4, <1>5, <1>6, <1>7, <1>8, <1>9, <1>10, <1>11, <1>12, <1>13
        DEF Repair

LEMMA OperatorRequests == TypeOK /\ RequestInv /\ Operator => RequestInv'
  <1> SUFFICES ASSUME TypeOK, RequestInv, NEW f \in Families,
                      \/ \E confirmations \in 1..2 :
                           OperatorEnqueue(f, confirmations)
                      \/ OperatorInvalidate(f)
                      \/ OperatorRetry(f)
                      \/ OperatorResumes(f)
               PROVE RequestInv'
    BY DEF Operator
  <1>1. ASSUME NEW c \in 1..2, OperatorEnqueue(f, c) PROVE RequestInv'
    BY <1>1, EnqueueRequests DEF OperatorEnqueue
  <1>2. CASE OperatorInvalidate(f)
    BY <1>2, InvalidateRequests DEF OperatorInvalidate
  <1>3. CASE OperatorRetry(f)
    BY <1>3, NewGeneration DEF OperatorRetry
  <1>4. CASE OperatorResumes(f)
    <2>1. \A g \in Families : state'[g] = "repairing" <=> state[g] = "repairing"
      BY <1>4 DEF OperatorResumes, TypeOK, RowsOK
    <2> QED BY <1>4, <2>1, RequestsUntouched DEF OperatorResumes
  <1> QED BY <1>1, <1>2, <1>3, <1>4

LEMMA EnvironmentRequests == RequestInv /\ Environment => RequestInv'
  <1> SUFFICES ASSUME RequestInv, Environment PROVE RequestInv'
    OBVIOUS
  <1>1. UNCHANGED <<state, generation, repair_requests>>
    BY DEF Environment, CoolsDown, Expires, GateAges, Reconfigures, Reboots,
         rowVars
  <1> QED BY <1>1, RequestsUntouched

LEMMA RequestsHold == Spec => []RequestInv
  <1>1. Init => RequestInv
    BY DEF Init, RequestInv, RequestsNotAhead, RequestsDistinct, RepairingIsOwed
  <1>2. TypeOK /\ RequestInv /\ [Next]_vars => RequestInv'
    <2>1. RequestInv /\ UNCHANGED vars => RequestInv'
      BY RequestsUntouched DEF vars, rowVars
    <2> QED BY <2>1, CoordinatorRequests, WorkerRequests, RepairRequests,
          OperatorRequests, EnvironmentRequests DEF Next
  <1> QED BY <1>1, <1>2, TypeCorrect, PTL DEF Spec

\* A family repairs exactly while an unfinished request owns its generation:
\* whichever processes die, no repair is forgotten and none is waited for in
\* vain.
THEOREM RepairingOwed == Spec => []RepairingIsOwed
  <1>1. RequestInv => RepairingIsOwed
    BY DEF RequestInv
  <1> QED BY <1>1, RequestsHold, PTL

-----------------------------------------------------------------------------
(***************************************************************************)
(* Checkpoints.  A step either leaves an epoch with its generation alone,  *)
(* drops it, or claims a new one in the row's generation.                  *)
(***************************************************************************)
LEMMA CheckpointsKept ==
    ASSUME CheckpointsKeepGeneration,
           \A f \in Families : verification_id'[f] # 0 =>
              /\ verification_id'[f] = verification_id[f]
              /\ generation'[f] = generation[f]
              /\ epochGeneration'[f] = epochGeneration[f]
    PROVE CheckpointsKeepGeneration'
  BY DEF CheckpointsKeepGeneration

LEMMA CheckpointsUntouched ==
    ASSUME CheckpointsKeepGeneration,
           UNCHANGED <<verification_id, generation, epochGeneration>>
    PROVE CheckpointsKeepGeneration'
  BY CheckpointsKept

LEMMA CheckpointDropped ==
    ASSUME CheckpointsKeepGeneration, NEW f \in Families, DropEpoch({f}),
           UNCHANGED epochGeneration,
           \A g \in Families \ {f} : generation'[g] = generation[g]
    PROVE CheckpointsKeepGeneration'
  <1>1. \A g \in Families : verification_id'[g] =
                              IF g = f THEN 0 ELSE verification_id[g]
    BY DEF DropEpoch
  <1> QED BY <1>1, CheckpointsKept

LEMMA CoordinatorCheckpoints ==
    CheckpointsKeepGeneration /\ Coordinator => CheckpointsKeepGeneration'
  <1> SUFFICES ASSUME CheckpointsKeepGeneration, Coordinator
               PROVE CheckpointsKeepGeneration'
    OBVIOUS
  <1>1. ASSUME NEW due \in BOOLEAN, TickDaily(due)
        PROVE UNCHANGED <<verification_id, generation, epochGeneration>>
    <2>1. CASE due
      BY <1>1, <2>1 DEF TickDaily, Enqueue, KeepEpochs, historyVars
    <2>2. CASE ~due
      BY <1>1, <2>2 DEF TickDaily, rowVars, historyVars
    <2> QED BY <2>1, <2>2
  <1>2. UNCHANGED <<verification_id, generation, epochGeneration>>
    BY <1>1 DEF Coordinator, TickRead, TickSeed, TickRecover, TickSkip,
         TickLaunch, TickLaunchFailed, Enqueue, KeepEpochs, rowVars, historyVars
  <1> QED BY <1>2, CheckpointsUntouched

LEMMA WorkerCheckpoints ==
    ASSUME TypeOK, CheckpointsKeepGeneration, NEW f \in Families, Worker(f)
    PROVE CheckpointsKeepGeneration'
  <1>1. CASE WorkerClaims(f)
    <2>1. /\ verification_id \in [Families -> Nat]
          /\ epochGeneration \in [Families -> Nat]
      BY DEF TypeOK, RowsOK, HistoryOK
    <2>2. CASE Resumable(f)
      BY <1>1, <2>1, <2>2, CheckpointsKept DEF WorkerClaims
    <2>3. CASE ~Resumable(f)
      <3>1. /\ epochGeneration' =
                 [epochGeneration EXCEPT ![f] = generation[f]]
            /\ UNCHANGED generation
        BY <1>1, <2>3 DEF WorkerClaims
      <3>2. \A g \in Families \ {f} : verification_id'[g] = verification_id[g]
        BY <1>1, <2>1 DEF WorkerClaims
      <3> QED BY <2>1, <3>1, <3>2 DEF CheckpointsKeepGeneration
    <2> QED BY <2>2, <2>3
  <1>2. ASSUME NEW category, FailRow(f, category), UNCHANGED historyVars
        PROVE CheckpointsKeepGeneration'
    <2>1. CASE category = "restart"
      BY <1>2, <2>1, CheckpointDropped DEF FailRow, historyVars
    <2>2. CASE category # "restart"
      BY <1>2, <2>2, CheckpointsUntouched DEF FailRow, KeepEpochs, historyVars
    <2> QED BY <2>1, <2>2
  <1>3. ASSUME NEW category \in Categories, WorkerFails(f, category)
        PROVE CheckpointsKeepGeneration'
    BY <1>2, <1>3 DEF WorkerFails
  <1>4. CASE WorkerInvalid(f)
    <2>1. CASE Owned(f)
      BY <1>2, <1>4, <2>1 DEF WorkerInvalid
    <2>2. CASE ~Owned(f)
      BY <1>4, <2>2, CheckpointsUntouched DEF WorkerInvalid, rowVars, historyVars
    <2> QED BY <2>1, <2>2
  <1>5. CASE WorkerCompletes(f)
    <2>1. CASE epoch[f].verification_id \in observations
      BY <1>5, <2>1, CheckpointsUntouched DEF WorkerCompletes, rowVars
    <2>2. CASE epoch[f].verification_id \notin observations
      BY <1>5, <2>2, CheckpointDropped DEF WorkerCompletes
    <2> QED BY <2>1, <2>2
  <1>6. CASE \/ WorkerReturns(f) \/ WorkerDefers(f) \/ WorkerLocks(f)
             \/ \E isClean \in BOOLEAN : WorkerPublishes(f, isClean)
             \/ WorkerCrashes(f)
    <2>1. UNCHANGED <<verification_id, generation, epochGeneration>>
      BY <1>6 DEF WorkerReturns, WorkerDefers, WorkerLocks, WorkerPublishes,
           WorkerCrashes, KeepEpochs, rowVars, historyVars
    <2> QED BY <2>1, CheckpointsUntouched
  <1> QED BY <1>1, <1>3, <1>4, <1>5, <1>6 DEF Worker

LEMMA RepairCheckpoints ==
    TypeOK /\ CheckpointsKeepGeneration /\ Repair => CheckpointsKeepGeneration'
  <1> SUFFICES ASSUME TypeOK, CheckpointsKeepGeneration, Repair
               PROVE CheckpointsKeepGeneration'
    OBVIOUS
  <1>0. generation \in [Families -> Nat]
    BY DEF TypeOK, RowsOK
  <1>1. ASSUME NEW f \in Families, NEW e, FaultRow(f, e),
               UNCHANGED epochGeneration
        PROVE CheckpointsKeepGeneration'
    BY <1>0, <1>1, CheckpointDropped DEF FaultRow
  <1>2. ASSUME NEW f \in Families, NEW error \in SourceErrors,
               RepairMeetsFault(f, error) \/ RepairFaults(f, error)
        PROVE CheckpointsKeepGeneration'
    <2>1. FaultRow(f, error) \/ UNCHANGED rowVars
      BY <1>2, Zenon DEF RepairMeetsFault, RepairFaults
    <2>2. UNCHANGED epochGeneration
      BY <1>2 DEF RepairMeetsFault, RepairFaults, historyVars
    <2> QED BY <1>1, <2>1, <2>2, CheckpointsUntouched DEF rowVars
  <1>3. ASSUME NEW f \in Families, RepairCopies(f)
        PROVE CheckpointsKeepGeneration'
    <2>1. CASE Reports(f) = {}
      BY <1>0, <1>3, <2>1, CheckpointDropped DEF RepairCopies, Invalidate
    <2>2. CASE Reports(f) # {}
      BY <1>3, <2>2, CheckpointsUntouched DEF RepairCopies, rowVars
    <2> QED BY <2>1, <2>2
  <1>4. ASSUME NEW f \in Families,
               \/ RepairFindsNothing(f) \/ RepairSkips(f)
               \/ \E goesOn \in BOOLEAN : RepairCopied(f, goesOn)
               \/ RepairEndsFault(f)
        PROVE CheckpointsKeepGeneration'
    <2>1. UNCHANGED <<verification_id, generation, epochGeneration>>
      BY <1>4 DEF RepairFindsNothing, RepairSkips, RepairCopied,
           RepairEndsFault, Finish, KeepEpochs, rowVars, historyVars
    <2> QED BY <2>1, CheckpointsUntouched
  <1>5. CASE RepairStarts \/ RepairEnds \/ RepairCrashes
    <2>1. UNCHANGED <<verification_id, generation, epochGeneration>>
      BY <1>5 DEF RepairStarts, RepairEnds, RepairCrashes, rowVars, historyVars
    <2> QED BY <2>1, CheckpointsUntouched
  <1> QED BY <1>2, <1>3, <1>4, <1>5 DEF Repair

LEMMA OperatorCheckpoints ==
    TypeOK /\ CheckpointsKeepGeneration /\ Operator => CheckpointsKeepGeneration'
  <1> SUFFICES ASSUME TypeOK, CheckpointsKeepGeneration, NEW f \in Families,
                      \/ \E confirmations \in 1..2 :
                           OperatorEnqueue(f, confirmations)
                      \/ OperatorInvalidate(f)
                      \/ OperatorRetry(f)
                      \/ OperatorResumes(f)
               PROVE CheckpointsKeepGeneration'
    BY DEF Operator
  <1>0. generation \in [Families -> Nat]
    BY DEF TypeOK, RowsOK
  <1>1. CASE OperatorInvalidate(f)
    BY <1>0, <1>1, CheckpointDropped DEF OperatorInvalidate, Invalidate,
         historyVars
  <1>2. CASE OperatorRetry(f)
    BY <1>0, <1>2, CheckpointDropped DEF OperatorRetry, historyVars
  <1>3. CASE \/ \E confirmations \in 1..2 : OperatorEnqueue(f, confirmations)
             \/ OperatorResumes(f)
    <2>1. UNCHANGED <<verification_id, generation, epochGeneration>>
      BY <1>3 DEF OperatorEnqueue, OperatorResumes, Enqueue, KeepEpochs,
           historyVars
    <2> QED BY <2>1, CheckpointsUntouched
  <1> QED BY <1>1, <1>2, <1>3

\* A frozen checkpoint never outlives the generation it was collected in.
THEOREM CheckpointGenerations == Spec => []CheckpointsKeepGeneration
  <1>1. Init => CheckpointsKeepGeneration
    BY DEF Init, CheckpointsKeepGeneration
  <1>2. TypeOK /\ CheckpointsKeepGeneration /\ [Next]_vars
          => CheckpointsKeepGeneration'
    <2>1. ASSUME CheckpointsKeepGeneration, Environment \/ UNCHANGED vars
          PROVE CheckpointsKeepGeneration'
      <3>1. UNCHANGED <<verification_id, generation, epochGeneration>>
        BY <2>1 DEF Environment, CoolsDown, Expires, GateAges, Reconfigures,
             Reboots, KeepEpochs, vars, rowVars, historyVars
      <3> QED BY <2>1, <3>1, CheckpointsUntouched
    <2> QED BY <2>1, CoordinatorCheckpoints, WorkerCheckpoints,
          RepairCheckpoints, OperatorCheckpoints DEF Next
  <1> QED BY <1>1, <1>2, TypeCorrect, PTL DEF Spec

-----------------------------------------------------------------------------
(***************************************************************************)
(* Why publication cannot overtake an invalidation.  Everything that takes *)
(* a row away from its running epoch either holds the commit lock, or      *)
(* finds the row in another state than "running", or is the worker itself; *)
(* so from WorkerLocks to WorkerPublishes the row stays the worker's own.  *)
(***************************************************************************)
\* A publishing worker holds the commit lock and still owns its row.
PublisherOwnsRow ==
    \A f \in Families :
        unit[f] = "publishing" => commitLock = f /\ Owned(f)

\* A worker past its claim carries a verification id.
WorkersHoldEpochs ==
    \A f \in Families : unit[f] \in Holding => epoch[f].verification_id # 0

FenceInv == PublisherOwnsRow /\ WorkersHoldEpochs

\* Steps during which each publishing worker keeps lock, row and epoch, and no
\* worker obtains an epoch.
LEMMA FenceKept ==
    ASSUME FenceInv,
           \A f \in Families :
             /\ unit'[f] = "publishing" =>
                  /\ unit[f] = "publishing"
                  /\ commitLock' = commitLock
                  /\ state'[f] = state[f]
                  /\ generation'[f] = generation[f]
                  /\ verification_id'[f] = verification_id[f]
                  /\ epoch'[f] = epoch[f]
             /\ unit'[f] \in Holding =>
                  /\ unit[f] \in Holding
                  /\ epoch'[f].verification_id = epoch[f].verification_id
    PROVE FenceInv'
  <1>1. ASSUME NEW f \in Families, unit'[f] = "publishing"
        PROVE (commitLock = f /\ Owned(f))'
    <2>1. commitLock = f /\ Owned(f)
      BY <1>1 DEF FenceInv, PublisherOwnsRow
    <2> QED BY <1>1, <2>1 DEF Owned
  <1>2. WorkersHoldEpochs'
    BY DEF FenceInv, WorkersHoldEpochs
  <1> QED BY <1>1, <1>2 DEF FenceInv, PublisherOwnsRow

\* The row may change in any way while the lock is free or the row not running.
LEMMA RowChanges ==
    ASSUME FenceInv, NEW S,
           \A f \in Families \cap S : LockFree \/ state[f] # "running",
           \A f \in Families \ S :
              /\ state'[f] = state[f]
              /\ generation'[f] = generation[f]
              /\ verification_id'[f] = verification_id[f],
           UNCHANGED <<unit, epoch, commitLock>>
    PROVE FenceInv'
  <1>1. \A f \in Families : unit[f] = "publishing" => f \notin S
    BY FamiliesAssumption DEF FenceInv, PublisherOwnsRow, Owned, LockFree
  <1> QED BY <1>1, FenceKept

LEMMA EnqueueFence ==
    ASSUME FenceInv, NEW S, NEW c, Enqueue(S, c),
           UNCHANGED <<unit, epoch, commitLock>>
    PROVE FenceInv'
  <1> DEFINE T == {f \in Families : state[f] = "idle"}
  <1>1. \A f \in Families \ T : state'[f] = state[f]
    BY DEF Enqueue
  <1>2. \A f \in Families \cap T : state[f] # "running"
    OBVIOUS
  <1>3. UNCHANGED <<generation, verification_id>>
    BY DEF Enqueue, KeepEpochs
  <1> HIDE DEF T
  <1> QED BY <1>1, <1>2, <1>3, RowChanges

LEMMA CoordinatorFence == TypeOK /\ FenceInv /\ Coordinator => FenceInv'
  <1> SUFFICES ASSUME TypeOK, FenceInv, Coordinator PROVE FenceInv'
    OBVIOUS
  <1>0. /\ state \in [Families -> States]
        /\ unit \in [Families -> {"inactive", "starting"} \cup Holding]
    BY DEF TypeOK, RowsOK, WorkersOK
  <1>1. CASE TickRead
    BY <1>1, FenceKept DEF TickRead, rowVars, evidenceVars
  <1>2. ASSUME NEW old \in SUBSET Families, TickSeed(old) PROVE FenceInv'
    <2> DEFINE due == {f \in tick.need \cup old : state[f] = "idle"}
    <2>1. Enqueue(due, 1) /\ UNCHANGED <<unit, epoch, commitLock>>
      BY <1>2 DEF TickSeed, evidenceVars
    <2> HIDE DEF due
    <2> QED BY <2>1, EnqueueFence
  <1>3. ASSUME NEW due \in BOOLEAN, TickDaily(due) PROVE FenceInv'
    <2>1. CASE due
      BY <1>3, <2>1, EnqueueFence DEF TickDaily, evidenceVars
    <2>2. CASE ~due
      BY <1>3, <2>2, FenceKept DEF TickDaily, rowVars, evidenceVars
    <2> QED BY <2>1, <2>2
  <1>4. ASSUME NEW late \in SUBSET LateLaunches, TickRecover(late)
        PROVE FenceInv'
    <2>1. \A f \in Families :
            unit[f] = "publishing" => state'[f] = state[f]
      <3> SUFFICES ASSUME NEW f \in Families, unit[f] = "publishing"
                   PROVE state'[f] = state[f]
        OBVIOUS
      <3>1. state[f] = "running"
        BY DEF FenceInv, PublisherOwnsRow, Owned
      <3>2. f \notin late
        BY <3>1 DEF LateLaunches
      <3> QED BY <1>4, <3>2 DEF TickRecover
    <2> QED BY <1>4, <2>1, FenceKept DEF TickRecover, KeepEpochs, evidenceVars
  <1>5. ASSUME NEW lane \in {"raw", "products"}, TickSkip(lane)
        PROVE FenceInv'
    BY <1>5, FenceKept DEF TickSkip, rowVars, evidenceVars
  <1>6. ASSUME NEW lane \in {"raw", "products"}, NEW f \in Families,
               NEW started \in BOOLEAN, TickLaunch(lane, f, started)
        PROVE FenceInv'
    <2>1. state[f] # "running"
      BY <1>6 DEF TickLaunch, Chosen, Candidates
    <2>2. unit[f] # "publishing"
      BY <2>1 DEF FenceInv, PublisherOwnsRow, Owned
    <2>3. \A g \in Families : unit'[g] \in Holding => unit'[g] = unit[g]
      BY <1>0, <1>6 DEF TickLaunch, Holding
    <2>4. \A g \in Families \ {f} : state'[g] = state[g]
      BY <1>0, <1>6 DEF TickLaunch
    <2>5. UNCHANGED <<generation, verification_id, epoch, commitLock>>
      BY <1>6 DEF TickLaunch, KeepEpochs, evidenceVars
    <2>6. \A g \in Families : unit'[g] = "publishing" => g # f
      BY <2>2, <2>3 DEF Holding
    <2> QED BY <2>3, <2>4, <2>5, <2>6, FenceKept DEF Holding
  <1>7. CASE TickLaunchFailed
    <2>1. \A g \in Families : state[g] = "running" => state'[g] = state[g]
      BY <1>0, <1>7 DEF TickLaunchFailed
    <2>2. UNCHANGED <<generation, verification_id, unit, epoch, commitLock>>
      BY <1>7 DEF TickLaunchFailed, KeepEpochs, evidenceVars
    <2> QED BY <2>1, <2>2, FenceKept DEF FenceInv, PublisherOwnsRow, Owned
  <1> QED BY <1>1, <1>2, <1>3, <1>4, <1>5, <1>6, <1>7 DEF Coordinator

\* A worker that ends leaves the other workers their rows and the lock.
LEMMA StopFence ==
    ASSUME TypeOK, FenceInv, NEW f \in Families, Stop(f),
           \A g \in Families \ {f} :
              /\ state'[g] = state[g]
              /\ generation'[g] = generation[g]
              /\ verification_id'[g] = verification_id[g]
              /\ unit[g] = "publishing" => commitLock' = commitLock
    PROVE FenceInv'
  <1>1. /\ unit \in [Families -> {"inactive", "starting"} \cup Holding]
        /\ epoch \in [Families -> Epochs]
    BY DEF TypeOK, WorkersOK
  <1>2. unit'[f] = "inactive"
    BY <1>1 DEF Stop
  <1>3. \A g \in Families \ {f} : unit'[g] = unit[g] /\ epoch'[g] = epoch[g]
    BY <1>1 DEF Stop
  <1>4. "inactive" \notin Holding
    BY DEF Holding
  <1> QED BY <1>2, <1>3, <1>4, FenceKept

LEMMA WorkerFence ==
    ASSUME TypeOK, FenceInv, RequestInv, NEW f \in Families, Worker(f)
    PROVE FenceInv'
  <1>0. /\ state \in [Families -> States]
        /\ verification_id \in [Families -> Nat]
        /\ unit \in [Families -> {"inactive", "starting"} \cup Holding]
        /\ epoch \in [Families -> Epochs]
        /\ issued \in Nat
    BY DEF TypeOK, RowsOK, WorkersOK
  <1>1. CASE WorkerReturns(f)
    BY <1>1, StopFence DEF WorkerReturns, rowVars, evidenceVars
  <1>2. CASE WorkerClaims(f)
    <2> DEFINE vid == IF Resumable(f) THEN verification_id[f] ELSE issued + 1
    <2>1. epoch' = [epoch EXCEPT ![f] = [generation |-> generation[f],
                      verification_id |-> vid, stable |-> FALSE]]
      BY <1>2 DEF WorkerClaims
    <2>2. vid # 0
      BY <1>0 DEF Resumable
    <2> HIDE DEF vid
    <2>3. /\ state' = [state EXCEPT ![f] = "running"]
          /\ unit' = [unit EXCEPT ![f] = "observing"]
          /\ UNCHANGED <<generation, commitLock>>
      BY <1>2 DEF WorkerClaims, evidenceVars
    <2>4. \A g \in Families \ {f} : verification_id'[g] = verification_id[g]
      BY <1>0, <1>2 DEF WorkerClaims
    <2>5. \A g \in Families : unit'[g] = "publishing" => g # f
      BY <1>0, <2>3
    <2>6. \A g \in Families \ {f} :
            /\ unit'[g] = unit[g] /\ epoch'[g] = epoch[g]
            /\ state'[g] = state[g]
      BY <1>0, <2>1, <2>3
    <2>7. epoch'[f].verification_id # 0
      BY <1>0, <2>1, <2>2
    <2>8. PublisherOwnsRow'
      <3> SUFFICES ASSUME NEW g \in Families, unit'[g] = "publishing"
                   PROVE (commitLock = g /\ Owned(g))'
        BY DEF PublisherOwnsRow
      <3> QED BY <2>3, <2>4, <2>5, <2>6 DEF FenceInv, PublisherOwnsRow, Owned
    <2>9. WorkersHoldEpochs'
      BY <2>6, <2>7 DEF FenceInv, WorkersHoldEpochs
    <2> QED BY <2>8, <2>9 DEF FenceInv
  <1>3. ASSUME NEW category, FailRow(f, category)
        PROVE \A g \in Families \ {f} :
                /\ state'[g] = state[g]
                /\ generation'[g] = generation[g]
                /\ verification_id'[g] = verification_id[g]
    BY <1>0, <1>3 DEF FailRow, DropEpoch, KeepEpochs
  <1>4. ASSUME NEW category \in Categories, WorkerFails(f, category)
        PROVE FenceInv'
    BY <1>3, <1>4, StopFence DEF WorkerFails, evidenceVars
  <1>5. CASE WorkerInvalid(f)
    <2>1. CASE Owned(f)
      BY <1>3, <1>5, <2>1, StopFence DEF WorkerInvalid, evidenceVars
    <2>2. CASE ~Owned(f)
      BY <1>5, <2>2, StopFence DEF WorkerInvalid, rowVars, evidenceVars
    <2> QED BY <2>1, <2>2
  <1>6. CASE WorkerDefers(f)
    <2>1. \A g \in Families \ {f} : state'[g] = state[g]
      BY <1>0, <1>6 DEF WorkerDefers
    <2> QED BY <1>6, <2>1, StopFence DEF WorkerDefers, KeepEpochs, evidenceVars
  <1>7. CASE WorkerLocks(f)
    <2>1. /\ LockFree /\ Owned(f) /\ unit[f] = "observing"
          /\ commitLock' = f
          /\ unit' = [unit EXCEPT ![f] = "publishing"]
          /\ UNCHANGED <<state, generation, verification_id, epoch>>
      BY <1>7 DEF WorkerLocks, Valid, rowVars
    <2>2. \A g \in Families : unit[g] # "publishing"
      BY <2>1, FamiliesAssumption DEF FenceInv, PublisherOwnsRow, LockFree
    <2>3. \A g \in Families : unit'[g] = "publishing" => g = f
      BY <1>0, <2>1, <2>2
    <2>4. PublisherOwnsRow'
      BY <2>1, <2>3 DEF PublisherOwnsRow, Owned
    <2>5. WorkersHoldEpochs'
      BY <1>0, <2>1 DEF FenceInv, WorkersHoldEpochs, Holding
    <2> QED BY <2>4, <2>5 DEF FenceInv
  <1>8. ASSUME NEW isClean \in BOOLEAN, WorkerPublishes(f, isClean)
        PROVE FenceInv'
    <2>1. /\ unit[f] = "publishing"
          /\ unit' = [unit EXCEPT ![f] = "published"]
          /\ UNCHANGED <<state, generation, verification_id>>
      BY <1>8 DEF WorkerPublishes, rowVars
    <2>2. \A g \in Families :
            epoch'[g].verification_id = epoch[g].verification_id
      BY <1>0, <1>8 DEF WorkerPublishes, Epochs
    <2>3. \A g \in Families : unit'[g] # "publishing"
      BY <1>0, <2>1 DEF FenceInv, PublisherOwnsRow
    <2>4. \A g \in Families : unit'[g] \in Holding => unit[g] \in Holding
      BY <1>0, <2>1 DEF Holding
    <2> QED BY <2>2, <2>3, <2>4, FenceKept
  <1>9. CASE WorkerCompletes(f)
    <2>1. CASE epoch[f].verification_id \in observations
      BY <1>9, <2>1, StopFence DEF WorkerCompletes, rowVars, evidenceVars
    <2>2. CASE epoch[f].verification_id \notin observations
      <3>1. CompleteRow(f) /\ DropEpoch({f}) /\ UNCHANGED generation
        BY <1>9, <2>2 DEF WorkerCompletes
      <3>2. \A g \in Families \ {f} :
              /\ state'[g] = state[g]
              /\ verification_id'[g] = verification_id[g]
        BY <1>0, <3>1 DEF CompleteRow, DropEpoch
      <3> QED BY <1>9, <3>1, <3>2, StopFence DEF WorkerCompletes, evidenceVars
    <2> QED BY <2>1, <2>2
  <1>10. CASE WorkerCrashes(f)
    <2>1. \A g \in Families \ {f} :
            unit[g] = "publishing" => commitLock' = commitLock
      BY <1>10 DEF WorkerCrashes, FenceInv, PublisherOwnsRow
    <2> QED BY <1>10, <2>1, StopFence DEF WorkerCrashes, rowVars
  <1> QED BY <1>1, <1>2, <1>4, <1>5, <1>6, <1>7, <1>8, <1>9, <1>10 DEF Worker

\* Repair changes a row under the commit lock, or because it was repairing.
LEMMA RepairFence == TypeOK /\ RequestInv /\ FenceInv /\ Repair => FenceInv'
  <1> SUFFICES ASSUME TypeOK, RequestInv, FenceInv, Repair PROVE FenceInv'
    OBVIOUS
  <1>0. /\ state \in [Families -> States]
        /\ generation \in [Families -> Nat]
        /\ verification_id \in [Families -> Nat]
    BY DEF TypeOK, RowsOK
  <1>1. ASSUME NEW f \in Families, NEW R \in SUBSET Pending(f), Finish(f, R),
               UNCHANGED <<unit, epoch, commitLock>>
        PROVE FenceInv'
    <2>1. CASE OwnsRow(f, R)
      <3>1. state[f] = "repairing"
        BY <2>1, FinishedWasRepairing
      <3>2. \A g \in Families \ {f} : state'[g] = state[g]
        BY <1>0, <1>1, <2>1 DEF Finish
      <3>3. UNCHANGED <<generation, verification_id>>
        BY <1>1 DEF Finish, KeepEpochs
      <3>4. \A g \in Families \cap {f} : LockFree \/ state[g] # "running"
        BY <3>1
      <3> QED BY <1>1, <3>2, <3>3, <3>4, RowChanges
    <2>2. CASE ~OwnsRow(f, R)
      <3>1. UNCHANGED <<state, generation, verification_id>>
        BY <1>1, <2>2 DEF Finish, KeepEpochs
      <3> QED BY <1>1, <3>1, FenceKept
    <2> QED BY <2>1, <2>2
  <1>2. ASSUME NEW f \in Families, Finish(f, {r \in Reports(f) : ~r.completed}),
               UNCHANGED <<unit, epoch, commitLock>>
        PROVE FenceInv'
    <2> DEFINE R == {r \in Reports(f) : ~r.completed}
    <2>1. R \in SUBSET Pending(f)
      BY DEF Reports, Pending
    <2>2. Finish(f, R)
      BY <1>2
    <2> HIDE DEF R
    <2> QED BY <1>1, <1>2, <2>1, <2>2
  <1>3. ASSUME NEW f \in Families, LockFree,
               UNCHANGED <<unit, epoch, commitLock>>,
               \A g \in Families \ {f} :
                  /\ state'[g] = state[g]
                  /\ generation'[g] = generation[g]
                  /\ verification_id'[g] = verification_id[g]
        PROVE FenceInv'
    <2> DEFINE S == {f}
    <2>1. \A g \in Families \cap S : LockFree \/ state[g] # "running"
      BY <1>3
    <2> QED BY <1>3, <2>1, RowChanges
  <1>4. ASSUME NEW f \in Families, NEW error \in SourceErrors,
               RepairMeetsFault(f, error) \/ RepairFaults(f, error)
        PROVE FenceInv'
    <2>1. FaultRow(f, error) \/ UNCHANGED rowVars
      BY <1>4, Zenon DEF RepairMeetsFault, RepairFaults
    <2>2. /\ LockFree
          /\ UNCHANGED <<unit, epoch, commitLock>>
      BY <1>4 DEF RepairMeetsFault, RepairFaults, evidenceVars
    <2>3. \A g \in Families \ {f} :
              /\ state'[g] = state[g]
              /\ generation'[g] = generation[g]
              /\ verification_id'[g] = verification_id[g]
      BY <1>0, <2>1 DEF FaultRow, DropEpoch, rowVars
    <2> QED BY <1>3, <2>2, <2>3
  <1>5. ASSUME NEW f \in Families, RepairCopies(f) PROVE FenceInv'
    <2>1. \A g \in Families \ {f} :
              /\ state'[g] = state[g]
              /\ generation'[g] = generation[g]
              /\ verification_id'[g] = verification_id[g]
      <3>1. CASE Reports(f) = {}
        BY <1>0, <1>5, <3>1 DEF RepairCopies, Invalidate, DropEpoch
      <3>2. CASE Reports(f) # {}
        BY <1>5, <3>2 DEF RepairCopies, rowVars
      <3> QED BY <3>1, <3>2
    <2>2. LockFree /\ UNCHANGED <<unit, epoch, commitLock>>
      BY <1>5 DEF RepairCopies, evidenceVars
    <2> QED BY <1>3, <2>1, <2>2
  <1>6. ASSUME NEW f \in Families, RepairFindsNothing(f) PROVE FenceInv'
    BY <1>1, <1>6 DEF RepairFindsNothing, evidenceVars
  <1>7. ASSUME NEW f \in Families,
               \/ \E goesOn \in BOOLEAN : RepairCopied(f, goesOn)
               \/ RepairEndsFault(f)
        PROVE FenceInv'
    BY <1>2, <1>7 DEF RepairCopied, RepairEndsFault, evidenceVars
  <1>8. CASE \/ RepairStarts \/ RepairEnds \/ RepairCrashes
             \/ \E f \in Families : RepairSkips(f)
    BY <1>8, FenceKept DEF RepairStarts, RepairEnds, RepairCrashes,
         RepairSkips, rowVars, evidenceVars
  <1> QED BY <1>4, <1>5, <1>6, <1>7, <1>8 DEF Repair

LEMMA OperatorFence == TypeOK /\ FenceInv /\ Operator => FenceInv'
  <1> SUFFICES ASSUME TypeOK, FenceInv, NEW f \in Families,
                      \/ \E confirmations \in 1..2 :
                           OperatorEnqueue(f, confirmations)
                      \/ OperatorInvalidate(f)
                      \/ OperatorRetry(f)
                      \/ OperatorResumes(f)
               PROVE FenceInv'
    BY DEF Operator
  <1>0. /\ state \in [Families -> States]
        /\ generation \in [Families -> Nat]
        /\ verification_id \in [Families -> Nat]
    BY DEF TypeOK, RowsOK
  <1>1. ASSUME NEW c \in 1..2, OperatorEnqueue(f, c) PROVE FenceInv'
    BY <1>1, EnqueueFence DEF OperatorEnqueue, evidenceVars
  <1>2. CASE OperatorInvalidate(f) \/ OperatorRetry(f) \/ OperatorResumes(f)
    <2>1. \A g \in Families \ {f} :
              /\ state'[g] = state[g]
              /\ generation'[g] = generation[g]
              /\ verification_id'[g] = verification_id[g]
      BY <1>0, <1>2 DEF OperatorInvalidate, OperatorRetry, OperatorResumes,
           Invalidate, DropEpoch, KeepEpochs
    <2>2. LockFree /\ UNCHANGED <<unit, epoch, commitLock>>
      BY <1>2 DEF OperatorInvalidate, OperatorRetry, OperatorResumes,
           evidenceVars
    <2> DEFINE S == {f}
    <2>3. \A g \in Families \cap S : LockFree \/ state[g] # "running"
      BY <2>2
    <2> QED BY <2>1, <2>2, <2>3, RowChanges
  <1> QED BY <1>1, <1>2

LEMMA EnvironmentFence == FenceInv /\ Environment => FenceInv'
  <1> SUFFICES ASSUME FenceInv, Environment PROVE FenceInv'
    OBVIOUS
  <1>1. CASE Reboots
    <2>1. \A f \in Families : unit'[f] = "inactive"
      BY <1>1 DEF Reboots
    <2> QED BY <2>1 DEF FenceInv, PublisherOwnsRow, WorkersHoldEpochs, Holding
  <1>2. CASE Reconfigures \/ \E f \in Families :
               CoolsDown(f) \/ Expires(f) \/ GateAges(f)
    BY <1>2, FenceKept DEF CoolsDown, Expires, GateAges, Reconfigures,
         KeepEpochs, rowVars, evidenceVars
  <1> QED BY <1>1, <1>2 DEF Environment

LEMMA FenceStep == TypeOK /\ RequestInv /\ FenceInv /\ [Next]_vars => FenceInv'
  <1>1. FenceInv /\ UNCHANGED vars => FenceInv'
    BY FenceKept DEF vars, rowVars, evidenceVars
  <1> QED BY <1>1, CoordinatorFence, WorkerFence, RepairFence, OperatorFence,
        EnvironmentFence DEF Next

\* latest only moves in WorkerPublishes, to the epoch its family's row is
\* running, in the generation that epoch was issued in.
LEMMA OnlyWorkersPublish ==
    ASSUME TypeOK, FenceInv, CheckpointsKeepGeneration, [Next]_vars,
           NEW f \in Families, published'[f] # published[f]
    PROVE /\ state[f] = "running"
          /\ verification_id[f] # 0
          /\ published'[f] = verification_id[f]
          /\ epochGeneration[f] = generation[f]
  <1>0. published \in [Families -> Nat]
    BY DEF TypeOK, EvidenceOK
  <1>1. PICK g \in Families, isClean \in BOOLEAN : WorkerPublishes(g, isClean)
    <2>1. ASSUME Coordinator PROVE UNCHANGED published
      BY <2>1 DEF Coordinator, TickRead, TickSeed, TickDaily, TickRecover,
           TickSkip, TickLaunch, TickLaunchFailed, evidenceVars
    <2>2. ASSUME NEW g \in Families, Worker(g),
                 ~ \E isClean \in BOOLEAN : WorkerPublishes(g, isClean)
          PROVE UNCHANGED published
      BY <2>2 DEF Worker, WorkerReturns, WorkerClaims, WorkerFails,
           WorkerInvalid, WorkerDefers, WorkerLocks, WorkerCompletes,
           WorkerCrashes, evidenceVars
    <2>3. ASSUME Repair PROVE UNCHANGED published
      BY <2>3 DEF Repair, RepairStarts, RepairMeetsFault, RepairFaults,
           RepairFindsNothing, RepairSkips, RepairCopies, RepairCopied,
           RepairEndsFault, RepairEnds, RepairCrashes, evidenceVars
    <2>4. ASSUME Operator \/ Environment PROVE UNCHANGED published
      BY <2>4 DEF Operator, OperatorEnqueue, OperatorInvalidate, OperatorRetry,
           OperatorResumes, Environment, CoolsDown, Expires, GateAges,
           Reconfigures, Reboots, evidenceVars
    <2>5. ASSUME UNCHANGED vars PROVE UNCHANGED published
      BY <2>5 DEF vars, evidenceVars
    <2> QED BY <2>1, <2>2, <2>3, <2>4, <2>5 DEF Next
  <1>2. /\ unit[g] = "publishing"
        /\ published' = [published EXCEPT ![g] = epoch[g].verification_id]
    BY <1>1 DEF WorkerPublishes
  <1>3. f = g
    BY <1>0, <1>2
  <1>4. Owned(f) /\ epoch[f].verification_id # 0
    BY <1>2, <1>3 DEF FenceInv, PublisherOwnsRow, WorkersHoldEpochs, Holding
  <1> QED BY <1>0, <1>2, <1>3, <1>4 DEF Owned, CheckpointsKeepGeneration

\* An observation that a repair, a source fault or a successor invalidated
\* while it was being published does not become latest.
THEOREM PublicationFenced == Spec => PublicationIsFenced
  <1>1. Init => TypeOK /\ RequestInv /\ CheckpointsKeepGeneration /\ FenceInv
    BY InitType DEF Init, RequestInv, RequestsNotAhead, RequestsDistinct,
         RepairingIsOwed, CheckpointsKeepGeneration, FenceInv,
         PublisherOwnsRow, WorkersHoldEpochs, Holding
  <1>2. TypeOK /\ FenceInv /\ CheckpointsKeepGeneration /\ [Next]_vars =>
          [\A f \in Families :
             published'[f] # published[f] =>
                /\ state[f] = "running"
                /\ published'[f] = verification_id[f]
                /\ epochGeneration[f] = generation[f]]_vars
    BY OnlyWorkersPublish
  <1> QED BY <1>1, <1>2, TypeCorrect, RequestsHold, CheckpointGenerations,
        FenceStep, PTL DEF Spec, PublicationIsFenced

=============================================================================

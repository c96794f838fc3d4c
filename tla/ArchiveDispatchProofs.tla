------------------------ MODULE ArchiveDispatchProofs ------------------------
(***************************************************************************)
(* The delivery lock excludes two transfers, and lets no bulk writer pass  *)
(* a fast one that waits, for any number of writers of either kind.  The   *)
(* dispatcher and the bulk synchronisation use that lock as DeliveryLock   *)
(* says.  From its exclusion it follows that what they send only goes      *)
(* forward, that flags are true and that nothing queued is lost, for any   *)
(* number of files, limits and faults; and any number of receivers that    *)
(* were left on the workspace host, which may put back what was sent       *)
(* before, and nothing else.                                               *)
(***************************************************************************)
EXTENDS ArchiveDispatch, TLAPS

USE LockAssumption

(***************************************************************************)
(* The delivery lock is held by whoever is between acquiring and closing   *)
(* it, and by the transfer that outlived such a helper; a bulk helper has  *)
(* the intent lock to itself from asking until it opens the gate, a fast   *)
(* one shares it from the time it waits.                                   *)
(***************************************************************************)
Holders == {w \in Writers : session[w] \in {"held", "copying"}}

DeliveryIsHeld ==
    /\ \A w \in Holders : delivery = w
    /\ orphan => delivery = Orphan
    /\ delivery \in Writers => delivery \in Holders
    /\ delivery = Orphan => orphan

IntentIsHeld ==
    /\ \A w \in Fast : session[w] \in {"waiting", "held", "copying"} <=> w \in intent
    /\ \A w \in Bulk : session[w] = "waiting" => w \in intent
    /\ \A w \in Bulk : w \in intent => session[w] \in {"waiting", "held"}
    /\ \A w \in Bulk : w \in intent => intent = {w}

LockInv == LockTypeOK /\ DeliveryIsHeld /\ IntentIsHeld

-----------------------------------------------------------------------------
LEMMA LockInvInit == LockInit => LockInv
BY DEF LockInit, LockInv, LockTypeOK, DeliveryIsHeld, IntentIsHeld, Holders, Writers

\* What a step that closes both descriptors leaves of the invariant.
LEMMA ClosesKeeps ==
    ASSUME LockInv, NEW w \in Writers, Closes(w), UNCHANGED orphan, remains' \subseteq Receivers
    PROVE  LockInv'
<1>1. LockTypeOK'
  BY DEF LockInv, LockTypeOK, Closes, Goes, Writers
<1>2. \A v \in Writers : session'[v] = IF v = w THEN "out" ELSE session[v]
  BY DEF LockInv, LockTypeOK, Closes, Goes
<1>3. DeliveryIsHeld'
  BY <1>2 DEF LockInv, LockTypeOK, DeliveryIsHeld, Holders, Closes, Writers
<1>4. IntentIsHeld'
  BY <1>2 DEF LockInv, LockTypeOK, IntentIsHeld, Closes, Writers
<1> QED  BY <1>1, <1>3, <1>4 DEF LockInv

LEMMA LockInvStep == LockInv /\ [LockNext]_lockVars => LockInv'
<1> SUFFICES ASSUME LockInv, [LockNext]_lockVars PROVE LockInv'
  OBVIOUS
<1> USE DEF LockInv
<1>0. remains \subseteq Receivers /\ (MayRemain => remains' \subseteq Receivers)
  BY DEF LockTypeOK, MayRemain
<1>1. CASE UNCHANGED lockVars
  BY <1>1 DEF lockVars, LockTypeOK, DeliveryIsHeld, IntentIsHeld, Holders
<1>2. CASE OrphanEnds
  BY <1>0, <1>2 DEF OrphanEnds, LockTypeOK, DeliveryIsHeld, IntentIsHeld, Holders, Writers
<1>4. ASSUME NEW r \in Receivers, ReceiverEnds(r) PROVE LockInv'
  BY <1>4 DEF ReceiverEnds, LockTypeOK, DeliveryIsHeld, IntentIsHeld, Holders, Writers
<1>3. ASSUME NEW w \in Writers, LockStep(w) PROVE LockInv'
  <2>1. CASE FastAsks(w)
    BY <2>1 DEF FastAsks, Goes, LockTypeOK, DeliveryIsHeld, IntentIsHeld, Holders, Writers
  <2>2. CASE FastIntends(w)
    BY <2>2 DEF FastIntends, Goes, LockTypeOK, DeliveryIsHeld, IntentIsHeld, Holders, Writers
  <2>3. CASE FastAcquires(w)
    BY <2>3 DEF FastAcquires, Goes, LockTypeOK, DeliveryIsHeld, IntentIsHeld, Holders, Writers
  <2>4. CASE FastExpires(w)
    BY <1>0, <2>4, ClosesKeeps DEF FastExpires
  <2>5. CASE BulkIntends(w)
    BY <2>5 DEF BulkIntends, MayIntend, Goes, LockTypeOK, DeliveryIsHeld, IntentIsHeld,
       Holders, Writers
  <2>6. CASE BulkAcquires(w)
    BY <2>6 DEF BulkAcquires, Goes, LockTypeOK, DeliveryIsHeld, IntentIsHeld, Holders, Writers
  <2>7. CASE BulkIsRefused(w)
    BY <1>0, <2>7, ClosesKeeps DEF BulkIsRefused
  <2>8. CASE BulkOpensGate(w)
    BY <2>8 DEF BulkOpensGate, LockTypeOK, DeliveryIsHeld, IntentIsHeld, Holders, Writers
  <2>9. CASE BulkLeaves(w)
    BY <1>0, <2>9, ClosesKeeps DEF BulkLeaves
  <2>10. CASE StartsCopy(w)
    BY <2>10 DEF StartsCopy, Goes, LockTypeOK, DeliveryIsHeld, IntentIsHeld, Holders, Writers
  <2>11. CASE EndsCopy(w)
    BY <1>0, <2>11, ClosesKeeps DEF EndsCopy
  <2>12. CASE Killed(w)
    <3>1. CASE session[w] = "copying"
      BY <2>12, <3>1 DEF Killed, HeldByChild, Goes, LockTypeOK, DeliveryIsHeld,
         IntentIsHeld, Holders, Writers
    <3>2. CASE session[w] # "copying"
      BY <1>0, <2>12, <3>2, ClosesKeeps DEF Killed, Closes
    <3> QED  BY <3>1, <3>2
  <2>13. CASE KilledWithChild(w)
    BY <1>0, <2>13, ClosesKeeps DEF KilledWithChild
  <2>14. CASE BreaksOff(w)
    BY <1>0, <2>14, ClosesKeeps DEF BreaksOff
  <2> QED
    BY <1>3, <2>1, <2>2, <2>3, <2>4, <2>5, <2>6, <2>7, <2>8, <2>9, <2>10, <2>11,
       <2>12, <2>13, <2>14 DEF LockStep
<1> QED  BY <1>1, <1>2, <1>3, <1>4 DEF LockNext

(***************************************************************************)
(* Every descriptor of the two locks is accounted for: a helper holds what *)
(* its progress says (aurora-gws-transfer.py, main).                       *)
(***************************************************************************)
THEOREM LockInvariant == LockSpec => []LockInv
BY LockInvInit, LockInvStep, PTL DEF LockSpec

LEMMA HeldByOne == LockInv => \A v, w \in Copying : v = w
BY DEF LockInv, DeliveryIsHeld, Holders, Copying

(***************************************************************************)
(* No two transfers of this host run at once, with or without their        *)
(* helpers: of any two that do, one is a receiver that was left on the     *)
(* workspace host by a transfer that was broken off.                       *)
(***************************************************************************)
THEOREM TransfersExclude == LockSpec => []OneTransfer
<1>1. LockInv => OneTransfer
  BY HeldByOne DEF OneTransfer, Running
<1> QED  BY <1>1, LockInvariant, PTL

(***************************************************************************)
(* A bulk writer that takes the delivery lock holds the intent lock alone, *)
(* so that no fast writer is waiting.                                      *)
(***************************************************************************)
THEOREM BulkWritersYield == LockSpec => BulkYields
<1>1. LockInv /\ [LockNext]_lockVars
          => [delivery' \in Bulk /\ delivery' # delivery => intent \cap Fast = {}]_lockVars
  <2> SUFFICES ASSUME LockInv, LockNext, delivery' \in Bulk, delivery' # delivery
               PROVE  intent \cap Fast = {}
    OBVIOUS
  <2>1. PICK w \in Writers : LockStep(w)
    BY DEF LockNext, OrphanEnds, ReceiverEnds, Writers
  <2>2. BulkAcquires(w)
    BY <2>1 DEF LockStep, FastAsks, FastIntends, FastAcquires, FastExpires, BulkIntends,
       BulkIsRefused, BulkOpensGate, BulkLeaves, StartsCopy, EndsCopy, BreaksOff, Killed,
       KilledWithChild, HeldByChild, Closes, Writers, LockInv, LockTypeOK
  <2> QED  BY <2>2 DEF BulkAcquires, LockInv, IntentIsHeld
<1> QED  BY <1>1, LockInvariant, PTL DEF LockSpec, BulkYields

-----------------------------------------------------------------------------
USE DispatchAssumption

\* Actions by what they do to the lock.
Unlocked ==
    \/ TreeStep \/ Select \/ CheckFirst \/ MarkChanged \/ CheckAfterGws \/ FlagGws
    \/ CheckBeforeObject \/ Upload \/ UploadFails \/ CheckAfterObject \/ FlagObject
    \/ Finish \/ Discover

LEMMA UnlockedKeeps == Unlocked => UNCHANGED lockVars
BY DEF Unlocked, TreeStep, Lands, Vanishes, Settles, Enqueue, Select, CheckFirst,
   MarkChanged, CheckAfterGws, CheckBeforeObject, CheckAfterObject, Checks, FlagGws,
   FlagObject, Upload, UploadFails, Finish, Discover

LEMMA StepUsesLock == Next => [LockNext]_lockVars
<1> SUFFICES ASSUME Next PROVE [LockNext]_lockVars
  OBVIOUS
<1> USE DEF LockNext, LockStep, Writers
<1>1. CASE Unlocked
  BY <1>1, UnlockedKeeps
<1>2. CASE GwsAsks \/ GwsWaits \/ GwsDeferred \/ GwsStarts \/ GwsDelivers \/ GwsFails
  BY <1>2 DEF GwsAsks, GwsWaits, GwsDeferred, GwsStarts, GwsDelivers, GwsFails
<1>3. CASE SyncDefers \/ SyncLocks \/ SyncStarts \/ SyncEnds \/ SyncFails \/ SyncCompletes
  BY <1>3 DEF SyncDefers, SyncLocks, SyncStarts, SyncEnds, SyncFails, SyncCompletes
<1>4. CASE OrphanPublishes \/ SyncKilled \/ WorkerKilled \/ \E w \in Writers : HelperKilled(w)
  BY <1>4 DEF OrphanPublishes, SyncKilled, WorkerKilled, HelperKilled
<1>5. ASSUME NEW r \in Receivers, Left(r) PROVE [LockNext]_lockVars
  BY <1>5 DEF Left, ReceiverGoes, ReceiverPublishes
<1> QED
  BY <1>1, <1>2, <1>3, <1>4, <1>5 DEF Next, Unlocked, WorkerStep, SyncStep, Fault

(***************************************************************************)
(* The two programs together take the lock as its specification allows:    *)
(* GwsWaits polls, SyncDefers is refused, and the rest are its steps or    *)
(* leave it alone.                                                         *)
(***************************************************************************)
THEOREM DispatchUsesLock == Spec => LockSpec
<1>1. Init => LockInit
  BY DEF Init
<1>2. [Next]_vars => [LockNext]_lockVars
  BY StepUsesLock DEF vars, lockVars
<1> QED  BY <1>1, <1>2, PTL DEF Spec, LockSpec

-----------------------------------------------------------------------------
LEMMA RowFacts == NoRow \notin Row
BY DEF Row, Stamps

LEMMA TypesInit == Init => DispatchTypeOK
<1> SUFFICES ASSUME Init PROVE DispatchTypeOK
  OBVIOUS
<1>1. Nothing \in [Files -> Stamps] /\ 0 \in Stamps
  BY DEF Nothing, Stamps
<1>2. worker \in [at : Steps, batch : [Files -> Row \cup {NoRow}],
                 stable : SUBSET Files, changed : SUBSET Files]
  BY DEF Init, Idle, Steps
<1>3. file \in [Files -> Stamps] /\ gws \in [Files -> Stamps] /\ object \in [Files -> Stamps]
      /\ sent \in [Files -> Stamps] /\ owed \in [Files -> Stamps] /\ {now, settled} \subseteq Stamps
  BY <1>1 DEF Init
<1>4. listed \in [Senders -> [Files -> Stamps]]
  BY <1>1 DEF Init
<1>5. rows \in [Files -> Row \cup {NoRow}] /\ names \subseteq Files
  BY DEF Init
<1>6. syncing \in BOOLEAN
  BY DEF Init
<1>7. faults \in 0..MaxFaults
  BY DEF Init
<1> QED  BY <1>2, <1>3, <1>4, <1>5, <1>6, <1>7 DEF DispatchTypeOK

LEMMA TypesStep == LockInv /\ DispatchTypeOK /\ [Next]_vars => DispatchTypeOK'
<1> SUFFICES ASSUME LockInv, DispatchTypeOK, [Next]_vars PROVE DispatchTypeOK'
  OBVIOUS
<1> USE DEF DispatchTypeOK
<1>0. CASE UNCHANGED vars
  BY <1>0 DEF vars, dispatchVars
<1>1. CASE TreeStep
  <2>1. CASE Settles
    BY <2>1 DEF Settles, Stamps, queue, bulk, archives
  <2>2. ASSUME NEW f \in Files, Lands(f) PROVE DispatchTypeOK'
    BY <2>2 DEF Lands, Stamps, queue, bulk, archives
  <2>3. ASSUME NEW f \in Files, Vanishes(f) PROVE DispatchTypeOK'
    BY <2>3 DEF Vanishes, Stamps, queue, bulk, archives
  <2>4. ASSUME NEW f \in Files, Enqueue(f) PROVE DispatchTypeOK'
    <3>1. Refreshed(rows[f], file[f]) \in Row \cup {NoRow}
      BY DEF Refreshed, Row
    <3> QED  BY <2>4, <3>1 DEF Enqueue, tree, bulk, archives
  <2> QED  BY <1>1, <2>1, <2>2, <2>3, <2>4 DEF TreeStep
<1>2. CASE Select
  BY <1>2 DEF Select, Idle, Steps, tree, queue, bulk, archives
<1>3. CASE CheckFirst
  <2>1. worker' \in [at : Steps, batch : [Files -> Row \cup {NoRow}],
                    stable : SUBSET Files, changed : SUBSET Files]
    <3>1. [f \in Files |-> IF f \in Unchanged(Batch) THEN worker.batch[f] ELSE NoRow]
             \in [Files -> Row \cup {NoRow}]
      OBVIOUS
    <3> QED  BY <1>3, <3>1 DEF CheckFirst, Unchanged, Batch, Steps
  <2> QED  BY <1>3, <2>1 DEF CheckFirst, tree, queue, bulk, archives
<1>4. CASE CheckAfterGws \/ CheckBeforeObject \/ CheckAfterObject
  <2>1. ASSUME NEW at \in Steps, NEW S \in SUBSET Files, NEW marks \in Steps, NEW next \in Steps,
               Checks(at, S, marks, next)
        PROVE  DispatchTypeOK'
    <3>1. worker' \in [at : Steps, batch : [Files -> Row \cup {NoRow}],
                      stable : SUBSET Files, changed : SUBSET Files]
      BY <2>1 DEF Checks, Unchanged
    <3> QED  BY <2>1, <3>1 DEF Checks, tree, queue, bulk, archives
  <2>2. CASE CheckAfterGws
    BY <2>1, <2>2 DEF CheckAfterGws, GwsRows, Batch, Steps
  <2>3. CASE CheckBeforeObject
    BY <2>1, <2>3 DEF CheckBeforeObject, ObjectRows, Batch, Steps
  <2>4. CASE CheckAfterObject
    BY <2>1, <2>4 DEF CheckAfterObject, Steps
  <2> QED  BY <1>4, <2>2, <2>3, <2>4
<1>5. CASE MarkChanged
  <2>1. \A f \in Files : Remarked(f) \in Row \cup {NoRow}
    BY DEF Remarked, Row
  <2>2. PastMarks[worker.at] \in Steps
    BY <1>5 DEF MarkChanged, PastMarks, Steps
  <2>3. worker' \in [at : Steps, batch : [Files -> Row \cup {NoRow}],
                    stable : SUBSET Files, changed : SUBSET Files]
    BY <1>5, <2>2 DEF MarkChanged
  <2>4. rows' \in [Files -> Row \cup {NoRow}]
    BY <1>5, <2>1 DEF MarkChanged
  <2> QED  BY <1>5, <2>3, <2>4 DEF MarkChanged, tree, bulk, archives
<1>6. CASE FlagGws
  BY <1>6, RowFacts, ZenonT(40) DEF FlagGws, SameVersion, Row, Steps, tree, bulk, archives
<1>7. CASE FlagObject
  BY <1>7, RowFacts, ZenonT(40)
  DEF FlagObject, WorkerEnds, Idle, SameVersion, Row, Steps, tree, bulk, archives
<1>8. CASE GwsAsks \/ GwsWaits \/ GwsDeferred
  BY <1>8 DEF GwsAsks, GwsWaits, GwsDeferred, WorkerGoes, Steps, dispatchVars, tree, queue, bulk,
     archives
<1>9. CASE GwsStarts
  BY <1>9 DEF GwsStarts, ListedNow, Stamps, Senders, Writers, tree, queue, bulk, archives
<1>10. ASSUME NEW w \in Senders, NEW S \in SUBSET Files, Published(w, S)
       PROVE  gws' \in [Files -> Stamps] /\ sent' \in [Files -> Stamps]
  BY <1>10 DEF Published
<1>11. ASSUME NEW w \in Senders, Unlisted(w)
       PROVE  listed' \in [Senders -> [Files -> Stamps]]
  BY <1>11 DEF Unlisted, Nothing, Stamps
<1>23. ASSUME NEW w \in Senders, BrokenOff(w)
       PROVE  /\ gws' \in [Files -> Stamps] /\ sent' \in [Files -> Stamps]
              /\ listed' \in [Senders -> [Files -> Stamps]]
  <2>1. PICK S \in SUBSET Files :
            /\ Published(w, S)
            /\ listed' = [v \in Senders |->
                   IF v = w THEN Nothing
                   ELSE IF v \in remains' \ remains
                        THEN [f \in Files |-> IF f \in S THEN 0 ELSE listed[w][f]]
                        ELSE listed[v]]
    BY <1>23 DEF BrokenOff
  <2>2. /\ Nothing \in [Files -> Stamps]
        /\ [f \in Files |-> IF f \in S THEN 0 ELSE listed[w][f]] \in [Files -> Stamps]
    BY DEF Nothing, Stamps
  <2> QED  BY <1>10, <2>1, <2>2
<1>24. LeavingCounts => faults' \in 0..MaxFaults
  BY DEF LeavingCounts
<1>12. CASE GwsDelivers
  <2>1. Published(Dispatcher, Files) /\ Unlisted(Dispatcher) /\ Dispatcher \in Senders
    BY <1>12 DEF GwsDelivers, Senders, Writers
  <2> QED  BY <1>12, <2>1, <1>10, <1>11 DEF GwsDelivers, WorkerGoes, Steps, tree, queue, bulk
<1>25. CASE GwsFails
  <2>1. BrokenOff(Dispatcher) /\ LeavingCounts /\ Dispatcher \in Senders
    BY <1>25 DEF GwsFails, Senders, Writers
  <2> QED  BY <1>25, <2>1, <1>23, <1>24 DEF GwsFails, WorkerGoes, Steps, tree, queue, bulk
<1>13. ASSUME NEW S \in SUBSET Files, Puts(S) PROVE object' \in [Files -> Stamps]
  BY <1>13 DEF Puts
<1>14. CASE Upload \/ UploadFails
  <2>1. PICK S \in SUBSET Files : Puts(S)
    BY <1>14 DEF Upload, UploadFails
  <2> QED  BY <1>14, <2>1, <1>13 DEF Upload, UploadFails, WorkerEnds, WorkerGoes, Idle, Steps,
              tree, queue, bulk
<1>15. CASE Finish
  BY <1>15 DEF Finish, Idle, Steps, tree, bulk, archives
<1>16. CASE Discover
  BY <1>16 DEF Discover, tree, queue, archives
<1>17. CASE SyncDefers \/ SyncLocks \/ SyncCompletes
  BY <1>17 DEF SyncDefers, SyncLocks, SyncCompletes, SyncStops, dispatchVars, tree, queue, archives
<1>18. CASE SyncStarts
  BY <1>18 DEF SyncStarts, ListedNow, Stamps, Senders, Writers, tree, queue, archives
<1>19. CASE SyncEnds
  <2>1. Published(Sync, Files) /\ Unlisted(Sync) /\ Sync \in Senders
    BY <1>19 DEF SyncEnds, Senders, Writers
  <2> QED  BY <1>19, <2>1, <1>10, <1>11 DEF SyncEnds, tree, queue, bulk
<1>26. CASE SyncFails \/ SyncKilled
  <2>1. BrokenOff(Sync) /\ Sync \in Senders
    BY <1>26 DEF SyncFails, SyncKilled, Senders, Writers
  <2>2. faults' \in 0..MaxFaults
    BY <1>24, <1>26 DEF SyncFails, SyncKilled
  <2> QED  BY <1>26, <2>1, <2>2, <1>23 DEF SyncFails, SyncKilled, SyncStops, tree, queue
<1>20. CASE OrphanPublishes
  <2>1. BrokenOff(Orphan) /\ Orphan \in Senders
    BY <1>20 DEF OrphanPublishes, Senders
  <2> QED  BY <1>20, <2>1, <1>23 DEF OrphanPublishes, tree, queue, bulk
<1>21. ASSUME NEW w \in Writers, HelperKilled(w) PROVE DispatchTypeOK'
  <2>1. listed' \in [Senders -> [Files -> Stamps]]
    BY <1>21 DEF HelperKilled, Nothing, Stamps, Senders
  <2>2. faults' \in 0..MaxFaults
    BY <1>21 DEF HelperKilled
  <2> QED  BY <1>21, <2>1, <2>2 DEF HelperKilled, SyncStops, WorkerGoes, Steps, tree, queue, bulk,
              archives
<1>22. CASE WorkerKilled
  <2>1. BrokenOff(Dispatcher) /\ Dispatcher \in Senders
    BY <1>22 DEF WorkerKilled, Senders, Writers
  <2>2. faults' \in 0..MaxFaults
    BY <1>22 DEF WorkerKilled
  <2> QED  BY <1>22, <2>1, <2>2, <1>23 DEF WorkerKilled, Idle, Steps, tree, queue, bulk
<1>27. ASSUME NEW r \in Receivers, Left(r) PROVE DispatchTypeOK'
  <2>1. r \in Senders
    BY DEF Senders
  <2>2. CASE ReceiverGoes(r)
    BY <1>11, <2>1, <2>2 DEF ReceiverGoes, tree, queue, bulk, archives
  <2>3. ASSUME NEW f \in Files, ReceiverPublishes(r, f) PROVE DispatchTypeOK'
    <3>1. gws' \in [Files -> Stamps]
      BY <2>1, <2>3 DEF ReceiverPublishes
    <3>2. listed' \in [Senders -> [Files -> Stamps]]
      BY <2>1, <2>3 DEF ReceiverPublishes, Stamps
    <3> QED  BY <2>3, <3>1, <3>2 DEF ReceiverPublishes, tree, queue, bulk
  <2> QED  BY <1>27, <2>2, <2>3 DEF Left
<1> QED
  BY <1>0, <1>1, <1>2, <1>3, <1>4, <1>5, <1>6, <1>7, <1>8, <1>9, <1>12, <1>14, <1>15, <1>16,
     <1>17, <1>18, <1>19, <1>20, <1>21, <1>22, <1>25, <1>26, <1>27
  DEF Next, WorkerStep, SyncStep, Fault

(***************************************************************************)
(* Types, for the lock and the two programs.                               *)
(***************************************************************************)
THEOREM DispatchTypes == Spec => []TypeOK
<1>1. LockInv => LockTypeOK
  BY DEF LockInv
<1> QED  BY <1>1, TypesInit, TypesStep, DispatchUsesLock, LockInvariant, PTL DEF Spec, TypeOK

-----------------------------------------------------------------------------
(***************************************************************************)
(* What the safety of the delivery rests on.  Stamps: nothing that is      *)
(* known of a file is newer than the file, when there is one, so that a    *)
(* file that still has the stamp of a selected row never changed.          *)
(***************************************************************************)
Recent(f, n) == n <= now /\ (file[f] # 0 => n <= file[f])

FilesAreNewest ==
    \A f \in Files :
        /\ Recent(f, file[f]) /\ Recent(f, gws[f]) /\ Recent(f, sent[f])
        /\ Recent(f, owed[f])
        /\ rows[f] # NoRow => rows[f].stamp # 0 /\ Recent(f, rows[f].stamp)
        /\ worker.batch[f] # NoRow =>
               worker.batch[f].stamp # 0 /\ Recent(f, worker.batch[f].stamp)
        /\ \A w \in Senders : Recent(f, listed[w][f])

\* A list is held while its transfer runs.  The one of this host is alone
\* there: the workspace has nothing newer than what it has listed, and neither
\* has a receiver that was left.
Fresh(f, n) ==
    gws[f] <= n /\ sent[f] <= n /\ \A r \in remains : listed[r][f] <= n

ListsAreFresh ==
    \A w \in Senders, f \in Files :
        listed[w][f] # 0 =>
            w \in Running /\ (w \notin Receivers => Fresh(f, listed[w][f]))

WorkerWaits == worker.at = "waits" <=> session[Dispatcher] # "out"

\* What the run has delivered of its batch at each step.
Sent(f) == sent[f] >= worker.batch[f].stamp
Put(f) == object[f] >= worker.batch[f].stamp

StableIsBatch ==
    worker.stable \subseteq Batch /\ (worker.at = "checks" => worker.stable = {})

ListedIsBatch ==
    session[Dispatcher] = "copying" =>
        \A f \in GwsRows : listed[Dispatcher][f] # 0 =>
            listed[Dispatcher][f] >= worker.batch[f].stamp

StepsAreDone ==
    /\ worker.at = "gwsChecks" => \A f \in GwsRows : Sent(f)
    /\ worker.at \in {"gwsMarks", "gwsFlags"} => \A f \in worker.stable : Sent(f)
    /\ worker.at = "objectChecks" =>
           \A f \in worker.stable : \/ Put(f) \/ file[f] = 0
                                    \/ file[f] > worker.batch[f].stamp
    /\ worker.at \in {"objectMarksAfter", "objectFlags"} => \A f \in worker.stable : Put(f)

BatchIsSent == StableIsBatch /\ ListedIsBatch /\ StepsAreDone

\* A row never names an older version than the newest that was queued.
OwedIsNamed ==
    \A f \in Files :
        IF rows[f] # NoRow THEN rows[f].stamp >= owed[f]
                           ELSE sent[f] >= owed[f] /\ object[f] >= owed[f]

\* Flags are the truth about what the transfers under the lock have sent.
FlagsAreSent ==
    \A f \in Queued :
        /\ rows[f].gws => sent[f] >= rows[f].stamp
        /\ rows[f].object => object[f] >= rows[f].stamp

DispatchInv ==
    /\ LockInv /\ DispatchTypeOK /\ WorkerWaits /\ FilesAreNewest /\ ListsAreFresh
    /\ BatchIsSent /\ FlagsAreSent /\ OwedIsNamed

LEMMA InvInit == Init => DispatchInv
<1> SUFFICES ASSUME Init PROVE DispatchInv
  OBVIOUS
<1>1. LockInv /\ DispatchTypeOK
  BY LockInvInit, TypesInit DEF Init
<1>2. \A f \in Files : /\ file[f] = 0 /\ gws[f] = 0 /\ sent[f] = 0 /\ object[f] = 0
                       /\ owed[f] = 0
                       /\ rows[f] = NoRow /\ worker.batch[f] = NoRow
                       /\ \A w \in Senders : listed[w][f] = 0
  BY DEF Init, Nothing, Idle
<1>3. FilesAreNewest /\ ListsAreFresh /\ OwedIsNamed /\ FlagsAreSent
  BY <1>2 DEF Init, FilesAreNewest, Recent, ListsAreFresh, OwedIsNamed, FlagsAreSent, Queued
<1>4. WorkerWaits /\ BatchIsSent
  BY DEF Init, LockInit, Idle, WorkerWaits, BatchIsSent, StableIsBatch, ListedIsBatch,
     StepsAreDone, Writers
<1> QED  BY <1>1, <1>3, <1>4 DEF DispatchInv

-----------------------------------------------------------------------------
\* What a step may do to each of the parts of the state.
LEMMA Integers ==
    ASSUME DispatchTypeOK
    PROVE  /\ now \in Nat /\ Stamps \subseteq Nat
           /\ \A f \in Files : /\ file[f] \in Nat /\ gws[f] \in Nat /\ sent[f] \in Nat
                               /\ object[f] \in Nat /\ owed[f] \in Nat
                               /\ rows[f] # NoRow => rows[f] \in Row
                               /\ worker.batch[f] # NoRow => worker.batch[f] \in Row
                               /\ \A w \in Senders : listed[w][f] \in Nat
<1> USE DEF DispatchTypeOK, Stamps
<1>1. now \in Nat /\ Stamps \subseteq Nat
  OBVIOUS
<1>2. ASSUME NEW f \in Files PROVE /\ file[f] \in Nat /\ gws[f] \in Nat /\ sent[f] \in Nat
                                   /\ object[f] \in Nat /\ owed[f] \in Nat
  OBVIOUS
<1>3. ASSUME NEW f \in Files, NEW w \in Senders PROVE listed[w][f] \in Nat
  OBVIOUS
<1>4. ASSUME NEW f \in Files PROVE /\ rows[f] # NoRow => rows[f] \in Row
                                   /\ worker.batch[f] # NoRow => worker.batch[f] \in Row
  <2>1. rows[f] \in Row \cup {NoRow} /\ worker.batch[f] \in Row \cup {NoRow}
    BY DEF DispatchTypeOK
  <2> QED  BY <2>1
<1> QED  BY <1>1, <1>2, <1>3, <1>4

FileStep(f) == file'[f] \in {file[f], 0} \/ (file'[f] = now + 1 /\ now' = now + 1)

LEMMA FileSteps ==
    ASSUME DispatchTypeOK, [Next]_vars, NEW f \in Files
    PROVE  FileStep(f) /\ now' \in {now, now + 1}
<1>1. CASE Lands(f) \/ \E g \in Files : Lands(g)
  BY <1>1, Integers DEF Lands, FileStep, DispatchTypeOK
<1>2. CASE \E g \in Files : Vanishes(g)
  BY <1>2, Integers DEF Vanishes, FileStep, DispatchTypeOK
<1>3. CASE UNCHANGED <<file, now>>
  BY <1>3, Integers DEF FileStep
<1>4. CASE Settles \/ \E g \in Files : Enqueue(g)
  BY <1>4, <1>3 DEF Settles, Enqueue, tree
<1>5. CASE UNCHANGED vars
  BY <1>5, <1>3 DEF vars, dispatchVars
<1>6. CASE WorkerStep \/ Discover
  BY <1>6, <1>3 DEF WorkerStep, Select, CheckFirst, MarkChanged, GwsAsks, GwsWaits, GwsStarts,
     GwsDelivers, CheckAfterGws, FlagGws, CheckBeforeObject, Upload, CheckAfterObject,
     FlagObject, Finish, Checks, Discover, tree, dispatchVars
<1>7. CASE SyncStep \/ OrphanPublishes \/ Fault \/ \E r \in Receivers : Left(r)
  BY <1>7, <1>3 DEF SyncStep, SyncDefers, SyncLocks, SyncStarts, SyncEnds, SyncFails,
     SyncCompletes, OrphanPublishes, Fault, GwsDeferred, GwsFails, UploadFails, SyncKilled,
     WorkerKilled, HelperKilled, Left, ReceiverGoes, ReceiverPublishes, tree, dispatchVars
<1> QED  BY <1>1, <1>2, <1>4, <1>5, <1>6, <1>7 DEF Next, TreeStep

\* What was recent stays so, and what is in the tree is recent.
LEMMA RecentStays ==
    ASSUME DispatchTypeOK, [Next]_vars, NEW f \in Files, NEW n \in Nat, Recent(f, n)
    PROVE  n <= now' /\ (file'[f] # 0 => n <= file'[f])
BY FileSteps, Integers DEF FileStep, Recent

-----------------------------------------------------------------------------
\* A row is kept, replaced by what is in the tree, flagged or forgotten.
Renewed(f) == /\ file[f] # 0 /\ file' = file /\ UNCHANGED archives
              /\ rows'[f] = [stamp |-> file[f], gws |-> FALSE, object |-> FALSE]
FlagsOne(f) ==
    /\ UNCHANGED archives /\ file' = file
    /\ rows[f] # NoRow /\ rows'[f] # NoRow /\ rows'[f].stamp = rows[f].stamp
    /\ rows'[f].gws => rows[f].gws \/ sent[f] >= rows[f].stamp
    /\ rows'[f].object => rows[f].object \/ object[f] >= rows[f].stamp
Forgotten(f) == UNCHANGED archives /\ f \in Delivered /\ rows'[f] = NoRow
RowStep(f) == \/ rows'[f] = rows[f] /\ owed'[f] = owed[f]
              \/ Renewed(f) /\ owed'[f] \in {owed[f], file[f]}
              \/ rows'[f] = rows[f] /\ rows[f] # NoRow /\ rows[f].stamp = file[f]
                 /\ owed'[f] = file[f]
              \/ (FlagsOne(f) \/ Forgotten(f)) /\ owed'[f] = owed[f]

LEMMA RowSteps ==
    ASSUME DispatchInv, [Next]_vars, NEW f \in Files
    PROVE  RowStep(f)
<1> USE DEF DispatchInv
<1>1. CASE UNCHANGED queue
  BY <1>1 DEF queue, RowStep
<1>2. CASE \E g \in Files : Enqueue(g)
  <2>1. PICK g \in Files : Enqueue(g)
    BY <1>2
  <2>2. CASE g # f
    BY <2>1, <2>2 DEF Enqueue, RowStep, DispatchTypeOK
  <2>3. CASE g = f
    BY <2>1, <2>3 DEF Enqueue, Refreshed, RowStep, Renewed, DispatchTypeOK, tree, archives
  <2> QED  BY <2>2, <2>3
<1>3. CASE MarkChanged
  BY <1>3 DEF MarkChanged, Remarked, RowStep, Renewed, tree, archives
<1>4. CASE FlagGws
  <2>1. f \in worker.stable => sent[f] >= worker.batch[f].stamp
    BY <1>4 DEF FlagGws, BatchIsSent, StepsAreDone, Sent
  <2> QED  BY <1>4, <2>1, Integers DEF FlagGws, SameVersion, RowStep, FlagsOne, Row, tree,
              archives
<1>5. CASE FlagObject
  <2>1. f \in worker.stable => object[f] >= worker.batch[f].stamp
    BY <1>5 DEF FlagObject, BatchIsSent, StepsAreDone, Put
  <2> QED  BY <1>5, <2>1, Integers DEF FlagObject, SameVersion, RowStep, FlagsOne, Row, tree,
              archives
<1>6. CASE Finish
  BY <1>6 DEF Finish, RowStep, Forgotten, archives
<1>7. CASE UNCHANGED vars
  BY <1>1, <1>7 DEF vars, dispatchVars, queue
<1>8. CASE TreeStep
  BY <1>1, <1>2, <1>8 DEF TreeStep, Lands, Vanishes, Settles
<1>9. CASE WorkerStep \/ Discover
  BY <1>1, <1>3, <1>4, <1>5, <1>6, <1>9 DEF WorkerStep, Select, CheckFirst, GwsAsks, GwsWaits,
     GwsStarts, GwsDelivers, CheckAfterGws, CheckBeforeObject, Upload, CheckAfterObject, Checks,
     Discover, queue, dispatchVars
<1>10. CASE SyncStep \/ OrphanPublishes \/ Fault \/ \E r \in Receivers : Left(r)
  BY <1>1, <1>10 DEF SyncStep, SyncDefers, SyncLocks, SyncStarts, SyncEnds, SyncFails,
     SyncCompletes, OrphanPublishes, Fault, GwsDeferred, GwsFails, UploadFails, SyncKilled,
     WorkerKilled, HelperKilled, Left, ReceiverGoes, ReceiverPublishes, queue, dispatchVars
<1> QED  BY <1>7, <1>8, <1>9, <1>10 DEF Next

\* What a transfer of this host publishes it has sent; what a receiver that was
\* left publishes it has not.
Publishes(f) ==
    \/ gws'[f] = gws[f] /\ sent'[f] = sent[f]
    \/ \E w \in Copying : /\ w \in Senders \ Receivers /\ listed[w][f] # 0
                         /\ gws'[f] = listed[w][f] /\ sent'[f] = listed[w][f]
    \/ \E r \in remains : /\ r \in Receivers /\ listed[r][f] # 0
                         /\ gws'[f] = listed[r][f] /\ sent'[f] = sent[f]
ArchiveStep(f) ==
    /\ Publishes(f)
    /\ object'[f] = object[f] \/ (object'[f] = file[f] /\ object'[f] >= object[f])

LEMMA ArchiveSteps ==
    ASSUME DispatchInv, [Next]_vars, NEW f \in Files
    PROVE  ArchiveStep(f)
<1> USE DEF DispatchInv
<1>1. CASE UNCHANGED archives
  BY <1>1, Integers DEF archives, ArchiveStep, Publishes
<1>2. ASSUME NEW w \in Senders \ Receivers, NEW S \in SUBSET Files, Published(w, S),
             object' = object
      PROVE  ArchiveStep(f)
  <2>1. listed[w][f] # 0 => w \in Copying
    BY DEF ListsAreFresh, Running, LockInv, LockTypeOK
  <2> QED  BY <1>2, <2>1, Integers DEF Published, ArchiveStep, Publishes, DispatchTypeOK
<1>14. ASSUME NEW w \in Senders \ Receivers, BrokenOff(w), object' = object
       PROVE  ArchiveStep(f)
  BY <1>2, <1>14 DEF BrokenOff
<1>3. ASSUME NEW S \in SUBSET Files, Puts(S), gws' = gws, sent' = sent
      PROVE  ArchiveStep(f)
  BY <1>3, Integers DEF Puts, ArchiveStep, Publishes
<1>15. \A w \in Writers \cup {Orphan} : w \in Senders \ Receivers
  BY DEF Senders
<1>4. CASE GwsDelivers \/ GwsFails
  BY <1>2, <1>4, <1>14, <1>15 DEF GwsDelivers, GwsFails, Writers
<1>5. CASE SyncEnds \/ SyncFails \/ SyncKilled
  BY <1>2, <1>5, <1>14, <1>15 DEF SyncEnds, SyncFails, SyncKilled, Writers
<1>6. CASE OrphanPublishes
  BY <1>6, <1>14, <1>15 DEF OrphanPublishes
<1>7. CASE WorkerKilled
  BY <1>7, <1>14, <1>15 DEF WorkerKilled, Writers
<1>8. CASE Upload \/ UploadFails
  <2>1. worker.stable \in SUBSET Files
    BY DEF DispatchTypeOK
  <2> QED  BY <1>3, <1>8, <2>1 DEF Upload, UploadFails
<1>16. ASSUME NEW r \in Receivers, Left(r) PROVE ArchiveStep(f)
  <2>1. CASE ReceiverGoes(r)
    BY <1>1, <2>1 DEF ReceiverGoes
  <2>2. ASSUME NEW g \in Files, ReceiverPublishes(r, g) PROVE ArchiveStep(f)
    BY <2>2, Integers DEF ReceiverPublishes, ArchiveStep, Publishes, DispatchTypeOK
  <2> QED  BY <1>16, <2>1, <2>2 DEF Left
<1>9. CASE UNCHANGED vars
  BY <1>1, <1>9 DEF vars, dispatchVars, archives
<1>10. CASE TreeStep \/ Discover
  BY <1>1, <1>10 DEF TreeStep, Lands, Vanishes, Settles, Enqueue, Discover
<1>11. CASE WorkerStep
  BY <1>1, <1>4, <1>8, <1>11 DEF WorkerStep, Select, CheckFirst, MarkChanged, GwsAsks, GwsWaits,
     GwsStarts, CheckAfterGws, FlagGws, CheckBeforeObject, CheckAfterObject, FlagObject,
     Finish, Checks, archives, dispatchVars
<1>12. CASE SyncStep
  BY <1>1, <1>5, <1>12 DEF SyncStep, SyncDefers, SyncLocks, SyncStarts, SyncCompletes, archives,
     dispatchVars
<1>13. CASE Fault
  BY <1>1, <1>4, <1>5, <1>7, <1>8, <1>13 DEF Fault, GwsDeferred, HelperKilled
<1> QED  BY <1>6, <1>9, <1>10, <1>11, <1>12, <1>13, <1>16 DEF Next

\* What was sent and what was put only go forward; what is published does too,
\* unless a receiver that was left publishes it.
LEMMA ArchivesGrow ==
    ASSUME DispatchInv, [Next]_vars, NEW f \in Files
    PROVE  /\ sent'[f] >= sent[f] /\ object'[f] >= object[f]
           /\ gws'[f] >= gws[f] \/ \E r \in remains : gws'[f] = listed[r][f]
           /\ sent'[f] \in Nat /\ object'[f] \in Nat /\ gws'[f] \in Nat
<1> USE DEF DispatchInv
<1>1. \A w \in Senders \ Receivers : listed[w][f] # 0 =>
          gws[f] <= listed[w][f] /\ sent[f] <= listed[w][f]
  BY DEF ListsAreFresh, Fresh
<1>2. /\ gws[f] \in Nat /\ sent[f] \in Nat /\ object[f] \in Nat /\ file[f] \in Nat
      /\ \A w \in Senders : listed[w][f] \in Nat
  BY Integers
<1>3. Publishes(f) /\ (object'[f] = object[f] \/ (object'[f] = file[f] /\ object'[f] >= object[f]))
  BY ArchiveSteps DEF ArchiveStep
<1>4. CASE gws'[f] = gws[f] /\ sent'[f] = sent[f]
  BY <1>2, <1>3, <1>4
<1>5. ASSUME NEW w \in Senders \ Receivers, listed[w][f] # 0,
             gws'[f] = listed[w][f], sent'[f] = listed[w][f]
      PROVE  gws'[f] >= gws[f] /\ sent'[f] >= sent[f] /\ gws'[f] \in Nat /\ sent'[f] \in Nat
  BY <1>1, <1>2, <1>5
<1>6. ASSUME NEW r \in remains, r \in Receivers, gws'[f] = listed[r][f], sent'[f] = sent[f]
      PROVE  gws'[f] \in Nat /\ sent'[f] \in Nat /\ sent'[f] >= sent[f]
  BY <1>2, <1>6 DEF Senders
<1> QED  BY <1>2, <1>3, <1>4, <1>5, <1>6 DEF Publishes

\* The batch of a run is selected from the rows and only shrinks.
BatchStep(f) == worker'.batch[f] \in {worker.batch[f], NoRow, rows[f]}

LEMMA BatchSteps ==
    ASSUME DispatchTypeOK, [Next]_vars, NEW f \in Files
    PROVE  BatchStep(f)
<1> USE DEF BatchStep, DispatchTypeOK
<1>1. CASE UNCHANGED worker
  BY <1>1
<1>2. CASE Select
  BY <1>2 DEF Select, Idle
<1>3. CASE CheckFirst
  BY <1>3 DEF CheckFirst
<1>9. CASE MarkChanged \/ FlagGws \/ CheckAfterGws \/ CheckBeforeObject \/ CheckAfterObject
  <2>1. worker'.batch = worker.batch
    BY <1>9 DEF MarkChanged, FlagGws, CheckAfterGws, CheckBeforeObject, CheckAfterObject, Checks
  <2> QED  BY <2>1
<1>4. CASE GwsAsks \/ GwsDeferred \/ GwsDelivers \/ GwsFails
  BY <1>4 DEF GwsAsks, GwsDeferred, GwsDelivers, GwsFails, WorkerGoes
<1>5. CASE FlagObject \/ Upload \/ UploadFails \/ Finish \/ WorkerKilled
  BY <1>5 DEF FlagObject, Upload, UploadFails, Finish, WorkerKilled, WorkerEnds, WorkerGoes, Idle
<1>6. CASE \E w \in Writers : HelperKilled(w)
  BY <1>6 DEF HelperKilled, WorkerGoes
<1>7. CASE UNCHANGED vars
  BY <1>7 DEF vars, dispatchVars
<1>8. CASE TreeStep \/ Discover \/ GwsWaits \/ GwsStarts \/ SyncStep \/ OrphanPublishes
           \/ SyncKilled \/ \E r \in Receivers : Left(r)
  BY <1>8 DEF TreeStep, Lands, Vanishes, Settles, Enqueue, Discover, GwsWaits, GwsStarts,
     SyncStep, SyncDefers, SyncLocks, SyncStarts, SyncEnds, SyncFails,
     SyncCompletes, OrphanPublishes, SyncKilled, Left, ReceiverGoes, ReceiverPublishes,
     dispatchVars
<1> QED  BY <1>2, <1>3, <1>4, <1>5, <1>6, <1>7, <1>8, <1>9 DEF Next, WorkerStep, Fault

\* A list is taken from the tree by a transfer that starts, and goes with it;
\* one that is broken off, or has lost its helper, hands it on.
ListStep(w, f) ==
    \/ listed'[w][f] \in {0, listed[w][f]}
    \/ listed'[w][f] = file[f] /\ file' = file /\ gws' = gws
    \/ w \notin Writers /\ \E v \in Writers \cup {Orphan} : listed'[w][f] = listed[v][f]

LEMMA ListSteps ==
    ASSUME LockInv, DispatchTypeOK, [Next]_vars, NEW f \in Files, NEW w \in Senders
    PROVE  ListStep(w, f)
<1> USE DEF ListStep, DispatchTypeOK
<1>1. CASE UNCHANGED listed
  BY <1>1
<1>2. ASSUME NEW v \in Senders, Unlisted(v) PROVE ListStep(w, f)
  BY <1>2 DEF Unlisted, Nothing
<1>13. ASSUME NEW v \in Writers \cup {Orphan}, BrokenOff(v), remains' \subseteq Receivers
       PROVE  ListStep(w, f)
  <2>1. w \in remains' => w \notin Writers
    BY <1>13
  <2> QED  BY <1>13, <2>1 DEF BrokenOff, Nothing
<1>14. remains' \subseteq Receivers
  BY LockInvStep, StepUsesLock DEF LockInv, LockTypeOK, vars
<1>3. CASE GwsDelivers \/ GwsFails \/ WorkerKilled
  BY <1>2, <1>3, <1>13, <1>14 DEF GwsDelivers, GwsFails, WorkerKilled, Writers, Senders
<1>4. CASE SyncEnds \/ SyncFails \/ SyncKilled
  BY <1>2, <1>4, <1>13, <1>14 DEF SyncEnds, SyncFails, SyncKilled, Writers, Senders
<1>5. CASE OrphanPublishes
  BY <1>5, <1>13, <1>14 DEF OrphanPublishes
<1>6. CASE GwsStarts \/ SyncStarts
  BY <1>6 DEF GwsStarts, SyncStarts, ListedNow, tree, archives, Writers, Senders
<1>7. ASSUME NEW v \in Writers, HelperKilled(v) PROVE ListStep(w, f)
  BY <1>7 DEF HelperKilled, Nothing, tree, archives, Senders
<1>15. ASSUME NEW r \in Receivers, Left(r) PROVE ListStep(w, f)
  <2>1. CASE ReceiverGoes(r)
    BY <1>2, <2>1 DEF ReceiverGoes, Senders
  <2>2. ASSUME NEW g \in Files, ReceiverPublishes(r, g) PROVE ListStep(w, f)
    BY <2>2 DEF ReceiverPublishes
  <2> QED  BY <1>15, <2>1, <2>2 DEF Left
<1>8. CASE UNCHANGED vars
  BY <1>1, <1>8 DEF vars, dispatchVars
<1>9. CASE TreeStep \/ Discover
  BY <1>1, <1>9 DEF TreeStep, Lands, Vanishes, Settles, Enqueue, Discover
<1>10. CASE WorkerStep
  BY <1>1, <1>3, <1>6, <1>10 DEF WorkerStep, Select, CheckFirst, MarkChanged, GwsAsks, GwsWaits,
     CheckAfterGws, FlagGws, CheckBeforeObject, Upload, CheckAfterObject, FlagObject, Finish,
     Checks, dispatchVars
<1>11. CASE SyncStep
  BY <1>1, <1>4, <1>6, <1>11 DEF SyncStep, SyncDefers, SyncLocks, SyncCompletes, dispatchVars
<1>12. CASE Fault
  BY <1>1, <1>3, <1>4, <1>7, <1>12 DEF Fault, GwsDeferred, UploadFails
<1> QED  BY <1>5, <1>8, <1>9, <1>10, <1>11, <1>12, <1>15 DEF Next

LEMMA NewestStep == DispatchInv /\ [Next]_vars /\ DispatchTypeOK' => FilesAreNewest'
<1> SUFFICES ASSUME DispatchInv, [Next]_vars, DispatchTypeOK', NEW f \in Files
             PROVE  /\ Recent(f, file[f])' /\ Recent(f, gws[f])' /\ Recent(f, sent[f])'
                    /\ Recent(f, owed[f])'
                    /\ rows'[f] # NoRow => rows'[f].stamp # 0 /\ Recent(f, rows[f].stamp)'
                    /\ worker'.batch[f] # NoRow =>
                           worker'.batch[f].stamp # 0 /\ Recent(f, worker.batch[f].stamp)'
                    /\ \A w \in Senders : Recent(f, listed[w][f])'
  BY DEF FilesAreNewest
<1> USE DEF DispatchInv
<1>1. ASSUME NEW n \in Nat, Recent(f, n) PROVE n <= now' /\ (file'[f] # 0 => n <= file'[f])
  BY <1>1, RecentStays
<1>2. Recent(f, file[f])'
  BY FileSteps, Integers DEF FileStep, FilesAreNewest, Recent
<1>3. Recent(f, gws[f])' /\ Recent(f, sent[f])'
  <2>1. gws'[f] \in Nat /\ Recent(f, gws'[f]) /\ sent'[f] \in Nat /\ Recent(f, sent'[f])
    BY ArchiveSteps, ArchivesGrow DEF ArchiveStep, Publishes, FilesAreNewest, Senders
  <2> QED  BY <2>1, <1>1 DEF Recent
<1>4. Recent(f, owed[f])'
  BY RowSteps, <1>1, Integers DEF RowStep, FilesAreNewest, Recent
<1>5. rows'[f] # NoRow => rows'[f].stamp # 0 /\ Recent(f, rows[f].stamp)'
  <2> SUFFICES ASSUME rows'[f] # NoRow
               PROVE  rows'[f].stamp # 0 /\ Recent(f, rows[f].stamp)'
    OBVIOUS
  <2>1. rows'[f].stamp \in Nat \ {0} /\ Recent(f, rows'[f].stamp)
    <3>1. CASE rows'[f] = rows[f]
      BY <3>1, Integers DEF FilesAreNewest, Row
    <3>2. CASE Renewed(f)
      BY <3>2, Integers DEF Renewed, FilesAreNewest
    <3>3. CASE FlagsOne(f)
      BY <3>3, Integers DEF FlagsOne, FilesAreNewest, Row
    <3> QED  BY <3>1, <3>2, <3>3, RowSteps DEF RowStep, Forgotten
  <2> QED  BY <2>1, <1>1 DEF Recent
<1>6. worker'.batch[f] # NoRow =>
          worker'.batch[f].stamp # 0 /\ Recent(f, worker.batch[f].stamp)'
  <2> SUFFICES ASSUME worker'.batch[f] # NoRow
               PROVE  worker'.batch[f].stamp # 0 /\ Recent(f, worker.batch[f].stamp)'
    OBVIOUS
  <2>1. worker'.batch[f].stamp \in Nat \ {0} /\ Recent(f, worker'.batch[f].stamp)
    BY BatchSteps, Integers DEF BatchStep, FilesAreNewest, Row
  <2> QED  BY <2>1, <1>1 DEF Recent
<1>7. ASSUME NEW w \in Senders PROVE Recent(f, listed[w][f])'
  <2>1. listed'[w][f] \in Nat /\ Recent(f, listed'[w][f])
    BY ListSteps, Integers DEF ListStep, FilesAreNewest, Senders, Recent
  <2> QED  BY <2>1, <1>1 DEF Recent
<1> QED  BY <1>2, <1>3, <1>4, <1>5, <1>6, <1>7

LEMMA FlagsStep == DispatchInv /\ [Next]_vars /\ DispatchTypeOK' => FlagsAreSent'
<1> SUFFICES ASSUME DispatchInv, [Next]_vars, DispatchTypeOK', NEW f \in Files, rows'[f] # NoRow
             PROVE  /\ rows'[f].gws => sent'[f] >= rows'[f].stamp
                    /\ rows'[f].object => object'[f] >= rows'[f].stamp
  BY DEF FlagsAreSent, Queued
<1> USE DEF DispatchInv
<1>1. rows[f] # NoRow => /\ rows[f].stamp \in Nat
                         /\ rows[f].gws => sent[f] >= rows[f].stamp
                         /\ rows[f].object => object[f] >= rows[f].stamp
  BY Integers DEF FlagsAreSent, Queued, Row
<1>2. CASE rows'[f] = rows[f]
  BY <1>1, <1>2, ArchivesGrow, Integers
<1>3. CASE Renewed(f)
  BY <1>3 DEF Renewed
<1>4. CASE FlagsOne(f)
  BY <1>1, <1>4, ArchivesGrow, Integers DEF FlagsOne
<1> QED  BY <1>2, <1>3, <1>4, RowSteps DEF RowStep, Forgotten

LEMMA OwedStep == DispatchInv /\ [Next]_vars /\ DispatchTypeOK' => OwedIsNamed'
<1> SUFFICES ASSUME DispatchInv, [Next]_vars, DispatchTypeOK', NEW f \in Files
             PROVE  IF rows'[f] # NoRow THEN rows'[f].stamp >= owed'[f]
                    ELSE sent'[f] >= owed'[f] /\ object'[f] >= owed'[f]
  BY DEF OwedIsNamed
<1> USE DEF DispatchInv
<1>1. /\ IF rows[f] # NoRow THEN rows[f].stamp >= owed[f]
         ELSE sent[f] >= owed[f] /\ object[f] >= owed[f]
      /\ owed[f] \in Nat /\ file[f] \in Nat /\ sent[f] \in Nat /\ object[f] \in Nat
      /\ file[f] # 0 => owed[f] <= file[f]
      /\ rows[f] # NoRow => rows[f].stamp \in Nat
  BY Integers DEF OwedIsNamed, FilesAreNewest, Recent, Row
<1>2. CASE rows'[f] = rows[f] /\ owed'[f] = owed[f]
  BY <1>1, <1>2, ArchivesGrow
<1>3. CASE Renewed(f) /\ owed'[f] \in {owed[f], file[f]}
  <2>1. rows'[f] # NoRow /\ rows'[f].stamp = file[f]
    <3>1. [stamp |-> file[f], gws |-> FALSE, object |-> FALSE]
              \in [stamp : Nat, gws : BOOLEAN, object : BOOLEAN]
      BY <1>1
    <3>2. rows'[f] = [stamp |-> file[f], gws |-> FALSE, object |-> FALSE]
      BY <1>3 DEF Renewed
    <3>3. rows'[f].stamp = file[f]
      BY <3>2
    <3>4. rows'[f] # NoRow
      BY <3>1, <3>2
    <3> QED  BY <3>3, <3>4
  <2>2. file[f] >= owed'[f]
    BY <1>1, <1>3 DEF Renewed
  <2> QED  BY <2>1, <2>2
<1>4. CASE rows'[f] = rows[f] /\ rows[f] # NoRow /\ rows[f].stamp = file[f] /\ owed'[f] = file[f]
  BY <1>1, <1>4
<1>5. CASE FlagsOne(f) /\ owed'[f] = owed[f]
  BY <1>1, <1>5 DEF FlagsOne
<1>6. CASE Forgotten(f) /\ owed'[f] = owed[f]
  <2>1. sent[f] >= rows[f].stamp /\ object[f] >= rows[f].stamp /\ rows[f] # NoRow
    BY <1>6, Integers DEF Forgotten, Delivered, Pending, Queued, FlagsAreSent, Row
  <2> QED  BY <1>1, <1>6, <2>1 DEF Forgotten, archives
<1> QED  BY <1>2, <1>3, <1>4, <1>5, <1>6, RowSteps DEF RowStep

LEMMA ListsStep == DispatchInv /\ [Next]_vars => ListsAreFresh'
<1> SUFFICES ASSUME DispatchInv, [Next]_vars PROVE ListsAreFresh'
  OBVIOUS
<1> USE DEF DispatchInv
<1>0. /\ \A w \in Writers \cup {Orphan} : w \in Senders /\ w \notin Receivers
      /\ \A r \in Receivers : r \in Senders /\ r \notin Copying
      /\ \A w \in Copying : w \in Writers \cup {Orphan}
      /\ remains \subseteq Receivers /\ remains' \subseteq Receivers
  <2>1. LockInv'
    BY LockInvStep, StepUsesLock DEF vars
  <2> QED  BY <2>1 DEF Copying, Senders, Writers, LockInv, LockTypeOK
<1>1. ASSUME UNCHANGED <<listed, gws, sent, remains>>,
             \A w \in Writers : session[w] = "copying" => session'[w] = "copying",
             orphan => orphan'
      PROVE  ListsAreFresh'
  BY <1>1 DEF ListsAreFresh, Fresh, Running, Copying
\* Of this host's transfers, only the one that runs has a list.
<1>18. ASSUME NEW w \in Copying, NEW v \in Senders \ Receivers, v # w, NEW f \in Files
       PROVE  listed[v][f] = 0
  <2>1. v \notin Copying
    BY <1>18, HeldByOne
  <2> QED  BY <1>0, <2>1 DEF ListsAreFresh, Running
\* When it ends no list is left but those of receivers.
<1>2. ASSUME NEW w \in Copying, \A f \in Files : listed'[w][f] = 0,
             \A v \in Senders \ Receivers, f \in Files : v # w => listed'[v][f] = listed[v][f],
             \A r \in Receivers, f \in Files : listed'[r][f] # 0 => r \in remains'
      PROVE  ListsAreFresh'
  <2>1. \A v \in Senders \ Receivers, f \in Files : listed'[v][f] = 0
    BY <1>2, <1>18
  <2> QED  BY <1>2, <2>1 DEF ListsAreFresh, Running
<1>19. \A r \in Receivers, f \in Files : listed[r][f] # 0 => r \in remains
  BY <1>0 DEF ListsAreFresh, Running
<1>20. ASSUME NEW w \in Copying, Unlisted(w), remains' = remains PROVE ListsAreFresh'
  <2>1. \A v \in Senders : listed'[v] = IF v = w THEN Nothing ELSE listed[v]
    BY <1>20 DEF Unlisted, DispatchTypeOK
  <2> QED  BY <1>0, <1>2, <1>19, <1>20, <2>1 DEF Nothing
<1>21. ASSUME NEW w \in Copying, BrokenOff(w), remains \subseteq remains' PROVE ListsAreFresh'
  <2>1. \A v \in Senders : /\ v = w => listed'[v] = Nothing
                           /\ v # w /\ v \notin remains' \ remains => listed'[v] = listed[v]
    BY <1>21 DEF BrokenOff
  <2>2. ASSUME NEW r \in Receivers, NEW f \in Files, listed'[r][f] # 0 PROVE r \in remains'
    <3>1. r \in Senders /\ r # w
      BY <1>0
    <3>2. CASE r \in remains' \ remains
      BY <3>2
    <3>3. CASE r \notin remains' \ remains
      <4>1. listed'[r] = listed[r]
        BY <2>1, <3>1, <3>3
      <4> QED  BY <1>19, <1>21, <2>2, <4>1
    <3> QED  BY <3>2, <3>3
  <2>3. \A f \in Files : listed'[w][f] = 0
    <3>1. w \in Senders /\ listed'[w] = Nothing
      BY <1>0, <2>1
    <3> QED  BY <3>1 DEF Nothing
  <2>4. \A v \in Senders \ Receivers, f \in Files : v # w => listed'[v][f] = listed[v][f]
    BY <1>0, <2>1
  <2> QED  BY <1>2, <2>2, <2>3, <2>4
\* A helper that had not started its transfer has no list.
<1>3. ASSUME NEW w \in Writers, session[w] # "copying", BrokenOff(w), UNCHANGED <<orphan, remains>>,
             \A v \in Writers : v # w => session'[v] = session[v]
      PROVE  ListsAreFresh'
  <2>1. \A f \in Files : listed[w][f] = 0
    BY <1>0, <1>3 DEF ListsAreFresh, Running, Copying
  <2>2. \A v \in Senders, f \in Files : listed'[v][f] = listed[v][f]
    BY <1>3, <2>1 DEF BrokenOff, Nothing
  <2>3. \A f \in Files : gws'[f] = gws[f] /\ sent'[f] = sent[f]
    BY <1>3, <2>1 DEF BrokenOff, Published
  <2>4. Running \subseteq Running'
    BY <1>3 DEF Running, Copying
  <2> QED  BY <1>0, <1>3, <2>2, <2>3, <2>4 DEF ListsAreFresh, Fresh
<1>4. CASE UNCHANGED vars
  BY <1>1, <1>4 DEF vars, lockVars, dispatchVars
<1>5. CASE Unlocked
  <2>1. UNCHANGED <<lockVars, listed, gws, sent>>
    BY <1>5, UnlockedKeeps DEF Unlocked, TreeStep, Lands, Vanishes, Settles, Enqueue, Select,
       CheckFirst, MarkChanged, CheckAfterGws, CheckBeforeObject, CheckAfterObject, Checks,
       FlagGws, FlagObject, Upload, UploadFails, Finish, Discover, archives
  <2> QED  BY <1>1, <2>1 DEF lockVars
<1>6. CASE GwsAsks \/ GwsWaits \/ GwsDeferred
  <2>1. UNCHANGED <<listed, gws, sent, orphan, remains>>
    BY <1>6 DEF GwsAsks, GwsWaits, GwsDeferred, FastAsks, FastIntends, FastAcquires, FastExpires,
       lockVars, dispatchVars, archives
  <2>2. \A w \in Writers : session[w] = "copying" => session'[w] = "copying"
    BY <1>6 DEF GwsAsks, GwsWaits, GwsDeferred, FastAsks, FastIntends, FastAcquires, FastExpires,
       Closes, Goes, lockVars, LockInv, LockTypeOK
  <2> QED  BY <1>1, <2>1, <2>2
<1>7. CASE SyncDefers \/ SyncLocks \/ SyncCompletes
  <2>1. UNCHANGED <<listed, gws, sent, orphan, remains>>
    BY <1>7 DEF SyncDefers, SyncLocks, SyncCompletes, BulkIsRefused, BulkIntends, BulkAcquires,
       BulkOpensGate, BulkLeaves, lockVars, dispatchVars, archives
  <2>2. \A w \in Writers : session[w] = "copying" => session'[w] = "copying"
    BY <1>7 DEF SyncDefers, SyncLocks, SyncCompletes, BulkIsRefused, BulkIntends, BulkAcquires,
       BulkOpensGate, BulkLeaves, Closes, Goes, lockVars, LockInv, LockTypeOK
  <2> QED  BY <1>1, <2>1, <2>2
<1>8. ASSUME NEW w \in Writers, NEW S, StartsCopy(w),
             listed' = [listed EXCEPT ![w] = ListedNow(S)], UNCHANGED <<tree, archives>>
      PROVE  ListsAreFresh'
  <2>1. \A v \in Writers : session'[v] = IF v = w THEN "copying" ELSE session[v]
    BY <1>8 DEF StartsCopy, Goes, LockInv, LockTypeOK
  <2>2. orphan' = orphan /\ remains' = remains /\ w \in Copying' /\ Running \subseteq Running'
    BY <1>8, <2>1 DEF StartsCopy, Running, Copying
  <2>3. gws' = gws /\ sent' = sent
    BY <1>8 DEF archives
  <2>6. \A v \in Senders : v # w => listed'[v] = listed[v]
    BY <1>8 DEF DispatchTypeOK
  <2>7. \A r \in remains : listed'[r] = listed[r]
    BY <1>0, <2>6
  <2> SUFFICES ASSUME NEW v \in Senders, NEW f \in Files, listed'[v][f] # 0
               PROVE  v \in Running' /\ (v \notin Receivers => Fresh(f, listed[v][f])')
    BY DEF ListsAreFresh
  <2>4. CASE v = w
    <3>1. listed'[v][f] = file[f]
      BY <1>8, <2>4 DEF ListedNow, DispatchTypeOK
    <3>2. file[f] # 0
      BY <3>1
    <3>3. gws[f] <= file[f] /\ sent[f] <= file[f] /\ \A r \in remains : listed[r][f] <= file[f]
      BY <1>0, <3>2 DEF FilesAreNewest, Recent
    <3> QED  BY <2>2, <2>3, <2>4, <2>7, <3>1, <3>3 DEF Fresh, Running
  <2>5. CASE v # w
    <3>1. listed'[v] = listed[v]
      BY <2>5, <2>6
    <3>2. v \in Running /\ (v \notin Receivers => Fresh(f, listed[v][f]))
      BY <3>1 DEF ListsAreFresh
    <3> QED  BY <2>2, <2>3, <2>7, <3>1, <3>2 DEF Fresh
  <2> QED  BY <2>4, <2>5
<1>9. CASE GwsStarts
  BY <1>8, <1>9 DEF GwsStarts, Writers
<1>10. CASE SyncStarts
  BY <1>8, <1>10 DEF SyncStarts, Writers
<1>11. CASE GwsDelivers
  BY <1>20, <1>11 DEF GwsDelivers, EndsCopy, Copying, Writers
<1>12. CASE SyncEnds
  BY <1>20, <1>12 DEF SyncEnds, EndsCopy, Copying, Writers
<1>22. MayRemain => remains \subseteq remains'
  BY DEF MayRemain
<1>23. CASE GwsFails \/ SyncFails
  BY <1>21, <1>22, <1>23 DEF GwsFails, SyncFails, BreaksOff, Copying, Writers
<1>13. CASE OrphanPublishes
  BY <1>13, <1>21, <1>22 DEF OrphanPublishes, OrphanEnds, Copying
<1>14. ASSUME NEW w \in Writers, BrokenOff(w),
              KilledWithChild(w) \/ UNCHANGED lockVars,
              session[w] = "copying" => KilledWithChild(w)
       PROVE  ListsAreFresh'
  <2>1. CASE session[w] = "copying"
    BY <1>14, <1>21, <1>22, <2>1 DEF Copying, KilledWithChild
  <2>2. CASE session[w] # "copying"
    <3>2. orphan' = orphan /\ remains' = remains
      BY <1>14, <2>2 DEF KilledWithChild, lockVars
    <3>3. \A v \in Writers : v # w => session'[v] = session[v]
      BY <1>14 DEF KilledWithChild, Closes, Goes, LockInv, LockTypeOK, lockVars
    <3> QED  BY <1>3, <1>14, <2>2, <3>2, <3>3
  <2> QED  BY <2>1, <2>2
<1>15. CASE SyncKilled
  BY <1>14, <1>15 DEF SyncKilled, Writers
<1>16. CASE WorkerKilled
  BY <1>14, <1>16 DEF WorkerKilled, Writers
<1>17. ASSUME NEW w \in Writers, HelperKilled(w) PROVE ListsAreFresh'
  <2>1. /\ gws' = gws /\ sent' = sent /\ remains' = remains /\ Killed(w)
        /\ \A v \in Writers : session'[v] = IF v = w THEN "out" ELSE session[v]
    BY <1>17 DEF HelperKilled, Killed, Goes, LockInv, LockTypeOK, archives
  <2>2. CASE session[w] # "copying"
    BY <1>1, <1>17, <2>1, <2>2 DEF HelperKilled, Killed
  <2>3. CASE session[w] = "copying"
    <3>1. w \in Copying /\ w \in Senders /\ Orphan \in Senders /\ w # Orphan
      BY <1>0, <2>3 DEF Copying, Writers
    <3>2. \A v \in Senders \ Receivers, f \in Files : v # w => listed[v][f] = 0
      BY <1>18, <3>1
    <3>3. \A v \in Senders : listed'[v] = IF v = Orphan THEN listed[w]
                                          ELSE IF v = w THEN Nothing ELSE listed[v]
      BY <1>17, <2>3, <3>1 DEF HelperKilled, DispatchTypeOK
    <3>4. Orphan \in Running' /\ remains \subseteq Running'
      BY <2>1, <2>3 DEF Killed, Running, Copying
    <3>5. \A r \in Receivers : r \in Senders /\ r # Orphan /\ r # w /\ listed'[r] = listed[r]
      BY <1>0, <3>3
    <3> SUFFICES ASSUME NEW v \in Senders, NEW f \in Files, listed'[v][f] # 0
                 PROVE  v \in Running' /\ (v \notin Receivers => Fresh(f, listed[v][f])')
      BY DEF ListsAreFresh
    <3>6. CASE v \in Receivers
      BY <1>19, <3>4, <3>5, <3>6
    <3>7. CASE v \notin Receivers
      <4>1. v = Orphan /\ listed'[v] = listed[w]
        BY <3>2, <3>3, <3>7 DEF Nothing
      <4>2. Fresh(f, listed[w][f])
        BY <1>0, <3>1, <4>1 DEF ListsAreFresh
      <4> QED  BY <1>0, <2>1, <3>4, <3>5, <4>1, <4>2 DEF Fresh
    <3> QED  BY <3>6, <3>7
  <2> QED  BY <2>2, <2>3
\* A receiver that was left has nothing newer than what the transfer of this
\* host has listed.
<1>24. ASSUME NEW r \in Receivers, NEW g \in Files, ReceiverPublishes(r, g) PROVE ListsAreFresh'
  <2>1. /\ Running' = Running /\ remains' = remains /\ sent' = sent /\ r \in remains
        /\ \A v \in Senders, f \in Files :
               listed'[v][f] = IF v = r /\ f = g THEN 0 ELSE listed[v][f]
        /\ \A f \in Files : gws'[f] = IF f = g THEN listed[r][f] ELSE gws[f]
    BY <1>24 DEF ReceiverPublishes, Running, Copying, lockVars, DispatchTypeOK
  <2> SUFFICES ASSUME NEW v \in Senders, NEW f \in Files, listed'[v][f] # 0
               PROVE  v \in Running' /\ (v \notin Receivers => Fresh(f, listed[v][f])')
    BY DEF ListsAreFresh
  <2>2. listed'[v][f] = listed[v][f]
    BY <2>1
  <2>3. v \in Running /\ (v \notin Receivers => Fresh(f, listed[v][f]))
    BY <2>2 DEF ListsAreFresh
  <2>4. ASSUME v \notin Receivers, NEW q \in remains PROVE listed'[q][f] <= listed[v][f]
    <3>1. q \in Senders /\ listed[q][f] <= listed[v][f]
      BY <1>0, <2>3, <2>4 DEF Fresh
    <3> QED  BY <2>1, <3>1, Integers
  <2> QED  BY <2>1, <2>2, <2>3, <2>4 DEF Fresh
<1>25. ASSUME NEW r \in Receivers, ReceiverGoes(r) PROVE ListsAreFresh'
  <2>1. /\ Running \subseteq Running' \cup {r} /\ remains' \subseteq remains
        /\ gws' = gws /\ sent' = sent /\ r \in Senders
        /\ \A v \in Senders : listed'[v] = IF v = r THEN Nothing ELSE listed[v]
    BY <1>0, <1>25 DEF ReceiverGoes, ReceiverEnds, Unlisted, Running, Copying, DispatchTypeOK,
       archives
  <2> SUFFICES ASSUME NEW v \in Senders, NEW f \in Files, listed'[v][f] # 0
               PROVE  v \in Running' /\ (v \notin Receivers => Fresh(f, listed[v][f])')
    BY DEF ListsAreFresh
  <2>2. v # r /\ listed'[v][f] = listed[v][f]
    BY <2>1 DEF Nothing
  <2>3. v \in Running /\ (v \notin Receivers => Fresh(f, listed[v][f]))
    BY <2>2 DEF ListsAreFresh
  <2>4. \A q \in remains' : listed'[q][f] = listed[q][f]
    BY <1>0, <1>25, <2>1 DEF ReceiverGoes, ReceiverEnds
  <2> QED  BY <2>1, <2>2, <2>3, <2>4 DEF Fresh
<1> QED
  BY <1>4, <1>5, <1>6, <1>7, <1>9, <1>10, <1>11, <1>12, <1>13, <1>15, <1>16, <1>17, <1>23, <1>24,
     <1>25
  DEF Next, Unlocked, WorkerStep, SyncStep, Fault, Left

-----------------------------------------------------------------------------
\* Where the worker goes with what it has.
LEMMA WorkerMoves ==
    ASSUME DispatchTypeOK
    PROVE  /\ Select => worker.at = "idle" /\ worker'.at = "checks" /\ worker'.stable = {}
           /\ CheckFirst => /\ worker.at = "checks" /\ worker'.at \in {"gws", "marks"}
                            /\ worker'.stable = worker.stable
           /\ FlagGws => /\ worker.at = "gwsFlags" /\ worker'.at = "object"
                         /\ worker'.stable = {} /\ worker'.batch = worker.batch
           /\ FlagObject => worker.at = "objectFlags" /\ worker'.at = "ends" /\ worker'.stable = {}
           /\ Finish => worker.at = "ends" /\ worker'.at = "idle" /\ worker'.stable = {}
           /\ WorkerKilled => worker'.at = "idle" /\ worker'.stable = {}
           /\ UploadFails => worker.at = "uploads" /\ worker'.at = "ends" /\ worker'.stable = {}
           /\ Upload /\ worker.stable = {} =>
                  worker.at = "uploads" /\ worker'.at = "ends" /\ worker'.stable = {}
           /\ Upload /\ worker.stable # {} =>
                  /\ worker.at = "uploads" /\ worker'.at = "objectChecks"
                  /\ worker'.stable = worker.stable /\ worker'.batch = worker.batch
           /\ GwsAsks => /\ worker.at = "gws" /\ worker'.at \in {"object", "waits"}
                         /\ worker'.stable = worker.stable /\ worker'.batch = worker.batch
           /\ GwsDeferred \/ GwsFails => /\ worker'.at \in {"object", "gws"}
                                         /\ worker'.stable = worker.stable
                                         /\ worker'.batch = worker.batch
<1> USE DEF DispatchTypeOK, WorkerEnds, WorkerGoes, Idle
<1>1. Select => worker.at = "idle" /\ worker'.at = "checks" /\ worker'.stable = {}
  BY DEF Select
<1>2. CheckFirst => /\ worker.at = "checks" /\ worker'.at \in {"gws", "marks"}
                    /\ worker'.stable = worker.stable
  BY DEF CheckFirst
<1>3. FlagGws => /\ worker.at = "gwsFlags" /\ worker'.at = "object"
                 /\ worker'.stable = {} /\ worker'.batch = worker.batch
  BY DEF FlagGws
<1>4. FlagObject => worker.at = "objectFlags" /\ worker'.at = "ends" /\ worker'.stable = {}
  BY DEF FlagObject
<1>5. Finish => worker.at = "ends" /\ worker'.at = "idle" /\ worker'.stable = {}
  BY DEF Finish
<1>6. WorkerKilled => worker'.at = "idle" /\ worker'.stable = {}
  BY DEF WorkerKilled
<1>7. UploadFails => worker.at = "uploads" /\ worker'.at = "ends" /\ worker'.stable = {}
  BY DEF UploadFails
<1>8. Upload /\ worker.stable = {} =>
          worker.at = "uploads" /\ worker'.at = "ends" /\ worker'.stable = {}
  BY DEF Upload
<1>9. Upload /\ worker.stable # {} =>
          /\ worker.at = "uploads" /\ worker'.at = "objectChecks"
          /\ worker'.stable = worker.stable /\ worker'.batch = worker.batch
  BY DEF Upload
<1>10. GwsAsks => /\ worker.at = "gws" /\ worker'.at \in {"object", "waits"}
                  /\ worker'.stable = worker.stable /\ worker'.batch = worker.batch
  BY DEF GwsAsks
<1>11. GwsDeferred \/ GwsFails => /\ worker'.at \in {"object", "gws"}
                                  /\ worker'.stable = worker.stable
                                  /\ worker'.batch = worker.batch
  BY DEF GwsDeferred, GwsFails
<1> QED  BY <1>1, <1>2, <1>3, <1>4, <1>5, <1>6, <1>7, <1>8, <1>9, <1>10, <1>11

LEMMA StagesMove ==
    ASSUME DispatchTypeOK
    PROVE  /\ CheckAfterGws =>
                  /\ worker.at = "gwsChecks" /\ worker'.at \in {"gwsMarks", "gwsFlags"}
                  /\ worker'.batch = worker.batch /\ worker'.stable = Unchanged(GwsRows)
                  /\ UNCHANGED archives
           /\ CheckBeforeObject =>
                  /\ worker.at = "object" /\ worker'.at \in {"objectMarks", "uploads"}
                  /\ worker'.batch = worker.batch /\ worker'.stable = Unchanged(ObjectRows)
           /\ CheckAfterObject =>
                  /\ worker.at = "objectChecks"
                  /\ worker'.at \in {"objectMarksAfter", "objectFlags"}
                  /\ worker'.batch = worker.batch /\ worker'.stable = Unchanged(worker.stable)
                  /\ UNCHANGED archives
           /\ MarkChanged =>
                  /\ worker'.stable = worker.stable /\ worker'.batch = worker.batch
                  /\ UNCHANGED archives
                  /\ \/ worker.at \in {"marks", "objectMarks"} /\ worker'.at \in {"gws", "uploads"}
                     \/ worker.at = "gwsMarks" /\ worker'.at = "gwsFlags"
                     \/ worker.at = "objectMarksAfter" /\ worker'.at = "objectFlags"
<1>1. CheckAfterGws =>
          /\ worker.at = "gwsChecks" /\ worker'.at \in {"gwsMarks", "gwsFlags"}
          /\ worker'.batch = worker.batch /\ worker'.stable = Unchanged(GwsRows)
          /\ UNCHANGED archives
  BY DEF CheckAfterGws, Checks, DispatchTypeOK
<1>2. CheckBeforeObject =>
          /\ worker.at = "object" /\ worker'.at \in {"objectMarks", "uploads"}
          /\ worker'.batch = worker.batch /\ worker'.stable = Unchanged(ObjectRows)
  BY DEF CheckBeforeObject, Checks, DispatchTypeOK
<1>3. CheckAfterObject =>
          /\ worker.at = "objectChecks" /\ worker'.at \in {"objectMarksAfter", "objectFlags"}
          /\ worker'.batch = worker.batch /\ worker'.stable = Unchanged(worker.stable)
          /\ UNCHANGED archives
  BY DEF CheckAfterObject, Checks, DispatchTypeOK
<1>4. MarkChanged =>
          /\ worker'.stable = worker.stable /\ worker'.batch = worker.batch
          /\ UNCHANGED archives
          /\ \/ worker.at \in {"marks", "objectMarks"} /\ worker'.at \in {"gws", "uploads"}
             \/ worker.at = "gwsMarks" /\ worker'.at = "gwsFlags"
             \/ worker.at = "objectMarksAfter" /\ worker'.at = "objectFlags"
  BY DEF MarkChanged, PastMarks, DispatchTypeOK
<1> QED  BY <1>1, <1>2, <1>3, <1>4

\* The dispatcher's helper runs while the worker waits for it.
LEMMA WaitsStep == DispatchInv /\ [Next]_vars => WorkerWaits'
<1> SUFFICES ASSUME DispatchInv, [Next]_vars PROVE WorkerWaits'
  OBVIOUS
<1> USE DEF DispatchInv, WorkerWaits
<1>0. Dispatcher \in Writers /\ Sync \in Writers /\ Dispatcher # Sync /\ Dispatcher \notin Bulk
  BY DEF Writers
<1>1. CASE UNCHANGED <<worker, session>>
  BY <1>1
<1>2. CASE worker.at # "waits" /\ worker'.at # "waits" /\ session' = session
  BY <1>2
<1>3. CASE Select \/ CheckFirst \/ CheckAfterGws \/ CheckBeforeObject \/ CheckAfterObject
           \/ MarkChanged \/ FlagGws \/ FlagObject \/ Upload \/ UploadFails \/ Finish
  <2>1. session' = session
    BY <1>3, UnlockedKeeps DEF Unlocked, lockVars
  <2>2. worker.at # "waits" /\ worker'.at # "waits"
    BY <1>3, WorkerMoves, StagesMove
  <2> QED  BY <1>2, <2>1, <2>2
<1>4. CASE GwsAsks
  BY <1>0, <1>4 DEF GwsAsks, WorkerGoes, FastAsks, Goes, lockVars, DispatchTypeOK, LockInv,
     LockTypeOK
<1>5. CASE GwsWaits \/ GwsStarts
  <2>1. worker' = worker /\ session[Dispatcher] # "out" /\ session'[Dispatcher] # "out"
    BY <1>0, <1>5 DEF GwsWaits, GwsStarts, FastIntends, FastAcquires, StartsCopy, Goes,
       dispatchVars, LockInv, LockTypeOK
  <2> QED  BY <2>1
<1>6. CASE GwsDeferred \/ GwsDelivers \/ GwsFails
  <2>1. session'[Dispatcher] = "out"
    BY <1>0, <1>6 DEF GwsDeferred, GwsDelivers, GwsFails, FastExpires, EndsCopy, BreaksOff,
       Closes, Goes, LockInv, LockTypeOK
  <2>2. worker'.at # "waits"
    BY <1>6 DEF GwsDeferred, GwsDelivers, GwsFails, WorkerGoes, DispatchTypeOK
  <2> QED  BY <2>1, <2>2
<1>7. ASSUME worker' = worker, session'[Dispatcher] = session[Dispatcher] PROVE WorkerWaits'
  BY <1>7
<1>8. CASE SyncStep \/ SyncKilled
  <2>1. worker' = worker
    BY <1>8 DEF SyncStep, SyncDefers, SyncLocks, SyncStarts, SyncEnds, SyncFails,
       SyncCompletes, SyncKilled, dispatchVars
  <2>2. session'[Dispatcher] = session[Dispatcher]
    BY <1>0, <1>8 DEF SyncStep, SyncDefers, SyncLocks, SyncStarts, SyncEnds, SyncFails,
       SyncCompletes, SyncKilled, BulkIsRefused, BulkIntends, BulkAcquires, BulkOpensGate,
       BulkLeaves, StartsCopy, EndsCopy, BreaksOff, KilledWithChild, Closes, Goes, lockVars,
       LockInv, LockTypeOK
  <2> QED  BY <1>7, <2>1, <2>2
<1>9. CASE TreeStep \/ Discover
  BY <1>1, <1>9 DEF TreeStep, Lands, Vanishes, Settles, Enqueue, Discover, lockVars
<1>10. CASE OrphanPublishes
  BY <1>1, <1>10 DEF OrphanPublishes, OrphanEnds
<1>11. CASE WorkerKilled
  <2>1. session'[Dispatcher] = "out"
    BY <1>0, <1>11 DEF WorkerKilled, KilledWithChild, Closes, Goes, lockVars, LockInv, LockTypeOK
  <2>2. worker'.at # "waits"
    BY <1>11 DEF WorkerKilled, Idle
  <2> QED  BY <2>1, <2>2
<1>12. ASSUME NEW w \in Writers, HelperKilled(w) PROVE WorkerWaits'
  <2>1. \A v \in Writers : session'[v] = IF v = w THEN "out" ELSE session[v]
    BY <1>12 DEF HelperKilled, Killed, Goes, LockInv, LockTypeOK
  <2>2. CASE w = Sync
    BY <1>0, <1>7, <1>12, <2>1, <2>2 DEF HelperKilled
  <2>3. CASE w # Sync
    <3>1. w = Dispatcher
      BY <2>3 DEF Writers
    <3>2. worker'.at # "waits"
      BY <1>12, <2>3 DEF HelperKilled, WorkerGoes, DispatchTypeOK
    <3> QED  BY <2>1, <3>1, <3>2
  <2> QED  BY <2>2, <2>3
<1>13. CASE UNCHANGED vars
  BY <1>1, <1>13 DEF vars, lockVars, dispatchVars
<1>14. ASSUME NEW r \in Receivers, Left(r) PROVE WorkerWaits'
  BY <1>1, <1>14 DEF Left, ReceiverGoes, ReceiverEnds, ReceiverPublishes, lockVars
<1> QED
  BY <1>3, <1>4, <1>5, <1>6, <1>8, <1>9, <1>10, <1>11, <1>12, <1>13, <1>14
  DEF Next, WorkerStep, Fault

-----------------------------------------------------------------------------
\* A step that leaves the worker alone does not undo what it has done.
LEMMA StepsStayDone ==
    ASSUME DispatchInv, [Next]_vars, worker' = worker
    PROVE  StepsAreDone'
<1> USE DEF DispatchInv
<1>1. \A f \in worker.stable \cup GwsRows : f \in Files /\ worker.batch[f].stamp \in Nat
  BY Integers DEF BatchIsSent, StableIsBatch, Batch, GwsRows, Row
<1>2. ASSUME NEW f \in worker.stable \cup GwsRows
      PROVE  /\ sent[f] >= worker.batch[f].stamp => sent'[f] >= worker.batch[f].stamp
             /\ object[f] >= worker.batch[f].stamp => object'[f] >= worker.batch[f].stamp
  BY <1>1, ArchivesGrow, Integers
<1>3. \A f \in worker.stable : file[f] = 0 \/ file[f] > worker.batch[f].stamp =>
                                   file'[f] = 0 \/ file'[f] > worker.batch[f].stamp
  <2> TAKE f \in worker.stable
  <2>1. f \in Files /\ f \in Batch
    BY DEF BatchIsSent, StableIsBatch, Batch
  <2>2. worker.batch[f].stamp <= now /\ worker.batch[f].stamp \in Nat
    BY <1>1, <2>1 DEF FilesAreNewest, Recent, Batch
  <2> QED  BY <2>1, <2>2, FileSteps, Integers DEF FileStep
<1>4. /\ Batch' = Batch /\ GwsRows' = GwsRows /\ worker'.stable = worker.stable
      /\ worker'.at = worker.at /\ worker'.batch = worker.batch
  BY DEF Batch, GwsRows
<1>5. StepsAreDone
  BY DEF BatchIsSent
<1>6. worker.at = "gwsChecks" => \A f \in GwsRows : sent'[f] >= worker.batch[f].stamp
  BY <1>2, <1>5 DEF StepsAreDone, Sent
<1>7. worker.at \in {"gwsMarks", "gwsFlags"} =>
          \A f \in worker.stable : sent'[f] >= worker.batch[f].stamp
  BY <1>2, <1>5 DEF StepsAreDone, Sent
<1>8. worker.at = "objectChecks" =>
          \A f \in worker.stable : \/ object'[f] >= worker.batch[f].stamp
                                   \/ file'[f] = 0 \/ file'[f] > worker.batch[f].stamp
  BY <1>2, <1>3, <1>5 DEF StepsAreDone, Put
<1>9. worker.at \in {"objectMarksAfter", "objectFlags"} =>
          \A f \in worker.stable : object'[f] >= worker.batch[f].stamp
  BY <1>2, <1>5 DEF StepsAreDone, Put
<1> QED  BY <1>4, <1>6, <1>7, <1>8, <1>9 DEF StepsAreDone, Sent, Put

LEMMA StepsAreDoneStep == DispatchInv /\ [Next]_vars /\ DispatchTypeOK' => StepsAreDone'
<1> SUFFICES ASSUME DispatchInv, [Next]_vars, DispatchTypeOK' PROVE StepsAreDone'
  OBVIOUS
<1> USE DEF DispatchInv
<1>0. \A f \in Batch : /\ f \in Files /\ worker.batch[f].stamp \in Nat \ {0}
                       /\ file[f] # 0 => worker.batch[f].stamp <= file[f]
  BY Integers DEF Batch, FilesAreNewest, Recent, Row
<1>1. CASE worker' = worker
  BY <1>1, StepsStayDone
<1>2. CASE worker'.at \in Steps \ {"gwsChecks", "gwsMarks", "gwsFlags", "objectChecks",
                                   "objectMarksAfter", "objectFlags"}
  BY <1>2 DEF StepsAreDone
<1>3. CASE Select \/ CheckFirst \/ FlagGws \/ FlagObject \/ UploadFails \/ Finish \/ GwsAsks
           \/ GwsDeferred \/ GwsFails \/ WorkerKilled
  BY <1>2, <1>3, WorkerMoves DEF Steps
<1>4. CASE CheckBeforeObject
  BY <1>2, <1>4, StagesMove DEF Steps
<1>5. CASE CheckAfterGws
  <2>1. /\ worker'.stable \subseteq GwsRows /\ worker'.batch = worker.batch /\ sent' = sent
        /\ worker'.at \in {"gwsMarks", "gwsFlags"} /\ worker.at = "gwsChecks"
    BY <1>5, StagesMove DEF Unchanged, archives
  <2> QED  BY <2>1 DEF StepsAreDone, Sent, BatchIsSent
<1>6. CASE CheckAfterObject
  <2>1. /\ worker'.stable = Unchanged(worker.stable) /\ worker'.batch = worker.batch
        /\ worker'.at \in {"objectMarksAfter", "objectFlags"} /\ worker.at = "objectChecks"
        /\ object' = object
    BY <1>6, StagesMove DEF archives
  <2>2. \A f \in worker'.stable : Put(f)
    BY <1>0, <2>1, Integers DEF Unchanged, StepsAreDone, BatchIsSent, StableIsBatch
  <2> QED  BY <2>1, <2>2 DEF StepsAreDone, Put
<1>7. CASE MarkChanged
  <2>1. /\ worker'.stable = worker.stable /\ worker'.batch = worker.batch
        /\ UNCHANGED archives
        /\ \/ worker'.at \in {"gws", "uploads"}
           \/ worker.at = "gwsMarks" /\ worker'.at = "gwsFlags"
           \/ worker.at = "objectMarksAfter" /\ worker'.at = "objectFlags"
    BY <1>7, StagesMove
  <2> QED  BY <2>1 DEF StepsAreDone, Sent, Put, BatchIsSent, archives
<1>8. CASE GwsDelivers
  <2>1. /\ worker'.batch = worker.batch /\ worker'.at = "gwsChecks"
        /\ session[Dispatcher] = "copying" /\ Dispatcher \in Writers
    BY <1>8 DEF GwsDelivers, WorkerGoes, EndsCopy, DispatchTypeOK, Writers
  <2>2. \A f \in GwsRows : f \in Files /\ sent'[f] = listed[Dispatcher][f]
    BY <1>8 DEF GwsDelivers, Published, GwsRows, Batch
  <2>3. \A f \in GwsRows : sent'[f] >= worker.batch[f].stamp
    BY <1>8, <2>1, <2>2 DEF GwsDelivers, BatchIsSent, ListedIsBatch
  <2> QED  BY <2>1, <2>3 DEF StepsAreDone, Sent, GwsRows, Batch
<1>9. CASE Upload
  <2>1. CASE worker.stable = {}
    BY <1>2, <1>9, <2>1, WorkerMoves DEF Steps
  <2>2. CASE worker.stable # {}
    <3>1. /\ worker'.stable = worker.stable /\ worker'.batch = worker.batch
          /\ worker'.at = "objectChecks" /\ file' = file
      BY <1>9, <2>2, WorkerMoves DEF Upload, tree
    <3>2. \A f \in worker.stable : object'[f] >= worker.batch[f].stamp \/ file[f] = 0
      BY <1>0, <1>9, Integers DEF Upload, Puts, BatchIsSent, StableIsBatch
    <3> QED  BY <3>1, <3>2 DEF StepsAreDone, Put
  <2> QED  BY <2>1, <2>2
<1>10. ASSUME NEW w \in Writers, HelperKilled(w) PROVE StepsAreDone'
  <2>1. worker' = worker \/ worker'.at = "object"
    BY <1>10 DEF HelperKilled, WorkerGoes, DispatchTypeOK
  <2> QED  BY <1>1, <1>2, <2>1 DEF Steps
<1>11. CASE TreeStep \/ Discover \/ GwsWaits \/ GwsStarts \/ SyncStep \/ OrphanPublishes
            \/ SyncKilled \/ \E r \in Receivers : Left(r)
  BY <1>1, <1>11 DEF TreeStep, Lands, Vanishes, Settles, Enqueue, Discover, GwsWaits, GwsStarts,
     SyncStep, SyncDefers, SyncLocks, SyncStarts, SyncEnds, SyncFails,
     SyncCompletes, OrphanPublishes, SyncKilled, Left, ReceiverGoes, ReceiverPublishes,
     dispatchVars
<1>12. CASE UNCHANGED vars
  BY <1>1, <1>12 DEF vars, dispatchVars
<1> QED
  BY <1>3, <1>4, <1>5, <1>6, <1>7, <1>8, <1>9, <1>10, <1>11, <1>12 DEF Next, WorkerStep, Fault

LEMMA StableStep == DispatchInv /\ [Next]_vars => StableIsBatch'
<1> SUFFICES ASSUME DispatchInv, [Next]_vars PROVE StableIsBatch'
  OBVIOUS
<1> USE DEF DispatchInv, StableIsBatch, BatchIsSent
<1>1. CASE worker' = worker
  BY <1>1 DEF Batch
<1>2. CASE worker'.stable = {}
  BY <1>2
<1>3. CASE CheckFirst
  BY <1>3, WorkerMoves
<1>4. ASSUME worker'.batch = worker.batch, worker'.at # "checks",
             worker'.stable \subseteq Batch
      PROVE  StableIsBatch'
  BY <1>4 DEF Batch
<1>5. CASE Select \/ FlagObject \/ Finish \/ WorkerKilled \/ UploadFails \/ FlagGws
  BY <1>2, <1>5, WorkerMoves
<1>6. CASE CheckAfterGws \/ CheckBeforeObject \/ CheckAfterObject \/ MarkChanged
  BY <1>4, <1>6, StagesMove DEF Unchanged, GwsRows, ObjectRows
<1>7. CASE GwsAsks \/ GwsDeferred \/ GwsFails \/ Upload
  BY <1>2, <1>4, <1>7, WorkerMoves
<1>8. CASE GwsDelivers
  BY <1>4, <1>8 DEF GwsDelivers, WorkerGoes, DispatchTypeOK
<1>9. ASSUME NEW w \in Writers, HelperKilled(w) PROVE StableIsBatch'
  BY <1>1, <1>4, <1>9 DEF HelperKilled, WorkerGoes, DispatchTypeOK
<1>10. CASE TreeStep \/ Discover \/ GwsWaits \/ GwsStarts \/ SyncStep \/ OrphanPublishes
            \/ SyncKilled \/ \E r \in Receivers : Left(r)
  BY <1>1, <1>10 DEF TreeStep, Lands, Vanishes, Settles, Enqueue, Discover, GwsWaits, GwsStarts,
     SyncStep, SyncDefers, SyncLocks, SyncStarts, SyncEnds, SyncFails,
     SyncCompletes, OrphanPublishes, SyncKilled, Left, ReceiverGoes, ReceiverPublishes,
     dispatchVars
<1>11. CASE UNCHANGED vars
  BY <1>1, <1>11 DEF vars, dispatchVars
<1> QED
  BY <1>3, <1>5, <1>6, <1>7, <1>8, <1>9, <1>10, <1>11 DEF Next, WorkerStep, Fault

\* While the helper copies, the worker waits with the batch that it was given.
LEMMA ListedStep == DispatchInv /\ [Next]_vars /\ WorkerWaits' => ListedIsBatch'
<1> SUFFICES ASSUME DispatchInv, [Next]_vars, WorkerWaits', session'[Dispatcher] = "copying",
                    NEW f \in GwsRows', listed'[Dispatcher][f] # 0
             PROVE  listed'[Dispatcher][f] >= worker'.batch[f].stamp
  BY DEF ListedIsBatch
<1> USE DEF DispatchInv
<1>1. worker'.at = "waits"
  BY DEF WorkerWaits
<1>2. worker'.batch = worker.batch
  <2>1. CASE worker' = worker
    BY <2>1
  <2>2. CASE Select \/ CheckFirst \/ FlagGws \/ FlagObject \/ Finish \/ WorkerKilled \/ UploadFails
             \/ Upload \/ GwsAsks \/ GwsDeferred \/ GwsFails
    BY <1>1, <2>2, WorkerMoves
  <2>3. CASE CheckAfterGws \/ CheckBeforeObject \/ CheckAfterObject \/ MarkChanged
    BY <2>3, StagesMove
  <2>4. CASE GwsDelivers
    BY <2>4 DEF GwsDelivers, WorkerGoes, DispatchTypeOK
  <2>6. ASSUME NEW w \in Writers, HelperKilled(w) PROVE worker'.batch = worker.batch
    BY <2>6 DEF HelperKilled, WorkerGoes, DispatchTypeOK
  <2>7. CASE TreeStep \/ Discover \/ GwsWaits \/ GwsStarts \/ SyncStep \/ OrphanPublishes
             \/ SyncKilled \/ \E r \in Receivers : Left(r)
    BY <2>1, <2>7 DEF TreeStep, Lands, Vanishes, Settles, Enqueue, Discover, GwsWaits, GwsStarts,
       SyncStep, SyncDefers, SyncLocks, SyncStarts, SyncEnds, SyncFails,
       SyncCompletes, OrphanPublishes, SyncKilled, Left, ReceiverGoes, ReceiverPublishes,
     dispatchVars
  <2>8. CASE UNCHANGED vars
    BY <2>1, <2>8 DEF vars, dispatchVars
  <2> QED  BY <2>2, <2>3, <2>4, <2>6, <2>7, <2>8 DEF Next, WorkerStep, Fault
<1>3. f \in GwsRows /\ f \in Files /\ Dispatcher \in Senders \ Receivers /\ Dispatcher \in Writers
  BY <1>2 DEF GwsRows, Batch, Senders, Writers
<1>4. worker.batch[f].stamp \in Nat /\ (file[f] # 0 => worker.batch[f].stamp <= file[f])
  BY <1>3, Integers DEF FilesAreNewest, Recent, GwsRows, Batch, Row
<1>5. CASE listed'[Dispatcher][f] = listed[Dispatcher][f]
  <2>1. Dispatcher \in Copying
    BY <1>3, <1>5 DEF ListsAreFresh, Running, LockInv, LockTypeOK
  <2> QED  BY <1>2, <1>3, <1>5, <2>1 DEF BatchIsSent, ListedIsBatch, Copying
<1>6. CASE listed'[Dispatcher][f] = file[f]
  BY <1>2, <1>3, <1>4, <1>6, Integers
<1> QED  BY <1>3, <1>5, <1>6, ListSteps DEF ListStep

-----------------------------------------------------------------------------
LEMMA InvStep == DispatchInv /\ [Next]_vars => DispatchInv'
<1> SUFFICES ASSUME DispatchInv, [Next]_vars PROVE DispatchInv'
  OBVIOUS
<1>1. LockInv'
  BY LockInvStep, StepUsesLock DEF DispatchInv, vars
<1>2. DispatchTypeOK'
  BY TypesStep DEF DispatchInv
<1>3. WorkerWaits' /\ ListsAreFresh'
  BY WaitsStep, ListsStep
<1>4. FilesAreNewest' /\ FlagsAreSent' /\ OwedIsNamed'
  BY <1>2, NewestStep, FlagsStep, OwedStep
<1>5. BatchIsSent'
  BY <1>2, <1>3, StableStep, ListedStep, StepsAreDoneStep DEF BatchIsSent
<1> QED  BY <1>1, <1>2, <1>3, <1>4, <1>5 DEF DispatchInv

LEMMA InvAlways == Spec => []DispatchInv
BY InvInit, InvStep, PTL DEF Spec

(***************************************************************************)
(* Of two deliveries that write the workspace at once one is a receiver    *)
(* that was left: the two programs use the lock as LockSpec has it.        *)
(***************************************************************************)
THEOREM DeliveriesExclude == Spec => []OneTransfer
BY DispatchUsesLock, TransfersExclude, PTL

(***************************************************************************)
(* The flags of a row are true of the version that it names, but for what  *)
(* a receiver that was left has put back: each run has delivered what it   *)
(* flags (BatchIsSent), and what the transfers under the lock have sent    *)
(* only grows.                                                             *)
(***************************************************************************)
THEOREM FlagsAlwaysTrue == Spec => []FlagsAreTrue
<1>1. DispatchInv => FlagsAreTrue
  BY Integers DEF DispatchInv, FlagsAreSent, FlagsAreTrue, PutBack, Queued, Row
<1> QED  BY <1>1, InvAlways, PTL

(***************************************************************************)
(* What was queued is delivered or pending, or was put back: a row never   *)
(* names an older version, and is forgotten with both flags set only.      *)
(***************************************************************************)
THEOREM QueuedIsKept == Spec => []NothingQueuedIsLost
<1>1. DispatchInv => NothingQueuedIsLost
  <2> SUFFICES ASSUME DispatchInv, NEW f \in Files
               PROVE  /\ gws[f] >= owed[f] \/ PutBack(f) \/ (f \in Queued /\ ~rows[f].gws)
                      /\ object[f] >= owed[f] \/ (f \in Queued /\ ~rows[f].object)
    BY DEF NothingQueuedIsLost
  <2>1. gws[f] \in Nat /\ sent[f] \in Nat /\ owed[f] \in Nat
    BY Integers DEF DispatchInv
  <2>2. CASE rows[f] = NoRow
    BY <2>1, <2>2 DEF DispatchInv, OwedIsNamed, PutBack
  <2>3. CASE rows[f] # NoRow
    <3>1. f \in Queued /\ rows[f].stamp \in Nat /\ rows[f].stamp >= owed[f]
      BY <2>3, Integers DEF DispatchInv, OwedIsNamed, Queued, Row
    <3> QED  BY <2>1, <3>1, Integers DEF DispatchInv, FlagsAreSent, PutBack
  <2> QED  BY <2>2, <2>3
<1> QED  BY <1>1, InvAlways, PTL

(***************************************************************************)
(* What a transfer under the lock sends was the newest when it listed it,  *)
(* and neither the other writer nor a receiver that was left can have      *)
(* published anything newer since: the workspace goes back only when such  *)
(* a receiver publishes.                                                   *)
(***************************************************************************)
THEOREM WorkspaceAdvances == Spec => GwsNeverRegresses
<1>1. DispatchInv /\ [Next]_vars
          => [\A f \in Files :
                 /\ sent'[f] >= sent[f]
                 /\ gws'[f] >= gws[f] \/ \E r \in remains : gws'[f] = listed[r][f]]_vars
  BY ArchivesGrow
<1> QED  BY <1>1, InvAlways, PTL DEF Spec, GwsNeverRegresses

=============================================================================

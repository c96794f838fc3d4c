--------------------------- MODULE ArchiveDispatch ---------------------------
(***************************************************************************)
(* The newest-first delivery of raw files to the group workspace and to    *)
(* the object store (aurora-archive-dispatch.py), beside the bulk          *)
(* synchronisation of the same tree (aurora-gws-transfer.py bulk, run by   *)
(* aurora-gws-rsync-raw), the two of them serialised by DeliveryLock.      *)
(*                                                                         *)
(* A version of a file is its modification stamp.  Stamps grow with every  *)
(* write; size and stamp are compared together in the code, and two        *)
(* versions with the same size and second are not told apart here either.  *)
(*                                                                         *)
(* A transfer that is broken off may leave its receiver on the workspace   *)
(* host, which goes on to publish what it was sent, without the lock.      *)
(***************************************************************************)
EXTENDS DeliveryLock, FiniteSets

CONSTANTS
    Files,          \* raw paths of the job
    Dispatcher,     \* the fast writer, one worker under worker.lock
    Sync,           \* the bulk writer
    NoRow,          \* the queue has no row for a path
    MaxFiles,       \* limits.max_files_per_run
    BatchFiles,     \* gws_raw_batch_files
    MaxStamp,       \* bound: writes to the tree
    MaxFaults       \* bound: files removed, processes killed, deadlines passed

ASSUME DispatchAssumption ==
    /\ Fast = {Dispatcher} /\ Bulk = {Sync}
    /\ {MaxFiles, BatchFiles} \subseteq Nat \ {0}
    /\ {MaxStamp, MaxFaults} \subseteq Nat
    /\ NoRow \notin [stamp : Nat, gws : BOOLEAN, object : BOOLEAN]

VARIABLES
    file,           \* file -> stamp of what is in the tree, 0 for nothing
    now,            \* the last stamp
    settled,        \* stamps up to this one are older than settle_age
    rows,           \* the delivery table
    worker,         \* the run that holds worker.lock
    syncing,        \* a bulk run is in progress
    names,          \* what it has still to send
    listed,         \* transfer -> the versions it has listed
    gws,            \* file -> the version in the group workspace
    sent,           \* file -> the version that a transfer put there last
    object,         \* file -> the newest version put in the object store
    owed,           \* file -> the newest version ever queued
    faults

queue == <<rows, owed>>
tree == <<file, now, settled>>
archives == <<gws, sent, object>>
bulk == <<syncing, names>>
dispatchVars == <<file, now, settled, rows, worker, syncing, names, listed, gws,
                  sent, object, owed, faults>>
vars == <<lockVars, dispatchVars>>

Senders == Writers \cup {Orphan} \cup Receivers
Stamps == 0..MaxStamp
Row == [stamp : Stamps, gws : BOOLEAN, object : BOOLEAN]
Queued == {f \in Files : rows[f] # NoRow}
Pending == {f \in Queued : ~rows[f].gws \/ ~rows[f].object}

\* A run goes through these steps; those that end in "Marks" reset the rows of
\* files that were seen to have changed, those that end in "Flags" set the flag.
Steps == {"idle", "checks", "marks", "gws", "waits", "gwsChecks", "gwsMarks",
          "gwsFlags", "object", "objectMarks", "uploads", "objectChecks",
          "objectMarksAfter", "objectFlags", "ends"}

DispatchTypeOK ==
    /\ file \in [Files -> Stamps] /\ gws \in [Files -> Stamps]
    /\ sent \in [Files -> Stamps] /\ object \in [Files -> Stamps]
    /\ owed \in [Files -> Stamps]
    /\ {now, settled} \subseteq Stamps
    /\ rows \in [Files -> Row \cup {NoRow}]
    /\ worker \in [at : Steps, batch : [Files -> Row \cup {NoRow}],
                   stable : SUBSET Files, changed : SUBSET Files]
    /\ syncing \in BOOLEAN /\ names \subseteq Files
    /\ listed \in [Senders -> [Files -> Stamps]]
    /\ faults \in 0..MaxFaults

TypeOK == LockTypeOK /\ DispatchTypeOK

Nothing == [f \in Files |-> 0]
Idle == [at |-> "idle", batch |-> [f \in Files |-> NoRow], stable |-> {},
         changed |-> {}]

Init ==
    /\ LockInit
    /\ file = Nothing /\ owed = Nothing
    /\ gws = Nothing /\ sent = Nothing /\ object = Nothing
    /\ now = 0 /\ settled = 0 /\ faults = 0
    /\ rows = [f \in Files |-> NoRow]
    /\ worker = Idle /\ syncing = FALSE /\ names = {}
    /\ listed = [w \in Senders |-> Nothing]

-----------------------------------------------------------------------------
\* The tree: a source job lands or rewrites a file, a file is removed, and
\* time passes.
Lands(f) ==
    /\ now < MaxStamp
    /\ now' = now + 1
    /\ file' = [file EXCEPT ![f] = now + 1]
    /\ UNCHANGED <<lockVars, settled, queue, worker, bulk, listed, archives,
                   faults>>

Vanishes(f) ==
    /\ file[f] # 0
    /\ faults < MaxFaults /\ faults' = faults + 1
    /\ file' = [file EXCEPT ![f] = 0]
    /\ UNCHANGED <<lockVars, now, settled, queue, worker, bulk, listed, archives>>

Settles ==
    /\ settled < now
    /\ settled' = now
    /\ UNCHANGED <<lockVars, file, now, queue, worker, bulk, listed, archives,
                   faults>>

\* enqueue and scan: the row takes the version in the tree; the flags of the
\* same version are kept.  A version is not queued again once its row has been
\* forgotten: the scan looks back hours, the rows are kept for weeks.
Refreshed_KeepsFlags(row, stamp) ==
    IF row # NoRow THEN [row EXCEPT !.stamp = stamp]
    ELSE [stamp |-> stamp, gws |-> FALSE, object |-> FALSE]

Refreshed(row, stamp) ==
    IF row # NoRow /\ row.stamp = stamp THEN row
    ELSE [stamp |-> stamp, gws |-> FALSE, object |-> FALSE]

Enqueue(f) ==
    /\ file[f] # 0 /\ (f \in Queued \/ owed[f] # file[f])
    /\ rows' = [rows EXCEPT ![f] = Refreshed(@, file[f])]
    /\ owed' = [owed EXCEPT ![f] = file[f]]
    /\ UNCHANGED <<lockVars, tree, worker, bulk, listed, archives, faults>>

-----------------------------------------------------------------------------
\* The worker.  Rows are taken newest first; of the first 4 * MaxFiles, the
\* ones that have settled, up to MaxFiles.
Newer(f, S) == {g \in S : rows[g].stamp > rows[f].stamp}
Candidates == {f \in Pending : Cardinality(Newer(f, Pending)) < 4 * MaxFiles}
Ripe_Strictly == {f \in Candidates : rows[f].stamp < settled}
Ripe == {f \in Candidates : rows[f].stamp <= settled}
Selected == {f \in Ripe : Cardinality(Newer(f, Ripe)) < MaxFiles}

Batch == {f \in Files : worker.batch[f] # NoRow}

Select ==
    /\ worker.at = "idle" /\ Selected # {}
    /\ worker' = [Idle EXCEPT
           !.at = "checks",
           !.batch = [f \in Files |-> IF f \in Selected THEN rows[f] ELSE NoRow]]
    /\ UNCHANGED <<lockVars, tree, queue, bulk, listed, archives, faults>>

\* _rows_still_unchanged, over rows as they were selected.
Unchanged(S) == {f \in S : file[f] = worker.batch[f].stamp}

GwsRows == {f \in Batch : ~worker.batch[f].gws}
ObjectRows == {f \in Batch : ~worker.batch[f].object}

\* At the first of the four checks of a run the rows of changed files are left
\* out of the run.  The run goes on to its marks when a file has changed.
CheckFirst ==
    /\ worker.at = "checks"
    /\ worker' = [worker EXCEPT
           !.at = IF Batch = Unchanged(Batch) THEN "gws" ELSE "marks",
           !.batch = [f \in Files |-> IF f \in Unchanged(Batch) THEN @[f] ELSE NoRow],
           !.changed = Batch \ Unchanged(Batch)]
    /\ UNCHANGED <<lockVars, tree, queue, bulk, listed, archives, faults>>

\* The others tell the rows of a stage that are still stable.
Checks(at, S, marks, next) ==
    /\ worker.at = at
    /\ worker' = [worker EXCEPT !.stable = Unchanged(S),
                                !.changed = S \ Unchanged(S),
                                !.at = IF S = Unchanged(S) THEN next ELSE marks]
    /\ UNCHANGED <<lockVars, tree, queue, bulk, listed, archives, faults>>

CheckAfterGws == Checks("gwsChecks", GwsRows, "gwsMarks", "gwsFlags")
CheckBeforeObject == Checks("object", ObjectRows, "objectMarks", "uploads")
CheckAfterObject ==
    Checks("objectChecks", worker.stable, "objectMarksAfter", "objectFlags")

\* _mark_changed looks at each file again: a row that was seen to differ is
\* reset whatever it says by then, and one whose file is gone is left alone.
Remarked(f) ==
    IF f \in worker.changed /\ f \in Queued /\ file[f] # 0
    THEN [stamp |-> file[f], gws |-> FALSE, object |-> FALSE]
    ELSE rows[f]

PastMarks == [marks |-> "gws", gwsMarks |-> "gwsFlags", objectMarks |-> "uploads",
              objectMarksAfter |-> "objectFlags"]

MarkChanged ==
    /\ worker.at \in DOMAIN PastMarks
    /\ rows' = [f \in Files |-> Remarked(f)]
    /\ worker' = [worker EXCEPT !.at = PastMarks[@], !.changed = {}]
    /\ UNCHANGED <<lockVars, tree, owed, bulk, listed, archives, faults>>

\* _mark_destination: only a row that still names the version that was sent.
SameVersion_ByName(f) == rows[f] # NoRow
SameVersion(f) == rows[f] # NoRow /\ rows[f].stamp = worker.batch[f].stamp

WorkerGoes(step) == worker' = [worker EXCEPT !.at = step]
WorkerEnds == worker' = [Idle EXCEPT !.at = "ends"]

FlagGws ==
    /\ worker.at = "gwsFlags"
    /\ rows' = [f \in Files |-> IF f \in worker.stable /\ SameVersion(f)
                                THEN [rows[f] EXCEPT !.gws = TRUE] ELSE rows[f]]
    /\ worker' = [worker EXCEPT !.at = "object", !.stable = {}]
    /\ UNCHANGED <<lockVars, tree, owed, bulk, listed, archives, faults>>

FlagObject ==
    /\ worker.at = "objectFlags"
    /\ rows' = [f \in Files |-> IF f \in worker.stable /\ SameVersion(f)
                                THEN [rows[f] EXCEPT !.object = TRUE] ELSE rows[f]]
    /\ WorkerEnds
    /\ UNCHANGED <<lockVars, tree, owed, bulk, listed, archives, faults>>

-----------------------------------------------------------------------------
\* rsync lists its files when it starts and publishes what it has listed when
\* it ends (--delay-updates).
ListedNow(S) == [f \in Files |-> IF f \in S THEN file[f] ELSE 0]
Unlisted(w) == listed' = [listed EXCEPT ![w] = Nothing]

Published(w, S) ==
    LET there(f, before) == IF f \in S /\ listed[w][f] # 0 THEN listed[w][f] ELSE before
    IN  /\ gws' = [f \in Files |-> there(f, gws[f])]
        /\ sent' = [f \in Files |-> there(f, sent[f])]

\* One that is broken off may have published some of it by then; a receiver
\* that is left has the rest.  Leaving one counts with the faults, unless it is of
\* a kill, which has counted.
LeavingCounts ==
    IF remains' = remains THEN UNCHANGED faults
    ELSE faults < MaxFaults /\ faults' = faults + 1

BrokenOff(w) ==
    \E S \in SUBSET Files :
        /\ Published(w, S)
        /\ listed' = [v \in Senders |->
               IF v = w THEN Nothing
               ELSE IF v \in remains' \ remains
                    THEN [f \in Files |-> IF f \in S THEN 0 ELSE listed[w][f]]
                    ELSE listed[v]]

\* deliver_gws: the helper is run for a host; busy or interrupted, the paths
\* stay pending, failed, the next host is tried while there is one.
GwsAsks ==
    /\ worker.at = "gws"
    /\ IF GwsRows = {} THEN WorkerGoes("object") /\ UNCHANGED lockVars
                       ELSE WorkerGoes("waits") /\ FastAsks(Dispatcher)
    /\ UNCHANGED <<tree, queue, bulk, listed, archives, faults>>

GwsWaits ==
    /\ FastIntends(Dispatcher) \/ FastAcquires(Dispatcher)
    /\ UNCHANGED dispatchVars

GwsDeferred ==
    /\ faults < MaxFaults /\ faults' = faults + 1
    /\ FastExpires(Dispatcher)
    /\ WorkerGoes("object")
    /\ UNCHANGED <<tree, queue, bulk, listed, archives>>

GwsStarts ==
    /\ StartsCopy(Dispatcher)
    /\ listed' = [listed EXCEPT ![Dispatcher] = ListedNow(GwsRows)]
    /\ UNCHANGED <<tree, queue, worker, bulk, archives, faults>>

\* A listed name without a file makes rsync fail (exit 23).
GwsDelivers ==
    /\ EndsCopy(Dispatcher)
    /\ \A f \in GwsRows : listed[Dispatcher][f] # 0
    /\ Published(Dispatcher, Files)
    /\ Unlisted(Dispatcher)
    /\ WorkerGoes("gwsChecks")
    /\ UNCHANGED <<tree, queue, bulk, object, faults>>

GwsFails ==
    /\ BreaksOff(Dispatcher) /\ LeavingCounts
    /\ BrokenOff(Dispatcher)
    /\ WorkerGoes("gws") \/ WorkerGoes("object")
    /\ UNCHANGED <<tree, queue, bulk, object>>

\* deliver_object, from the listing of the source to the end of the last upload.
Puts(S) == object' = [f \in Files |-> IF f \in S /\ file[f] > object[f]
                                      THEN file[f] ELSE object[f]]

Upload ==
    /\ worker.at = "uploads"
    /\ Puts(worker.stable)
    /\ IF worker.stable = {} THEN WorkerEnds ELSE WorkerGoes("objectChecks")
    /\ UNCHANGED <<lockVars, tree, queue, bulk, listed, gws, sent, faults>>

UploadFails ==
    /\ worker.at = "uploads" /\ worker.stable # {}
    /\ \E S \in SUBSET worker.stable : Puts(S)
    /\ WorkerEnds
    /\ UNCHANGED <<lockVars, tree, queue, bulk, listed, gws, sent, faults>>

\* The end of a run forgets the rows that were delivered to both long ago.
Delivered == Queued \ Pending

Finish ==
    /\ worker.at = "ends"
    /\ \E old \in SUBSET Delivered :
           rows' = [f \in Files |-> IF f \in old THEN NoRow ELSE rows[f]]
    /\ worker' = Idle
    /\ UNCHANGED <<lockVars, tree, owed, bulk, listed, archives, faults>>

-----------------------------------------------------------------------------
\* The bulk writer: names are discovered without the lock, by comparing the
\* tree with the workspace; each batch of them is listed and sent under it.
Differs(f) == file[f] # 0 /\ file[f] # gws[f]

Discover ==
    /\ ~syncing /\ syncing' = TRUE
    /\ names' = {f \in Files : Differs(f)}
    /\ UNCHANGED <<lockVars, tree, queue, worker, listed, archives, faults>>

SyncStops == syncing' = FALSE /\ names' = {}

\* Refused by either lock it exits 75; the next timer discovers again.
SyncDefers ==
    /\ \/ BulkIsRefused(Sync)
       \/ syncing /\ session[Sync] = "out" /\ ~MayIntend(Sync) /\ UNCHANGED lockVars
    /\ SyncStops
    /\ UNCHANGED <<tree, queue, worker, listed, archives, faults>>

SyncLocks ==
    /\ \/ syncing /\ BulkIntends(Sync)
       \/ BulkAcquires(Sync) \/ BulkOpensGate(Sync)
    /\ UNCHANGED dispatchVars

\* A batch is chosen under the lock, and the run ends when there is none.
SyncStarts ==
    /\ StartsCopy(Sync)
    /\ \E batch \in SUBSET names \ {{}} :
           /\ Cardinality(batch) <= BatchFiles
           /\ names' = names \ batch
           /\ listed' = [listed EXCEPT ![Sync] = ListedNow(batch)]
    /\ UNCHANGED <<tree, queue, worker, syncing, archives, faults>>

SyncCompletes ==
    /\ names = {} /\ BulkLeaves(Sync)
    /\ SyncStops
    /\ UNCHANGED <<tree, queue, worker, listed, archives, faults>>

\* After a batch that succeeded (0, or 24 for a source that vanished) the next
\* one is tried; any other result ends the run.
SyncEnds ==
    /\ EndsCopy(Sync)
    /\ Published(Sync, Files) /\ Unlisted(Sync)
    /\ UNCHANGED <<tree, queue, worker, bulk, object, faults>>

SyncFails ==
    /\ BreaksOff(Sync) /\ LeavingCounts
    /\ BrokenOff(Sync)
    /\ SyncStops
    /\ UNCHANGED <<tree, queue, worker, object>>

-----------------------------------------------------------------------------
\* Processes are killed: the helper of a writer alone, whose rsync goes on, or
\* a whole service, whose rsync is broken off where it is.
HelperKilled(w) ==
    /\ faults < MaxFaults /\ faults' = faults + 1
    /\ Killed(w)
    /\ listed' = IF session[w] = "copying"
                 THEN [listed EXCEPT ![Orphan] = listed[w], ![w] = Nothing]
                 ELSE listed
    /\ IF w = Sync THEN SyncStops /\ UNCHANGED worker
                   ELSE WorkerGoes("object") /\ UNCHANGED bulk
    /\ UNCHANGED <<tree, queue, archives>>

OrphanPublishes ==
    /\ OrphanEnds
    /\ BrokenOff(Orphan)
    /\ UNCHANGED <<tree, queue, worker, bulk, object, faults>>

SyncKilled ==
    /\ faults < MaxFaults /\ faults' = faults + 1
    /\ KilledWithChild(Sync)
    /\ BrokenOff(Sync)
    /\ SyncStops
    /\ UNCHANGED <<tree, queue, worker, object>>

WorkerKilled ==
    /\ faults < MaxFaults /\ faults' = faults + 1
    /\ worker.at # "idle" /\ worker' = Idle
    /\ IF session[Dispatcher] = "out" THEN UNCHANGED lockVars
                                      ELSE KilledWithChild(Dispatcher)
    /\ BrokenOff(Dispatcher)
    /\ UNCHANGED <<tree, queue, bulk, object>>

\* A receiver that was left publishes path after path, until it ends too.
ReceiverPublishes(r, f) ==
    /\ r \in remains /\ listed[r][f] # 0
    /\ gws' = [gws EXCEPT ![f] = listed[r][f]]
    /\ listed' = [listed EXCEPT ![r][f] = 0]
    /\ UNCHANGED <<lockVars, tree, queue, worker, bulk, sent, object, faults>>

ReceiverGoes(r) ==
    /\ ReceiverEnds(r)
    /\ Unlisted(r)
    /\ UNCHANGED <<tree, queue, worker, bulk, archives, faults>>

-----------------------------------------------------------------------------
TreeStep == Settles \/ \E f \in Files : Lands(f) \/ Vanishes(f) \/ Enqueue(f)
WorkerStep ==
    \/ Select \/ CheckFirst \/ MarkChanged \/ GwsAsks \/ GwsWaits \/ GwsStarts
    \/ GwsDelivers \/ CheckAfterGws \/ FlagGws \/ CheckBeforeObject \/ Upload
    \/ CheckAfterObject \/ FlagObject \/ Finish
SyncStep ==
    SyncDefers \/ SyncLocks \/ SyncStarts \/ SyncEnds \/ SyncFails \/ SyncCompletes
Left(r) == ReceiverGoes(r) \/ \E f \in Files : ReceiverPublishes(r, f)
Fault ==
    \/ GwsDeferred \/ GwsFails \/ UploadFails \/ SyncKilled \/ WorkerKilled
    \/ \E w \in Writers : HelperKilled(w)

Next ==
    \/ TreeStep \/ WorkerStep \/ Discover \/ SyncStep \/ OrphanPublishes \/ Fault
    \/ \E r \in Receivers : Left(r)

Spec == Init /\ [][Next]_vars

(***************************************************************************)
(* The two timers start the worker and the scan again and again, time      *)
(* passes, and a process that runs goes on.  The polls for the two locks   *)
(* succeed if they could again and again: the lock is free for good while  *)
(* the intent is held.  Transfers may fail as often as they like, but not  *)
(* for ever all of them.  A receiver that was left ends: its connection is *)
(* gone.                                                                   *)
(***************************************************************************)
Transfers == GwsDelivers \/ SyncEnds \/ (worker.stable # {} /\ Upload)

FairSpec ==
    /\ Spec /\ WF_vars(Settles) /\ WF_vars(SyncStep) /\ WF_vars(OrphanPublishes)
    /\ WF_vars(WorkerStep) /\ WF_vars(GwsDelivers \/ GwsFails) /\ WF_vars(Discover)
    /\ SF_vars(GwsWaits) /\ SF_vars(Transfers)
    /\ \A r \in Receivers : WF_vars(Left(r))

-----------------------------------------------------------------------------
\* A receiver that was left has put a path back to an older version than the
\* one that a transfer under the lock had put there last.
PutBack(f) == gws[f] < sent[f]

(***************************************************************************)
(* The content of the group workspace goes back to an older version only   *)
(* by the hand of a receiver that was left by a transfer that was broken   *)
(* off.  The transfers under the lock send no version older than was there *)
(* before, such receivers or not: two writers list at one moment and       *)
(* publish at another.                                                     *)
(***************************************************************************)
GwsNeverRegresses ==
    [][\A f \in Files :
           /\ sent'[f] >= sent[f]
           /\ gws'[f] >= gws[f] \/ \E r \in remains : gws'[f] = listed[r][f]]_vars

(***************************************************************************)
(* A flag of the queue is the truth about the version its row names, for   *)
(* as long as the row is there: the file may have changed between its      *)
(* selection, its transfer and the flag, been queued again meanwhile, and  *)
(* the other writer may have published since.  For the workspace this is   *)
(* short of the paths that a receiver that was left has put back.          *)
(***************************************************************************)
FlagsAreTrue ==
    \A f \in Queued :
        /\ rows[f].gws => gws[f] >= rows[f].stamp \/ PutBack(f)
        /\ rows[f].object => object[f] >= rows[f].stamp

(***************************************************************************)
(* What was queued once is in each archive, in that version or a newer     *)
(* one, or is still pending for it: through changes of the file, deferred  *)
(* and failed transfers, killed workers and the removal of old rows; for   *)
(* the workspace, again, short of what was put back.                       *)
(***************************************************************************)
NothingQueuedIsLost ==
    \A f \in Files :
        /\ gws[f] >= owed[f] \/ PutBack(f) \/ (f \in Queued /\ ~rows[f].gws)
        /\ object[f] >= owed[f] \/ (f \in Queued /\ ~rows[f].object)

(***************************************************************************)
(* The dispatcher that waits for the delivery lock comes to hold it, or is *)
(* killed or gives up: bulk batches cannot overtake it for ever.           *)
(***************************************************************************)
FastIsServed == []<>(session[Dispatcher] # "waiting")

(***************************************************************************)
(* Once the tree is left alone every queued file reaches both archives and *)
(* the workspace comes to hold the tree.  What a receiver that was left    *)
(* has put back does not stay so, although no row of the queue asks for it *)
(* any more: the scan of the whole tree compares with the workspace, and   *)
(* comes through when the dispatcher has nothing left to send.  The rows   *)
(* of files that are gone stay pending and keep the first places of every  *)
(* batch, so that they must come to be none.                               *)
(***************************************************************************)
NoRowIsGone == \A f \in Queued : file[f] # 0
TreeIsHeld == \A f \in Files : file[f] = 0 \/ gws[f] = file[f]

ArchivesCatchUp == <>[]NoRowIsGone => <>[](Pending = {} /\ TreeIsHeld)

=============================================================================

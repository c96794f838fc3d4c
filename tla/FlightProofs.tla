---------------------------- MODULE FlightProofs ----------------------------
(***************************************************************************)
(* What the registry of flights claims is so, what was received is never   *)
(* overwritten, and the products keep to the order that readers rely on,   *)
(* for any number of keys, flights, uploads and faults.                    *)
(***************************************************************************)
EXTENDS FlightProducts, FiniteSetTheorems, TLAPS

USE SyncAssumption, ProductsAssumption

SyncNext == (\E k \in Keys : Uploads(k)) \/ SyncStep \/ SyncFault
ingest == <<upstream, stamp, store, sync>>

-----------------------------------------------------------------------------
\* An object that is listed was uploaded, and what was uploaded has bytes.
ObjectsHaveBytes ==
    /\ \A k \in Keys : upstream[k].stamp # 0 => upstream[k].bytes # 0
    /\ \A e \in sync.todo \cup sync.entry : e.stamp # 0 /\ upstream[e.key].stamp # 0

\* A row holds bytes, and its path is canonical or is that of a recorded version.
RowsHaveBytes == \A r \in rows : r.bytes # 0 /\ file[r.key][r.path] = r.bytes
PathIsVersion ==
    \A r \in rows : r.path # 0 => \E q \in rows : q.key = r.key /\ q.stamp = r.path

\* The objects that a run has in hand are of different keys and not yet recorded.
TodoIsNew ==
    /\ \A e \in sync.todo \cup sync.entry, r \in rows :
           r.key = e.key => r.stamp # e.stamp
    /\ \A d, e \in sync.todo : d.key = e.key => d = e
    /\ \A d \in sync.todo, e \in sync.entry : d.key # e.key

\* A received object is at its path before it is recorded there.
EntryIsStored ==
    /\ sync.at # "record" => sync.entry = {}
    /\ \A e \in sync.entry :
           /\ sync.got # 0 /\ file[e.key][sync.path] = sync.got
           /\ sync.path \in {0, e.stamp} \/ \E q \in Prior(e.key) : q.path = sync.path
    /\ sync.entry = {} \/ \E e \in sync.entry : sync.entry = {e}

FlagsAreQueued ==
    /\ \A r \in rows : r.enqueued => <<r.key, r.path>> \in queued
    /\ sync.at = "flag" => sync.paths \subseteq queued

IngestInv ==
    /\ SyncTypeOK /\ ObjectsHaveBytes /\ RowsHaveBytes /\ PathIsVersion
    /\ TodoIsNew /\ EntryIsStored /\ FlagsAreQueued

LEMMA IngestInvInit == SyncInit => IngestInv
<1> SUFFICES ASSUME SyncInit PROVE IngestInv
  OBVIOUS
<1> USE DEF SyncInit, NoSync
<1>1. 0 \in Stamps
  BY DEF Stamps
<1>2. SyncTypeOK
  BY <1>1 DEF SyncTypeOK, Run, Row
<1>3. ObjectsHaveBytes /\ RowsHaveBytes /\ PathIsVersion
  BY DEF ObjectsHaveBytes, RowsHaveBytes, PathIsVersion
<1>4. TodoIsNew /\ EntryIsStored /\ FlagsAreQueued
  BY DEF TodoIsNew, EntryIsStored, FlagsAreQueued
<1> QED  BY <1>2, <1>3, <1>4 DEF IngestInv

-----------------------------------------------------------------------------
LEMMA RunFails ==
    ASSUME NEW s \in Run, NEW v \in BOOLEAN PROVE [s EXCEPT !.failed = v] \in Run
BY DEF Run

LEMMA RowIsFlagged ==
    ASSUME NEW r \in Row
    PROVE  LET q == [r EXCEPT !.enqueued = TRUE]
           IN  /\ q \in Row /\ q.key = r.key /\ q.stamp = r.stamp
               /\ q.path = r.path /\ q.bytes = r.bytes
BY DEF Row

LEMMA FileIsWritten ==
    ASSUME file \in [Keys -> [Stamps -> Stamps]],
           NEW k \in Keys, NEW p \in Stamps, NEW b \in Stamps
    PROVE  [file EXCEPT ![k][p] = b] \in [Keys -> [Stamps -> Stamps]]
OBVIOUS

LEMMA SyncTypesStep == SyncTypeOK /\ SyncNext => SyncTypeOK'
<1> SUFFICES ASSUME SyncTypeOK, SyncNext PROVE SyncTypeOK'
  OBVIOUS
<1> USE DEF SyncTypeOK, store
<1>0. 0 \in Stamps /\ NoSync \in Run
  BY DEF Stamps, NoSync, Run
<1>1. ASSUME NEW k \in Keys, Uploads(k) PROVE SyncTypeOK'
  <2>1. stamp + 1 \in Stamps
    BY <1>1 DEF Uploads, Stamps
  <2>2. upstream' \in [Keys -> [stamp : Stamps, bytes : Stamps]]
    BY <1>1, <2>1 DEF Uploads
  <2> QED  BY <1>1, <2>1, <2>2 DEF Uploads
<1>2. CASE SyncBegins
  <2>1. Listing \subseteq Entry /\ Selected \subseteq Listing
    BY DEF Listing, Entry, Selected, Candidates
  <2> DEFINE more == Candidates \ Selected
  <2>2. more \subseteq Entry
    BY <2>1 DEF Candidates
  <2> HIDE DEF more
  <2>3. sync' = [NoSync EXCEPT !.at = "ingest", !.listed = Listing, !.todo = Selected,
                               !.left = more]
    BY <1>2 DEF SyncBegins, more
  <2>4. sync' \in Run
    BY <1>0, <2>1, <2>2, <2>3 DEF Run
  <2> QED  BY <1>2, <2>4 DEF SyncBegins
<1>3. ASSUME NEW e \in sync.todo, Receives(e) PROVE SyncTypeOK'
  <2>1. e \in Entry
    BY DEF Run
  <2>2. e.key \in Keys /\ e.stamp \in Stamps /\ upstream[e.key].bytes \in Stamps
    BY <2>1 DEF Entry
  <2>3. Same(e.key, upstream[e.key].bytes) \subseteq Stamps
    BY <1>0 DEF Same, Prior, Row
  <2>4. ASSUME NEW path \in Stamps,
               sync' = [sync EXCEPT !.at = "record", !.todo = @ \ {e}, !.entry = {e},
                                    !.got = upstream[e.key].bytes, !.path = path]
        PROVE  sync' \in Run
    BY <2>1, <2>2, <2>4 DEF Run
  <2>5. sync' \in Run
    BY <1>0, <1>3, <2>2, <2>3, <2>4 DEF Receives
  <2>6. file' \in [Keys -> [Stamps -> Stamps]]
    <3> DEFINE final == IF IsCanonical(e.key) THEN 0 ELSE e.stamp
    <3>1. file' = file \/ file' = [file EXCEPT ![e.key][final] = upstream[e.key].bytes]
      BY <1>3 DEF Receives
    <3>2. final \in Stamps
      BY <1>0, <2>2
    <3>3. CASE file' = file
      BY <3>3
    <3>4. CASE file' = [file EXCEPT ![e.key][final] = upstream[e.key].bytes]
      <4> DEFINE bytes == upstream[e.key].bytes
      <4>1. file' = [file EXCEPT ![e.key][final] = bytes] /\ bytes \in Stamps /\ e.key \in Keys
        BY <2>2, <3>4
      <4> HIDE DEF bytes, final
      <4>2. [file EXCEPT ![e.key][final] = bytes] \in [Keys -> [Stamps -> Stamps]]
        BY <3>2, <4>1, FileIsWritten
      <4> QED  BY <4>1, <4>2
    <3> QED  BY <3>1, <3>3, <3>4
  <2> QED  BY <1>3, <2>5, <2>6 DEF Receives
<1>4. CASE Records
  <2>1. rows' \subseteq Row
    <3>1. \A e \in sync.entry : e \in Entry
      BY DEF Run
    <3>2. \A e \in sync.entry : NewRow(e) \in Row
      BY <3>1 DEF Run, Row, Entry, NewRow, Version
    <3> QED  BY <1>4, <3>2, Zenon DEF Records
  <2>2. sync' \in Run
    BY <1>0, <1>4 DEF Records, Run
  <2> QED  BY <1>4, <2>1, <2>2 DEF Records
<1>5. CASE Enqueues
  <2>1. PendingPaths \subseteq Keys \X Stamps
    BY DEF PendingPaths, Row
  <2>2. sync' \in Run
    BY <1>5, <2>1 DEF Enqueues, Run
  <2> QED  BY <1>5, <2>1, <2>2 DEF Enqueues
<1>6. CASE Flags
  <2>1. rows' \subseteq Row
    BY <1>6, RowIsFlagged DEF Flags, Flagged
  <2>2. sync' \in Run
    BY <1>6 DEF Flags, Run
  <2> QED  BY <1>6, <2>1, <2>2 DEF Flags
<1>7. CASE SyncEnds
  BY <1>0, <1>7 DEF SyncEnds
<1>8. CASE SyncKilled
  BY <1>0, <1>8 DEF SyncKilled, Fails
<1>9. CASE EnqueueFails
  <2>1. [sync EXCEPT !.at = "ends"] \in Run
    BY DEF Run
  <2>2. sync' = [[sync EXCEPT !.at = "ends"] EXCEPT !.failed = TRUE]
    BY <1>9, Zenon DEF EnqueueFails
  <2>3. sync' \in Run
    BY <2>1, <2>2, RunFails, Zenon
  <2> QED  BY <1>9, <2>3 DEF EnqueueFails, Fails
<1>10. ASSUME NEW e \in sync.todo, DownloadFails(e) \/ IsRefused(e) PROVE SyncTypeOK'
  <2> DEFINE ended == [sync EXCEPT !.todo = @ \ {e}]
  <2>1. ended \in Run
    BY DEF Run
  <2>2. sync' = [ended EXCEPT !.failed = TRUE]
    BY <1>10, Zenon DEF DownloadFails, IsRefused
  <2>3. sync' \in Run
    BY <2>1, <2>2, RunFails, Zenon
  <2> QED  BY <1>10, <2>3 DEF DownloadFails, IsRefused, Fails
<1> QED
  BY <1>1, <1>2, <1>3, <1>4, <1>5, <1>6, <1>7, <1>8, <1>9, <1>10
  DEF SyncNext, SyncStep, SyncFault

\* A step that leaves the store alone, and of the run only gives up or ends something.
LEMMA GivesUpKeeps ==
    ASSUME IngestInv, SyncTypeOK', UNCHANGED <<upstream, stamp, store>>,
           sync'.todo \subseteq sync.todo, sync'.entry = {},
           sync'.at \in {"idle", "ingest", "ends"}
    PROVE  IngestInv'
<1> USE DEF IngestInv, store
<1>1. ObjectsHaveBytes' /\ RowsHaveBytes' /\ PathIsVersion'
  BY DEF ObjectsHaveBytes, RowsHaveBytes, PathIsVersion
<1>2. TodoIsNew' /\ EntryIsStored' /\ FlagsAreQueued'
  BY DEF TodoIsNew, EntryIsStored, FlagsAreQueued
<1> QED  BY <1>1, <1>2

LEMMA UploadsKeeps ==
    ASSUME IngestInv, SyncTypeOK', NEW k \in Keys, Uploads(k) PROVE IngestInv'
<1> USE DEF IngestInv, Uploads, store
<1>1. PICK b \in {stamp + 1, upstream[k].bytes} \ {0} :
          upstream' = [upstream EXCEPT ![k] = [stamp |-> stamp + 1, bytes |-> b]]
  OBVIOUS
<1>2. stamp + 1 # 0
  BY DEF SyncTypeOK, Stamps
<1>3. \A l \in Keys : upstream'[l] = IF l = k THEN [stamp |-> stamp + 1, bytes |-> b]
                                     ELSE upstream[l]
  BY <1>1 DEF SyncTypeOK
<1>4. \A e \in sync.todo \cup sync.entry : e.key \in Keys
  BY DEF SyncTypeOK, Run, Entry
<1>5. ObjectsHaveBytes'
  BY <1>2, <1>3, <1>4 DEF ObjectsHaveBytes
<1>6. RowsHaveBytes' /\ PathIsVersion' /\ TodoIsNew' /\ EntryIsStored' /\ FlagsAreQueued'
  BY DEF RowsHaveBytes, PathIsVersion, TodoIsNew, EntryIsStored, FlagsAreQueued, Prior
<1> QED  BY <1>5, <1>6

LEMMA BeginsKeeps == ASSUME IngestInv, SyncTypeOK', SyncBegins PROVE IngestInv'
<1> USE DEF IngestInv, store
<1>1. Selected \subseteq Candidates /\ Candidates \subseteq Listing
  BY DEF Selected, Candidates
<1>2. \A e \in Listing : e.stamp # 0 /\ e.stamp = upstream[e.key].stamp
  BY DEF Listing
<1>3. \A d, e \in Listing : d.key = e.key => d = e
  BY DEF Listing
<1>4. ASSUME NEW e \in Candidates, NEW r \in rows, r.key = e.key PROVE r.stamp # e.stamp
  BY <1>1, <1>2, <1>4 DEF Candidates, Known, Prior, RowsHaveBytes
<1>5. sync'.todo = Selected /\ sync'.entry = {} /\ sync'.at = "ingest"
  BY DEF SyncBegins, NoSync
<1>6. ObjectsHaveBytes'
  BY <1>1, <1>2, <1>5 DEF SyncBegins, ObjectsHaveBytes
<1>7. TodoIsNew'
  BY <1>1, <1>3, <1>4, <1>5 DEF SyncBegins, TodoIsNew
<1>8. RowsHaveBytes' /\ PathIsVersion' /\ EntryIsStored' /\ FlagsAreQueued'
  BY <1>5 DEF SyncBegins, RowsHaveBytes, PathIsVersion, EntryIsStored, FlagsAreQueued
<1> QED  BY <1>6, <1>7, <1>8

(***************************************************************************)
(* What Receives does to the store: it writes the bytes to a free path, or *)
(* finds them under the key.  A revision is free because a row at its path *)
(* would be a version with the stamp of the object.                        *)
(***************************************************************************)
LEMMA ReceivesIsSafe ==
    ASSUME IngestInv, NEW e \in sync.todo, Receives(e)
    PROVE  /\ e.key \in Keys /\ upstream[e.key].bytes # 0
           /\ sync' = [sync EXCEPT !.at = "record", !.todo = @ \ {e}, !.entry = {e},
                                   !.got = upstream[e.key].bytes, !.path = sync'.path]
           /\ file'[e.key][sync'.path] = upstream[e.key].bytes
           /\ sync'.path \in {0, e.stamp} \/ \E q \in Prior(e.key) : q.path = sync'.path
           /\ \A k \in Keys, p \in Stamps :
                  (p = 0 /\ file[k][p] # 0) \/ (\E r \in Prior(k) : r.path = p)
                      => file'[k][p] = file[k][p]
<1> USE DEF IngestInv
<1> DEFINE bytes == upstream[e.key].bytes
           final == IF IsCanonical(e.key) THEN 0 ELSE e.stamp
           Goes(path) == sync' = [sync EXCEPT !.at = "record", !.todo = @ \ {e},
                                      !.entry = {e}, !.got = bytes, !.path = path]
<1>1. e.key \in Keys /\ e.stamp \in Stamps /\ 0 \in Stamps /\ bytes # 0
  BY DEF SyncTypeOK, Run, Entry, ObjectsHaveBytes, Stamps
<1>2. CASE \E path \in Same(e.key, bytes) : Goes(path) /\ UNCHANGED file
  <2>1. PICK path \in Same(e.key, bytes) : Goes(path) /\ UNCHANGED file
    BY <1>2
  <2>2. sync'.path = path
    BY <2>1 DEF SyncTypeOK, Run
  <2>3. file[e.key][path] = bytes
    BY DEF Same, Prior, RowsHaveBytes
  <2>4. path = 0 \/ \E q \in Prior(e.key) : q.path = path
    BY DEF Same
  <2> QED  BY <1>1, <2>1, <2>2, <2>3, <2>4
<1>3. CASE Goes(final) /\ file' = [file EXCEPT ![e.key][final] = bytes]
  <2>1. sync'.path = final
    BY <1>3 DEF SyncTypeOK, Run
  <2>2. final \in Stamps
    BY <1>1
  <2>3. file'[e.key][final] = bytes
    BY <1>1, <1>3, <2>2 DEF SyncTypeOK
  <2>4. \A k \in Keys, p \in Stamps : k # e.key \/ p # final => file'[k][p] = file[k][p]
    BY <1>1, <1>3, <2>2 DEF SyncTypeOK
  <2>5. CASE IsCanonical(e.key)
    <3>1. file[e.key][0] = 0 /\ Prior(e.key) = {} /\ final = 0
      BY <2>5 DEF IsCanonical
    <3> QED  BY <1>1, <1>3, <2>1, <2>3, <2>4, <3>1
  <2>6. CASE ~IsCanonical(e.key)
    <3>1. final = e.stamp /\ e.stamp # 0
      BY <2>6 DEF ObjectsHaveBytes
    <3>2. \A r \in Prior(e.key) : r.path # e.stamp
      BY <3>1 DEF Prior, PathIsVersion, TodoIsNew
    <3> QED  BY <1>1, <1>3, <2>1, <2>3, <2>4, <3>1, <3>2
  <2> QED  BY <2>5, <2>6
<1> QED  BY <1>2, <1>3 DEF Receives

LEMMA ReceivesKeeps ==
    ASSUME IngestInv, SyncTypeOK', NEW e \in sync.todo, Receives(e) PROVE IngestInv'
<1> USE DEF IngestInv
<1>1. UNCHANGED <<upstream, stamp, rows, queued>>
  BY DEF Receives
<1>2. /\ sync'.at = "record" /\ sync'.todo = sync.todo \ {e} /\ sync'.entry = {e}
      /\ sync'.got = upstream[e.key].bytes /\ sync'.got # 0
  BY ReceivesIsSafe DEF SyncTypeOK, Run
<1>3. ObjectsHaveBytes'
  BY <1>1, <1>2 DEF ObjectsHaveBytes
<1>4. RowsHaveBytes'
  <2> SUFFICES ASSUME NEW r \in rows PROVE r.bytes # 0 /\ file'[r.key][r.path] = r.bytes
    BY <1>1 DEF RowsHaveBytes
  <2>1. r.key \in Keys /\ r.path \in Stamps /\ r \in Prior(r.key)
    BY DEF SyncTypeOK, Row, Prior
  <2> QED  BY <2>1, ReceivesIsSafe DEF RowsHaveBytes
<1>5. PathIsVersion'
  BY <1>1 DEF PathIsVersion
<1>6. TodoIsNew'
  BY <1>1, <1>2 DEF TodoIsNew
<1>7. EntryIsStored'
  BY <1>1, <1>2, ReceivesIsSafe, ZenonT(40) DEF EntryIsStored, Prior
<1>8. FlagsAreQueued'
  BY <1>1, <1>2 DEF FlagsAreQueued
<1> QED  BY <1>3, <1>4, <1>5, <1>6, <1>7, <1>8

LEMMA RecordsKeeps == ASSUME IngestInv, SyncTypeOK', Records PROVE IngestInv'
<1> USE DEF IngestInv
<1>1. /\ UNCHANGED <<upstream, stamp, file, queued>>
      /\ sync'.at = "ingest" /\ sync'.todo = sync.todo /\ sync'.entry = {}
  BY DEF Records, SyncTypeOK, Run
<1>2. CASE sync.entry = {}
  <2>1. rows' = rows
    BY <1>2 DEF Records
  <2> QED
    BY <1>1, <2>1 DEF ObjectsHaveBytes, RowsHaveBytes, PathIsVersion, TodoIsNew,
       EntryIsStored, FlagsAreQueued
<1>3. ASSUME NEW e \in sync.entry, sync.entry = {e} PROVE IngestInv'
  <2> DEFINE new == NewRow(e)
  <2>1. rows' = rows \cup {new}
    BY <1>3 DEF Records
  <2>2. /\ new.key = e.key /\ new.stamp = e.stamp /\ new.path = sync.path
        /\ new.bytes = sync.got /\ ~new.enqueued
    BY DEF NewRow, Version
  <2> HIDE DEF new
  <2>3. ObjectsHaveBytes'
    BY <1>1 DEF ObjectsHaveBytes
  <2>4. RowsHaveBytes'
    BY <1>1, <1>3, <2>1, <2>2 DEF RowsHaveBytes, EntryIsStored
  <2>5. PathIsVersion'
    BY <1>1, <1>3, <2>1, <2>2 DEF PathIsVersion, EntryIsStored, Prior
  <2>6. TodoIsNew'
    BY <1>1, <1>3, <2>1, <2>2 DEF TodoIsNew
  <2>7. EntryIsStored' /\ FlagsAreQueued'
    BY <1>1, <2>1, <2>2 DEF EntryIsStored, FlagsAreQueued
  <2> QED  BY <2>3, <2>4, <2>5, <2>6, <2>7
<1> QED  BY <1>2, <1>3 DEF EntryIsStored

LEMMA EnqueuesKeeps == ASSUME IngestInv, SyncTypeOK', Enqueues PROVE IngestInv'
<1> USE DEF IngestInv
<1>1. /\ UNCHANGED <<upstream, stamp, file, rows>>
      /\ queued' = queued \cup PendingPaths /\ sync'.paths = PendingPaths
      /\ sync'.at \in {"ends", "flag"} /\ sync'.todo = sync.todo /\ sync'.entry = sync.entry
  BY DEF Enqueues, SyncTypeOK, Run
<1>2. sync.entry = {}
  BY DEF Enqueues, EntryIsStored
<1>3. ObjectsHaveBytes' /\ RowsHaveBytes' /\ PathIsVersion' /\ TodoIsNew'
  BY <1>1 DEF ObjectsHaveBytes, RowsHaveBytes, PathIsVersion, TodoIsNew
<1>4. EntryIsStored' /\ FlagsAreQueued'
  BY <1>1, <1>2 DEF EntryIsStored, FlagsAreQueued
<1> QED  BY <1>3, <1>4

LEMMA FlagsKeeps == ASSUME IngestInv, SyncTypeOK', Flags PROVE IngestInv'
<1> USE DEF IngestInv
<1>1. /\ UNCHANGED <<upstream, stamp, file, queued>>
      /\ sync'.at = "ends" /\ sync'.todo = sync.todo /\ sync'.entry = sync.entry
      /\ sync.at = "flag"
  BY DEF Flags, SyncTypeOK, Run
<1>2. sync.entry = {}
  BY <1>1 DEF EntryIsStored
<1>3. ASSUME NEW r \in rows'
      PROVE  \E q \in rows :
         /\ r.key = q.key /\ r.stamp = q.stamp /\ r.path = q.path /\ r.bytes = q.bytes
         /\ r = q \/ q \in Flagged
  <2>1. CASE r \in rows
    BY <2>1
  <2>2. ASSUME NEW q \in Flagged, r = [q EXCEPT !.enqueued = TRUE]
        PROVE  r.key = q.key /\ r.stamp = q.stamp /\ r.path = q.path /\ r.bytes = q.bytes
    BY <2>2, RowIsFlagged DEF Flagged, SyncTypeOK
  <2>3. Flagged \subseteq rows
    BY DEF Flagged
  <2> QED  BY <2>1, <2>2, <2>3 DEF Flags
<1>4. \A q \in rows : \E r \in rows' : r.key = q.key /\ r.stamp = q.stamp
  <2> SUFFICES ASSUME NEW q \in rows PROVE \E r \in rows' : r.key = q.key /\ r.stamp = q.stamp
    OBVIOUS
  <2>1. q \in Row
    BY DEF SyncTypeOK
  <2>2. CASE q \in Flagged
    <3>1. [q EXCEPT !.enqueued = TRUE] \in rows'
      BY <2>2 DEF Flags
    <3> QED  BY <2>1, <3>1 DEF Row
  <2>3. CASE q \notin Flagged
    BY <2>3 DEF Flags
  <2> QED  BY <2>2, <2>3
<1>5. ObjectsHaveBytes' /\ RowsHaveBytes' /\ TodoIsNew'
  BY <1>1, <1>3 DEF ObjectsHaveBytes, RowsHaveBytes, TodoIsNew
<1>6. PathIsVersion'
  BY <1>3, <1>4 DEF PathIsVersion
<1>7. EntryIsStored'
  BY <1>1, <1>2 DEF EntryIsStored
<1>8. FlagsAreQueued'
  BY <1>1, <1>3 DEF FlagsAreQueued, Flagged
<1> QED  BY <1>5, <1>6, <1>7, <1>8

LEMMA IngestInvStep == IngestInv /\ SyncNext => IngestInv'
<1> SUFFICES ASSUME IngestInv, SyncNext PROVE IngestInv'
  OBVIOUS
<1>0. SyncTypeOK /\ SyncTypeOK'
  BY SyncTypesStep DEF IngestInv
<1>1. ASSUME NEW k \in Keys, Uploads(k) PROVE IngestInv'
  BY <1>0, <1>1, UploadsKeeps
<1>2. CASE SyncBegins
  BY <1>0, <1>2, BeginsKeeps
<1>3. ASSUME NEW e \in sync.todo, Receives(e) PROVE IngestInv'
  BY <1>0, <1>3, ReceivesKeeps
<1>4. CASE Records
  BY <1>0, <1>4, RecordsKeeps
<1>5. CASE Enqueues
  BY <1>0, <1>5, EnqueuesKeeps
<1>6. CASE Flags
  BY <1>0, <1>6, FlagsKeeps
<1>7. CASE SyncEnds \/ SyncKilled
  <2>1. sync'.todo \subseteq sync.todo /\ sync'.entry = {} /\ sync'.at = "idle"
    BY <1>7 DEF SyncEnds, SyncKilled, NoSync
  <2> QED  BY <1>0, <1>7, <2>1, GivesUpKeeps DEF SyncEnds, SyncKilled
<1>8. CASE EnqueueFails
  <2>1. sync'.todo \subseteq sync.todo /\ sync'.entry = {} /\ sync'.at = "ends"
    BY <1>0, <1>8 DEF EnqueueFails, SyncTypeOK, Run, IngestInv, EntryIsStored
  <2> QED  BY <1>0, <1>8, <2>1, GivesUpKeeps DEF EnqueueFails
<1>9. ASSUME NEW e \in sync.todo, DownloadFails(e) \/ IsRefused(e) PROVE IngestInv'
  <2>1. sync'.todo \subseteq sync.todo /\ sync'.entry = {} /\ sync'.at = "ingest"
    BY <1>0, <1>9 DEF DownloadFails, IsRefused, IsNext, SyncTypeOK, Run, IngestInv, EntryIsStored
  <2> QED  BY <1>0, <1>9, <2>1, GivesUpKeeps DEF DownloadFails, IsRefused
<1> QED
  BY <1>1, <1>2, <1>3, <1>4, <1>5, <1>6, <1>7, <1>8, <1>9 DEF SyncNext, SyncStep, SyncFault


-----------------------------------------------------------------------------
\* What a step of the system does to what is ingested.
LEMMA StepIngests ==
    [Next]_vars => SyncNext \/ (UNCHANGED ingest /\ (faults' = faults \/ Fails))
BY DEF vars, syncVars, store, ingest, Next, Source, SyncNext, BuildStep, BuildFault, BuildBegins,
   Fingerprints, Decodes, Rejects, Numbers, PublishesPlot, PublishesDetail, PublishesSummary,
   CopiesLatest, WritesCatalog, SavesState, BuildEnds, DecodeFails, TransactionFails, CopyFails,
   BuildKilled, images, products

LEMMA IngestInvKept == IngestInv /\ SyncTypeOK' /\ UNCHANGED ingest => IngestInv'
BY DEF IngestInv, ingest, store, ObjectsHaveBytes, RowsHaveBytes, PathIsVersion, TodoIsNew,
   EntryIsStored, FlagsAreQueued, Prior

LEMMA IngestInvNext == IngestInv /\ [Next]_vars => IngestInv'
<1> SUFFICES ASSUME IngestInv, [Next]_vars PROVE IngestInv'
  OBVIOUS
<1>1. CASE SyncNext
  BY <1>1, IngestInvStep
<1>2. CASE UNCHANGED ingest /\ (faults' = faults \/ Fails)
  <2>1. SyncTypeOK'
    BY <1>2 DEF IngestInv, SyncTypeOK, ingest, store, Fails
  <2> QED  BY <1>2, <2>1, IngestInvKept
<1> QED  BY <1>1, <1>2, StepIngests

LEMMA IngestInvariant == Spec => []IngestInv
<1>1. Init => IngestInv
  BY IngestInvInit DEF Init
<1> QED  BY <1>1, IngestInvNext, PTL DEF Spec

(***************************************************************************)
(* Every row of the registry names bytes that are there, and a flagged row *)
(* a path that was queued.                                                 *)
(***************************************************************************)
THEOREM RegistryAlwaysTrue == Spec => []RegistryIsTrue
<1>1. IngestInv => RegistryIsTrue
  BY DEF IngestInv, RowsHaveBytes, FlagsAreQueued, RegistryIsTrue
<1> QED  BY <1>1, IngestInvariant, PTL

-----------------------------------------------------------------------------
(***************************************************************************)
(* No stamp that is listed or recorded is later than that of the bucket,   *)
(* and what a run has in hand under the stamp of the bucket is what the    *)
(* bucket has: an upload brings a stamp that nothing of the key has yet.   *)
(***************************************************************************)
NothingIsAhead ==
    /\ \A k \in Keys : upstream[k].stamp <= stamp
    /\ \A e \in sync.todo \cup sync.entry : e.stamp <= upstream[e.key].stamp
    /\ \A r \in rows : r.stamp <= upstream[r.key].stamp

HandIsExact ==
    \A e \in sync.entry :
        e.stamp = upstream[e.key].stamp => sync.got = upstream[e.key].bytes

ShownInv == NothingIsAhead /\ HandIsExact /\ ShownIsExact

LEMMA ShownInvInit == SyncInit => ShownInv
BY DEF SyncInit, NoSync, ShownInv, NothingIsAhead, HandIsExact, ShownIsExact

\* A step that uploads, receives and records nothing.
LEMMA ShownInvStays ==
    ASSUME ShownInv, UNCHANGED <<upstream, stamp>>,
           sync'.todo \subseteq sync.todo, sync'.entry = {},
           \A r \in rows' : \E q \in rows :
               r.key = q.key /\ r.stamp = q.stamp /\ r.bytes = q.bytes
    PROVE  ShownInv'
BY DEF ShownInv, NothingIsAhead, HandIsExact, ShownIsExact

LEMMA ShownInvStep == IngestInv /\ ShownInv /\ SyncNext => ShownInv'
<1> SUFFICES ASSUME IngestInv, ShownInv, SyncNext PROVE ShownInv'
  OBVIOUS
<1>0. SyncTypeOK /\ EntryIsStored
  BY DEF IngestInv
<1> USE DEF store
<1>1. ASSUME NEW k \in Keys, Uploads(k) PROVE ShownInv'
  <2>1. PICK b : upstream' = [upstream EXCEPT ![k] = [stamp |-> stamp + 1, bytes |-> b]]
    BY <1>1 DEF Uploads
  <2>2. \A l \in Keys : upstream'[l] = IF l = k THEN [stamp |-> stamp + 1, bytes |-> b]
                                       ELSE upstream[l]
    BY <1>0, <2>1 DEF SyncTypeOK
  <2>3. \A l \in Keys : upstream[l].stamp \in Nat /\ stamp \in Nat
    BY <1>0 DEF SyncTypeOK, Stamps
  <2>4. /\ \A e \in sync.todo \cup sync.entry : e.key \in Keys /\ e.stamp \in Nat
        /\ \A r \in rows : r.key \in Keys /\ r.stamp \in Nat
    <3>1. sync.todo \cup sync.entry \subseteq Entry /\ rows \subseteq Row
      BY <1>0 DEF SyncTypeOK, Run
    <3>2. Stamps \subseteq Nat
      BY DEF Stamps
    <3>3. \A e \in Entry : e.key \in Keys /\ e.stamp \in Nat
      BY <3>2 DEF Entry
    <3>4. \A r \in Row : r.key \in Keys /\ r.stamp \in Nat
      BY <3>2 DEF Row
    <3> QED  BY <3>1, <3>3, <3>4
  <2>5. sync' = sync /\ rows' = rows /\ stamp' = stamp + 1
    BY <1>1 DEF Uploads
  <2>6. NothingIsAhead'
    BY <2>2, <2>3, <2>4, <2>5 DEF ShownInv, NothingIsAhead
  <2>7. HandIsExact'
    BY <2>2, <2>3, <2>4, <2>5 DEF ShownInv, NothingIsAhead, HandIsExact
  <2>8. ShownIsExact'
    BY <2>2, <2>3, <2>4, <2>5 DEF ShownInv, NothingIsAhead, ShownIsExact
  <2> QED  BY <2>6, <2>7, <2>8 DEF ShownInv
<1>2. CASE SyncBegins
  <2>1. /\ sync'.todo = Selected /\ sync'.entry = {} /\ UNCHANGED <<upstream, stamp, rows>>
    BY <1>2 DEF SyncBegins, NoSync
  <2>2. \A e \in Selected : e.key \in Keys /\ e.stamp = upstream[e.key].stamp
    BY DEF Selected, Candidates, Listing
  <2>3. \A k \in Keys : upstream[k].stamp \in Nat
    BY <1>0 DEF SyncTypeOK, Stamps
  <2> QED
    BY <2>1, <2>2, <2>3 DEF ShownInv, NothingIsAhead, HandIsExact, ShownIsExact
<1>3. ASSUME NEW e \in sync.todo, Receives(e) PROVE ShownInv'
  <2>1. /\ sync'.todo = sync.todo \ {e} /\ sync'.entry = {e}
        /\ sync'.got = upstream[e.key].bytes
    <3>1. sync' = [sync EXCEPT !.at = "record", !.todo = @ \ {e}, !.entry = {e},
                               !.got = upstream[e.key].bytes, !.path = sync'.path]
      BY <1>3, ReceivesIsSafe
    <3> QED  BY <1>0, <3>1 DEF SyncTypeOK, Run
  <2>2. UNCHANGED <<upstream, stamp, rows>>
    BY <1>3 DEF Receives
  <2> QED  BY <2>1, <2>2 DEF ShownInv, NothingIsAhead, HandIsExact, ShownIsExact
<1>4. CASE Records
  <2>1. /\ UNCHANGED <<upstream, stamp>> /\ sync'.todo = sync.todo /\ sync'.entry = {}
        /\ rows' = rows \cup {NewRow(e) : e \in sync.entry}
    BY <1>0, <1>4 DEF Records, SyncTypeOK, Run
  <2>2. \A e \in sync.entry : /\ NewRow(e).key = e.key /\ NewRow(e).stamp = e.stamp
                              /\ NewRow(e).bytes = sync.got
    BY DEF NewRow, Version
  <2>3. NothingIsAhead' /\ HandIsExact'
    BY <2>1, <2>2 DEF ShownInv, NothingIsAhead, HandIsExact
  <2>4. ShownIsExact'
    BY <2>1, <2>2 DEF ShownInv, HandIsExact, ShownIsExact
  <2> QED  BY <2>3, <2>4 DEF ShownInv
<1>5. CASE Flags
  <2>1. /\ UNCHANGED <<upstream, stamp>> /\ sync'.todo = sync.todo
        /\ sync'.entry = sync.entry /\ sync.entry = {}
    BY <1>0, <1>5 DEF Flags, SyncTypeOK, Run, EntryIsStored
  <2>2. \A r \in rows' : \E q \in rows :
            r.key = q.key /\ r.stamp = q.stamp /\ r.bytes = q.bytes
    <3> SUFFICES ASSUME NEW r \in rows'
                 PROVE  \E q \in rows :
                            r.key = q.key /\ r.stamp = q.stamp /\ r.bytes = q.bytes
      OBVIOUS
    <3>1. CASE r \in rows
      BY <3>1
    <3>2. ASSUME NEW q \in Flagged, r = [q EXCEPT !.enqueued = TRUE]
          PROVE  q \in rows /\ r.key = q.key /\ r.stamp = q.stamp /\ r.bytes = q.bytes
      BY <1>0, <3>2, RowIsFlagged DEF Flagged, SyncTypeOK
    <3> QED  BY <1>5, <3>1, <3>2 DEF Flags
  <2> QED  BY <2>1, <2>2, ShownInvStays
<1>6. CASE Enqueues \/ EnqueueFails
  <2>1. UNCHANGED <<upstream, stamp, rows>> /\ sync'.todo = sync.todo /\ sync'.entry = {}
    BY <1>0, <1>6 DEF Enqueues, EnqueueFails, SyncTypeOK, Run, EntryIsStored
  <2> QED  BY <2>1, ShownInvStays
<1>7. CASE SyncEnds \/ SyncKilled
  <2>1. UNCHANGED <<upstream, stamp, rows>> /\ sync'.todo = {} /\ sync'.entry = {}
    BY <1>7 DEF SyncEnds, SyncKilled, NoSync
  <2> QED  BY <2>1, ShownInvStays
<1>8. ASSUME NEW e \in sync.todo, DownloadFails(e) \/ IsRefused(e) PROVE ShownInv'
  <2>1. sync.at = "ingest" /\ UNCHANGED <<upstream, stamp, rows>>
    BY <1>8 DEF DownloadFails, IsRefused, IsNext
  <2>2. sync'.todo = sync.todo \ {e} /\ sync'.entry = {}
    BY <1>0, <1>8, <2>1 DEF DownloadFails, IsRefused, SyncTypeOK, Run, EntryIsStored
  <2> QED  BY <2>1, <2>2, ShownInvStays
<1> QED
  BY <1>1, <1>2, <1>3, <1>4, <1>5, <1>6, <1>7, <1>8 DEF SyncNext, SyncStep, SyncFault

(***************************************************************************)
(* The version that the bucket shows is never registered with other bytes, *)
(* however often objects are replaced while a run goes on.                 *)
(***************************************************************************)
THEOREM ShownAlwaysExact == Spec => []ShownIsExact
<1>1. Init => ShownInv
  BY ShownInvInit DEF Init
<1>2. IngestInv /\ ShownInv /\ [Next]_vars => ShownInv'
  <2>1. UNCHANGED ingest /\ ShownInv => ShownInv'
    BY DEF ingest, store, ShownInv, NothingIsAhead, HandIsExact, ShownIsExact
  <2> QED  BY <2>1, ShownInvStep, StepIngests
<1>3. ShownInv => ShownIsExact
  BY DEF ShownInv
<1> QED  BY <1>1, <1>2, <1>3, IngestInvariant, PTL DEF Spec

-----------------------------------------------------------------------------
\* A file is only written where there is none that anyone knows of.
LEMMA FilesStay ==
    ASSUME IngestInv, [Next]_vars, NEW k \in Keys, NEW p \in Stamps, file[k][p] # 0,
           p = 0 \/ p \in {r.path : r \in Prior(k)}
    PROVE  file'[k][p] = file[k][p]
<1>1. CASE \E e \in sync.todo : Receives(e)
  BY <1>1, ReceivesIsSafe
<1>2. CASE SyncNext /\ ~\E e \in sync.todo : Receives(e)
  BY <1>2 DEF SyncNext, SyncStep, SyncFault, Uploads, SyncBegins, IsRefused, DownloadFails, Records,
     Enqueues, EnqueueFails, Flags, SyncEnds, SyncKilled, store
<1>3. CASE UNCHANGED ingest
  BY <1>3 DEF ingest, store
<1> QED  BY <1>1, <1>2, <1>3, StepIngests

(***************************************************************************)
(* Neither a canonical file nor a recorded version is ever overwritten,    *)
(* although a run may be killed between a file and its row.                *)
(***************************************************************************)
THEOREM ReceivedNeverChanges == Spec => ReceivedIsImmutable
<1>1. IngestInv /\ [Next]_vars =>
          [\A k \in Keys, p \in Stamps :
              file[k][p] # 0 /\ (p = 0 \/ p \in {r.path : r \in Prior(k)})
                  => file'[k][p] = file[k][p]]_syncVars
  BY FilesStay
<1> QED  BY <1>1, IngestInvariant, PTL DEF Spec, ReceivedIsImmutable

-----------------------------------------------------------------------------
\* The number of a flight.
LEMMA RankIsNumber ==
    ASSUME NEW S \in SUBSET Flights, NEW f \in S
    PROVE  Rank(f, S) \in 1..Cardinality(Flights)
<1> DEFINE T == {g \in S : g <= f}
<1>1. T \subseteq Flights /\ f \in T
  <2>1. f \in Nat /\ f <= f
    OBVIOUS
  <2> QED  BY <2>1
<1>2. IsFiniteSet(T) /\ Cardinality(T) <= Cardinality(Flights)
  BY <1>1, FS_Subset
<1>3. Cardinality(T) \in Nat /\ Cardinality(Flights) \in Nat /\ Cardinality(T) # 0
  BY <1>1, <1>2, FS_CardinalityType, FS_EmptySet
<1> QED  BY <1>2, <1>3 DEF Rank

LEMMA NothingIsProduct == Nothing \in Product /\ NoProducts \in [Flights -> Product]
<1>1. Cardinality(Flights) \in Nat
  BY FS_CardinalityType
<1> QED  BY <1>1 DEF Nothing, Product, NoProducts

\* Numbering keeps what a product was read from, and which flights have one.
LEMMA NumberedIsDay ==
    ASSUME NEW day \in [Flights -> Product]
    PROVE  /\ Numbered(day) \in [Flights -> Product]
           /\ Present(Numbered(day)) = Present(day)
           /\ \A f \in Present(day) : Numbered(day)[f].keys = day[f].keys
<1> DEFINE number(f) == Rank(f, Present(day))
<1>1. \A f \in Flights :
         Numbered(day)[f] = IF day[f] = Nothing THEN Nothing
                            ELSE [day[f] EXCEPT !.number = number(f)]
  BY DEF Numbered
<1>2. ASSUME NEW f \in Present(day)
      PROVE  /\ Numbered(day)[f] \in Product /\ Numbered(day)[f] # Nothing
             /\ Numbered(day)[f].keys = day[f].keys
  <2>1. number(f) \in 1..Cardinality(Flights)
    BY RankIsNumber DEF Present
  <2>2. f \in Flights /\ day[f] \in Product /\ day[f] # Nothing
    BY DEF Present
  <2>3. Numbered(day)[f] = [day[f] EXCEPT !.number = number(f)]
    BY <1>1, <2>2
  <2>4. Cardinality(Flights) \in Nat
    BY FS_CardinalityType
  <2> HIDE DEF number
  <2> QED  BY <2>1, <2>2, <2>3, <2>4 DEF Product, Nothing
<1>3. ASSUME NEW f \in Flights, f \notin Present(day)
      PROVE  Numbered(day)[f] = Nothing
  BY <1>1, <1>3 DEF Present
<1>4. Numbered(day) = [f \in Flights |-> Numbered(day)[f]]
  BY DEF Numbered
<1>5. Numbered(day) \in [Flights -> Product]
  <2>1. \A f \in Flights : Numbered(day)[f] \in Product
    BY <1>2, <1>3, NothingIsProduct
  <2> QED  BY <1>4, <2>1
<1>6. Present(Numbered(day)) = Present(day)
  BY <1>2, <1>3 DEF Present
<1> QED  BY <1>2, <1>5, <1>6

LEMMA FilesOfFlight ==
    ASSUME NEW f \in Flights
    PROVE  There(f) \subseteq Keys /\ Complete \subseteq Flights /\ Decoded(f).number = 0
           /\ \A S : Chosen(f, S) \subseteq Keys
BY DEF There, Complete, Decoded, Chosen

\* What the build in progress becomes when something of it fails.
LEMMA BuildFails ==
    ASSUME NEW s \in Build, NEW v \in BOOLEAN
    PROVE  LET t == [s EXCEPT !.failed = v]
           IN  /\ t \in Build /\ t.at = s.at /\ t.todo = s.todo /\ t.changed = s.changed
               /\ t.prints = s.prints /\ t.before = s.before /\ t.new = s.new
BY DEF Build

Fields(at, todo, changed, prints, new) ==
    /\ build'.at = at /\ build'.todo = todo /\ build'.changed = changed
    /\ build'.prints = prints /\ build'.before = build.before /\ build'.new = new

LEMMA SkipsFields ==
    ASSUME build \in Build, NEW f \in Flights, Skips(f)
    PROVE  /\ build' \in Build
           /\ Fields("print", build.todo \ {f}, build.changed,
                     [build.prints EXCEPT ![f] = {}], build.new)
<1> DEFINE b == [build EXCEPT !.at = "print", !.todo = @ \ {f}, !.prints[f] = {}]
<1>1. /\ b \in Build /\ b.at = "print" /\ b.todo = build.todo \ {f}
      /\ b.changed = build.changed /\ b.prints = [build.prints EXCEPT ![f] = {}]
      /\ b.before = build.before /\ b.new = build.new
  BY DEF Build
<1>2. build' = [b EXCEPT !.failed = TRUE]
  BY Zenon DEF Skips
<1> HIDE DEF b
<1> QED  BY <1>1, <1>2, BuildFails, Zenon DEF Fields

LEMMA DecodesFields ==
    ASSUME build \in Build, NEW f \in Flights, detail[f] \in Product, Decoded(f) \in Product,
           Decodes(f)
    PROVE  /\ build' \in Build
           /\ \/ /\ Reusable(f)
                 /\ Fields("print", build.todo \ {f}, build.changed, build.prints,
                           [build.new EXCEPT ![f] = detail[f]])
              \/ /\ ~Reusable(f)
                 /\ Fields("print", build.todo \ {f}, build.changed \cup {f}, build.prints,
                           [build.new EXCEPT ![f] = Decoded(f)])
<1> DEFINE next == [build EXCEPT !.at = "print", !.todo = @ \ {f}]
<1>1. /\ next \in Build /\ next.at = "print" /\ next.todo = build.todo \ {f}
      /\ next.changed = build.changed /\ next.prints = build.prints
      /\ next.before = build.before /\ next.new = build.new
  BY DEF Build
<1>2. CASE Reusable(f) /\ build' = [next EXCEPT !.new[f] = detail[f]]
  <2> HIDE DEF next
  <2> QED  BY <1>1, <1>2 DEF Build, Fields
<1>3. CASE ~Reusable(f) /\ build' = [next EXCEPT !.new[f] = Decoded(f), !.changed = @ \cup {f}]
  <2> HIDE DEF next
  <2> QED  BY <1>1, <1>3 DEF Build, Fields
<1> QED  BY <1>2, <1>3 DEF Decodes

LEMMA TransactionFields ==
    ASSUME build \in Build, TransactionFails
    PROVE  /\ build' \in Build
           /\ Fields("latest", {}, build.changed, NoPrints, build.before)
<1> DEFINE b == [build EXCEPT !.at = "latest", !.todo = {}, !.new = build.before,
                              !.prints = NoPrints]
<1>1. /\ b \in Build /\ b.at = "latest" /\ b.todo = {} /\ b.changed = build.changed
      /\ b.prints = NoPrints /\ b.before = build.before /\ b.new = build.before
      /\ b.found = build.found /\ DOMAIN b = DOMAIN build
  BY DEF Build, NoPrints
<1>2. build' = [b EXCEPT !.failed = TRUE]
  BY DEF TransactionFails, Build
<1> HIDE DEF b
<1> QED  BY <1>1, <1>2, BuildFails, Zenon DEF Fields

LEMMA CopyFields ==
    ASSUME build \in Build, CopyFails
    PROVE  /\ build' \in Build
           /\ Fields("catalog", build.todo, build.changed, build.prints, build.new)
<1> DEFINE b == [build EXCEPT !.at = "catalog"]
<1>1. /\ b \in Build /\ b.at = "catalog" /\ b.todo = build.todo /\ b.changed = build.changed
      /\ b.prints = build.prints /\ b.before = build.before /\ b.new = build.new
  BY DEF Build
<1>2. build' = [b EXCEPT !.failed = TRUE]
  BY Zenon DEF CopyFails
<1> HIDE DEF b
<1> QED  BY <1>1, <1>2, BuildFails, Zenon DEF Fields

LEMMA TypesInit == Init => TypeOK
<1> SUFFICES ASSUME Init PROVE TypeOK
  OBVIOUS
<1>1. SyncTypeOK
  BY IngestInvInit DEF Init, IngestInv
<1>2. NoBuild \in Build
  BY NothingIsProduct DEF NoBuild, Build, NoPrints
<1>3. saved \in [Flights -> SUBSET Keys]
  BY DEF Init, NoPrints
<1> QED  BY <1>1, <1>2, <1>3, NothingIsProduct DEF Init, TypeOK

LEMMA TypesStep == TypeOK /\ IngestInv' /\ [Next]_vars => TypeOK'
<1> SUFFICES ASSUME TypeOK, IngestInv', [Next]_vars PROVE TypeOK'
  OBVIOUS
<1>0. SyncTypeOK'
  BY DEF IngestInv
<1> USE <1>0 DEF TypeOK, images, products
<1>1. CASE UNCHANGED vars \/ Source
  BY <1>1 DEF vars, Source
<1>2. CASE BuildBegins
  <2> DEFINE before == [f \in Flights |-> IF f \in Listed THEN detail[f] ELSE Nothing]
  <2>1. before \in [Flights -> Product]
    BY NothingIsProduct
  <2>2. Complete \subseteq Flights /\ NoBuild \in Build
    BY NothingIsProduct DEF Complete, NoBuild, Build, NoPrints
  <2>3. build' = [NoBuild EXCEPT !.at = "print", !.found = Complete, !.todo = Complete,
                                 !.before = before, !.new = before]
    BY <1>2 DEF BuildBegins
  <2> HIDE DEF before
  <2>4. build' \in Build
    BY <2>1, <2>2, <2>3 DEF Build
  <2> QED  BY <1>2, <2>4 DEF BuildBegins
<1>3. ASSUME NEW f \in Flights, Fingerprints(f) PROVE TypeOK'
  <2>1. build' \in Build
    BY <1>3, FilesOfFlight DEF Fingerprints, Build
  <2> QED  BY <1>3, <2>1 DEF Fingerprints
<1>4. ASSUME NEW f \in Flights, Decodes(f) PROVE TypeOK'
  <2>1. Decoded(f) \in Product
    <3>1. Cardinality(Flights) \in Nat
      BY FS_CardinalityType
    <3> QED  BY <3>1, FilesOfFlight DEF Decoded, Product
  <2>2. detail[f] \in Product
    OBVIOUS
  <2>3. build' \in Build
    BY <1>4, <2>1, <2>2, DecodesFields DEF Decodes
  <2> QED  BY <1>4, <2>3 DEF Decodes
<1>5. ASSUME NEW f \in Flights, Rejects(f) \/ DecodeFails(f) PROVE TypeOK'
  <2>1. build' \in Build
    BY <1>5, SkipsFields DEF Rejects, DecodeFails
  <2> QED  BY <1>5, <2>1 DEF Rejects, DecodeFails
<1>6. CASE Numbers
  <2> DEFINE new == Numbered(build.new)
             changed == build.changed \cup {f \in Present(new) : new[f] # build.new[f]}
             at == IF Present(new) = {} THEN "latest" ELSE "publish"
  <2>1. new \in [Flights -> Product] /\ Present(new) \subseteq Flights
    BY NumberedIsDay DEF Build, Present
  <2>2. changed \subseteq Flights
    BY <2>1 DEF Build
  <2>3. at \in {"latest", "publish"}
    OBVIOUS
  <2>4. build' = [build EXCEPT !.at = at, !.new = new, !.changed = changed, !.todo = changed]
    BY <1>6 DEF Numbers
  <2> HIDE DEF new, changed, at
  <2>5. build' \in Build
    BY <2>1, <2>2, <2>3, <2>4 DEF Build
  <2> QED  BY <1>6, <2>5 DEF Numbers
<1>7. ASSUME NEW f \in Flights, PublishesPlot(f) \/ PublishesDetail(f) PROVE TypeOK'
  <2>1. build.new[f] \in Product
    BY DEF Build
  <2>2. CASE PublishesPlot(f)
    <3>1. build' \in Build
      BY <2>2 DEF PublishesPlot, Build
    <3> QED  BY <2>1, <2>2, <3>1 DEF PublishesPlot
  <2>3. CASE PublishesDetail(f)
    <3>1. build' \in Build
      BY <2>3 DEF PublishesDetail, Build
    <3> QED  BY <2>1, <2>3, <3>1 DEF PublishesDetail
  <2> QED  BY <1>7, <2>2, <2>3
<1>8. CASE PublishesSummary
  <2>1. build' \in Build /\ build.new \in [Flights -> Product]
    BY <1>8 DEF PublishesSummary, Build
  <2>2. summary' \in [Flights -> Product]
    BY <1>8, <2>1 DEF PublishesSummary
  <2> QED  BY <1>8, <2>1, <2>2 DEF PublishesSummary
<1>9. CASE CopiesLatest
  <2>1. build' \in Build
    BY <1>9 DEF CopiesLatest, Build
  <2>2. latest' \in [Flights -> Product]
    BY <1>9 DEF CopiesLatest
  <2> QED  BY <1>9, <2>1, <2>2 DEF CopiesLatest
<1>10. CASE WritesCatalog
  <2>1. build' \in Build /\ build.new \in [Flights -> Product]
    BY <1>10 DEF WritesCatalog, Build
  <2> QED  BY <1>10, <2>1 DEF WritesCatalog
<1>11. CASE SavesState
  <2>1. build' \in Build /\ build.prints \in [Flights -> SUBSET Keys]
    BY <1>11 DEF SavesState, Build
  <2>2. saved' \in [Flights -> SUBSET Keys]
    BY <1>11, <2>1 DEF SavesState
  <2> QED  BY <1>11, <2>1, <2>2 DEF SavesState
<1>12. CASE BuildEnds \/ BuildKilled
  <2>1. NoBuild \in Build
    BY NothingIsProduct DEF NoBuild, Build, NoPrints
  <2> QED  BY <1>12, <2>1 DEF BuildEnds, BuildKilled
<1>13. CASE TransactionFails \/ CopyFails
  <2>1. build' \in Build
    BY <1>13, TransactionFields, CopyFields
  <2> QED  BY <1>13, <2>1 DEF TransactionFails, CopyFails
<1> QED
  BY <1>1, <1>2, <1>3, <1>4, <1>5, <1>6, <1>7, <1>8, <1>9, <1>10, <1>11, <1>12, <1>13
  DEF Next, BuildStep, BuildFault

(***************************************************************************)
(* The types of the registry, of the two processes and of the products.    *)
(***************************************************************************)
THEOREM FlightTypes == Spec => []TypeOK
<1>1. IngestInv /\ IngestInv' /\ TypeOK /\ [Next]_vars => TypeOK'
  BY TypesStep
<1> QED  BY <1>1, TypesInit, IngestInvariant, PTL DEF Spec

-----------------------------------------------------------------------------
(***************************************************************************)
(* What readers rely on: a plot precedes its detail and a detail its entry *)
(* in the catalogue.  Until the day is published a flight has the product  *)
(* that is shown or one that was decoded now; then, one that is not left   *)
(* to do is shown.                                                         *)
(***************************************************************************)
ListedIsShown ==
    /\ ReadersFindPlots
    /\ Present(build.before) \subseteq Present(detail)
    /\ build.at \in {"print", "decode"} =>
           /\ build.changed \subseteq Present(build.new)
           /\ Present(build.new) \subseteq Present(detail) \cup build.changed
    /\ build.at \in {"publish", "detail"} =>
           /\ build.todo \subseteq Present(build.new)
           /\ Present(build.new) \subseteq Present(detail) \cup build.todo
    /\ build.at = "detail" => \A f \in Flights : IsNextFlight(f) => plot[f] = build.new[f]
    /\ build.at \in {"latest", "catalog"} => Present(build.new) \subseteq Present(detail)

LEMMA NoneIsPresent == Present(NoProducts) = {}
BY DEF Present, NoProducts

LEMMA ListedInit == Init => ListedIsShown
BY NoneIsPresent DEF Init, NoBuild, ListedIsShown, ReadersFindPlots

LEMMA NextIsOne ==
    ASSUME NEW f \in Flights, NEW g \in Flights, IsNextFlight(f), IsNextFlight(g) PROVE f = g
<1>1. f \in Nat /\ g \in Nat /\ f <= g /\ g <= f
  BY DEF IsNextFlight
<1> QED  BY <1>1

LEMMA ListedStep == TypeOK /\ ListedIsShown /\ [Next]_vars => ListedIsShown'
<1> SUFFICES ASSUME TypeOK, ListedIsShown, [Next]_vars PROVE ListedIsShown'
  OBVIOUS
<1>0. build \in Build /\ {detail, plot, summary, latest, catalog} \subseteq [Flights -> Product]
  BY DEF TypeOK
<1> USE DEF ListedIsShown, ReadersFindPlots, images, products
<1>1. CASE UNCHANGED vars \/ Source
  BY <1>1 DEF vars, Source, Present, IsNextFlight
<1>2. CASE BuildBegins
  <2> DEFINE before == [f \in Flights |-> IF f \in Listed THEN detail[f] ELSE Nothing]
  <2>1. /\ build'.at = "print" /\ build'.changed = {}
        /\ build'.before = before /\ build'.new = before
    BY <1>2 DEF BuildBegins, NoBuild
  <2>2. Present(before) \subseteq Present(detail)
    BY DEF Present
  <2> QED  BY <1>2, <2>1, <2>2 DEF BuildBegins, Present
<1>3. ASSUME NEW f \in Flights, Fingerprints(f) PROVE ListedIsShown'
  <2>1. build.at = "print" /\ build'.at = "decode" /\ build'.changed = build.changed
        /\ build'.before = build.before /\ build'.new = build.new
    BY <1>0, <1>3 DEF Fingerprints, Build
  <2> QED  BY <1>3, <2>1 DEF Fingerprints, Present
<1>4. ASSUME NEW f \in Flights, Decodes(f) PROVE ListedIsShown'
  <2>1. detail[f] \in Product /\ Decoded(f) \in Product
    <3>1. Cardinality(Flights) \in Nat
      BY FS_CardinalityType
    <3> QED  BY <1>0, <3>1, FilesOfFlight DEF Decoded, Product
  <2>2. build.at = "decode" /\ UNCHANGED <<detail, plot, catalog>>
    BY <1>4 DEF Decodes
  <2>3. CASE Reusable(f) /\ Fields("print", build.todo \ {f}, build.changed, build.prints,
                                   [build.new EXCEPT ![f] = detail[f]])
    <3>1. f \in Present(detail)
      BY <2>3 DEF Reusable
    <3> QED  BY <1>0, <2>2, <2>3, <3>1 DEF Fields, Present, Build
  <2>4. CASE ~Reusable(f) /\ Fields("print", build.todo \ {f}, build.changed \cup {f},
                                    build.prints, [build.new EXCEPT ![f] = Decoded(f)])
    <3>1. Decoded(f) # Nothing
      <4>1. StreamsOf[f] # {} /\ Decodable(f)
        BY <1>4, <2>4 DEF Decodes
      <4>2. Chosen(f, There(f)) # {}
        BY <4>1 DEF Decodable
      <4> QED  BY <4>2 DEF Decoded, Nothing
    <3> QED  BY <1>0, <2>2, <2>4, <3>1 DEF Fields, Present, Build
  <2> QED
    BY <1>0, <1>4, <2>1, <2>3, <2>4, DecodesFields
<1>5. ASSUME NEW f \in Flights, Rejects(f) \/ DecodeFails(f) PROVE ListedIsShown'
  <2>1. Fields("print", build.todo \ {f}, build.changed, [build.prints EXCEPT ![f] = {}], build.new)
        /\ build.at = "decode" /\ UNCHANGED <<detail, plot, catalog>>
    BY <1>0, <1>5, SkipsFields DEF Rejects, DecodeFails
  <2> QED  BY <2>1 DEF Fields, Present
<1>6. CASE Numbers
  <2> DEFINE new == Numbered(build.new)
             changed == build.changed \cup {f \in Present(new) : new[f] # build.new[f]}
  <2>1. /\ build.at = "print" /\ build'.at = IF Present(new) = {} THEN "latest" ELSE "publish"
        /\ build'.new = new /\ build'.todo = changed /\ build'.before = build.before
        /\ UNCHANGED <<detail, plot, catalog>>
    BY <1>0, <1>6 DEF Numbers, Build
  <2>2. Present(new) = Present(build.new)
    BY <1>0, NumberedIsDay DEF Build
  <2> HIDE DEF new
  <2> QED  BY <2>1, <2>2 DEF Present
<1>7. ASSUME NEW f \in Flights, PublishesPlot(f) PROVE ListedIsShown'
  <2>1. /\ build.at = "publish" /\ IsNextFlight(f) /\ UNCHANGED <<detail, catalog>>
        /\ plot' = [plot EXCEPT ![f] = build.new[f]] /\ build'.at = "detail"
        /\ build'.todo = build.todo /\ build'.new = build.new /\ build'.before = build.before
    BY <1>0, <1>7 DEF PublishesPlot, Build
  <2>2. f \in Present(build.new)
    BY <2>1 DEF IsNextFlight
  <2>3. Present(plot') = Present(plot) \cup {f}
    BY <1>0, <2>1, <2>2 DEF Present
  <2>4. \A g \in Flights : IsNextFlight(g)' => plot'[g] = build'.new[g]
    <3> SUFFICES ASSUME NEW g \in Flights, IsNextFlight(g)' PROVE plot'[g] = build'.new[g]
      OBVIOUS
    <3>1. IsNextFlight(g)
      BY <2>1 DEF IsNextFlight
    <3>2. g = f
      BY <2>1, <3>1, NextIsOne
    <3> QED  BY <1>0, <2>1, <3>2
  <2> QED  BY <2>1, <2>3, <2>4 DEF Present
<1>8. ASSUME NEW f \in Flights, PublishesDetail(f) PROVE ListedIsShown'
  <2>1. /\ build.at = "detail" /\ IsNextFlight(f) /\ UNCHANGED <<plot, catalog>>
        /\ detail' = [detail EXCEPT ![f] = build.new[f]] /\ build'.at = "publish"
        /\ build'.todo = build.todo \ {f} /\ build'.new = build.new
        /\ build'.before = build.before
    BY <1>0, <1>8 DEF PublishesDetail, Build
  <2>2. f \in Present(build.new) /\ plot[f] = build.new[f]
    BY <2>1 DEF IsNextFlight
  <2>3. Present(detail') = Present(detail) \cup {f} /\ f \in Present(plot)
    BY <1>0, <2>1, <2>2 DEF Present
  <2> QED  BY <2>1, <2>3 DEF Present
<1>9. CASE PublishesSummary
  <2>1. /\ build.at = "publish" /\ build.todo = {} /\ UNCHANGED <<detail, plot, catalog>>
        /\ build'.at = "latest" /\ build'.new = build.new /\ build'.before = build.before
    BY <1>0, <1>9 DEF PublishesSummary, Build
  <2> QED  BY <2>1 DEF Present
<1>10. CASE CopiesLatest \/ CopyFails
  <2>1. /\ build.at = "latest" /\ UNCHANGED <<detail, plot, catalog>>
        /\ build'.at = "catalog" /\ build'.new = build.new /\ build'.before = build.before
    BY <1>0, <1>10, CopyFields DEF CopiesLatest, CopyFails, Build, Fields
  <2> QED  BY <2>1 DEF Present
<1>11. CASE WritesCatalog
  <2>1. /\ build.at = "catalog" /\ UNCHANGED <<detail, plot>> /\ catalog' = build.new
        /\ build'.at = "state" /\ build'.before = build.before
    BY <1>0, <1>11 DEF WritesCatalog, Build
  <2> QED  BY <2>1 DEF Present
<1>12. CASE SavesState
  <2>1. /\ UNCHANGED <<detail, plot, catalog>>
        /\ build'.at = "status" /\ build'.before = build.before
    BY <1>0, <1>12 DEF SavesState, Build
  <2> QED  BY <2>1 DEF Present
<1>13. CASE BuildEnds \/ BuildKilled
  <2>1. build' = NoBuild /\ UNCHANGED <<detail, plot, catalog>>
    BY <1>13 DEF BuildEnds, BuildKilled
  <2> QED  BY <2>1, NoneIsPresent DEF NoBuild, Present
<1>14. CASE TransactionFails
  <2>1. Fields("latest", {}, build.changed, NoPrints, build.before)
        /\ UNCHANGED <<detail, plot, catalog>>
    BY <1>0, <1>14, TransactionFields DEF TransactionFails
  <2> QED  BY <2>1 DEF Fields, Present
<1> QED
  BY <1>1, <1>2, <1>3, <1>4, <1>5, <1>6, <1>7, <1>8, <1>9, <1>10, <1>11, <1>12, <1>13, <1>14
  DEF Next, BuildStep, BuildFault

(***************************************************************************)
(* No reader finds a flight without its plot, whatever build was cut short.*)
(***************************************************************************)
THEOREM ReadersAlwaysFindPlots == Spec => []ReadersFindPlots
<1>1. ListedIsShown => ReadersFindPlots
  BY DEF ListedIsShown
<1> QED  BY <1>1, ListedInit, ListedStep, FlightTypes, PTL DEF Spec

-----------------------------------------------------------------------------
(***************************************************************************)
(* What a flight was read from, of files "held": canonical files are never *)
(* overwritten, so that what was good stays good when files arrive.        *)
(***************************************************************************)
Held(held, f) == {k \in UNION StreamsOf[f] : held[k][0] # 0}
Reading(held, f, S) ==
    {k \in S \cap Held(held, f) :
        /\ held[k][0] \notin Unreadable
        /\ k \in Tables \/ \A s \in StreamsOf[f] : k \in s =>
               ~\E t \in s \cap S \cap Held(held, f) \cap Tables : held[t][0] \notin Unreadable}
Good(held, f, old, keys) ==
    \E S \in SUBSET Held(held, f) : old \subseteq S /\ keys = Reading(held, f, S)
GoodIfAny(held, f, old, keys) == old # {} => Good(held, f, old, keys)

LEMMA HeldIsThere ==
    ASSUME NEW f \in Flights
    PROVE  There(f) = Held(file, f) /\ \A S : Chosen(f, S) = Reading(file, f, S)
BY DEF There, Held, Chosen, Reading, Readable

LEMMA GoodIsAsGood ==
    ASSUME NEW f \in Flights, NEW old, NEW keys
    PROVE  AsGood(f, old, keys) <=> Good(file, f, old, keys)
BY HeldIsThere DEF AsGood, Good

LEMMA GoodIsHeld ==
    ASSUME NEW held, NEW f, NEW old, NEW keys, Good(held, f, old, keys)
    PROVE  old \subseteq Held(held, f)
BY DEF Good

LEMMA DecodedIsGood ==
    ASSUME NEW f \in Flights, NEW old \in SUBSET Held(file, f)
    PROVE  Good(file, f, old, Decoded(f).keys)
<1>1. Decoded(f).keys = Reading(file, f, Held(file, f))
  BY HeldIsThere DEF Decoded
<1> QED  BY <1>1 DEF Good

LEMMA GoodStays ==
    ASSUME NEW held, NEW next, NEW f \in Flights, NEW old, NEW keys, Good(held, f, old, keys),
           \A k \in Keys : held[k][0] # 0 => next[k][0] = held[k][0]
    PROVE  Good(next, f, old, keys)
<1>1. PICK S \in SUBSET Held(held, f) : old \subseteq S /\ keys = Reading(held, f, S)
  BY DEF Good
<1>2. UNION StreamsOf[f] \subseteq Keys
  OBVIOUS
<1>3. S \subseteq Held(next, f) /\ \A k \in S : next[k][0] = held[k][0]
  BY <1>2 DEF Held
<1>4. S \cap Held(next, f) = S /\ S \cap Held(held, f) = S
  BY <1>3
<1>5. Reading(next, f, S) = Reading(held, f, S)
  BY <1>3, <1>4 DEF Reading
<1> QED  BY <1>1, <1>3, <1>5 DEF Good

-----------------------------------------------------------------------------
(***************************************************************************)
(* A fingerprint that is saved, or will be, is of files that the flight    *)
(* was decoded from.                                                       *)
(***************************************************************************)
Shown(f, old) == GoodIfAny(file, f, old, detail[f].keys) /\ GoodIfAny(file, f, old, plot[f].keys)
InHand(f) == build.at = "decode" /\ IsNextFlight(f)

SavedIsShown == \A f \in Flights : Shown(f, saved[f])

WhileDecoding ==
    build.at \in {"print", "decode"} =>
        \A f \in Flights :
            /\ f \in build.todo => f \notin build.changed
            /\ f \in build.changed => /\ GoodIfAny(file, f, saved[f], build.new[f].keys)
                                      /\ GoodIfAny(file, f, build.prints[f], build.new[f].keys)
            /\ f \notin build.changed /\ f \in Present(build.new) => build.new[f] = detail[f]
            /\ f \notin build.changed /\ ~InHand(f) /\ build.prints[f] # {}
                   => build.prints[f] = saved[f]
            /\ InHand(f) => build.prints[f] \subseteq Held(file, f)

WhilePublishing ==
    build.at \in {"publish", "detail"} =>
        \A f \in Flights :
            /\ f \in build.todo => /\ GoodIfAny(file, f, saved[f], build.new[f].keys)
                                   /\ GoodIfAny(file, f, build.prints[f], build.new[f].keys)
            /\ f \notin build.todo => Shown(f, build.prints[f])

BeforeSaving ==
    build.at \in {"latest", "catalog", "state"} => \A f \in Flights : Shown(f, build.prints[f])

PrintsAreRead == SavedIsShown /\ WhileDecoding /\ WhilePublishing /\ BeforeSaving

LEMMA PrintsInit == Init => PrintsAreRead
BY DEF Init, NoBuild, NoPrints, PrintsAreRead, SavedIsShown, WhileDecoding, WhilePublishing,
   BeforeSaving, Shown, GoodIfAny

\* Files arrive while the products stay as they are.
LEMMA PrintsKept ==
    ASSUME PrintsAreRead, UNCHANGED <<products, build>>,
           \A k \in Keys : file[k][0] # 0 => file'[k][0] = file[k][0]
    PROVE  PrintsAreRead'
<1> DEFINE Stays == \A f \in Flights : \A old, keys :
                        GoodIfAny(file, f, old, keys) => GoodIfAny(file', f, old, keys)
<1>1. Stays
  BY GoodStays DEF GoodIfAny
<1>2. \A f \in Flights : Held(file, f) \subseteq Held(file', f)
  <2> SUFFICES ASSUME NEW f \in Flights PROVE Held(file, f) \subseteq Held(file', f)
    OBVIOUS
  <2>1. UNION StreamsOf[f] \subseteq Keys
    OBVIOUS
  <2> QED  BY <2>1 DEF Held
<1> USE <1>1 DEF products, images, PrintsAreRead
<1>3. SavedIsShown' /\ BeforeSaving'
  BY DEF SavedIsShown, BeforeSaving, Shown
<1>4. WhileDecoding'
  BY <1>2 DEF WhileDecoding, InHand, IsNextFlight, Present
<1>5. WhilePublishing'
  BY DEF WhilePublishing, Shown
<1> QED  BY <1>3, <1>4, <1>5

LEMMA PrintsBuild ==
    ASSUME TypeOK, ListedIsShown, PrintsAreRead, BuildStep \/ BuildFault PROVE PrintsAreRead'
<1>0. /\ build \in Build /\ saved \in [Flights -> SUBSET Keys]
      /\ {detail, plot, summary, latest, catalog} \subseteq [Flights -> Product]
  BY DEF TypeOK
<1> USE DEF PrintsAreRead, images, products
<1>1. file' = file
  BY DEF syncVars, store, BuildStep, BuildFault, BuildBegins, Fingerprints, Decodes, Rejects,
     Numbers, PublishesPlot, PublishesDetail, PublishesSummary, CopiesLatest, WritesCatalog,
     SavesState, BuildEnds, DecodeFails, TransactionFails, CopyFails, BuildKilled
<1> DEFINE Unmoved == UNCHANGED <<file, detail, plot, saved>>
<1>2. CASE BuildBegins
  <2> DEFINE before == [f \in Flights |-> IF f \in Listed THEN detail[f] ELSE Nothing]
  <2>1. /\ build'.at = "print" /\ build'.changed = {} /\ build'.prints = NoPrints
        /\ build'.new = before /\ Unmoved
    BY <1>1, <1>2 DEF BuildBegins, NoBuild
  <2>2. \A f \in Flights : before[f] # Nothing => before[f] = detail[f]
    OBVIOUS
  <2> HIDE DEF before
  <2> QED
    BY <2>1, <2>2 DEF SavedIsShown, WhileDecoding, WhilePublishing, BeforeSaving, Shown, InHand,
       NoPrints, Present
<1>3. ASSUME NEW f \in Flights, Fingerprints(f) PROVE PrintsAreRead'
  <2>1. /\ build.at = "print" /\ IsNextFlight(f) /\ build'.at = "decode" /\ Unmoved
        /\ build'.prints = [build.prints EXCEPT ![f] = There(f)]
        /\ build'.changed = build.changed /\ build'.new = build.new /\ build'.todo = build.todo
    BY <1>0, <1>1, <1>3 DEF Fingerprints, Build
  <2>2. SavedIsShown' /\ WhilePublishing' /\ BeforeSaving'
    BY <2>1 DEF SavedIsShown, WhilePublishing, BeforeSaving, Shown
  <2>3. \A g \in Flights : IsNextFlight(g)' <=> g = f
    <3>1. \A g \in Flights : IsNextFlight(g)' <=> IsNextFlight(g)
      BY <2>1 DEF IsNextFlight
    <3> QED  BY <2>1, <3>1, NextIsOne
  <2>4. build'.prints[f] = Held(file, f)
        /\ \A g \in Flights : g # f => build'.prints[g] = build.prints[g]
    BY <1>0, <2>1, HeldIsThere DEF Build
  <2>5. f \in build.todo
    BY <2>1 DEF IsNextFlight
  <2>6. WhileDecoding'
    BY <2>1, <2>3, <2>4, <2>5 DEF WhileDecoding, InHand, Present
  <2> QED  BY <2>2, <2>6
<1>4. ASSUME NEW f \in Flights, Decodes(f) PROVE PrintsAreRead'
  <2>1. detail[f] \in Product /\ Decoded(f) \in Product
    <3>1. Cardinality(Flights) \in Nat
      BY FS_CardinalityType
    <3> QED  BY <1>0, <3>1, FilesOfFlight DEF Decoded, Product
  <2>2. build.at = "decode" /\ IsNextFlight(f) /\ f \in build.todo /\ Unmoved
    BY <1>1, <1>4 DEF Decodes, IsNextFlight
  <2>3. \A g \in Flights : InHand(g) <=> g = f
    BY <2>2, NextIsOne DEF InHand
  <2>4. f \notin build.changed /\ build.prints[f] \subseteq Held(file, f)
    BY <2>2, <2>3 DEF WhileDecoding
  <2>5. CASE Reusable(f) /\ Fields("print", build.todo \ {f}, build.changed, build.prints,
                                   [build.new EXCEPT ![f] = detail[f]])
    <3>1. build.prints[f] = saved[f]
      BY <2>5 DEF Reusable
    <3>2. build'.new[f] = detail[f] /\ \A g \in Flights : g # f => build'.new[g] = build.new[g]
      BY <1>0, <2>5 DEF Fields, Build
    <3>3. WhileDecoding'
      BY <2>2, <2>3, <2>4, <2>5, <3>1, <3>2 DEF WhileDecoding, Fields, InHand, Present
    <3> QED
      BY <2>2, <2>5, <3>3 DEF Fields, SavedIsShown, WhilePublishing, BeforeSaving, Shown
  <2>6. CASE ~Reusable(f) /\ Fields("print", build.todo \ {f}, build.changed \cup {f},
                                    build.prints, [build.new EXCEPT ![f] = Decoded(f)])
    <3>1. build'.new[f] = Decoded(f) /\ \A g \in Flights : g # f => build'.new[g] = build.new[g]
      BY <1>0, <2>6 DEF Fields, Build
    <3>2. GoodIfAny(file, f, build.prints[f], Decoded(f).keys)
      BY <2>4, DecodedIsGood DEF GoodIfAny
    <3>3. GoodIfAny(file, f, saved[f], Decoded(f).keys)
      <4>1. Shown(f, saved[f])
        BY DEF SavedIsShown
      <4>2. saved[f] # {} => saved[f] \subseteq Held(file, f)
        BY <4>1, GoodIsHeld DEF Shown, GoodIfAny
      <4> QED  BY <4>2, DecodedIsGood DEF GoodIfAny
    <3>4. WhileDecoding'
      BY <2>2, <2>3, <2>4, <2>6, <3>1, <3>2, <3>3 DEF WhileDecoding, Fields, InHand, Present
    <3> QED
      BY <2>2, <2>6, <3>4 DEF Fields, SavedIsShown, WhilePublishing, BeforeSaving, Shown
  <2> QED  BY <1>0, <1>4, <2>1, <2>5, <2>6, DecodesFields
<1>5. ASSUME NEW f \in Flights, Rejects(f) \/ DecodeFails(f) PROVE PrintsAreRead'
  <2>1. /\ Fields("print", build.todo \ {f}, build.changed, [build.prints EXCEPT ![f] = {}],
                  build.new)
        /\ build.at = "decode" /\ IsNextFlight(f) /\ f \in build.todo /\ Unmoved
    BY <1>0, <1>1, <1>5, SkipsFields DEF Rejects, DecodeFails, IsNextFlight
  <2>2. \A g \in Flights : InHand(g) <=> g = f
    BY <2>1, NextIsOne DEF InHand
  <2>3. build'.prints[f] = {} /\ \A g \in Flights : g # f => build'.prints[g] = build.prints[g]
    BY <1>0, <2>1 DEF Fields, Build
  <2>4. WhileDecoding'
    BY <2>1, <2>2, <2>3 DEF WhileDecoding, Fields, InHand, Present
  <2> QED  BY <2>1, <2>4 DEF Fields, SavedIsShown, WhilePublishing, BeforeSaving, Shown
<1>6. CASE Numbers
  <2> DEFINE new == Numbered(build.new)
             changed == build.changed \cup {f \in Present(new) : new[f] # build.new[f]}
  <2>1. /\ build.at = "print" /\ build'.at = IF Present(new) = {} THEN "latest" ELSE "publish"
        /\ build'.new = new /\ build'.todo = changed /\ build'.prints = build.prints /\ Unmoved
    BY <1>0, <1>1, <1>6 DEF Numbers, Build
  <2>2. Present(new) = Present(build.new)
        /\ \A f \in Present(new) : new[f].keys = build.new[f].keys
    BY <1>0, NumberedIsDay DEF Build
  <2>3. build.changed \subseteq Present(new) /\ Present(new) \subseteq Flights
    BY <2>1, <2>2 DEF ListedIsShown, Present
  <2> HIDE DEF new
  <2>4. \A f \in Flights : f \notin build.changed => Shown(f, build.prints[f])
    BY <2>1 DEF WhileDecoding, InHand, SavedIsShown, Shown, GoodIfAny
  <2>5. ASSUME NEW f \in changed
        PROVE  /\ GoodIfAny(file, f, saved[f], new[f].keys)
               /\ GoodIfAny(file, f, build.prints[f], new[f].keys)
    <3>1. f \in Flights /\ f \in Present(build.new) /\ new[f].keys = build.new[f].keys
      BY <2>2, <2>3
    <3>2. CASE f \in build.changed
      BY <2>1, <3>1, <3>2 DEF WhileDecoding
    <3>3. CASE f \notin build.changed
      <4>1. build.new[f] = detail[f]
        BY <2>1, <3>1, <3>3 DEF WhileDecoding
      <4> QED  BY <2>4, <3>1, <3>3, <4>1 DEF SavedIsShown, Shown
    <3> QED  BY <3>2, <3>3
  <2>6. SavedIsShown' /\ WhileDecoding'
    BY <2>1 DEF SavedIsShown, WhileDecoding, Shown
  <2>7. WhilePublishing'
    BY <2>1, <2>4, <2>5 DEF WhilePublishing, Shown
  <2>8. BeforeSaving'
    BY <2>1, <2>3, <2>4 DEF BeforeSaving, Shown
  <2> QED  BY <2>6, <2>7, <2>8
<1>7. ASSUME NEW f \in Flights, PublishesPlot(f) PROVE PrintsAreRead'
  <2>1. /\ build.at = "publish" /\ f \in build.todo /\ UNCHANGED <<file, detail, saved>>
        /\ plot' = [plot EXCEPT ![f] = build.new[f]] /\ build'.at = "detail"
        /\ build'.todo = build.todo /\ build'.new = build.new /\ build'.prints = build.prints
    BY <1>0, <1>1, <1>7 DEF PublishesPlot, Build, IsNextFlight
  <2>2. plot'[f] = build.new[f] /\ \A g \in Flights : g # f => plot'[g] = plot[g]
    BY <1>0, <2>1
  <2> QED
    BY <2>1, <2>2 DEF SavedIsShown, WhileDecoding, WhilePublishing, BeforeSaving, Shown
<1>8. ASSUME NEW f \in Flights, PublishesDetail(f) PROVE PrintsAreRead'
  <2>1. /\ build.at = "detail" /\ IsNextFlight(f) /\ f \in build.todo
        /\ UNCHANGED <<file, plot, saved>>
        /\ detail' = [detail EXCEPT ![f] = build.new[f]] /\ build'.at = "publish"
        /\ build'.todo = build.todo \ {f} /\ build'.new = build.new
        /\ build'.prints = build.prints
    BY <1>0, <1>1, <1>8 DEF PublishesDetail, Build, IsNextFlight
  <2>2. detail'[f] = build.new[f] /\ \A g \in Flights : g # f => detail'[g] = detail[g]
    BY <1>0, <2>1
  <2>3. plot[f] = build.new[f]
    BY <2>1 DEF ListedIsShown
  <2> QED
    BY <2>1, <2>2, <2>3 DEF SavedIsShown, WhileDecoding, WhilePublishing, BeforeSaving, Shown
<1>9. CASE PublishesSummary
  <2>1. /\ build.at = "publish" /\ build.todo = {} /\ Unmoved
        /\ build'.at = "latest" /\ build'.prints = build.prints
    BY <1>0, <1>1, <1>9 DEF PublishesSummary, Build
  <2> QED
    BY <2>1 DEF SavedIsShown, WhileDecoding, WhilePublishing, BeforeSaving, Shown
<1>10. CASE CopiesLatest \/ CopyFails \/ WritesCatalog
  <2>1. /\ build.at \in {"latest", "catalog"} /\ Unmoved
        /\ build'.at \in {"catalog", "state"} /\ build'.prints = build.prints
    BY <1>0, <1>1, <1>10, CopyFields DEF CopiesLatest, CopyFails, WritesCatalog, Build, Fields
  <2> QED
    BY <2>1 DEF SavedIsShown, WhileDecoding, WhilePublishing, BeforeSaving, Shown
<1>11. CASE SavesState
  <2>1. /\ build.at = "state" /\ UNCHANGED <<file, detail, plot>> /\ build'.at = "status"
        /\ \A f \in Flights :
               saved'[f] = IF build.prints[f] # {} THEN build.prints[f] ELSE saved[f]
    BY <1>0, <1>1, <1>11 DEF SavesState, Build
  <2> QED
    BY <2>1 DEF SavedIsShown, WhileDecoding, WhilePublishing, BeforeSaving, Shown
<1>12. CASE BuildEnds \/ BuildKilled
  <2>1. build' = NoBuild /\ Unmoved
    BY <1>1, <1>12 DEF BuildEnds, BuildKilled
  <2> QED
    BY <2>1 DEF NoBuild, SavedIsShown, WhileDecoding, WhilePublishing, BeforeSaving, Shown
<1>13. CASE TransactionFails
  <2>1. Fields("latest", {}, build.changed, NoPrints, build.before) /\ Unmoved
    BY <1>0, <1>1, <1>13, TransactionFields DEF TransactionFails
  <2> QED
    BY <2>1 DEF Fields, NoPrints, SavedIsShown, WhileDecoding, WhilePublishing, BeforeSaving,
       Shown, GoodIfAny
<1> QED
  BY <1>2, <1>3, <1>4, <1>5, <1>6, <1>7, <1>8, <1>9, <1>10, <1>11, <1>12, <1>13
  DEF BuildStep, BuildFault

LEMMA PrintsStep ==
    IngestInv /\ TypeOK /\ ListedIsShown /\ PrintsAreRead /\ [Next]_vars => PrintsAreRead'
<1> SUFFICES ASSUME IngestInv, TypeOK, ListedIsShown, PrintsAreRead, [Next]_vars
             PROVE  PrintsAreRead'
  OBVIOUS
<1>1. CASE UNCHANGED vars \/ Source
  <2>1. \A k \in Keys : file[k][0] # 0 => file'[k][0] = file[k][0]
    BY FilesStay DEF Stamps
  <2> QED  BY <1>1, <2>1, PrintsKept DEF vars, Source
<1> QED  BY <1>1, PrintsBuild DEF Next

(***************************************************************************)
(* A saved fingerprint is of files that the published detail and plot were *)
(* read from, so that no later build reuses a product that lacks them.     *)
(***************************************************************************)
THEOREM SavedAlwaysDecoded == Spec => []SavedIsDecoded
<1>1. PrintsAreRead => SavedIsDecoded
  BY GoodIsAsGood DEF PrintsAreRead, SavedIsShown, Shown, GoodIfAny, SavedIsDecoded
<1> QED
  BY <1>1, PrintsInit, PrintsStep, ListedInit, ListedStep, FlightTypes, IngestInvariant, PTL
  DEF Spec

=============================================================================

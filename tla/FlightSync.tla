----------------------------- MODULE FlightSync -----------------------------
(***************************************************************************)
(* The ingest of drone flights from the provider's bucket                  *)
(* (aurora-menapia-flight-sync.py).  A run lists the bucket, downloads the *)
(* newest versions that its registry does not have, keeps the first        *)
(* content of a key at its canonical path and every later one beside it,   *)
(* and hands what is new to the archive dispatcher.  Objects are replaced  *)
(* in the bucket while a run goes on, downloads fail and runs are killed.  *)
(*                                                                         *)
(* The stamp of an object is its modification time; it stands for the      *)
(* whole source fingerprint.  Bytes are named by the upload that had them  *)
(* first, so that an object may come back with bytes it had before.        *)
(***************************************************************************)
EXTENDS Naturals, FiniteSets

CONSTANTS
    Keys,           \* object keys
    MaxObjects,     \* max_objects_per_run
    Dispatches,     \* is the archive dispatcher installed or required
    MaxUploads,     \* bound: uploads to the bucket
    MaxFaults       \* bound: failures and kills

ASSUME SyncAssumption ==
    /\ MaxObjects \in Nat \ {0} /\ MaxUploads \in Nat /\ MaxFaults \in Nat
    /\ Dispatches \in BOOLEAN

VARIABLES
    upstream,       \* key -> stamp and bytes of the object, 0 for none
    stamp,          \* the last upload
    file,           \* key -> path -> bytes; path 0 is canonical, a stamp a revision
    rows,           \* the registry, object_versions
    sync,           \* the run that holds the lock
    queued,         \* paths handed to the archive dispatcher
    faults

store == <<file, rows, queued>>
syncVars == <<upstream, stamp, store, sync, faults>>

Stamps == 0..MaxUploads
Entry == [key : Keys, stamp : Stamps]
Row == [key : Keys, stamp : Stamps, path : Stamps, bytes : Stamps, enqueued : BOOLEAN]

\* "listed" is what the bucket held at the listing and "left" what of it the limit
\* leaves for later runs; "entry" is the object in hand, at most one.
NoSync == [at |-> "idle", listed |-> {}, left |-> {}, failed |-> FALSE,
           todo |-> {}, entry |-> {}, got |-> 0, path |-> 0, paths |-> {}]

Run == [at : {"idle", "ingest", "record", "flag", "ends"},
        listed : SUBSET Entry, left : SUBSET Entry, todo : SUBSET Entry,
        entry : SUBSET Entry, failed : BOOLEAN, got : Stamps, path : Stamps,
        paths : SUBSET (Keys \X Stamps)]

SyncTypeOK ==
    /\ upstream \in [Keys -> [stamp : Stamps, bytes : Stamps]]
    /\ stamp \in Stamps /\ faults \in 0..MaxFaults
    /\ file \in [Keys -> [Stamps -> Stamps]]
    /\ rows \subseteq Row
    /\ sync \in Run
    /\ queued \subseteq Keys \X Stamps

SyncInit ==
    /\ upstream = [k \in Keys |-> [stamp |-> 0, bytes |-> 0]]
    /\ stamp = 0
    /\ file = [k \in Keys |-> [p \in Stamps |-> 0]]
    /\ rows = {} /\ sync = NoSync /\ queued = {}
    /\ faults = 0

-----------------------------------------------------------------------------
\* The provider puts new bytes, or bytes that the key had before.
Uploads(k) ==
    /\ stamp < MaxUploads /\ stamp' = stamp + 1
    /\ \E b \in {stamp + 1, upstream[k].bytes} \ {0} :
           upstream' = [upstream EXCEPT ![k] = [stamp |-> stamp + 1, bytes |-> b]]
    /\ UNCHANGED <<store, sync, faults>>

Fails == faults < MaxFaults /\ faults' = faults + 1

Prior(k) == {r \in rows : r.key = k}
Known_ByKey(k) == Prior(k) # {}
Known(k) == \E r \in Prior(k) : r.stamp = upstream[k].stamp /\ file[k][r.path] # 0

\* The listing is sorted newest first; what is not known of it is cut to the limit
\* of a run.
Listing == {[key |-> k, stamp |-> upstream[k].stamp] :
                k \in {l \in Keys : upstream[l].stamp # 0}}
Candidates == {e \in Listing : ~Known(e.key)}
Newer(e, S) == {d \in S : d.stamp > e.stamp}
Selected == {e \in Candidates : Cardinality(Newer(e, Candidates)) < MaxObjects}

SyncBegins ==
    /\ sync.at = "idle"
    /\ sync' = [NoSync EXCEPT !.at = "ingest", !.listed = Listing, !.todo = Selected,
                              !.left = Candidates \ Selected]
    /\ UNCHANGED <<upstream, stamp, store, faults>>

\* The canonical path is taken by the first content only: not when the registry
\* knows the key, nor when there is a file that it does not know of.
IsCanonical_ByRegistry(k) == Prior(k) = {}
IsCanonical(k) == Prior(k) = {} /\ file[k][0] = 0

\* A prior version with the same bytes, or a canonical file without any version.
Same(k, bytes) ==
    {r.path : r \in {q \in Prior(k) : q.bytes = bytes /\ file[k][q.path] # 0}}
        \cup IF Prior(k) = {} /\ file[k][0] = bytes THEN {0} ELSE {}

\* The object may have been replaced since the listing.  Its size gives that away,
\* unless it is the size that was listed.  The download is renamed into its place.
\* The loop goes on after an entry that fails; its counters are wording.
IsNext(e) == sync.at = "ingest" /\ e \in sync.todo /\ Newer(e, sync.todo) = {}

Receives(e) ==
    /\ IsNext(e)
    /\ LET bytes == upstream[e.key].bytes
           final == IF IsCanonical(e.key) THEN 0 ELSE e.stamp
           Goes(path) == sync' = [sync EXCEPT !.at = "record", !.todo = @ \ {e},
                                      !.entry = {e}, !.got = bytes, !.path = path]
       IN  \/ \E path \in Same(e.key, bytes) : Goes(path) /\ UNCHANGED file
           \/ /\ Same(e.key, bytes) = {} /\ Goes(final)
              /\ file' = [file EXCEPT ![e.key][final] = bytes]
    /\ UNCHANGED <<upstream, stamp, rows, queued, faults>>

IsRefused(e) ==
    /\ IsNext(e) /\ upstream[e.key].stamp # e.stamp
    /\ sync' = [sync EXCEPT !.todo = @ \ {e}, !.failed = TRUE]
    /\ UNCHANGED <<upstream, stamp, store, faults>>

DownloadFails_Silently(e) ==
    /\ Fails
    /\ IsNext(e) /\ sync' = [sync EXCEPT !.todo = @ \ {e}]
    /\ UNCHANGED <<upstream, stamp, store>>

DownloadFails(e) ==
    /\ Fails
    /\ IsNext(e) /\ sync' = [sync EXCEPT !.todo = @ \ {e}, !.failed = TRUE]
    /\ UNCHANGED <<upstream, stamp, store>>

Version(e, s) == [key |-> e.key, stamp |-> s, path |-> sync.path,
                  bytes |-> sync.got, enqueued |-> FALSE]
NewRow_Now(e) == Version(e, upstream[e.key].stamp)

\* The version is the one that was listed.
NewRow(e) == Version(e, e.stamp)

Records ==
    /\ sync.at = "record"
    /\ rows' = rows \cup {NewRow(e) : e \in sync.entry}
    /\ sync' = [sync EXCEPT !.at = "ingest", !.entry = {}, !.got = 0, !.path = 0]
    /\ UNCHANGED <<upstream, stamp, file, queued, faults>>

-----------------------------------------------------------------------------
\* Every path that is not flagged is queued, then the rows of those paths are
\* flagged.  A queue that refuses them leaves them for the next run.
\* Where the dispatcher is neither there nor required, nothing is handed on.
PendingPaths ==
    {<<r.key, r.path>> : r \in {q \in rows : /\ Dispatches /\ ~q.enqueued
                                             /\ file[q.key][q.path] # 0}}

Enqueues ==
    /\ sync.at = "ingest" /\ sync.todo = {}
    /\ queued' = queued \cup PendingPaths
    /\ sync' = [sync EXCEPT !.at = IF PendingPaths = {} THEN "ends" ELSE "flag",
                            !.paths = PendingPaths]
    /\ UNCHANGED <<upstream, stamp, file, rows, faults>>

EnqueueFails_Flags ==
    /\ Fails
    /\ sync.at = "ingest" /\ sync.todo = {} /\ PendingPaths # {}
    /\ sync' = [sync EXCEPT !.at = "flag", !.paths = PendingPaths]
    /\ UNCHANGED <<upstream, stamp, store>>

EnqueueFails ==
    /\ Fails
    /\ sync.at = "ingest" /\ sync.todo = {} /\ PendingPaths # {}
    /\ sync' = [sync EXCEPT !.at = "ends", !.failed = TRUE]
    /\ UNCHANGED <<upstream, stamp, store>>

Flagged == {r \in rows : <<r.key, r.path>> \in sync.paths}

Flags ==
    /\ sync.at = "flag"
    /\ rows' = (rows \ Flagged) \cup {[r EXCEPT !.enqueued = TRUE] : r \in Flagged}
    /\ sync' = [sync EXCEPT !.at = "ends", !.paths = {}]
    /\ UNCHANGED <<upstream, stamp, file, queued, faults>>

\* The manifest and the status are written: nothing but the monitor reads them.  A
\* run that leaves objects for later ones is a success as well, with a backlog.
ReportsSuccess == ~sync.failed

SyncEnds ==
    /\ sync.at = "ends" /\ sync' = NoSync
    /\ UNCHANGED <<upstream, stamp, store, faults>>

SyncKilled ==
    /\ Fails
    /\ sync.at # "idle" /\ sync' = NoSync
    /\ UNCHANGED <<upstream, stamp, store>>

SyncStep ==
    \/ SyncBegins \/ Records \/ Enqueues \/ Flags \/ SyncEnds
    \/ \E e \in sync.todo : Receives(e)

SyncFault ==
    \/ EnqueueFails \/ SyncKilled
    \/ \E e \in sync.todo : DownloadFails(e) \/ IsRefused(e)

-----------------------------------------------------------------------------
(***************************************************************************)
(* The canonical copy of an object, which the products are made from, and  *)
(* every version in the registry keep their bytes for ever, although a run *)
(* may be killed between a file and its row and the object may be replaced *)
(* before the next one.  (A revision without a row may be overwritten.)    *)
(***************************************************************************)
ReceivedIsImmutable ==
    [][\A k \in Keys, p \in Stamps :
          file[k][p] # 0 /\ (p = 0 \/ p \in {r.path : r \in Prior(k)})
              => file'[k][p] = file[k][p]]_syncVars

(***************************************************************************)
(* Each version in the registry names a path that holds the bytes it was   *)
(* recorded with, and a version that is flagged was handed to the archive  *)
(* dispatcher at that path: a run that is killed between two of its steps  *)
(* never leaves a claim behind that is not so.                             *)
(***************************************************************************)
RegistryIsTrue ==
    \A r \in rows : /\ file[r.key][r.path] = r.bytes
                    /\ r.enqueued => <<r.key, r.path>> \in queued

(***************************************************************************)
(* The version that the bucket shows is never registered with other bytes. *)
(* A download may find an object that was replaced after the listing, and  *)
(* records what it got under the version that was listed; but as the       *)
(* listing comes first, that version is then gone from the bucket, and the *)
(* one that replaced it is still to be received.                           *)
(***************************************************************************)
ShownIsExact ==
    \A r \in rows : r.stamp = upstream[r.key].stamp => r.bytes = upstream[r.key].bytes

Delivered(e, registry) ==
    \E r \in registry : r.key = e.key /\ r.stamp = e.stamp /\ (Dispatches => r.enqueued)

=============================================================================

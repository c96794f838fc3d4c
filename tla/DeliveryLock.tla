---------------------------- MODULE DeliveryLock ----------------------------
(***************************************************************************)
(* The lock that serialises the raw transfers to the group workspace       *)
(* (aurora-gws-transfer.py).  Two kernel locks are taken by every writer:  *)
(* the intent lock, shared by the fast writers from the moment they ask    *)
(* until their transfer has ended and held exclusively by a bulk writer    *)
(* only while it tries the second one, the delivery lock, under which      *)
(* rsync runs.  A transfer inherits the descriptor of the delivery lock,   *)
(* so that it keeps the lock when the helper that started it is killed.    *)
(* The other end of a transfer, the receiver on the workspace host, holds  *)
(* no lock: when the local rsync or its SSH connection is broken off it    *)
(* may be left there, and go on, after the lock has been let go.           *)
(***************************************************************************)
EXTENDS Naturals

CONSTANTS
    Fast,           \* writers that wait for the running transfer to end
    Bulk,           \* writers that give up at once when the lock is taken
    Orphan,         \* a transfer that has outlived its helper
    Free,           \* nobody holds the delivery lock
    Receivers,      \* receivers that can be left on the workspace host
    WaitExpires     \* the fast lane is configured with a deadline

Writers == Fast \cup Bulk

ASSUME LockAssumption ==
    /\ Fast \cap Bulk = {}
    /\ {Orphan, Free} \cap Writers = {}
    /\ Orphan # Free
    /\ Receivers \cap (Writers \cup {Orphan, Free}) = {}
    /\ WaitExpires \in BOOLEAN

VARIABLES
    session,        \* how far the helper of each writer is
    intent,         \* the writers that hold the intent lock
    delivery,       \* who holds the delivery lock
    orphan,         \* a transfer without a helper is running
    remains         \* the receivers of transfers that were broken off

lockVars == <<session, intent, delivery, orphan, remains>>

LockTypeOK ==
    /\ session \in [Writers -> {"out", "asking", "waiting", "held", "copying"}]
    /\ intent \subseteq Writers
    /\ delivery \in Writers \cup {Orphan, Free}
    /\ orphan \in BOOLEAN
    /\ remains \subseteq Receivers

LockInit ==
    /\ session = [w \in Writers |-> "out"]
    /\ intent = {}
    /\ delivery = Free
    /\ orphan = FALSE
    /\ remains = {}

Goes(w, step) == session' = [session EXCEPT ![w] = step]

\* Closing the descriptor of the intent lock only would leave the other held.
Closes_IntentOnly(w) ==
    /\ Goes(w, "out")
    /\ intent' = intent \ {w}
    /\ UNCHANGED delivery

\* Closing both descriptors, whatever they hold.
Closes(w) ==
    /\ Goes(w, "out")
    /\ intent' = intent \ {w}
    /\ delivery' = IF delivery = w THEN Free ELSE delivery

-----------------------------------------------------------------------------
\* A fast helper polls the intent lock, then the delivery lock.
FastAsks(w) ==
    /\ w \in Fast /\ session[w] = "out"
    /\ Goes(w, "asking")
    /\ UNCHANGED <<intent, delivery, orphan, remains>>

FastIntends(w) ==
    /\ w \in Fast /\ session[w] = "asking"
    /\ intent \cap Bulk = {}
    /\ Goes(w, "waiting")
    /\ intent' = intent \cup {w}
    /\ UNCHANGED <<delivery, orphan, remains>>

FastAcquires(w) ==
    /\ w \in Fast /\ session[w] = "waiting"
    /\ delivery = Free
    /\ Goes(w, "held")
    /\ delivery' = w
    /\ UNCHANGED <<intent, orphan, remains>>

\* The deadline of a fast helper passes: exit 75.
FastExpires(w) ==
    /\ w \in Fast /\ WaitExpires
    /\ session[w] \in {"asking", "waiting"}
    /\ Closes(w)
    /\ UNCHANGED <<orphan, remains>>

-----------------------------------------------------------------------------
\* A bulk helper tries each lock once; with a fast writer waiting, or another
\* transfer running, it leaves with exit 75.
MayIntend_Shared(w) == intent \cap Bulk = {}
MayIntend(w) == intent = {}

BulkIntends(w) ==
    /\ w \in Bulk /\ session[w] = "out"
    /\ MayIntend(w)
    /\ Goes(w, "waiting")
    /\ intent' = intent \cup {w}
    /\ UNCHANGED <<delivery, orphan, remains>>

BulkAcquires(w) ==
    /\ w \in Bulk /\ session[w] = "waiting"
    /\ delivery = Free
    /\ Goes(w, "held")
    /\ delivery' = w
    /\ UNCHANGED <<intent, orphan, remains>>

BulkIsRefused(w) ==
    /\ w \in Bulk /\ session[w] = "waiting"
    /\ delivery # Free
    /\ Closes(w)
    /\ UNCHANGED <<orphan, remains>>

BulkOpensGate(w) ==
    /\ w \in Bulk /\ session[w] = "held" /\ w \in intent
    /\ intent' = intent \ {w}
    /\ UNCHANGED <<session, delivery, orphan, remains>>

\* Nothing is left to send when the lock is held.
BulkLeaves(w) ==
    /\ w \in Bulk /\ session[w] = "held" /\ w \notin intent
    /\ Closes(w)
    /\ UNCHANGED <<orphan, remains>>

-----------------------------------------------------------------------------
\* The child is started once a bulk helper has let the intent lock go.
StartsCopy(w) ==
    /\ session[w] = "held" /\ (w \in Bulk => w \notin intent)
    /\ Goes(w, "copying")
    /\ UNCHANGED <<intent, delivery, orphan, remains>>

\* TERM, INT and HUP are remembered until the child has returned, so that a
\* helper that is asked to stop ends here as well.
EndsCopy(w) ==
    /\ session[w] = "copying"
    /\ Closes(w)
    /\ UNCHANGED <<orphan, remains>>

\* A child that inherits the descriptor keeps the lock of a helper that is
\* killed; one that did not would leave it free.
HeldByChild_NotInherited(w) == Free
HeldByChild(w) == Orphan

Killed(w) ==
    /\ session[w] # "out"
    /\ Goes(w, "out")
    /\ intent' = intent \ {w}
    /\ IF session[w] = "copying"
       THEN orphan' = TRUE /\ delivery' = HeldByChild(w)
       ELSE /\ delivery' = IF delivery = w THEN Free ELSE delivery
            /\ UNCHANGED orphan
    /\ UNCHANGED remains

\* The connection breaks, or rsync fails: its receiver ends with it or is left.
MayRemain ==
    \/ UNCHANGED remains
    \/ \E r \in Receivers \ remains : remains' = remains \cup {r}

BreaksOff(w) ==
    /\ session[w] = "copying"
    /\ Closes(w)
    /\ MayRemain
    /\ UNCHANGED orphan

\* Helper and child are killed together, with their control group.
KilledWithChild(w) ==
    /\ session[w] # "out"
    /\ Closes(w)
    /\ IF session[w] = "copying" THEN MayRemain ELSE UNCHANGED remains
    /\ UNCHANGED orphan

\* What ends a transfer without a helper is not known.
OrphanEnds ==
    /\ orphan
    /\ orphan' = FALSE
    /\ delivery' = IF delivery = Orphan THEN Free ELSE delivery
    /\ MayRemain
    /\ UNCHANGED <<session, intent>>

ReceiverEnds(r) ==
    /\ r \in remains
    /\ remains' = remains \ {r}
    /\ UNCHANGED <<session, intent, delivery, orphan>>

LockStep(w) ==
    \/ FastAsks(w) \/ FastIntends(w) \/ FastAcquires(w) \/ FastExpires(w)
    \/ BulkIntends(w) \/ BulkAcquires(w) \/ BulkIsRefused(w)
    \/ BulkOpensGate(w) \/ BulkLeaves(w)
    \/ StartsCopy(w) \/ EndsCopy(w) \/ BreaksOff(w) \/ Killed(w) \/ KilledWithChild(w)

LockNext ==
    \/ OrphanEnds
    \/ \E r \in Receivers : ReceiverEnds(r)
    \/ \E w \in Writers : LockStep(w)

LockSpec == LockInit /\ [][LockNext]_lockVars

-----------------------------------------------------------------------------
\* The transfers that run on this host, and with them the receivers that were
\* left on the other one.
Copying ==
    {w \in Writers : session[w] = "copying"} \cup (IF orphan THEN {Orphan} ELSE {})

Running == Copying \cup remains

(***************************************************************************)
(* Two transfers run at once only when one of them is a receiver that was  *)
(* left by a transfer that was broken off: whichever helper was killed and *)
(* however long its rsync lives on, this host has one.  Two would use the  *)
(* same staging names, and an old delayed copy could be published over a   *)
(* newer one (docs/ARCHIVE_SERVICES.md, "Keep the two raw GWS writers from *)
(* colliding").  A receiver that was left is out of the lock's reach: the  *)
(* document asks the operator to "confirm no receiver from that attempt    *)
(* remains" (513-515).                                                     *)
(***************************************************************************)
OneTransfer == \A v, w \in Running : v = w \/ {v, w} \cap remains # {}

(***************************************************************************)
(* A bulk writer never takes the delivery lock while a fast writer waits   *)
(* for it, although it tries again between any two of its batches.         *)
(***************************************************************************)
BulkYields ==
    [][delivery' \in Bulk /\ delivery' # delivery => intent \cap Fast = {}]_lockVars

=============================================================================

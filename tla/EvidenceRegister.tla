------------------------- MODULE EvidenceRegister -------------------------
(***************************************************************************)
(* What the evidence store promises to its users: one register that holds  *)
(* a report with its gate.  A family replaces its own evidence and no      *)
(* other's, and only by newer evidence; a refresh changes judgements, not  *)
(* evidence; the operator may return to the legacy evidence; and a reader  *)
(* holds exactly one value of the register for as long as it likes.        *)
(***************************************************************************)
EXTENDS Naturals

CONSTANTS
    Families,
    Readers,
    Reports,     \* functions from families to evidence ids, numbers
    Gates,       \* judgements of the evidence
    Nothing,     \* no evidence, or a reader that holds none
    LegacyJobs   \* the evidence of the legacy tree

VARIABLES current, held

vars == <<current, held>>

Snapshots == [jobs: Reports, gate: Gates]

Init ==
    /\ current = Nothing \/ current \in Snapshots
    /\ held = [r \in Readers |-> Nothing]

EvidenceOf(snapshot, f) == IF snapshot = Nothing THEN 0 ELSE snapshot.jobs[f]

Publish(f) ==
    /\ current' \in Snapshots
    /\ current'.jobs[f] > EvidenceOf(current, f)
    /\ \A g \in Families \ {f} : current'.jobs[g] = EvidenceOf(current, g)
    /\ UNCHANGED held

Refresh ==
    /\ current # Nothing
    /\ current' \in Snapshots
    /\ current'.jobs = current.jobs
    /\ UNCHANGED held

Restore ==
    /\ current' \in Snapshots
    /\ current'.jobs = LegacyJobs
    /\ UNCHANGED held

Open(r) ==
    /\ held[r] = Nothing /\ current # Nothing
    /\ held' = [held EXCEPT ![r] = current]
    /\ UNCHANGED current

Close(r) ==
    /\ held' = [held EXCEPT ![r] = Nothing]
    /\ UNCHANGED current

Next ==
    \/ \E f \in Families : Publish(f)
    \/ Refresh \/ Restore
    \/ \E r \in Readers : Open(r) \/ Close(r)

Spec == Init /\ [][Next]_vars
=============================================================================

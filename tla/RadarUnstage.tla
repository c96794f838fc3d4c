---------------------------- MODULE RadarUnstage ----------------------------
(***************************************************************************)
(* The withdrawal of staged copies that no cutover will use                *)
(* (aurora-radar-unstage.py), beside the commands of RadarRelocation: it   *)
(* removes the copies one by one under the exclusive lock, behind a        *)
(* journal whose existence retires the plan for good.                      *)
(***************************************************************************)
EXTENDS RadarRelocation

CONSTANT NoEntry

ASSUME EntryAssumption == NoEntry \notin Days \X Names

VARIABLE journal        \* what the withdrawal journal says

vars == <<relocationVars, journal>>

Entries == Days \X Names
NoJournal == [status |-> "none", completed |-> {}, pending |-> NoEntry]

TypeOK ==
    /\ RelocationTypeOK
    /\ journal \in [status : {"none", "torn", "withdrawing", "complete"},
                    completed : SUBSET Entries, pending : Entries \cup {NoEntry}]

Init == RelocationInit /\ journal = NoJournal

-----------------------------------------------------------------------------
\* validate: the plan has not been cut over, every proof is a fresh one of a
\* stage, and the files that are not withdrawn are what was verified.
Topology == active = None /\ ~hold /\ \A d \in Days : progress[d] = NoProgress

Expected(d, n) ==
    \/ copy[d][n] = manifest[d].sig[n] /\ <<d, n>> \notin journal.completed
    \/ copy[d][n] = None /\ <<d, n>> \in journal.completed \cup {journal.pending}

Valid ==
    /\ Topology
    /\ \A d \in Days :
           /\ Verified(d) /\ manifest[d].fresh /\ manifest[d].mounted = None
           /\ place[d] = "source" /\ content[d] = manifest[d].sig
           /\ \A n \in Names : Expected(d, n)

Removing == op.kind = "withdraw"

\* What the journal says at each of its saves.
Torn == IF withdrawn THEN journal ELSE [journal EXCEPT !.status = "torn"]
WithStatus(status) == [journal EXCEPT !.status = status]
Intent(e) == [journal EXCEPT !.pending = e]
Removal(e) == [journal EXCEPT !.completed = @ \cup {e}, !.pending = NoEntry]
StaysPut == UNCHANGED <<originals, evidence, record, system, readers, staging,
                        verifying, faults>>

\* The first journal is created, then written and synced: a torn one stops every
\* retry.  The later saves replace it as a whole.
WithdrawBegins ==
    /\ Exclusive /\ Valid /\ journal.status \in {"none", "withdrawing"}
    /\ Begins("withdraw", None)
    /\ withdrawn' = TRUE
    /\ journal' = Torn
    /\ StaysPut /\ UNCHANGED copy

WithdrawCreates ==
    /\ Removing /\ journal.status = "torn"
    /\ journal' = WithStatus("withdrawing")
    /\ StaysPut /\ UNCHANGED <<copy, op, withdrawn>>

WithdrawIntends(e) ==
    /\ Removing /\ journal.status = "withdrawing" /\ Valid
    /\ journal.pending = NoEntry /\ e \in Entries \ journal.completed
    /\ journal' = Intent(e)
    /\ StaysPut /\ UNCHANGED <<copy, op, withdrawn>>

WithdrawUnlinks_First(e) ==
    /\ Removing /\ Valid /\ journal.pending \in {NoEntry, e}
    /\ copy[e[1]][e[2]] # None
    /\ copy' = [copy EXCEPT ![e[1]][e[2]] = None]
    /\ StaysPut /\ UNCHANGED <<journal, op, withdrawn>>

WithdrawUnlinks(e) ==
    /\ Removing /\ Valid /\ journal.pending = e /\ copy[e[1]][e[2]] # None
    /\ copy' = [copy EXCEPT ![e[1]][e[2]] = None]
    /\ StaysPut /\ UNCHANGED <<journal, op, withdrawn>>

WithdrawRecords(e) ==
    /\ Removing /\ journal.pending = e /\ copy[e[1]][e[2]] = None
    /\ journal' = Removal(e)
    /\ StaysPut /\ UNCHANGED <<copy, op, withdrawn>>

WithdrawEnds ==
    /\ Removing /\ journal.completed = Entries /\ Valid
    /\ journal' = WithStatus("complete")
    /\ op' = NoOp
    /\ StaysPut /\ UNCHANGED <<copy, withdrawn>>

\* A check that fails ends the command.
WithdrawFails ==
    /\ Removing /\ journal.status = "withdrawing" /\ ~Valid
    /\ op' = NoOp
    /\ StaysPut /\ UNCHANGED <<copy, journal, withdrawn>>

Next ==
    \/ RelocationStep /\ UNCHANGED journal
    \/ \E e \in Entries : WithdrawIntends(e) \/ WithdrawUnlinks(e) \/ WithdrawRecords(e)
    \/ WithdrawBegins \/ WithdrawCreates \/ WithdrawEnds \/ WithdrawFails

Spec == Init /\ [][Next]_vars

-----------------------------------------------------------------------------
(***************************************************************************)
(* Once a withdrawal has begun, the originals are the archive: they stay   *)
(* at their logical paths, complete, and no copy that was withdrawn comes  *)
(* back, whichever commands follow and wherever the withdrawal stopped.    *)
(***************************************************************************)
WithdrawnStaysInPlace ==
    withdrawn =>
        /\ \A d \in Days : place[d] = "source" /\ kept[d] = Names
        /\ \A e \in journal.completed : copy[e[1]][e[2]] = None

(***************************************************************************)
(* A copy that was staged and verified is missing only when the journal    *)
(* says so, so that a withdrawal that was interrupted can be resumed.      *)
(***************************************************************************)
WithdrawalIsRecorded ==
    \A d \in Days, n \in Names :
        Verified(d) /\ copy[d][n] = None =>
            <<d, n>> \in journal.completed \cup {journal.pending}

=============================================================================

--------------------------- MODULE RadarRelocation ---------------------------
(***************************************************************************)
(* The relocation of closed radar days to a second volume                  *)
(* (aurora-radar-relocation.py): stage and verify copies, cut the logical  *)
(* paths over to read-only binds of the copies while the originals wait in *)
(* quarantine, release the originals file by file, or roll back.  One lock *)
(* is shared by stage, verify and the remote senders and held alone by     *)
(* cutover, release and rollback.  A command may be killed at any step and *)
(* the machine may restart.                                                *)
(*                                                                         *)
(* A version stands for the bytes and the identity of a file: a file that  *)
(* was replaced or damaged has neither.  Capacity checks only refuse; a    *)
(* command that is refused is one that is not started.                     *)
(***************************************************************************)
EXTENDS Naturals, FiniteSets

CONSTANTS
    Days,           \* the days of the reviewed plan
    Files,          \* number of files of a day; they are handled in name order
    Partial,        \* an interrupted ".copying-" file
    Damaged,        \* a copy that is not what was verified
    MaxVersion,     \* bound: times an original is written
    MaxCutovers,    \* bound: cutovers
    MaxFaults       \* bound: commands killed, restarts, copies damaged

Names == 1..Files
Versions == 1..MaxVersion
None == 0

ASSUME RelocationAssumption ==
    /\ {Files, MaxVersion, MaxCutovers} \subseteq Nat \ {0}
    /\ MaxFaults \in Nat
    /\ Partial # Damaged
    /\ {Partial, Damaged} \cap Nat = {}
    /\ None \notin Days

VARIABLES
    content,        \* day -> name -> version last written to the original
    kept,           \* day -> names whose original has not been unlinked
    place,          \* day -> where the directory of originals is
    point,          \* day -> an empty directory stands at the logical path
    copy,           \* day -> name -> what is in the destination
    manifest,       \* day -> verification evidence
    progress,       \* day -> durable release progress
    active,         \* cutover named by the active record, None without it
    cutovers,       \* cutovers so far
    unit,           \* day -> the mount unit file
    dropin,         \* the drop-ins of the raw consumers
    loaded,         \* what the service manager has loaded of them
    enabled,        \* days whose mount unit is enabled
    mounted,        \* days whose bind is mounted
    hold,           \* the operator's launch hold exists
    op,             \* the command that holds the lock alone
    staging,        \* a stage that is running
    verifying,      \* a verification that is running
    sender,         \* a remote sender runs under the shared lock
    consumer,       \* a raw consumer runs
    withdrawn,      \* the withdrawal journal exists
    readThrough,    \* day -> cutover in which its logical path was last read in full
    faults

originals == <<content, kept, place, point>>
evidence == <<manifest, progress, readThrough>>
system == <<unit, dropin, loaded, enabled, mounted>>
readers == <<sender, consumer, hold>>
commands == <<op, staging, verifying>>
record == <<active, cutovers>>
relocationVars == <<originals, copy, evidence, record, system, readers,
                    commands, withdrawn, faults>>

Texts == {"absent", "torn", "whole"}
NoManifest == [sig |-> [n \in Names |-> None], fresh |-> FALSE, mounted |-> None]
NoProgress == [started |-> FALSE, released |-> {}, pending |-> None]
NoOp == [kind |-> "none", day |-> None, at |-> None, step |-> "check"]
NoStage == [day |-> None]
NoVerify == [day |-> None, through |-> FALSE]

Command == [kind : {"none", "cutover", "release", "rollback", "withdraw"},
            day : Days \cup {None}, at : Nat, step : {"check", "unlink", "record"}]
Stage == [day : Days, before : [Names -> Versions]]
Verification == [day : Days, through : BOOLEAN]
Progress == [started : BOOLEAN, released : SUBSET Names, pending : Names \cup {None}]
Manifest == [sig : [Names -> Versions], fresh : BOOLEAN, mounted : Nat]

RelocationTypeOK ==
    /\ content \in [Days -> [Names -> Versions]]
    /\ kept \in [Days -> SUBSET Names]
    /\ place \in [Days -> {"source", "quarantine", "gone"}]
    /\ point \in [Days -> BOOLEAN]
    /\ copy \in [Days -> [Names -> Versions \cup {None, Partial, Damaged}]]
    /\ manifest \in [Days -> Manifest \cup {NoManifest}]
    /\ progress \in [Days -> Progress]
    /\ {active, cutovers} \subseteq Nat
    /\ unit \in [Days -> Texts] /\ {dropin, loaded} \subseteq Texts
    /\ enabled \subseteq Days /\ mounted \subseteq Days
    /\ {hold, sender, consumer, withdrawn} \subseteq BOOLEAN
    /\ op \in Command
    /\ staging \in Stage \cup {NoStage} /\ verifying \in Verification \cup {NoVerify}
    /\ readThrough \in [Days -> Nat] /\ faults \in 0..MaxFaults

RelocationInit ==
    /\ content = [d \in Days |-> [n \in Names |-> 1]]
    /\ kept = [d \in Days |-> Names]
    /\ place = [d \in Days |-> "source"]
    /\ point = [d \in Days |-> FALSE]
    /\ copy = [d \in Days |-> [n \in Names |-> None]]
    /\ manifest = [d \in Days |-> NoManifest]
    /\ progress = [d \in Days |-> NoProgress]
    /\ active = None /\ cutovers = 0
    /\ unit = [d \in Days |-> "absent"] /\ dropin = "absent" /\ loaded = "absent"
    /\ enabled = {} /\ mounted = {}
    /\ hold = FALSE /\ sender = FALSE /\ consumer = FALSE /\ withdrawn = FALSE
    /\ op = NoOp /\ staging = NoStage /\ verifying = NoVerify
    /\ readThrough = [d \in Days |-> None]
    /\ faults = 0

-----------------------------------------------------------------------------
\* The checks that several commands make.
Verified(d) == manifest[d] # NoManifest
CopiesMatch(d) == copy[d] = manifest[d].sig

\* original_snapshot: an original may be missing only with a release intent.
Owned(d) == progress[d].released \cup ({progress[d].pending} \ {None})
OriginalsMatch(d, origin) ==
    LET there == IF place[d] = origin THEN kept[d] ELSE {}
    IN  /\ Names \ there \subseteq Owned(d)
        /\ \A n \in there : content[d][n] = manifest[d].sig[n]

VerifiedFast(d, origin) ==
    /\ Verified(d) /\ manifest[d].fresh
    /\ OriginalsMatch(d, origin) /\ CopiesMatch(d)

Guard == \A d \in Days : d \in mounted /\ Verified(d) /\ CopiesMatch(d)
Graph == loaded = "whole"

MountedProof(d) == active # None /\ manifest[d].mounted = active

\* The hold is there, the consumers are drained, and no unit needs a reload.
Paused == hold /\ ~consumer /\ loaded = dropin

Shared == op = NoOp
Exclusive == Shared /\ staging = NoStage /\ verifying = NoVerify /\ ~sender
Begins(kind, d) == op' = [kind |-> kind, day |-> d, at |-> 1, step |-> "check"]

-----------------------------------------------------------------------------
\* stage: files are copied one by one next to their name and renamed.  Volumes,
\* free space and file counts are the host's: where inspect refuses, none begins.
StageBegins(d) ==
    /\ Shared /\ staging = NoStage
    /\ ~withdrawn /\ place[d] = "source" /\ d \notin mounted
    /\ \A n \in Names : copy[d][n] # Partial
    /\ staging' = [day |-> d, before |-> content[d]]
    /\ UNCHANGED <<originals, copy, evidence, record, system, readers, op,
                   verifying, withdrawn, faults>>

StageCopies(n) ==
    /\ staging # NoStage
    /\ \A m \in 1..(n - 1) : copy[staging.day][m] = staging.before[m]
    /\ copy[staging.day][n] \in {None, Partial}
    /\ content[staging.day][n] = staging.before[n]
    /\ copy' = [copy EXCEPT ![staging.day][n] =
                    IF @ = None THEN Partial ELSE staging.before[n]]
    /\ UNCHANGED <<originals, evidence, record, system, readers, commands,
                   withdrawn, faults>>

StageSaves ==
    /\ staging # NoStage
    /\ copy[staging.day] = staging.before /\ content[staging.day] = staging.before
    /\ manifest' = [manifest EXCEPT ![staging.day] =
                        [sig |-> staging.before, fresh |-> TRUE, mounted |-> None]]
    /\ staging' = NoStage
    /\ UNCHANGED <<originals, copy, progress, readThrough, record, system,
                   readers, op, verifying, withdrawn, faults>>

\* A check fails or the command is killed; what it copied is left there.
StageEnds ==
    /\ staging # NoStage /\ staging' = NoStage
    /\ UNCHANGED <<originals, copy, evidence, record, system, readers, op,
                   verifying, withdrawn, faults>>

\* The operator preserves an interrupted copy elsewhere.
SetsAside(d, n) ==
    /\ staging = NoStage /\ copy[d][n] = Partial
    /\ copy' = [copy EXCEPT ![d][n] = None]
    /\ UNCHANGED <<originals, evidence, record, system, readers, commands,
                   withdrawn, faults>>

-----------------------------------------------------------------------------
\* verify: every copy is read, through the logical path when it is mounted, and
\* compared with every original that is there.
Verifies(d, through) ==
    /\ Verified(d) /\ (through => Guard)
    /\ OriginalsMatch(d, IF through THEN "quarantine" ELSE "source")
    /\ CopiesMatch(d)

VerifyBegins(d) ==
    /\ Shared /\ verifying = NoVerify
    /\ ~withdrawn /\ Verifies(d, d \in mounted)
    /\ verifying' = [day |-> d, through |-> d \in mounted]
    /\ UNCHANGED <<originals, copy, evidence, record, system, readers, op,
                   staging, withdrawn, faults>>

\* The receipt of a verification through the logical path names the cutover.
Receipt_Plain(d, through) ==
    [manifest[d] EXCEPT !.fresh = TRUE, !.mounted = active]
Receipt(d, through) ==
    [manifest[d] EXCEPT !.fresh = TRUE,
                        !.mounted = IF through THEN active ELSE None]

VerifySaves ==
    /\ verifying # NoVerify
    /\ LET d == verifying.day  through == verifying.through
       IN  /\ Verifies(d, through) /\ (through => active # None)
           /\ manifest' = [manifest EXCEPT ![d] = Receipt(d, through)]
           /\ readThrough' = IF through THEN [readThrough EXCEPT ![d] = active]
                                        ELSE readThrough
    /\ verifying' = NoVerify
    /\ UNCHANGED <<originals, copy, progress, record, system, readers, op,
                   staging, withdrawn, faults>>

VerifyEnds ==
    /\ verifying # NoVerify /\ verifying' = NoVerify
    /\ UNCHANGED <<originals, copy, evidence, record, system, readers, op,
                   staging, withdrawn, faults>>

Stale(d) == [manifest EXCEPT ![d].fresh = FALSE]

Expires(d) ==
    /\ manifest[d].fresh /\ manifest' = Stale(d)
    /\ UNCHANGED <<originals, copy, progress, readThrough, record, system,
                   readers, commands, withdrawn, faults>>

-----------------------------------------------------------------------------
\* cutover: the active record first, then day by day the rename, the mount point
\* and its unit, then the drop-ins, the reload and the mounts.
MayCutOver_Withdrawn ==
    /\ Exclusive /\ Paused /\ active = None /\ dropin = "absent"
    /\ \A d \in Days : VerifiedFast(d, "source") /\ unit[d] = "absent"
MayCutOver ==
    /\ ~withdrawn
    /\ Exclusive /\ Paused /\ active = None /\ dropin = "absent"
    /\ \A d \in Days : VerifiedFast(d, "source") /\ unit[d] = "absent"

CutoverBegins ==
    /\ MayCutOver /\ cutovers < MaxCutovers
    /\ cutovers' = cutovers + 1 /\ active' = cutovers'
    /\ Begins("cutover", None)
    /\ UNCHANGED <<originals, copy, evidence, system, readers, staging,
                   verifying, withdrawn, faults>>

OthersDone(d) == \A e \in Days \ {d} : place[e] = "source" \/ unit[e] = "whole"

CutoverRenames(d) ==
    /\ op.kind = "cutover" /\ place[d] = "source" /\ OthersDone(d)
    /\ place' = [place EXCEPT ![d] = "quarantine"]
    /\ UNCHANGED <<content, kept, point, copy, evidence, record, system, readers,
                   commands, withdrawn, faults>>

CutoverMakesPoint(d) ==
    /\ op.kind = "cutover" /\ place[d] = "quarantine" /\ ~point[d]
    /\ point' = [point EXCEPT ![d] = TRUE]
    /\ UNCHANGED <<content, kept, place, copy, evidence, record, system, readers,
                   commands, withdrawn, faults>>

\* write_text creates the file, then writes it.
Written(text) == IF text = "absent" THEN "torn" ELSE "whole"

CutoverWritesUnit(d) ==
    /\ op.kind = "cutover" /\ point[d] /\ unit[d] # "whole"
    /\ unit' = [unit EXCEPT ![d] = Written(@)]
    /\ UNCHANGED <<originals, copy, evidence, record, dropin, loaded, enabled,
                   mounted, readers, commands, withdrawn, faults>>

CutoverWritesDropin ==
    /\ op.kind = "cutover" /\ \A d \in Days : unit[d] = "whole"
    /\ dropin # "whole" /\ dropin' = Written(dropin)
    /\ UNCHANGED <<originals, copy, evidence, record, unit, loaded, enabled,
                   mounted, readers, commands, withdrawn, faults>>

Reloads ==
    /\ op.kind = "cutover" /\ dropin = "whole" /\ loaded # dropin
    /\ loaded' = dropin
    /\ UNCHANGED <<originals, copy, evidence, record, unit, dropin, enabled,
                   mounted, readers, commands, withdrawn, faults>>

CutoverMounts(d) ==
    /\ op.kind = "cutover" /\ Graph /\ d \notin mounted
    /\ enabled' = enabled \cup {d} /\ mounted' = mounted \cup {d}
    /\ UNCHANGED <<originals, copy, evidence, record, unit, dropin, loaded,
                   readers, commands, withdrawn, faults>>

CutoverEnds ==
    /\ op.kind = "cutover" /\ mounted = Days
    /\ op' = NoOp
    /\ UNCHANGED <<originals, copy, evidence, record, system, readers, staging,
                   verifying, withdrawn, faults>>

-----------------------------------------------------------------------------
\* release: each original of a day in name order, its intent saved first.
MayRelease(d) ==
    /\ Exclusive /\ Paused /\ Guard /\ Graph
    /\ VerifiedFast(d, "quarantine") /\ MountedProof(d)

\* What the durable progress of a day says at each of its saves; whichever name
\* is pending by then, the record of a file clears it.
Started(d) == [progress EXCEPT ![d].started = TRUE]
Intended(d, n) == [progress EXCEPT ![d].pending = n]
Recorded(d, n) ==
    [progress EXCEPT ![d].released = @ \cup {n}, ![d].pending = None]

ReleaseBegins(d) ==
    /\ MayRelease(d) /\ progress' = Started(d)
    /\ Begins("release", d)
    /\ UNCHANGED <<originals, copy, manifest, readThrough, record, system,
                   readers, staging, verifying, withdrawn, faults>>

At(d, n, step) == op = [kind |-> "release", day |-> d, at |-> n, step |-> step]
Goes(d, n, step) == op' = [kind |-> "release", day |-> d, at |-> n, step |-> step]

Remains_ByProof(d, n) == MountedProof(d)
Remains(d, n) == Guard /\ MountedProof(d) /\ copy[d][n] = manifest[d].sig[n]

\* The checks are made again for each file.
ReleaseIntends(d, n) ==
    /\ At(d, n, "check") /\ Remains(d, n)
    /\ n \in kept[d] /\ content[d][n] = manifest[d].sig[n]
    /\ progress' = Intended(d, n)
    /\ Goes(d, n, "unlink")
    /\ UNCHANGED <<originals, copy, manifest, readThrough, record, system,
                   readers, staging, verifying, withdrawn, faults>>

\* The file of an earlier release may be gone, if it was recorded or intended.
ReleasePasses(d, n) ==
    /\ At(d, n, "check") /\ Remains(d, n)
    /\ n \notin kept[d] /\ n \in Owned(d)
    /\ Goes(d, n, "record")
    /\ UNCHANGED <<originals, copy, evidence, record, system, readers, staging,
                   verifying, withdrawn, faults>>

ReleaseRefuses(d, n) ==
    /\ At(d, n, "check")
    /\ ~Remains(d, n) \/ (n \notin kept[d] /\ n \notin Owned(d))
    /\ op' = NoOp
    /\ UNCHANGED <<originals, copy, evidence, record, system, readers, staging,
                   verifying, withdrawn, faults>>

ReleaseUnlinks(d, n) ==
    /\ At(d, n, "unlink")
    /\ kept' = [kept EXCEPT ![d] = @ \ {n}]
    /\ Goes(d, n, "record")
    /\ UNCHANGED <<content, place, point, copy, evidence, record, system,
                   readers, staging, verifying, withdrawn, faults>>

ReleaseRecords(d, n) ==
    /\ At(d, n, "record") /\ progress' = Recorded(d, n)
    /\ Goes(d, n + 1, "check")
    /\ UNCHANGED <<originals, copy, manifest, readThrough, record, system,
                   readers, staging, verifying, withdrawn, faults>>

ReleaseEnds(d) ==
    /\ At(d, Files + 1, "check") /\ kept[d] = {}
    /\ place' = [place EXCEPT ![d] = "gone"]
    /\ op' = NoOp
    /\ UNCHANGED <<content, kept, point, copy, evidence, record, system, readers,
                   staging, verifying, withdrawn, faults>>

-----------------------------------------------------------------------------
\* rollback: refused once a release has begun; otherwise every day is verified
\* against its originals wherever they are, and what cutover did is undone.
MayRollBack_Released(days) == Exclusive /\ Paused /\ active # None
MayRollBack(days) ==
    /\ Exclusive /\ Paused /\ active # None
    /\ \A d \in days : Owned(d) = {} /\ ~(place[d] = "gone" /\ d \in mounted)

\* Each day that passes has its receipt saved before the next one is looked at.
RollbackVerifies(days) ==
    /\ MayRollBack(days)
    /\ \A d \in days : Verified(d) /\ CopiesMatch(d) /\ OriginalsMatch(d, place[d])
    /\ manifest' = [d \in Days |-> IF d \in days THEN Receipt(d, FALSE)
                                                  ELSE manifest[d]]
    /\ UNCHANGED <<originals, copy, progress, readThrough, record, system,
                   readers, staging, verifying, withdrawn, faults>>

RollbackBegins == RollbackVerifies(Days) /\ Begins("rollback", None)

\* The command is killed, or a day refuses, when those before it have passed.
RollbackStops(days) == RollbackVerifies(days) /\ UNCHANGED op

RollbackDropsDropin ==
    /\ op.kind = "rollback" /\ dropin = "whole"
    /\ dropin' = "absent"
    /\ UNCHANGED <<originals, copy, evidence, record, unit, loaded, enabled,
                   mounted, readers, commands, withdrawn, faults>>

RollbackUnmounts(d) ==
    /\ op.kind = "rollback" /\ dropin = "absent" /\ unit[d] = "whole"
    /\ d \in enabled \cup mounted
    /\ enabled' = enabled \ {d} /\ mounted' = mounted \ {d}
    /\ UNCHANGED <<originals, copy, evidence, record, unit, dropin, loaded,
                   readers, commands, withdrawn, faults>>

RollbackDropsUnit(d) ==
    /\ op.kind = "rollback" /\ dropin = "absent" /\ unit[d] = "whole"
    /\ d \notin enabled \cup mounted
    /\ unit' = [unit EXCEPT ![d] = "absent"]
    /\ UNCHANGED <<originals, copy, evidence, record, dropin, loaded, enabled,
                   mounted, readers, commands, withdrawn, faults>>

RollbackRestores(d) ==
    /\ op.kind = "rollback" /\ dropin = "absent" /\ unit[d] = "absent"
    /\ place[d] = "quarantine"
    /\ IF point[d] THEN point' = [point EXCEPT ![d] = FALSE] /\ UNCHANGED place
                   ELSE place' = [place EXCEPT ![d] = "source"] /\ UNCHANGED point
    /\ UNCHANGED <<content, kept, copy, evidence, record, system, readers,
                   commands, withdrawn, faults>>

\* A text that is not the expected one stops the rollback.
RollbackRefuses ==
    /\ op.kind = "rollback" /\ (dropin = "torn" \/ \E d \in Days : unit[d] = "torn")
    /\ op' = NoOp
    /\ UNCHANGED <<originals, copy, evidence, record, system, readers, staging,
                   verifying, withdrawn, faults>>

Restored_Early == \A d \in Days : unit[d] = "absent"
Restored == \A d \in Days : place[d] = "source" /\ unit[d] = "absent"

RollbackEnds ==
    /\ op.kind = "rollback" /\ dropin = "absent" /\ Restored
    /\ loaded' = dropin /\ active' = None /\ op' = NoOp
    /\ UNCHANGED <<originals, copy, evidence, cutovers, unit, dropin, enabled,
                   mounted, readers, staging, verifying, withdrawn, faults>>

-----------------------------------------------------------------------------
\* A consumer is not launched under the hold; with the drop-ins loaded it needs
\* the mounts and takes the lock for the guard.  It writes new radar files
\* where the originals are still at the logical path.
ConsumerStarts ==
    /\ ~consumer /\ ~hold
    /\ loaded = "whole" => Shared /\ Guard
    /\ consumer' = TRUE
    /\ UNCHANGED <<originals, copy, evidence, record, system, sender, hold,
                   commands, withdrawn, faults>>

ConsumerEnds ==
    /\ consumer /\ consumer' = FALSE
    /\ UNCHANGED <<originals, copy, evidence, record, system, sender, hold,
                   commands, withdrawn, faults>>

Rewrites(d, n) ==
    /\ consumer /\ place[d] = "source" /\ content[d][n] < MaxVersion
    /\ content' = [content EXCEPT ![d][n] = @ + 1]
    /\ UNCHANGED <<kept, place, point, copy, evidence, record, system, readers,
                   commands, withdrawn, faults>>

\* exec: a remote sender holds the lock; without an active record it goes ahead.
SenderStarts ==
    /\ ~sender /\ Shared
    /\ active # None => Guard
    /\ sender' = TRUE
    /\ UNCHANGED <<originals, copy, evidence, record, system, consumer, hold,
                   commands, withdrawn, faults>>

SenderEnds ==
    /\ sender /\ sender' = FALSE
    /\ UNCHANGED <<originals, copy, evidence, record, system, consumer, hold,
                   commands, withdrawn, faults>>

\* The operator lifts the hold once the guard and the graph pass on units that
\* need no reload, or when there is no relocation.
ChangesHold ==
    /\ hold' = ~hold
    /\ hold => Shared /\ (active = None \/ (Guard /\ Graph /\ loaded = dropin))
    /\ UNCHANGED <<originals, copy, evidence, record, system, sender, consumer,
                   commands, withdrawn, faults>>

OperatorReloads ==
    /\ Shared /\ loaded # dropin /\ loaded' = dropin
    /\ UNCHANGED <<originals, copy, evidence, record, unit, dropin, enabled,
                   mounted, readers, commands, withdrawn, faults>>

-----------------------------------------------------------------------------
Fault == faults < MaxFaults /\ faults' = faults + 1

Killed ==
    /\ Fault /\ op # NoOp /\ op' = NoOp
    /\ UNCHANGED <<originals, copy, evidence, record, system, readers, staging,
                   verifying, withdrawn>>

Restarts ==
    /\ Fault
    /\ op' = NoOp /\ staging' = NoStage /\ verifying' = NoVerify
    /\ sender' = FALSE /\ consumer' = FALSE
    /\ mounted' = {} /\ loaded' = dropin
    /\ UNCHANGED <<originals, copy, evidence, record, unit, dropin, enabled,
                   hold, withdrawn>>

\* The service manager mounts what is enabled.
Mounts(d) ==
    /\ Shared /\ d \in enabled \ mounted /\ unit[d] = "whole"
    /\ mounted' = mounted \cup {d}
    /\ UNCHANGED <<originals, copy, evidence, record, unit, dropin, loaded,
                   enabled, readers, commands, withdrawn, faults>>

\* A copy is damaged while its original is there, not between the last check
\* of a copy and the removal of its original.
Damage(d, n) ==
    /\ Fault /\ n \in kept[d] /\ copy[d][n] \in Versions
    /\ ~At(d, n, "unlink")
    /\ copy' = [copy EXCEPT ![d][n] = Damaged]
    /\ UNCHANGED <<originals, evidence, record, system, readers, commands,
                   withdrawn>>

DayStep(d) ==
    \/ StageBegins(d) \/ VerifyBegins(d) \/ Expires(d)
    \/ CutoverRenames(d) \/ CutoverMakesPoint(d) \/ CutoverWritesUnit(d)
    \/ CutoverMounts(d) \/ ReleaseBegins(d) \/ ReleaseEnds(d)
    \/ RollbackUnmounts(d) \/ RollbackDropsUnit(d) \/ RollbackRestores(d)
    \/ Mounts(d)
    \/ \E n \in Names :
           \/ SetsAside(d, n) \/ Rewrites(d, n) \/ Damage(d, n)
           \/ ReleaseIntends(d, n) \/ ReleasePasses(d, n) \/ ReleaseRefuses(d, n)
           \/ ReleaseUnlinks(d, n) \/ ReleaseRecords(d, n)

RelocationStep ==
    \/ \E d \in Days : DayStep(d)
    \/ \E n \in Names : StageCopies(n)
    \/ StageSaves \/ StageEnds \/ VerifySaves \/ VerifyEnds
    \/ CutoverBegins \/ CutoverWritesDropin \/ Reloads \/ CutoverEnds
    \/ RollbackBegins \/ RollbackDropsDropin \/ RollbackRefuses \/ RollbackEnds
    \/ \E days \in SUBSET Days : RollbackStops(days)
    \/ ConsumerStarts \/ ConsumerEnds \/ SenderStarts \/ SenderEnds
    \/ ChangesHold \/ OperatorReloads \/ Killed \/ Restarts

-----------------------------------------------------------------------------
(***************************************************************************)
(* Every file of every day is there in its last version: its original, or  *)
(* a copy equal to what the original was.                                  *)
(***************************************************************************)
NothingIsLost ==
    \A d \in Days : \A n \in Names : n \in kept[d] \/ copy[d][n] = content[d][n]

(***************************************************************************)
(* A consumer or a sender that reads the tree sees every file of every     *)
(* day, whatever was interrupted before: never an empty mount point, and   *)
(* never a day whose bind is missing.                                      *)
(***************************************************************************)
ReadersSeeWholeDays ==
    sender \/ consumer =>
        \A d \in Days : \/ place[d] = "source" /\ kept[d] = Names
                        \/ d \in mounted /\ \A n \in Names : copy[d][n] # None

(***************************************************************************)
(* Without an active record nothing is relocated: the originals are at     *)
(* their logical paths and no unit or drop-in of a cutover is left.  The   *)
(* senders that find no record go ahead without the guard.                 *)
(***************************************************************************)
InactiveMeansInPlace ==
    active = None =>
        /\ dropin = "absent" /\ mounted = {} /\ enabled = {}
        /\ \A d \in Days : place[d] = "source" /\ unit[d] = "absent"

(***************************************************************************)
(* An original is only unlinked when its day was read in full through the  *)
(* logical path under the cutover that is active.                          *)
(***************************************************************************)
ReleasedAfterFullRead ==
    [][\A d \in Days : kept'[d] # kept[d] =>
           active # None /\ readThrough[d] = active]_relocationVars

(***************************************************************************)
(* An original that is missing is recorded as released or intended, so     *)
(* that verify and release accept it and a release that was interrupted    *)
(* can be resumed (docs/RADAR_RAW_RELOCATION.md, "Release only verified    *)
(* duplicate originals").                                                  *)
(***************************************************************************)
MissingHasIntent ==
    \A d \in Days :
        op.kind = "release" \/ Names \ kept[d] \subseteq Owned(d)

=============================================================================

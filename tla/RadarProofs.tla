----------------------------- MODULE RadarProofs -----------------------------
(***************************************************************************)
(* No radar file is lost, readers see whole days and a withdrawn plan      *)
(* stays withdrawn, for any number of days, files, cutovers and faults.    *)
(***************************************************************************)
EXTENDS RadarUnstage, TLAPS

USE RelocationAssumption, EntryAssumption

Moves == {"cutover", "release", "rollback"}

-----------------------------------------------------------------------------
\* A command that moves something has an active record, the hold and the lock.
CommandIsAlone ==
    /\ op.kind \in Moves => active # None /\ hold /\ ~consumer
    /\ op.kind # "none" => ~sender /\ staging = NoStage /\ verifying = NoVerify

\* What is enabled or mounted has its unit, also when the graph is there early.
UnitsStand ==
    /\ \A d \in enabled \cup mounted : unit[d] = "whole"
    /\ op.kind = "cutover" /\ "whole" \in {dropin, loaded} =>
           \A d \in Days : unit[d] = "whole"

\* Without the hold a relocation that is active has its graph.
LiftedHasGraph == ~hold /\ active # None => loaded = "whole" /\ dropin = "whole"

\* A receipt that names a cutover is that of the last full read.
ReceiptIsRead == \A d \in Days : manifest[d].mounted \in {None, readThrough[d]}

\* An original is missing only where a release recorded or intended something,
\* and such a day is not at its logical path.
MissingIsElsewhere ==
    \A d \in Days :
        /\ Owned(d) = {} => kept[d] = Names
        /\ Owned(d) # {} => place[d] # "source" /\ op.kind # "rollback"

\* Between the intent of a removal and the removal its checks stay true.
ReleaseIsReady ==
    op.kind = "release" =>
        /\ op.day \in Days /\ place[op.day] # "source"
        /\ op.step = "unlink" =>
               /\ op.at \in Names /\ progress[op.day].pending = op.at
               /\ copy[op.day][op.at] = content[op.day][op.at]
               /\ readThrough[op.day] = active

\* What is not at its logical path, or is about to leave it, has all its copies.
CopiesAreThere ==
    \A d \in Days, n \in Names :
        place[d] # "source" \/ op.kind = "cutover" => copy[d][n] \notin {None, Partial}

\* The journal of a withdrawal says what is gone; it retires the plan.
JournalIsTrue ==
    /\ withdrawn => active = None /\ staging = NoStage
    /\ ~withdrawn => journal.completed = {} /\ journal.pending = NoEntry
    /\ op.kind = "withdraw" => withdrawn
    /\ \A e \in journal.completed : copy[e[1]][e[2]] = None

VerifiedIsWhole == \A d \in Days, n \in Names : Verified(d) => copy[d][n] # Partial

IInv ==
    /\ TypeOK /\ CommandIsAlone /\ UnitsStand /\ LiftedHasGraph /\ InactiveMeansInPlace
    /\ ReceiptIsRead /\ MissingIsElsewhere /\ ReleaseIsReady /\ NothingIsLost
    /\ CopiesAreThere /\ ReadersSeeWholeDays /\ JournalIsTrue /\ VerifiedIsWhole
    /\ WithdrawalIsRecorded

-----------------------------------------------------------------------------
\* The steps of each command.
Stages ==
    \/ \E d \in Days : StageBegins(d) \/ \E n \in Names : SetsAside(d, n)
    \/ \E n \in Names : StageCopies(n)
    \/ StageSaves \/ StageEnds
VerifiesDays ==
    (\E d \in Days : VerifyBegins(d) \/ Expires(d)) \/ VerifySaves \/ VerifyEnds
CutsOver ==
    \/ \E d \in Days : \/ CutoverRenames(d) \/ CutoverMakesPoint(d)
                       \/ CutoverWritesUnit(d) \/ CutoverMounts(d)
    \/ CutoverBegins \/ CutoverWritesDropin \/ Reloads \/ CutoverEnds
Releases ==
    \E d \in Days :
        \/ ReleaseBegins(d) \/ ReleaseEnds(d)
        \/ \E n \in Names : \/ ReleaseIntends(d, n) \/ ReleasePasses(d, n)
                            \/ ReleaseRefuses(d, n) \/ ReleaseUnlinks(d, n)
                            \/ ReleaseRecords(d, n)
RollsBack ==
    \/ \E d \in Days : RollbackUnmounts(d) \/ RollbackDropsUnit(d) \/ RollbackRestores(d)
    \/ RollbackBegins \/ RollbackDropsDropin \/ RollbackRefuses \/ RollbackEnds
    \/ \E days \in SUBSET Days : RollbackStops(days)
Reads ==
    \/ ConsumerStarts \/ ConsumerEnds \/ SenderStarts \/ SenderEnds
    \/ ChangesHold \/ OperatorReloads
    \/ \E d \in Days, n \in Names : Rewrites(d, n)
Befalls ==
    Killed \/ Restarts \/ \E d \in Days : Mounts(d) \/ \E n \in Names : Damage(d, n)
Withdraws ==
    \/ \E e \in Entries : WithdrawIntends(e) \/ WithdrawUnlinks(e) \/ WithdrawRecords(e)
    \/ WithdrawBegins \/ WithdrawCreates \/ WithdrawEnds \/ WithdrawFails

LEMMA NextIsACommand ==
    Next => \/ Withdraws
            \/ /\ UNCHANGED journal
               /\ \/ Stages \/ VerifiesDays \/ CutsOver \/ Releases \/ RollsBack
                  \/ Reads \/ Befalls
<1>1. ASSUME NEW d \in Days, DayStep(d)
      PROVE  \/ Stages \/ VerifiesDays \/ CutsOver \/ Releases \/ RollsBack
             \/ Reads \/ Befalls
  BY <1>1 DEF DayStep, Stages, VerifiesDays, CutsOver, Releases, RollsBack, Reads, Befalls
<1> QED
  BY <1>1 DEF Next, RelocationStep, Withdraws, Stages, VerifiesDays, CutsOver, RollsBack,
              Reads, Befalls

-----------------------------------------------------------------------------
\* What the updates of a record leave and change.
LEMMA CopyChanges ==
    ASSUME TypeOK, NEW d \in Days, NEW n \in Names, NEW v,
           copy' = [copy EXCEPT ![d][n] = v]
    PROVE  \A e \in Days, m \in Names :
               copy'[e][m] = IF e = d /\ m = n THEN v ELSE copy[e][m]
BY DEF TypeOK, RelocationTypeOK

LEMMA StaleIs ==
    ASSUME TypeOK, NEW d \in Days, manifest[d].fresh
    PROVE  /\ Stale(d) \in [Days -> Manifest \cup {NoManifest}]
           /\ \A e \in Days : Stale(d)[e] # NoManifest => Verified(e)
<1>1. Verified(d) /\ manifest[d] \in Manifest
  BY DEF TypeOK, RelocationTypeOK, Verified, NoManifest
<1>2. [manifest[d] EXCEPT !.fresh = FALSE] \in Manifest
  BY <1>1 DEF Manifest
<1> DEFINE stale == [manifest[d] EXCEPT !.fresh = FALSE]
<1>3. Stale(d) = [manifest EXCEPT ![d] = stale]
  BY Zenon DEF Stale
<1>4. stale \in Manifest
  BY <1>2
<1> HIDE DEF stale
<1> QED
  BY <1>1, <1>3, <1>4 DEF TypeOK, RelocationTypeOK, Verified

LEMMA ReceiptIs ==
    ASSUME TypeOK, NEW d \in Days, Verified(d), NEW through \in BOOLEAN
    PROVE  /\ Receipt(d, through) \in Manifest
           /\ Receipt(d, FALSE).mounted = None
<1>1. manifest[d] \in Manifest
  BY DEF TypeOK, RelocationTypeOK, Verified
<1>2. active \in Nat
  BY DEF TypeOK, RelocationTypeOK
<1> QED  BY <1>1, <1>2 DEF Receipt, Manifest, None

\* A rollback that begins or stops has saved the receipts of the days that passed.
LEMMA VerifiesWithoutMount ==
    ASSUME TypeOK, NEW days \in SUBSET Days, RollbackVerifies(days)
    PROVE  /\ manifest' \in [Days -> Manifest \cup {NoManifest}]
           /\ \A d \in Days : manifest'[d].mounted \in {None, manifest[d].mounted}
           /\ \A d \in Days : manifest'[d] # NoManifest => Verified(d)
<1>1. \A d \in days : Receipt(d, FALSE) \in Manifest /\ Receipt(d, FALSE).mounted = None
  BY ReceiptIs DEF RollbackVerifies
<1>2. \A d \in days : Verified(d)
  BY DEF RollbackVerifies
<1>3. manifest' = [d \in Days |-> IF d \in days THEN Receipt(d, FALSE) ELSE manifest[d]]
  BY DEF RollbackVerifies
<1>4. manifest \in [Days -> Manifest \cup {NoManifest}]
  BY DEF TypeOK, RelocationTypeOK
<1> HIDE DEF Receipt, Manifest, NoManifest
<1> QED  BY <1>1, <1>2, <1>3, <1>4 DEF Verified

LEMMA StartedIs ==
    ASSUME TypeOK, NEW d \in Days PROVE Started(d) \in [Days -> Progress]
<1> DEFINE s == [progress[d] EXCEPT !.started = TRUE]
<1>1. progress \in [Days -> Progress]
  BY DEF TypeOK, RelocationTypeOK
<1>2. s \in Progress
  BY <1>1 DEF Progress
<1>3. Started(d) = [progress EXCEPT ![d] = s]
  BY Zenon DEF Started
<1> HIDE DEF s
<1> QED  BY <1>1, <1>2, <1>3

LEMMA ProgressIs ==
    ASSUME TypeOK, NEW d \in Days, NEW n \in Names
    PROVE  /\ Intended(d, n) \in [Days -> Progress]
           /\ Recorded(d, n) \in [Days -> Progress]
           /\ \A e \in Days \ {d} : /\ Intended(d, n)[e] = progress[e]
                                    /\ Recorded(d, n)[e] = progress[e]
           /\ Intended(d, n)[d].released = progress[d].released
           /\ Intended(d, n)[d].pending = n
           /\ Recorded(d, n)[d].released = progress[d].released \cup {n}
           /\ Recorded(d, n)[d].pending = None
<1>1. progress \in [Days -> Progress]
  BY DEF TypeOK, RelocationTypeOK
<1> DEFINE i == [progress[d] EXCEPT !.pending = n]
           r == [progress[d] EXCEPT !.released = progress[d].released \cup {n},
                                    !.pending = None]
<1>2. i \in Progress /\ i.released = progress[d].released /\ i.pending = n
  BY <1>1 DEF Progress
<1>3. /\ r \in Progress
      /\ r.released = progress[d].released \cup {n} /\ r.pending = None
  BY <1>1 DEF Progress
<1>4. Intended(d, n) = [progress EXCEPT ![d] = i]
  BY Zenon DEF Intended
<1>5. Recorded(d, n) = [progress EXCEPT ![d] = r]
  BY <1>1 DEF Recorded, Progress
<1> HIDE DEF i, r
<1> QED  BY <1>1, <1>2, <1>3, <1>4, <1>5

LEMMA FaultsAreBounded == ASSUME TypeOK, Fault PROVE faults' \in 0..MaxFaults
BY DEF TypeOK, RelocationTypeOK, Fault

LEMMA ContentIsReal ==
    ASSUME TypeOK, NEW d \in Days, NEW n \in Names
    PROVE  content[d][n] \in Versions /\ content[d][n] \notin {None, Partial, Damaged}
<1>1. content[d][n] \in Versions
  BY DEF TypeOK, RelocationTypeOK
<1> QED  BY <1>1 DEF Versions, None

LEMMA IntendsOwns ==
    ASSUME TypeOK, NEW d \in Days, NEW n \in Names, ReleaseIntends(d, n)
    PROVE  n \in Owned(d)' /\ \A c \in Days \ {d} : Owned(c)' = Owned(c)
<1>1. progress' = Intended(d, n) /\ n # None
  BY DEF ReleaseIntends, Names, None
<1> QED  BY <1>1, ProgressIs DEF Owned

LEMMA RecordsOwns ==
    ASSUME TypeOK, NEW d \in Days, NEW n \in Names, ReleaseRecords(d, n)
    PROVE  n \in Owned(d)' /\ \A c \in Days \ {d} : Owned(c)' = Owned(c)
<1>1. progress' = Recorded(d, n) /\ n # None
  BY DEF ReleaseRecords, Names, None
<1> QED  BY <1>1, ProgressIs DEF Owned

\* A day that is being staged has not been verified: its copies are not all there.
LEMMA StagedIsNew ==
    ASSUME TypeOK, JournalIsTrue, VerifiedIsWhole, WithdrawalIsRecorded,
           NEW n \in Names, StageCopies(n)
    PROVE  staging.day \in Days /\ ~Verified(staging.day)
<1>1. staging.day \in Days
  BY DEF StageCopies, TypeOK, RelocationTypeOK, Stage, NoStage
<1>2. journal.completed = {} /\ journal.pending = NoEntry
  BY DEF StageCopies, JournalIsTrue
<1>3. <<staging.day, n>> \notin journal.completed \cup {journal.pending}
  BY <1>1, <1>2
<1>4. copy[staging.day][n] \in {None, Partial}
  BY DEF StageCopies
<1> QED  BY <1>1, <1>3, <1>4 DEF VerifiedIsWhole, WithdrawalIsRecorded

-----------------------------------------------------------------------------
\* One step per command action, or per few of them, in the order of the commands.
LEMMA TypesStep ==
    ASSUME IInv, Next
    PROVE  TypeOK'
<1> USE DEF IInv, Begins, Goes, At, NoOp, NoStage, NoVerify, Exclusive, Shared, Moves,
            Removing, StaysPut, Fault, relocationVars, originals, evidence, system,
            readers, commands, record
<1> USE DEF TypeOK, RelocationTypeOK, Command, Stage, Verification, Manifest, Progress,
            None, Versions, NoManifest, NoProgress, Texts, Written, Receipt, Torn,
            Intent, Removal, WithStatus, Entries, Names, Verified, Verifies
<1>1. ASSUME NEW d \in Days, StageBegins(d), UNCHANGED journal
      PROVE  TypeOK'
  BY <1>1 DEF StageBegins
<1>2. ASSUME NEW n \in Names, StageCopies(n), UNCHANGED journal
      PROVE  TypeOK'
  BY <1>2, SMTT(30) DEF StageCopies
<1>3. ASSUME StageSaves, UNCHANGED journal
      PROVE  TypeOK'
  BY <1>3 DEF StageSaves
<1>4. ASSUME StageEnds, UNCHANGED journal
      PROVE  TypeOK'
  BY <1>4 DEF StageEnds
<1>5. ASSUME NEW d \in Days, NEW n \in Names, SetsAside(d, n), UNCHANGED journal
      PROVE  TypeOK'
  BY <1>5 DEF SetsAside
<1>6. ASSUME NEW d \in Days, VerifyBegins(d), UNCHANGED journal
      PROVE  TypeOK'
  <2>1. verifying' \in Verification
    BY <1>6 DEF VerifyBegins
  <2> QED  BY <1>6, <2>1 DEF VerifyBegins
<1>7. ASSUME NEW d \in Days, Expires(d), UNCHANGED journal
      PROVE  TypeOK'
  <2>1. manifest' \in [Days -> Manifest \cup {NoManifest}]
    BY <1>7, StaleIs DEF Expires
  <2> QED  BY <1>7, <2>1, SMTT(30) DEF Expires
<1>8. ASSUME VerifySaves, UNCHANGED journal
      PROVE  TypeOK'
  <2>1. verifying.day \in Days /\ verifying.through \in BOOLEAN /\ Verified(verifying.day)
    BY <1>8 DEF VerifySaves
  <2>2. Receipt(verifying.day, verifying.through) \in Manifest
    BY <2>1, ReceiptIs
  <2> HIDE DEF Receipt, Manifest
  <2>3. manifest' \in [Days -> Manifest \cup {NoManifest}]
    BY <1>8, <2>1, <2>2 DEF VerifySaves
  <2>4. readThrough' \in [Days -> Nat]
    BY <1>8, <2>1 DEF VerifySaves
  <2> QED  BY <1>8, <2>3, <2>4 DEF VerifySaves
<1>9. ASSUME VerifyEnds, UNCHANGED journal
      PROVE  TypeOK'
  BY <1>9 DEF VerifyEnds
<1>10. ASSUME CutoverBegins \/ CutoverWritesDropin \/ Reloads \/ CutoverEnds, UNCHANGED
              journal
       PROVE  TypeOK'
  <2>1. CASE CutoverBegins
    BY <1>10, <2>1 DEF CutoverBegins
  <2>2. CASE CutoverWritesDropin
    BY <1>10, <2>2 DEF CutoverWritesDropin
  <2>3. CASE Reloads
    BY <1>10, <2>3 DEF Reloads
  <2>4. CASE CutoverEnds
    BY <1>10, <2>4 DEF CutoverEnds
  <2> QED  BY <1>10, <2>1, <2>2, <2>3, <2>4
<1>11. ASSUME NEW d \in Days, CutoverRenames(d), UNCHANGED journal
       PROVE  TypeOK'
  BY <1>11 DEF CutoverRenames
<1>12. ASSUME NEW d \in Days, CutoverMakesPoint(d), UNCHANGED journal
       PROVE  TypeOK'
  BY <1>12 DEF CutoverMakesPoint
<1>13. ASSUME NEW d \in Days, CutoverWritesUnit(d), UNCHANGED journal
       PROVE  TypeOK'
  BY <1>13 DEF CutoverWritesUnit
<1>14. ASSUME NEW d \in Days, CutoverMounts(d), UNCHANGED journal
       PROVE  TypeOK'
  BY <1>14 DEF CutoverMounts
<1>15. ASSUME NEW d \in Days, ReleaseBegins(d), UNCHANGED journal
       PROVE  TypeOK'
  <2>1. progress' \in [Days -> Progress]
    BY <1>15, StartedIs DEF ReleaseBegins
  <2> QED  BY <1>15, <2>1 DEF ReleaseBegins
<1>16. ASSUME NEW d \in Days, NEW n \in Names, ReleaseIntends(d, n), UNCHANGED journal
       PROVE  TypeOK'
  <2>1. progress' \in [Days -> Progress]
    BY <1>16, ProgressIs DEF ReleaseIntends
  <2> QED  BY <1>16, <2>1 DEF ReleaseIntends
<1>17. ASSUME NEW d \in Days, NEW n \in Names, ReleasePasses(d, n), UNCHANGED journal
       PROVE  TypeOK'
  BY <1>17 DEF ReleasePasses
<1>18. ASSUME NEW d \in Days, NEW n \in Names, ReleaseRefuses(d, n), UNCHANGED journal
       PROVE  TypeOK'
  BY <1>18 DEF ReleaseRefuses
<1>19. ASSUME NEW d \in Days, NEW n \in Names, ReleaseUnlinks(d, n), UNCHANGED journal
       PROVE  TypeOK'
  BY <1>19 DEF ReleaseUnlinks
<1>20. ASSUME NEW d \in Days, NEW n \in Names, ReleaseRecords(d, n), UNCHANGED journal
       PROVE  TypeOK'
  <2>1. progress' \in [Days -> Progress]
    BY <1>20, ProgressIs DEF ReleaseRecords
  <2>2. n + 1 \in Nat /\ d \in Days
    OBVIOUS
  <2>3. op' \in Command
    BY <1>20, <2>2 DEF ReleaseRecords
  <2> HIDE DEF Recorded, Progress, Command
  <2> QED  BY <1>20, <2>1, <2>3 DEF ReleaseRecords
<1>21. ASSUME NEW d \in Days, ReleaseEnds(d), UNCHANGED journal
       PROVE  TypeOK'
  BY <1>21 DEF ReleaseEnds
<1>22. ASSUME RollbackBegins \/ \E days \in SUBSET Days : RollbackStops(days),
              UNCHANGED journal
       PROVE  TypeOK'
  <2>1. PICK days \in SUBSET Days : RollbackVerifies(days)
    BY <1>22 DEF RollbackBegins, RollbackStops
  <2>2. manifest' \in [Days -> Manifest \cup {NoManifest}]
    BY <2>1, VerifiesWithoutMount
  <2>3. op' \in Command
    BY <1>22 DEF RollbackBegins, RollbackStops
  <2> HIDE DEF Receipt, Manifest
  <2> QED  BY <1>22, <2>1, <2>2, <2>3 DEF RollbackVerifies
<1>23. ASSUME RollbackDropsDropin, UNCHANGED journal
       PROVE  TypeOK'
  BY <1>23 DEF RollbackDropsDropin
<1>24. ASSUME NEW d \in Days, RollbackUnmounts(d), UNCHANGED journal
       PROVE  TypeOK'
  BY <1>24 DEF RollbackUnmounts
<1>25. ASSUME NEW d \in Days, RollbackDropsUnit(d), UNCHANGED journal
       PROVE  TypeOK'
  BY <1>25 DEF RollbackDropsUnit
<1>26. ASSUME NEW d \in Days, RollbackRestores(d), UNCHANGED journal
       PROVE  TypeOK'
  BY <1>26 DEF RollbackRestores
<1>27. ASSUME RollbackRefuses, UNCHANGED journal
       PROVE  TypeOK'
  BY <1>27 DEF RollbackRefuses
<1>28. ASSUME RollbackEnds, UNCHANGED journal
       PROVE  TypeOK'
  BY <1>28 DEF RollbackEnds
<1>29. ASSUME ConsumerStarts, UNCHANGED journal
       PROVE  TypeOK'
  BY <1>29 DEF ConsumerStarts
<1>30. ASSUME ConsumerEnds, UNCHANGED journal
       PROVE  TypeOK'
  BY <1>30, ZenonT(40) DEF ConsumerEnds
<1>31. ASSUME SenderStarts, UNCHANGED journal
       PROVE  TypeOK'
  BY <1>31 DEF SenderStarts
<1>32. ASSUME SenderEnds, UNCHANGED journal
       PROVE  TypeOK'
  BY <1>32, ZenonT(40) DEF SenderEnds
<1>33. ASSUME ChangesHold, UNCHANGED journal
       PROVE  TypeOK'
  BY <1>33 DEF ChangesHold
<1>34. ASSUME OperatorReloads, UNCHANGED journal
       PROVE  TypeOK'
  BY <1>34 DEF OperatorReloads
<1>35. ASSUME NEW d \in Days, NEW n \in Names, Rewrites(d, n), UNCHANGED journal
       PROVE  TypeOK'
  <2>1. content[d][n] \in Nat /\ content[d][n] + 1 \in Versions
    BY <1>35 DEF Rewrites
  <2>2. content' \in [Days -> [Names -> Versions]]
    BY <1>35, <2>1 DEF Rewrites
  <2> QED  BY <1>35, <2>2, SMTT(30) DEF Rewrites
<1>36. ASSUME Killed, UNCHANGED journal
       PROVE  TypeOK'
  <2>1. faults' \in 0..MaxFaults
    BY <1>36, FaultsAreBounded DEF Killed
  <2> QED  BY <1>36, <2>1 DEF Killed
<1>37. ASSUME Restarts, UNCHANGED journal
       PROVE  TypeOK'
  <2>1. faults' \in 0..MaxFaults
    BY <1>37, FaultsAreBounded DEF Restarts
  <2> QED  BY <1>37, <2>1 DEF Restarts
<1>38. ASSUME NEW d \in Days, Mounts(d), UNCHANGED journal
       PROVE  TypeOK'
  BY <1>38 DEF Mounts
<1>39. ASSUME NEW d \in Days, NEW n \in Names, Damage(d, n), UNCHANGED journal
       PROVE  TypeOK'
  <2>1. faults' \in 0..MaxFaults
    BY <1>39, FaultsAreBounded DEF Damage
  <2>2. copy' \in [Days -> [Names -> Versions \cup {None, Partial, Damaged}]]
    BY <1>39 DEF Damage
  <2> QED  BY <1>39, <2>1, <2>2, SMTT(30) DEF Damage
<1>40. ASSUME NEW e \in Entries, WithdrawIntends(e)
       PROVE  TypeOK'
  BY <1>40 DEF WithdrawIntends
<1>41. ASSUME NEW e \in Entries, WithdrawUnlinks(e)
       PROVE  TypeOK'
  BY <1>41 DEF WithdrawUnlinks
<1>42. ASSUME NEW e \in Entries, WithdrawRecords(e)
       PROVE  TypeOK'
  BY <1>42 DEF WithdrawRecords
<1>43. CASE WithdrawBegins
  BY <1>43 DEF WithdrawBegins
<1>44. CASE WithdrawCreates
  BY <1>44 DEF WithdrawCreates
<1>45. CASE WithdrawEnds
  BY <1>45 DEF WithdrawEnds
<1>46. CASE WithdrawFails
  BY <1>46 DEF WithdrawFails
<1> QED  BY <1>1, <1>2, <1>3, <1>4, <1>5, <1>6, <1>7, <1>8, <1>9, <1>10, <1>11, <1>12,
    <1>13, <1>14, <1>15, <1>16, <1>17, <1>18, <1>19, <1>20, <1>21, <1>22, <1>23, <1>24,
    <1>25, <1>26, <1>27, <1>28, <1>29, <1>30, <1>31, <1>32, <1>33, <1>34, <1>35, <1>36,
    <1>37, <1>38, <1>39, <1>40, <1>41, <1>42, <1>43, <1>44, <1>45, <1>46, NextIsACommand
    DEF Stages, VerifiesDays, CutsOver, Releases, RollsBack, Reads, Befalls, Withdraws

-----------------------------------------------------------------------------
LEMMA CommandsStep ==
    ASSUME IInv, TypeOK', Next
    PROVE  CommandIsAlone' /\ UnitsStand' /\ LiftedHasGraph' /\ InactiveMeansInPlace'
<1> USE DEF IInv, Begins, Goes, At, NoOp, NoStage, NoVerify, Exclusive, Shared, Moves,
            Removing, StaysPut, Fault, relocationVars, originals, evidence, system,
            readers, commands, record
<1> USE DEF TypeOK, RelocationTypeOK, Command, Stage, Verification, Manifest, Progress,
            None, Versions, CommandIsAlone, Paused, MountedProof, MayCutOver,
            MayRelease, MayRollBack, UnitsStand, Graph, Written, Texts, LiftedHasGraph,
            InactiveMeansInPlace, Restored
<1>1. ASSUME NEW d \in Days, StageBegins(d), UNCHANGED journal
      PROVE  CommandIsAlone' /\ UnitsStand' /\ LiftedHasGraph' /\ InactiveMeansInPlace'
  BY <1>1 DEF StageBegins
<1>2. ASSUME NEW n \in Names, StageCopies(n), UNCHANGED journal
      PROVE  CommandIsAlone' /\ UnitsStand' /\ LiftedHasGraph' /\ InactiveMeansInPlace'
  BY <1>2 DEF StageCopies
<1>3. ASSUME StageSaves \/ StageEnds, UNCHANGED journal
      PROVE  CommandIsAlone' /\ UnitsStand' /\ LiftedHasGraph' /\ InactiveMeansInPlace'
  BY <1>3 DEF StageSaves, StageEnds
<1>4. ASSUME NEW d \in Days, NEW n \in Names, SetsAside(d, n), UNCHANGED journal
      PROVE  CommandIsAlone' /\ UnitsStand' /\ LiftedHasGraph' /\ InactiveMeansInPlace'
  BY <1>4 DEF SetsAside
<1>5. ASSUME NEW d \in Days, VerifyBegins(d) \/ Expires(d), UNCHANGED journal
      PROVE  CommandIsAlone' /\ UnitsStand' /\ LiftedHasGraph' /\ InactiveMeansInPlace'
  BY <1>5 DEF VerifyBegins, Expires
<1>6. ASSUME VerifySaves \/ VerifyEnds, UNCHANGED journal
      PROVE  CommandIsAlone' /\ UnitsStand' /\ LiftedHasGraph' /\ InactiveMeansInPlace'
  BY <1>6 DEF VerifySaves, VerifyEnds
<1>7. ASSUME CutoverBegins \/ CutoverWritesDropin \/ Reloads \/ CutoverEnds, UNCHANGED
             journal
      PROVE  CommandIsAlone' /\ UnitsStand' /\ LiftedHasGraph' /\ InactiveMeansInPlace'
  BY <1>7 DEF CutoverBegins, CutoverWritesDropin, Reloads, CutoverEnds
<1>8. ASSUME NEW d \in Days, CutoverRenames(d) \/ CutoverMakesPoint(d) \/
             CutoverWritesUnit(d) \/ CutoverMounts(d), UNCHANGED journal
      PROVE  CommandIsAlone' /\ UnitsStand' /\ LiftedHasGraph' /\ InactiveMeansInPlace'
  BY <1>8 DEF CutoverRenames, CutoverMakesPoint, CutoverWritesUnit, CutoverMounts
<1>9. ASSUME NEW d \in Days, ReleaseBegins(d) \/ ReleaseEnds(d), UNCHANGED journal
      PROVE  CommandIsAlone' /\ UnitsStand' /\ LiftedHasGraph' /\ InactiveMeansInPlace'
  BY <1>9 DEF ReleaseBegins, ReleaseEnds
<1>10. ASSUME NEW d \in Days, NEW n \in Names, ReleaseIntends(d, n) \/ ReleasePasses(d,
              n) \/ ReleaseRefuses(d, n) \/ ReleaseUnlinks(d, n) \/ ReleaseRecords(d,
              n), UNCHANGED journal
       PROVE  CommandIsAlone' /\ UnitsStand' /\ LiftedHasGraph' /\ InactiveMeansInPlace'
  BY <1>10 DEF ReleaseIntends, ReleasePasses, ReleaseRefuses, ReleaseUnlinks,
    ReleaseRecords
<1>11. ASSUME RollbackBegins \/ \E days \in SUBSET Days : RollbackStops(days),
              UNCHANGED journal
       PROVE  CommandIsAlone' /\ UnitsStand' /\ LiftedHasGraph' /\ InactiveMeansInPlace'
  <2>1. CASE RollbackBegins
    BY <2>1 DEF RollbackBegins, RollbackVerifies, MayRollBack
  <2>2. ASSUME NEW days \in SUBSET Days, RollbackStops(days)
        PROVE  CommandIsAlone' /\ UnitsStand' /\ LiftedHasGraph' /\ InactiveMeansInPlace'
    BY <2>2 DEF RollbackStops, RollbackVerifies, MayRollBack
  <2> QED  BY <1>11, <2>1, <2>2
<1>12. ASSUME RollbackDropsDropin, UNCHANGED journal
       PROVE  CommandIsAlone' /\ UnitsStand' /\ LiftedHasGraph' /\ InactiveMeansInPlace'
  BY <1>12 DEF RollbackDropsDropin
<1>13. ASSUME NEW d \in Days, RollbackUnmounts(d) \/ RollbackDropsUnit(d) \/
              RollbackRestores(d), UNCHANGED journal
       PROVE  CommandIsAlone' /\ UnitsStand' /\ LiftedHasGraph' /\ InactiveMeansInPlace'
  BY <1>13 DEF RollbackUnmounts, RollbackDropsUnit, RollbackRestores
<1>14. ASSUME RollbackRefuses \/ RollbackEnds, UNCHANGED journal
       PROVE  CommandIsAlone' /\ UnitsStand' /\ LiftedHasGraph' /\ InactiveMeansInPlace'
  BY <1>14 DEF RollbackRefuses, RollbackEnds
<1>15. ASSUME ConsumerStarts \/ ConsumerEnds \/ SenderStarts \/ SenderEnds \/
              ChangesHold \/ OperatorReloads, UNCHANGED journal
       PROVE  CommandIsAlone' /\ UnitsStand' /\ LiftedHasGraph' /\ InactiveMeansInPlace'
  BY <1>15 DEF ConsumerStarts, ConsumerEnds, SenderStarts, SenderEnds, ChangesHold,
    OperatorReloads
<1>16. ASSUME NEW d \in Days, NEW n \in Names, Rewrites(d, n), UNCHANGED journal
       PROVE  CommandIsAlone' /\ UnitsStand' /\ LiftedHasGraph' /\ InactiveMeansInPlace'
  BY <1>16 DEF Rewrites
<1>17. ASSUME Killed \/ Restarts, UNCHANGED journal
       PROVE  CommandIsAlone' /\ UnitsStand' /\ LiftedHasGraph' /\ InactiveMeansInPlace'
  BY <1>17 DEF Killed, Restarts
<1>18. ASSUME NEW d \in Days, Mounts(d), UNCHANGED journal
       PROVE  CommandIsAlone' /\ UnitsStand' /\ LiftedHasGraph' /\ InactiveMeansInPlace'
  BY <1>18 DEF Mounts
<1>19. ASSUME NEW d \in Days, NEW n \in Names, Damage(d, n), UNCHANGED journal
       PROVE  CommandIsAlone' /\ UnitsStand' /\ LiftedHasGraph' /\ InactiveMeansInPlace'
  BY <1>19 DEF Damage
<1>20. ASSUME NEW e \in Entries, WithdrawIntends(e) \/ WithdrawUnlinks(e) \/
              WithdrawRecords(e)
       PROVE  CommandIsAlone' /\ UnitsStand' /\ LiftedHasGraph' /\ InactiveMeansInPlace'
  BY <1>20 DEF WithdrawIntends, WithdrawUnlinks, WithdrawRecords
<1>21. CASE WithdrawBegins \/ WithdrawCreates \/ WithdrawEnds \/ WithdrawFails
  BY <1>21 DEF WithdrawBegins, WithdrawCreates, WithdrawEnds, WithdrawFails
<1> QED  BY <1>1, <1>2, <1>3, <1>4, <1>5, <1>6, <1>7, <1>8, <1>9, <1>10, <1>11, <1>12,
    <1>13, <1>14, <1>15, <1>16, <1>17, <1>18, <1>19, <1>20, <1>21, NextIsACommand DEF
    Stages, VerifiesDays, CutsOver, Releases, RollsBack, Reads, Befalls, Withdraws

-----------------------------------------------------------------------------
LEMMA EvidenceStep ==
    ASSUME IInv, TypeOK', Next
    PROVE  ReceiptIsRead' /\ MissingIsElsewhere'
<1> USE DEF IInv, Begins, Goes, At, NoOp, NoStage, NoVerify, Exclusive, Shared, Moves,
            Removing, StaysPut, Fault, relocationVars, originals, evidence, system,
            readers, commands, record
<1> USE DEF TypeOK, RelocationTypeOK, Command, Stage, Verification, Manifest, Progress,
            None, Versions, ReceiptIsRead, Receipt, NoManifest, Stale, Verifies,
            Verified, MissingIsElsewhere, Owned, NoProgress, Started, Intended,
            Recorded, ReleaseIsReady, MayRollBack, CommandIsAlone
<1>1. ASSUME NEW d \in Days, StageBegins(d), UNCHANGED journal
      PROVE  ReceiptIsRead' /\ MissingIsElsewhere'
  BY <1>1 DEF StageBegins
<1>2. ASSUME NEW n \in Names, StageCopies(n), UNCHANGED journal
      PROVE  ReceiptIsRead' /\ MissingIsElsewhere'
  BY <1>2 DEF StageCopies
<1>3. ASSUME StageSaves, UNCHANGED journal
      PROVE  ReceiptIsRead' /\ MissingIsElsewhere'
  BY <1>3 DEF StageSaves
<1>4. ASSUME StageEnds, UNCHANGED journal
      PROVE  ReceiptIsRead' /\ MissingIsElsewhere'
  BY <1>4 DEF StageEnds
<1>5. ASSUME NEW d \in Days, NEW n \in Names, SetsAside(d, n), UNCHANGED journal
      PROVE  ReceiptIsRead' /\ MissingIsElsewhere'
  BY <1>5 DEF SetsAside
<1>6. ASSUME NEW d \in Days, VerifyBegins(d), UNCHANGED journal
      PROVE  ReceiptIsRead' /\ MissingIsElsewhere'
  BY <1>6 DEF VerifyBegins
<1>7. ASSUME NEW d \in Days, Expires(d), UNCHANGED journal
      PROVE  ReceiptIsRead' /\ MissingIsElsewhere'
  BY <1>7 DEF Expires
<1>8. ASSUME VerifySaves, UNCHANGED journal
      PROVE  ReceiptIsRead' /\ MissingIsElsewhere'
  BY <1>8 DEF VerifySaves
<1>9. ASSUME VerifyEnds, UNCHANGED journal
      PROVE  ReceiptIsRead' /\ MissingIsElsewhere'
  BY <1>9 DEF VerifyEnds
<1>10. ASSUME CutoverBegins, UNCHANGED journal
       PROVE  ReceiptIsRead' /\ MissingIsElsewhere'
  BY <1>10 DEF CutoverBegins
<1>11. ASSUME NEW d \in Days, CutoverRenames(d) \/ CutoverMakesPoint(d), UNCHANGED
              journal
       PROVE  ReceiptIsRead' /\ MissingIsElsewhere'
  BY <1>11 DEF CutoverRenames, CutoverMakesPoint
<1>12. ASSUME NEW d \in Days, CutoverWritesUnit(d) \/ CutoverMounts(d), UNCHANGED
              journal
       PROVE  ReceiptIsRead' /\ MissingIsElsewhere'
  BY <1>12 DEF CutoverWritesUnit, CutoverMounts
<1>13. ASSUME CutoverWritesDropin, UNCHANGED journal
       PROVE  ReceiptIsRead' /\ MissingIsElsewhere'
  BY <1>13 DEF CutoverWritesDropin
<1>14. ASSUME Reloads, UNCHANGED journal
       PROVE  ReceiptIsRead' /\ MissingIsElsewhere'
  BY <1>14 DEF Reloads
<1>15. ASSUME CutoverEnds, UNCHANGED journal
       PROVE  ReceiptIsRead' /\ MissingIsElsewhere'
  BY <1>15 DEF CutoverEnds
<1>16. ASSUME NEW d \in Days, ReleaseBegins(d), UNCHANGED journal
       PROVE  ReceiptIsRead' /\ MissingIsElsewhere'
  BY <1>16 DEF ReleaseBegins
<1>17. ASSUME NEW d \in Days, NEW n \in Names, ReleaseIntends(d, n), UNCHANGED journal
       PROVE  ReceiptIsRead' /\ MissingIsElsewhere'
  <2>1. n \in Owned(d)' /\ \A c \in Days \ {d} : Owned(c)' = Owned(c)
    BY <1>17, IntendsOwns
  <2>2. /\ place[d] # "source" /\ op'.kind = "release" /\ op.kind = "release"
        /\ UNCHANGED <<place, kept>>
    BY <1>17 DEF ReleaseIntends
  <2>3. Owned(d)' # {}
    BY <2>1
  <2>4. MissingIsElsewhere'
    BY <2>1, <2>2, <2>3, ZenonT(40)
  <2>5. ReceiptIsRead'
    BY <1>17 DEF ReleaseIntends
  <2> QED  BY <2>4, <2>5
<1>18. ASSUME NEW d \in Days, NEW n \in Names, ReleasePasses(d, n) \/ ReleaseRefuses(d,
              n), UNCHANGED journal
       PROVE  ReceiptIsRead' /\ MissingIsElsewhere'
  BY <1>18 DEF ReleasePasses, ReleaseRefuses
<1>19. ASSUME NEW d \in Days, NEW n \in Names, ReleaseUnlinks(d, n), UNCHANGED journal
       PROVE  ReceiptIsRead' /\ MissingIsElsewhere'
  <2>1. n # None
    BY DEF Names
  <2>2. /\ progress[d].pending = n /\ place[d] # "source"
        /\ op.kind = "release" /\ op'.kind = "release"
    BY <1>19 DEF ReleaseUnlinks
  <2>3. \A c \in Days \ {d} : kept'[c] = kept[c]
    BY <1>19 DEF ReleaseUnlinks
  <2>4. MissingIsElsewhere'
    BY <1>19, <2>1, <2>2, <2>3 DEF ReleaseUnlinks
  <2>5. ReceiptIsRead'
    BY <1>19 DEF ReleaseUnlinks
  <2> QED  BY <2>4, <2>5
<1>20. ASSUME NEW d \in Days, NEW n \in Names, ReleaseRecords(d, n), UNCHANGED journal
       PROVE  ReceiptIsRead' /\ MissingIsElsewhere'
  <2>1. n \in Owned(d)' /\ \A c \in Days \ {d} : Owned(c)' = Owned(c)
    BY <1>20, RecordsOwns
  <2>2. /\ place[d] # "source" /\ op'.kind = "release" /\ op.kind = "release"
        /\ UNCHANGED <<place, kept>>
    BY <1>20 DEF ReleaseRecords
  <2>3. Owned(d)' # {}
    BY <2>1
  <2>4. MissingIsElsewhere'
    BY <2>1, <2>2, <2>3, ZenonT(40)
  <2>5. ReceiptIsRead'
    BY <1>20 DEF ReleaseRecords
  <2> QED  BY <2>4, <2>5
<1>21. ASSUME NEW d \in Days, ReleaseEnds(d), UNCHANGED journal
       PROVE  ReceiptIsRead' /\ MissingIsElsewhere'
  BY <1>21 DEF ReleaseEnds
<1>22. ASSUME RollbackBegins \/ \E days \in SUBSET Days : RollbackStops(days),
              UNCHANGED journal
       PROVE  ReceiptIsRead' /\ MissingIsElsewhere'
  <2>1. PICK days \in SUBSET Days : RollbackVerifies(days)
    BY <1>22 DEF RollbackBegins, RollbackStops
  <2>2. /\ \A d \in Days : manifest'[d].mounted \in {None, manifest[d].mounted}
        /\ UNCHANGED readThrough
    BY <2>1, VerifiesWithoutMount DEF RollbackVerifies
  <2>3. ReceiptIsRead'
    BY <2>2
  <2>4. MissingIsElsewhere'
    BY <1>22 DEF RollbackBegins, RollbackStops, RollbackVerifies, MayRollBack
  <2> QED  BY <2>3, <2>4
<1>23. ASSUME RollbackDropsDropin, UNCHANGED journal
       PROVE  ReceiptIsRead' /\ MissingIsElsewhere'
  BY <1>23 DEF RollbackDropsDropin
<1>24. ASSUME NEW d \in Days, RollbackUnmounts(d) \/ RollbackDropsUnit(d) \/
              RollbackRestores(d), UNCHANGED journal
       PROVE  ReceiptIsRead' /\ MissingIsElsewhere'
  BY <1>24 DEF RollbackUnmounts, RollbackDropsUnit, RollbackRestores
<1>25. ASSUME RollbackRefuses \/ RollbackEnds, UNCHANGED journal
       PROVE  ReceiptIsRead' /\ MissingIsElsewhere'
  BY <1>25 DEF RollbackRefuses, RollbackEnds
<1>26. ASSUME ConsumerStarts \/ ConsumerEnds \/ SenderStarts, UNCHANGED journal
       PROVE  ReceiptIsRead' /\ MissingIsElsewhere'
  BY <1>26 DEF ConsumerStarts, ConsumerEnds, SenderStarts
<1>27. ASSUME SenderEnds \/ ChangesHold \/ OperatorReloads, UNCHANGED journal
       PROVE  ReceiptIsRead' /\ MissingIsElsewhere'
  BY <1>27 DEF SenderEnds, ChangesHold, OperatorReloads
<1>28. ASSUME NEW d \in Days, NEW n \in Names, Rewrites(d, n), UNCHANGED journal
       PROVE  ReceiptIsRead' /\ MissingIsElsewhere'
  BY <1>28 DEF Rewrites
<1>29. ASSUME Killed \/ Restarts, UNCHANGED journal
       PROVE  ReceiptIsRead' /\ MissingIsElsewhere'
  BY <1>29 DEF Killed, Restarts
<1>30. ASSUME NEW d \in Days, Mounts(d), UNCHANGED journal
       PROVE  ReceiptIsRead' /\ MissingIsElsewhere'
  BY <1>30 DEF Mounts
<1>31. ASSUME NEW d \in Days, NEW n \in Names, Damage(d, n), UNCHANGED journal
       PROVE  ReceiptIsRead' /\ MissingIsElsewhere'
  BY <1>31 DEF Damage
<1>32. ASSUME NEW e \in Entries, WithdrawIntends(e)
       PROVE  ReceiptIsRead' /\ MissingIsElsewhere'
  BY <1>32 DEF WithdrawIntends
<1>33. ASSUME NEW e \in Entries, WithdrawUnlinks(e) \/ WithdrawRecords(e)
       PROVE  ReceiptIsRead' /\ MissingIsElsewhere'
  BY <1>33 DEF WithdrawUnlinks, WithdrawRecords
<1>34. CASE WithdrawBegins
  BY <1>34 DEF WithdrawBegins
<1>35. CASE WithdrawCreates
  BY <1>35 DEF WithdrawCreates
<1>36. CASE WithdrawEnds
  BY <1>36 DEF WithdrawEnds
<1>37. CASE WithdrawFails
  BY <1>37 DEF WithdrawFails
<1> QED  BY <1>1, <1>2, <1>3, <1>4, <1>5, <1>6, <1>7, <1>8, <1>9, <1>10, <1>11, <1>12,
    <1>13, <1>14, <1>15, <1>16, <1>17, <1>18, <1>19, <1>20, <1>21, <1>22, <1>23, <1>24,
    <1>25, <1>26, <1>27, <1>28, <1>29, <1>30, <1>31, <1>32, <1>33, <1>34, <1>35, <1>36,
    <1>37, NextIsACommand DEF Stages, VerifiesDays, CutsOver, Releases, RollsBack,
    Reads, Befalls, Withdraws

-----------------------------------------------------------------------------
LEMMA FilesStep ==
    ASSUME IInv, TypeOK', Next
    PROVE  ReleaseIsReady' /\ NothingIsLost'
<1> USE DEF IInv, Begins, Goes, At, NoOp, NoStage, NoVerify, Exclusive, Shared, Moves,
            Removing, StaysPut, Fault, relocationVars, originals, evidence, system,
            readers, commands, record
<1> USE DEF TypeOK, RelocationTypeOK, Command, Stage, Verification, Manifest, Progress,
            None, Versions, ReleaseIsReady, CommandIsAlone, MissingIsElsewhere,
            Intended, ReceiptIsRead, Remains, MountedProof, MayRelease, VerifiedFast,
            OriginalsMatch, Names, NothingIsLost, Valid, Topology, Owned, NoProgress
<1>1. ASSUME NEW d \in Days, StageBegins(d), UNCHANGED journal
      PROVE  ReleaseIsReady' /\ NothingIsLost'
  BY <1>1 DEF StageBegins
<1>2. ASSUME NEW n \in Names, StageCopies(n), UNCHANGED journal
      PROVE  ReleaseIsReady' /\ NothingIsLost'
  BY <1>2, SMTT(30) DEF StageCopies
<1>3. ASSUME StageSaves \/ StageEnds, UNCHANGED journal
      PROVE  ReleaseIsReady' /\ NothingIsLost'
  BY <1>3 DEF StageSaves, StageEnds
<1>4. ASSUME NEW d \in Days, NEW n \in Names, SetsAside(d, n), UNCHANGED journal
      PROVE  ReleaseIsReady' /\ NothingIsLost'
  <2>1. \A c \in Days, m \in Names :
            copy'[c][m] = IF c = d /\ m = n THEN None ELSE copy[c][m]
    BY <1>4, CopyChanges DEF SetsAside
  <2>2. copy[d][n] # content[d][n]
    BY <1>4, ContentIsReal DEF SetsAside
  <2>3. ReleaseIsReady'
    BY <1>4, <2>1, <2>2 DEF SetsAside
  <2>4. NothingIsLost'
    BY <1>4, <2>1, <2>2 DEF SetsAside
  <2> QED  BY <2>3, <2>4
<1>5. ASSUME NEW d \in Days, VerifyBegins(d) \/ Expires(d), UNCHANGED journal
      PROVE  ReleaseIsReady' /\ NothingIsLost'
  BY <1>5, SMTT(30) DEF VerifyBegins, Expires
<1>6. ASSUME VerifySaves \/ VerifyEnds, UNCHANGED journal
      PROVE  ReleaseIsReady' /\ NothingIsLost'
  BY <1>6 DEF VerifySaves, VerifyEnds
<1>7. ASSUME CutoverBegins \/ CutoverWritesDropin \/ Reloads \/ CutoverEnds, UNCHANGED
             journal
      PROVE  ReleaseIsReady' /\ NothingIsLost'
  BY <1>7 DEF CutoverBegins, CutoverWritesDropin, Reloads, CutoverEnds
<1>8. ASSUME NEW d \in Days, CutoverRenames(d) \/ CutoverMakesPoint(d) \/
             CutoverWritesUnit(d) \/ CutoverMounts(d), UNCHANGED journal
      PROVE  ReleaseIsReady' /\ NothingIsLost'
  BY <1>8 DEF CutoverRenames, CutoverMakesPoint, CutoverWritesUnit, CutoverMounts
<1>9. ASSUME NEW d \in Days, ReleaseBegins(d), UNCHANGED journal
      PROVE  ReleaseIsReady' /\ NothingIsLost'
  <2>1. 1 \in Names
    OBVIOUS
  <2>2. place[d] # "source"
    BY <1>9, <2>1 DEF ReleaseBegins
  <2>3. ReleaseIsReady'
    BY <1>9, <2>2 DEF ReleaseBegins
  <2>4. NothingIsLost'
    BY <1>9 DEF ReleaseBegins
  <2> QED  BY <2>3, <2>4
<1>10. ASSUME NEW d \in Days, NEW n \in Names, ReleaseIntends(d, n) \/ ReleasePasses(d,
              n), UNCHANGED journal
       PROVE  ReleaseIsReady' /\ NothingIsLost'
  BY <1>10 DEF ReleaseIntends, ReleasePasses
<1>11. ASSUME NEW d \in Days, NEW n \in Names, ReleaseRefuses(d, n), UNCHANGED journal
       PROVE  ReleaseIsReady' /\ NothingIsLost'
  BY <1>11 DEF ReleaseRefuses
<1>12. ASSUME NEW d \in Days, NEW n \in Names, ReleaseUnlinks(d, n), UNCHANGED journal
       PROVE  ReleaseIsReady' /\ NothingIsLost'
  BY <1>12 DEF ReleaseUnlinks
<1>13. ASSUME NEW d \in Days, NEW n \in Names, ReleaseRecords(d, n), UNCHANGED journal
       PROVE  ReleaseIsReady' /\ NothingIsLost'
  BY <1>13 DEF ReleaseRecords
<1>14. ASSUME NEW d \in Days, ReleaseEnds(d), UNCHANGED journal
       PROVE  ReleaseIsReady' /\ NothingIsLost'
  BY <1>14 DEF ReleaseEnds
<1>15. ASSUME RollbackBegins \/ \E days \in SUBSET Days : RollbackStops(days),
              UNCHANGED journal
       PROVE  ReleaseIsReady' /\ NothingIsLost'
  <2>1. CASE RollbackBegins
    BY <2>1 DEF RollbackBegins, RollbackVerifies, MayRollBack
  <2>2. ASSUME NEW days \in SUBSET Days, RollbackStops(days)
        PROVE  ReleaseIsReady' /\ NothingIsLost'
    BY <2>2 DEF RollbackStops, RollbackVerifies, MayRollBack
  <2> QED  BY <1>15, <2>1, <2>2
<1>16. ASSUME RollbackDropsDropin, UNCHANGED journal
       PROVE  ReleaseIsReady' /\ NothingIsLost'
  BY <1>16 DEF RollbackDropsDropin
<1>17. ASSUME NEW d \in Days, RollbackUnmounts(d) \/ RollbackDropsUnit(d) \/
              RollbackRestores(d), UNCHANGED journal
       PROVE  ReleaseIsReady' /\ NothingIsLost'
  BY <1>17, SMTT(30) DEF RollbackUnmounts, RollbackDropsUnit, RollbackRestores
<1>18. ASSUME RollbackRefuses \/ RollbackEnds, UNCHANGED journal
       PROVE  ReleaseIsReady' /\ NothingIsLost'
  BY <1>18 DEF RollbackRefuses, RollbackEnds
<1>19. ASSUME ConsumerStarts \/ ConsumerEnds \/ SenderStarts \/ SenderEnds \/
              ChangesHold \/ OperatorReloads, UNCHANGED journal
       PROVE  ReleaseIsReady' /\ NothingIsLost'
  BY <1>19 DEF ConsumerStarts, ConsumerEnds, SenderStarts, SenderEnds, ChangesHold,
    OperatorReloads
<1>20. ASSUME NEW d \in Days, NEW n \in Names, Rewrites(d, n), UNCHANGED journal
       PROVE  ReleaseIsReady' /\ NothingIsLost'
  <2>1. kept[d] = Names
    BY <1>20 DEF Rewrites
  <2>2. \A c \in Days, m \in Names : c # d => content'[c][m] = content[c][m]
    BY <1>20 DEF Rewrites
  <2>3. NothingIsLost'
    BY <1>20, <2>1, <2>2 DEF Rewrites
  <2>4. ReleaseIsReady'
    BY <1>20 DEF Rewrites
  <2> QED  BY <2>3, <2>4
<1>21. ASSUME Killed \/ Restarts, UNCHANGED journal
       PROVE  ReleaseIsReady' /\ NothingIsLost'
  BY <1>21 DEF Killed, Restarts
<1>22. ASSUME NEW d \in Days, Mounts(d), UNCHANGED journal
       PROVE  ReleaseIsReady' /\ NothingIsLost'
  BY <1>22 DEF Mounts
<1>23. ASSUME NEW d \in Days, NEW n \in Names, Damage(d, n), UNCHANGED journal
       PROVE  ReleaseIsReady' /\ NothingIsLost'
  <2>1. copy' = [copy EXCEPT ![d][n] = Damaged] /\ TypeOK
    BY <1>23 DEF Damage
  <2>2. \A c \in Days, m \in Names :
            copy'[c][m] = IF c = d /\ m = n THEN Damaged ELSE copy[c][m]
    <3> HIDE DEF Names
    <3> QED  BY <2>1, CopyChanges
  <2>3. ReleaseIsReady'
    BY <1>23 DEF Damage
  <2>4. NothingIsLost'
    BY <1>23, <2>2 DEF Damage
  <2> QED  BY <2>3, <2>4
<1>24. ASSUME NEW e \in Entries, WithdrawIntends(e)
       PROVE  ReleaseIsReady' /\ NothingIsLost'
  BY <1>24 DEF WithdrawIntends
<1>25. ASSUME NEW e \in Entries, WithdrawUnlinks(e)
       PROVE  ReleaseIsReady' /\ NothingIsLost'
  <2>1. ReleaseIsReady'
    BY <1>25 DEF WithdrawUnlinks
  <2>2. \A d \in Days : kept[d] = Names
    BY <1>25 DEF WithdrawUnlinks
  <2>3. NothingIsLost'
    BY <1>25, <2>2 DEF WithdrawUnlinks
  <2> QED  BY <2>1, <2>3
<1>26. ASSUME NEW e \in Entries, WithdrawRecords(e)
       PROVE  ReleaseIsReady' /\ NothingIsLost'
  BY <1>26 DEF WithdrawRecords
<1>27. CASE WithdrawBegins \/ WithdrawCreates \/ WithdrawEnds \/ WithdrawFails
  BY <1>27 DEF WithdrawBegins, WithdrawCreates, WithdrawEnds, WithdrawFails
<1> QED  BY <1>1, <1>2, <1>3, <1>4, <1>5, <1>6, <1>7, <1>8, <1>9, <1>10, <1>11, <1>12,
    <1>13, <1>14, <1>15, <1>16, <1>17, <1>18, <1>19, <1>20, <1>21, <1>22, <1>23, <1>24,
    <1>25, <1>26, <1>27, NextIsACommand DEF Stages, VerifiesDays, CutsOver, Releases,
    RollsBack, Reads, Befalls, Withdraws

-----------------------------------------------------------------------------
LEMMA ReadersStep ==
    ASSUME IInv, TypeOK', Next
    PROVE  CopiesAreThere' /\ ReadersSeeWholeDays'
<1> USE DEF IInv, Begins, Goes, At, NoOp, NoStage, NoVerify, Exclusive, Shared, Moves,
            Removing, StaysPut, Fault, relocationVars, originals, evidence, system,
            readers, commands, record
<1> USE DEF TypeOK, RelocationTypeOK, Command, Stage, Verification, Manifest, Progress,
            None, Versions, CopiesAreThere, CommandIsAlone, MayCutOver, VerifiedFast,
            Verified, CopiesMatch, Valid, ReadersSeeWholeDays, InactiveMeansInPlace,
            LiftedHasGraph, MissingIsElsewhere, Guard, Topology, Owned, NoProgress
<1>1. ASSUME NEW d \in Days, StageBegins(d), UNCHANGED journal
      PROVE  CopiesAreThere' /\ ReadersSeeWholeDays'
  BY <1>1 DEF StageBegins
<1>2. ASSUME NEW n \in Names, StageCopies(n), UNCHANGED journal
      PROVE  CopiesAreThere' /\ ReadersSeeWholeDays'
  BY <1>2 DEF StageCopies
<1>3. ASSUME StageSaves \/ StageEnds, UNCHANGED journal
      PROVE  CopiesAreThere' /\ ReadersSeeWholeDays'
  BY <1>3 DEF StageSaves, StageEnds
<1>4. ASSUME NEW d \in Days, NEW n \in Names, SetsAside(d, n), UNCHANGED journal
      PROVE  CopiesAreThere' /\ ReadersSeeWholeDays'
  BY <1>4 DEF SetsAside
<1>5. ASSUME NEW d \in Days, VerifyBegins(d) \/ Expires(d), UNCHANGED journal
      PROVE  CopiesAreThere' /\ ReadersSeeWholeDays'
  BY <1>5 DEF VerifyBegins, Expires
<1>6. ASSUME VerifySaves \/ VerifyEnds, UNCHANGED journal
      PROVE  CopiesAreThere' /\ ReadersSeeWholeDays'
  BY <1>6 DEF VerifySaves, VerifyEnds
<1>7. ASSUME CutoverBegins, UNCHANGED journal
      PROVE  CopiesAreThere' /\ ReadersSeeWholeDays'
  <2>1. \A d \in Days, n \in Names : copy[d][n] \in Versions
    BY <1>7 DEF CutoverBegins
  <2>2. CopiesAreThere'
    BY <1>7, <2>1 DEF CutoverBegins
  <2>3. ReadersSeeWholeDays'
    BY <1>7 DEF CutoverBegins
  <2> QED  BY <2>2, <2>3
<1>8. ASSUME NEW d \in Days, CutoverRenames(d) \/ CutoverMakesPoint(d) \/
             CutoverWritesUnit(d) \/ CutoverMounts(d), UNCHANGED journal
      PROVE  CopiesAreThere' /\ ReadersSeeWholeDays'
  BY <1>8 DEF CutoverRenames, CutoverMakesPoint, CutoverWritesUnit, CutoverMounts
<1>9. ASSUME CutoverWritesDropin \/ Reloads \/ CutoverEnds, UNCHANGED journal
      PROVE  CopiesAreThere' /\ ReadersSeeWholeDays'
  BY <1>9 DEF CutoverWritesDropin, Reloads, CutoverEnds
<1>10. ASSUME NEW d \in Days, ReleaseBegins(d), UNCHANGED journal
       PROVE  CopiesAreThere' /\ ReadersSeeWholeDays'
  BY <1>10 DEF ReleaseBegins
<1>11. ASSUME NEW d \in Days, NEW n \in Names, ReleaseIntends(d, n) \/ ReleasePasses(d,
              n) \/ ReleaseRefuses(d, n) \/ ReleaseUnlinks(d, n) \/ ReleaseRecords(d,
              n), UNCHANGED journal
       PROVE  CopiesAreThere' /\ ReadersSeeWholeDays'
  BY <1>11 DEF ReleaseIntends, ReleasePasses, ReleaseRefuses, ReleaseUnlinks,
    ReleaseRecords
<1>12. ASSUME NEW d \in Days, ReleaseEnds(d), UNCHANGED journal
       PROVE  CopiesAreThere' /\ ReadersSeeWholeDays'
  <2>1. place[d] # "source"
    BY <1>12 DEF ReleaseEnds, ReleaseIsReady
  <2>2. CopiesAreThere'
    BY <1>12, <2>1 DEF ReleaseEnds
  <2>3. ReadersSeeWholeDays'
    BY <1>12 DEF ReleaseEnds
  <2> QED  BY <2>2, <2>3
<1>13. ASSUME RollbackBegins \/ \E days \in SUBSET Days : RollbackStops(days),
              UNCHANGED journal
       PROVE  CopiesAreThere' /\ ReadersSeeWholeDays'
  <2>1. CASE RollbackBegins
    BY <2>1 DEF RollbackBegins, RollbackVerifies, MayRollBack
  <2>2. ASSUME NEW days \in SUBSET Days, RollbackStops(days)
        PROVE  CopiesAreThere' /\ ReadersSeeWholeDays'
    BY <2>2 DEF RollbackStops, RollbackVerifies, MayRollBack
  <2> QED  BY <1>13, <2>1, <2>2
<1>14. ASSUME RollbackDropsDropin, UNCHANGED journal
       PROVE  CopiesAreThere' /\ ReadersSeeWholeDays'
  BY <1>14 DEF RollbackDropsDropin
<1>15. ASSUME NEW d \in Days, RollbackUnmounts(d) \/ RollbackDropsUnit(d) \/
              RollbackRestores(d), UNCHANGED journal
       PROVE  CopiesAreThere' /\ ReadersSeeWholeDays'
  BY <1>15 DEF RollbackUnmounts, RollbackDropsUnit, RollbackRestores
<1>16. ASSUME RollbackRefuses \/ RollbackEnds, UNCHANGED journal
       PROVE  CopiesAreThere' /\ ReadersSeeWholeDays'
  BY <1>16 DEF RollbackRefuses, RollbackEnds
<1>17. ASSUME ConsumerStarts \/ ConsumerEnds \/ SenderStarts \/ SenderEnds \/
              ChangesHold \/ OperatorReloads, UNCHANGED journal
       PROVE  CopiesAreThere' /\ ReadersSeeWholeDays'
  BY <1>17 DEF ConsumerStarts, ConsumerEnds, SenderStarts, SenderEnds, ChangesHold,
    OperatorReloads
<1>18. ASSUME NEW d \in Days, NEW n \in Names, Rewrites(d, n), UNCHANGED journal
       PROVE  CopiesAreThere' /\ ReadersSeeWholeDays'
  BY <1>18 DEF Rewrites
<1>19. ASSUME Killed \/ Restarts, UNCHANGED journal
       PROVE  CopiesAreThere' /\ ReadersSeeWholeDays'
  BY <1>19 DEF Killed, Restarts
<1>20. ASSUME NEW d \in Days, Mounts(d), UNCHANGED journal
       PROVE  CopiesAreThere' /\ ReadersSeeWholeDays'
  BY <1>20 DEF Mounts
<1>21. ASSUME NEW d \in Days, NEW n \in Names, Damage(d, n), UNCHANGED journal
       PROVE  CopiesAreThere' /\ ReadersSeeWholeDays'
  <2>1. \A c \in Days, m \in Names :
            copy'[c][m] = IF c = d /\ m = n THEN Damaged ELSE copy[c][m]
    BY <1>21, CopyChanges DEF Damage
  <2>2. Damaged \notin {None, Partial}
    OBVIOUS
  <2>3. CopiesAreThere'
    BY <1>21, <2>1, <2>2 DEF Damage
  <2>4. ReadersSeeWholeDays'
    BY <1>21, <2>1, <2>2 DEF Damage
  <2> QED  BY <2>3, <2>4
<1>22. ASSUME NEW e \in Entries, WithdrawIntends(e) \/ WithdrawUnlinks(e) \/
              WithdrawRecords(e)
       PROVE  CopiesAreThere' /\ ReadersSeeWholeDays'
  BY <1>22 DEF WithdrawIntends, WithdrawUnlinks, WithdrawRecords
<1>23. CASE WithdrawBegins \/ WithdrawCreates \/ WithdrawEnds \/ WithdrawFails
  BY <1>23 DEF WithdrawBegins, WithdrawCreates, WithdrawEnds, WithdrawFails
<1> QED  BY <1>1, <1>2, <1>3, <1>4, <1>5, <1>6, <1>7, <1>8, <1>9, <1>10, <1>11, <1>12,
    <1>13, <1>14, <1>15, <1>16, <1>17, <1>18, <1>19, <1>20, <1>21, <1>22, <1>23,
    NextIsACommand DEF Stages, VerifiesDays, CutsOver, Releases, RollsBack, Reads,
    Befalls, Withdraws

-----------------------------------------------------------------------------
LEMMA JournalStep ==
    ASSUME IInv, TypeOK', Next
    PROVE  JournalIsTrue' /\ VerifiedIsWhole' /\ WithdrawalIsRecorded'
<1> USE DEF IInv, Begins, Goes, At, NoOp, NoStage, NoVerify, Exclusive, Shared, Moves,
            Removing, StaysPut, Fault, relocationVars, originals, evidence, system,
            readers, commands, record
<1> USE DEF TypeOK, RelocationTypeOK, Command, Stage, Verification, Manifest, Progress,
            None, Versions, JournalIsTrue, CommandIsAlone, MayCutOver, Torn, Intent,
            Removal, WithStatus, Valid, Topology, NoJournal, Entries, VerifiedIsWhole,
            Verified, NoManifest, WithdrawalIsRecorded, Receipt, Stale
<1>1. ASSUME NEW d \in Days, StageBegins(d), UNCHANGED journal
      PROVE  JournalIsTrue' /\ VerifiedIsWhole' /\ WithdrawalIsRecorded'
  BY <1>1 DEF StageBegins
<1>2. ASSUME NEW n \in Names, StageCopies(n), UNCHANGED journal
      PROVE  JournalIsTrue' /\ VerifiedIsWhole' /\ WithdrawalIsRecorded'
  <2>1. staging.day \in Days /\ ~Verified(staging.day)
    BY <1>2, StagedIsNew
  <2>2. VerifiedIsWhole'
    BY <1>2, <2>1 DEF StageCopies
  <2>3. JournalIsTrue' /\ WithdrawalIsRecorded'
    BY <1>2 DEF StageCopies
  <2> QED  BY <2>2, <2>3
<1>3. ASSUME StageSaves, UNCHANGED journal
      PROVE  JournalIsTrue' /\ VerifiedIsWhole' /\ WithdrawalIsRecorded'
  <2>1. staging.day \in Days /\ \A m \in Names : copy[staging.day][m] \in Versions
    BY <1>3 DEF StageSaves
  <2>2. \A m \in Names : copy[staging.day][m] \notin {None, Partial}
    BY <2>1
  <2>3. \A c \in Days : c # staging.day => Verified(c)' = Verified(c)
    BY <1>3 DEF StageSaves
  <2>4. UNCHANGED <<copy, journal>>
    BY <1>3 DEF StageSaves
  <2>5. VerifiedIsWhole' /\ WithdrawalIsRecorded'
    <3>1. \A c \in Days \ {staging.day} : Verified(c)' => Verified(c)
      BY <2>3
    <3> HIDE DEF Verified
    <3>2. VerifiedIsWhole'
      BY <2>2, <2>4, <3>1
    <3>3. WithdrawalIsRecorded'
      BY <2>2, <2>4, <3>1
    <3> QED  BY <3>2, <3>3
  <2>6. JournalIsTrue'
    BY <1>3 DEF StageSaves
  <2> QED  BY <2>5, <2>6
<1>4. ASSUME StageEnds, UNCHANGED journal
      PROVE  JournalIsTrue' /\ VerifiedIsWhole' /\ WithdrawalIsRecorded'
  BY <1>4 DEF StageEnds
<1>5. ASSUME NEW d \in Days, NEW n \in Names, SetsAside(d, n), UNCHANGED journal
      PROVE  JournalIsTrue' /\ VerifiedIsWhole' /\ WithdrawalIsRecorded'
  BY <1>5 DEF SetsAside
<1>6. ASSUME NEW d \in Days, VerifyBegins(d), UNCHANGED journal
      PROVE  JournalIsTrue' /\ VerifiedIsWhole' /\ WithdrawalIsRecorded'
  BY <1>6 DEF VerifyBegins
<1>7. ASSUME NEW d \in Days, Expires(d), UNCHANGED journal
      PROVE  JournalIsTrue' /\ VerifiedIsWhole' /\ WithdrawalIsRecorded'
  <2>1. \A c \in Days : Verified(c)' => Verified(c)
    BY <1>7, StaleIs DEF Expires
  <2>2. UNCHANGED <<copy, journal>>
    BY <1>7 DEF Expires
  <2>3. VerifiedIsWhole' /\ WithdrawalIsRecorded'
    <3> HIDE DEF Verified
    <3> QED  BY <2>1, <2>2
  <2>4. JournalIsTrue'
    BY <1>7 DEF Expires
  <2> QED  BY <2>3, <2>4
<1>8. ASSUME VerifySaves, UNCHANGED journal
      PROVE  JournalIsTrue' /\ VerifiedIsWhole' /\ WithdrawalIsRecorded'
  <2>1. verifying.day \in Days /\ Verified(verifying.day)
    BY <1>8 DEF VerifySaves, Verifies
  <2>2. \A c \in Days : Verified(c)' => Verified(c)
    BY <1>8, <2>1, ZenonT(40) DEF VerifySaves
  <2>3. UNCHANGED <<copy, journal>>
    BY <1>8 DEF VerifySaves
  <2>4. VerifiedIsWhole' /\ WithdrawalIsRecorded'
    <3> HIDE DEF Verified
    <3> QED  BY <2>2, <2>3
  <2>5. JournalIsTrue'
    BY <1>8 DEF VerifySaves
  <2> QED  BY <2>4, <2>5
<1>9. ASSUME VerifyEnds, UNCHANGED journal
      PROVE  JournalIsTrue' /\ VerifiedIsWhole' /\ WithdrawalIsRecorded'
  BY <1>9 DEF VerifyEnds
<1>10. ASSUME CutoverBegins \/ CutoverWritesDropin \/ Reloads \/ CutoverEnds, UNCHANGED
              journal
       PROVE  JournalIsTrue' /\ VerifiedIsWhole' /\ WithdrawalIsRecorded'
  BY <1>10 DEF CutoverBegins, CutoverWritesDropin, Reloads, CutoverEnds
<1>11. ASSUME NEW d \in Days, CutoverRenames(d) \/ CutoverMakesPoint(d) \/
              CutoverWritesUnit(d) \/ CutoverMounts(d), UNCHANGED journal
       PROVE  JournalIsTrue' /\ VerifiedIsWhole' /\ WithdrawalIsRecorded'
  BY <1>11 DEF CutoverRenames, CutoverMakesPoint, CutoverWritesUnit, CutoverMounts
<1>12. ASSUME NEW d \in Days, ReleaseBegins(d) \/ ReleaseEnds(d), UNCHANGED journal
       PROVE  JournalIsTrue' /\ VerifiedIsWhole' /\ WithdrawalIsRecorded'
  BY <1>12 DEF ReleaseBegins, ReleaseEnds
<1>13. ASSUME NEW d \in Days, NEW n \in Names, ReleaseIntends(d, n) \/ ReleasePasses(d,
              n) \/ ReleaseRefuses(d, n) \/ ReleaseUnlinks(d, n) \/ ReleaseRecords(d,
              n), UNCHANGED journal
       PROVE  JournalIsTrue' /\ VerifiedIsWhole' /\ WithdrawalIsRecorded'
  BY <1>13 DEF ReleaseIntends, ReleasePasses, ReleaseRefuses, ReleaseUnlinks,
    ReleaseRecords
<1>14. ASSUME RollbackBegins \/ \E days \in SUBSET Days : RollbackStops(days),
              UNCHANGED journal
       PROVE  JournalIsTrue' /\ VerifiedIsWhole' /\ WithdrawalIsRecorded'
  <2>1. PICK days \in SUBSET Days : RollbackVerifies(days)
    BY <1>14 DEF RollbackBegins, RollbackStops
  <2>2. (\A c \in Days : Verified(c)' => Verified(c)) /\ UNCHANGED <<copy, journal>>
    BY <1>14, <2>1, VerifiesWithoutMount DEF RollbackVerifies, Verified
  <2>3. VerifiedIsWhole' /\ WithdrawalIsRecorded'
    <3> HIDE DEF Verified
    <3> QED  BY <2>2
  <2>4. JournalIsTrue'
    <3>1. UNCHANGED <<withdrawn, staging, journal, copy, active>>
      BY <1>14, <2>1 DEF RollbackVerifies
    <3>2. op = NoOp
      BY <2>1 DEF RollbackVerifies, MayRollBack
    <3>3. op'.kind \in {"none", "rollback"}
      <4>1. CASE RollbackBegins
        BY <4>1 DEF RollbackBegins
      <4>2. CASE \E c \in SUBSET Days : RollbackStops(c)
        BY <3>2, <4>2 DEF RollbackStops
      <4> QED  BY <1>14, <4>1, <4>2
    <3> QED  BY <3>1, <3>3
  <2> QED  BY <2>3, <2>4
<1>15. ASSUME RollbackDropsDropin \/ RollbackRefuses \/ RollbackEnds, UNCHANGED journal
       PROVE  JournalIsTrue' /\ VerifiedIsWhole' /\ WithdrawalIsRecorded'
  BY <1>15 DEF RollbackDropsDropin, RollbackRefuses, RollbackEnds
<1>16. ASSUME NEW d \in Days, RollbackUnmounts(d) \/ RollbackDropsUnit(d) \/
              RollbackRestores(d), UNCHANGED journal
       PROVE  JournalIsTrue' /\ VerifiedIsWhole' /\ WithdrawalIsRecorded'
  BY <1>16 DEF RollbackUnmounts, RollbackDropsUnit, RollbackRestores
<1>17. ASSUME ConsumerStarts \/ ConsumerEnds \/ SenderStarts \/ SenderEnds \/
              ChangesHold \/ OperatorReloads, UNCHANGED journal
       PROVE  JournalIsTrue' /\ VerifiedIsWhole' /\ WithdrawalIsRecorded'
  BY <1>17 DEF ConsumerStarts, ConsumerEnds, SenderStarts, SenderEnds, ChangesHold,
    OperatorReloads
<1>18. ASSUME NEW d \in Days, NEW n \in Names, Rewrites(d, n), UNCHANGED journal
       PROVE  JournalIsTrue' /\ VerifiedIsWhole' /\ WithdrawalIsRecorded'
  BY <1>18 DEF Rewrites
<1>19. ASSUME Killed \/ Restarts, UNCHANGED journal
       PROVE  JournalIsTrue' /\ VerifiedIsWhole' /\ WithdrawalIsRecorded'
  BY <1>19 DEF Killed, Restarts
<1>20. ASSUME NEW d \in Days, Mounts(d), UNCHANGED journal
       PROVE  JournalIsTrue' /\ VerifiedIsWhole' /\ WithdrawalIsRecorded'
  BY <1>20 DEF Mounts
<1>21. ASSUME NEW d \in Days, NEW n \in Names, Damage(d, n), UNCHANGED journal
       PROVE  JournalIsTrue' /\ VerifiedIsWhole' /\ WithdrawalIsRecorded'
  <2>1. \A c \in Days, m \in Names :
            copy'[c][m] = IF c = d /\ m = n THEN Damaged ELSE copy[c][m]
    BY <1>21, CopyChanges DEF Damage
  <2>2. Damaged \notin {None, Partial}
    OBVIOUS
  <2>3. VerifiedIsWhole' /\ WithdrawalIsRecorded'
    BY <1>21, <2>1, <2>2 DEF Damage
  <2>4. JournalIsTrue'
    BY <1>21 DEF Damage
  <2> QED  BY <2>3, <2>4
<1>22. ASSUME NEW e \in Entries, WithdrawIntends(e)
       PROVE  JournalIsTrue' /\ VerifiedIsWhole' /\ WithdrawalIsRecorded'
  <2>1. Intent(e).completed = journal.completed /\ Intent(e).pending = e
    BY <1>22 DEF WithdrawIntends
  <2>2. WithdrawalIsRecorded'
    <3> HIDE DEF Intent
    <3> QED  BY <1>22, <2>1 DEF WithdrawIntends
  <2>3. JournalIsTrue' /\ VerifiedIsWhole'
    BY <1>22 DEF WithdrawIntends
  <2> QED  BY <2>2, <2>3
<1>23. ASSUME NEW e \in Entries, WithdrawUnlinks(e)
       PROVE  JournalIsTrue' /\ VerifiedIsWhole' /\ WithdrawalIsRecorded'
  <2>1. \A c \in Days, m \in Names :
            copy'[c][m] = IF c = e[1] /\ m = e[2] THEN None ELSE copy[c][m]
    BY <1>23, CopyChanges DEF WithdrawUnlinks
  <2>2. VerifiedIsWhole'
    BY <1>23, <2>1 DEF WithdrawUnlinks
  <2>3. JournalIsTrue' /\ WithdrawalIsRecorded'
    BY <1>23 DEF WithdrawUnlinks
  <2> QED  BY <2>2, <2>3
<1>24. ASSUME NEW e \in Entries, WithdrawRecords(e)
       PROVE  JournalIsTrue' /\ VerifiedIsWhole' /\ WithdrawalIsRecorded'
  BY <1>24 DEF WithdrawRecords
<1>25. CASE WithdrawBegins
  BY <1>25 DEF WithdrawBegins
<1>26. CASE WithdrawCreates
  BY <1>26 DEF WithdrawCreates
<1>27. CASE WithdrawEnds
  BY <1>27 DEF WithdrawEnds
<1>28. CASE WithdrawFails
  BY <1>28 DEF WithdrawFails
<1> QED  BY <1>1, <1>2, <1>3, <1>4, <1>5, <1>6, <1>7, <1>8, <1>9, <1>10, <1>11, <1>12,
    <1>13, <1>14, <1>15, <1>16, <1>17, <1>18, <1>19, <1>20, <1>21, <1>22, <1>23, <1>24,
    <1>25, <1>26, <1>27, <1>28, NextIsACommand DEF Stages, VerifiesDays, CutsOver,
    Releases, RollsBack, Reads, Befalls, Withdraws

-----------------------------------------------------------------------------
LEMMA IInvInit == Init => IInv
<1> SUFFICES ASSUME Init PROVE IInv
  OBVIOUS
<1> USE DEF Init, RelocationInit, NoOp, NoStage, NoVerify, NoProgress, NoManifest, NoJournal,
            None
<1>1. TypeOK
  <2>1. 1 \in Versions
    BY DEF Versions
  <2>2. NoOp \in Command /\ NoProgress \in Progress
    BY DEF Command, Progress
  <2>3. /\ content \in [Days -> [Names -> Versions]] /\ kept \in [Days -> SUBSET Names]
        /\ copy \in [Days -> [Names -> Versions \cup {None, Partial, Damaged}]]
    BY <2>1
  <2> HIDE DEF NoOp, NoProgress, NoManifest, NoStage, NoVerify
  <2>4. {hold, sender, consumer, withdrawn} \subseteq BOOLEAN
    OBVIOUS
  <2>5. point \in [Days -> BOOLEAN]
    OBVIOUS
  <2>6. /\ manifest \in [Days -> Manifest \cup {NoManifest}]
        /\ progress \in [Days -> Progress]
    BY <2>2
  <2>7. /\ {active, cutovers} \subseteq Nat /\ readThrough \in [Days -> Nat]
        /\ faults \in 0..MaxFaults
    OBVIOUS
  <2>8. /\ place \in [Days -> {"source", "quarantine", "gone"}]
        /\ unit \in [Days -> Texts] /\ {dropin, loaded} \subseteq Texts
        /\ enabled \subseteq Days /\ mounted \subseteq Days
    BY DEF Texts
  <2>9. /\ op \in Command /\ staging \in Stage \cup {NoStage}
        /\ verifying \in Verification \cup {NoVerify}
    BY <2>2
  <2>10. RelocationTypeOK
    <3> HIDE DEF Init, RelocationInit
    <3> QED
      BY <2>3, <2>4, <2>5, <2>6, <2>7, <2>8, <2>9, Zenon DEF RelocationTypeOK
  <2> QED  BY <2>10 DEF TypeOK, Entries
<1>2. /\ CommandIsAlone /\ UnitsStand /\ LiftedHasGraph /\ InactiveMeansInPlace
      /\ ReceiptIsRead /\ NothingIsLost /\ CopiesAreThere /\ ReadersSeeWholeDays
  BY DEF CommandIsAlone, Moves, UnitsStand, LiftedHasGraph, InactiveMeansInPlace,
         ReceiptIsRead, NothingIsLost, CopiesAreThere, ReadersSeeWholeDays
<1>3. MissingIsElsewhere /\ ReleaseIsReady
  BY DEF MissingIsElsewhere, Owned, ReleaseIsReady
<1>4. JournalIsTrue /\ VerifiedIsWhole /\ WithdrawalIsRecorded
  BY DEF JournalIsTrue, VerifiedIsWhole, WithdrawalIsRecorded, Verified
<1> QED  BY <1>1, <1>2, <1>3, <1>4 DEF IInv

LEMMA IInvStutter == IInv /\ UNCHANGED vars => IInv'
<1> SUFFICES ASSUME IInv, UNCHANGED vars PROVE IInv'
  OBVIOUS
<1> USE DEF IInv, vars, relocationVars, originals, evidence, system, readers, commands, record
<1>1. TypeOK'
  BY DEF TypeOK, RelocationTypeOK
<1>2. /\ CommandIsAlone' /\ UnitsStand' /\ LiftedHasGraph' /\ InactiveMeansInPlace'
      /\ ReceiptIsRead' /\ NothingIsLost' /\ CopiesAreThere' /\ ReadersSeeWholeDays'
  BY DEF CommandIsAlone, UnitsStand, LiftedHasGraph, InactiveMeansInPlace,
         ReceiptIsRead, NothingIsLost, CopiesAreThere, ReadersSeeWholeDays
<1>3. MissingIsElsewhere' /\ ReleaseIsReady'
  BY DEF MissingIsElsewhere, Owned, ReleaseIsReady
<1>4. JournalIsTrue' /\ VerifiedIsWhole' /\ WithdrawalIsRecorded'
  BY DEF JournalIsTrue, VerifiedIsWhole, WithdrawalIsRecorded, Verified
<1> QED  BY <1>1, <1>2, <1>3, <1>4

LEMMA IInvStep == IInv /\ [Next]_vars => IInv'
<1>1. ASSUME IInv, Next PROVE IInv'
  <2>1. TypeOK'
    BY <1>1, TypesStep
  <2> QED
    BY <1>1, <2>1, CommandsStep, EvidenceStep, FilesStep, ReadersStep, JournalStep DEF IInv
<1> QED  BY <1>1, IInvStutter

LEMMA AlwaysIInv == Spec => []IInv
<1> QED  BY IInvInit, IInvStep, PTL DEF Spec

(***************************************************************************)
(* The state of the relocation and of the withdrawal keeps its types.      *)
(***************************************************************************)
THEOREM RadarTypes == Spec => []TypeOK
<1>1. IInv => TypeOK
  BY DEF IInv
<1> QED  BY <1>1, AlwaysIInv, PTL

(***************************************************************************)
(* Every radar file is there in its last version, as its original or as a  *)
(* copy equal to it, whatever is killed, damaged or restarted.             *)
(***************************************************************************)
THEOREM NoFileIsLost == Spec => []NothingIsLost
<1>1. IInv => NothingIsLost
  BY DEF IInv
<1> QED  BY <1>1, AlwaysIInv, PTL

(***************************************************************************)
(* A running consumer or sender finds every file of every day, in place or *)
(* through the bind.                                                       *)
(***************************************************************************)
THEOREM WholeDaysAreRead == Spec => []ReadersSeeWholeDays
<1>1. IInv => ReadersSeeWholeDays
  BY DEF IInv
<1> QED  BY <1>1, AlwaysIInv, PTL

(***************************************************************************)
(* Without an active record nothing is relocated, so that a sender that finds *)
(* no record may skip the guard.                                           *)
(***************************************************************************)
THEOREM NoRecordMeansInPlace == Spec => []InactiveMeansInPlace
<1>1. IInv => InactiveMeansInPlace
  BY DEF IInv
<1> QED  BY <1>1, AlwaysIInv, PTL

(***************************************************************************)
(* After a withdrawal has begun the originals stay in place and what was   *)
(* withdrawn does not come back.                                           *)
(***************************************************************************)
THEOREM WithdrawnPlanIsRetired == Spec => []WithdrawnStaysInPlace
<1>1. IInv => WithdrawnStaysInPlace
  <2> SUFFICES ASSUME IInv, withdrawn PROVE WithdrawnStaysInPlace
    BY DEF WithdrawnStaysInPlace
  <2>1. \A d \in Days : place[d] = "source"
    BY DEF IInv, JournalIsTrue, InactiveMeansInPlace
  <2>2. \A d \in Days : kept[d] = Names
    BY <2>1 DEF IInv, MissingIsElsewhere
  <2> QED  BY <2>1, <2>2 DEF IInv, JournalIsTrue, WithdrawnStaysInPlace
<1> QED  BY <1>1, AlwaysIInv, PTL

(***************************************************************************)
(* A verified copy is missing only when the journal names it.              *)
(***************************************************************************)
THEOREM WithdrawalCanResume == Spec => []WithdrawalIsRecorded
<1>1. IInv => WithdrawalIsRecorded
  BY DEF IInv
<1> QED  BY <1>1, AlwaysIInv, PTL

(***************************************************************************)
(* An original is only unlinked when its day was read in full through the  *)
(* logical path under the cutover that is active.                          *)
(***************************************************************************)
THEOREM ReleasedOnlyAfterFullRead == Spec => ReleasedAfterFullRead
<1> DEFINE Read(d) == active # None /\ readThrough[d] = active
<1> USE DEF Begins, Goes, At, StaysPut, relocationVars, originals, evidence, system,
            readers, commands, record
<1>1. ASSUME NEW d \in Days, NEW n \in Names, ReleaseUnlinks(d, n), IInv
      PROVE  \A c \in Days : kept'[c] # kept[c] => Read(c)
  <2>1. Read(d)
    BY <1>1 DEF ReleaseUnlinks, IInv, ReleaseIsReady, CommandIsAlone, Moves
  <2>2. \A c \in Days \ {d} : kept'[c] = kept[c]
    BY <1>1 DEF ReleaseUnlinks, IInv, TypeOK, RelocationTypeOK
  <2> QED  BY <2>1, <2>2
<1>2. ASSUME NEW d \in Days,
             ReleaseBegins(d) \/ ReleaseEnds(d) \/ \E n \in Names :
                 ReleaseIntends(d, n) \/ ReleasePasses(d, n) \/ ReleaseRefuses(d, n)
                 \/ ReleaseRecords(d, n)
      PROVE  kept' = kept
  BY <1>2 DEF ReleaseBegins, ReleaseEnds, ReleaseIntends, ReleasePasses, ReleaseRefuses,
              ReleaseRecords
<1>3. Stages \/ VerifiesDays \/ Withdraws => kept' = kept
  BY DEF Stages, StageBegins, SetsAside, StageCopies, StageSaves, StageEnds,
         VerifiesDays, VerifyBegins, Expires, VerifySaves, VerifyEnds,
         Withdraws, WithdrawIntends, WithdrawUnlinks, WithdrawRecords, WithdrawBegins,
         WithdrawCreates, WithdrawEnds, WithdrawFails
<1>4. CutsOver \/ RollsBack => kept' = kept
  BY DEF CutsOver, CutoverRenames, CutoverMakesPoint, CutoverWritesUnit, CutoverMounts,
         CutoverBegins, CutoverWritesDropin, Reloads, CutoverEnds,
         RollsBack, RollbackUnmounts, RollbackDropsUnit, RollbackRestores, RollbackBegins,
         RollbackDropsDropin, RollbackRefuses, RollbackEnds, RollbackStops, RollbackVerifies
<1>5. Reads \/ Befalls => kept' = kept
  BY DEF Reads, ConsumerStarts, ConsumerEnds, SenderStarts, SenderEnds, ChangesHold,
         OperatorReloads, Rewrites, Befalls, Killed, Restarts, Mounts, Damage
<1>6. IInv /\ [Next]_vars => [\A d \in Days : kept'[d] # kept[d] => Read(d)]_relocationVars
  BY <1>1, <1>2, <1>3, <1>4, <1>5, NextIsACommand DEF Releases, vars
<1> QED  BY <1>6, AlwaysIInv, PTL DEF Spec, ReleasedAfterFullRead

=============================================================================

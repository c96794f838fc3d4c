------------------------ MODULE EvidenceStoreProofs ------------------------
(***************************************************************************)
(* Proofs about EvidenceStore for every catalogue, any number of readers   *)
(* and writers and every bound: type correctness, that latest is complete  *)
(* at every instant, and that what a reader has pinned stays complete.     *)
(***************************************************************************)
EXTENDS EvidenceStore, SequenceTheorems, TLAPS

-----------------------------------------------------------------------------
(* What the operators return.                                              *)

LEMMA ReportTypes ==
    /\ NoEvidence \in Reports /\ LegacyJobs \in Reports
    /\ 0 \in Ids /\ 1 \in Ids
    BY BoundsAssumption DEF NoEvidence, LegacyJobs, Reports, Ids

LEMMA EmptyObservations == <<>> \in Observations
    BY EmptySeq DEF Observations, REQUIRED

\* Removing an element of a sequence leaves a sequence.
LEMMA WithoutType ==
    ASSUME NEW S, NEW s \in Seq(S), NEW g
    PROVE  Without(s, g) \in Seq(S)
<1> DEFINE i == CHOOSE i \in DOMAIN s : s[i] = g
<1>1. CASE g \notin Elements(s)
    BY <1>1 DEF Without
<1>2. CASE g \in Elements(s)
    <2>1. i \in DOMAIN s
        BY <1>2 DEF Elements
    <2>2. i \in 1..Len(s) /\ Len(s) \in Nat
        BY <2>1, LenProperties
    <2> HIDE DEF i
    <2>3. SubSeq(s, 1, i - 1) \in Seq(S)
        BY <2>2, ElementOfSeq, SubSeqProperties
    <2>4. SubSeq(s, i + 1, Len(s)) \in Seq(S)
        BY <2>2, ElementOfSeq, SubSeqProperties
    <2>5. Without(s, g) = SubSeq(s, 1, i - 1) \o SubSeq(s, i + 1, Len(s))
        BY <1>2 DEF Without, i
    <2> QED
        BY <2>3, <2>4, <2>5, ConcatProperties
<1> QED
    BY <1>1, <1>2

\* A family never has more than REQUIRED confirmations.
LEMMA ConfirmationsType ==
    ASSUME NEW f \in Families, NEW jobs \in Reports, NEW verified,
           NEW previous \in MaybeGates, NEW failing, NEW aged \in Agings
    PROVE  Confirmations(f, jobs, verified, previous, failing, aged)
               \in Observations
<1> DEFINE old == IF HasPrior(previous) THEN previous.observations[f] ELSE <<>>
           eligible == SubSeq(old, aged[f] + 1, Len(old))
           longer == Append(eligible, jobs[f])
<1>1. old \in Observations
    BY EmptyObservations DEF HasPrior, MaybeGates, GateStates
<1>2. eligible \in Observations
    <2>1. old \in Seq(Ids) /\ Len(old) \in Nat /\ Len(old) <= REQUIRED
        BY <1>1, LenProperties DEF Observations
    <2>2. aged[f] \in Nat
        BY DEF Agings, REQUIRED
    <2>3. /\ eligible \in Seq(Ids)
          /\ Len(eligible) = IF aged[f] + 1 <= Len(old)
                             THEN Len(old) - (aged[f] + 1) + 1 ELSE 0
        BY <2>1, <2>2, SubSeqProperties, ElementOfSeq
    <2> QED
        BY <2>1, <2>2, <2>3 DEF Observations, REQUIRED
<1>3. jobs[f] \in Ids
    BY DEF Reports
<1>4. longer \in Seq(Ids) /\ Len(longer) = Len(eligible) + 1
    BY <1>2, <1>3, AppendProperties DEF Observations
<1>5. Len(eligible) \in Nat /\ Len(eligible) <= REQUIRED
    BY <1>2, LenProperties DEF Observations
<1>6. Len(longer) > REQUIRED => Tail(longer) \in Observations
    <2> SUFFICES ASSUME Len(longer) > REQUIRED
                 PROVE  Tail(longer) \in Observations
        OBVIOUS
    <2>1. longer # <<>>
        BY <1>4, <1>5, SMTT(30) DEF REQUIRED
    <2>2. Tail(longer) \in Seq(Ids) /\ Len(Tail(longer)) = Len(longer) - 1
        BY <1>4, <2>1, HeadTailProperties, SMTT(30)
    <2> QED
        BY <1>4, <1>5, <2>2 DEF Observations, REQUIRED
<1>7. ~(Len(longer) > REQUIRED) => longer \in Observations
    BY <1>4, <1>5 DEF Observations, REQUIRED
<1> QED
    BY <1>2, <1>6, <1>7, EmptyObservations DEF Confirmations

\* An evaluation yields a gate, bound to the report it judged.
LEMMA EvaluateType ==
    ASSUME NEW jobs \in Reports, NEW verified, NEW previous \in MaybeGates,
           NEW failing, NEW aged \in Agings
    PROVE  /\ Evaluate(jobs, verified, previous, failing, aged) \in GateStates
           /\ BoundTo(Evaluate(jobs, verified, previous, failing, aged), jobs)
<1>1. ASSUME NEW f \in Families
      PROVE  (IF HasPrior(previous) THEN Larger(previous.watermark[f], jobs[f])
              ELSE jobs[f]) \in Ids
    BY BoundsAssumption
    DEF HasPrior, MaybeGates, GateStates, Reports, Ids, Larger
<1>2. Evaluate(jobs, verified, previous, failing, aged) \in GateStates
    BY <1>1, ConfirmationsType DEF Evaluate, GateStates, Reports
<1> QED
    BY <1>2, NoGateAssumption DEF BoundTo, Evaluate

LEMMA CreditsType ==
    ASSUME NEW gate
    PROVE  Credits(gate) \subseteq Families \X Ids
    BY DEF Credits

LEMMA PreviousType ==
    ASSUME DiskTypes
    PROVE  /\ PreviousJobs \in Reports
           /\ PreviousGate \in MaybeGates
           /\ \A t \in Trees : GateOf(t) \in MaybeGates
<1>1. \A t \in Trees : GateOf(t) \in MaybeGates
    BY DEF DiskTypes, GateOf, TreeStates
<1>2. PreviousJobs \in Reports
    BY ReportTypes DEF DiskTypes, PreviousJobs, TreeStates
<1>3. PreviousGate \in MaybeGates
    BY <1>1 DEF DiskTypes, PreviousGate, MaybeGates
<1> QED
    BY <1>1, <1>2, <1>3

-----------------------------------------------------------------------------
(* Type correctness.                                                       *)

LEMMA InitType == Init => TypeOK
<1> SUFFICES ASSUME Init PROVE TypeOK
    OBVIOUS
<1> USE ReportTypes, BoundsAssumption, NamesAssumption
<1>1. ASSUME NEW jobs \in Reports
      PROVE  OldPolicyGate(jobs) \in GateStates
    BY <1>1, EmptyObservations DEF OldPolicyGate, GateStates
<1>2. compat \in MaybeGates
    BY <1>1 DEF Init, MaybeGates
<1>3. tree \in [Trees -> TreeStates]
    BY DEF Init, Absent, TreeStates, MaybeGates
<1>4. order \in Seq(Generations) /\ todo \in Seq(Generations)
    BY EmptySeq DEF Init
<1>5. DiskTypes
    BY <1>2, <1>3, <1>4 DEF Init, DiskTypes, Trees
<1>6. PreviousJobs \in [Families -> Ids]
    BY <1>5, PreviousType DEF Reports
<1>7. counted \subseteq Families \X Ids
    BY CreditsType DEF Init
<1> QED
    BY <1>2, <1>4, <1>5, <1>6, <1>7 DEF Init, TypeOK, LockTypes, WriterTypes,
        WriterSteps, ReaderTypes, CleanerTypes, HistoryTypes

\* What a step leaves alone keeps its types.
LEMMA UnchangedTypes ==
    ASSUME TypeOK
    PROVE  /\ UNCHANGED diskVars => DiskTypes'
           /\ UNCHANGED lockVars => LockTypes'
           /\ UNCHANGED writerVars => WriterTypes'
           /\ UNCHANGED readerVars => ReaderTypes'
           /\ UNCHANGED cleanerVars => CleanerTypes'
           /\ UNCHANGED historyVars => HistoryTypes'
    BY DEF TypeOK, DiskTypes, LockTypes, WriterTypes, ReaderTypes,
        CleanerTypes, HistoryTypes, diskVars, lockVars, writerVars, readerVars,
        cleanerVars, historyVars

\* A writer that goes idle releases what it holds.
LEMMA StopType ==
    ASSUME TypeOK, NEW w \in Writers, Stop(w)
    PROVE  /\ pc' \in [Writers -> WriterSteps]
           /\ made' \in [Writers -> Generations \cup {None}]
           /\ LockTypes'
<1>1. pc' \in [Writers -> WriterSteps]
    BY DEF TypeOK, WriterTypes, Stop, WriterSteps
<1>2. made' \in [Writers -> Generations \cup {None}]
    BY DEF TypeOK, WriterTypes, Stop
<1>3. LockTypes'
    BY DEF TypeOK, LockTypes, Stop, Release
<1> QED
    BY <1>1, <1>2, <1>3

\* A step of a writer that touches neither readers nor clean-up.
LEMMA WriterStep ==
    ASSUME TypeOK, UNCHANGED notWriter, DiskTypes', LockTypes', WriterTypes',
           HistoryTypes'
    PROVE  TypeOK'
    BY UnchangedTypes DEF TypeOK, notWriter, boundVars

LEMMA BeginType ==
    ASSUME TypeOK, NEW w \in Writers, Begin(w)
    PROVE  TypeOK'
<1>1. want' \in [Families -> Ids] /\ unsettled' \in [Families -> BOOLEAN]
    <2>1. CASE w \in Families /\ want[w] < MaxId /\ want' = [want EXCEPT ![w] = @ + 1]
        <3>1. want[w] + 1 \in Ids
            BY <2>1, BoundsAssumption DEF TypeOK, WriterTypes, Ids
        <3>2. want' \in [Families -> Ids]
            BY <2>1, <3>1 DEF TypeOK, WriterTypes
        <3> QED
            BY <2>1, <3>2 DEF TypeOK, WriterTypes, Begin
    <2>2. CASE want' = want
        BY <2>2 DEF TypeOK, WriterTypes, Begin
    <2> QED
        BY <2>1, <2>2 DEF Begin
<1>2. pc' \in [Writers -> WriterSteps] /\ made' = made
    BY DEF TypeOK, WriterTypes, Begin, WriterSteps
<1>3. LockTypes'
    BY DEF TypeOK, LockTypes, Begin
<1> QED
    BY <1>1, <1>2, <1>3, UnchangedTypes, WriterStep
    DEF Begin, WriterTypes, TypeOK

LEMMA TakeCommitType ==
    ASSUME TypeOK, NEW w \in Writers, TakeCommit(w)
    PROVE  TypeOK'
<1>1. WriterTypes'
    BY DEF TypeOK, WriterTypes, TakeCommit, WriterSteps
<1>2. LockTypes'
    BY DEF TypeOK, LockTypes, TakeCommit
<1> QED
    BY <1>1, <1>2, UnchangedTypes, WriterStep DEF TakeCommit

LEMMA SettleType ==
    ASSUME TypeOK, NEW f \in Families, Settle(f)
    PROVE  /\ unsettled' \in [Families -> BOOLEAN]
           /\ published' \in [Families -> Ids]
    BY DEF TypeOK, WriterTypes, HistoryTypes, Settle

\* The steps in which a writer ends without a new generation.
LEMMA EndType ==
    ASSUME TypeOK, NEW w \in Writers,
           \/ CommitBusy(w) \/ LoadFails(w) \/ RefreshMissing(w) \/ CrashWriter(w)
           \/ w \in Families /\ (Refuse(w) \/ Repeat(w))
    PROVE  TypeOK'
<1>1. CASE CommitBusy(w) \/ LoadFails(w) \/ RefreshMissing(w)
    <2>1. Stop(w) /\ UNCHANGED <<diskVars, want, unsettled, historyVars, notWriter>>
        BY <1>1 DEF CommitBusy, LoadFails, RefreshMissing
    <2> QED
        BY <2>1, StopType, UnchangedTypes, WriterStep DEF WriterTypes, TypeOK
<1>2. CASE CrashWriter(w)
    <2>1. DiskTypes'
        BY <1>2 DEF CrashWriter, TypeOK, DiskTypes
    <2>2. crashes' \in 0..MaxCrashes
        BY <1>2, BoundsAssumption DEF CrashWriter, TypeOK
    <2>3. Stop(w)
        BY <1>2 DEF CrashWriter
    <2>4. WriterTypes' /\ LockTypes'
        BY <1>2, <2>3, StopType DEF CrashWriter, TypeOK, WriterTypes
    <2> QED
        BY <1>2, <2>1, <2>2, <2>4, UnchangedTypes DEF CrashWriter, TypeOK
<1>3. CASE w \in Families /\ Refuse(w)
    <2>1. Stop(w) /\ UNCHANGED <<diskVars, want, historyVars, notWriter>>
        BY <1>3 DEF Refuse
    <2>2. unsettled' \in [Families -> BOOLEAN]
        BY <1>3 DEF Refuse, TypeOK, WriterTypes
    <2> QED
        BY <2>1, <2>2, StopType, UnchangedTypes, WriterStep
        DEF WriterTypes, TypeOK
<1>4. CASE w \in Families /\ Repeat(w)
    <2>1. Stop(w) /\ Settle(w)
        BY <1>4 DEF Repeat
    <2>2. HistoryTypes'
        BY <1>4, <2>1, SettleType DEF Repeat, HistoryTypes, TypeOK
    <2>3. WriterTypes' /\ LockTypes'
        BY <1>4, <2>1, SettleType, StopType DEF Repeat, WriterTypes, TypeOK
    <2> QED
        BY <1>4, <2>2, <2>3, UnchangedTypes, WriterStep DEF Repeat
<1> QED
    BY <1>1, <1>2, <1>3, <1>4

LEMMA RefreshLegacyType ==
    ASSUME TypeOK, NEW w \in Writers, NEW failing, NEW aged \in Agings,
           RefreshLegacy(w, failing, aged)
    PROVE  TypeOK'
<1>1. compat' \in GateStates
    BY PreviousType, EvaluateType DEF RefreshLegacy, TypeOK
<1>2. DiskTypes'
    BY <1>1 DEF RefreshLegacy, TypeOK, DiskTypes, MaybeGates
<1>3. HistoryTypes'
    BY <1>1, CreditsType DEF RefreshLegacy, TypeOK, HistoryTypes, MaybeGates
<1>4. WriterTypes' /\ LockTypes'
    BY StopType DEF RefreshLegacy, TypeOK, WriterTypes
<1> QED
    BY <1>2, <1>3, <1>4, WriterStep DEF RefreshLegacy

LEMMA GenerateType ==
    ASSUME TypeOK, NEW w \in Writers, NEW failing, NEW aged \in Agings,
           Generate(w, failing, aged)
    PROVE  /\ TypeOK'
           /\ NewName \in Generations
           /\ tree[NewName].part = "absent"
           /\ tree'[NewName].part = "whole" /\ tree'[NewName].pin
           /\ BoundTo(tree'[NewName].gate, tree'[NewName].jobs)
<1> DEFINE g == NewName
           jobs == IF w \in Families THEN Merged(w) ELSE PreviousJobs
           verified == IF w \in Families THEN {w} ELSE tree[latest].verified
           gate == Evaluate(jobs, verified, PreviousGate, failing, aged)
           new == [part |-> "whole", pin |-> TRUE, jobs |-> jobs,
                   verified |-> verified, gate |-> gate]
<1>1. g \in Generations /\ tree[g].part = "absent"
    BY DEF Generate, NameLeft, NewName
<1>2. jobs \in Reports
    BY PreviousType DEF Merged, Reports, TypeOK, WriterTypes
<1>3. gate \in GateStates /\ BoundTo(gate, jobs)
    BY <1>2, PreviousType, EvaluateType DEF TypeOK
<1>4. verified \subseteq Families
    <2>1. CASE w \in Families
        BY <2>1
    <2>2. CASE w \notin Families
        <3>1. latest \in Trees
            BY <2>2 DEF Generate, Trees
        <3> QED
            BY <2>2, <3>1 DEF TypeOK, DiskTypes, TreeStates
    <2> QED
        BY <2>1, <2>2
<1>5. new \in TreeStates
    BY <1>2, <1>3, <1>4 DEF TreeStates, MaybeGates
<1>6. tree' = [tree EXCEPT ![g] = new]
    BY DEF Generate
<1>7. tree' \in [Trees -> TreeStates] /\ tree'[g] = new
    BY <1>1, <1>5, <1>6 DEF TypeOK, DiskTypes, Trees
<1>8. order' \in Seq(Generations)
    BY <1>1, ConcatProperties DEF Generate, TypeOK, DiskTypes
<1>9. DiskTypes'
    BY <1>7, <1>8 DEF Generate, TypeOK, DiskTypes
<1>10. WriterTypes'
    BY <1>1 DEF Generate, TypeOK, WriterTypes, WriterSteps
<1>11. TypeOK'
    BY <1>9, <1>10, UnchangedTypes, WriterStep DEF Generate
<1> QED
    BY <1>1, <1>3, <1>7, <1>11

LEMMA EmbedOpensType ==
    ASSUME TypeOK, NEW w \in Writers, EmbedOpens(w)
    PROVE  TypeOK'
<1>1. DiskTypes'
    BY DEF EmbedOpens, TypeOK, DiskTypes
<1>2. WriterTypes'
    BY DEF EmbedOpens, TypeOK, WriterTypes, WriterSteps
<1> QED
    BY <1>1, <1>2, UnchangedTypes, WriterStep DEF EmbedOpens

LEMMA EmbedType ==
    ASSUME TypeOK, NEW w \in Writers, Embed(w)
    PROVE  TypeOK'
<1>1. tree' \in [Trees -> TreeStates]
    BY PreviousType DEF Embed, TypeOK, DiskTypes, TreeStates
<1>2. WriterTypes'
    BY DEF Embed, TypeOK, WriterTypes, WriterSteps
<1>3. DiskTypes'
    BY <1>1 DEF Embed, TypeOK, DiskTypes
<1> QED
    BY <1>2, <1>3, UnchangedTypes, WriterStep DEF Embed

LEMMA KeepLegacyType ==
    ASSUME TypeOK, NEW w \in Writers, KeepLegacy(w)
    PROVE  TypeOK'
<1>1. DiskTypes'
    BY DEF KeepLegacy, TypeOK, DiskTypes
<1>2. WriterTypes'
    BY DEF KeepLegacy, TypeOK, WriterTypes, WriterSteps
<1> QED
    BY <1>1, <1>2, UnchangedTypes, WriterStep DEF KeepLegacy

(***************************************************************************)
(* A generation that was renamed has a name, and what is being removed is  *)
(* still to be visited.                                                    *)
(***************************************************************************)
Renamed == {"renamed", "embedding", "embedded", "exchanged", "switched"}
NamesAreKnown ==
    /\ \A w \in Writers : pc[w] \in Renamed => made[w] \in Generations
    /\ cpc = "removing" => todo # <<>>

LEMMA SwitchType ==
    ASSUME TypeOK, NamesAreKnown, NEW w \in Writers, Switch(w)
    PROVE  TypeOK'
<1>1. pc[w] \in Renamed
    BY DEF Switch, Renamed
<1>2. made[w] \in Generations
    BY <1>1 DEF NamesAreKnown
<1>3. tree[made[w]].gate \in MaybeGates
    BY <1>2 DEF TypeOK, DiskTypes, Trees, TreeStates
<1>4. DiskTypes'
    BY <1>2 DEF Switch, TypeOK, DiskTypes, Trees
<1>5. HistoryTypes'
    BY <1>3, CreditsType DEF Switch, TypeOK, HistoryTypes
<1>6. WriterTypes'
    BY DEF Switch, TypeOK, WriterTypes, WriterSteps
<1> QED
    BY <1>4, <1>5, <1>6, UnchangedTypes, WriterStep DEF Switch

LEMMA ConcludeType ==
    ASSUME TypeOK, NamesAreKnown, NEW w \in Writers, Conclude(w)
    PROVE  TypeOK'
<1>1. made[w] \in Generations
    BY DEF Conclude, NamesAreKnown, Renamed
<1>2. tree[made[w]].gate \in MaybeGates
    BY <1>1 DEF TypeOK, DiskTypes, Trees, TreeStates
<1>3. DiskTypes'
    BY <1>2 DEF Conclude, TypeOK, DiskTypes
<1>4. HistoryTypes' /\ unsettled' \in [Families -> BOOLEAN]
    BY SettleType DEF Conclude, TypeOK, HistoryTypes, WriterTypes
<1>5. WriterTypes' /\ LockTypes'
    BY <1>4, StopType DEF Conclude, TypeOK, WriterTypes
<1> QED
    BY <1>3, <1>4, <1>5, WriterStep DEF Conclude

LEMMA ReaderType ==
    ASSUME TypeOK, NEW r \in Readers, ReadSnapshot(r)
    PROVE  TypeOK'
<1>1. UNCHANGED notReader
    BY DEF ReadSnapshot, ReaderBegins, ReaderPins, ReaderReads, ReaderEnds
<1>2. ReaderTypes'
    BY DEF ReadSnapshot, ReaderBegins, ReaderPins, ReaderReads, ReaderEnds,
        TypeOK, ReaderTypes, DiskTypes
<1>3. sharers' \subseteq Readers
    BY DEF ReadSnapshot, ReaderBegins, ReaderPins, ReaderReads, ReaderEnds,
        TypeOK, LockTypes, SharersAfterPin
<1> QED
    BY <1>1, <1>2, <1>3, UnchangedTypes
    DEF TypeOK, LockTypes, notReader, boundVars

\* A step of the clean-up, from the types of what it touches.
LEMMA CleanerStep ==
    ASSUME TypeOK, UNCHANGED notCleaner, tree' \in [Trees -> TreeStates],
           order' \in Seq(Generations), abandoned' \in BOOLEAN,
           commit' \in {commit, Cleaner, Free}, CleanerTypes',
           crashes' \in 0..MaxCrashes
    PROVE  TypeOK'
<1>1. DiskTypes' /\ LockTypes'
    BY DEF TypeOK, DiskTypes, LockTypes, notCleaner
<1> QED
    BY <1>1, UnchangedTypes DEF TypeOK, notCleaner

LEMMA HeadOfTodo ==
    ASSUME TypeOK, todo # <<>>
    PROVE  /\ Head(todo) \in Generations /\ Head(todo) \in Trees
           /\ Tail(todo) \in Seq(Generations)
    BY HeadTailProperties DEF TypeOK, CleanerTypes, Trees

LEMMA CleanUpType ==
    ASSUME TypeOK, NamesAreKnown, CleanUp
    PROVE  TypeOK'
<1> USE DEF CleanerTypes
<1>1. CASE CleanBegins
    <2>1. Kept + 1 \in Nat \ {0} /\ Len(order) \in Nat
        BY BoundsAssumption, LenProperties
        DEF Kept, Larger, TypeOK, DiskTypes
    <2>2. Surplus \in Seq(Generations)
        BY <2>1, SubSeqProperties, ElementOfSeq DEF Surplus, TypeOK, DiskTypes
    <2> QED
        BY <1>1, <2>2, CleanerStep DEF CleanBegins, TypeOK, DiskTypes
<1>2. CASE CleanSkips
    BY <1>2, HeadOfTodo, CleanerStep DEF CleanSkips, TypeOK, DiskTypes
<1>3. CASE CleanRaises \/ CleanEnds
    BY <1>3, EmptySeq, CleanerStep
    DEF CleanRaises, CleanEnds, CleanerStops, TypeOK, DiskTypes
<1>4. CASE CleanRemoves
    <2>1. Head(todo) \in Generations /\ Head(todo) \in Trees
        BY <1>4, HeadOfTodo DEF CleanRemoves
    <2>2. tree' \in [Trees -> TreeStates]
        <3>1. PICK pin \in BOOLEAN :
                  tree' = [tree EXCEPT ![Head(todo)] =
                              [@ EXCEPT !.part = "partial", !.pin = pin]]
            BY <1>4 DEF CleanRemoves
        <3>2. [tree[Head(todo)] EXCEPT !.part = "partial", !.pin = pin]
                  \in TreeStates
            BY <2>1 DEF TypeOK, DiskTypes, TreeStates
        <3> QED
            BY <2>1, <3>1, <3>2 DEF TypeOK, DiskTypes
    <2>3. order' \in Seq(Generations)
        BY <1>4, <2>1, WithoutType, ConcatProperties
        DEF CleanRemoves, TypeOK, DiskTypes
    <2> QED
        BY <1>4, <2>2, <2>3, CleanerStep DEF CleanRemoves, TypeOK, DiskTypes
<1>5. CASE CleanRemoved
    <2>1. Head(todo) \in Trees /\ Tail(todo) \in Seq(Generations)
        BY <1>5, HeadOfTodo DEF CleanRemoved, NamesAreKnown
    <2>2. Absent \in TreeStates
        BY ReportTypes DEF Absent, TreeStates, MaybeGates
    <2>3. tree' \in [Trees -> TreeStates]
        BY <1>5, <2>1, <2>2 DEF CleanRemoved, TypeOK, DiskTypes
    <2>4. order' \in Seq(Generations)
        BY <1>5, WithoutType DEF CleanRemoved, TypeOK, DiskTypes
    <2> QED
        BY <1>5, <2>1, <2>3, <2>4, CleanerStep
        DEF CleanRemoved, TypeOK, DiskTypes
<1>6. CASE CrashCleaner
    <2>1. crashes' \in 0..MaxCrashes
        BY <1>6, BoundsAssumption DEF CrashCleaner, TypeOK
    <2> QED
        BY <1>6, <2>1, EmptySeq, CleanerStep
        DEF CrashCleaner, CleanerStops, TypeOK, DiskTypes
<1> QED
    BY <1>1, <1>2, <1>3, <1>4, <1>5, <1>6 DEF CleanUp

LEMMA OperatorType ==
    ASSUME TypeOK, Rollback \/ Activate
    PROVE  TypeOK'
<1>1. CASE Rollback
    <2>1. compat' \in MaybeGates
        BY <1>1, PreviousType DEF Rollback, TypeOK, Trees
    <2>2. DiskTypes'
        BY <1>1, <2>1 DEF Rollback, TypeOK, DiskTypes, Trees
    <2>3. published' \in [Families -> Ids]
        BY <1>1 DEF Rollback, TypeOK, DiskTypes, Trees, TreeStates, Reports
    <2>4. HistoryTypes'
        BY <1>1, <2>1, <2>3, CreditsType DEF Rollback, HistoryTypes
    <2>5. rollbacks' \in 0..MaxRollbacks
        BY <1>1, BoundsAssumption DEF Rollback, TypeOK
    <2> QED
        BY <1>1, <2>2, <2>4, <2>5, UnchangedTypes DEF Rollback, TypeOK
<1>2. CASE Activate
    BY <1>2, UnchangedTypes DEF Activate, TypeOK, boundVars
<1> QED
    BY <1>1, <1>2

LEMMA TypeStep ==
    ASSUME TypeOK, NamesAreKnown, [Next]_vars
    PROVE  TypeOK'
<1>1. ASSUME NEW w \in Writers, Write(w)
      PROVE  TypeOK'
    BY <1>1, BeginType, TakeCommitType, EndType, GenerateType, EmbedOpensType,
        EmbedType, SwitchType, KeepLegacyType, ConcludeType DEF Write
<1>2. ASSUME NEW f \in Families, PublishFamily(f)
      PROVE  TypeOK'
    BY <1>1, <1>2, EndType DEF PublishFamily, Writers
<1>3. ASSUME NEW w \in Gates, RefreshGate(w)
      PROVE  TypeOK'
    BY <1>1, <1>3, EndType, RefreshLegacyType DEF RefreshGate, Writers
<1>4. CASE UNCHANGED vars
    BY <1>4, UnchangedTypes DEF TypeOK, vars, boundVars
<1> QED
    BY <1>2, <1>3, <1>4, ReaderType, CleanUpType, OperatorType DEF Next

-----------------------------------------------------------------------------
(***************************************************************************)
(* The inductive invariant.  Whoever holds the commit lock is alone: no    *)
(* reader resolves the pointer meanwhile.  A renamed generation is         *)
(* finished before the pointer can lead to it, what is being removed is    *)
(* neither current nor pinned, and the legacy tree outlives its name.      *)
(***************************************************************************)
LockIsHeld ==
    /\ \A w \in Writers : pc[w] \in Renamed \cup {"locked"} => commit = w
    /\ cpc # "idle" => commit = Cleaner
    /\ commit # Free => sharers = {}

IsFinished(g) ==
    /\ tree[g].part = "whole" /\ tree[g].pin
    /\ BoundTo(tree[g].gate, tree[g].jobs)

RenamedIsFinished ==
    \A w \in Writers :
        /\ pc[w] \in Renamed => made[w] \in Generations /\ IsFinished(made[w])
        /\ pc[w] = "exchanged" => legacyName # "none"

ReadersAreProtected ==
    \A r \in Readers :
        /\ rpc[r] = "shared" => r \in sharers /\ rpath[r] = latest
        /\ rpc[r] \in {"pinned", "reading"} => rpath[r] \in Trees

RemovalIsSafe ==
    cpc = "removing" =>
        todo # <<>> /\ Head(todo) # latest /\ ~Pinned(Head(todo))

LegacyIsKept == legacyName # "none" => tree[Legacy].part = "whole"

Safety ==
    /\ LockIsHeld /\ RenamedIsFinished /\ ReadersAreProtected
    /\ RemovalIsSafe /\ LegacyIsKept /\ LatestIsComplete /\ PinnedIsIntact

StoreInv == TypeOK /\ Safety

LEMMA InitSafety == Init => Safety
    BY NamesAssumption
    DEF Init, Safety, LockIsHeld, RenamedIsFinished, Renamed,
        ReadersAreProtected, RemovalIsSafe, LegacyIsKept, LatestIsComplete,
        PinnedIsIntact, Trees

LEMMA NamesFollow == StoreInv => NamesAreKnown
    BY DEF StoreInv, Safety, RenamedIsFinished, RemovalIsSafe, NamesAreKnown

(***************************************************************************)
(* The lock.                                                               *)
(***************************************************************************)
LEMMA StopKeepsLock ==
    ASSUME TypeOK, LockIsHeld, NEW w \in Writers, Stop(w), UNCHANGED cpc
    PROVE  /\ LockIsHeld'
           /\ pc'[w] = "idle"
           /\ \A v \in Writers \ {w} : pc'[v] = pc[v] /\ made'[v] = made[v]
<1>1. pc'[w] = "idle"
    BY DEF Stop, TypeOK, WriterTypes
<1>2. \A v \in Writers \ {w} : pc'[v] = pc[v] /\ made'[v] = made[v]
    BY DEF Stop, TypeOK, WriterTypes
<1>3. w # Cleaner /\ w # Free
    BY NamesAssumption DEF Writers
<1>4. sharers' = sharers /\ commit' = IF commit = w THEN Free ELSE commit
    BY DEF Stop, Release
<1> QED
    BY <1>1, <1>2, <1>3, <1>4 DEF LockIsHeld, Renamed

\* A step of the holder, or of a writer that holds nothing before or after.
LEMMA StepKeepsLock ==
    ASSUME TypeOK, LockIsHeld, NEW w \in Writers, NEW p,
           pc' = [pc EXCEPT ![w] = p],
           p \in Renamed \cup {"locked"} => commit = w,
           UNCHANGED <<commit, sharers, cpc>>
    PROVE  LockIsHeld'
    BY DEF TypeOK, WriterTypes, LockIsHeld

LEMMA TakeKeepsLock ==
    ASSUME TypeOK, LockIsHeld, NEW w \in Writers, TakeCommit(w)
    PROVE  LockIsHeld'
<1>1. commit = Free /\ commit' = w /\ sharers' = {} /\ cpc' = cpc
    BY DEF TakeCommit, LockFree, notWriter, cleanerVars
<1>2. \A v \in Writers : pc[v] \notin Renamed \cup {"locked"}
    BY <1>1, NamesAssumption DEF LockIsHeld, Writers
<1>3. cpc = "idle"
    BY <1>1, NamesAssumption DEF LockIsHeld
<1>4. \A v \in Writers : v # w => pc'[v] = pc[v]
    BY DEF TakeCommit, TypeOK, WriterTypes
<1> QED
    BY <1>1, <1>2, <1>3, <1>4 DEF LockIsHeld

(***************************************************************************)
(* A step that changes no tree and no name of one.                         *)
(***************************************************************************)
LEMMA SameTrees ==
    ASSUME Safety, UNCHANGED <<latest, tree, legacyName>>
    PROVE  /\ LegacyIsKept' /\ LatestIsComplete'
           /\ UNCHANGED readerVars => PinnedIsIntact'
           /\ UNCHANGED <<readerVars, cleanerVars>> => RemovalIsSafe'
           /\ UNCHANGED <<readerVars, sharers>> => ReadersAreProtected'
    BY DEF Safety, LegacyIsKept, LatestIsComplete, PinnedIsIntact,
        RemovalIsSafe, ReadersAreProtected, Pinned, readerVars, cleanerVars

LEMMA SameGenerations ==
    ASSUME RenamedIsFinished, UNCHANGED tree,
           legacyName # "none" => legacyName' # "none",
           \A v \in Writers :
               /\ pc'[v] \in Renamed => pc[v] \in Renamed /\ made'[v] = made[v]
               /\ pc'[v] = "exchanged" => pc[v] = "exchanged"
    PROVE  RenamedIsFinished'
    BY DEF RenamedIsFinished, IsFinished

\* A writer that ends: on a busy lock, refused, repeated, judged in the
\* compatibility file, concluded or crashed.
LEMMA StopSafety ==
    ASSUME StoreInv, NEW w \in Writers, Stop(w),
           UNCHANGED <<latest, tree, legacyName, readerVars, cleanerVars>>
    PROVE  Safety'
<1>1. LockIsHeld' /\ pc'[w] = "idle" /\ UNCHANGED sharers
    BY StopKeepsLock DEF StoreInv, Safety, cleanerVars, Stop, Release
<1>2. \A v \in Writers \ {w} : pc'[v] = pc[v] /\ made'[v] = made[v]
    BY StopKeepsLock DEF StoreInv, Safety, cleanerVars
<1>3. RenamedIsFinished'
    BY <1>1, <1>2, SameGenerations DEF StoreInv, Safety, Renamed
<1> QED
    BY <1>1, <1>3, SameTrees DEF StoreInv, Safety

(***************************************************************************)
(* The steps of a writer.                                                  *)
(***************************************************************************)
LEMMA EndSafety ==
    ASSUME StoreInv, NEW w \in Writers,
           \/ CommitBusy(w) \/ LoadFails(w) \/ RefreshMissing(w) \/ CrashWriter(w)
           \/ Conclude(w) \/ Refuse(w) \/ Repeat(w)
           \/ \E failing \in SUBSET Unsteady, aged \in Agings :
                  RefreshLegacy(w, failing, aged)
    PROVE  Safety'
<1>1. Stop(w)
    BY DEF CommitBusy, LoadFails, RefreshMissing, CrashWriter, Conclude, Refuse,
        Repeat, RefreshLegacy
<1>2. UNCHANGED <<latest, tree, legacyName, readerVars, cleanerVars>>
    BY DEF CommitBusy, LoadFails, RefreshMissing, CrashWriter, Conclude, Refuse,
        Repeat, RefreshLegacy, diskVars, notWriter
<1> QED
    BY <1>1, <1>2, StopSafety

LEMMA StartSafety ==
    ASSUME StoreInv, NEW w \in Writers, Begin(w) \/ TakeCommit(w)
    PROVE  Safety'
<1>1. UNCHANGED <<latest, tree, legacyName, readerVars, cleanerVars, sharers>>
    BY DEF Begin, TakeCommit, diskVars, notWriter
<1>2. LockIsHeld'
    <2>1. CASE Begin(w)
        BY <2>1, StepKeepsLock
        DEF Begin, StoreInv, Safety, Renamed, notWriter, cleanerVars
    <2> QED
        BY <2>1, TakeKeepsLock DEF StoreInv, Safety
<1>3. \A v \in Writers :
          /\ pc'[v] \in Renamed => pc[v] \in Renamed /\ made'[v] = made[v]
          /\ pc'[v] = "exchanged" => pc[v] = "exchanged"
    BY DEF Begin, TakeCommit, StoreInv, TypeOK, WriterTypes, Renamed
<1> QED
    BY <1>1, <1>2, <1>3, SameTrees, SameGenerations DEF StoreInv, Safety

\* While a writer holds the lock, nobody else renamed, removes or resolves.
LEMMA Alone ==
    ASSUME StoreInv, NEW w \in Writers, commit = w
    PROVE  /\ \A v \in Writers \ {w} : pc[v] \notin Renamed
           /\ cpc = "idle"
           /\ \A r \in Readers : rpc[r] # "shared"
<1>1. w # Cleaner /\ w # Free
    BY NamesAssumption DEF Writers
<1> QED
    BY <1>1 DEF StoreInv, Safety, LockIsHeld, ReadersAreProtected

LEMMA GenerateSafety ==
    ASSUME StoreInv, NEW w \in Writers, NEW failing, NEW aged \in Agings,
           Generate(w, failing, aged)
    PROVE  Safety'
<1>1. PICK g \in Generations :
          /\ g = NewName /\ tree[g].part = "absent" /\ g # Legacy
          /\ tree'[g].part = "whole" /\ tree'[g].pin
          /\ BoundTo(tree'[g].gate, tree'[g].jobs)
    BY GenerateType, NamesAssumption DEF StoreInv
<1>2. \A t \in Trees : t # g => tree'[t] = tree[t]
    BY <1>1 DEF Generate, StoreInv, TypeOK, DiskTypes
<1>3. commit = w /\ cpc = "idle"
    BY Alone DEF Generate, StoreInv, Safety, LockIsHeld
<1>4. UNCHANGED <<latest, legacyName, commit, sharers, rpc, rpath, cpc>>
    BY DEF Generate, lockVars, notWriter, readerVars, cleanerVars
<1>5. LockIsHeld'
    BY <1>3, <1>4, StepKeepsLock DEF Generate, StoreInv, Safety
<1>6. RenamedIsFinished'
    <2>1. \A v \in Writers \ {w} : pc'[v] \notin Renamed
        BY <1>3, Alone DEF Generate, StoreInv, TypeOK, WriterTypes
    <2>2. made'[w] = g /\ pc'[w] = "renamed"
        BY <1>1 DEF Generate, StoreInv, TypeOK, WriterTypes
    <2> QED
        BY <1>1, <2>1, <2>2 DEF RenamedIsFinished, IsFinished, Renamed
<1>7. ReadersAreProtected' /\ RemovalIsSafe'
    BY <1>3, <1>4 DEF StoreInv, Safety, ReadersAreProtected, RemovalIsSafe
<1>8. LegacyIsKept'
    BY <1>1, <1>2, <1>4 DEF StoreInv, Safety, LegacyIsKept, Trees
<1>9. LatestIsComplete'
    <2>1. latest # None => latest \in Trees /\ latest # g
        BY <1>1 DEF StoreInv, Safety, LatestIsComplete, TypeOK, DiskTypes
    <2> QED
        BY <1>2, <1>4, <2>1 DEF StoreInv, Safety, LatestIsComplete
<1>10. PinnedIsIntact'
    <2>1. \A r \in Readers : rpc[r] \in {"pinned", "reading"} =>
                                 rpath[r] \in Trees /\ rpath[r] # g
        BY <1>1 DEF StoreInv, Safety, ReadersAreProtected, PinnedIsIntact
    <2> QED
        BY <1>2, <1>4, <2>1 DEF StoreInv, Safety, PinnedIsIntact
<1> QED
    BY <1>5, <1>6, <1>7, <1>8, <1>9, <1>10 DEF Safety

LEMMA EmbedOpensSafety ==
    ASSUME StoreInv, NEW w \in Writers, EmbedOpens(w)
    PROVE  Safety'
<1>1. UNCHANGED <<latest, tree, legacyName, readerVars, cleanerVars, sharers>>
    BY DEF EmbedOpens, lockVars, notWriter
<1>2. LockIsHeld'
    BY StepKeepsLock
    DEF EmbedOpens, StoreInv, Safety, LockIsHeld, Renamed, lockVars, notWriter, cleanerVars
<1>3. \A v \in Writers :
          /\ pc'[v] \in Renamed => pc[v] \in Renamed /\ made'[v] = made[v]
          /\ pc'[v] = "exchanged" => pc[v] = "exchanged"
    BY DEF EmbedOpens, StoreInv, TypeOK, WriterTypes, Renamed
<1> QED
    BY <1>1, <1>2, <1>3, SameTrees, SameGenerations DEF StoreInv, Safety

LEMMA EmbedSafety ==
    ASSUME StoreInv, NEW w \in Writers, Embed(w)
    PROVE  Safety'
<1>1. commit = w /\ pc[w] \in Renamed /\ latest = Legacy
    BY DEF Embed, StoreInv, Safety, LockIsHeld, Renamed
<1>2. UNCHANGED <<latest, legacyName, commit, sharers, made, rpc, rpath, cpc>>
    BY DEF Embed, lockVars, notWriter, readerVars, cleanerVars
<1>3. /\ \A t \in Generations : tree'[t] = tree[t]
      /\ \A t \in Trees : tree'[t].part = tree[t].part
    BY NamesAssumption DEF Embed, StoreInv, TypeOK, DiskTypes, TreeStates, Trees
<1>4. LockIsHeld'
    BY <1>1, <1>2, StepKeepsLock DEF Embed, StoreInv, Safety
<1>5. RenamedIsFinished'
    <2>1. \A v \in Writers \ {w} : pc'[v] \notin Renamed
        BY <1>1, Alone DEF Embed, StoreInv, TypeOK, WriterTypes
    <2>2. made[w] \in Generations /\ IsFinished(made[w])
        BY <1>1 DEF StoreInv, Safety, RenamedIsFinished
    <2>3. pc'[w] = "embedded"
        BY DEF Embed, StoreInv, TypeOK, WriterTypes
    <2> QED
        BY <1>2, <1>3, <2>1, <2>2, <2>3
        DEF RenamedIsFinished, IsFinished, Renamed
<1>6. ReadersAreProtected' /\ RemovalIsSafe'
    BY <1>1, <1>2, Alone
    DEF StoreInv, Safety, ReadersAreProtected, RemovalIsSafe
<1>7. LegacyIsKept' /\ LatestIsComplete'
    BY <1>1, <1>2, <1>3, NamesAssumption
    DEF StoreInv, Safety, LegacyIsKept, LatestIsComplete, Trees
<1>8. PinnedIsIntact'
    BY <1>2, <1>3 DEF StoreInv, Safety, PinnedIsIntact, ReadersAreProtected
<1> QED
    BY <1>4, <1>5, <1>6, <1>7, <1>8 DEF Safety

LEMMA SwitchSafety ==
    ASSUME StoreInv, NEW w \in Writers, Switch(w)
    PROVE  Safety'
<1>1. commit = w /\ pc[w] \in Renamed
    BY DEF Switch, StoreInv, Safety, LockIsHeld, Renamed
<1>2. UNCHANGED <<tree, commit, sharers, made, rpc, rpath, cpc>>
    BY DEF Switch, lockVars, notWriter, readerVars, cleanerVars
<1>3. made[w] \in Generations /\ IsFinished(made[w]) /\ latest' = made[w]
    BY <1>1 DEF Switch, StoreInv, Safety, RenamedIsFinished
<1>4. LockIsHeld'
    BY <1>1, <1>2, StepKeepsLock DEF Switch, StoreInv, Safety
<1>5. RenamedIsFinished'
    <2>1. \A v \in Writers \ {w} : pc'[v] \notin Renamed
        BY <1>1, Alone DEF Switch, StoreInv, TypeOK, WriterTypes
    <2>2. pc'[w] = "exchanged" => legacyName' # "none"
        BY DEF Switch, StoreInv, TypeOK, WriterTypes
    <2> QED
        BY <1>2, <1>3, <2>1, <2>2 DEF RenamedIsFinished, IsFinished, Renamed
<1>6. ReadersAreProtected' /\ RemovalIsSafe'
    BY <1>1, <1>2, Alone
    DEF StoreInv, Safety, ReadersAreProtected, RemovalIsSafe
<1>7. LatestIsComplete'
    BY <1>2, <1>3 DEF LatestIsComplete, IsFinished
<1>8. LegacyIsKept'
    BY <1>2, NamesAssumption
    DEF Switch, StoreInv, Safety, LegacyIsKept, LatestIsComplete
<1>9. PinnedIsIntact'
    BY <1>2 DEF StoreInv, Safety, PinnedIsIntact
<1> QED
    BY <1>4, <1>5, <1>6, <1>7, <1>8, <1>9 DEF Safety

LEMMA KeepLegacySafety ==
    ASSUME StoreInv, NEW w \in Writers, KeepLegacy(w)
    PROVE  Safety'
<1>1. commit = w /\ pc[w] \in Renamed
    BY DEF KeepLegacy, StoreInv, Safety, LockIsHeld, Renamed
<1>2. UNCHANGED <<latest, tree, commit, sharers, made, rpc, rpath, cpc>>
    BY DEF KeepLegacy, lockVars, notWriter, readerVars, cleanerVars
<1>3. LockIsHeld'
    BY <1>1, <1>2, StepKeepsLock DEF KeepLegacy, StoreInv, Safety
<1>4. RenamedIsFinished'
    <2>1. pc'[w] = "switched" /\ \A v \in Writers \ {w} : pc'[v] = pc[v]
        BY DEF KeepLegacy, StoreInv, TypeOK, WriterTypes
    <2>2. legacyName' # "none"
        BY DEF KeepLegacy
    <2> QED
        BY <1>1, <1>2, <2>1, <2>2, SameGenerations DEF StoreInv, Safety
<1>5. LegacyIsKept'
    BY <1>2 DEF KeepLegacy, StoreInv, Safety, LegacyIsKept, RenamedIsFinished
<1>6. LatestIsComplete' /\ PinnedIsIntact'
    BY <1>2 DEF StoreInv, Safety, LatestIsComplete, PinnedIsIntact
<1>7. ReadersAreProtected' /\ RemovalIsSafe'
    BY <1>1, <1>2, Alone
    DEF StoreInv, Safety, ReadersAreProtected, RemovalIsSafe
<1> QED
    BY <1>3, <1>4, <1>5, <1>6, <1>7 DEF Safety

(***************************************************************************)
(* The steps of readers, of the clean-up and of the operator.              *)
(***************************************************************************)
LEMMA ReaderSafety ==
    ASSUME StoreInv, NEW r \in Readers, ReadSnapshot(r)
    PROVE  Safety'
<1> USE DEF ReadSnapshot, ReaderBegins, ReaderPins, ReaderReads, ReaderEnds
<1>1. UNCHANGED <<latest, tree, legacyName, commit, pc, made, cpc, todo>>
    BY DEF notReader, diskVars, writerVars, cleanerVars
<1>2. \A q \in Readers \ {r} : /\ rpc'[q] = rpc[q] /\ rpath'[q] = rpath[q]
                               /\ q \in sharers <=> q \in sharers'
    BY DEF SharersAfterPin, StoreInv, TypeOK, ReaderTypes
<1>3. LockIsHeld'
    BY <1>1, NamesAssumption
    DEF StoreInv, Safety, LockIsHeld, SharersAfterPin
<1>4. RenamedIsFinished'
    BY <1>1, SameGenerations DEF StoreInv, Safety
<1>5. LegacyIsKept' /\ LatestIsComplete'
    BY <1>1 DEF StoreInv, Safety, LegacyIsKept, LatestIsComplete
<1>6. /\ rpc'[r] = "shared" => r \in sharers' /\ rpath'[r] = latest
      /\ rpc'[r] \in {"pinned", "reading"} =>
             /\ rpath'[r] = rpath[r] /\ rpath[r] \in Trees
             /\ tree[rpath[r]].part = "whole"
             /\ \/ rpc[r] = "shared" /\ rpath[r] = latest
                \/ rpc[r] \in {"pinned", "reading"}
    <2>1. CASE ReaderBegins(r)
        BY <2>1 DEF StoreInv, TypeOK, ReaderTypes
    <2>2. CASE ReaderPins(r)
        <3>1. rpc'[r] = "pinned" /\ rpath' = rpath /\ rpath[r] # None
            BY <2>2 DEF StoreInv, TypeOK, ReaderTypes
        <3>2. rpc[r] = "shared" /\ rpath[r] = latest
            BY <2>2 DEF StoreInv, Safety, ReadersAreProtected
        <3>3. latest \in Trees /\ tree[latest].part = "whole"
            BY <3>1, <3>2
            DEF StoreInv, Safety, TypeOK, DiskTypes, LatestIsComplete
        <3> QED
            BY <3>1, <3>2, <3>3
    <2>3. CASE ReaderReads(r)
        BY <2>3 DEF StoreInv, Safety, TypeOK, ReaderTypes,
            ReadersAreProtected, PinnedIsIntact
    <2>4. CASE ReaderEnds(r)
        BY <2>4 DEF StoreInv, TypeOK, ReaderTypes
    <2> QED
        BY <2>1, <2>2, <2>3, <2>4
<1> USE DEF StoreInv, Safety
<1>7. ReadersAreProtected'
    BY <1>1, <1>2, <1>6 DEF ReadersAreProtected
<1>8. PinnedIsIntact'
    BY <1>1, <1>2, <1>6 DEF PinnedIsIntact
<1>9. RemovalIsSafe'
    <2>1. SUFFICES ASSUME cpc = "removing" PROVE RemovalIsSafe'
        BY <1>1 DEF RemovalIsSafe
    <2>2. rpc[r] # "shared"
        BY <2>1, NamesAssumption DEF LockIsHeld, ReadersAreProtected
    <2>3. ~Pinned(Head(todo))'
        BY <1>1, <1>2, <1>6, <2>1, <2>2 DEF RemovalIsSafe, Pinned
    <2> QED
        BY <1>1, <2>1, <2>3 DEF RemovalIsSafe
<1> QED
    BY <1>3, <1>4, <1>5, <1>7, <1>8, <1>9

LEMMA CleanUpSafety ==
    ASSUME StoreInv, CleanUp
    PROVE  Safety'
<1> USE DEF CleanUp, CleanBegins, CleanSkips, CleanRaises, CleanRemoves,
            CleanRemoved, CleanEnds, CrashCleaner, CleanerStops
<1>1. UNCHANGED <<latest, legacyName, sharers, pc, made, rpc, rpath>>
    BY DEF notCleaner, writerVars, readerVars
<1>2. LockIsHeld'
    <2>1. commit \in {Free, Cleaner}
        BY DEF StoreInv, Safety, LockIsHeld, LockFree
    <2>2. \A v \in Writers : pc[v] \notin Renamed \cup {"locked"}
        BY <2>1, NamesAssumption DEF StoreInv, Safety, LockIsHeld, Writers
    <2>3. commit' # Free => sharers = {}
        BY NamesAssumption DEF StoreInv, Safety, LockIsHeld, LockFree
    <2>4. cpc' # "idle" => commit' = Cleaner
        BY DEF StoreInv, Safety, LockIsHeld
    <2> QED
        BY <1>1, <2>2, <2>3, <2>4 DEF LockIsHeld
<1>3. \A v \in Writers : pc[v] \notin Renamed
    <2>1. commit \in {Free, Cleaner}
        BY DEF StoreInv, Safety, LockIsHeld, LockFree
    <2> QED
        BY <2>1, NamesAssumption DEF StoreInv, Safety, LockIsHeld, Writers
<1>4. RenamedIsFinished'
    BY <1>1, <1>3 DEF RenamedIsFinished, Renamed
<1>5. ReadersAreProtected'
    BY <1>1 DEF StoreInv, Safety, ReadersAreProtected
<1>6. \A t \in Trees : t = latest \/ t = Legacy \/ Pinned(t) => tree'[t] = tree[t]
    <2>1. CASE UNCHANGED tree
        BY <2>1
    <2>2. CASE CleanRemoves \/ CleanRemoved
        <3>1. todo # <<>> /\ Head(todo) # latest /\ ~Pinned(Head(todo))
            BY <2>2 DEF StoreInv, Safety, RemovalIsSafe, IsCurrent
        <3>2. Head(todo) # Legacy
            BY <3>1, HeadOfTodo, NamesAssumption DEF StoreInv
        <3>3. \A t \in Trees : t # Head(todo) => tree'[t] = tree[t]
            BY <2>2 DEF StoreInv, TypeOK, DiskTypes
        <3> QED
            BY <3>1, <3>2, <3>3
    <2> QED
        BY <2>1, <2>2
<1>7. LatestIsComplete'
    BY <1>1, <1>6 DEF StoreInv, Safety, LatestIsComplete, TypeOK, DiskTypes
<1>8. LegacyIsKept'
    BY <1>1, <1>6 DEF StoreInv, Safety, LegacyIsKept, Trees
<1>9. PinnedIsIntact'
    BY <1>1, <1>6
    DEF StoreInv, Safety, PinnedIsIntact, ReadersAreProtected, Pinned
<1>10. RemovalIsSafe'
    <2>1. CASE CleanRemoves
        BY <1>1, <2>1 DEF RemovalIsSafe, Pinned, IsCurrent, notCleaner
    <2>2. CASE cpc' # "removing"
        BY <2>2 DEF RemovalIsSafe
    <2>3. CASE CleanSkips
        BY <2>3 DEF RemovalIsSafe
    <2> QED
        BY <2>1, <2>2, <2>3
<1> QED
    BY <1>2, <1>4, <1>5, <1>7, <1>8, <1>9, <1>10 DEF Safety

LEMMA OperatorSafety ==
    ASSUME StoreInv, Rollback \/ Activate
    PROVE  Safety'
<1>1. UNCHANGED <<tree, commit, sharers, pc, made, rpc, rpath, cpc, todo>>
    BY DEF Rollback, Activate, diskVars, lockVars, writerVars, readerVars,
        cleanerVars
<1>2. LockIsHeld'
    BY <1>1 DEF StoreInv, Safety, LockIsHeld
<1>3. PinnedIsIntact'
    BY <1>1 DEF StoreInv, Safety, PinnedIsIntact
<1>4. CASE Rollback
    <2>1. sharers = {} /\ cpc = "idle"
        BY <1>4, NamesAssumption
        DEF Rollback, LockFree, StoreInv, Safety, LockIsHeld
    <2>2. latest' = Legacy /\ legacyName # "none" /\ legacyName' # "none"
        BY <1>4 DEF Rollback
    <2>3. RenamedIsFinished'
        BY <1>1, <2>2, SameGenerations DEF StoreInv, Safety
    <2>4. LegacyIsKept' /\ LatestIsComplete'
        BY <1>1, <2>2, NamesAssumption
        DEF StoreInv, Safety, LegacyIsKept, LatestIsComplete
    <2>5. ReadersAreProtected' /\ RemovalIsSafe'
        BY <1>1, <2>1 DEF StoreInv, Safety, ReadersAreProtected, RemovalIsSafe
    <2> QED
        BY <1>2, <1>3, <2>3, <2>4, <2>5 DEF Safety
<1>5. CASE Activate
    <2>1. UNCHANGED <<latest, legacyName, readerVars, cleanerVars>>
        BY <1>5 DEF Activate, diskVars
    <2>2. RenamedIsFinished'
        BY <1>1, <2>1, SameGenerations DEF StoreInv, Safety
    <2> QED
        BY <1>1, <1>2, <1>3, <2>1, <2>2, SameTrees DEF StoreInv, Safety
<1> QED
    BY <1>4, <1>5

LEMMA StepSafety ==
    ASSUME StoreInv, [Next]_vars
    PROVE  Safety'
<1>1. ASSUME NEW w \in Writers, Write(w)
      PROVE  Safety'
    BY <1>1, StartSafety, EndSafety, GenerateSafety, EmbedOpensSafety,
        EmbedSafety, SwitchSafety, KeepLegacySafety DEF Write
<1>2. ASSUME NEW f \in Families, PublishFamily(f)
      PROVE  Safety'
    BY <1>1, <1>2, EndSafety DEF PublishFamily, Writers
<1>3. ASSUME NEW w \in Gates, RefreshGate(w)
      PROVE  Safety'
    BY <1>1, <1>3, EndSafety DEF RefreshGate, Writers
<1>4. CASE UNCHANGED vars
    <2>1. UNCHANGED <<tree, latest, legacyName, pc, made, commit, sharers,
                      cpc, readerVars, cleanerVars>>
        BY <1>4 DEF vars, diskVars, lockVars, writerVars, cleanerVars
    <2>2. LockIsHeld' /\ RenamedIsFinished'
        BY <2>1, SameGenerations DEF StoreInv, Safety, LockIsHeld
    <2> QED
        BY <2>1, <2>2, SameTrees DEF StoreInv, Safety
<1> QED
    BY <1>2, <1>3, <1>4, ReaderSafety, CleanUpSafety, OperatorSafety DEF Next

-----------------------------------------------------------------------------
\* The invariant holds of every behaviour of the store.
THEOREM StoreInvariant == Spec => []StoreInv
<1>1. Init => StoreInv
    BY InitType, InitSafety DEF StoreInv
<1>2. StoreInv /\ [Next]_vars => StoreInv'
    BY TypeStep, NamesFollow, StepSafety DEF StoreInv
<1> QED
    BY <1>1, <1>2, PTL DEF Spec

\* Every variable of the store keeps to its type, whatever the catalogue, the
\* number of readers and the bounds.
THEOREM StoreTypes == Spec => []TypeOK
<1>1. StoreInv => TypeOK
    BY DEF StoreInv
<1> QED
    BY <1>1, StoreInvariant, PTL

\* `latest` leads to a complete tree at every instant: publications, refreshes,
\* clean-ups, rollbacks and crashes of all of them included.
THEOREM LatestAlwaysComplete == Spec => []LatestIsComplete
<1>1. StoreInv => LatestIsComplete
    BY DEF StoreInv, Safety
<1> QED
    BY <1>1, StoreInvariant, PTL

\* No clean-up removes any part of a tree that a reader has pinned.
THEOREM PinsProtect == Spec => []PinnedIsIntact
<1>1. StoreInv => PinnedIsIntact
    BY DEF StoreInv, Safety
<1> QED
    BY <1>1, StoreInvariant, PTL

=============================================================================

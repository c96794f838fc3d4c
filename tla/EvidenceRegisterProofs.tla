----------------------- MODULE EvidenceRegisterProofs -----------------------
(***************************************************************************)
(* The evidence store implements the register of EvidenceRegister, keeps   *)
(* what was published, shows its readers the most recent judgement, and    *)
(* counts no observation twice: for every catalogue, any number of readers *)
(* and writers and every bound.                                            *)
(***************************************************************************)
EXTENDS EvidenceStoreProofs

-----------------------------------------------------------------------------
(* The elements of a sequence, and the confirmations an evaluation counts. *)

LEMMA ElementsOf ==
    ASSUME NEW S, NEW s \in Seq(S)
    PROVE  Elements(s) = {s[i] : i \in 1..Len(s)}
    BY LenProperties DEF Elements

LEMMA LaterElements ==
    ASSUME NEW S, NEW s \in Seq(S), NEW m \in Nat \ {0}
    PROVE  /\ SubSeq(s, m, Len(s)) \in Seq(S)
           /\ Elements(SubSeq(s, m, Len(s))) \subseteq Elements(s)
<1> DEFINE n == Len(s)
           rest == SubSeq(s, m, n)
<1>1. n \in Nat
    BY LenProperties
<1>2. \A i \in m..n : s[i] \in S
    BY <1>1, ElementOfSeq
<1>3. /\ rest \in Seq(S)
      /\ Len(rest) = IF m <= n THEN n - m + 1 ELSE 0
      /\ \A i \in 1..(n - m + 1) : rest[i] = s[m + i - 1]
    BY <1>1, <1>2, SubSeqProperties
<1>4. ASSUME NEW i \in 1..Len(rest)
      PROVE  rest[i] \in {s[j] : j \in 1..n}
    <2>1. i \in 1..(n - m + 1) /\ m + i - 1 \in 1..n
        BY <1>1, <1>3
    <2> QED
        BY <2>1, <1>3
<1> HIDE DEF n, rest
<1>5. Elements(rest) = {rest[i] : i \in 1..Len(rest)} /\ Elements(s) = {s[i] : i \in 1..n}
    BY <1>3, ElementsOf DEF n
<1>6. Elements(rest) \subseteq Elements(s)
    BY <1>4, <1>5
<1> QED
    BY <1>3, <1>6 DEF rest, n

LEMMA AppendElements ==
    ASSUME NEW S, NEW s \in Seq(S), NEW e \in S
    PROVE  Elements(Append(s, e)) \subseteq Elements(s) \cup {e}
<1>1. /\ Append(s, e) \in Seq(S) /\ Len(Append(s, e)) = Len(s) + 1
      /\ \A i \in 1..Len(s) : Append(s, e)[i] = s[i]
      /\ Append(s, e)[Len(s) + 1] = e
    BY AppendProperties
<1>2. Len(s) \in Nat
    BY LenProperties
<1>3. ASSUME NEW i \in 1..(Len(s) + 1)
      PROVE  Append(s, e)[i] \in {s[j] : j \in 1..Len(s)} \cup {e}
    BY <1>1, <1>2
<1>4. Elements(Append(s, e)) = {Append(s, e)[i] : i \in 1..(Len(s) + 1)}
    BY <1>1, ElementsOf
<1>5. Elements(s) = {s[i] : i \in 1..Len(s)}
    BY ElementsOf
<1> QED
    BY <1>3, <1>4, <1>5

LEMMA TailElements ==
    ASSUME NEW S, NEW s \in Seq(S), s # <<>>
    PROVE  Elements(Tail(s)) \subseteq Elements(s)
<1>1. Tail(s) = SubSeq(s, 2, Len(s))
    BY TailIsSubSeq
<1>2. Elements(SubSeq(s, 2, Len(s))) \subseteq Elements(s)
    <2>1. 2 \in Nat \ {0}
        OBVIOUS
    <2> QED
        BY <2>1, LaterElements, Zenon
<1> QED
    BY <1>1, <1>2

\* Each confirmation was one before, or is the new observation.
LEMMA ConfirmationsElements ==
    ASSUME NEW f \in Families, NEW jobs \in Reports, NEW verified,
           NEW previous \in MaybeGates, NEW failing, NEW aged \in Agings,
           NEW id \in Elements(Confirmations(f, jobs, verified, previous, failing, aged))
    PROVE  \/ HasPrior(previous) /\ id \in Elements(previous.observations[f])
           \/ id = jobs[f] /\ IsNew(f, jobs, verified, previous)
<1> DEFINE old == IF HasPrior(previous) THEN previous.observations[f] ELSE <<>>
           eligible == SubSeq(old, aged[f] + 1, Len(old))
           longer == Append(eligible, jobs[f])
<1>0. Confirmations(f, jobs, verified, previous, failing, aged) =
          IF f \in failing \/ jobs[f] = 0 THEN <<>>
          ELSE IF ~IsNew(f, jobs, verified, previous) THEN eligible
          ELSE IF Len(longer) > REQUIRED THEN Tail(longer)
          ELSE longer
    BY DEF Confirmations
<1>1. old \in Seq(Ids) /\ jobs[f] \in Ids /\ aged[f] + 1 \in Nat \ {0}
    BY EmptyObservations
    DEF HasPrior, MaybeGates, GateStates, Observations, Reports, Agings, REQUIRED
<1> HIDE DEF old
<1>2. eligible \in Seq(Ids) /\ Elements(eligible) \subseteq Elements(old)
    BY <1>1, LaterElements, Zenon
<1> HIDE DEF eligible
<1>3. longer \in Seq(Ids) /\ longer # <<>>
    BY <1>1, <1>2, AppendProperties
<1>4. Elements(longer) \subseteq Elements(old) \cup {jobs[f]}
    <2>1. Elements(longer) \subseteq Elements(eligible) \cup {jobs[f]}
        BY <1>1, <1>2, AppendElements, Zenon
    <2> QED
        BY <2>1, <1>2
<1> HIDE DEF longer
<1>5. Elements(Tail(longer)) \subseteq Elements(old) \cup {jobs[f]}
    BY <1>3, <1>4, TailElements
<1>6. Elements(<<>>) = {}
    BY DEF Elements
<1>7. Elements(old) = IF HasPrior(previous) THEN Elements(previous.observations[f])
                      ELSE {}
    BY <1>6 DEF old
<1>8. id \in Elements(old) \/ (id = jobs[f] /\ IsNew(f, jobs, verified, previous))
    <2> DEFINE now == Confirmations(f, jobs, verified, previous, failing, aged)
    <2>1. \/ now \in {<<>>, eligible}
          \/ IsNew(f, jobs, verified, previous) /\ now \in {longer, Tail(longer)}
        BY <1>0
    <2>0. id \in Elements(now)
        OBVIOUS
    <2> HIDE DEF now
    <2>2. CASE now \in {<<>>, eligible}
        <3>1. Elements(now) \subseteq Elements(old)
            BY <2>2, <1>2, <1>6
        <3> QED
            BY <2>0, <3>1
    <2>3. CASE IsNew(f, jobs, verified, previous) /\ now \in {longer, Tail(longer)}
        <3>1. Elements(now) \subseteq Elements(old) \cup {jobs[f]}
            BY <2>3, <1>4, <1>5
        <3> QED
            BY <2>0, <2>3, <3>1
    <2> QED
        BY <2>1, <2>2, <2>3
<1> QED
    BY <1>7, <1>8


-----------------------------------------------------------------------------
(***************************************************************************)
(* The inductive invariant.  What a reader holds is a finished tree, or    *)
(* the legacy tree with the lock that keeps writers away from it.  A       *)
(* renamed generation carries everything latest shows, and the newer       *)
(* evidence of its own family.  The gate of latest is the last evaluation, *)
(* and its watermarks cover every observation that was ever counted, also  *)
(* in the gate that is about to replace it.                                *)
(***************************************************************************)
HeldIsBound ==
    \A r \in Readers :
        rpc[r] # "idle" =>
            /\ rpath[r] \in Generations =>
                   tree[rpath[r]].part = "whole" /\ tree[rpath[r]].gate # NoGate
            /\ rpath[r] = Legacy => r \in sharers

LegacyIsLegacy ==
    /\ latest = Legacy => legacyName # "none"
    /\ legacyName # "none" => tree[Legacy].jobs = LegacyJobs

WantCovers ==
    \A f \in Families :
        /\ want[f] >= PreviousJobs[f]
        /\ legacyName # "none" => want[f] >= 1

Unswitched == {"renamed", "embedding", "embedded"}
RenamedFollows ==
    \A w \in Writers :
        /\ pc[w] \in Unswitched =>
               IF w \in Families
               THEN tree[made[w]].jobs = Merged(w) /\ want[w] > PreviousJobs[w]
               ELSE latest # None /\ tree[made[w]].jobs = PreviousJobs
        /\ pc[w] \in {"exchanged", "switched"} => latest = made[w]
        /\ pc[w] \in Renamed /\ w \in Families => tree[made[w]].jobs[w] = want[w]

EnabledFirst ==
    \A w \in Writers :
        \/ enabled
        \/ w \notin Families /\ ~(pc[w] \in Unswitched /\ latest = Legacy)
        \/ pc[w] = "idle"

JudgedLast ==
    /\ latest \in Generations => tree[latest].gate = evaluated
    /\ rollbacks = 0 /\ latest = Legacy =>
           /\ compat = evaluated
           /\ tree[Legacy].gate \in {NoGate, evaluated}
           /\ tree[Legacy].gate # NoGate => enabled

Marks(gate, credits) == \A c \in credits : c[2] <= gate.watermark[c[1]]

CountedBelow ==
    /\ Credits(evaluated) \subseteq counted
    /\ latest \in Generations => tree[latest].gate.current
    /\ rollbacks = 0 /\ counted # {} =>
           HasPrior(PreviousGate) /\ Marks(PreviousGate, counted)

CountsOnce(gate) ==
    /\ Marks(gate, counted \cup Credits(gate))
    /\ Credits(gate) \cap counted \subseteq Credits(evaluated)

RenamedCounts ==
    \A w \in Writers :
        pc[w] \in Unswitched =>
            /\ tree[made[w]].gate.current
            /\ rollbacks = 0 => CountsOnce(tree[made[w]].gate)

RegisterInv ==
    /\ HeldIsBound /\ LegacyIsLegacy /\ WantCovers /\ RenamedFollows
    /\ EnabledFirst /\ JudgedLast /\ CountedBelow /\ RenamedCounts
    /\ PublishedIsKept

-----------------------------------------------------------------------------
(* Evaluations.                                                            *)

\* What a new evaluation builds on is the last evaluation, or nothing.
LEMMA PreviousIsEvaluated ==
    ASSUME StoreInv, JudgedLast, rollbacks = 0
    PROVE  PreviousGate \in {NoGate, evaluated}
<1>1. CASE latest \in Generations
    BY <1>1 DEF PreviousGate, GateOf, StoreInv, Safety, LatestIsComplete,
        BoundTo, JudgedLast
<1>2. CASE latest = Legacy
    BY <1>2 DEF PreviousGate, GateOf, JudgedLast
<1>3. CASE latest = None
    BY <1>3 DEF PreviousGate
<1> QED
    BY <1>1, <1>2, <1>3 DEF StoreInv, TypeOK, DiskTypes, Trees

\* The watermarks of a new gate cover what was counted and what it counts, and
\* it counts nothing again that the previous gate had lost.
LEMMA EvaluateCounts ==
    ASSUME StoreInv, RegisterInv, rollbacks = 0,
           NEW jobs \in Reports, NEW verified, NEW failing, NEW aged \in Agings
    PROVE  CountsOnce(Evaluate(jobs, verified, PreviousGate, failing, aged))
<1> DEFINE previous == PreviousGate
           gate == Evaluate(jobs, verified, previous, failing, aged)
<1>1. previous \in MaybeGates
    BY PreviousType DEF StoreInv, TypeOK
<1>2. previous \in {NoGate, evaluated}
    BY PreviousIsEvaluated DEF RegisterInv
<1>3. /\ Credits(previous) \subseteq Credits(evaluated)
      /\ Credits(evaluated) \subseteq counted
    BY <1>2 DEF Credits, RegisterInv, CountedBelow
<1>4. counted \subseteq Families \X Ids
    BY DEF StoreInv, TypeOK, HistoryTypes
<1>5. counted # {} => HasPrior(previous) /\ Marks(previous, counted)
    BY DEF RegisterInv, CountedBelow
<1> HIDE DEF previous, gate
<1>11. gate \in GateStates
    BY <1>1, EvaluateType DEF gate
<1>12. \A f \in Families :
          /\ gate.observations[f] =
                 Confirmations(f, jobs, verified, previous, failing, aged)
          /\ gate.watermark[f] = IF HasPrior(previous)
                                 THEN Larger(previous.watermark[f], jobs[f])
                                 ELSE jobs[f]
    BY DEF Evaluate, gate
<1>13. \A f \in Families : jobs[f] \in Nat
    BY BoundsAssumption DEF Reports, Ids
<1>14. HasPrior(previous) =>
          /\ previous \in GateStates
          /\ \A f \in Families : previous.watermark[f] \in Nat
    BY <1>1, BoundsAssumption DEF HasPrior, MaybeGates, GateStates, Reports, Ids
<1>15. \A f \in Families :
          /\ jobs[f] <= gate.watermark[f] /\ gate.watermark[f] \in Nat
          /\ HasPrior(previous) => previous.watermark[f] <= gate.watermark[f]
    BY <1>12, <1>13, <1>14 DEF Larger
<1>16. ASSUME NEW c \in counted
      PROVE  /\ HasPrior(previous) /\ c[2] <= previous.watermark[c[1]]
             /\ c[2] <= gate.watermark[c[1]]
             /\ c[1] \in Families /\ c[2] \in Nat
    <2>1. c[1] \in Families /\ c[2] \in Nat
        BY <1>4, BoundsAssumption DEF Ids
    <2>2. HasPrior(previous) /\ c[2] <= previous.watermark[c[1]]
        BY <1>5 DEF Marks
    <2> QED
        BY <2>1, <2>2, <1>14, <1>15
<1>17. ASSUME NEW c \in Credits(gate)
      PROVE  \/ c \in Credits(previous)
             \/ c \notin counted /\ c[2] <= gate.watermark[c[1]]
    <2>1. c \in Families \X Ids /\ c[2] \in Elements(gate.observations[c[1]])
        BY <1>11, NoGateAssumption DEF Credits
    <2>2. c[1] \in Families
        BY <2>1
    <2>3. \/ HasPrior(previous) /\ c[2] \in Elements(previous.observations[c[1]])
          \/ c[2] = jobs[c[1]] /\ IsNew(c[1], jobs, verified, previous)
        <3>1. c[2] \in Elements(Confirmations(c[1], jobs, verified, previous,
                                              failing, aged))
            BY <1>12, <2>1, <2>2
        <3> QED
            BY <1>1, <2>2, <3>1, ConfirmationsElements, Zenon
    <2>4. CASE HasPrior(previous) /\ c[2] \in Elements(previous.observations[c[1]])
        <3>1. previous # NoGate
            BY <2>4 DEF HasPrior
        <3> QED
            BY <2>1, <2>4, <3>1 DEF Credits
    <2>5. CASE c[2] = jobs[c[1]] /\ IsNew(c[1], jobs, verified, previous)
        <3>1. c[2] <= gate.watermark[c[1]]
            BY <2>2, <2>5, <1>15
        <3>2. c \notin counted
            <4>1. SUFFICES ASSUME c \in counted PROVE FALSE
                OBVIOUS
            <4>2. HasPrior(previous) /\ jobs[c[1]] <= previous.watermark[c[1]]
                BY <4>1, <1>16, <2>5
            <4>3. jobs[c[1]] > previous.watermark[c[1]]
                BY <4>2, <2>5 DEF IsNew
            <4> QED
                BY <4>2, <4>3, <1>13, <1>14, <2>2
        <3> QED
            BY <3>1, <3>2
    <2> QED
        BY <2>3, <2>4, <2>5
<1>18. Marks(gate, counted \cup Credits(gate))
    BY <1>16, <1>17, <1>3 DEF Marks
<1>19. Credits(gate) \cap counted \subseteq Credits(evaluated)
    BY <1>17, <1>3
<1>20. CountsOnce(gate)
    BY <1>18, <1>19 DEF CountsOnce
<1> QED
    BY <1>20 DEF gate, previous

-----------------------------------------------------------------------------
(* The invariant holds at first.                                           *)

LEMMA InitRegisterInv == Init => RegisterInv
<1> SUFFICES ASSUME Init PROVE RegisterInv
    OBVIOUS
<1> USE NamesAssumption
<1>1. /\ \A r \in Readers : rpc[r] = "idle"
      /\ \A w \in Writers : pc[w] = "idle"
      /\ latest \notin Generations
    BY DEF Init
<1>2. HeldIsBound /\ RenamedFollows /\ EnabledFirst /\ RenamedCounts
    BY <1>1 DEF HeldIsBound, RenamedFollows, EnabledFirst, RenamedCounts,
        Unswitched, Renamed
<1>3. latest = Legacy =>
          tree[Legacy].jobs = LegacyJobs /\ tree[Legacy].gate = NoGate
    BY DEF Init, Trees, Absent
<1>4. LegacyIsLegacy /\ JudgedLast
    BY <1>1, <1>3 DEF Init, LegacyIsLegacy, JudgedLast
<1>5. PreviousJobs \in [Families -> Ids] /\ \A f \in Families : PreviousJobs[f] \in Nat
    BY InitType, PreviousType, BoundsAssumption DEF TypeOK, Reports, Ids
<1>6. WantCovers /\ PublishedIsKept
    <2>1. legacyName # "none" => PreviousJobs = LegacyJobs
        BY <1>3 DEF Init, PreviousJobs
    <2>2. \A f \in Families : legacyName # "none" => PreviousJobs[f] = 1
        BY <2>1 DEF LegacyJobs
    <2>3. \A f \in Families : PreviousJobs[f] >= PreviousJobs[f]
        BY <1>5
    <2> QED
        BY <2>2, <2>3 DEF Init, WantCovers, PublishedIsKept
<1>7. CountedBelow
    <2>1. Credits(compat) = {}
        <3>1. ASSUME NEW jobs PROVE Credits(OldPolicyGate(jobs)) = {}
            BY DEF Credits, OldPolicyGate, Elements
        <3> QED
            BY <3>1 DEF Init, Credits
    <2> QED
        BY <1>1, <2>1 DEF Init, CountedBelow
<1> QED
    BY <1>2, <1>4, <1>6, <1>7 DEF RegisterInv

-----------------------------------------------------------------------------
(***************************************************************************)
(* The steps that neither publish nor judge: they leave what latest leads  *)
(* to, the legacy tree and every renamed generation as they are.           *)
(***************************************************************************)
LEMMA SamePrevious ==
    ASSUME TypeOK, UNCHANGED <<latest, compat>>,
           latest # None => tree'[latest] = tree[latest]
    PROVE  UNCHANGED <<PreviousJobs, PreviousGate>>
    BY DEF PreviousJobs, PreviousGate, GateOf

LEMMA QuietStep ==
    ASSUME StoreInv, RegisterInv,
           UNCHANGED <<latest, legacyName, compat, counted, evaluated, rollbacks>>,
           latest # None => tree'[latest] = tree[latest],
           tree'[Legacy] = tree[Legacy],
           enabled => enabled',
           want' \in [Families -> Ids],
           \A f \in Families : want'[f] >= want[f],
           \A v \in Writers : pc'[v] \in Renamed =>
               /\ pc'[v] = pc[v] /\ made'[v] = made[v]
               /\ tree'[made[v]] = tree[made[v]]
               /\ v \in Families => want'[v] = want[v],
           \A v \in Writers :
               pc'[v] \in {pc[v], "idle"} \/ enabled' \/ v \notin Families
    PROVE  /\ LegacyIsLegacy' /\ WantCovers' /\ RenamedFollows' /\ EnabledFirst'
           /\ JudgedLast' /\ CountedBelow' /\ RenamedCounts'
           /\ UNCHANGED <<PreviousJobs, PreviousGate>>
<1> USE DEF RegisterInv
<1>1. UNCHANGED <<PreviousJobs, PreviousGate>>
    BY SamePrevious DEF StoreInv
<1>2. LegacyIsLegacy' /\ JudgedLast'
    BY NamesAssumption DEF LegacyIsLegacy, JudgedLast
<1>3. WantCovers'
    <2>1. \A f \in Families :
              want[f] \in Nat /\ want'[f] \in Nat /\ PreviousJobs[f] \in Nat
        BY PreviousType, BoundsAssumption
        DEF StoreInv, TypeOK, WriterTypes, Reports, Ids
    <2> QED
        BY <1>1, <2>1 DEF WantCovers
<1>4. RenamedFollows'
    <2>1. ASSUME NEW v \in Writers, pc'[v] \in Renamed
          PROVE  /\ pc'[v] = pc[v] /\ made'[v] = made[v]
                 /\ tree'[made'[v]] = tree[made[v]]
                 /\ v \in Families => want'[v] = want[v] /\ Merged(v)' = Merged(v)
        BY <1>1, <2>1 DEF Merged
    <2> QED
        BY <1>1, <2>1 DEF RenamedFollows, Unswitched, Renamed
<1>5. EnabledFirst'
    BY DEF EnabledFirst, Unswitched, Renamed
<1>6. CountedBelow'
    BY <1>1, NamesAssumption DEF CountedBelow
<1>7. RenamedCounts'
    BY DEF RenamedCounts, CountsOnce, Unswitched, Renamed
<1> QED
    BY <1>1, <1>2, <1>3, <1>4, <1>5, <1>6, <1>7

LEMMA SameHeld ==
    ASSUME HeldIsBound, UNCHANGED <<sharers, readerVars>>,
           \A r \in Readers : rpc[r] # "idle" /\ rpath[r] \in Generations =>
                                  tree'[rpath[r]] = tree[rpath[r]]
    PROVE  HeldIsBound'
    BY DEF HeldIsBound, readerVars

LEMMA SamePublished ==
    ASSUME PublishedIsKept, UNCHANGED <<published, PreviousJobs>>
    PROVE  PublishedIsKept'
    BY DEF PublishedIsKept

\* A writer starts, takes the lock, or ends without a new generation.
LEMMA QuietWriter ==
    ASSUME StoreInv, RegisterInv, NEW w \in Writers,
           \/ Begin(w) \/ TakeCommit(w) \/ CommitBusy(w) \/ LoadFails(w)
           \/ RefreshMissing(w) \/ CrashWriter(w)
           \/ w \in Families /\ (Refuse(w) \/ Repeat(w))
    PROVE  RegisterInv'
<1> USE DEF Begin, TakeCommit, CommitBusy, LoadFails, RefreshMissing, CrashWriter,
            Refuse, Repeat
<1>1. UNCHANGED <<latest, legacyName, compat, tree, counted, evaluated,
                  rollbacks, enabled, sharers, readerVars>>
    BY DEF diskVars, historyVars, notWriter, boundVars, Stop, Release
<1>2. /\ want' \in [Families -> Ids]
      /\ \A f \in Families : want[f] \in Nat /\ want'[f] >= want[f]
      /\ \A f \in Families : f # w => want'[f] = want[f]
    <2>1. \A f \in Families : want[f] \in Nat
        BY BoundsAssumption DEF StoreInv, TypeOK, WriterTypes, Ids
    <2>2. CASE UNCHANGED want
        BY <2>1, <2>2 DEF StoreInv, TypeOK, WriterTypes
    <2>3. CASE w \in Families /\ want[w] < MaxId /\ want' = [want EXCEPT ![w] = @ + 1]
        <3>1. want[w] + 1 \in Ids
            BY <2>3, BoundsAssumption DEF StoreInv, TypeOK, WriterTypes, Ids
        <3> QED
            BY <2>1, <2>3, <3>1 DEF StoreInv, TypeOK, WriterTypes
    <2> QED
        BY <2>2, <2>3
<1>3. /\ pc'[w] \in {"idle", "staging", "locked"}
      /\ \A v \in Writers : v # w => pc'[v] = pc[v] /\ made'[v] = made[v]
    BY DEF StoreInv, TypeOK, WriterTypes, Stop
<1>4. pc'[w] # "idle" /\ w \in Families => enabled'
    BY <1>1, <1>3
    DEF RegisterInv, EnabledFirst, notWriter, Stop, StoreInv, TypeOK, WriterTypes
<1>5. /\ LegacyIsLegacy' /\ WantCovers' /\ RenamedFollows' /\ EnabledFirst'
      /\ JudgedLast' /\ CountedBelow' /\ RenamedCounts'
      /\ UNCHANGED <<PreviousJobs, PreviousGate>>
    <2>1. \A v \in Writers : pc'[v] \in Renamed =>
              /\ pc'[v] = pc[v] /\ made'[v] = made[v]
              /\ tree'[made[v]] = tree[made[v]]
              /\ v \in Families => want'[v] = want[v]
        BY <1>1, <1>2, <1>3 DEF Renamed
    <2>2. \A v \in Writers :
              pc'[v] \in {pc[v], "idle"} \/ enabled' \/ v \notin Families
        BY <1>3, <1>4
    <2> QED
        BY <1>1, <1>2, <2>1, <2>2, QuietStep
<1>6. HeldIsBound'
    BY <1>1, SameHeld DEF RegisterInv
<1>7. PublishedIsKept'
    <2>1. CASE UNCHANGED published
        BY <1>5, <2>1, SamePublished DEF RegisterInv
    <2>2. CASE w \in Families /\ Repeat(w)
        <3>1. PreviousJobs[w] = want[w] /\ published' = [published EXCEPT ![w] = want[w]]
            BY <2>2 DEF IsDuplicate, Settle
        <3>2. \A f \in Families : PreviousJobs[f] >= published'[f]
            BY <1>2, <2>2, <3>1
            DEF RegisterInv, PublishedIsKept, StoreInv, TypeOK, HistoryTypes
        <3> QED
            BY <1>5, <3>2 DEF PublishedIsKept
    <2> QED
        BY <2>1, <2>2 DEF historyVars
<1> QED
    BY <1>5, <1>6, <1>7 DEF RegisterInv

\* The operator activates recovery while no writer runs.
LEMMA ActivateRegister ==
    ASSUME StoreInv, RegisterInv, Activate
    PROVE  RegisterInv'
<1>1. UNCHANGED <<latest, legacyName, compat, tree, counted, evaluated,
                  rollbacks, sharers, readerVars, pc, made, want, published>>
    BY DEF Activate, diskVars, lockVars, historyVars, boundVars, writerVars
<1>2. enabled' /\ \A v \in Writers : pc[v] = "idle"
    BY DEF Activate
<1>3. want' \in [Families -> Ids] /\ \A f \in Families : want'[f] >= want[f]
    BY <1>1, BoundsAssumption DEF StoreInv, TypeOK, WriterTypes, Ids
<1>4. /\ LegacyIsLegacy' /\ WantCovers' /\ RenamedFollows' /\ EnabledFirst'
      /\ JudgedLast' /\ CountedBelow' /\ RenamedCounts'
      /\ UNCHANGED <<PreviousJobs, PreviousGate>>
    BY <1>1, <1>2, <1>3, QuietStep DEF Renamed
<1> QED
    BY <1>1, <1>4, SameHeld, SamePublished DEF RegisterInv

\* Readers hold a finished tree, or the legacy tree with its lock.
LEMMA ReaderRegister ==
    ASSUME StoreInv, RegisterInv, NEW r \in Readers, ReadSnapshot(r)
    PROVE  RegisterInv'
<1> USE DEF ReadSnapshot, ReaderBegins, ReaderPins, ReaderReads, ReaderEnds
<1>1. UNCHANGED <<latest, legacyName, compat, tree, counted, evaluated,
                  rollbacks, enabled, pc, made, want, published>>
    BY DEF notReader, diskVars, historyVars, boundVars, writerVars
<1>2. want' \in [Families -> Ids] /\ \A f \in Families : want'[f] >= want[f]
    BY <1>1, BoundsAssumption DEF StoreInv, TypeOK, WriterTypes, Ids
<1>3. /\ LegacyIsLegacy' /\ WantCovers' /\ RenamedFollows' /\ EnabledFirst'
      /\ JudgedLast' /\ CountedBelow' /\ RenamedCounts'
      /\ UNCHANGED <<PreviousJobs, PreviousGate>>
    BY <1>1, <1>2, QuietStep
<1>4. HeldIsBound'
    <2>1. \A q \in Readers \ {r} : /\ rpc'[q] = rpc[q] /\ rpath'[q] = rpath[q]
                                   /\ q \in sharers <=> q \in sharers'
        BY DEF SharersAfterPin, StoreInv, TypeOK, ReaderTypes
    <2>2. latest \in Generations =>
              tree[latest].part = "whole" /\ tree[latest].gate # NoGate
        BY NamesAssumption DEF StoreInv, Safety, LatestIsComplete, BoundTo
    <2>3. CASE ReaderBegins(r)
        <3>1. rpath'[r] = latest /\ r \in sharers'
            BY <2>3 DEF StoreInv, TypeOK, ReaderTypes
        <3> QED
            BY <1>1, <2>1, <2>2, <3>1 DEF RegisterInv, HeldIsBound
    <2>4. CASE ReaderPins(r)
        <3>1. /\ rpath'[r] = rpath[r] /\ rpc[r] = "shared"
              /\ rpath[r] = Legacy => sharers' = sharers
            BY <2>4 DEF SharersAfterPin
        <3> QED
            BY <1>1, <2>1, <3>1 DEF RegisterInv, HeldIsBound
    <2>5. CASE ReaderReads(r)
        BY <1>1, <2>1, <2>5 DEF RegisterInv, HeldIsBound
    <2>6. CASE ReaderEnds(r)
        <3>1. rpc'[r] = "idle"
            BY <2>6 DEF StoreInv, TypeOK, ReaderTypes
        <3> QED
            BY <1>1, <2>1, <3>1 DEF RegisterInv, HeldIsBound
    <2> QED
        BY <2>3, <2>4, <2>5, <2>6
<1> QED
    BY <1>1, <1>3, <1>4, SamePublished DEF RegisterInv

\* The clean-up removes nothing that latest leads to or that a reader holds.
LEMMA CleanUpKeeps ==
    ASSUME StoreInv, CleanUp
    PROVE  /\ \A t \in Trees : t = latest \/ t = Legacy \/ Pinned(t) =>
                                   tree'[t] = tree[t]
           /\ \A v \in Writers : pc[v] \notin Renamed
           /\ tree' # tree => sharers = {}
<1> USE DEF CleanUp, CleanBegins, CleanSkips, CleanRaises, CleanRemoves,
            CleanRemoved, CleanEnds, CrashCleaner, CleanerStops
<1>1. commit \in {Free, Cleaner}
    BY DEF StoreInv, Safety, LockIsHeld, LockFree
<1>2. \A v \in Writers : pc[v] \notin Renamed
    BY <1>1, NamesAssumption DEF StoreInv, Safety, LockIsHeld, Writers
<1>3. CASE UNCHANGED tree
    BY <1>2, <1>3
<1>4. CASE CleanRemoves \/ CleanRemoved
    <2>1. todo # <<>> /\ Head(todo) # latest /\ ~Pinned(Head(todo))
        BY <1>4 DEF StoreInv, Safety, RemovalIsSafe, IsCurrent
    <2>2. Head(todo) # Legacy
        BY <2>1, HeadOfTodo, NamesAssumption DEF StoreInv
    <2>3. \A t \in Trees : t # Head(todo) => tree'[t] = tree[t]
        BY <1>4 DEF StoreInv, TypeOK, DiskTypes
    <2>4. sharers = {}
        BY <1>4, NamesAssumption DEF StoreInv, Safety, LockIsHeld
    <2> QED
        BY <1>2, <2>1, <2>2, <2>3, <2>4
<1> QED
    BY <1>3, <1>4

LEMMA CleanUpKeepsHeld ==
    ASSUME StoreInv, CleanUp, NEW r \in Readers,
           rpc[r] # "idle", rpath[r] \in Generations
    PROVE  tree'[rpath[r]] = tree[rpath[r]]
<1>1. CASE tree' = tree
    BY <1>1
<1>2. CASE tree' # tree
    <2>1. rpc[r] # "shared"
        BY <1>2, CleanUpKeeps DEF StoreInv, Safety, ReadersAreProtected
    <2>2. Pinned(rpath[r]) /\ rpath[r] \in Trees
        BY <2>1 DEF Pinned, StoreInv, TypeOK, ReaderTypes, Trees
    <2> QED
        BY <2>2, CleanUpKeeps
<1> QED
    BY <1>1, <1>2

LEMMA CleanUpRegister ==
    ASSUME StoreInv, RegisterInv, CleanUp
    PROVE  RegisterInv'
<1>1. UNCHANGED <<latest, legacyName, compat, sharers, counted, evaluated,
                  rollbacks, enabled, pc, made, want, published, readerVars>>
    BY DEF CleanUp, CleanBegins, CleanSkips, CleanRaises, CleanRemoves,
        CleanRemoved, CleanEnds, CrashCleaner, notCleaner, writerVars, historyVars
<1>2. want' \in [Families -> Ids] /\ \A f \in Families : want'[f] >= want[f]
    BY <1>1, BoundsAssumption DEF StoreInv, TypeOK, WriterTypes, Ids
<1>3. /\ latest # None => tree'[latest] = tree[latest]
      /\ tree'[Legacy] = tree[Legacy]
    BY CleanUpKeeps DEF StoreInv, TypeOK, DiskTypes, Trees
<1>4. \A v \in Writers : pc'[v] \notin Renamed
    BY <1>1, CleanUpKeeps
<1>5. /\ LegacyIsLegacy' /\ WantCovers' /\ RenamedFollows' /\ EnabledFirst'
      /\ JudgedLast' /\ CountedBelow' /\ RenamedCounts'
      /\ UNCHANGED <<PreviousJobs, PreviousGate>>
    BY <1>1, <1>2, <1>3, <1>4, QuietStep
<1>6. HeldIsBound'
    BY <1>1, CleanUpKeepsHeld, SameHeld DEF RegisterInv
<1> QED
    BY <1>1, <1>5, <1>6, SamePublished DEF RegisterInv

-----------------------------------------------------------------------------
(***************************************************************************)
(* The steps that publish or judge.                                        *)
(***************************************************************************)
LEMMA RegisterNumbers ==
    ASSUME StoreInv
    PROVE  \A f \in Families :
               want[f] \in Nat /\ PreviousJobs[f] \in Nat /\ published[f] \in Nat
    BY PreviousType, BoundsAssumption
    DEF StoreInv, TypeOK, WriterTypes, HistoryTypes, Reports, Ids

LEMMA GenerateRegister ==
    ASSUME StoreInv, RegisterInv, NEW w \in Writers, NEW failing,
           NEW aged \in Agings, Generate(w, failing, aged)
    PROVE  RegisterInv'
<1> DEFINE g == NewName
           jobs == IF w \in Families THEN Merged(w) ELSE PreviousJobs
           verified == IF w \in Families THEN {w} ELSE tree[latest].verified
           gate == Evaluate(jobs, verified, PreviousGate, failing, aged)
<1>1. g \in Generations /\ tree[g].part = "absent" /\ g # Legacy
    BY GenerateType, NamesAssumption DEF StoreInv
<1>2. /\ \A t \in Trees : t # g => tree'[t] = tree[t]
      /\ tree'[g].jobs = jobs /\ tree'[g].gate = gate
    BY <1>1 DEF Generate, StoreInv, TypeOK, DiskTypes, Trees
<1> HIDE DEF g, verified, gate
<1>3. UNCHANGED <<latest, legacyName, compat, sharers, counted, evaluated,
                  rollbacks, enabled, want, published, readerVars>>
    BY DEF Generate, lockVars, historyVars, notWriter, boundVars
<1>4. commit = w
    BY DEF Generate, StoreInv, Safety, LockIsHeld
<1>5. /\ pc[w] = "locked" /\ pc'[w] = "renamed" /\ made'[w] = g
      /\ \A v \in Writers : v # w => pc'[v] = pc[v] /\ pc'[v] \notin Renamed
    BY <1>4, Alone DEF Generate, StoreInv, TypeOK, WriterTypes, g
<1>6. /\ latest # None => latest \in Trees /\ latest # g
      /\ \A r \in Readers : rpc[r] # "idle" /\ rpath[r] \in Generations => rpath[r] # g
    BY <1>1 DEF StoreInv, Safety, LatestIsComplete, TypeOK, DiskTypes,
        RegisterInv, HeldIsBound
<1>7. UNCHANGED <<PreviousJobs, PreviousGate>>
    BY <1>2, <1>3, <1>6, SamePrevious DEF StoreInv
<1>8. HeldIsBound'
    BY <1>2, <1>3, <1>6, SameHeld DEF RegisterInv, Trees
<1>9. LegacyIsLegacy' /\ JudgedLast' /\ PublishedIsKept' /\ WantCovers'
    <2>1. /\ latest # None => tree'[latest] = tree[latest]
          /\ tree'[Legacy] = tree[Legacy]
        BY <1>1, <1>2, <1>6 DEF Trees
    <2>2. LegacyIsLegacy' /\ JudgedLast'
        BY <1>3, <2>1, NamesAssumption DEF RegisterInv, LegacyIsLegacy, JudgedLast
    <2> QED
        BY <1>3, <1>7, <2>2, SamePublished DEF RegisterInv, WantCovers
<1>10. RenamedFollows'
    <2>1. w \in Families => want[w] > PreviousJobs[w]
        BY RegisterNumbers DEF Generate, IsDuplicate, RegisterInv, WantCovers
    <2>2. w \notin Families => latest # None
        BY NamesAssumption DEF Generate
    <2>3. w \in Families => Merged(w)' = Merged(w) /\ Merged(w)[w] = want[w]
        BY <1>3, <1>7, PreviousType DEF Merged, StoreInv, TypeOK, Reports
    <2> QED
        BY <1>2, <1>3, <1>5, <1>7, <2>1, <2>2, <2>3
        DEF RenamedFollows, Unswitched, Renamed
<1>11. EnabledFirst'
    <2>1. w \in Families => enabled
        BY <1>5 DEF RegisterInv, EnabledFirst
    <2>2. w \notin Families /\ latest = Legacy => enabled
        BY NamesAssumption DEF Generate
    <2> QED
        BY <1>3, <1>5, <2>1, <2>2
        DEF RegisterInv, EnabledFirst, Unswitched, Renamed
<1>12. CountedBelow'
    BY <1>2, <1>3, <1>6, <1>7, NamesAssumption DEF RegisterInv, CountedBelow
<1>13. RenamedCounts'
    <2>1. jobs \in Reports
        BY PreviousType DEF StoreInv, TypeOK, WriterTypes, Merged, Reports
    <2>2. gate.current
        BY DEF gate, Evaluate
    <2>3. rollbacks = 0 => CountsOnce(gate)
        BY <2>1, EvaluateCounts DEF gate
    <2> QED
        BY <1>2, <1>3, <1>5, <2>2, <2>3 DEF RenamedCounts, CountsOnce, Unswitched, Renamed
<1> QED
    BY <1>8, <1>9, <1>10, <1>11, <1>12, <1>13 DEF RegisterInv

LEMMA EmbedOpensRegister ==
    ASSUME StoreInv, RegisterInv, NEW w \in Writers, EmbedOpens(w)
    PROVE  RegisterInv'
<1>1. UNCHANGED <<latest, tree, legacyName, compat, sharers, made, counted,
                  evaluated, rollbacks, enabled, want, published, readerVars>>
    BY DEF EmbedOpens, lockVars, historyVars, notWriter, boundVars
<1>2. /\ pc[w] = "renamed" /\ pc'[w] = "embedding"
      /\ \A v \in Writers : v # w => pc'[v] = pc[v]
    BY DEF EmbedOpens, StoreInv, TypeOK, WriterTypes
<1>3. UNCHANGED <<PreviousJobs, PreviousGate>>
    BY <1>1, SamePrevious DEF StoreInv
<1>4. HeldIsBound' /\ PublishedIsKept' /\ JudgedLast' /\ LegacyIsLegacy' /\ WantCovers'
    BY <1>1, <1>3, SameHeld, SamePublished
    DEF RegisterInv, JudgedLast, LegacyIsLegacy, WantCovers
<1>5. RenamedFollows' /\ EnabledFirst'
    BY <1>1, <1>2, <1>3
    DEF RegisterInv, RenamedFollows, EnabledFirst, Unswitched, Renamed, Merged
<1>6. CountedBelow' /\ RenamedCounts'
    BY <1>1, <1>2, <1>3
    DEF RegisterInv, CountedBelow, RenamedCounts, CountsOnce, Unswitched
<1> QED
    BY <1>4, <1>5, <1>6 DEF RegisterInv

LEMMA EmbedRegister ==
    ASSUME StoreInv, RegisterInv, NEW w \in Writers, Embed(w)
    PROVE  RegisterInv'
<1>1. /\ commit = w /\ pc[w] \in {"renamed", "embedding"} /\ latest = Legacy
      /\ Legacy \in Trees /\ Legacy \notin Generations
    BY NamesAssumption DEF Embed, StoreInv, Safety, LockIsHeld, Renamed, Trees
<1>2. UNCHANGED <<latest, legacyName, compat, sharers, made, counted, evaluated,
                  rollbacks, enabled, want, published, readerVars>>
    BY DEF Embed, lockVars, historyVars, notWriter, boundVars
<1>3. /\ \A t \in Generations : tree'[t] = tree[t]
      /\ tree'[Legacy].jobs = tree[Legacy].jobs
      /\ tree'[Legacy].gate = IF PreviousGate = NoGate THEN tree[Legacy].gate
                              ELSE PreviousGate
    BY <1>1 DEF Embed, StoreInv, TypeOK, DiskTypes, TreeStates, Trees
<1>4. /\ pc'[w] = "embedded"
      /\ \A v \in Writers : v # w => pc'[v] = pc[v] /\ pc'[v] \notin Renamed
    BY <1>1, Alone DEF Embed, StoreInv, TypeOK, WriterTypes
<1>5. UNCHANGED <<PreviousJobs, PreviousGate>>
    BY <1>1, <1>2, <1>3, NamesAssumption
    DEF PreviousJobs, PreviousGate, GateOf, BoundTo
<1>6. made[w] \in Generations
    BY <1>1 DEF StoreInv, Safety, RenamedIsFinished, Renamed
<1>7. enabled
    BY <1>1 DEF RegisterInv, EnabledFirst, Unswitched
<1>8. HeldIsBound'
    BY <1>2, <1>3, SameHeld DEF RegisterInv
<1>9. LegacyIsLegacy' /\ PublishedIsKept' /\ WantCovers' /\ EnabledFirst'
    BY <1>2, <1>3, <1>5, <1>7, SamePublished
    DEF RegisterInv, LegacyIsLegacy, WantCovers, EnabledFirst
<1>10. RenamedFollows'
    BY <1>1, <1>2, <1>3, <1>4, <1>5, <1>6
    DEF RegisterInv, RenamedFollows, Unswitched, Renamed, Merged
<1>11. JudgedLast'
    BY <1>1, <1>2, <1>3, <1>7, PreviousIsEvaluated DEF RegisterInv, JudgedLast
<1>12. CountedBelow'
    BY <1>1, <1>2, <1>5 DEF RegisterInv, CountedBelow
<1>13. RenamedCounts'
    BY <1>1, <1>2, <1>3, <1>4, <1>6
    DEF RegisterInv, RenamedCounts, CountsOnce, Unswitched, Renamed
<1> QED
    BY <1>8, <1>9, <1>10, <1>11, <1>12, <1>13 DEF RegisterInv

LEMMA SwitchRegister ==
    ASSUME StoreInv, RegisterInv, NEW w \in Writers, Switch(w)
    PROVE  RegisterInv'
<1>1. /\ commit = w /\ pc[w] \in Unswitched /\ pc[w] \in Renamed
    BY DEF Switch, StoreInv, Safety, LockIsHeld, Renamed, Unswitched
<1>2. UNCHANGED <<tree, compat, sharers, made, rollbacks, enabled, want,
                  published, readerVars>>
    BY DEF Switch, lockVars, notWriter, boundVars
<1>3. /\ latest' = made[w] /\ made[w] \in Generations /\ made[w] # Legacy
      /\ BoundTo(tree[made[w]].gate, tree[made[w]].jobs)
      /\ evaluated' = tree[made[w]].gate
      /\ counted' = counted \cup Credits(tree[made[w]].gate)
    BY <1>1, NamesAssumption
    DEF Switch, StoreInv, Safety, RenamedIsFinished, IsFinished
<1>4. /\ pc'[w] \in {"exchanged", "switched"}
      /\ \A v \in Writers : v # w => pc'[v] = pc[v] /\ pc'[v] \notin Renamed
    BY <1>1, Alone DEF Switch, StoreInv, TypeOK, WriterTypes
<1>5. PreviousJobs' = tree[made[w]].jobs /\ PreviousGate' = tree[made[w]].gate
    BY <1>2, <1>3, NamesAssumption DEF PreviousJobs, PreviousGate, GateOf, BoundTo
<1>6. legacyName' # "none" <=> legacyName # "none"
    BY DEF Switch, RegisterInv, LegacyIsLegacy
<1>7. ASSUME NEW f \in Families
      PROVE  want[f] >= PreviousJobs'[f] /\ PreviousJobs'[f] >= PreviousJobs[f]
    <2>1. CASE w \in Families
        <3>1. /\ PreviousJobs' = [PreviousJobs EXCEPT ![w] = want[w]]
              /\ want[w] > PreviousJobs[w]
            BY <1>1, <1>5, <2>1 DEF RegisterInv, RenamedFollows, Merged
        <3>2. PreviousJobs'[f] = IF f = w THEN want[w] ELSE PreviousJobs[f]
            BY <3>1, PreviousType DEF StoreInv, TypeOK, Reports
        <3> QED
            BY <3>1, <3>2, RegisterNumbers DEF RegisterInv, WantCovers
    <2>2. CASE w \notin Families
        <3>1. PreviousJobs' = PreviousJobs
            BY <1>1, <1>5, <2>2 DEF RegisterInv, RenamedFollows
        <3> QED
            BY <3>1, RegisterNumbers DEF RegisterInv, WantCovers
    <2> QED
        BY <2>1, <2>2
<1>8. HeldIsBound' /\ LegacyIsLegacy' /\ JudgedLast'
    BY <1>2, <1>3, <1>6, SameHeld DEF RegisterInv, LegacyIsLegacy, JudgedLast
<1>9. WantCovers'
    BY <1>2, <1>6, <1>7 DEF RegisterInv, WantCovers
<1>10. PublishedIsKept'
    <2>1. \A f \in Families : PreviousJobs'[f] \in Nat
        BY <1>3, <1>5, BoundsAssumption
        DEF StoreInv, TypeOK, DiskTypes, TreeStates, Trees, Reports, Ids
    <2> QED
        BY <1>2, <1>7, <2>1, RegisterNumbers DEF RegisterInv, PublishedIsKept
<1>11. RenamedFollows'
    BY <1>1, <1>2, <1>3, <1>4 DEF RegisterInv, RenamedFollows, Unswitched, Renamed
<1>12. EnabledFirst'
    BY <1>1, <1>2, <1>3, <1>4 DEF RegisterInv, EnabledFirst, Unswitched, Renamed
<1>13. CountedBelow' /\ RenamedCounts'
    <2>1. tree[made[w]].gate.current /\ tree[made[w]].gate # NoGate
        BY <1>1, <1>3 DEF RegisterInv, RenamedCounts, BoundTo
    <2>2. rollbacks = 0 => Marks(tree[made[w]].gate, counted')
        BY <1>1, <1>3 DEF RegisterInv, RenamedCounts, CountsOnce
    <2>3. CountedBelow'
        BY <1>2, <1>3, <1>5, <2>1, <2>2 DEF CountedBelow, HasPrior
    <2>4. RenamedCounts'
        BY <1>4 DEF RenamedCounts, Unswitched, Renamed
    <2> QED
        BY <2>3, <2>4
<1> QED
    BY <1>8, <1>9, <1>10, <1>11, <1>12, <1>13 DEF RegisterInv

LEMMA KeepLegacyRegister ==
    ASSUME StoreInv, RegisterInv, NEW w \in Writers, KeepLegacy(w)
    PROVE  RegisterInv'
<1>1. UNCHANGED <<latest, tree, compat, sharers, made, counted, evaluated,
                  rollbacks, enabled, want, published, readerVars>>
    BY DEF KeepLegacy, lockVars, historyVars, notWriter, boundVars
<1>2. legacyName # "none" /\ legacyName' # "none"
    BY DEF KeepLegacy, StoreInv, Safety, RenamedIsFinished
<1>3. /\ pc[w] = "exchanged" /\ pc'[w] = "switched"
      /\ \A v \in Writers : v # w => pc'[v] = pc[v]
    BY DEF KeepLegacy, StoreInv, TypeOK, WriterTypes
<1>4. UNCHANGED <<PreviousJobs, PreviousGate>>
    BY <1>1, SamePrevious DEF StoreInv
<1>5. HeldIsBound' /\ PublishedIsKept' /\ JudgedLast'
    BY <1>1, <1>4, SameHeld, SamePublished DEF RegisterInv, JudgedLast
<1>6. LegacyIsLegacy' /\ WantCovers'
    BY <1>1, <1>2, <1>4 DEF RegisterInv, LegacyIsLegacy, WantCovers
<1>7. RenamedFollows' /\ EnabledFirst'
    BY <1>1, <1>3, <1>4
    DEF RegisterInv, RenamedFollows, EnabledFirst, Unswitched, Renamed, Merged
<1>8. CountedBelow' /\ RenamedCounts'
    BY <1>1, <1>3, <1>4
    DEF RegisterInv, CountedBelow, RenamedCounts, CountsOnce, Unswitched
<1> QED
    BY <1>5, <1>6, <1>7, <1>8 DEF RegisterInv

LEMMA ConcludeRegister ==
    ASSUME StoreInv, RegisterInv, NEW w \in Writers, Conclude(w)
    PROVE  RegisterInv'
<1>1. UNCHANGED <<latest, tree, legacyName, sharers, counted, evaluated,
                  rollbacks, enabled, want, readerVars>>
    BY DEF Conclude, Stop, Release, notWriter, boundVars
<1>2. /\ commit = w /\ latest = made[w] /\ latest \in Generations
      /\ BoundTo(tree[latest].gate, tree[latest].jobs)
    BY DEF Conclude, StoreInv, Safety, LockIsHeld, RenamedIsFinished,
        IsFinished, RegisterInv, RenamedFollows, Renamed
<1>3. /\ pc'[w] = "idle"
      /\ \A v \in Writers : v # w => pc'[v] = pc[v] /\ pc'[v] \notin Renamed
    BY <1>2, Alone DEF Conclude, Stop, StoreInv, TypeOK, WriterTypes
<1>4. UNCHANGED <<PreviousJobs, PreviousGate>>
    BY <1>1, <1>2 DEF PreviousJobs, PreviousGate, GateOf, BoundTo
<1>5. HeldIsBound' /\ LegacyIsLegacy' /\ WantCovers'
    BY <1>1, <1>4, SameHeld DEF RegisterInv, LegacyIsLegacy, WantCovers
<1>6. JudgedLast' /\ CountedBelow'
    BY <1>1, <1>2, <1>4, NamesAssumption
    DEF RegisterInv, JudgedLast, CountedBelow
<1>7. RenamedFollows' /\ EnabledFirst' /\ RenamedCounts'
    BY <1>1, <1>3 DEF RegisterInv, RenamedFollows, EnabledFirst, RenamedCounts,
        Unswitched, Renamed
<1>8. PublishedIsKept'
    <2>1. CASE w \in Families
        <3>1. PreviousJobs[w] = want[w]
            BY <1>2, <2>1, NamesAssumption
            DEF Conclude, RegisterInv, RenamedFollows, Renamed, PreviousJobs
        <3>2. published' = [published EXCEPT ![w] = want[w]]
            BY <2>1 DEF Conclude, Settle
        <3>3. \A f \in Families : PreviousJobs[f] >= published'[f]
            BY <3>1, <3>2, RegisterNumbers
            DEF RegisterInv, PublishedIsKept, StoreInv, TypeOK, HistoryTypes
        <3> QED
            BY <1>4, <3>3 DEF PublishedIsKept
    <2>2. CASE w \notin Families
        BY <1>4, <2>2, SamePublished DEF Conclude, RegisterInv
    <2> QED
        BY <2>1, <2>2
<1> QED
    BY <1>5, <1>6, <1>7, <1>8 DEF RegisterInv

\* A judgement in the shared copy: the legacy tree has no gate of its own yet.
LEMMA RefreshLegacyRegister ==
    ASSUME StoreInv, RegisterInv, NEW w \in Writers, NEW failing,
           NEW aged \in Agings, RefreshLegacy(w, failing, aged)
    PROVE  RegisterInv'
<1> DEFINE gate == Evaluate(PreviousJobs, tree[latest].verified, PreviousGate,
                            failing, aged)
<1>1. UNCHANGED <<latest, tree, legacyName, sharers, rollbacks, enabled, want,
                  published, readerVars>>
    BY DEF RefreshLegacy, Stop, Release, notWriter, boundVars
<1>2. /\ commit = w /\ latest = Legacy /\ Legacy # None
      /\ Legacy \notin Generations /\ ~enabled
    BY NamesAssumption DEF RefreshLegacy, StoreInv, Safety, LockIsHeld
<1>3. compat' = gate /\ evaluated' = gate /\ counted' = counted \cup Credits(gate)
    BY DEF RefreshLegacy
<1>4. gate \in GateStates /\ BoundTo(gate, PreviousJobs) /\ gate.current
    <2>1. PreviousJobs \in Reports /\ PreviousGate \in MaybeGates
        BY PreviousType DEF StoreInv, TypeOK
    <2> QED
        BY <2>1, EvaluateType DEF Evaluate
<1>5. rollbacks = 0 => CountsOnce(gate)
    BY PreviousType, EvaluateCounts DEF StoreInv, TypeOK
<1> HIDE DEF gate
<1>6. /\ pc'[w] = "idle"
      /\ \A v \in Writers : v # w => pc'[v] = pc[v] /\ pc'[v] \notin Renamed
    BY <1>2, Alone DEF RefreshLegacy, Stop, StoreInv, TypeOK, WriterTypes
<1>7. PreviousJobs' = PreviousJobs /\ PreviousJobs = tree[Legacy].jobs
    BY <1>1, <1>2 DEF PreviousJobs
<1>8. rollbacks = 0 => tree[Legacy].gate = NoGate
    BY <1>2 DEF RegisterInv, JudgedLast
<1>9. rollbacks = 0 => PreviousGate' = gate
    BY <1>1, <1>2, <1>3, <1>4, <1>7, <1>8 DEF PreviousGate, GateOf
<1>10. HeldIsBound' /\ LegacyIsLegacy' /\ WantCovers' /\ PublishedIsKept'
    BY <1>1, <1>7, SameHeld, SamePublished
    DEF RegisterInv, LegacyIsLegacy, WantCovers
<1>11. JudgedLast'
    BY <1>1, <1>2, <1>3, <1>8 DEF JudgedLast
<1>12. RenamedFollows' /\ EnabledFirst' /\ RenamedCounts'
    BY <1>1, <1>6 DEF RegisterInv, RenamedFollows, EnabledFirst, RenamedCounts,
        Unswitched, Renamed
<1>13. CountedBelow'
    BY <1>1, <1>2, <1>3, <1>4, <1>5, <1>9
    DEF CountedBelow, CountsOnce, HasPrior, BoundTo
<1> QED
    BY <1>10, <1>11, <1>12, <1>13 DEF RegisterInv

LEMMA RollbackRegister ==
    ASSUME StoreInv, RegisterInv, Rollback
    PROVE  RegisterInv'
<1>1. UNCHANGED <<tree, sharers, readerVars, pc, want>>
    BY DEF Rollback, lockVars, writerVars
<1>2. /\ latest' = Legacy /\ Legacy \notin Generations /\ Legacy # None
      /\ legacyName # "none" /\ legacyName' # "none"
      /\ \A w \in Writers : pc[w] = "idle"
    BY NamesAssumption DEF Rollback
<1>3. tree[Legacy].jobs = LegacyJobs /\ PreviousJobs' = LegacyJobs
    BY <1>1, <1>2 DEF RegisterInv, LegacyIsLegacy, PreviousJobs
<1>4. rollbacks' # 0
    BY DEF Rollback, StoreInv, TypeOK
<1>5. HeldIsBound' /\ LegacyIsLegacy'
    BY <1>1, <1>2, <1>3, SameHeld DEF RegisterInv, LegacyIsLegacy
<1>6. WantCovers' /\ PublishedIsKept'
    <2>1. \A f \in Families : LegacyJobs[f] = 1
        BY DEF LegacyJobs
    <2>2. published' = LegacyJobs
        BY <1>3 DEF Rollback
    <2> QED
        BY <1>1, <1>2, <1>3, <2>1, <2>2 DEF RegisterInv, WantCovers, PublishedIsKept
<1>7. RenamedFollows' /\ EnabledFirst' /\ RenamedCounts'
    BY <1>1, <1>2 DEF RenamedFollows, EnabledFirst, RenamedCounts, Unswitched, Renamed
<1>8. JudgedLast' /\ CountedBelow'
    BY <1>2, <1>4 DEF Rollback, JudgedLast, CountedBelow
<1> QED
    BY <1>5, <1>6, <1>7, <1>8 DEF RegisterInv

LEMMA RegisterStep ==
    ASSUME StoreInv, RegisterInv, [Next]_vars
    PROVE  RegisterInv'
<1>1. ASSUME NEW w \in Writers, Write(w)
      PROVE  RegisterInv'
    <2>1. CASE \/ Begin(w) \/ TakeCommit(w) \/ CommitBusy(w) \/ LoadFails(w)
               \/ CrashWriter(w)
        BY <2>1, QuietWriter
    <2>2. CASE \E failing \in SUBSET Unsteady, aged \in Agings :
                   Generate(w, failing, aged)
        BY <2>2, GenerateRegister
    <2>3. CASE EmbedOpens(w) \/ Embed(w) \/ Switch(w) \/ KeepLegacy(w) \/ Conclude(w)
        BY <2>3, EmbedOpensRegister, EmbedRegister, SwitchRegister, KeepLegacyRegister, ConcludeRegister
    <2> QED
        BY <1>1, <2>1, <2>2, <2>3 DEF Write
<1>2. ASSUME NEW f \in Families, PublishFamily(f)
      PROVE  RegisterInv'
    BY <1>1, <1>2, QuietWriter DEF PublishFamily, Writers
<1>3. ASSUME NEW w \in Gates, RefreshGate(w)
      PROVE  RegisterInv'
    BY <1>1, <1>3, QuietWriter, RefreshLegacyRegister DEF RefreshGate, Writers
<1>4. CASE UNCHANGED vars
    <2>1. UNCHANGED <<latest, legacyName, compat, tree, counted, evaluated,
                      rollbacks, enabled, sharers, readerVars, pc, made, want,
                      published>>
        BY <1>4 DEF vars, diskVars, lockVars, writerVars, historyVars, boundVars
    <2>2. want' \in [Families -> Ids] /\ \A f \in Families : want'[f] >= want[f]
        BY <2>1, BoundsAssumption DEF StoreInv, TypeOK, WriterTypes, Ids
    <2>3. /\ LegacyIsLegacy' /\ WantCovers' /\ RenamedFollows' /\ EnabledFirst'
          /\ JudgedLast' /\ CountedBelow' /\ RenamedCounts'
          /\ UNCHANGED <<PreviousJobs, PreviousGate>>
        BY <2>1, <2>2, QuietStep
    <2> QED
        BY <2>1, <2>3, SameHeld, SamePublished DEF RegisterInv
<1> QED
    BY <1>2, <1>3, <1>4, ReaderRegister, CleanUpRegister, RollbackRegister,
        ActivateRegister DEF Next

\* What a reader holds is finished, a renamed generation carries everything that
\* latest shows and its own newer evidence, and the gate of latest is the last
\* evaluation, whose watermarks cover every observation that was counted: what the
\* other theorems of this module are read off (aurora_object_store_evidence.py,
\* publish_family, refresh_gate and read_snapshot).
THEOREM RegisterInvariant == Spec => []RegisterInv
<1>1. StoreInv /\ RegisterInv /\ [Next]_vars => RegisterInv'
    BY RegisterStep
<1> QED
    BY <1>1, InitRegisterInv, StoreInvariant, PTL DEF Spec

\* What a publication that returned left in the store stays there, or newer
\* evidence of the family takes its place: concurrent publications, refreshes,
\* clean-ups and crashes drop nothing.
THEOREM PublishedKept == Spec => []PublishedIsKept
<1>1. RegisterInv => PublishedIsKept
    BY DEF RegisterInv
<1> QED
    BY <1>1, RegisterInvariant, PTL

\* Until the operator rolls back, the gate a reader of latest consults is the
\* most recent evaluation.
THEOREM LatestJudgementRead == Spec => []ReadersSeeLatestJudgement
<1>1. StoreInv /\ RegisterInv => ReadersSeeLatestJudgement
    <2>1. SUFFICES ASSUME StoreInv, RegisterInv, latest # None,
                          PreviousGate # NoGate, rollbacks = 0
                   PROVE  GateOf(latest) = evaluated
        BY DEF ReadersSeeLatestJudgement
    <2>2. PreviousGate = evaluated
        BY <2>1, PreviousIsEvaluated DEF RegisterInv
    <2> QED
        BY <2>1, <2>2 DEF PreviousGate
<1> QED
    BY <1>1, StoreInvariant, RegisterInvariant, PTL

\* No observation is counted as a confirmation twice, whatever crashes, repeats
\* and refreshes the store sees.
THEOREM ObservationsCountOnce == Spec => CountedOnce
<1> DEFINE Once == rollbacks' = 0 =>
                       Credits(evaluated') \cap counted \subseteq Credits(evaluated)
<1>1. StoreInv /\ RegisterInv /\ [Next]_vars => [Once]_vars
    <2>1. SUFFICES ASSUME StoreInv, RegisterInv, Next, rollbacks' = 0
                   PROVE  Credits(evaluated') \cap counted \subseteq Credits(evaluated)
        OBVIOUS
    <2>2. CASE UNCHANGED evaluated
        BY <2>2
    <2>3. ASSUME NEW w \in Writers, Switch(w)
          PROVE  Once
        BY <2>1, <2>3
        DEF Switch, notWriter, boundVars, RegisterInv, RenamedCounts,
            CountsOnce, Unswitched
    <2>4. ASSUME NEW w \in Writers, NEW failing, NEW aged \in Agings,
                 RefreshLegacy(w, failing, aged)
          PROVE  Once
        <3>1. rollbacks = 0 /\ PreviousJobs \in Reports
            BY <2>1, <2>4, PreviousType
            DEF RefreshLegacy, notWriter, boundVars, StoreInv, TypeOK
        <3>2. CountsOnce(evaluated')
            BY <2>1, <2>4, <3>1, EvaluateCounts DEF RefreshLegacy
        <3> QED
            BY <3>2 DEF CountsOnce
    <2>5. ~Rollback
        BY <2>1 DEF Rollback, StoreInv, TypeOK
    <2>6. \/ UNCHANGED evaluated
          \/ \E w \in Writers : Switch(w)
          \/ \E w \in Gates, failing \in SUBSET Unsteady, aged \in Agings :
                 RefreshLegacy(w, failing, aged)
        <3>1. ASSUME NEW w \in Writers, Write(w)
              PROVE  UNCHANGED evaluated \/ Switch(w)
            BY <3>1 DEF Write, Begin, TakeCommit, CommitBusy, LoadFails, Generate,
                EmbedOpens, Embed, KeepLegacy, Conclude, CrashWriter, historyVars
        <3>2. ASSUME NEW f \in Families, PublishFamily(f)
              PROVE  UNCHANGED evaluated \/ Switch(f)
            BY <3>1, <3>2 DEF PublishFamily, Refuse, Repeat, historyVars, Writers
        <3>3. ASSUME NEW w \in Gates, RefreshGate(w)
              PROVE  \/ UNCHANGED evaluated \/ Switch(w)
                     \/ \E failing \in SUBSET Unsteady, aged \in Agings :
                            RefreshLegacy(w, failing, aged)
            BY <3>1, <3>3 DEF RefreshGate, RefreshMissing, historyVars, Writers
        <3>4. ASSUME NEW r \in Readers, ReadSnapshot(r)
              PROVE  UNCHANGED evaluated
            BY <3>4 DEF ReadSnapshot, ReaderBegins, ReaderPins, ReaderReads,
                ReaderEnds, notReader, historyVars
        <3>5. CASE CleanUp
            BY <3>5 DEF CleanUp, CleanBegins, CleanSkips, CleanRaises,
                CleanRemoves, CleanRemoved, CleanEnds, CrashCleaner,
                notCleaner, historyVars
        <3>6. CASE Activate
            BY <3>6 DEF Activate, historyVars
        <3> QED
            BY <2>1, <2>5, <3>2, <3>3, <3>4, <3>5, <3>6 DEF Next, Writers
    <2> QED
        BY <2>1, <2>2, <2>3, <2>4, <2>6 DEF Writers
<1>2. CountedOnce <=> [][Once]_vars
    BY DEF CountedOnce
<1> QED
    BY <1>1, <1>2, StoreInvariant, RegisterInvariant, PTL DEF Spec

-----------------------------------------------------------------------------
(***************************************************************************)
(* The store implements the register.  A switch publishes or refreshes, a  *)
(* rollback restores, a judgement of the legacy tree refreshes, a reader   *)
(* opens and closes, and every other step leaves the register alone.       *)
(***************************************************************************)
Current == IF latest = None THEN None ELSE Snapshot(latest)
Held == [r \in Readers |->
            IF rpc[r] = "idle" \/ rpath[r] = None THEN None
            ELSE Snapshot(rpath[r])]

LEMMA SnapshotType ==
    ASSUME TypeOK, NEW t \in Trees
    PROVE  Snapshot(t) \in Register!Snapshots /\ Snapshot(t) # None
<1>1. tree[t].jobs \in Reports /\ GateOf(t) \in MaybeGates
    BY PreviousType DEF TypeOK, DiskTypes, TreeStates
<1>2. Snapshot(t) \in [jobs: Reports, gate: MaybeGates]
    BY <1>1 DEF Snapshot
<1> QED
    BY <1>2, NoneAssumption DEF Register!Snapshots

LEMMA CurrentType ==
    ASSUME TypeOK
    PROVE  /\ latest # None => Current \in Register!Snapshots /\ Current # None
           /\ latest # None => Current.jobs = PreviousJobs
           /\ \A f \in Families : Register!EvidenceOf(Current, f) = PreviousJobs[f]
<1>1. latest # None => Current \in Register!Snapshots /\ Current # None
    BY SnapshotType DEF Current, TypeOK, DiskTypes
<1>2. latest # None => Current.jobs = PreviousJobs
    BY DEF Current, Snapshot, PreviousJobs
<1>3. ASSUME NEW f \in Families
      PROVE  Register!EvidenceOf(Current, f) = PreviousJobs[f]
    <2>1. CASE latest = None
        BY <2>1 DEF Register!EvidenceOf, Current, PreviousJobs, NoEvidence
    <2>2. CASE latest # None
        BY <2>2, <1>1, <1>2 DEF Register!EvidenceOf
    <2> QED
        BY <2>1, <2>2
<1> QED
    BY <1>1, <1>2, <1>3

LEMMA CurrentAfter ==
    ASSUME TypeOK', latest' # None
    PROVE  /\ Current' \in Register!Snapshots
           /\ Current'.jobs = tree'[latest'].jobs
<1>1. /\ tree'[latest'].jobs \in Reports /\ tree'[latest'].gate \in MaybeGates
      /\ compat' \in MaybeGates
    BY DEF TypeOK, DiskTypes, TreeStates
<1>2. Snapshot(latest)' \in [jobs: Reports, gate: MaybeGates]
    BY <1>1 DEF Snapshot, GateOf
<1>3. Current' = Snapshot(latest)' /\ Snapshot(latest)'.jobs = tree'[latest'].jobs
    BY DEF Current, Snapshot
<1> QED
    BY <1>2, <1>3 DEF Register!Snapshots

\* A reader's snapshot stays as it is: a generation brings its own gate, and
\* the shared copy and the legacy tree change under the lock only.
LEMMA SameHolding ==
    ASSUME StoreInv, RegisterInv, UNCHANGED readerVars,
           sharers # {} => UNCHANGED compat /\ tree'[Legacy] = tree[Legacy],
           \A r \in Readers : rpc[r] # "idle" /\ rpath[r] \in Generations =>
                                  tree'[rpath[r]] = tree[rpath[r]]
    PROVE  UNCHANGED Held
<1>1. ASSUME NEW r \in Readers, rpc[r] # "idle", rpath[r] # None
      PROVE  Snapshot(rpath[r])' = Snapshot(rpath[r])
    <2>1. CASE rpath[r] \in Generations
        BY <1>1, <2>1
        DEF RegisterInv, HeldIsBound, Snapshot, GateOf, readerVars
    <2>2. CASE rpath[r] = Legacy
        <3>1. sharers # {}
            BY <1>1, <2>2 DEF RegisterInv, HeldIsBound
        <3> QED
            BY <2>2, <3>1 DEF Snapshot, GateOf, readerVars
    <2> QED
        BY <1>1, <2>1, <2>2 DEF StoreInv, TypeOK, ReaderTypes, Trees
<1> QED
    BY <1>1 DEF Held, readerVars

LEMMA SameCurrent ==
    ASSUME UNCHANGED <<latest, compat>>,
           latest # None => tree'[latest] = tree[latest]
    PROVE  UNCHANGED Current
    BY DEF Current, Snapshot, GateOf

LEMMA LockedOut ==
    ASSUME StoreInv, NEW w \in Writers, commit = w
    PROVE  sharers = {}
    BY NamesAssumption DEF StoreInv, Safety, LockIsHeld, Writers

\* Most steps do not show in the register.
LEMMA HiddenStep ==
    ASSUME StoreInv, RegisterInv,
           \/ \E w \in Writers :
                  \/ Begin(w) \/ TakeCommit(w) \/ CommitBusy(w) \/ LoadFails(w)
                  \/ EmbedOpens(w) \/ RefreshMissing(w) \/ CrashWriter(w) \/ Refuse(w)
                  \/ Repeat(w) \/ KeepLegacy(w)
           \/ CleanUp \/ Activate \/ UNCHANGED vars
    PROVE  UNCHANGED <<Current, Held>>
<1>1. CASE ~CleanUp
    <2>1. UNCHANGED <<latest, compat, tree, readerVars>>
        BY <1>1 DEF Begin, TakeCommit, CommitBusy, LoadFails, EmbedOpens,
            RefreshMissing, CrashWriter, Refuse, Repeat, KeepLegacy, Activate, vars, diskVars, notWriter
    <2> QED
        BY <2>1, SameCurrent, SameHolding
<1>2. CASE CleanUp
    <2>1. UNCHANGED <<latest, compat, readerVars>>
        BY <1>2 DEF CleanUp, CleanBegins, CleanSkips, CleanRaises, CleanRemoves,
            CleanRemoved, CleanEnds, CrashCleaner, notCleaner
    <2>2. /\ latest # None => tree'[latest] = tree[latest]
          /\ tree'[Legacy] = tree[Legacy]
        BY <1>2, CleanUpKeeps DEF StoreInv, TypeOK, DiskTypes, Trees
    <2> QED
        BY <1>2, <2>1, <2>2, SameCurrent, SameHolding, CleanUpKeepsHeld
<1> QED
    BY <1>1, <1>2

LEMMA HiddenWriter ==
    ASSUME StoreInv, RegisterInv, NEW w \in Writers,
           \/ \E failing \in SUBSET Unsteady, aged \in Agings :
                  Generate(w, failing, aged)
           \/ Embed(w) \/ Conclude(w)
    PROVE  UNCHANGED <<Current, Held>>
<1>1. UNCHANGED <<latest, readerVars>>
    BY DEF Generate, Embed, Conclude, notWriter
<1>2. sharers = {}
    BY LockedOut DEF Generate, Embed, Conclude, StoreInv, Safety, LockIsHeld, Renamed
<1>3. CASE \E failing \in SUBSET Unsteady, aged \in Agings :
               Generate(w, failing, aged)
    <2>1. PICK g \in Generations : /\ tree[g].part = "absent"
                                   /\ \A t \in Trees : t # g => tree'[t] = tree[t]
        BY <1>3, GenerateType
        DEF Generate, StoreInv, TypeOK, DiskTypes, Trees
    <2>2. /\ latest # None => tree'[latest] = tree[latest]
          /\ \A r \in Readers : rpc[r] # "idle" /\ rpath[r] \in Generations =>
                                    tree'[rpath[r]] = tree[rpath[r]]
        BY <2>1 DEF StoreInv, Safety, LatestIsComplete, TypeOK, DiskTypes,
            RegisterInv, HeldIsBound, Trees
    <2>3. UNCHANGED compat
        BY <1>3 DEF Generate
    <2> QED
        BY <1>1, <1>2, <2>2, <2>3, SameCurrent, SameHolding
<1>4. CASE Embed(w)
    <2>1. latest = Legacy /\ Legacy # None /\ Legacy \in Trees /\ UNCHANGED compat
        BY <1>4, NamesAssumption DEF Embed, Trees
    <2>2. /\ \A t \in Generations : tree'[t] = tree[t]
          /\ tree'[Legacy].jobs = tree[Legacy].jobs
          /\ tree'[Legacy].gate = IF PreviousGate = NoGate THEN tree[Legacy].gate
                                  ELSE PreviousGate
        BY <1>4, NamesAssumption
        DEF Embed, StoreInv, TypeOK, DiskTypes, TreeStates, Trees
    <2>3. UNCHANGED Current
        BY <1>1, <2>1, <2>2 DEF Current, Snapshot, GateOf, PreviousGate
    <2> QED
        BY <1>1, <1>2, <2>2, <2>3, SameHolding
<1>5. CASE Conclude(w)
    <2>1. latest \in Generations /\ tree[latest].gate # NoGate /\ UNCHANGED tree
        BY <1>5 DEF Conclude, StoreInv, Safety, RenamedIsFinished, IsFinished,
            BoundTo, RegisterInv, RenamedFollows, Renamed
    <2>2. UNCHANGED Current
        BY <1>1, <2>1 DEF Current, Snapshot, GateOf
    <2> QED
        BY <1>1, <1>2, <2>1, <2>2, SameHolding
<1> QED
    BY <1>3, <1>4, <1>5

LEMMA SwitchPublishes ==
    ASSUME StoreInv, RegisterInv, TypeOK', NEW w \in Writers, Switch(w)
    PROVE  Register!Next
<1>1. commit = w /\ pc[w] \in Unswitched /\ pc[w] \in Renamed
    BY DEF Switch, StoreInv, Safety, LockIsHeld, Renamed, Unswitched
<1>2. latest' = made[w] /\ made[w] \in Generations /\ made[w] # None /\ UNCHANGED tree
    BY <1>1, NamesAssumption
    DEF Switch, StoreInv, Safety, RenamedIsFinished
<1>3. UNCHANGED Held
    BY <1>1, <1>2, LockedOut, SameHolding DEF Switch, notWriter
<1>4. Current' \in Register!Snapshots /\ Current'.jobs = tree[made[w]].jobs
    BY <1>2, CurrentAfter
<1>5. CASE w \in Families
    <2>1. Current'.jobs = Merged(w) /\ want[w] > PreviousJobs[w]
        BY <1>1, <1>4, <1>5 DEF RegisterInv, RenamedFollows
    <2>2. \A f \in Families : Merged(w)[f] = IF f = w THEN want[w] ELSE PreviousJobs[f]
        BY PreviousType DEF Merged, StoreInv, TypeOK, Reports
    <2>3. \A f \in Families : Register!EvidenceOf(Current, f) = PreviousJobs[f]
        BY CurrentType DEF StoreInv
    <2>4. Register!Publish(w)
        BY <1>3, <1>4, <1>5, <2>1, <2>2, <2>3 DEF Register!Publish, Current, Held
    <2> QED
        BY <1>5, <2>4 DEF Register!Next
<1>6. CASE w \notin Families
    <2>1. latest # None /\ Current'.jobs = PreviousJobs
        BY <1>1, <1>4, <1>6 DEF RegisterInv, RenamedFollows
    <2>2. Current # None /\ Current.jobs = PreviousJobs
        BY <2>1, CurrentType DEF StoreInv
    <2>3. Register!Refresh
        BY <1>3, <1>4, <2>1, <2>2 DEF Register!Refresh, Current, Held
    <2> QED
        BY <2>3 DEF Register!Next
<1> QED
    BY <1>5, <1>6

\* Outside recovery, a judgement of the legacy tree.
LEMMA RefreshLegacyRefreshes ==
    ASSUME StoreInv, RegisterInv, TypeOK', NEW w \in Writers, NEW failing,
           NEW aged \in Agings, RefreshLegacy(w, failing, aged)
    PROVE  Register!Next
<1>1. latest = Legacy /\ Legacy # None /\ UNCHANGED <<latest, tree, readerVars>>
    BY NamesAssumption DEF RefreshLegacy, notWriter
<1>2. sharers = {}
    BY LockedOut DEF RefreshLegacy, StoreInv, Safety, LockIsHeld
<1>3. UNCHANGED Held
    BY <1>1, <1>2, SameHolding
<1>4. Current' \in Register!Snapshots /\ Current'.jobs = tree[Legacy].jobs
    BY <1>1, CurrentAfter
<1>5. Current # None /\ Current.jobs = tree[Legacy].jobs
    BY <1>1, CurrentType DEF StoreInv, Current, Snapshot
<1>6. Register!Refresh
    BY <1>3, <1>4, <1>5 DEF Register!Refresh, Current, Held
<1> QED
    BY <1>6 DEF Register!Next

LEMMA RollbackRestores ==
    ASSUME StoreInv, RegisterInv, TypeOK', Rollback
    PROVE  Register!Next
<1>1. latest' = Legacy /\ Legacy # None /\ UNCHANGED <<tree, readerVars>>
    BY NamesAssumption DEF Rollback
<1>2. sharers = {} /\ legacyName # "none"
    BY DEF Rollback, LockFree
<1>3. UNCHANGED Held
    BY <1>1, <1>2, SameHolding
<1>4. Current' \in Register!Snapshots /\ Current'.jobs = LegacyJobs
    BY <1>1, <1>2, CurrentAfter DEF RegisterInv, LegacyIsLegacy
<1>5. Register!Restore
    BY <1>3, <1>4 DEF Register!Restore, Current, Held
<1> QED
    BY <1>5 DEF Register!Next

\* A reader opens what latest leads to, holds it, and closes it.
LEMMA ReaderOpensAndCloses ==
    ASSUME StoreInv, RegisterInv, NEW r \in Readers, ReadSnapshot(r)
    PROVE  Register!Next \/ UNCHANGED <<Current, Held>>
<1> USE DEF ReadSnapshot, ReaderBegins, ReaderPins, ReaderReads, ReaderEnds
<1>1. UNCHANGED <<latest, compat, tree>>
    BY DEF notReader, diskVars
<1>2. UNCHANGED Current
    BY <1>1, SameCurrent
<1>3. /\ rpc \in [Readers -> {"idle", "shared", "pinned", "reading"}]
      /\ rpath \in [Readers -> Trees \cup {None}]
    BY DEF StoreInv, TypeOK, ReaderTypes
<1>4. \A q \in Readers \ {r} : Held'[q] = Held[q]
    <2>1. \A q \in Readers \ {r} : rpc'[q] = rpc[q] /\ rpath'[q] = rpath[q]
        BY <1>3
    <2> QED
        BY <1>1, <2>1 DEF Held, Snapshot, GateOf
<1>5. CASE ReaderBegins(r)
    <2>1. rpc'[r] = "shared" /\ rpath'[r] = latest
        BY <1>3, <1>5
    <2>2. Held[r] = None /\ Held'[r] = Current
        BY <1>1, <1>5, <2>1 DEF Held, Current, Snapshot, GateOf
    <2>3. CASE latest = None
        <3>1. Held' = Held
            BY <1>4, <2>2, <2>3 DEF Held, Current
        <3> QED
            BY <1>2, <3>1
    <2>4. CASE latest # None
        <3>1. Current # None
            BY <2>4, CurrentType DEF StoreInv
        <3>2. Held' = [Held EXCEPT ![r] = Current]
            BY <1>4, <2>2 DEF Held
        <3>3. Register!Open(r)
            BY <1>2, <2>2, <3>1, <3>2 DEF Register!Open, Current, Held
        <3> QED
            BY <3>3 DEF Register!Next
    <2> QED
        BY <2>3, <2>4
<1>6. CASE ReaderPins(r) \/ ReaderReads(r)
    <2>1. rpc[r] # "idle" /\ rpc'[r] # "idle" /\ rpath' = rpath
        BY <1>3, <1>6
    <2>2. Held'[r] = Held[r]
        BY <1>1, <2>1 DEF Held, Snapshot, GateOf
    <2>3. Held' = Held
        BY <1>4, <2>2 DEF Held
    <2> QED
        BY <1>2, <2>3
<1>7. CASE ReaderEnds(r)
    <2>1. rpc'[r] = "idle"
        BY <1>3, <1>7
    <2>2. Held' = [Held EXCEPT ![r] = None]
        BY <1>4, <2>1 DEF Held
    <2>3. Register!Close(r)
        BY <1>2, <2>2 DEF Register!Close, Current, Held
    <2> QED
        BY <2>3 DEF Register!Next
<1> QED
    BY <1>5, <1>6, <1>7

LEMMA StepOfRegister ==
    ASSUME StoreInv, RegisterInv, TypeOK', [Next]_vars
    PROVE  Register!Next \/ UNCHANGED <<Current, Held>>
<1>1. ASSUME NEW w \in Writers, Write(w)
      PROVE  Register!Next \/ UNCHANGED <<Current, Held>>
    <2>1. CASE \/ Begin(w) \/ TakeCommit(w) \/ CommitBusy(w) \/ LoadFails(w)
               \/ EmbedOpens(w) \/ CrashWriter(w) \/ KeepLegacy(w)
        BY <2>1, HiddenStep
    <2>2. CASE \E failing \in SUBSET Unsteady, aged \in Agings :
                   Generate(w, failing, aged)
        BY <2>2, HiddenWriter
    <2>3. CASE Embed(w) \/ Conclude(w)
        BY <2>3, HiddenWriter
    <2>4. CASE Switch(w)
        BY <2>4, SwitchPublishes
    <2> QED
        BY <1>1, <2>1, <2>2, <2>3, <2>4 DEF Write
<1>2. ASSUME NEW f \in Families, PublishFamily(f)
      PROVE  Register!Next \/ UNCHANGED <<Current, Held>>
    BY <1>1, <1>2, HiddenStep DEF PublishFamily, Writers
<1>3. ASSUME NEW w \in Gates, RefreshGate(w)
      PROVE  Register!Next \/ UNCHANGED <<Current, Held>>
    BY <1>1, <1>3, HiddenStep, RefreshLegacyRefreshes DEF RefreshGate, Writers
<1>4. CASE CleanUp \/ Activate \/ UNCHANGED vars
    BY <1>4, HiddenStep
<1> QED
    BY <1>2, <1>3, <1>4, RollbackRestores, ReaderOpensAndCloses DEF Next

LEMMA InitOfRegister == Init => Register!Init
<1> SUFFICES ASSUME Init PROVE Register!Init
    OBVIOUS
<1>1. Current = None \/ Current \in Register!Snapshots
    BY InitType, CurrentType DEF Current
<1>2. Held = [r \in Readers |-> None]
    BY DEF Held, Init
<1> QED
    BY <1>1, <1>2 DEF Register!Init, Current, Held

\* The store implements a register that publications, refreshes and rollbacks
\* write and readers snapshot, whatever the catalogue, the number of writers and
\* readers, and the bounds.
THEOREM RegisterImplemented == Spec => StoreIsRegister
<1>1. StoreInv /\ RegisterInv /\ StoreInv' /\ [Next]_vars
          => [Register!Next]_(Register!vars)
    <2>1. SUFFICES ASSUME StoreInv, RegisterInv, TypeOK', [Next]_vars
                   PROVE  [Register!Next]_(Register!vars)
        BY DEF StoreInv
    <2> QED
        BY <2>1, StepOfRegister DEF Register!vars, Current, Held
<1> QED
    BY <1>1, InitOfRegister, StoreInvariant, RegisterInvariant, PTL
    DEF Spec, StoreIsRegister, Register!Spec
=============================================================================

--------------------------- MODULE EvidenceStore ---------------------------
(***************************************************************************)
(* The canonical evidence below manifest_root: immutable generations, the  *)
(* pointer `latest`, the legacy tree it replaces, the compatibility copy   *)
(* of the gate, and the processes that share them.  Families publish,      *)
(* gate refreshes re-evaluate, readers pin what they use, the coordinator  *)
(* bounds the history and the operator may return to the legacy tree.      *)
(* Every file operation another process can observe, or a crash can        *)
(* separate from the next, is a step of its own.                           *)
(*                                                                         *)
(* A family's evidence is its verification id; ids grow with completion    *)
(* time, 0 is no evidence.  A report is its evidence by family, and a gate *)
(* is bound to a report by that value, which stands for report_sha256.     *)
(* Whether a family fails its comparison or has aged is a choice made at   *)
(* each evaluation.                                                        *)
(***************************************************************************)
EXTENDS Naturals, Sequences, FiniteSets

CONSTANTS
    Families,        \* the catalogue's archive families
    Gates,           \* processes that refresh the gate
    Readers,         \* processes that read a snapshot
    Generations,     \* directory names below generations/
    None,            \* latest does not exist
    Legacy,          \* the legacy directory tree
    Cleaner,         \* the coordinator while it bounds the history
    Free,            \* nobody holds the lock
    NoGate,          \* no gate file, or one that is not bound
    HistoryKeep,     \* history_keep of the catalogue
    Unsteady,        \* families whose evidence may fail or age
    MaxId,           \* bound: verification ids per family
    MaxCrashes,      \* bound: crashes
    CleanerCrashes,  \* may the coordinator be killed during the clean-up
    EmbedCrashes,    \* may a writer be killed as it writes the legacy tree's gate
    MaxRollbacks     \* bound: rollbacks to the legacy tree

ASSUME NamesAssumption ==
    /\ Families \cap Gates = {}
    /\ {Cleaner, Free} \cap (Families \cup Gates) = {}
    /\ Cleaner # Free
    /\ {None, Legacy} \cap Generations = {}
    /\ None # Legacy
ASSUME BoundsAssumption ==
    /\ HistoryKeep \in Nat
    /\ MaxId \in Nat \ {0}
    /\ MaxCrashes \in Nat
    /\ MaxRollbacks \in Nat
    /\ {CleanerCrashes, EmbedCrashes} \subseteq BOOLEAN
    /\ Unsteady \subseteq Families

VARIABLES
    latest,      \* what the name `latest` leads to
    tree,        \* contents of the legacy tree and of every generation
    order,       \* generations on disk, most recently modified first
    legacyName,  \* the name under which the legacy tree is kept
    compat,      \* the gate file outside the generations
    torn,        \* the legacy tree's gate was opened for writing, and not closed
    abandoned,   \* are there staging trees without an owner
    commit,      \* exclusive holder of .inventory.lock
    sharers,     \* shared holders of .inventory.lock
    storage,     \* holder of storage.lock
    enabled,     \* recovery_enabled
    pc, made,    \* progress of each writer, and the generation it renamed
    want,        \* the id each family last tried to publish
    unsettled,   \* the queue has not recorded that publication
    rpc, rpath,  \* progress of each reader, and the tree it resolved
    cpc, todo,   \* progress of the clean-up, and what it has still to visit
    published,   \* history: the id each family last saw published
    counted,     \* history: observations ever counted as a confirmation
    evaluated,   \* history: the most recent evaluation of the gate
    crashes, rollbacks

diskVars == <<latest, tree, order, legacyName, compat, torn, abandoned>>
lockVars == <<commit, sharers, storage>>
writerVars == <<pc, made, want, unsettled>>
readerVars == <<rpc, rpath>>
cleanerVars == <<cpc, todo>>
historyVars == <<published, counted, evaluated>>
boundVars == <<crashes, rollbacks>>
vars == <<diskVars, lockVars, enabled, writerVars, readerVars, cleanerVars,
          historyVars, boundVars>>

\* What a step of a writer, a reader or the clean-up never touches.
notWriter == <<enabled, readerVars, cleanerVars, boundVars>>
notReader == <<diskVars, commit, storage, enabled, writerVars, cleanerVars,
               historyVars, boundVars>>
notCleaner == <<latest, legacyName, compat, torn, sharers, storage, enabled,
                writerVars, readerVars, historyVars, rollbacks>>

Writers == Families \cup Gates
WriterSteps == {"idle", "staging", "locked", "renamed", "embedding", "embedded",
                "exchanged", "switched"}
Trees == Generations \cup {Legacy}
Ids == 0..MaxId
Reports == [Families -> Ids]

\* The gate keeps the last REQUIRED observations of a family; a gate written
\* under an older POLICY_VERSION is not current.
REQUIRED == 2
Observations == {s \in Seq(Ids) : Len(s) <= REQUIRED}
GateStates == [report: Reports, observations: [Families -> Observations],
               watermark: Reports, current: BOOLEAN]
MaybeGates == GateStates \cup {NoGate}
ASSUME NoGateAssumption == NoGate \notin GateStates
ASSUME NoneAssumption == None \notin [jobs: Reports, gate: MaybeGates]

\* comparison.json, verification-gate.json, .pin.lock; `part` is what the file
\* system shows of the tree.
TreeStates == [part: {"absent", "whole", "partial"}, pin: BOOLEAN,
               jobs: Reports, verified: SUBSET Families, gate: MaybeGates]

NoEvidence == [f \in Families |-> 0]
Absent == [part |-> "absent", pin |-> FALSE, jobs |-> NoEvidence,
           verified |-> {}, gate |-> NoGate]

DiskTypes ==
    /\ latest \in Trees \cup {None}
    /\ tree \in [Trees -> TreeStates]
    /\ order \in Seq(Generations)
    /\ legacyName \in {"none", "latest", "latest-pointer", "legacy-latest"}
    /\ compat \in MaybeGates
    /\ torn \in BOOLEAN
    /\ abandoned \in BOOLEAN
LockTypes ==
    /\ commit \in Writers \cup {Cleaner, Free}
    /\ sharers \subseteq Readers
    /\ storage \in Writers \cup {Free}
WriterTypes ==
    /\ pc \in [Writers -> WriterSteps]
    /\ made \in [Writers -> Generations \cup {None}]
    /\ want \in [Families -> Ids]
    /\ unsettled \in [Families -> BOOLEAN]
ReaderTypes ==
    /\ rpc \in [Readers -> {"idle", "shared", "pinned", "reading"}]
    /\ rpath \in [Readers -> Trees \cup {None}]
CleanerTypes ==
    /\ cpc \in {"idle", "visiting", "removing"}
    /\ todo \in Seq(Generations)
HistoryTypes ==
    /\ published \in [Families -> Ids]
    /\ counted \subseteq Families \X Ids
    /\ evaluated \in MaybeGates

\* Every variable holds a value of its kind, and the bounds are respected.
TypeOK ==
    /\ DiskTypes /\ LockTypes /\ WriterTypes /\ ReaderTypes /\ CleanerTypes
    /\ HistoryTypes
    /\ enabled \in BOOLEAN
    /\ crashes \in 0..MaxCrashes
    /\ rollbacks \in 0..MaxRollbacks

-----------------------------------------------------------------------------
(* What is on disk.                                                        *)

BoundTo(gate, jobs) == gate # NoGate /\ gate.report = jobs

\* Preferring the shared copy would return judgements that were superseded.
GateOf_Shared(t) == IF compat # NoGate THEN compat ELSE tree[t].gate

\* The gate a reader of a tree consults: the tree's own, else the shared copy.
GateOf(t) == IF tree[t].gate # NoGate THEN tree[t].gate ELSE compat

\* What publication builds on: the latest report, and its gate if it is bound.
PreviousJobs == IF latest = None THEN NoEvidence ELSE tree[latest].jobs
PreviousGate ==
    IF latest # None /\ BoundTo(GateOf(latest), tree[latest].jobs)
    THEN GateOf(latest)
    ELSE NoGate

\* Refusing a gate that is not bound, as readers do, would never replace it.
MayLoad_Bound == latest # Legacy \/ (~torn /\ PreviousGate # NoGate)

\* _load_previous: a gate that was truncated cannot be parsed.
MayLoad == latest # Legacy \/ ~torn

LockFree == commit = Free /\ sharers = {}
Pinned_Never(g) == FALSE
Pinned(g) == \E r \in Readers : rpc[r] \in {"pinned", "reading"} /\ rpath[r] = g
Larger(m, n) == IF m > n THEN m ELSE n
Elements(s) == {s[i] : i \in DOMAIN s}
Without(s, g) ==
    LET i == CHOOSE i \in DOMAIN s : s[i] = g
    IN  IF g \in Elements(s)
        THEN SubSeq(s, 1, i - 1) \o SubSeq(s, i + 1, Len(s))
        ELSE s

\* Only a gate of this policy carries confirmations on.
HasPrior(previous) == previous # NoGate /\ previous.current

\* Without the watermark, evidence dropped by a failure would count again.
IsNew_NoWatermark(f, jobs, verified, previous) ==
    \/ ~HasPrior(previous)
    \/ f \in verified /\ jobs[f] \notin Elements(previous.observations[f])

\* A new id of a verified family counts once: not if it is remembered, not if
\* it completed before what was already seen.
IsNew(f, jobs, verified, previous) ==
    \/ ~HasPrior(previous)
    \/ /\ f \in verified
       /\ jobs[f] \notin Elements(previous.observations[f])
       /\ jobs[f] > previous.watermark[f]

\* The family's confirmations after an evaluation: none on a failure, else
\* those that have not aged, and the new one.
Confirmations(f, jobs, verified, previous, failing, aged) ==
    LET old == IF HasPrior(previous) THEN previous.observations[f] ELSE <<>>
        eligible == SubSeq(old, aged[f] + 1, Len(old))
        longer == Append(eligible, jobs[f])
    IN  IF f \in failing \/ jobs[f] = 0 THEN <<>>
        ELSE IF ~IsNew(f, jobs, verified, previous) THEN eligible
        ELSE IF Len(longer) > REQUIRED THEN Tail(longer)
        ELSE longer

\* The gate for a report, from the previous gate: which families fail their
\* comparison and how many confirmations are too old is chosen by the caller.
Evaluate(jobs, verified, previous, failing, aged) ==
    [report |-> jobs,
     observations |-> [f \in Families |->
         Confirmations(f, jobs, verified, previous, failing, aged)],
     watermark |-> [f \in Families |->
         IF HasPrior(previous) THEN Larger(previous.watermark[f], jobs[f])
         ELSE jobs[f]],
     current |-> TRUE]

\* How many of its oldest confirmations each family loses by age.
Agings == {aged \in [Families -> 0..REQUIRED] :
              \A f \in Families \ Unsteady : aged[f] = 0}

\* The observations a gate counts.
Credits(gate) ==
    IF gate = NoGate THEN {}
    ELSE {c \in Families \X Ids : c[2] \in Elements(gate.observations[c[1]])}

-----------------------------------------------------------------------------
(* A fresh root, or a legacy tree whose gate, if there is one, may lag; before *)
(* or after recovery was activated.                                        *)

LegacyJobs == [f \in Families |-> 1]
OldPolicyGate(jobs) ==
    [report |-> jobs, observations |-> [f \in Families |-> <<>>],
     watermark |-> jobs, current |-> FALSE]

Init ==
    /\ \/ latest = None /\ legacyName = "none" /\ compat = NoGate
       \/ /\ latest = Legacy /\ legacyName = "latest"
          /\ compat \in {NoGate, OldPolicyGate(LegacyJobs),
                         OldPolicyGate(NoEvidence)}
    /\ tree = [t \in Trees |->
                  IF t = latest
                  THEN [Absent EXCEPT !.part = "whole", !.jobs = LegacyJobs,
                                      !.verified = Families]
                  ELSE Absent]
    /\ order = <<>> /\ torn = FALSE /\ abandoned = FALSE
    /\ commit = Free /\ sharers = {} /\ storage = Free
    /\ enabled \in BOOLEAN
    /\ pc = [w \in Writers |-> "idle"] /\ made = [w \in Writers |-> None]
    /\ want = PreviousJobs /\ unsettled = [f \in Families |-> FALSE]
    /\ rpc = [r \in Readers |-> "idle"] /\ rpath = [r \in Readers |-> None]
    /\ cpc = "idle" /\ todo = <<>>
    /\ published = PreviousJobs
    /\ counted = Credits(compat) /\ evaluated = compat
    /\ crashes = 0 /\ rollbacks = 0

-----------------------------------------------------------------------------
(* Publication of a family and refresh of the gate.                        *)

Release(w) ==
    /\ commit' = IF commit = w THEN Free ELSE commit
    /\ storage' = IF storage = w THEN Free ELSE storage
    /\ UNCHANGED sharers

Stop(w) ==
    /\ pc' = [pc EXCEPT ![w] = "idle"]
    /\ made' = [made EXCEPT ![w] = None]
    /\ Release(w)

\* Serialises local growth; a refresh of a legacy tree outside recovery writes
\* no generation and skips it.
TakesStorage(w) == w \in Families \/ latest \in Generations \/ enabled

\* Names are bounded by Generations.
NameLeft == \E g \in Generations : tree[g].part = "absent"

\* A worker whose publication the queue has not recorded may bring the same
\* epoch again, or a later one.
Begin(w) ==
    /\ pc[w] = "idle"
    /\ NameLeft
    /\ TakesStorage(w) => storage = Free
    /\ storage' = IF TakesStorage(w) THEN w ELSE storage
    /\ pc' = [pc EXCEPT ![w] = "staging"]
    /\ IF w \in Families
       THEN /\ enabled
            /\ \/ unsettled[w] /\ UNCHANGED want
               \/ /\ want[w] < MaxId
                  /\ want' = [want EXCEPT ![w] = @ + 1]
            /\ unsettled' = [unsettled EXCEPT ![w] = TRUE]
       ELSE UNCHANGED <<want, unsettled>>
    /\ UNCHANGED <<diskVars, commit, sharers, made, historyVars, notWriter>>

TakeCommit(w) ==
    /\ pc[w] = "staging" /\ LockFree
    /\ commit' = w
    /\ pc' = [pc EXCEPT ![w] = "locked"]
    /\ UNCHANGED <<diskVars, sharers, storage, made, want, unsettled,
                   historyVars, notWriter>>

\* The commit lock is never waited for: the worker defers, the refresh is left
\* to the next tick.
CommitBusy(w) ==
    /\ pc[w] = "staging" /\ ~LockFree
    /\ Stop(w)
    /\ UNCHANGED <<diskVars, want, unsettled, historyVars, notWriter>>

\* validate_epoch raises: the queue has withdrawn the epoch.
Refuse(f) ==
    /\ pc[f] = "locked"
    /\ Stop(f)
    /\ unsettled' = [unsettled EXCEPT ![f] = FALSE]
    /\ UNCHANGED <<diskVars, want, historyVars, notWriter>>

Settle(f) ==
    /\ unsettled' = [unsettled EXCEPT ![f] = FALSE]
    /\ published' = [published EXCEPT ![f] = want[f]]

\* A crash after the pointer switch but before the queue commit is idempotent.
IsDuplicate(f) == PreviousJobs[f] = want[f]

Repeat(f) ==
    /\ pc[f] = "locked" /\ MayLoad /\ IsDuplicate(f)
    /\ Settle(f)
    /\ Stop(f)
    /\ UNCHANGED <<diskVars, want, counted, evaluated, notWriter>>

\* The file that a killed writer left half written ends every attempt.
LoadFails(w) ==
    /\ pc[w] = "locked" /\ ~MayLoad
    /\ Stop(w)
    /\ UNCHANGED <<diskVars, want, unsettled, historyVars, notWriter>>

\* There is nothing to refresh yet: FileNotFoundError.
RefreshMissing(w) ==
    /\ pc[w] = "locked" /\ latest = None
    /\ Stop(w)
    /\ UNCHANGED <<diskVars, want, unsettled, historyVars, notWriter>>

\* Outside recovery a legacy tree is judged in the compatibility file only.
RefreshLegacy(w, failing, aged) ==
    /\ pc[w] = "locked" /\ latest = Legacy /\ ~enabled /\ MayLoad
    /\ compat' = Evaluate(PreviousJobs, tree[latest].verified, PreviousGate,
                          failing, aged)
    /\ evaluated' = compat'
    /\ counted' = counted \cup Credits(compat')
    /\ Stop(w)
    /\ UNCHANGED <<latest, tree, order, legacyName, torn, abandoned, want,
                   unsettled, published, notWriter>>

\* A uuid: any name that is not in use.
NewName == CHOOSE g \in Generations : tree[g].part = "absent"

\* The report and the artifacts of every other family are carried over.  Without
\* the merge a publication would drop them.
Merged_Alone(f) == [NoEvidence EXCEPT ![f] = want[f]]
Merged(f) == [PreviousJobs EXCEPT ![f] = want[f]]

\* Merge under the lock, evaluate, and rename the stage to a new generation.
Generate(w, failing, aged) ==
    LET g == NewName
        jobs == IF w \in Families THEN Merged(w) ELSE PreviousJobs
        verified == IF w \in Families THEN {w} ELSE tree[latest].verified
    IN  /\ pc[w] = "locked" /\ NameLeft /\ MayLoad
        /\ IF w \in Families THEN ~IsDuplicate(w)
           ELSE latest \in Generations \/ (latest = Legacy /\ enabled)
        /\ tree' = [tree EXCEPT ![g] =
                       [part |-> "whole", pin |-> TRUE, jobs |-> jobs,
                        verified |-> verified,
                        gate |-> Evaluate(jobs, verified, PreviousGate,
                                          failing, aged)]]
        /\ order' = <<g>> \o order
        /\ made' = [made EXCEPT ![w] = g]
        /\ pc' = [pc EXCEPT ![w] = "renamed"]
        /\ UNCHANGED <<latest, legacyName, compat, torn, abandoned, lockVars, want,
                       unsettled, historyVars, notWriter>>

\* The legacy tree keeps its own gate, so that a rollback restores a pair.  It
\* is written in place: opened, which leaves nothing of what was there, and
\* closed.  A tree whose gate is not bound goes as it is.
EmbedOpens(w) ==
    /\ pc[w] = "renamed" /\ latest = Legacy /\ PreviousGate # NoGate
    /\ torn' = TRUE
    /\ pc' = [pc EXCEPT ![w] = "embedding"]
    /\ UNCHANGED <<latest, tree, order, legacyName, compat, abandoned, lockVars,
                   made, want, unsettled, historyVars, notWriter>>

Embed(w) ==
    /\ pc[w] = IF PreviousGate = NoGate THEN "renamed" ELSE "embedding"
    /\ latest = Legacy
    /\ tree' = IF PreviousGate = NoGate THEN tree
               ELSE [tree EXCEPT ![Legacy].gate = PreviousGate]
    /\ torn' = FALSE
    /\ pc' = [pc EXCEPT ![w] = "embedded"]
    /\ UNCHANGED <<latest, order, legacyName, compat, abandoned, lockVars,
                   made, want, unsettled, historyVars, notWriter>>

\* Replace the pointer, or exchange it with the legacy directory.
Switch(w) ==
    /\ IF latest = Legacy THEN pc[w] = "embedded" ELSE pc[w] = "renamed"
    /\ latest' = made[w]
    /\ legacyName' = IF latest = Legacy THEN "latest-pointer" ELSE legacyName
    /\ pc' = [pc EXCEPT ![w] = IF latest = Legacy THEN "exchanged"
                               ELSE "switched"]
    /\ evaluated' = tree[made[w]].gate
    /\ counted' = counted \cup Credits(tree[made[w]].gate)
    /\ UNCHANGED <<tree, order, compat, torn, abandoned, lockVars, made, want,
                   unsettled, published, notWriter>>

KeepLegacy(w) ==
    /\ pc[w] = "exchanged"
    /\ legacyName' = "legacy-latest"
    /\ pc' = [pc EXCEPT ![w] = "switched"]
    /\ UNCHANGED <<latest, tree, order, compat, torn, abandoned, lockVars, made,
                   want, unsettled, historyVars, notWriter>>

\* The compatibility copy comes last; an unprivileged worker may be refused
\* and leaves it to a refresh.
MayWriteCompat_Unprivileged(w) == {FALSE}
MayWriteCompat(w) == IF w \in Gates THEN {TRUE} ELSE BOOLEAN

Conclude(w) ==
    /\ pc[w] = "switched"
    /\ \E allowed \in MayWriteCompat(w) :
           compat' = IF allowed THEN tree[made[w]].gate ELSE compat
    /\ Stop(w)
    /\ IF w \in Families THEN Settle(w) ELSE UNCHANGED <<unsettled, published>>
    /\ UNCHANGED <<latest, tree, order, legacyName, torn, abandoned, want, counted,
                   evaluated, notWriter>>

\* A kill releases the locks; a stage that was not renamed is left behind.
CrashWriter(w) ==
    /\ pc[w] # "idle" /\ crashes < MaxCrashes
    /\ pc[w] = "embedding" => EmbedCrashes
    /\ crashes' = crashes + 1
    /\ abandoned' = (abandoned \/ pc[w] = "locked"
                              \/ (pc[w] = "staging" /\ w \in Families))
    /\ Stop(w)
    /\ UNCHANGED <<latest, tree, order, legacyName, compat, torn, enabled, want,
                   unsettled, readerVars, cleanerVars, historyVars, rollbacks>>

-----------------------------------------------------------------------------
(* Readers: resolve under the shared lock, pin, unlock, use, unpin.        *)

ReaderBegins(r) ==
    /\ rpc[r] = "idle" /\ commit = Free
    /\ sharers' = sharers \cup {r}
    /\ rpc' = [rpc EXCEPT ![r] = "shared"]
    /\ rpath' = [rpath EXCEPT ![r] = latest]
    /\ UNCHANGED <<notReader>>

SharersAfterPin_Unlocks(r) == sharers \ {r}
SharersAfterPin(r) == IF rpath[r] = Legacy THEN sharers ELSE sharers \ {r}

\* A pointer is pinned; a legacy tree is protected by the commit lock itself.
ReaderPins(r) ==
    /\ rpc[r] = "shared" /\ rpath[r] # None
    /\ rpath[r] \in Generations => tree[rpath[r]].pin
    /\ rpc' = [rpc EXCEPT ![r] = "pinned"]
    /\ sharers' = SharersAfterPin(r)
    /\ UNCHANGED <<rpath, notReader>>

\* _read: a gate that does not describe the report, or is torn, is refused.
\* A reader of the legacy tree keeps writers away from it.
ReaderReads(r) ==
    /\ rpc[r] = "pinned"
    /\ rpath[r] = Legacy => ~torn
    /\ BoundTo(GateOf(rpath[r]), tree[rpath[r]].jobs)
    /\ rpc' = [rpc EXCEPT ![r] = "reading"]
    /\ UNCHANGED <<sharers, rpath, notReader>>

\* The context ends: normally, on a refused gate, on a missing latest or by a
\* crash.
ReaderEnds(r) ==
    /\ rpc[r] # "idle"
    /\ rpc' = [rpc EXCEPT ![r] = "idle"]
    /\ rpath' = [rpath EXCEPT ![r] = None]
    /\ sharers' = sharers \ {r}
    /\ UNCHANGED <<notReader>>

-----------------------------------------------------------------------------
(* Clean-up: everything beyond the newest generations, newest first.       *)

Kept == Larger(2, HistoryKeep)

CleanerStops == cpc' = "idle" /\ todo' = <<>> /\ commit' = Free

Surplus_OffByOne == SubSeq(order, Kept + 2, Len(order))
Surplus == SubSeq(order, Kept + 1, Len(order))

CleanBegins ==
    /\ cpc = "idle" /\ LockFree
    /\ commit' = Cleaner
    /\ cpc' = "visiting"
    /\ todo' = Surplus
    /\ UNCHANGED <<tree, order, abandoned, crashes, notCleaner>>

\* Trusting the age alone: an unfinished publication is newer than latest.
IsCurrent_NeverOld(g) == FALSE
IsCurrent(g) == g = latest

CleanSkips ==
    /\ cpc = "visiting" /\ todo # <<>>
    /\ IsCurrent(Head(todo)) \/ (tree[Head(todo)].pin /\ Pinned(Head(todo)))
    /\ todo' = Tail(todo)
    /\ UNCHANGED <<tree, order, abandoned, commit, cpc, crashes, notCleaner>>

\* The pin file cannot be opened: FileNotFoundError ends the clean-up.
CleanRaises ==
    /\ cpc = "visiting" /\ todo # <<>>
    /\ ~IsCurrent(Head(todo)) /\ ~tree[Head(todo)].pin
    /\ CleanerStops
    /\ UNCHANGED <<tree, order, abandoned, crashes, notCleaner>>

\* rmtree removes the entries in directory order, which touches the directory;
\* the pin file may be among the first.
CleanRemoves ==
    /\ cpc = "visiting" /\ todo # <<>>
    /\ ~IsCurrent(Head(todo))
    /\ tree[Head(todo)].pin /\ ~Pinned(Head(todo))
    /\ \E pin \in BOOLEAN :
           tree' = [tree EXCEPT ![Head(todo)] =
                       [@ EXCEPT !.part = "partial", !.pin = pin]]
    /\ order' = <<Head(todo)>> \o Without(order, Head(todo))
    /\ cpc' = "removing"
    /\ UNCHANGED <<abandoned, commit, todo, crashes, notCleaner>>

CleanRemoved ==
    /\ cpc = "removing"
    /\ tree' = [tree EXCEPT ![Head(todo)] = Absent]
    /\ order' = Without(order, Head(todo))
    /\ todo' = Tail(todo)
    /\ cpc' = "visiting"
    /\ UNCHANGED <<abandoned, commit, crashes, notCleaner>>

\* Staging trees older than any worker can live are removed last.
CleanEnds ==
    /\ cpc = "visiting" /\ todo = <<>>
    /\ \E old \in BOOLEAN : abandoned' = (abandoned /\ ~old)
    /\ CleanerStops
    /\ UNCHANGED <<tree, order, crashes, notCleaner>>

\* The coordinator's unit is stopped after two minutes.
CrashCleaner ==
    /\ cpc # "idle" /\ CleanerCrashes /\ crashes < MaxCrashes
    /\ crashes' = crashes + 1
    /\ CleanerStops
    /\ UNCHANGED <<tree, order, abandoned, notCleaner>>

-----------------------------------------------------------------------------
(* The operator, at a boundary where the workers are stopped.              *)

Rollback ==
    /\ rollbacks < MaxRollbacks
    /\ LockFree
    /\ \A w \in Writers : pc[w] = "idle"
    /\ latest \in Generations /\ legacyName = "legacy-latest"
    /\ rollbacks' = rollbacks + 1
    /\ enabled' = FALSE
    /\ latest' = Legacy
    /\ legacyName' = "latest"
    /\ compat' = GateOf(Legacy)
    /\ published' = tree[Legacy].jobs
    /\ counted' = Credits(compat')
    /\ evaluated' = compat'
    /\ UNCHANGED <<tree, order, torn, abandoned, lockVars, writerVars, readerVars,
                   cleanerVars, crashes>>

Activate ==
    /\ ~enabled
    /\ \A w \in Writers : pc[w] = "idle"
    /\ enabled' = TRUE
    /\ UNCHANGED <<diskVars, lockVars, writerVars, readerVars, cleanerVars,
                   historyVars, boundVars>>

-----------------------------------------------------------------------------

Write(w) ==
    \/ Begin(w) \/ TakeCommit(w) \/ CommitBusy(w)
    \/ \E failing \in SUBSET Unsteady, aged \in Agings :
           Generate(w, failing, aged)
    \/ LoadFails(w) \/ EmbedOpens(w) \/ Embed(w)
    \/ Switch(w) \/ KeepLegacy(w) \/ Conclude(w) \/ CrashWriter(w)

PublishFamily(f) == Write(f) \/ Refuse(f) \/ Repeat(f)

RefreshGate(w) ==
    \/ Write(w) \/ RefreshMissing(w)
    \/ \E failing \in SUBSET Unsteady, aged \in Agings :
           RefreshLegacy(w, failing, aged)

ReadSnapshot(r) ==
    ReaderBegins(r) \/ ReaderPins(r) \/ ReaderReads(r) \/ ReaderEnds(r)

CleanUp ==
    \/ CleanBegins \/ CleanSkips \/ CleanRaises \/ CleanRemoves
    \/ CleanRemoved \/ CleanEnds \/ CrashCleaner

Next ==
    \/ \E f \in Families : PublishFamily(f)
    \/ \E w \in Gates : RefreshGate(w)
    \/ \E r \in Readers : ReadSnapshot(r)
    \/ CleanUp \/ Rollback \/ Activate

Spec == Init /\ [][Next]_vars

-----------------------------------------------------------------------------
(* Fairness.  Timers and ExecStopPost run the refresh and the coordinator  *)
(* again and again, whatever their previous attempt did, and systemd ends  *)
(* what does not; a started writer or clean-up goes on; a reader's context *)
(* ends.  The commit lock is held for moments and attempts come minutes    *)
(* apart for ever, so that attempts that start with the lock free, if they *)
(* can, are made again and again.  A coordinator that cannot read the      *)
(* snapshot ends before the clean-up, and owes none.  Nothing is assumed   *)
(* of publications, crashes or the operator.                               *)

CoordinatorReads ==
    latest # None /\ GateOf(latest) # NoGate
        => MayLoad /\ BoundTo(GateOf(latest), tree[latest].jobs)

Advance(w) ==
    \/ TakeCommit(w) \/ CommitBusy(w) \/ LoadFails(w) \/ EmbedOpens(w) \/ Embed(w)
    \/ Switch(w) \/ KeepLegacy(w) \/ Conclude(w)
    \/ \E failing \in SUBSET Unsteady, aged \in Agings :
           Generate(w, failing, aged) \/ RefreshLegacy(w, failing, aged)
    \/ w \in Families /\ (Refuse(w) \/ Repeat(w))
    \/ w \in Gates /\ RefreshMissing(w)

Fairness ==
    /\ \A w \in Writers : WF_vars(Advance(w)) /\ SF_vars(TakeCommit(w))
    /\ \A w \in Gates : SF_vars(LockFree /\ Begin(w))
    /\ \A r \in Readers : WF_vars(ReaderEnds(r))
    /\ SF_vars(CoordinatorReads /\ CleanBegins)
    /\ WF_vars(CleanSkips \/ CleanRaises \/ CleanRemoves \/ CleanRemoved \/ CleanEnds)

FairSpec == Spec /\ Fairness

-----------------------------------------------------------------------------
(* Properties.                                                             *)

\* At every instant, between any two steps of a publication and after any
\* crash, `latest` leads to a complete tree, and a generation it leads to has a
\* pin file and a gate that describes its report (_finish_generation, _switch).
\* Of the legacy tree nothing is said but that no part of it was removed: its gate
\* may be torn, see MigrationCompletes.
LatestIsComplete ==
    latest # None =>
        /\ tree[latest].part = "whole"
        /\ latest \in Generations =>
               /\ tree[latest].pin
               /\ BoundTo(tree[latest].gate, tree[latest].jobs)

\* What a reader has pinned is complete for as long as it is pinned, whatever
\* the clean-up removes meanwhile (read_snapshot, cleanup_generations).
PinnedIsIntact ==
    \A r \in Readers :
        rpc[r] \in {"pinned", "reading"} => tree[rpath[r]].part = "whole"

\* Once a publication returned, its evidence or newer evidence of the family is
\* what `latest` shows: no concurrent publication, refresh or crash drops it
\* (the merge in _publish_family happens under the commit lock).
PublishedIsKept ==
    \A f \in Families : PreviousJobs[f] >= published[f]

\* A gate read from the store is the most recent judgement there is: a refresh
\* reaches the readers (_refresh_gate re-evaluates readiness "even when report
\* bytes are unchanged").  After a rollback to a legacy tree this is no longer
\* so: the refresh writes a gate beside the tree that its readers do not open.
ReadersSeeLatestJudgement ==
    latest # None /\ PreviousGate # NoGate /\ rollbacks = 0
        => GateOf(latest) = evaluated

\* An observation is counted as a confirmation once in its life: crashes,
\* repeated publications and refreshes of the same report never count it again
\* (IsNew in evaluate, IsDuplicate in _publish_family).  A rollback discards the
\* generations and their judgements, and what they counted.
CountedOnce ==
    [][rollbacks' = 0 =>
           Credits(evaluated') \cap counted \subseteq Credits(evaluated)]_vars

\* The store implements a register: a reader holds one consistent value, and
\* each publication changes the evidence of its own family only.
Snapshot(t) == [jobs |-> tree[t].jobs, gate |-> GateOf(t)]

Register == INSTANCE EvidenceRegister WITH
    Gates <- MaybeGates,
    Nothing <- None,
    current <- IF latest = None THEN None ELSE Snapshot(latest),
    held <- [r \in Readers |->
                IF rpc[r] = "idle" \/ rpath[r] = None THEN None
                ELSE Snapshot(rpath[r])]

StoreIsRegister == Register!Spec

\* The compatibility copy of the gate catches up with the latest generation,
\* however often a worker was not allowed to write it or crashed before it did.
CompatCatchesUp ==
    []<>(latest \in Generations => compat = tree[latest].gate)

\* A store that is enabled with a legacy tree comes to have generations, however
\* often the writers that would migrate it are killed or find the lock taken, and
\* whether or not the gate of that tree is there and describes it
\* (_finish_generation, _refresh_gate; docs/ARCHIVE_RECOVERY.md, "Rollout").  It
\* does not when one is killed as it writes that gate in place (EmbedCrashes): the
\* torn file ends every later writer, until an operator removes it.
MigrationCompletes == (enabled /\ latest = Legacy) ~> latest \in Generations

\* "Bound history while preserving current and actively pinned generations":
\* whatever accumulates, the number of generations returns to the bound.
HistoryIsBounded ==
    []<>(Cardinality({g \in Generations :
                          tree[g].part # "absent" /\ ~Pinned(g)}) <= Kept)
=============================================================================

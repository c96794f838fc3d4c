# AURORA cloud infrastructure: models, runs and proofs

This directory holds TLA+ models of the programs that the AURORA cloud
infrastructure repository deploys: what each of them keeps on disk, the steps in
which it changes it, and what must stay true when several of them run at once,
die half way or are given a late answer. TLC checks the models on small
instances; TLAPS proves the results that matter most for instances of any size.

## 1. Inventory

The repository is an Ansible project. Its own logic is a set of Python and shell
programs started by systemd timers on one cloud host, which share files, SQLite
databases and `flock` locks.

| Component | State it keeps | Operations | Correct when |
|---|---|---|---|
| Archive recovery queue (`aurora_object_store_recovery.py`) | SQLite `jobs`, `repair_requests`, `daily_audits`, `daily_jobs`, `observations`; lane locks; epoch directories | coordinator `tick` (seed, daily audit, recover lost workers, launch), worker (`claim`, `validate`, publish, `complete`, `fail`, `defer`), operator (`retry`, `resume`, `invalidate`, `enqueue`) | no request is lost, no invalidated observation is published, one worker per lane, no family stuck |
| Exact-path repair (`aurora-object-store-repair-from-report.py`) | a pinned snapshot; requests in the queue's database | invalidate, copy missing objects, finish | a copy never overlaps an observation of its family and is followed by two fresh ones |
| Evidence store (`aurora_object_store_evidence.py`) | immutable generations, `latest` link, compatibility gate, commit lock, reader pins | publish a family, refresh the gate, clean up, roll back | a reader sees one complete generation; a crash between any two renames leaves `latest` complete |
| Verification gate, recheck, retention trigger | `verification-gate.json` with per-family streaks | evaluate an observation, wait for confirmation | stable only after two spaced, unexpired, clean observations |
| S3 listing (`aurora_object_store_s3.py`) | page and cursor in one database per epoch | commit a page, resume | every object listed exactly once across restarts |
| Inventory and comparison | three listings, one report | full and incremental comparison | the report describes one settled snapshot |
| Acceptance | an unattended-evidence record | observe | only uninterrupted evidence accumulates |
| Archive dispatch (`aurora-archive-dispatch.py`) | SQLite rows with a flag per destination, the worker lock | enqueue, recent scan, select, deliver to GWS and S3, flag, retain | a flag names the version that was sent; both destinations are served whatever is rewritten meanwhile |
| GWS delivery lock (`aurora-gws-transfer.py`) | an intent lock, a delivery lock, the transfer that inherits it | fast delivery, bulk batches | transfers of this host exclude each other; fast delivery is not starved by bulk batches |
| GWS sync and mirror verifier | manifests, verification report | rsync, verify | verification never passes a file still changing |
| ASS retention | permits | prove twice, issue | a permit follows two current proofs |
| Source synchronisation: flight ingest (`aurora-menapia-flight-sync.py`) | SQLite registry of object versions, canonical files and revisions | list, select, download, register, hand over, flag | nothing received is overwritten; every upload comes to be delivered |
| Source synchronisation: camera, radar and radiometer lanes | cursors, pending lists | live and backfill lanes | no late file is hidden behind a cursor |
| Menapia flight products (`aurora-menapia-flight-products.py`) | images and tables, catalogue, fingerprint state | fingerprint, decode, number, replace each artifact, catalogue, state | a saved fingerprint is of what is shown; readers find the artifacts of listed flights |
| Radar relocation (`aurora-radar-relocation.py`) | copies and quarantine, manifests, release progress, active record, units and drop-ins, mounts | stage, verify, cut over, release, roll back | one good copy always exists; readers see whole days |
| Radar unstaging (`aurora-radar-unstage.py`) | withdrawal journal | withdraw | the removal resumes, the plan is retired for good |
| One-off preservation commands | receipts | copy, verify, prune | one good copy always exists |
| Forecast publication and dashboards | bundle generations, stage marks | assemble, verify, publish | one complete bundle is shown |
| Archive health, release snapshots, standby replication, continuity products | summaries, archives, generations | publish | read-only or rename-based |
| Deployment roles (nginx, tailscale, security, storage, ...) | configuration | none at run time | out of scope |

How they interact. Source synchronisation lands files and enqueues them with
archive dispatch, which delivers them to GWS (through the delivery lock) and S3.
The recovery queue observes each family's three copies and publishes the result
in the evidence store; the gate turns repeated clean observations into stable
parity, on which retention relies. The exact-path repair copies what an
observation found missing, and through the queue invalidates and re-requests the
observations. The flight ingest feeds the dispatcher and the flight products;
the radar relocation changes the files under the paths that the radar consumers
and the senders read. Everything except the SQLite transactions is coordinated by
non-blocking locks, systemd unit states and files replaced by `rename`.

The hard behaviours are those of `PROJECT.json` ("hazards"): a repair, a worker
and the coordinator acting on the same row in any order; a process dying between
publishing evidence and recording it; requests arriving while a family is busy;
launches that arrive after they were given up; snapshots pinned before the world
changed; rows that nobody is due to change again; files rewritten between a check
and the use of what it said; a transfer that outlives the process that started it;
and commands of several steps that are run again after they were cut short.

## 2. Plan

Ordered by the weight of what can go wrong.

Done:

1. **RecoveryQueue**: queue, coordinator, workers, repair, operator. Proofs in
   `RecoveryQueueProofs` and `RecoveryOrderProofs`.
2. **EvidenceStore**: publication as the code's sequence of file operations with
   a crash after each, gate refresh, rollback, readers that pin a generation,
   clean-up. Abstract specification: `EvidenceRegister`, which the detailed
   module is proved to implement. Proofs in `EvidenceStoreProofs` and
   `EvidenceRegisterProofs`.
3. **DeliveryLock** and **ArchiveDispatch**: the two locks of the workspace for
   any number of writers, and the queue whose worker is one of them beside the
   bulk synchronisation. Abstract specification: `DeliveryLock`, which
   `ArchiveDispatch` is proved to implement. Proofs in `ArchiveDispatchProofs`.
4. **RadarRelocation** and **RadarUnstage**: the life of a radar day from staging
   to release, rollback or withdrawal. Proofs in `RadarProofs`.
5. **FlightSync** and **FlightProducts**: ingest of flights and the products
   built from what it has received. Proofs in `FlightProofs` and
   `FlightDayProofs`.

`MC*` modules only give constants their values.

Left, in this order:

6. **Retention** over `EvidenceRegister` and the gate's time: permits issued from
   two proofs that may go stale; with it **VerificationGate** (`evaluate` as an
   operator over observation histories, the recheck around it) and the cache
   clean-up, which relies on the dispatcher's flags.
7. **S3Listing**, **Acceptance**, the incremental inventory merge, the epoch
   checkpoints of the queue.
8. **ForecastPublish**, the camera and radar lanes of source synchronisation,
   standby replication.

Every safety and action property and both refinements of the finished modules are
proved; what a run checks and no theorem states is liveness.

The type invariants are proved (`TypeCorrect`, `StoreTypes`, `DispatchTypes`,
`RadarTypes`, `FlightTypes`) and therefore not properties of the runs.

## 3. RecoveryQueue

### Correspondence

Every queue operation runs in one `BEGIN IMMEDIATE` transaction, so it is one
action. A process that makes several transactions is a program counter: `tick.pc`
for the coordinator, `unit[f]` for the worker of family f, `repair.pc` for the
repair pass. A lock is held over several steps only by a publishing worker
(`commitLock`); the lane `flock` is held exactly while `unit[f]` is in `Holding`,
because the kernel releases it with the process. The other users of the commit
lock (repair decisions, operator commands, gate refresh, snapshot pinning) hold
it for one step and need it free.

| Model | Code |
|---|---|
| `state`, `generation`, `verification_id`, `remaining` | the columns of `jobs` |
| `cooling[f]`, `expired[f]`, `reconfigured[f]` | `next_retry_at > now`, `expires_at <= now`, fingerprint mismatch |
| `sourceError[f]` | `last_error` under the sticky class `source_metadata` |
| `startedAudit[f]` | which daily audits had been requested at `evidence_started_at` |
| `repair_requests` | the table; identity (family, kind, report identity) |
| `daily_audits`, `daily_jobs`, `observations` | the tables; audits are numbered |
| `published`, `clean`, `streak` | verification id and cleanliness in `latest`, streak in its gate |
| `tick.need` | the report and gate that `tick` read before its transactions |
| `repair.dirty`, `repair.identity` | the snapshot that the repair pass pinned |
| `epoch[f]` | the local copy of the row that `claim` returned to the worker |
| `copyMark`, `fresh`, `epochGeneration` | history, read by properties only |

A verification id is the number of its epoch, so `vid > copyMark[f]` says that
its evidence began after the copy. Identifier 0 is NULL in a row, and in `latest`
the evidence that predates the queue; `Init` lets that evidence be clean or not.
Clocks are abstracted to the comparisons the code makes: what needs time (a
cooldown ends, an epoch expires, a launch grace is over) is an action or a choice
of its own, so that every order of clock events is covered.

What a step cannot do by itself is a *disturbance*: requests by the operator,
errors of each class, dirty observations, crashes of a worker or of the repair,
reboots, redeployments, expiry. A run names the kinds it allows
(`Disturbances`) and how many may happen (`MaxDisturbances`); `MaxEpochs` bounds
the observations and `MaxAudits` the daily audits. All four are guards named in
the module and may be any sets and numbers in the proofs.

`MayLookInactive` deserves a word: `recover_workers` asks systemd for the state
of the unit, and a start job that is only queued still looks inactive. Giving up
a launch after its 120 second grace can therefore be followed by the late start
of the same unit.

When a repair pass finds no path that is ready to copy, it finishes each pending
request of the family in a transaction of its own; these are one action here. At
most one of them owns the row's generation (`RequestsDistinct`, proved), so their
order cannot be seen in the row.

### Runs

| Run | Instance | Question |
|---|---|---|
| `recovery_safety` | two product families (symmetric), every disturbance, one of them | are repairs owed, lanes exclusive and superseded epochs never published? |
| `recovery_repair` | one family, everything but source faults, two disturbances, two audits | is a request lost or credited out of order; does a copy exclude observations, use current evidence and get two confirmations? |
| `recovery_liveness` | one family, unattended, one disturbance | does the queue settle? |
| `resumed_copy` | both lanes, a source fault and a repair crash | expected to fail, see findings |
| `manual_invalidate` | one family, one manual invalidation | expected to fail, see findings |

Why the bounds are enough. Rows of different families meet only in the lane, the
commit lock and the repair pass, so that questions about one row need one family,
and questions about lanes need two in the same lane. Every violation we know of
needs at most two disturbances; `recovery_repair` has two, and `recovery_safety`,
where two families multiply the orders of steps, one, which may hit either family
at any point. The safety properties of both are proved for any number of families
and disturbances, so the bounds only decide how early TLC refutes a wrong idea.
Epochs and
audits are bounded so that an observation can be superseded and repeated (two and
three epochs) and two audits can be pending at once; the liveness run has ten
epochs, more than its disturbance can use up, so that the bound never ends a
behaviour.

### Fairness

`FairSpec` assumes what the deployment provides. The coordinator's timer fires
every few minutes whatever happened before, so each of its steps is weakly fair;
`recover_workers` is strongly fair in the choice "every grace is over", because
the clock advances between passes while single passes may still find a launch
young. Started units, the repair service and their subprocesses either proceed or
fail, units have a hard time limit (13 hours for a worker), so their progress is
weakly fair; cooldowns end. The environment owes nothing: no fairness is assumed
of errors, operators or dirty results, and copies are not assumed to work, only
to end.

Under it `QueueSettles` says that once disturbances stop every family ends idle
with stable parity, or blocked on a configuration error, which the code leaves to
the operator; a family that waited for a repair forever would be neither.
`RepairingEnds` says that part alone, for the finding below.

### Findings

*Resumed copies* (`resumed_copy`). The repair service is killed after it
invalidated a family and before it finished. A source fault then moves the family
to a new generation and back into the queue, and its observation starts. The
next repair pass sees its request recorded but not complete, so `invalidate`
returns false and the code falls through to the copy, on the assumption that the
generation is still invalid: the copy runs while the family is being observed.
`recovery_repair` shows that without source faults the assumption holds.

*Manual invalidation* (`manual_invalidate`). `invalidate` puts the family in
state `repairing` under a request of kind manual. If the report that `latest`
shows has candidates that are ready and its repair is already complete, each pass
skips the family without finishing the manual request. `retry` refuses an active
family, so nothing in the program ends the state.

Each run finds the violation in a handful of steps; the quoted comments are in
`PROJECT.json`.

### Proofs

`FamiliesAssumption`, `ErrorsAssumption` and `BoundsAssumption` are all that is
assumed of the constants: the placeholders are not members of the sets they stand
beside and the bounds are numbers. The catalogue may be infinite.

- `TypeCorrect`: `TypeOK` is inductive. The part that is not bookkeeping is that
  `remaining` stays a natural number.
- `RepairingOwed`: `RepairingIsOwed` is not inductive. To know that a new
  generation starts without a request one needs `RequestsNotAhead` (no request
  is of a later generation than its row), and to know that finishing a request
  leaves none for its generation one needs `RequestsDistinct`. Their
  conjunction `RequestInv` is. The argument turns on two lemmas: `NewGeneration`
  for steps that fence a family, `FinishRequests` for those that finish requests,
  where only the owner of the current generation may requeue the row.
- `CheckpointGenerations`: a step that changes a row's generation drops its
  epoch, and `claim` issues one in the current generation.
- `PublicationFenced`: between validating under the commit lock and switching
  `latest` the worker must not lose its row. `FenceInv` says that a publishing
  worker holds the lock and owns its row. It is preserved because every other
  step that touches a row holds the lock, or finds the row in a state other than
  `running`. The exception is `repair_finished`, which needs no lock: it requeues
  only a row whose generation it owns, which by `RepairingIsOwed` is repairing.
  So the second theorem is needed for the fourth.

The remaining safety properties are proved in `RecoveryOrderProofs`. Few steps
touch what they speak of: `MostStepsAreRoutine` says that all but a daily request,
a claim and a completion issue and record no evidence, make no row idle and enter
no lane, and each theorem then only looks at those three.

- `EpochsRetired`: `EpochsAreOwn` says that epochs are issued in order to one row
  each and that recorded ones are used up, so `complete` never meets its own
  record again and always takes the row's epoch away.
- `LanesExclude`: a unit enters its lane only by a claim, under the lane's lock,
  whatever became of the launch that started it.
- `RequestsAreServed`: a row becomes idle only in a completion that owes nothing
  and credits the last audit; a daily request makes every idle row queued.
- `CreditsInOrder`: `CreditsAreOrdered` says that a family's credited audits are
  a prefix of those requested, each credited by later evidence than the one
  before, and all by earlier evidence than the epoch the row has now.
- `CopiesExclude`, `CopiesMatch`, `CopiesAreConfirmed`, `PublishedUncopied`: these
  assume `"source" \notin Disturbances`, and the finding on resumed copies shows
  that the first needs it. `CopyInv` is what the comment in the code relies on: an
  unfinished report request keeps its family repairing and is for the evidence in
  `latest` (`RepairIsOwn`); a repairing family has no epoch, and any epoch was
  issued after the last copy (`EvidenceIsFresh`). The second is needed to keep
  the first, because only a row that runs an epoch can move `latest`
  (`OnlyWorkersPublish`). A manual invalidation on top of a report request leaves
  the row repairing, so the finished copy need not own its generation.

Only liveness under fairness (`QueueSettles`) stays with TLC.

### Left out of RecoveryQueue

Epoch directories and `cleanup_orphan_epochs`; `status.json`, heartbeats and the
intervention counter; attempt counts and the length of delays; shadow mode; what
collection reads from GWS and S3. Publication is one step under the lock here;
EvidenceStore has the steps it consists of.

## 4. EvidenceStore

### Correspondence

The store is a directory: `generations/<uuid>` trees that are written once,
`latest`, which is a link to one of them or, on hosts that have not migrated, a
directory (the *legacy* tree), and a compatibility copy of the gate elsewhere.
Three locks order the processes: `storage.lock`, the commit lock
`.inventory.lock`, which snapshots take shared and everybody else exclusively and
never waits for, and `.pin.lock` in each generation.

| Model | Code |
|---|---|
| `latest`, `order`, `tree` | the link or directory, `generations/` by modification time, and per tree its report (`jobs`), gate and pin file |
| `tree[t].part` | whether the file system shows nothing, all or a part of the tree |
| `legacyName` | `latest`, `.latest-pointer-*` or `legacy-latest-*`: where the legacy tree is |
| `compat` | the file at `gate_state_path` |
| `torn` | the gate in the legacy tree was opened for writing and is not complete |
| `abandoned` | `.incoming-*` stages whose owner died |
| `commit`, `sharers`, `storage` | the holders of the locks |
| `pc`, `made` | a family publishing (`_publish_family`) or the gate being refreshed (`_refresh_gate`): progress and its new generation |
| `want`, `unsettled` | the evidence a worker brings and whether the queue has recorded it, so that it may be brought again |
| `rpc`, `rpath` | `read_snapshot`: progress and resolved path |
| `cpc`, `todo` | `cleanup_generations`: progress and the rest of its list |
| `published`, `counted`, `evaluated` | history, read by properties only |

One action is one thing another process can see or a crash can separate from the
next: take the lock; rename the finished stage (`Generate`, which contains the
merge and the evaluation, because both are private to the stage); write the old
gate into the legacy tree, which `_write` does in place and which is therefore two
steps (`EmbedOpens` truncates the file, `Embed` completes it); replace or exchange the pointer (`Switch`);
give the legacy tree its name (`KeepLegacy`); replace the compatibility file and
unlock (`Conclude`). `rmtree` is two steps, the first of which may or may not
have removed the pin file. A crash releases the locks at any of these points. A gate
that a crash left truncated cannot be parsed: writers end at it (`MayLoad`,
`LoadFails`), and readers cannot open the tree.

Evidence of a family is its verification id, a number that grows with completion
time; a report is the ids by family, and the hash that binds a gate to a report
is that value. `Confirmations`, `IsNew` and `Evaluate` are the counting core of
the gate's `evaluate`; which families fail their comparison and how many
confirmations have aged are choices of each evaluation, limited to the families
in `Unsteady`. `NewName` stands for a uuid: it picks a name that is free, and
writers wait while none is left (`Generations` is a bound). `MaxId` bounds the
evidence per family, `MaxCrashes` and `MaxRollbacks` the crashes and rollbacks,
`CleanerCrashes` says whether the coordinator may be killed while it removes, and
`EmbedCrashes` whether a writer may be killed while it writes the legacy tree's gate.

`EvidenceRegister` is what users are promised: one register of report and gate. A
publication replaces one family's evidence by newer evidence, a refresh changes
judgements only, a reader holds one value from opening to closing. `StoreIsRegister` maps the
register to what `latest` leads to and a reader's value to the tree it resolved,
so that it fails when a tree in use changes in any way, when a merge
drops a family, or when a pointer shows a tree before its gate is there.

### Runs

| Run | Instance | Question |
|---|---|---|
| `evidence_store` | two families (one unsteady) and a refresh, three names, two ids, one crash of anything, one rollback | is what was published kept, is the last judgement seen, and is nothing counted twice? |
| `evidence_recovery` | one family, a refresh, one reader, four names, two crashes of writers | is the store a register, is `latest` always complete, do readers keep what they pinned, does the compatibility file catch up, the history return to its bound and a legacy tree come to be migrated? The writers are not killed in `Embed` |
| `evidence_history` | one family, four names, and the clean-up may be killed | expected to fail, see findings |

Why the bounds are enough. `Kept` is two, the least the code allows, so three
names suffice for a clean-up to have something to remove while a publication
is under way, and four for two abandoned publications to be newer than `latest`. Two families are needed
where a merge matters and nowhere else. Two ids let evidence be counted, dropped
by a failure and superseded. One crash separates any two steps of a publication
or a removal; two leave two renamed generations that were never switched to, so
that `latest` is the one the age alone would remove. Combinations beyond that are
left to the theorems, which have no bound.

`ReadersSeeLatestJudgement` is stated for stores that were not rolled back, for
the reason given under observations.

### Fairness

`FairSpec` assumes that a started writer, clean-up or reader goes on, that a
writer which finds the commit lock free again and again gets it once, and that
the refresh and the clean-up are attempted for ever: both hang on timers and
`ExecStopPost`, whatever the last attempt did. Attempts that start with the lock
free are strongly fair because the lock is held for moments while attempts are
minutes apart. A clean-up is owed only by a coordinator that can read the snapshot
(`CoordinatorReads`), because `tick` reads it first. Publications, crashes and the
operator owe nothing.

### Finding and observations

*History* (`evidence_history`). The coordinator's unit has two minutes. If it is
stopped inside `rmtree` after the pin file of a generation went and before the
tree did, each later `cleanup_generations` fails when it opens that pin file, and
`tick` catches only `BlockingIOError`: this tree, the older ones and the
abandoned stages stay, and what `tick` does after the clean-up (the acceptance
record) no longer happens. `evidence_recovery`, where the clean-up is not killed,
shows the rest of the bound's argument to be right.

*Migration* (no run of its own). The first writer of an enabled store rewrites the
gate of the legacy tree before it exchanges that tree for a pointer. If it is killed
between opening that file and closing it, `latest` is still the legacy tree and its
gate is empty. `_load_previous` and `_read` parse the file whenever it exists, and
nobody catches the error: every publication, refresh and snapshot fails, and so does
every `tick`, until an operator removes the file. `evidence_recovery`, where writers
are killed everywhere else, shows that migration completes; with `EmbedCrashes = TRUE`
in its configuration TLC shows this behaviour as a counterexample to
`MigrationCompletes`. `evidence_store` lets them be killed here as well, with safety
unharmed.

*Gate after a rollback* (no run). Publication embeds the old gate in the legacy
tree so that a rollback restores a bound pair. If the programs stay installed after
`rollback_legacy` with recovery disabled, `_refresh_gate` writes its judgement to the
compatibility file alone, and every reader, the next refresh included, prefers the
embedded one. No document promises otherwise, so that this is listed among the
hazards and not as a finding.

### Proofs

`NamesAssumption`, `BoundsAssumption`, `NoGateAssumption` and `NoneAssumption` say
that the placeholders are not members of the sets they stand beside and that bounds
are numbers. The last is about `None`, which in the register is what a reader has
that holds no snapshot, and so must not itself be one.

- `StoreTypes`: `TypeOK`, for which one must know that a writer past the rename
  has a generation and a removal something to remove; a gate holds at most
  `REQUIRED` confirmations of a family (`ConfirmationsType`).
- `LatestAlwaysComplete`, `PinsProtect`: neither is inductive. `StoreInv` adds
  `LockIsHeld` (a writer from the lock to the end and the clean-up hold the
  commit lock, and then no reader holds it), `RenamedIsFinished` (a generation
  whose writer is between rename and switch is complete: that is why the pointer
  may be moved to it), `ReadersAreProtected` (a reader that has resolved the
  pointer but has not pinned yet holds the lock and has resolved what `latest`
  is now), `RemovalIsSafe` (what is being removed is neither current nor pinned:
  no pin can appear while the clean-up holds the lock) and `LegacyIsKept` (no part of
  the legacy tree is removed as long as it has a name, so that a rollback leads to a
  complete tree). Nothing is said of the legacy tree's gate, which may be torn. TLC agrees with `StoreInv` on instances of this size.

`EvidenceRegisterProofs` has the judgement properties and the refinement. None of
them is inductive; they are read off one invariant, `RegisterInv`
(`RegisterInvariant`), with which TLC agrees on the instance of the run
`evidence_store`, as it is and with a reader added:

- `RenamedFollows` is what publication is about: from the rename on, a generation
  carries the reports that `latest` shows with the newer one of its own family, and
  no step of anybody else changes either before the switch, because the writer
  holds the commit lock (`StoreInv`). `WantCovers` relates that to the history
  variable `want`. From it follow `PublishedKept` and that a switch is a publication
  of the register.
- `HeldIsBound`, `LegacyIsLegacy`: a reader that has resolved the pointer has a
  finished generation with its gate, or the legacy tree together with the lock that
  keeps writers away from it. Reports and gate that a reader takes in two steps
  are therefore one value of the register, and stay it.
- `EnabledFirst`, `JudgedLast`: the last evaluation made is in the generation that
  `latest` names or, while that is the legacy tree, in the compatibility file, to
  which an embedded copy is equal: `LatestJudgementRead`. It is stated, like the
  property, for stores that were not rolled back.
- `CountedBelow`, `RenamedCounts`: watermarks cover all that was ever counted, also
  in a gate that was renamed and not yet switched to. Such a gate may be lost in a
  crash and its observations judged again. `ObservationsCountOnce` needs that they
  were not counted the first time, and that a second evaluation starts from a
  watermark which excludes what was.
- `RegisterImplemented`: initial states map to initial states, and `StepOfRegister`
  has a step for each action. Rename, embedding (a torn gate has no reader), exchange of the legacy name, the
  compatibility copy, clean-up and crashes are invisible; switching the pointer is
  `Publish` or `Refresh`, judging the legacy tree `Refresh`, a rollback `Restore`,
  and a reader's resolution of the pointer `Open`.

Model-checked only: liveness, `CompatCatchesUp`, `HistoryIsBounded` and
`MigrationCompletes`.

### Left out of EvidenceStore

Artifact files and how they are linked or copied; the free-space reserve; `fsync`,
and with it crashes of the machine that lose renames; the creation of
`.inventory.lock`; the parts of the gate's `evaluate` that concern time, the
single comparison failures, GWS and domains.

## 5. DeliveryLock and ArchiveDispatch

### Correspondence

`DeliveryLock` is the helper `aurora-gws-transfer.py`, which both writers of the
group workspace start in place of rsync. `session[w]` is how far the helper of a
writer is: `asking` polls the intent lock, `waiting` holds it and polls the delivery
lock, `held` has both, `copying` has a running child. A fast helper takes the intent
lock shared and keeps it to the end; a bulk one takes it exclusively, without
waiting, and opens it again before it starts its child (`BulkOpensGate`). The child
inherits the descriptor of the delivery lock: `orphan` is a child whose helper was
killed and which holds the lock until it ends.

The lock ends with the local rsync; the receiver at the other end need not. The
program says so ("forced termination still needs a receiver check",
`aurora-gws-transfer.py:72-75`), and `docs/ARCHIVE_SERVICES.md:513-515` names the
cases: forced termination of the process group, host failure and SSH failure, after
which the operator is to "confirm no receiver from that attempt remains". So every
transfer that does not end by itself, by a failure (`BreaksOff`), a kill of its
service (`KilledWithChild`) or the unknown end of an orphan (`OrphanEnds`), either
takes its receiver with it or leaves it in `remains` (`MayRemain`). A receiver that
was left holds no lock. It may publish any of what it was sent, path after path and
much later (`ReceiverPublishes`), until it ends (`ReceiverGoes`). The operator's
check is not modelled: nothing waits for it.

`ArchiveDispatch` extends it with one writer of each kind.

| Model | Code |
|---|---|
| `rows` | the table `deliveries`: the version named and a flag for each destination |
| `worker.at`, `.batch`, `.stable`, `.changed` | the run of `dispatch` that holds `worker.lock`: the rows as they were selected, those found unchanged and changed by the last check |
| `file`, `now`, `settled` | the raw tree: the stamp of each file, the last one written, and the last one older than the settling age |
| `Enqueue` | `enqueue` and the recent scan (one upsert) |
| `Select` … `Finish` | `select_batch`, `_rows_still_unchanged`, `_mark_changed`, `deliver_gws`, `_mark_destination`, `deliver_object`, retention |
| `Discover` … `SyncEnds` | a run of `aurora-gws-rsync-raw` through the same helper |
| `listed[w]` | what the running rsync of a writer read when it started and publishes when it ends (`--delay-updates`); for a receiver that was left, what it has not published yet |
| `gws`, `object` | the workspace, and the newest version put in the object store |
| `sent` | history: the version that a transfer under the lock put in the workspace last |
| `owed` | history: the newest version queued for a path |

A version is a modification stamp; the code compares size and second together and
would not tell apart two versions that agree in both. The dispatcher's four checks
are four actions, so that a file may be rewritten, removed or queued again between
any two of them, and so may the row. A transfer that fails has published any part
of what it listed; a receiver that it leaves has the rest. Object keys are versioned
by the store; `object` only grows because nothing else that writes raw objects through this lock puts an older file;
the object-mirror copy job (`aurora-object-store-copy.j2`) is not under the lock and
is outside the model.

`DeliveryLock` is the abstract specification: every step of `ArchiveDispatch` is one
of its steps or leaves the locks alone (theorem `DispatchUsesLock`). The runs check
its properties where they are used, so that the composition can break them.

What is claimed with receivers in the model. The lock keeps two transfers *of this
host* apart, whatever is killed: of two that run at once one is a receiver that was
left (`OneTransfer`). What the transfers under the lock send never goes back, and the
workspace itself goes back only by the hand of such a receiver (`GwsNeverRegresses`).
Where one has put a path back (`PutBack`: the workspace is older than what was sent
last), the flag of the row is true of what was sent and not of what is there, and no
row asks for the path any more; `FlagsAreTrue` and `NothingQueuedIsLost` leave
exactly those paths out for the workspace, and none for the object store. That such
a path does not stay put back is part of `ArchivesCatchUp`: the bulk scan compares the
tree with the workspace itself and not with the queue's flags.

### Runs

`delivery`: two files, one fast and one bulk writer, one receiver that can be left,
two stamps, batches of one file, a deadline for the fast lane, and one fault (a file
removed, a helper or a service killed, a deadline passed, a receiver left; the choice
is free, and a kill that leaves a receiver is one). Transfers and uploads fail as
often as they like besides. It checks everything of this section.

Why the bounds are enough. With two files and batches of one there is something to
order and something left over. Two stamps rewrite a file once at any point of a
run; flags that survive a rewrite, old lists published late and lost wake-ups all
show with one rewrite. A receiver needs one fault to be left, one rewrite to be out
of date and one later transfer to be overtaken, which two stamps and one fault give.
The safety properties were checked with two faults as well (3.5 million states), the
liveness ones only with one, and the theorems have no bound. The deployed deadline is
0 (`wait_seconds`, no deadline); `WaitExpires` allows one because the program does.

### Fairness

The timer starts the worker again and again, time passes (`Settles`), and a process
that runs goes on: weak fairness. Two things are strongly fair. The polls for the
locks need it because bulk batches take and leave the lock between two polls; once
the intent is held no further batch can, which is what `FastIsServed` tests.
Transfers and uploads need it because each may fail any number of times; `Transfers`
asks only that they do not all fail for ever when one could succeed again and again
(the hosts are up). The source of files, removal, kills and `UploadFails` owe nothing.

For `ArchivesCatchUp` the bulk timer (`OnCalendar`, `Persistent=true`) starts a
discovery again and again, and a receiver that was left ends, since its connection is
gone. The last is an assumption about the workspace host: `ServerAliveInterval` ends
this side of a dead connection, and nothing in the repository ends the other.

### Observations

- `ArchivesCatchUp` is stated for trees in which every queued file exists in the end.
  The row of a file that is gone stays pending for ever and keeps its place among
  the newest: with at least `4 * max_files_per_run` such rows nothing else is
  selected. In the deployed configuration that is many thousand rows.
- A row is forgotten weeks after it was delivered and the scan looks back hours, so
  that a version is not queued twice; `Enqueue` has that as its guard.
- A row flagged for the workspace is not queued for it again when a receiver that was
  left has put an older version back. Until the next full bulk scan comes through
  the flag and the workspace disagree, which is why the document's receiver check
  matters.

### Proofs

- `LockInvariant`, `TransfersExclude`, `BulkWritersYield`: for any number of writers
  of both kinds. `LockInv` says that a helper holds a lock exactly when its progress
  says so, and that the delivery lock is the orphan's exactly while there is one.
  `TransfersExclude` is about this host's transfers; it holds beside any number of
  receivers that were left, which it cannot exclude and does not claim to.
- `DeliveriesExclude`: from the above by `DispatchUsesLock`.
- `WorkspaceAdvances`, `FlagsAlwaysTrue`, `QueuedIsKept`: one invariant,
  `DispatchInv`. `ListsAreFresh` is its heart: what the running transfer has listed
  is at least what was ever sent, what the workspace holds and what any receiver that
  was left still has to publish. It needs mutual exclusion on this host, because a
  second transfer could send in between, and `FilesAreNewest`, because the list is
  made from the tree. `BatchIsSent` says what the progress of the worker means for
  its batch (a stable row was listed in its version and sent before its flag),
  `FlagsAreSent` that a flag is true of what was sent, and `OwedIsNamed` that a row
  names at least what was last queued or is flagged. A path of the workspace is older
  than what was sent only when it was put back, which is what the statements about
  the workspace are left with.

Model-checked only: `FastIsServed` and `ArchivesCatchUp`.

### Left out of DeliveryLock and ArchiveDispatch

The age at which rows are forgotten, byte limits, the dashboard refresh and the
maintenance commands; how rclone and rsync verify what they send; the batches of
the shell script beyond their order; the mirror verifier.

## 6. RadarRelocation and RadarUnstage

### Correspondence

`RadarRelocation` is `aurora-radar-relocation.py`. Each day has an original
directory (`place`: at the logical path, or in quarantine), what is left of it
(`kept`), a copy (`copy`, per file: a version, `Partial`, `Damaged` or nothing),
verification evidence (`manifest`) and release progress (`progress`). A version
stands for bytes, size and time of a file. `active` is the cutover that
`active.json` names; `unit`, `dropin` and `enabled` are the files of the service
manager and `loaded`, `mounted` what it knows of them. `Texts` has `torn` because
units and drop-ins are written in place: a kill leaves an incomplete file.

One lock is shared by stage, verify and the senders and held alone by cutover,
release and rollback (`Exclusive`). Each command is its sequence of durable
changes: stage copies a file to a temporary name, renames it, and writes the
manifest; verify reads everything and writes the receipt, with the mount when it
read through one; cutover writes the record, then for each day renames the
directory, makes the mount point and writes the unit, then writes the drop-in,
reloads and mounts; release makes, for each file in name order, an intent, the
unlink and the record of it; rollback is the reverse of the cutover and refuses
when a file was released. It verifies one day after the other and saves each day's
receipt before it looks at the next, so that one which stops there has replaced the
receipts of some days (`RollbackStops`). `RadarUnstage` (`aurora-radar-unstage.py`) removes the
copies of a plan that was never cut over, behind a journal with the same
discipline; the existence of the journal makes the other commands refuse.

What the operator must do is a premise, as in the documentation: the launch hold
before cutover, release and rollback, no running consumer, the reviewed plan;
`ChangesHold` lifts the hold only after the guard. Senders take the lock shared and
go ahead without the guard when there is no active record. Damage strikes a copy
while its original is kept, and not between the last check and the unlink, a window
no program can close.

### Runs

| Run | Instance | Question |
|---|---|---|
| `radar` | two days (symmetric) of one file, two versions, two cutovers, three faults | is a file ever lost or a reader shown an incomplete day; is anything left without a record; is a withdrawn plan retired and its removal resumable; is anything unlinked before a full read under the active cutover? |
| `radar_resume` | one day of two files, one fault | expected to fail, see findings |

Both set `CHECK_DEADLOCK FALSE`: the operator may stop at any time, and after two
cutovers and the faults there may be nothing left to do.

Why the bounds are enough. Two days are needed for a cutover that stops between two
days, and two cutovers for evidence of the first to be presented in the second. The
order of files within a day matters for release alone, whose run has two. A fault
per command of the longest chain (stage or verify, cutover, rollback) gives three.

### Finding and observations

*Release that is resumed* (`radar_resume`). See `PROJECT.json`: a release killed
between the unlink of a later file and its record drops the intent when it is run
again, while it passes the files released before, and then refuses the missing file.
Nothing is lost (`NothingIsLost` holds with any number of files, by proof); the
release and each later verification stay refused until someone edits the record.

- Rollback re-reads unit and drop-in and raises when either differs from what a
  cutover writes. A cutover that was killed while writing one of them leaves it
  torn, so that the rollback of an interrupted cutover may refuse
  (`RollbackRefuses`) until the cutover was run again and finished.
- A damaged copy of a day that is not released blocks the rollback of all days,
  although the rollback would discard it.
- Two commands under the shared lock that save the same record write through one
  temporary name. The premises keep them apart; the model has one of each.

### Proofs

`RelocationAssumption` and `EntryAssumption` say that bounds are numbers and
placeholders are what they must not be confused with. The number of days and files
is free. All seven theorems follow from one invariant, `IInv`, whose parts need one
another:

- `CommandIsAlone` and `UnitsStand`: a command that moves something has the record,
  the hold and the lock; what is enabled or mounted has its unit.
- `MissingIsElsewhere`, `ReleaseIsReady`, `ReceiptIsRead`: an original is missing
  only in a quarantined day whose progress is not empty, and between the intent and
  the unlink what was checked stays true. This is `NothingIsLost`
  (`NoFileIsLost`) and `ReleasedAfterFullRead` (`ReleasedOnlyAfterFullRead`).
- `CopiesAreThere`, `LiftedHasGraph`: a day that is not at its logical path has all
  of its copies, and without the hold a relocation has its graph, so that a reader
  can only be running where the bind is: `ReadersSeeWholeDays`
  (`WholeDaysAreRead`).
- `InactiveMeansInPlace` (`NoRecordMeansInPlace`) is needed by senders, who skip the
  guard, and by the withdrawal.
- `JournalIsTrue`, `VerifiedIsWhole`: the journal names what is gone, nothing is
  staged beside it, and its plan is not active: `WithdrawnStaysInPlace`
  (`WithdrawnPlanIsRetired`) and `WithdrawalIsRecorded` (`WithdrawalCanResume`).

### Left out of the radar modules

The supervisor of the senders and the inspection of open files, which are premises
of each command; a sender whose supervisor was killed; capacity checks; the one-off
preservation commands.

## 7. FlightSync and FlightProducts

### Correspondence

`FlightSync` is `aurora-menapia-flight-sync.py`. `upstream` is the provider's bucket:
an object has a stamp, which stands for its whole source fingerprint, and bytes,
named by the upload that had them first, so that an object may return to earlier
bytes. `rows` is the table `object_versions`, `file[k][0]` the canonical file of a
key and `file[k][s]` the revision received with stamp s. A run lists (`SyncBegins`),
then per object, newest first and at most `MaxObjects`, downloads to its path
(`Receives`, which contains the comparison with what is there) and inserts the row
(`Records`); then it hands the unflagged paths to the dispatcher (`Enqueues`), flags
the rows (`Flags`) and reports. Uploads go on meanwhile, and a download that finds
an object of another size than the one listed is refused (`IsRefused`). Between any two
steps the run may be killed. What the limit of a run leaves for later ones is
`sync.left`; the run is then a success as well, "success_with_backlog", and sets
`last_success_at`, so `ReportsSuccess` is that it has not failed. `Dispatches` is FALSE
where the dispatcher is neither installed nor required, which only a host that is not
production may be: paths are then never handed on, and the run succeeds without. The
run has it TRUE, the theorems hold for both.

`FlightProducts` extends it with `aurora-menapia-flight-products.py` for one day. A
flight is a set of streams, the file of a stream a table or a binary; its
fingerprint is the set of canonical files present. `Fingerprints`, `Decodes` (or
reuse, skip, rejection), `Numbers`, `PublishesPlot`, `PublishesDetail`,
`PublishesSummary`, `CopiesLatest`, `WritesCatalog`, `SavesState` are the replacements
of files in the code's order; a build that fails or is killed stops between two.
An artifact is told by the files it was read from and its number of the day.
`Chosen` takes the readable table of a stream or, failing that, its binary. The code
takes the first file of each kind by name and tries no second
(`read_preferred_stream`), which is the same thing as long as a stream has at most one
file of each kind. The provider names them so (`payload_DRN_*`, `payload_SN0122`,
`payload_SN0123`, each as CSV or binary), and `OneFileOfEachKind` assumes it, in the
run and in every theorem about the products.

### Runs

`flight`: three keys, two flights (one with a table and a binary for one stream),
three uploads of which the second carries damaged bytes, one object per run, one
fault (a failed download, hand-over, decoding or transaction, or a kill of either
process). `SuccessIsEarned` covers runs with a backlog as well. Three uploads let two files of one flight arrive around a build and an
object be replaced; one object per run makes the ingest take several runs; two
flights are the least for a number to change when an earlier flight arrives late.
The run with two faults passes as well, with about four times the states, and is too
long to keep.

### Fairness

Weak fairness of both programs: their timers (`OnUnitActiveSec` for the ingest,
`OnCalendar=*:00/30` for the products) start them again whatever the last run did, and
a run goes on or ends. Faults are bounded, uploads
owe nothing.

### Observations

None of these contradicts a document; they bound what the properties say.

- The canonical file of a key is its first content. Corrected uploads are kept as
  revisions and archived, and never reach the products.
- A registered version whose file has vanished is downloaded in every run and its
  row is not repaired; the model has no action that removes received files.
- A version that was replaced between the listing and its download may be registered
  with the bytes of the object that replaced it, when that has the same size: the
  downloaded bytes are compared with the listed size and with no hash of the provider.
  `ShownIsExact` says how far this can go. It is only ever a version that the bucket
  no longer shows, the one that it shows is never known by other bytes, and so it is
  still received under its own version (`FlightsCatchUp`).
- A revision that was received and not registered may be overwritten by the next
  run (`ReceivedIsImmutable` speaks of canonical and registered files).
- Selection is newest first among what is not registered: `MaxObjects` objects that
  fail permanently keep older ones out for ever.
- The provenance manifests that were collected by a run that dies before it writes
  them are not written later.
- A plot may be replaced by one read from less when a build was killed between the
  plot and the detail, since the next build compares with the detail.
- A day that fails after some of its artifacts were replaced may show details with
  new numbers while the catalogue keeps the old ones until the next build.

### Proofs

- `RegistryAlwaysTrue`, `ReceivedNeverChanges`: from `IngestInv`, which says where
  the object in hand may be stored (`PathIsVersion`, `TodoIsNew`, `EntryIsStored`) and
  that flagged paths were handed over (`FlagsAreQueued`).
- `ShownAlwaysExact`: `ShownInv`. No stamp that is listed, in hand or recorded is later
  than that of the bucket (`NothingIsAhead`), so an upload makes a version that nothing
  has yet, and the object in hand, if its version is still shown, is what the bucket
  has (`HandIsExact`).
- `FlightTypes`, `ReadersAlwaysFindPlots`: `ListedIsShown` follows the order of
  replacements (plot before detail before catalogue).
- `SavedAlwaysDecoded`: `PrintsAreRead`. Canonical files are never overwritten, so that
  a reading from a set of files stays the reading of that set; along the build the
  fingerprint that will be saved is of files from which proposal, plot and detail
  were read, or of a subset of them.
- `ProductsNeverShrinkEver` (`FlightDayProofs`): `NeverLess`. Was-read-from-no-less is
  an order as long as canonical files are never overwritten (`GoodIsItself`,
  `NothingIsGood`, `GoodFollows`), and in it the catalogue and the image of the day
  are below the details (`DetailsLead`), the products that a build falls back on lie
  between the two (`ListedIsKept`), and what it is about to write is above
  (`NewIsMore`). Plots are not in the property, for the reason given above.
- `SuccessAlwaysEarned`: for the ingest, `NothingIsLeft` follows each listed object
  that is not left to a later run through the run. For the build the hard case is the one that finds nothing to do
  and leaves the image of the day alone, after other builds were cut short between
  details, image and state. It may, because of `DayIsShown`: when the saved
  fingerprint of every flight is that of its files, image and details agree and are
  numbered in order. Whatever a build that was cut short has published belongs to a
  day in which some flight has files whose fingerprint is not saved, and the next
  build decodes that flight or reports a failure. `WhilePrinting`, `WhileReplacing`,
  `BeforeState` and `BeforeSuccess` carry this through a build; with `SavedIsComplete`
  and `FoundFirst` they make up `DayInv`. TLC agreed with `NeverLess` and `DayInv` on
  the instance of the run with one fault and with two.

Model-checked only: liveness, `FlightsCatchUp`.

### Left out of the flight modules

What is computed from the streams; days other than the one modelled; the choice
between several copies of one bundle (`bundle_preference`); classification of a
campaign, quarantine of damaged files and manifests; the status and log files.

## 8. What is not proved and not modelled

Every invariant, action property and refinement that a passing run checks is stated
by a theorem. Liveness under fairness is beyond the prover and stays with TLC:
`QueueSettles`, `CompatCatchesUp`, `HistoryIsBounded`, `MigrationCompletes`,
`FastIsServed`, `ArchivesCatchUp` and `FlightsCatchUp`, on the
instances and under the fairness of their sections.

Three hazards of the list have no property: the clean-up of epoch directories from a
list read earlier (the directories are not modelled), the gate after a rollback
(section 4), and retention permits that go stale (planned). Components without a
module, with the reason, are listed in `PROJECT.json`; the first of the plan's
remaining items is the retention.

# sito-dns: TLA+ specifications

`sito` is a filtering DNS server with an administration API and an
active-passive replication of its configuration. This directory keeps formal
models of the parts where order, crashes and concurrency decide correctness,
the TLC runs that check them on small instances, and TLAPS proofs for every
size of the instance.

## The system

| Part | Code | Model |
| --- | --- | --- |
| HA replica | `sito-ha/src/slave` | `HaSlave` |
| HA master, bundle sequence | `sito-ha/src/master/coordinator.rs`, `sito/src/server.rs` | `HaMaster` |
| HA master, sessions | `sito-ha/src/master/coordinator.rs` | `HaCoordinator`, `HaReplication` |
| Configuration apply pipeline, file watcher, listener rebinding | `sito-api/src/config_apply.rs`, `config_writer.rs`, `handlers`, `sito/src/server.rs` | `ConfigApply` |
| Filter engine, list downloads | `sito-filter` | planned |
| Query pipeline, cache, upstream health | `sito/src/pipeline.rs`, `sito-cache`, `sito-upstream` | planned |
| DNSSEC validation, chain cache | `sito-dnssec` | planned |
| Clients, policy, schedules, rewrites | `sito-clients`, `sito-rewrites` | planned |
| Authentication, sessions, tokens | `sito-api/src/auth` | planned |
| Query log writer, statistics, rate limiter, updater, ACME | `sito-stats`, `sito-transport`, `sito-api/src/updater.rs` | planned |
| Listeners, upstream transports, TLS | `sito-transport`, `sito-upstream` | not modelled: I/O loops over libraries |
| Wire format, list and configuration parsing, CLI, page rendering | `sito-proto`, `sito-core`, `sito/src/cli.rs`, `sito-api/src/ui` | not modelled: data conversion without state |

The parts meet in three places. An admin write goes through the apply pipeline,
which switches the live components and, on a master, publishes a bundle. A
replica that receives a bundle applies it through the same pipeline. The query
path reads the components while they are being switched. `HaReplication`
composes the two HA sides. `ConfigApply` and the HA modules share the apply lock:
`HaMaster` keeps the lock and abstracts the apply, `ConfigApply` keeps the apply
and leaves out publishing.

## Replication (crates/sito-ha)

| Module | Code | What it models |
| --- | --- | --- |
| `HaSlave` | `slave/worker.rs`, `slave/state.rs`, `bundle.rs` | the replica: connection loop, the decision list for a `ConfigPush`, staging, apply, configuration file, watermark file, fork latch, readiness |
| `HaMaster` | `master/coordinator.rs`, `sito/src/server.rs` (`init_ha`), `sito-api/src/state.rs` (`publish_bundle`) | the bundle sequence: startup reconciliation, publishers with `apply_lock` and `persist_lock`, the state file, promotion |
| `HaCoordinator` | `master/coordinator.rs` | the sessions of one replica: handshake, tracking entry, bounded push queue, fallback task, catch-up pushes, Acks, divergence records, resync |
| `HaReplication` | all of them | `HaCoordinator` and `HaSlave` joined by WebSockets, with crashes, broken links, lost state and operator actions |

### How state and actions correspond

*HaSlave.* `wmDisk` is `ha_watermark.toml`, `wm` its copy in the tracker,
`current_version`, `current_term`, `state`, `degraded_reason` and `connection_error`
are the fields of `SlaveStatusTracker`, `live` and `disk` the configuration served and the one in
`config.toml`. `pc` is the place in `spawn_slave_worker` and
`handle_master_message`. Connecting has two steps, because the code forgets the last
connection error when the handshakes are done (`Handshake`) and changes the state
only when Hello is sent (`SendHello`), and the link may break in between. `HandlePush` has one disjunct per early return of the
decision list (`RefuseForked`, `RefuseStaleTerm`, `RefuseTermReset`,
`RefuseStaleVersion`, `DetectFork`, `AckDuplicate`, `AckWithoutWatermark`) and
`StagePush` for a push that goes on. Applying is split where a crash or a failing
write leaves something behind: `ApplyAndPersist`, then `PersistWatermark` or
`PersistWatermarkFails`, then `SendAck`. Signature and payload hash are
abstracted to equality of payloads; `Verifies` keeps the checks that compare a
push with the watermark.

*HaMaster.* A task is an admin write, which holds `apply_lock` until it has
published, or a reload, which has released it. A publisher reads the document,
reads version and term and builds the bundle, takes `persist_lock` and checks the
bundle against the active one (`PrepareBundle`, `RefuseBundle`), writes the state file
(`PersistBundle`, `PersistFails`) and makes it visible (`PublishPrepared`).
`published` is a history variable: every bundle that became visible.
A request whose peer leaves is dropped at one of its awaits (`Cancel`) with its locks.
A state write it had handed to the blocking pool goes on (`orphans`, `OrphanLands`,
`OrphanFails`). All writes use one temporary file, so that with two in flight either
bundle, or an unreadable mixture, may end up in `ha_state.toml` (`Landed`).
`overlapped` is a history variable: a publisher handed over its write while that of
a dropped request was still in flight. Three invariants are stated up to it; the run
`HaMasterDropped` shows what happens then.

*HaCoordinator.* The coordinator's maps are keyed by instance, and one replica is
followed over its successive connections. One operation reaches over the keys: a
resync clears the advisory records of every instance when any replica was notified,
so `ResyncBroadcast` may go on to `ResyncClear` without an entry of this one. The
handling of an Ack reads version and term first and acts later, in separate
actions, because other tasks run in between. `AckCurrent` joins three short
lock sections of one match arm (synced version, repush record, fork record) that
read nothing in between.

*HaReplication.* A bundle is identified by version, term and the incarnation of
the state file that numbered it; `HaMaster` shows that one incarnation never
gives one number to two bundles. Connection ids are drawn again once no task
refers to them: the code only compares them for equality.

### Runs

| Run | Shows |
| --- | --- |
| `HaSlave` | eight properties of the replica alone against every sequence of pushes |
| `HaMaster` | the bundle sequence under one admin writer, one reloader, failing writes, dropped requests, crashes and promotion; publishers finish |
| `HaReplication` | synchronisation state, no silent loss, and convergence, over two overlapping connections |
| `HaRecovery` | the same with a lost state file, operator resyncs and a queue of one |
| `HaSlaveDegraded` (violated) | a clean close takes the replica out of the Degraded state with no apply in between; the recorded reason, and with it readiness, still tells of the failure |
| `HaMasterReload` (violated) | a reload outside the lock can leave the last change unpublished |
| `HaMasterDropped` (violated) | the state write of a dropped request lands over the bundle a later publisher stored and published under the same number |
| `HaBackpressure` (violated) | a push coalesced onto a pending fallback task can be lost |
| `HaAhead` (violated) | an old session's end removes the record of a new connection |

Bounds. `HaSlave` uses versions 0..4 and terms 0..2 and 4 with `u64::MAX` = 4, so
pushes below, at and above the watermark and at the ceiling occur; two payloads
make forks. `HaMaster` has `u64::MAX` = 4, so the counter is exhausted within a
run, and bundle stamps up to 4 (about 125,000 states). The replication runs need a third version only where a
push is lost behind two others; two connections are needed for an overlap, and a
third would only repeat it, since an older session never acts on the entry of a
newer one. Queue capacity is 32 in the code and 1, 2 or 4 here: 4 is never
full in the instances that use it, 1 and 2 are.

Fairness. `HaMaster` assumes that a publisher keeps running (tokio tasks are
scheduled) and that a file write ends in success or failure. `HaReplication`
assumes it of the slave worker, the session tasks, the fallback task, the
watchdog of a session and the reconnect loop, all of which run without
conditions in the code. Operators, failures and new publishes are not fair.
`Converges` is conditional on failures ending.

`AckAhead`, the branch for an applied Ack above the current version, cannot be
reached with a replica that runs `HaSlave`: an Ack answers a push of the same
master incarnation. It stays in the model because the code has it.

### Proofs

`HaSlaveProofs` and `HaMasterProofs` prove, for every set of versions, terms, payloads,
tasks and contents, the safety properties their runs check. Both use one
inductive invariant.

*Replica.* The watermark in memory and on disk agree except for the fork flag
(`SameMark`); a staged push is newer than the durable watermark
(`StagedIsFresh`); a replica about to send an Ack has its watermark on disk
(`AckingIsDurable`). `ReadyInv` adds why readiness ends with the session: a state of
Synced outlives it only together with a connection error, and the reconnect loop
resets the state before the next handshake clears that error. Action properties follow because each step that writes the
watermark starts from a staged push or latches a fork.

*Master.* `TaskInv` says what each publisher holds at each step (its locks, and that a
prepared bundle is above the active one), `ActiveInv` that the active bundle is a published
one, `HistoryInv` that everything published is at or below it. `WriteInv` is about
dropped requests: until two writes overlap, the write of a dropped request is alone
in flight and its bundle is still next in the sequence, so that it may land or fail
without harm. Two bundles of one version would need two publishers past
`PrepareBundle`, which `persist_lock` excludes, or an overlap. `LockSerialisesWrites`
shows that without dropped requests there is none, so the exception is empty then.

The assumptions are those on the constants: `MaxU64` is a natural number, `None`
and the local configuration are no bundles.

Liveness (`PublishersFinish`, `Converges`) and everything about `HaReplication` is
model-checked only.

## Configuration apply pipeline

`ConfigApply` follows a document from a request, the file watcher or an HA push to
the running configuration. A document is a value per section: four that a component
works with, one that takes effect with the snapshot (`hot`) and one that takes effect
at a restart (`cold`). `comp` is what the
upstream manager, the filter engine, the hook-owned components and the listener
manager work with, `runtime` the snapshot, `file` is `config.toml`. `op` is the
apply that holds `apply_lock`. Its `step` is the place in `apply_inner`, its `mode`
says whether it applies the candidate, undoes a failed apply, reverts after a
failed write, or re-applies the candidate because the revert failed. Requests
differ in three ways, which the code chooses per route: whether they read
before the lock (`EarlyReader`), whether lists are reloaded (`Sync`), and whether
the hooks run (`Hooked`). An early reader does not always hold the document it was
given: a PUT takes masked secrets from the file it read (`Unmasked`), an HA push what
is local to the node from the live configuration (`PersistedConfig`). List reloads that
take no apply lock (the refresh routes, the scheduled refresh, the wizard's queued
download) are `RefreshStarts`, `RefreshEnds` and `RefreshFails`.

Two history variables name what is behind the snapshot, and why. `failed` holds what
a failure that was logged left behind: a rollback that failed as well, listeners that
neither the rebind nor the revert brought back, a file content that was refused.
`loose` holds what is left behind without a trace: a dropped request, a list reload
that ended under another configuration, the wizard's queued lists, a first listener
generation overtaken by an apply, a reload of an older content. An apply that reaches
the component takes it off both. `ComponentsAgree` and `FileAgrees` say that nothing
else is ever behind; what is in `loose` is a limit of the code, which the invariants
name and do not excuse as correct. `RollsBack` allows less: it covers the listener
plan too, and what was behind before the rollback does not count, since the rollback
reaches it.

| Run | Shows |
| --- | --- |
| `ConfigApply` | components, listeners, snapshot and file agree outside `failed` and `loose`; no lost update; rollbacks restore; the event of an older write is not applied; the lock is released; what the file holds arrives or is refused in the log |
| `ConfigReload` (violated) | a reload puts a document it read before the lock over a newer one |
| `ConfigRebind` (violated) | after a failed rebind and a failed revert, later applies succeed and leave DNS down |

Bounds. Two values per section, two requests and two faults: enough for one
request to overtake another and for a rollback to fail. A list reload outside the lock
counts as a request, and one is under way at a time (about 400,000 states). The run starts before the
listeners are bound. Two whole-file documents differ in whether they change the
listener plan. Deadlock is not checked: a server without requests waits.

Fairness. A task holding the lock keeps running. The watcher is a task of its
own. It gets the lock although others take it again and again, because tokio's
mutex queues its waiters. Requests, faults and background tasks are not fair.

Proofs. `ConfigApplyProofs` proves the six safety properties of the run for every
set of values, documents and clients and every bound on requests and faults. None
of them is inductive: they speak of the states between applies, and an apply
changes one component at a time. The invariant therefore says, for each step of
`op`, which components already hold the candidate (`UpComp`, `FltComp`, `HkComp`,
`PlanComp`), which document the snapshot is in each mode (`OpDocs`), and that a
request leaves alone the sections it will not apply (`OpKeeps`). `FileInv` says what
is under way whenever the file is not the snapshot; between the snapshot and a
failed write the file is the older document. `RollsBack` and `NoLostUpdate` follow
because only `Store` replaces the snapshot, `EventsNeverRegress` because the watcher
reads the file again under the lock. `EditsArrive` speaks of the content the file has in
the end: an edit that an admin request replaces before the watcher applied it is
lost. `LockReleased` and `EditsArrive` are
model-checked only.

Not in the model: validation of a candidate is a free choice to refuse it;
publishing is in `HaMaster`; a failed filter reload on an engine without rules
also marks the engine unavailable, which belongs to the filter module.

## Plan

In this order, most important behaviour first.

1. `FilterReload`: `reload_lock`, scheduled refresh against `reload_with_config`,
   merge with retained lists, drop guard, fail-closed state, and the list cache
   files with crashes between list and metadata. Run: two configurations, two
   lists. Theorem: a list that fails to load never removes its rules.
2. `QueryPath`: pipeline decision order, single flight, cache generations with
   flush and resize, upstream health. Composed with `ConfigApply` for flush against
   insert: an answer validated or filtered under an old policy is not served
   under the new one. Abstract specification: every query gets one answer,
   allowed by the policy of some moment between arrival and answer.
3. `Auth`: sessions, tokens, lockout, TOTP replay, setup wizard with its
   credential rollback. Theorem: a revoked credential is never accepted again.
4. `ChainCache` and the verdict order of `sito-dnssec`; rewrite chains, policy
   precedence and schedules as operators checked against reference definitions.
5. `Operations`: query log queue, rate limiter, updater, ACME renewal, shutdown.
6. `BundleLog`: the append-only log of bundles that `HaMaster` implements, with
   the refinement proved from the inductive invariant of `HaMasterProofs`.

Proofs follow the modules: type correctness, then the main safety invariant of each.
Modules that are proved about use recursive functions and folds only.

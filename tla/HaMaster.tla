------------------------------ MODULE HaMaster ------------------------------
(***************************************************************************)
(* The master's bundle sequence: how a configuration change becomes a      *)
(* numbered, durable bundle, and how the sequence continues over restarts. *)
(*                                                                         *)
(*   crates/sito-ha/src/master/coordinator.rs  prepare / persist / publish *)
(*   crates/sito-api/src/state.rs              publish_bundle              *)
(*   crates/sito/src/server.rs                 init_ha                     *)
(*                                                                         *)
(* Admin writes hold the apply lock while they publish.  Reload requests   *)
(* publish after they released it.  Publishers therefore interleave, and   *)
(* only persist_lock orders them.                                          *)
(*                                                                         *)
(* The state file is written on the blocking pool.  A request whose peer   *)
(* leaves is dropped at an await, with the locks it holds; a write it has  *)
(* handed to the pool still lands, at any later time.                      *)
(***************************************************************************)
EXTENDS Naturals

CONSTANTS
    Writer,     \* tasks serving admin writes (apply lock held)
    Reloader,   \* tasks serving a configuration reload (no lock held)
    Content,    \* documents config.toml may hold
    MaxU64,     \* u64::MAX, the value no sequence may reach
    MaxStamp,   \* bound: no publish starts once so many bundles were built
    Faults,     \* BOOLEAN: state writes may fail, publishes may be refused
    Drops,      \* BOOLEAN: peers may leave while their request runs
    None        \* Rust's Option::None

Task == Writer \cup Reloader
Bundle == [version : 0 .. MaxU64, term : 0 .. MaxU64, content : Content,
           stamp : Nat]

ASSUME ConstantsAssumption ==
    /\ MaxU64 \in Nat \ {0, 1}
    /\ MaxStamp \in Nat
    /\ Faults \in BOOLEAN /\ Drops \in BOOLEAN
    /\ Writer \cap Reloader = {}
    /\ None \notin Task \cup Bundle \cup Content

VARIABLES
    up,              \* the master process runs
    config,          \* config.toml, and the running configuration
    ha_state,        \* ha_state.toml: a bundle, or None
    current_version, \* MasterCoordinator.current_version
    current_term,    \* MasterCoordinator.current_term
    active,          \* active_bundle and active_push
    apply_lock,      \* the task holding ServerContext.apply_lock, or None
    persist_lock,    \* the task holding persist_lock, or None
    pc,              \* where each task stands in publish_bundle
    content,         \* the document each task read
    bundle,          \* the bundle each task built
    previous,        \* previous_version of each task
    orphans,         \* state writes in flight whose request was dropped
    stamp,           \* clock for bundle timestamps
    published,       \* history: every bundle that was ever the active one
    overlapped       \* history: two state writes were in flight at once

memory == <<current_version, current_term, active>>
tasks == <<apply_lock, persist_lock, pc, content, bundle, previous>>
writes == <<orphans, overlapped>>
vars == <<up, config, ha_state, memory, tasks, writes, stamp, published>>

Location == {"idle", "read", "version", "prepare", "persist", "publish"}

TypeOK ==
    /\ up \in BOOLEAN
    /\ config \in Content
    /\ ha_state \in Bundle \cup {None}
    /\ current_version \in (0 .. MaxU64) \ {MaxU64}
    /\ current_term \in 0 .. MaxU64
    /\ active \in Bundle \cup {None}
    /\ apply_lock \in Task \cup {None}
    /\ persist_lock \in Task \cup {None}
    /\ pc \in [Task -> Location]
    /\ content \in [Task -> Content \cup {None}]
    /\ bundle \in [Task -> Bundle \cup {None}]
    /\ previous \in [Task -> 0 .. MaxU64]
    /\ orphans \subseteq Bundle
    /\ stamp \in Nat
    /\ published \subseteq Bundle
    /\ overlapped \in BOOLEAN

NewBundle(v, t, c) == [version |-> v, term |-> t, content |-> c, stamp |-> stamp]

Idle ==
    /\ apply_lock = None
    /\ persist_lock = None
    /\ pc = [t \in Task |-> "idle"]
    /\ content = [t \in Task |-> None]
    /\ bundle = [t \in Task |-> None]
    /\ previous = [t \in Task |-> 0]

Init ==
    /\ up = FALSE
    /\ config \in Content
    /\ ha_state = None
    /\ current_version = 0 /\ current_term = 0 /\ active = None
    /\ Idle
    /\ orphans = {}
    /\ stamp = 0
    /\ published = {}
    /\ overlapped = FALSE

-----------------------------------------------------------------------------
(* Start-up: restore_state, then reconciliation with config.toml *)

Activate(b) ==
    /\ current_version' = b.version
    /\ current_term' = b.term
    /\ active' = b
    /\ published' = published \cup {b}

(* The persisted bundle still matches config.toml. *)
StartResume ==
    /\ ~up
    /\ ha_state # None /\ ha_state.content = config
    /\ ha_state.version # MaxU64 /\ ha_state.term # MaxU64
    /\ up' = TRUE
    /\ Activate(ha_state)
    /\ UNCHANGED <<config, ha_state, tasks, writes, stamp>>

(* What the master publishes at start-up when it cannot resume: version 1  *)
(* of a fresh sequence, or version N + 1 of the restored one.              *)
StartBundle_ForgetsTerm ==
    IF ha_state = None
      THEN NewBundle(1, 0, config)
      ELSE NewBundle(ha_state.version + 1, 0, config)

StartBundle ==
    IF ha_state = None
      THEN NewBundle(1, 0, config)
      ELSE NewBundle(ha_state.version + 1, ha_state.term, config)

CanStart_NoCeiling ==
    /\ ~up
    /\ ha_state # None => ha_state.content # config
    /\ stamp < MaxStamp

CanStart ==
    /\ ~up
    /\ ha_state # None => /\ ha_state.content # config
                          /\ ha_state.version # MaxU64 /\ ha_state.term # MaxU64
                          /\ ha_state.version + 1 # MaxU64
    /\ stamp < MaxStamp

StartPublish ==
    /\ CanStart
    /\ up' = TRUE
    /\ ha_state' = StartBundle
    /\ Activate(StartBundle)
    /\ stamp' = stamp + 1
    /\ UNCHANGED <<config, tasks, writes>>

(* The process dies between persist_bundle and publish_prepared. *)
StartCrashes ==
    /\ CanStart
    /\ ha_state' = StartBundle
    /\ stamp' = stamp + 1
    /\ UNCHANGED <<up, config, memory, tasks, writes, published>>

(* The process dies, and with it the writes in flight. *)
Crash ==
    /\ up
    /\ up' = FALSE
    /\ current_version' = 0 /\ current_term' = 0 /\ active' = None
    /\ apply_lock' = None /\ persist_lock' = None
    /\ pc' = [t \in Task |-> "idle"]
    /\ content' = [t \in Task |-> None]
    /\ bundle' = [t \in Task |-> None]
    /\ previous' = [t \in Task |-> 0]
    /\ orphans' = {}
    /\ UNCHANGED <<config, ha_state, stamp, published, overlapped>>

(* config.toml is edited while the master is down. *)
EditConfig(c) ==
    /\ ~up
    /\ config' = c
    /\ UNCHANGED <<up, ha_state, memory, tasks, writes, stamp, published>>

(* The operator raises term and version in ha_state.toml (runbook). *)
Promote ==
    /\ ~up
    /\ ha_state # None
    /\ ha_state.term + 1 < MaxU64 /\ ha_state.version + 1 < MaxU64
    /\ stamp < MaxStamp
    /\ ha_state' = [ha_state EXCEPT !.term = @ + 1, !.version = @ + 1]
    /\ stamp' = stamp + 1
    /\ UNCHANGED <<up, config, memory, tasks, writes, published>>

-----------------------------------------------------------------------------
(* publish_bundle, one step for each point where tasks interleave *)

(* The end of publish_bundle: every lock the task holds is released. *)
Finish(t) ==
    /\ pc' = [pc EXCEPT ![t] = "idle"]
    /\ content' = [content EXCEPT ![t] = None]
    /\ bundle' = [bundle EXCEPT ![t] = None]
    /\ previous' = [previous EXCEPT ![t] = 0]
    /\ apply_lock' = IF apply_lock = t THEN None ELSE apply_lock
    /\ persist_lock' = IF persist_lock = t THEN None ELSE persist_lock

(* An admin write applied and persisted a document; the lock stays held.   *)
AdminWrite(t, c) ==
    /\ up
    /\ t \in Writer /\ pc[t] = "idle"
    /\ stamp < MaxStamp
    /\ apply_lock = None
    /\ apply_lock' = t
    /\ config' = c
    /\ pc' = [pc EXCEPT ![t] = "read"]
    /\ UNCHANGED <<up, ha_state, memory, persist_lock, content, bundle,
                   previous, writes, stamp, published>>

(* A reload applied config.toml and released the apply lock.               *)
Reload(t) ==
    /\ up
    /\ t \in Reloader /\ pc[t] = "idle"
    /\ stamp < MaxStamp
    /\ apply_lock = None
    /\ pc' = [pc EXCEPT ![t] = "read"]
    /\ UNCHANGED <<up, config, ha_state, memory, apply_lock, persist_lock, content,
                   bundle, previous, writes, stamp, published>>

(* The document is read from disk. *)
ReadDocument(t) ==
    /\ pc[t] = "read"
    /\ content' = [content EXCEPT ![t] = config]
    /\ pc' = [pc EXCEPT ![t] = "version"]
    /\ UNCHANGED <<up, config, ha_state, memory, apply_lock, persist_lock, bundle,
                   previous, writes, stamp, published>>

(* The next version is read from the coordinator; the bundle is built. *)
BuildBundle(t) ==
    /\ pc[t] = "version"
    /\ current_version + 1 <= MaxU64
    /\ bundle' = [bundle EXCEPT ![t] = NewBundle(current_version + 1, current_term, content[t])]
    /\ stamp' = stamp + 1
    /\ pc' = [pc EXCEPT ![t] = "prepare"]
    /\ UNCHANGED <<up, config, ha_state, memory, apply_lock, persist_lock, content,
                   previous, writes, published>>

(* The document embeds a secret: nothing is published. *)
RefuseSecret(t) ==
    /\ Faults
    /\ pc[t] = "version"
    /\ Finish(t)
    /\ UNCHANGED <<up, config, ha_state, memory, writes, stamp, published>>

(* prepare_bundle's checks. *)
Acceptable_SameVersion(b) ==
    /\ b.term = current_term
    /\ b.version >= current_version
    /\ b.version # MaxU64

Acceptable(b) ==
    /\ b.term = current_term
    /\ b.version > current_version
    /\ b.version # MaxU64

(* persist_lock is taken, prepare_bundle accepts the bundle, and the write *)
(* is handed to the blocking pool.                                         *)
PrepareBundle_NoLock(t) ==
    /\ pc[t] = "prepare"
    /\ Acceptable(bundle[t])
    /\ previous' = [previous EXCEPT ![t] = current_version]
    /\ pc' = [pc EXCEPT ![t] = "persist"]
    /\ UNCHANGED <<up, config, ha_state, memory, apply_lock, persist_lock, content,
                   bundle, writes, stamp, published>>

PrepareBundle(t) ==
    /\ pc[t] = "prepare"
    /\ persist_lock = None
    /\ Acceptable(bundle[t])
    /\ persist_lock' = t
    /\ previous' = [previous EXCEPT ![t] = current_version]
    /\ overlapped' = (overlapped \/ orphans # {})
    /\ pc' = [pc EXCEPT ![t] = "persist"]
    /\ UNCHANGED <<up, config, ha_state, memory, apply_lock, content, bundle,
                   orphans, stamp, published>>

RefuseBundle_Retries(t) ==
    /\ pc[t] = "prepare"
    /\ persist_lock = None
    /\ ~Acceptable(bundle[t])
    /\ UNCHANGED vars

(* prepare_bundle refuses; publish_bundle logs the error and returns. *)
RefuseBundle(t) ==
    /\ pc[t] = "prepare"
    /\ persist_lock = None
    /\ ~Acceptable(bundle[t])
    /\ Finish(t)
    /\ UNCHANGED <<up, config, ha_state, memory, writes, stamp, published>>

(* What write_state_file leaves in ha_state.toml.  All writes go through   *)
(* one temporary file: when two are in flight, either's content may be     *)
(* renamed into place, or a mixture, which restore_state moves aside.      *)
InFlight == orphans \cup {bundle[t] : t \in {u \in Task : pc[u] = "persist"}}
Landed(b) == IF InFlight = {b} THEN {b} ELSE InFlight \cup {None}

(* The awaited write of a publisher replaced ha_state.toml. *)
PersistBundle(t) ==
    /\ pc[t] = "persist"
    /\ ha_state' \in Landed(bundle[t])
    /\ pc' = [pc EXCEPT ![t] = "publish"]
    /\ UNCHANGED <<up, config, memory, apply_lock, persist_lock, content, bundle,
                   previous, writes, stamp, published>>

PersistFails_Ignored(t) ==
    /\ Faults
    /\ pc[t] = "persist"
    /\ pc' = [pc EXCEPT ![t] = "publish"]
    /\ UNCHANGED <<up, config, ha_state, memory, apply_lock, persist_lock, content,
                   bundle, previous, writes, stamp, published>>

PersistFails(t) ==
    /\ Faults
    /\ pc[t] = "persist"
    /\ Finish(t)
    /\ UNCHANGED <<up, config, ha_state, memory, writes, stamp, published>>

(* publish_prepared and the broadcast.  The other branch of the code, a    *)
(* sequence advanced during the write, is excluded by NothingOvertakes.    *)
PublishPrepared(t) ==
    /\ pc[t] = "publish"
    /\ current_version = previous[t]
    /\ current_version' = bundle[t].version
    /\ active' = bundle[t]
    /\ published' = published \cup {bundle[t]}
    /\ Finish(t)
    /\ UNCHANGED <<up, config, ha_state, current_term, writes, stamp>>

(* The peer leaves and the request is dropped at one of its awaits: the    *)
(* file read, persist_lock, the state write, or after the write before the *)
(* task runs again.  A write in flight loses its task and its lock.        *)
Cancel(t) ==
    /\ Drops
    /\ pc[t] \in {"read", "prepare", "persist", "publish"}
    /\ orphans' = IF pc[t] = "persist" THEN orphans \cup {bundle[t]} ELSE orphans
    /\ Finish(t)
    /\ UNCHANGED <<up, config, ha_state, memory, stamp, published, overlapped>>

(* The write of a dropped request lands, or fails. *)
OrphanLands(b) ==
    /\ b \in orphans
    /\ ha_state' \in Landed(b)
    /\ orphans' = orphans \ {b}
    /\ UNCHANGED <<up, config, memory, tasks, stamp, published, overlapped>>

OrphanFails(b) ==
    /\ Faults
    /\ b \in orphans
    /\ orphans' = orphans \ {b}
    /\ UNCHANGED <<up, config, ha_state, memory, tasks, stamp, published, overlapped>>

-----------------------------------------------------------------------------
TaskStep(t) ==
    \/ ReadDocument(t)
    \/ BuildBundle(t)
    \/ RefuseSecret(t)
    \/ PrepareBundle(t)
    \/ RefuseBundle(t)
    \/ PersistBundle(t)
    \/ PersistFails(t)
    \/ PublishPrepared(t)

Next ==
    \/ StartResume
    \/ StartPublish
    \/ StartCrashes
    \/ Crash
    \/ \E c \in Content : EditConfig(c)
    \/ Promote
    \/ \E t \in Task, c \in Content : AdminWrite(t, c)
    \/ \E t \in Task : Reload(t) \/ TaskStep(t) \/ Cancel(t)
    \/ \E b \in orphans : OrphanLands(b) \/ OrphanFails(b)

Spec == Init /\ [][Next]_vars

(* Every task that is publishing keeps running: its awaits are on a file   *)
(* write of the blocking pool and on a fair tokio mutex.                   *)
FairSpec == Spec /\ \A t \in Task : WF_vars(TaskStep(t)) /\ SF_vars(PrepareBundle(t) \/ RefuseBundle(t))

-----------------------------------------------------------------------------
(* Properties *)

(* What a slave can be sent is never ahead of ha_state.toml: a crash after *)
(* a push never makes the master forget a bundle that left it.  Dropped    *)
(* requests are included; the one exception is a publisher that hands over *)
(* its write while that of a dropped request is still in flight.           *)
PersistedBeforePublished ==
    ~overlapped =>
        \A b \in published :
            /\ ha_state # None
            /\ b.version <= ha_state.version /\ b.term <= ha_state.term
            /\ b.version = ha_state.version => b = ha_state

(* One version names one bundle, content and timestamp, over every crash,  *)
(* restart, promotion, dropped request and race of publishers, unless two  *)
(* state writes were in flight at once: the sequence itself never creates  *)
(* what a slave would see as a same-version fork.                          *)
OneBundlePerVersion ==
    ~overlapped => \A b, c \in published : b.version = c.version => b = c

(* A higher version never carries a lower term, with the same exception.   *)
TermsFollowVersions ==
    ~overlapped => \A b, c \in published : b.version < c.version => b.term <= c.term

(* coordinator.rs:594: "`persist_lock` serializes the whole                *)
(* publish-and-write sequence so two concurrent async publishers cannot    *)
(* complete their state writes out of order".  A bundle that a running     *)
(* master writes is newer than every bundle published before it.           *)
WritesInOrder ==
    [][ up /\ ha_state' \notin {ha_state, None} =>
            \A b \in published : b.version < ha_state'.version ]_vars

(* The branch of update_bundle_async that finds the sequence advanced      *)
(* during its own write is never taken: persist_lock covers the write.     *)
NothingOvertakes ==
    \A t \in Task : pc[t] = "publish" => current_version = previous[t]

(* No reload, no failed write, no dropped request: once every task has     *)
(* finished, the active bundle is built from the current config.toml.      *)
(* With reloads it is not.                                                 *)
ChangesArePublished ==
    up /\ (\A t \in Task : pc[t] = "idle") => active.content = config

(* A task that started to publish finishes, whatever the other tasks do.   *)
PublishersFinish ==
    \A t \in Task : pc[t] # "idle" ~> pc[t] = "idle"
=============================================================================

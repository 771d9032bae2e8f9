------------------------------ MODULE HaSlave ------------------------------
(***************************************************************************)
(* One replica (slave) of the configuration replication: the replication   *)
(* worker, the status tracker with its durable watermark, and the handling *)
(* of every ConfigPush it may receive.                                     *)
(*                                                                         *)
(*   crates/sito-ha/src/slave/worker.rs   the worker and the push handler  *)
(*   crates/sito-ha/src/slave/state.rs    tracker, watermark, fork latch   *)
(*   crates/sito-ha/src/bundle.rs         checks of a signed push          *)
(*                                                                         *)
(* The environment is any number of masters: every push of Push may arrive *)
(* at any time, in any order and any number of times.  A push stands for a *)
(* correctly signed envelope; `hash` identifies its payload.  What follows *)
(* holds of a slave whatever the masters do.                               *)
(***************************************************************************)
EXTENDS Naturals

CONSTANTS
    Version,     \* version numbers a push may carry
    Term,        \* cluster terms (epochs) a push may carry
    Payload,     \* payload hashes
    LocalConfig, \* the configuration of a node that never applied a push
    MaxU64,      \* u64::MAX, the value no sequence may reach
    None         \* Rust's Option::None

ASSUME NumbersAssumption ==
    /\ MaxU64 \in Nat
    /\ Version \subseteq 0 .. MaxU64
    /\ Term \subseteq 0 .. MaxU64

Push == [version : Version, term : Term, hash : Payload]
Watermark == [version : Version, term : Term, hash : Payload, forked : BOOLEAN]
Conflict == {"StaleTerm", "StaleVersion", "SameVersionFork"}
AckMessage == [version : Nat, term : Nat, applied : BOOLEAN,
               conflict : Conflict \cup {None}]

ASSUME NoneAssumption ==
    /\ None \notin Watermark \cup Push \cup AckMessage \cup Conflict
    /\ LocalConfig \notin Payload

VARIABLES
    wmDisk,           \* ha_watermark.toml
    wm,               \* SlaveStatusTracker.watermark
    current_version,  \* SlaveStatusTracker.current_version
    current_term,     \* SlaveStatusTracker.current_term
    state,            \* SlaveStatusTracker.state
    degraded_reason,  \* SlaveStatusTracker.degraded_reason is Some
    connection_error, \* SlaveStatusTracker.connection_error is Some
    live,             \* payload the running components were built from
    disk,             \* payload config.toml was built from
    master_pubkey,    \* a usable master_pubkey is configured in [ha]
    pc,               \* where the worker task stands
    push,             \* the push being applied, or None
    ack               \* the last Ack put on the wire, or None

tracker == <<current_version, current_term, state, degraded_reason, connection_error>>
vars == <<wmDisk, wm, tracker, live, disk, master_pubkey, pc, push, ack>>

SlaveState == {"Connecting", "HelloSent", "Synced", "Applying", "Degraded"}

TypeOK ==
    /\ wmDisk \in Watermark \cup {None}
    /\ wm \in Watermark \cup {None}
    /\ current_version \in Nat
    /\ current_term \in Nat
    /\ state \in SlaveState
    /\ degraded_reason \in BOOLEAN
    /\ connection_error \in BOOLEAN
    /\ live \in Payload \cup {LocalConfig}
    /\ disk \in Payload \cup {LocalConfig}
    /\ master_pubkey \in BOOLEAN
    /\ pc \in {"down", "backoff", "connecting", "greeting", "session",
              "staging", "persisting", "acking"}
    /\ push \in Push \cup {None}
    /\ push # None <=> pc \in {"staging", "persisting", "acking"}
    /\ ack \in AckMessage \cup {None}

WmVersion(w) == IF w = None THEN 0 ELSE w.version
WmTerm(w) == IF w = None THEN 0 ELSE w.term
WmForked(w) == w # None /\ w.forked

AtCeiling_VersionOnly(x) == x.version = MaxU64

(* A version or term of u64::MAX could never advance: it is refused when a *)
(* push is verified, before a watermark is written, and when it is loaded. *)
AtCeiling(x) == x.version = MaxU64 \/ x.term = MaxU64

Ack(v, t, ok, c) == [version |-> v, term |-> t, applied |-> ok, conflict |-> c]

-----------------------------------------------------------------------------
(* Process start, crash, connection *)

Init ==
    /\ wmDisk = None /\ wm = None
    /\ current_version = 0 /\ current_term = 0
    /\ state = "Connecting" /\ degraded_reason = FALSE /\ connection_error = FALSE
    /\ live = LocalConfig /\ disk = LocalConfig
    /\ master_pubkey = FALSE
    /\ pc = "down" /\ push = None /\ ack = None

Start_ForgetsWatermark ==
    /\ pc = "down"
    /\ wm' = None
    /\ current_version' = 0
    /\ current_term' = 0
    /\ state' = "Connecting"
    /\ degraded_reason' = FALSE
    /\ connection_error' = FALSE
    /\ live' = disk
    /\ master_pubkey' \in BOOLEAN
    /\ pc' = "connecting"
    /\ UNCHANGED <<wmDisk, disk, push, ack>>

Start_ForgetsTerm ==
    /\ pc = "down"
    /\ wmDisk # None => ~AtCeiling(wmDisk)
    /\ wm' = wmDisk
    /\ current_version' = WmVersion(wmDisk)
    /\ current_term' = 0
    /\ state' = "Connecting"
    /\ degraded_reason' = FALSE
    /\ connection_error' = FALSE
    /\ live' = disk
    /\ master_pubkey' \in BOOLEAN
    /\ pc' = "connecting"
    /\ UNCHANGED <<wmDisk, disk, push, ack>>

(* The process starts: config.toml becomes the live configuration and the  *)
(* watermark file is restored.  A watermark at u64::MAX is a hard error.   *)
Start ==
    /\ pc = "down"
    /\ wmDisk # None => ~AtCeiling(wmDisk)
    /\ wm' = wmDisk
    /\ current_version' = WmVersion(wmDisk)
    /\ current_term' = WmTerm(wmDisk)
    /\ state' = "Connecting"
    /\ degraded_reason' = FALSE
    /\ connection_error' = FALSE
    /\ live' = disk
    /\ master_pubkey' \in BOOLEAN
    /\ pc' = "connecting"
    /\ UNCHANGED <<wmDisk, disk, push, ack>>

(* The process dies, possibly in the middle of an apply.  Only the two     *)
(* files survive; both are replaced by rename, so each is old or new.      *)
Crash ==
    /\ pc # "down"
    /\ pc' = "down"
    /\ push' = None
    /\ UNCHANGED <<wmDisk, wm, tracker, live, disk, master_pubkey, ack>>

Reconnect_KeepsState ==
    /\ pc = "backoff"
    /\ pc' = "connecting"
    /\ UNCHANGED <<wmDisk, wm, tracker, live, disk, master_pubkey, push, ack>>

(* The next iteration of the reconnect loop, after a pause or a resync.    *)
Reconnect ==
    /\ pc = "backoff"
    /\ state' = IF state = "Degraded" THEN state ELSE "Connecting"
    /\ pc' = "connecting"
    /\ UNCHANGED <<wmDisk, wm, current_version, current_term, degraded_reason,
                   connection_error, live, disk, master_pubkey, push, ack>>

(* connect_and_run returns an error: it could not connect, a handshake or  *)
(* a send failed, or the stream broke.  The state is left for the next     *)
(* iteration.                                                              *)
SessionBreaks ==
    /\ pc \in {"connecting", "greeting", "session"}
    /\ connection_error' = TRUE
    /\ pc' = "backoff"
    /\ UNCHANGED <<wmDisk, wm, current_version, current_term, state, degraded_reason,
                   live, disk, master_pubkey, push, ack>>

(* The TLS and WebSocket handshakes are done: the error of the last        *)
(* attempt is forgotten, before anything was said on the new connection.   *)
Handshake ==
    /\ pc = "connecting"
    /\ connection_error' = FALSE
    /\ pc' = "greeting"
    /\ UNCHANGED <<wmDisk, wm, current_version, current_term, state, degraded_reason,
                   live, disk, master_pubkey, push, ack>>

(* Hello is on the wire. *)
SendHello ==
    /\ pc = "greeting"
    /\ state' = "HelloSent"
    /\ pc' = "session"
    /\ UNCHANGED <<wmDisk, wm, current_version, current_term, degraded_reason,
                   connection_error, live, disk, master_pubkey, push, ack>>

(* The master closes the session: connect_and_run returns Ok. *)
SessionCloses ==
    /\ pc = "session"
    /\ state' = "Connecting"
    /\ pc' = "backoff"
    /\ UNCHANGED <<wmDisk, wm, current_version, current_term, degraded_reason,
                   connection_error, live, disk, master_pubkey, push, ack>>

-----------------------------------------------------------------------------
(* Tracker operations *)

MarkDegraded ==
    /\ state' = "Degraded"
    /\ degraded_reason' = TRUE
    /\ connection_error' = FALSE
    /\ UNCHANGED <<current_version, current_term>>

MarkSynced(v, t) ==
    /\ current_version' = v
    /\ current_term' = t
    /\ state' = "Synced"
    /\ degraded_reason' = FALSE
    /\ connection_error' = FALSE

(* latch_fork: memory first, then the file; the file write may fail. *)
LatchFork ==
    /\ wm' = [wm EXCEPT !.forked = TRUE]
    /\ wmDisk' \in {wmDisk, wm'}

-----------------------------------------------------------------------------
(* Handling a ConfigPush: the early returns, in the order of the code *)

ForkBlocks_OlderTermOnly(p) == WmForked(wm) /\ p.term < wm.term

ForkBlocks(p) == WmForked(wm) /\ p.term <= wm.term

(* A fork was latched: only a strictly higher term may pass. *)
RefuseForked(p) ==
    /\ pc = "session"
    /\ ForkBlocks(p)
    /\ LatchFork
    /\ MarkDegraded
    /\ ack' = Ack(wm.version, wm.term, FALSE, "SameVersionFork")
    /\ UNCHANGED <<live, disk, master_pubkey, pc, push>>

(* A push of an older epoch. *)
RefuseStaleTerm(p) ==
    /\ pc = "session"
    /\ wm # None /\ ~ForkBlocks(p)
    /\ p.term < wm.term
    /\ ack' = Ack(wm.version, wm.term, FALSE, "StaleTerm")
    /\ UNCHANGED <<wmDisk, wm, tracker, live, disk, master_pubkey, pc, push>>

(* A promotion must continue above the applied version. *)
RefuseTermReset(p) ==
    /\ pc = "session"
    /\ wm # None /\ ~ForkBlocks(p)
    /\ p.term > wm.term /\ p.version <= wm.version
    /\ MarkDegraded
    /\ ack' = Ack(wm.version, wm.term, FALSE, "StaleVersion")
    /\ UNCHANGED <<wmDisk, wm, live, disk, master_pubkey, pc, push>>

(* A replay of an older version of the same epoch. *)
RefuseStaleVersion(p) ==
    /\ pc = "session"
    /\ wm # None /\ ~ForkBlocks(p)
    /\ p.term = wm.term /\ p.version < wm.version
    /\ ack' = Ack(wm.version, wm.term, FALSE, "StaleVersion")
    /\ UNCHANGED <<wmDisk, wm, tracker, live, disk, master_pubkey, pc, push>>

(* Same term and version, other content: a fork. *)
DetectFork(p) ==
    /\ pc = "session"
    /\ wm # None /\ ~ForkBlocks(p)
    /\ p.term = wm.term /\ p.version = wm.version /\ p.hash # wm.hash
    /\ LatchFork
    /\ MarkDegraded
    /\ ack' = Ack(wm.version, wm.term, FALSE, "SameVersionFork")
    /\ UNCHANGED <<live, disk, master_pubkey, pc, push>>

(* The applied bundle again. *)
AckDuplicate(p) ==
    /\ pc = "session"
    /\ wm # None /\ ~ForkBlocks(p)
    /\ p.term = wm.term /\ p.version = wm.version /\ p.hash = wm.hash
    /\ ack' = Ack(wm.version, wm.term, TRUE, None)
    /\ IF state # "Degraded"
         THEN MarkSynced(wm.version, wm.term)
         ELSE UNCHANGED tracker
    /\ UNCHANGED <<wmDisk, wm, live, disk, master_pubkey, pc, push>>

(* No watermark yet: the tracker's own counters are the guard. *)
AckWithoutWatermark(p) ==
    /\ pc = "session"
    /\ wm = None
    /\ \/ p.term < current_term
       \/ p.term = current_term /\ p.version <= current_version
    /\ ack' = Ack(current_version, current_term, p.term = current_term,
                  IF p.term < current_term THEN "StaleTerm" ELSE None)
    /\ IF p.term = current_term /\ state # "Degraded"
         THEN MarkSynced(current_version, current_term)
         ELSE UNCHANGED tracker
    /\ UNCHANGED <<wmDisk, wm, live, disk, master_pubkey, pc, push>>

(* No early return applied: the push is staged. *)
Fresh(p) ==
    /\ wm # None => /\ ~ForkBlocks(p)
                    /\ p.term >= wm.term
                    /\ p.version > wm.version
    /\ wm = None => \/ p.term > current_term
                    \/ p.term = current_term /\ p.version > current_version

StagePush(p) ==
    /\ pc = "session"
    /\ Fresh(p)
    /\ state' = "Applying"
    /\ push' = p
    /\ pc' = "staging"
    /\ UNCHANGED <<wmDisk, wm, current_version, current_term, degraded_reason,
                   connection_error, live, disk, master_pubkey, ack>>

-----------------------------------------------------------------------------
(* Applying the staged push *)

(* The checks of verify_and_unpack_push_with_watermark and of              *)
(* apply_config_push that look at the numbers of the push.                 *)
Verifies(p) ==
    /\ ~AtCeiling(p)
    /\ wm # None => /\ ~ForkBlocks(p)
                    /\ p.term >= wm.term
                    /\ p.term > wm.term => p.version > wm.version
                    /\ p.term = wm.term =>
                         \/ p.version > wm.version
                         \/ p.version = wm.version /\ p.hash = wm.hash
    /\ wm = None => p.version > current_version

(* Verification, secret substitution, staging, the merge with node-local   *)
(* settings or the applier fails.  The applier rolls the live components   *)
(* back and writes nothing, so the slave keeps serving what it served.     *)
RejectPush ==
    /\ pc = "staging"
    /\ master_pubkey
    /\ MarkDegraded
    /\ ack' = Ack(push.version, push.term, FALSE, None)
    /\ pc' = "session"
    /\ push' = None
    /\ UNCHANGED <<wmDisk, wm, live, disk, master_pubkey>>

(* Without a master_pubkey the push is refused and the state stays         *)
(* "Applying".                                                             *)
RejectUnverifiable ==
    /\ pc = "staging"
    /\ ~master_pubkey
    /\ ack' = Ack(push.version, push.term, FALSE, None)
    /\ pc' = "session"
    /\ push' = None
    /\ UNCHANGED <<wmDisk, wm, tracker, live, disk, master_pubkey>>

(* apply_and_persist succeeded: runtime and config.toml carry the push. *)
ApplyAndPersist ==
    /\ pc = "staging"
    /\ master_pubkey
    /\ Verifies(push)
    /\ live' = push.hash
    /\ disk' = push.hash
    /\ pc' = "persisting"
    /\ UNCHANGED <<wmDisk, wm, tracker, master_pubkey, push, ack>>

(* persist_watermark, then mark_synced_with_term. *)
PersistWatermark ==
    /\ pc = "persisting"
    /\ ~AtCeiling(push)
    /\ wmDisk' = [version |-> push.version, term |-> push.term,
                  hash |-> push.hash, forked |-> FALSE]
    /\ wm' = wmDisk'
    /\ MarkSynced(push.version, push.term)
    /\ pc' = "acking"
    /\ UNCHANGED <<live, disk, master_pubkey, push, ack>>

PersistWatermarkFails_Acks ==
    /\ pc = "persisting"
    /\ MarkDegraded
    /\ ack' = Ack(push.version, push.term, TRUE, None)
    /\ pc' = "session"
    /\ push' = None
    /\ UNCHANGED <<wmDisk, wm, live, disk, master_pubkey>>

(* The watermark cannot be written: the configuration stays applied, the   *)
(* push is not acknowledged as applied.                                    *)
PersistWatermarkFails ==
    /\ pc = "persisting"
    /\ MarkDegraded
    /\ ack' = Ack(push.version, push.term, FALSE, None)
    /\ pc' = "session"
    /\ push' = None
    /\ UNCHANGED <<wmDisk, wm, live, disk, master_pubkey>>

SendAck_KeepsPush ==
    /\ pc = "acking"
    /\ ack' = Ack(push.version, current_term, TRUE, None)
    /\ pc' = "session"
    /\ UNCHANGED <<wmDisk, wm, tracker, live, disk, master_pubkey, push>>

(* The positive Ack, after everything is durable. *)
SendAck ==
    /\ pc = "acking"
    /\ ack' = Ack(push.version, current_term, TRUE, None)
    /\ pc' = "session"
    /\ push' = None
    /\ UNCHANGED <<wmDisk, wm, tracker, live, disk, master_pubkey>>

-----------------------------------------------------------------------------
HandlePush(p) ==
    \/ RefuseForked(p)
    \/ RefuseStaleTerm(p)
    \/ RefuseTermReset(p)
    \/ RefuseStaleVersion(p)
    \/ DetectFork(p)
    \/ AckDuplicate(p)
    \/ AckWithoutWatermark(p)
    \/ StagePush(p)

ApplySteps ==
    \/ RejectPush
    \/ RejectUnverifiable
    \/ ApplyAndPersist
    \/ PersistWatermark
    \/ PersistWatermarkFails
    \/ SendAck

Next ==
    \/ Start
    \/ Crash
    \/ Reconnect
    \/ Handshake
    \/ SendHello
    \/ SessionCloses
    \/ SessionBreaks
    \/ \E p \in Push : HandlePush(p)
    \/ ApplySteps

Spec == Init /\ [][Next]_vars

-----------------------------------------------------------------------------
(* Properties *)

(* While the process runs, the version and term announced in Hello are     *)
(* those of the watermark, in memory and in the file: a restart, a failed  *)
(* write or a refused push never lets the counters drift apart.            *)
TrackerFollowsWatermark ==
    pc # "down" =>
        /\ current_version = WmVersion(wm) /\ current_version = WmVersion(wmDisk)
        /\ current_term = WmTerm(wm) /\ current_term = WmTerm(wmDisk)
        /\ WmForked(wmDisk) => WmForked(wm)

(* A push acknowledged as applied is covered by the watermark file, also   *)
(* after a crash in any later step: persist_watermark precedes the ACK.    *)
AckDurable ==
    ack # None /\ ack.applied =>
        WmVersion(wmDisk) >= ack.version /\ WmTerm(wmDisk) >= ack.term

(* The watermark never reaches u64::MAX, so with_watermark_path never      *)
(* refuses to start on it and every sequence can still advance.            *)
CanAdvance ==
    wmDisk # None => wmDisk.version < MaxU64 /\ wmDisk.term < MaxU64

(* readiness(), as the health check reads it at any moment. *)
Ready == pc # "down" /\ ~connection_error /\ state = "Synced"

(* The slave says ready only between a session's sync and its end, never   *)
(* while it is disconnected, greets the master or applies a push, and      *)
(* never while the failure of an apply is still recorded.  The handshake   *)
(* clears the connection error before Hello is sent: from then on only the *)
(* state reset at the head of the reconnect loop keeps readiness off.      *)
ReadyOnlyInSession == Ready => pc \in {"session", "acking"} /\ ~degraded_reason

(* No step takes the durable watermark back in term or in version, and a   *)
(* step that changes the payload it names raises the version.              *)
WatermarkMonotone ==
    [][/\ WmVersion(wmDisk') >= WmVersion(wmDisk)
       /\ WmTerm(wmDisk') >= WmTerm(wmDisk)
       /\ wmDisk # None /\ wmDisk' # None /\ wmDisk'.hash # wmDisk.hash
            => wmDisk'.version > wmDisk.version]_vars

(* config.toml changes only to a push whose version is above the durable   *)
(* watermark and whose term is not below it (no replay of an old bundle),  *)
(* whatever happened before: crashes, failed writes, other masters.        *)
NoReplay ==
    [][disk' # disk => /\ disk' = push.hash
                       /\ push.version > WmVersion(wmDisk)
                       /\ push.term >= WmTerm(wmDisk)]_vars

(* Once a fork is latched in the file, it stays latched and the served     *)
(* configuration stays the same until a push of a strictly higher term.    *)
ForkLatchHolds ==
    [][WmForked(wmDisk) =>
         /\ WmForked(wmDisk') \/ WmTerm(wmDisk') > WmTerm(wmDisk)
         /\ disk' # disk => push.term > WmTerm(wmDisk)]_vars

(* The comment at the head of the reconnect loop (worker.rs:757): "the     *)
(* `Degraded` state (and its reason) is only cleared by a successful apply *)
(* or an early ACK", so it stays while the slave reconnects.  The clean    *)
(* end of a session sets the state to Connecting; degraded_reason stays.   *)
DegradedStaysVisible ==
    [][state = "Degraded" /\ "down" \notin {pc, pc'}
         /\ {pc, pc'} \cap {"backoff", "connecting"} # {} => state' = "Degraded"]_vars
=============================================================================

---------------------------- MODULE HaCoordinator ----------------------------
(***************************************************************************)
(* The master's session handling for one replica: the connection           *)
(* handshake, the tracking entry, the bounded push queue with its fallback *)
(* delivery, catch-up pushes, acknowledgements and divergence records.     *)
(*                                                                         *)
(*   crates/sito-ha/src/master/coordinator.rs                              *)
(*                                                                         *)
(* All maps of the coordinator are keyed by instance name and the module   *)
(* follows one instance over its successive, possibly overlapping,         *)
(* connections.  The one operation that relates two instances is           *)
(* trigger_resync: it clears the advisory divergence records of all when   *)
(* any of them was notified, which is a choice here.  An action is what a  *)
(* task does between two points where another task may change what it      *)
(* read: the steps of a handshake, of a broadcast, of a resync and of the  *)
(* handling of an Ack are separate actions.  The bundle sequence is that   *)
(* of HaMaster as long as no two state writes overlap there: a publish is  *)
(* durable before it is visible.  The slave at the other end of the wires  *)
(* is added by HaReplication.                                              *)
(***************************************************************************)
EXTENDS Naturals, Sequences

CONSTANTS
    Conn,          \* connection ids
    MaxVersion,    \* bound: highest version the master publishes
    MaxTerm,       \* bound: highest term
    Incarnation,   \* numbers of the master's state files: a lost one starts a new sequence
    MaxLead,       \* MAX_PEER_VERSION_LEAD
    Cap,           \* capacity of a session's push queue (32 in the code)
    WireCap,       \* bound: messages in flight on a WebSocket
    None           \* Rust's Option::None

VARIABLES
    active,    \* active_bundle and active_push; None while the master is down
    stored,    \* ha_state.toml, or None
    lastInc,   \* incarnation of the bundle sequence
    entry,     \* slaves[instance]: connection_id and synced_version
    repushed,  \* stale_repushes[instance]
    diverged,  \* diverged[instance]
    session,   \* the state of each session task
    chan,      \* the mpsc channel of each session
    fallback,  \* the fallback delivery task (pending_fallbacks), or None
    bcast,     \* push a publisher still has to broadcast, or None
    resync,    \* the state of trigger_resync, or None
    down,      \* WebSocket messages to the slave
    upq        \* WebSocket messages to the master

master == <<active, stored, lastInc>>
tracking == <<entry, repushed, diverged>>
vars == <<master, tracking, session, chan, fallback, bcast, resync, down, upq>>

Bundle == [version : 1 .. MaxVersion, term : 0 .. MaxTerm, hash : Incarnation]
Severity == [Ahead |-> 1, Term |-> 2, Fork |-> 3]
Hello(v, t) == [type |-> "Hello", version |-> v, term |-> t]
AckMsg(v, t, ok, c) ==
    [type |-> "Ack", version |-> v, term |-> t, applied |-> ok, conflict |-> c]
PeerMessage ==
    [type : {"Hello"}, version : Nat, term : Nat]
    \cup [type : {"Ack"}, version : Nat, term : Nat, applied : BOOLEAN,
          conflict : {"StaleTerm", "StaleVersion", "SameVersionFork", None}]

TypeOK ==
    /\ active \in Bundle \cup {None}
    /\ stored \in Bundle \cup {None}
    /\ lastInc \in Incarnation
    /\ entry = None \/ entry \in [conn : Conn, synced : 0 .. MaxVersion]
    /\ entry # None => session[entry.conn].pc \in {"registered", "loop", "ack"}
    /\ repushed = None \/ repushed \in Nat
    /\ diverged = None \/ diverged \in [kind : DOMAIN Severity, version : Nat]
    /\ \A c \in Conn :
         /\ session[c].pc \in {"none", "marked", "registered", "loop", "ack", "done"}
         /\ session[c].msg = None \/ session[c].msg \in PeerMessage
         /\ session[c].cur \in 0 .. MaxVersion /\ session[c].term \in 0 .. MaxTerm
         /\ chan[c] \in Seq(Bundle) /\ Len(chan[c]) <= Cap
         /\ down[c] \in Seq(Bundle) /\ upq[c] \in Seq(PeerMessage)
    /\ fallback = None \/
       fallback \in [conn : Conn, pc : {"spawned", "waiting", "sent"}, msg : Bundle]
    /\ bcast \in Bundle \cup {None}
    /\ resync = None \/ resync \in [pc : {"broadcast", "clear"}, msg : Bundle]

NoSession == [pc |-> "none", msg |-> None, cur |-> 0, term |-> 0]

Init ==
    /\ active = None /\ stored = None /\ lastInc = 1
    /\ entry = None /\ repushed = None /\ diverged = None
    /\ session = [c \in Conn |-> NoSession]
    /\ chan = [c \in Conn |-> <<>>]
    /\ fallback = None /\ bcast = None /\ resync = None
    /\ down = [c \in Conn |-> <<>>]
    /\ upq = [c \in Conn |-> <<>>]

-----------------------------------------------------------------------------
(* The master process and its bundle sequence *)

(* Start: the stored sequence is resumed, or a fresh one starts at v1. *)
StartMaster ==
    /\ active = None
    /\ stored' = IF stored = None THEN [version |-> 1, term |-> 0, hash |-> lastInc] ELSE stored
    /\ active' = stored'
    /\ UNCHANGED <<lastInc, tracking, session, chan, fallback, bcast, resync, down, upq>>

(* A crash ends every session and empties every map. *)
CrashMaster ==
    /\ active # None
    /\ active' = None
    /\ entry' = None /\ repushed' = None /\ diverged' = None
    /\ session' = [c \in Conn |-> IF session[c].pc = "none" /\ upq[c] = <<>>
                                    THEN NoSession ELSE [NoSession EXCEPT !.pc = "done"]]
    /\ chan' = [c \in Conn |-> <<>>]
    /\ fallback' = None /\ bcast' = None /\ resync' = None
    /\ upq' = [c \in Conn |-> <<>>]
    /\ UNCHANGED <<stored, lastInc, down>>

(* ha_state.toml is lost or corrupt: the next start begins a new sequence. *)
LoseState ==
    /\ active = None /\ stored # None
    /\ lastInc + 1 \in Incarnation
    /\ lastInc' = lastInc + 1
    /\ stored' = None
    /\ UNCHANGED <<active, tracking, session, chan, fallback, bcast, resync, down, upq>>

(* The operator promotes the master: a higher term and a higher version. *)
Promote ==
    /\ active = None /\ stored # None
    /\ stored.term < MaxTerm /\ stored.version < MaxVersion
    /\ stored' = [stored EXCEPT !.term = @ + 1, !.version = @ + 1]
    /\ UNCHANGED <<active, lastInc, tracking, session, chan, fallback, bcast, resync, down, upq>>

(* update_bundle_async up to publish_prepared; persist_lock is held until  *)
(* the broadcast is over.                                                  *)
Publish ==
    /\ active # None /\ bcast = None
    /\ active.version < MaxVersion
    /\ active' = [active EXCEPT !.version = @ + 1]
    /\ stored' = active'
    /\ bcast' = active'
    /\ UNCHANGED <<lastInc, tracking, session, chan, fallback, resync, down, upq>>

-----------------------------------------------------------------------------
(* Queueing pushes *)

HasRoom(c) == Len(chan[c]) < Cap

(* try_send whose failure is only logged. *)
TrySend(c, m) ==
    chan' = IF HasRoom(c) THEN [chan EXCEPT ![c] = Append(@, m)] ELSE chan

(* broadcast: a full queue schedules one fallback task per instance; while *)
(* that task is pending, further pushes are coalesced onto it.             *)
BroadcastPush(m) ==
    CASE entry = None -> UNCHANGED <<chan, fallback>>
      [] entry # None /\ HasRoom(entry.conn) ->
            /\ chan' = [chan EXCEPT ![entry.conn] = Append(@, m)]
            /\ UNCHANGED fallback
      [] entry # None /\ ~HasRoom(entry.conn) ->
            /\ fallback' = IF fallback = None
                             THEN [conn |-> entry.conn, pc |-> "spawned", msg |-> m]
                             ELSE fallback
            /\ UNCHANGED chan

Broadcast ==
    /\ bcast # None
    /\ BroadcastPush(bcast)
    /\ bcast' = None
    /\ UNCHANGED <<master, tracking, session, resync, down, upq>>

(* The fallback task clones the active push, waits for room, sends. *)
FallbackClone ==
    /\ fallback # None /\ fallback.pc = "spawned"
    /\ fallback' = [fallback EXCEPT !.pc = "waiting", !.msg = active]
    /\ UNCHANGED <<master, tracking, session, chan, bcast, resync, down, upq>>

FallbackSend ==
    /\ fallback # None /\ fallback.pc = "waiting"
    /\ \/ /\ session[fallback.conn].pc = "done"
          /\ UNCHANGED chan
       \/ /\ session[fallback.conn].pc # "done"
          /\ HasRoom(fallback.conn)
          /\ chan' = [chan EXCEPT ![fallback.conn] = Append(@, fallback.msg)]
    /\ fallback' = [fallback EXCEPT !.pc = "sent"]
    /\ UNCHANGED <<master, tracking, session, bcast, resync, down, upq>>

FallbackDone ==
    /\ fallback # None /\ fallback.pc = "sent"
    /\ fallback' = None
    /\ UNCHANGED <<master, tracking, session, chan, bcast, resync, down, upq>>

(* trigger_resync: clone the active push, broadcast it, and when a slave   *)
(* was notified, this one or another, clear the advisory records of all.   *)
ResyncClone ==
    /\ active # None /\ resync = None
    /\ resync' = [pc |-> "broadcast", msg |-> active]
    /\ UNCHANGED <<master, tracking, session, chan, fallback, bcast, down, upq>>

ResyncBroadcast ==
    /\ resync # None /\ resync.pc = "broadcast"
    /\ BroadcastPush(resync.msg)
    /\ \/ resync' = [resync EXCEPT !.pc = "clear"]
       \/ entry = None /\ resync' = None
    /\ UNCHANGED <<master, tracking, session, bcast, down, upq>>

ResyncClear_All ==
    /\ resync # None /\ resync.pc = "clear"
    /\ diverged' = None
    /\ resync' = None
    /\ UNCHANGED <<master, entry, repushed, session, chan, fallback, bcast, down, upq>>

ResyncClear ==
    /\ resync # None /\ resync.pc = "clear"
    /\ diverged' = IF diverged # None /\ diverged.kind # "Fork" THEN None ELSE diverged
    /\ resync' = None
    /\ UNCHANGED <<master, entry, repushed, session, chan, fallback, bcast, down, upq>>

-----------------------------------------------------------------------------
(* A session: handshake, loop, acknowledgements *)

(* The most severe kind, and for it the highest version, is kept. *)
MarkDiverged(k, v) ==
    diverged' = IF \/ diverged = None
                   \/ Severity[k] > Severity[diverged.kind]
                   \/ k = diverged.kind /\ v >= diverged.version
                  THEN [kind |-> k, version |-> v]
                  ELSE diverged

Implausible(v) == v > active.version + MaxLead

(* Hello: protocol, role and token are fine; the claimed version decides.  *)
AcceptHello(c) ==
    /\ active # None
    /\ session[c].pc = "none" /\ upq[c] # <<>>
    /\ LET h == Head(upq[c]) IN
         /\ h.type = "Hello" /\ ~Implausible(h.version)
         /\ CASE h.term > active.term -> MarkDiverged("Term", h.version)
              [] h.term = active.term /\ h.version > active.version ->
                    MarkDiverged("Ahead", h.version)
              [] OTHER -> UNCHANGED diverged
    /\ session' = [session EXCEPT ![c].pc = "marked"]
    /\ upq' = [upq EXCEPT ![c] = Tail(@)]
    /\ UNCHANGED <<master, entry, repushed, chan, fallback, bcast, resync, down>>

RejectHello(c) ==
    /\ active # None
    /\ session[c].pc = "none" /\ upq[c] # <<>>
    /\ Head(upq[c]).type # "Hello" \/ Implausible(Head(upq[c]).version)
    /\ session' = [session EXCEPT ![c].pc = "done"]
    /\ upq' = [upq EXCEPT ![c] = <<>>]
    /\ UNCHANGED <<master, tracking, chan, fallback, bcast, resync, down>>

(* The entry is inserted, replacing that of an older connection. *)
Register(c) ==
    /\ session[c].pc = "marked"
    /\ entry' = [conn |-> c, synced |-> 0]
    /\ session' = [session EXCEPT ![c].pc = "registered"]
    /\ UNCHANGED <<master, repushed, diverged, chan, fallback, bcast, resync, down, upq>>

InitialPush_Skipped(c) ==
    /\ session[c].pc = "registered"
    /\ session' = [session EXCEPT ![c].pc = "loop"]
    /\ UNCHANGED <<master, tracking, chan, fallback, bcast, resync, down, upq>>

(* The current push is queued for every new connection. *)
InitialPush(c) ==
    /\ session[c].pc = "registered"
    /\ TrySend(c, active)
    /\ session' = [session EXCEPT ![c].pc = "loop"]
    /\ UNCHANGED <<master, tracking, fallback, bcast, resync, down, upq>>

(* The session task writes a queued push to the WebSocket. *)
SendPush(c) ==
    /\ session[c].pc = "loop"
    /\ chan[c] # <<>> /\ Len(down[c]) < WireCap
    /\ down' = [down EXCEPT ![c] = Append(@, Head(chan[c]))]
    /\ chan' = [chan EXCEPT ![c] = Tail(@)]
    /\ UNCHANGED <<master, tracking, session, fallback, bcast, resync, upq>>

Owns(c) == entry # None /\ entry.conn = c

(* process_slave_msg, Ack: ownership, version and term are read. *)
ReceiveAck(c) ==
    /\ session[c].pc = "loop"
    /\ upq[c] # <<>> /\ Head(upq[c]).type = "Ack"
    /\ upq' = [upq EXCEPT ![c] = Tail(@)]
    /\ session' = IF Owns(c) /\ ~Implausible(Head(upq[c]).version)
                    THEN [session EXCEPT ![c] = [pc |-> "ack", msg |-> Head(upq[c]),
                                                 cur |-> active.version, term |-> active.term]]
                    ELSE session
    /\ UNCHANGED <<master, tracking, chan, fallback, bcast, resync, down>>

(* Back to the loop. *)
EndAck(c) == session' = [session EXCEPT ![c] = [NoSession EXCEPT !.pc = "loop"]]

(* The replica knows a newer term. *)
AckNewerTerm(c) ==
    /\ session[c].pc = "ack"
    /\ session[c].msg.term > session[c].term
    /\ MarkDiverged("Term", session[c].msg.version)
    /\ EndAck(c)
    /\ UNCHANGED <<master, entry, repushed, chan, fallback, bcast, resync, down, upq>>

(* Not applied: a fork of the push the master has active is recorded. *)
AckNotApplied(c) ==
    /\ session[c].pc = "ack"
    /\ LET m == session[c].msg IN
         /\ m.term <= session[c].term
         /\ ~m.applied
         /\ IF m.conflict = "SameVersionFork"
               /\ m.version = active.version /\ m.term = active.term
              THEN /\ MarkDiverged("Fork", m.version)
                   /\ entry' = IF Owns(c) THEN [entry EXCEPT !.synced = 0] ELSE entry
              ELSE UNCHANGED <<diverged, entry>>
    /\ EndAck(c)
    /\ UNCHANGED <<master, repushed, chan, fallback, bcast, resync, down, upq>>

AckCurrent_RereadsVersion(c) ==
    /\ session[c].pc = "ack"
    /\ session[c].msg.applied /\ session[c].msg.term = session[c].term
    /\ session[c].msg.version = session[c].cur
    /\ IF Owns(c)
         THEN /\ entry' = [entry EXCEPT !.synced = active.version]
              /\ repushed' = None
         ELSE UNCHANGED <<entry, repushed>>
    /\ EndAck(c)
    /\ UNCHANGED <<master, diverged, chan, fallback, bcast, resync, down, upq>>

AckCurrent_IgnoresApplied(c) ==
    /\ session[c].pc = "ack"
    /\ session[c].msg.term = session[c].term
    /\ session[c].msg.version = session[c].cur
    /\ IF Owns(c)
         THEN /\ entry' = [entry EXCEPT !.synced = session[c].msg.version]
              /\ repushed' = None
         ELSE UNCHANGED <<entry, repushed>>
    /\ EndAck(c)
    /\ UNCHANGED <<master, diverged, chan, fallback, bcast, resync, down, upq>>

(* The replica applied what was current when the Ack was read. *)
AckCurrent(c) ==
    /\ session[c].pc = "ack"
    /\ LET m == session[c].msg IN
         /\ m.applied /\ m.term = session[c].term /\ m.version = session[c].cur
         /\ IF Owns(c)
              THEN /\ entry' = [entry EXCEPT !.synced = m.version]
                   /\ repushed' = None
                   /\ diverged' = IF diverged # None /\ diverged.kind = "Fork"
                                    THEN None ELSE diverged
              ELSE UNCHANGED <<entry, repushed, diverged>>
    /\ EndAck(c)
    /\ UNCHANGED <<master, chan, fallback, bcast, resync, down, upq>>

(* maybe_repush: once per acknowledged version, to the current entry. *)
Repush(v) ==
    IF repushed = v
      THEN UNCHANGED <<repushed, chan>>
      ELSE /\ repushed' = v
           /\ IF entry # None THEN TrySend(entry.conn, active) ELSE UNCHANGED chan

(* An older term, or an older version of the current term, was applied. *)
AckStale(c) ==
    /\ session[c].pc = "ack"
    /\ LET m == session[c].msg IN
         /\ m.applied
         /\ \/ m.term < session[c].term
            \/ m.term = session[c].term /\ m.version < session[c].cur
         /\ Repush(m.version)
    /\ EndAck(c)
    /\ UNCHANGED <<master, entry, diverged, fallback, bcast, resync, down, upq>>

(* The replica is ahead in the same term. *)
AckAhead(c) ==
    /\ session[c].pc = "ack"
    /\ LET m == session[c].msg IN
         /\ m.applied /\ m.term = session[c].term /\ m.version > session[c].cur
         /\ MarkDiverged("Ahead", m.version)
    /\ EndAck(c)
    /\ UNCHANGED <<master, entry, repushed, chan, fallback, bcast, resync, down, upq>>

(* A Hello inside a session asks for the active push again. *)
ReceiveHello(c) ==
    /\ session[c].pc = "loop"
    /\ upq[c] # <<>> /\ Head(upq[c]).type = "Hello"
    /\ upq' = [upq EXCEPT ![c] = Tail(@)]
    /\ IF Owns(c) THEN TrySend(c, active) ELSE UNCHANGED chan
    /\ UNCHANGED <<master, tracking, session, fallback, bcast, resync, down>>

EndSession_KeepsEntry(c) ==
    /\ session[c].pc = "loop"
    /\ session' = [session EXCEPT ![c] = [NoSession EXCEPT !.pc = "done"]]
    /\ chan' = [chan EXCEPT ![c] = <<>>]
    /\ upq' = [upq EXCEPT ![c] = <<>>]
    /\ UNCHANGED <<master, tracking, fallback, bcast, resync, down>>

(* The session ends: peer gone, error, heartbeat timeout, or superseded.   *)
(* unregister_session removes what belongs to this connection only.        *)
EndSession(c) ==
    /\ session[c].pc = "loop"
    /\ session' = [session EXCEPT ![c] = [NoSession EXCEPT !.pc = "done"]]
    /\ chan' = [chan EXCEPT ![c] = <<>>]
    /\ IF Owns(c)
         THEN entry' = None /\ repushed' = None /\ diverged' = None
         ELSE UNCHANGED tracking
    /\ upq' = [upq EXCEPT ![c] = <<>>]
    /\ UNCHANGED <<master, fallback, bcast, resync, down>>

-----------------------------------------------------------------------------
SessionStep(c) ==
    \/ AcceptHello(c)
    \/ RejectHello(c)
    \/ Register(c)
    \/ InitialPush(c)
    \/ SendPush(c)
    \/ ReceiveAck(c)
    \/ AckNewerTerm(c)
    \/ AckNotApplied(c)
    \/ AckCurrent(c)
    \/ AckStale(c)
    \/ AckAhead(c)
    \/ ReceiveHello(c)

DeliveryStep ==
    \/ Broadcast
    \/ FallbackClone
    \/ FallbackSend
    \/ FallbackDone
    \/ ResyncBroadcast
    \/ ResyncClear
=============================================================================

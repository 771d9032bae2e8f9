---------------------------- MODULE HaReplication ----------------------------
(***************************************************************************)
(* The whole replication path: the master of HaCoordinator and the slave   *)
(* of HaSlave, joined by WebSocket connections.  Either node may crash and *)
(* restart, sessions may break at any time on either side, the master may  *)
(* lose its state file or be promoted.                                     *)
(*                                                                         *)
(* A bundle is identified by version, term and the incarnation of the      *)
(* state file it was numbered by: HaMaster shows that one incarnation      *)
(* never gives two bundles one version.                                    *)
(***************************************************************************)
EXTENDS Naturals, Sequences

CONSTANTS
    Conn, MaxVersion, MaxTerm, Incarnation, MaxLead, Cap, WireCap, None,
    LocalConfig,
    Faults         \* which of "master", "state", "promote", "slave", "link" and "resync" occur

ASSUME ReplicationAssumption ==
    /\ Conn \subseteq Nat
    /\ MaxVersion \in Nat /\ MaxTerm \in Nat /\ MaxLead \in Nat
    /\ Cap \in Nat \ {0} /\ WireCap \in Nat \ {0}
    /\ Incarnation \subseteq Nat /\ 1 \in Incarnation
    /\ Faults \subseteq {"master", "state", "promote", "slave", "link", "resync"}

VARIABLES
    active, stored, lastInc, entry, repushed, diverged,
    session, chan, fallback, bcast, resync, down, upq,
    wmDisk, wm, current_version, current_term, state, degraded_reason,
    connection_error, live, disk, master_pubkey, pc, push, ack,
    sconn          \* the slave's open connection, or None

M == INSTANCE HaCoordinator

S == INSTANCE HaSlave WITH
       Version <- 0 .. MaxVersion + 1, Term <- 0 .. MaxTerm + 1,
       MaxU64 <- MaxVersion + MaxTerm + 1, Payload <- Incarnation

masterVars == <<active, stored, lastInc, entry, repushed, diverged, session, chan,
                fallback, bcast, resync, down, upq>>
slaveVars == <<wmDisk, wm, current_version, current_term, state, degraded_reason,
               connection_error, live, disk, master_pubkey, pc, push, ack>>
vars == <<masterVars, slaveVars, sconn>>

Init == M!Init /\ S!Init /\ sconn = None

-----------------------------------------------------------------------------
(* Steps of the slave, seen from the wires *)

(* A connection id is free when no task refers to it any more: the code    *)
(* draws a fresh id each time, and ids are only compared for equality.     *)
Unused(c) ==
    /\ session[c].pc = "none" => upq[c] = <<>>
    /\ session[c].pc \in {"none", "done"}
    /\ sconn # c
    /\ fallback # None => fallback.conn # c

(* The slave's end of the connection is gone, with what was sent to it;    *)
(* the master may still read what the slave had sent.                      *)
Abandon ==
    /\ sconn' = None
    /\ down' = [c \in Conn |-> IF c = sconn THEN <<>> ELSE down[c]]
    /\ UNCHANGED <<active, stored, lastInc, entry, repushed, diverged, session, chan,
                   fallback, bcast, resync, upq>>

SlaveBoots ==
    /\ S!Start
    /\ master_pubkey'
    /\ UNCHANGED <<masterVars, sconn>>

SlaveCrashes ==
    /\ "slave" \in Faults
    /\ S!Crash
    /\ Abandon

SlaveReconnects ==
    /\ \/ S!Reconnect
       \/ active # None /\ S!Handshake
    /\ UNCHANGED <<masterVars, sconn>>

(* A new connection, which counts from its Hello on: the master keeps      *)
(* nothing of a connection before.  Hello announces what the tracker says. *)
SlaveConnects(c) ==
    /\ active # None
    /\ Unused(c) /\ \A d \in Conn : d < c => ~Unused(d)
    /\ S!SendHello
    /\ sconn' = c
    /\ session' = [session EXCEPT ![c] = M!NoSession]
    /\ upq' = [upq EXCEPT ![c] = <<M!Hello(current_version, current_term)>>]
    /\ down' = [down EXCEPT ![c] = <<>>]
    /\ UNCHANGED <<active, stored, lastInc, entry, repushed, diverged, chan,
                   fallback, bcast, resync>>

(* The connection breaks, and one end notices: the slave's stream ends     *)
(* with an error, or the master's session ends.                            *)
LinkFails ==
    /\ "link" \in Faults
    /\ sconn # None
    /\ \/ S!SessionBreaks /\ Abandon
       \/ M!EndSession(sconn) /\ UNCHANGED <<slaveVars, sconn>>

(* The slave finds the connection closed by the master. *)
SlaveSeesClose ==
    /\ pc = "session" /\ session[sconn].pc = "done" /\ down[sconn] = <<>>
    /\ S!SessionCloses
    /\ Abandon

(* The watchdog of a session ends it: the slave has left it, so it is      *)
(* silent for three heartbeats, or it does not own the entry any more.     *)
WatchdogCloses ==
    /\ \E c \in Conn : (sconn = c => ~M!Owns(c)) /\ M!EndSession(c)
    /\ UNCHANGED <<slaveVars, sconn>>

(* The Ack of a slave step, if it sends one, goes on the wire; what is     *)
(* sent to a session the master has ended is lost.                         *)
Reply(c) ==
    upq' = IF pc' = "session" /\ session[c].pc # "done"
             THEN [upq EXCEPT ![c] = Append(@, M!AckMsg(ack'.version, ack'.term,
                                                        ack'.applied, ack'.conflict))]
             ELSE upq

SlaveReceives ==
    /\ pc = "session" /\ down[sconn] # <<>> /\ Len(upq[sconn]) < WireCap
    /\ S!HandlePush(Head(down[sconn]))
    /\ down' = [down EXCEPT ![sconn] = Tail(@)]
    /\ Reply(sconn)
    /\ UNCHANGED <<active, stored, lastInc, entry, repushed, diverged, session, chan,
                   fallback, bcast, resync, sconn>>

SlaveApplies ==
    /\ S!ApplySteps
    /\ "slave" \notin Faults => ~S!RejectPush /\ ~S!PersistWatermarkFails
    /\ Reply(sconn)
    /\ UNCHANGED <<active, stored, lastInc, entry, repushed, diverged, session, chan,
                   fallback, bcast, resync, down, sconn>>

(* An operator asks the slave for a resync: Hello inside the session. *)
SlaveAsksResync ==
    /\ "resync" \in Faults
    /\ pc = "session" /\ session[sconn].pc # "done" /\ Len(upq[sconn]) < WireCap
    /\ upq' = [upq EXCEPT ![sconn] = Append(@, M!Hello(current_version, current_term))]
    /\ UNCHANGED <<active, stored, lastInc, entry, repushed, diverged, session, chan,
                   fallback, bcast, resync, down, slaveVars, sconn>>

-----------------------------------------------------------------------------
SlaveWorks == SlaveBoots \/ SlaveReconnects \/ SlaveReceives \/ SlaveApplies

(* The steps the master takes by itself, and those that befall it. *)
MasterWorks ==
    /\ \/ M!StartMaster
       \/ M!Publish
       \/ M!DeliveryStep
       \/ \E c \in Conn : M!SessionStep(c)
    /\ UNCHANGED <<slaveVars, sconn>>

MasterCrashes ==
    /\ "master" \in Faults
    /\ M!CrashMaster
    /\ UNCHANGED <<slaveVars, sconn>>

OperatorActs ==
    /\ \/ "state" \in Faults /\ M!LoseState
       \/ "promote" \in Faults /\ M!Promote
       \/ "resync" \in Faults /\ M!ResyncClone
    /\ UNCHANGED <<slaveVars, sconn>>

Next ==
    \/ MasterWorks
    \/ MasterCrashes
    \/ OperatorActs
    \/ SlaveWorks
    \/ SlaveCrashes
    \/ LinkFails
    \/ SlaveSeesClose
    \/ WatchdogCloses
    \/ SlaveAsksResync
    \/ \E c \in Conn : SlaveConnects(c)

Spec == Init /\ [][Next]_vars

(* Both processes keep running their tasks; the operator owes nothing.     *)
FairSpec ==
    /\ Spec
    /\ WF_vars(SlaveWorks)
    /\ WF_vars(SlaveSeesClose)
    /\ WF_vars(WatchdogCloses)
    /\ WF_vars(\E c \in Conn : SlaveConnects(c))
    /\ WF_vars(M!StartMaster /\ UNCHANGED <<slaveVars, sconn>>)
    /\ WF_vars(M!DeliveryStep /\ UNCHANGED <<slaveVars, sconn>>)
    /\ \A c \in Conn : WF_vars(M!SessionStep(c) /\ UNCHANGED <<slaveVars, sconn>>)

-----------------------------------------------------------------------------
(* Properties *)

TypeOK == M!TypeOK /\ S!TypeOK /\ sconn \in Conn \cup {None}

SlaveHolds(b) ==
    /\ wmDisk # None
    /\ wmDisk.version = b.version /\ wmDisk.term = b.term /\ wmDisk.hash = b.hash

(* When the master lists the slave as synced to its current version, the   *)
(* slave has durably applied that very bundle, not another one of the same *)
(* number: after crashes of either side, lost state, promotion, overlapping*)
(* connections, late Acks and repeated pushes.                             *)
SyncedIsApplied ==
    entry # None /\ active # None /\ entry.synced = active.version => SlaveHolds(active)

(* Nothing is in flight between the two nodes on the slave's connection.   *)
Quiet ==
    /\ active # None /\ entry # None /\ sconn = entry.conn
    /\ session[sconn].pc = "loop" /\ pc = "session"
    /\ chan[sconn] = <<>> /\ down[sconn] = <<>> /\ upq[sconn] = <<>>
    /\ fallback = None /\ bcast = None /\ resync = None

(* No push is lost silently ("do not silently drop the update"): when the  *)
(* connection is quiet, the slave has the active bundle and is listed as   *)
(* synced to it, or one of the two nodes reports a problem: the master by  *)
(* a divergence record, the slave by being degraded.  The initial push,    *)
(* the fallback task and the repush on a stale Ack are there for this.     *)
NoSilentLoss ==
    Quiet => \/ SlaveHolds(active) /\ entry.synced = active.version
             \/ diverged # None
             \/ state = "Degraded"

(* mark_diverged never downgrades a record; only the removal of the whole  *)
(* record, on resync, disconnect or a crash, makes it less severe, and a   *)
(* resync never removes a fork.                                            *)
SeverityNeverDrops ==
    [][/\ diverged # None /\ diverged' # None =>
            M!Severity[diverged'.kind] >= M!Severity[diverged.kind]
       /\ resync # None /\ resync' = None /\ active' # None =>
            diverged = None \/ diverged.kind # "Fork" \/ diverged' = diverged]_vars

SlaveAhead ==
    /\ wm # None
    /\ \/ wm.term > active.term
       \/ wm.term = active.term /\ wm.version > active.version

(* The runbook: a master whose state file was lost "detects any replica    *)
(* that is ahead (same term) or in a newer term, marks itself diverged".   *)
AheadIsRecorded == Quiet /\ SlaveAhead => diverged # None

Fails == LinkFails \/ MasterCrashes \/ SlaveCrashes

(* Once connections and nodes stop failing, every published bundle reaches *)
(* the slave: in the end it holds the last one and the master knows, or    *)
(* the slave reports itself degraded because applying it failed.           *)
Converges ==
    <>[][~Fails]_vars =>
        <>[]\/ /\ active # None /\ entry # None
              /\ SlaveHolds(active) /\ entry.synced = active.version
            \/ state = "Degraded"
=============================================================================

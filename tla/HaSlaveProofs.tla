---------------------------- MODULE HaSlaveProofs ----------------------------
(* Proofs about HaSlave, for every set of versions, terms and payloads.     *)
EXTENDS HaSlave, TLAPS

(* In memory and on disk the watermark names the same bundle. *)
SameMark ==
    pc # "down" => /\ wm = None <=> wmDisk = None
                   /\ wm # None => wm.hash = wmDisk.hash

(* A push that is being applied still passes the checks it passed when it  *)
(* was staged: nothing moves the watermark between the check and its use.  *)
StagedIsFresh ==
    /\ pc \in {"staging", "persisting"} => Fresh(push)
    /\ pc = "persisting" => Verifies(push)

(* When the Ack is about to be sent, the file names the push. *)
AckingIsDurable ==
    pc = "acking" => /\ wmDisk # None
                     /\ wmDisk.version = push.version
                     /\ wmDisk.term = push.term

(* The inductive invariant. *)
IInv ==
    /\ TypeOK
    /\ TrackerFollowsWatermark
    /\ SameMark
    /\ AckDurable
    /\ CanAdvance
    /\ StagedIsFresh
    /\ AckingIsDurable

-----------------------------------------------------------------------------
(* Versions and terms are natural numbers up to u64::MAX. *)
LEMMA Numbers ==
    /\ \A w \in Watermark : w.version \in 0 .. MaxU64 /\ w.term \in 0 .. MaxU64
    /\ \A p \in Push : p.version \in 0 .. MaxU64 /\ p.term \in 0 .. MaxU64
    /\ MaxU64 \in Nat
BY NumbersAssumption DEF Watermark, Push

(* The first state satisfies the invariant. *)
LEMMA InitIInv == Init => IInv
<1> SUFFICES ASSUME Init PROVE IInv
  OBVIOUS
<1>1. TypeOK
  BY DEF Init, TypeOK, SlaveState
<1>2. TrackerFollowsWatermark /\ SameMark /\ AckDurable /\ CanAdvance
  BY DEF Init, TrackerFollowsWatermark, SameMark, AckDurable, CanAdvance
<1>3. StagedIsFresh /\ AckingIsDurable
  BY DEF Init, StagedIsFresh, AckingIsDurable
<1> QED BY <1>1, <1>2, <1>3 DEF IInv

(* Latching a fork changes nothing but the mark, in memory and, when the   *)
(* write succeeds, in the file.                                            *)
LEMMA LatchKeepsMark ==
    ASSUME IInv, pc # "down", wm # None, LatchFork
    PROVE  /\ wm' \in Watermark /\ wmDisk' \in Watermark
           /\ wm'.version = wm.version /\ wmDisk'.version = wmDisk.version
           /\ wm'.term = wm.term /\ wmDisk'.term = wmDisk.term
           /\ wm'.hash = wm.hash /\ wmDisk'.hash = wmDisk.hash
           /\ wm'.forked
           /\ wmDisk.forked => wmDisk'.forked
<1>1. wm \in Watermark /\ wmDisk \in Watermark
  BY NoneAssumption DEF IInv, TypeOK, SameMark
<1>2. /\ wm.version = wmDisk.version /\ wm.term = wmDisk.term /\ wm.hash = wmDisk.hash
  BY <1>1 DEF IInv, TrackerFollowsWatermark, SameMark, WmVersion, WmTerm
<1>3. /\ wm' \in Watermark /\ wm'.version = wm.version /\ wm'.term = wm.term
      /\ wm'.hash = wm.hash /\ wm'.forked
  BY <1>1 DEF LatchFork, Watermark
<1> QED BY <1>1, <1>2, <1>3 DEF LatchFork

(* Handling a push that is refused, latched or acknowledged at once. *)
LEMMA EarlyReturns ==
    ASSUME IInv, NEW p \in Push, HandlePush(p)
    PROVE  IInv'
<1> USE NoneAssumption
<1>0. pc = "session" /\ push = None
  BY DEF IInv, TypeOK, HandlePush, RefuseForked, RefuseStaleTerm, RefuseTermReset,
         RefuseStaleVersion, DetectFork, AckDuplicate, AckWithoutWatermark, StagePush
<1>1. ASSUME RefuseForked(p) \/ DetectFork(p) PROVE IInv'
  <2>1. wm # None /\ LatchFork /\ MarkDegraded /\ ack' = Ack(wm.version, wm.term, FALSE, "SameVersionFork")
        /\ UNCHANGED <<live, disk, master_pubkey, pc, push>>
    BY <1>1 DEF RefuseForked, DetectFork, ForkBlocks, WmForked
  <2>2. /\ wm' \in Watermark /\ wmDisk' \in Watermark
        /\ wm'.version = wm.version /\ wmDisk'.version = wmDisk.version
        /\ wm'.term = wm.term /\ wmDisk'.term = wmDisk.term
        /\ wm'.hash = wm.hash /\ wmDisk'.hash = wmDisk.hash
        /\ wm'.forked
    BY <1>0, <2>1, LatchKeepsMark
  <2>3. wm \in Watermark /\ wmDisk \in Watermark
    BY <1>0, <2>1 DEF IInv, TypeOK, SameMark
  <2>4. TypeOK'
    <3>1. ack' \in AckMessage
      BY <2>1, <2>3, Numbers DEF Ack, AckMessage, Conflict
    <3> QED BY <1>0, <2>1, <2>2, <3>1 DEF IInv, TypeOK, MarkDegraded, SlaveState
  <2>5. TrackerFollowsWatermark'
    BY <1>0, <2>1, <2>2, <2>3 DEF IInv, TrackerFollowsWatermark, MarkDegraded, WmVersion, WmTerm, WmForked
  <2>6. AckDurable' /\ CanAdvance' /\ SameMark'
    BY <1>0, <2>1, <2>2, <2>3 DEF IInv, AckDurable, CanAdvance, SameMark, Ack
  <2> QED BY <1>0, <2>1, <2>4, <2>5, <2>6 DEF IInv, StagedIsFresh, AckingIsDurable
<1>2. ASSUME RefuseStaleTerm(p) \/ RefuseTermReset(p) \/ RefuseStaleVersion(p) \/ AckDuplicate(p)
      PROVE  IInv'
  <2>1. /\ wm # None
        /\ \E ok \in BOOLEAN, c \in Conflict \cup {None} : ack' = Ack(wm.version, wm.term, ok, c)
        /\ UNCHANGED <<wmDisk, wm, live, disk, master_pubkey, pc, push>>
        /\ MarkDegraded \/ MarkSynced(wm.version, wm.term) \/ UNCHANGED tracker
    BY <1>2 DEF RefuseStaleTerm, RefuseTermReset, RefuseStaleVersion, AckDuplicate, Conflict
  <2>2. wm \in Watermark /\ wmDisk \in Watermark
    BY <1>0, <2>1 DEF IInv, TypeOK, SameMark
  <2>3. wm.version = current_version /\ wm.term = current_term
        /\ wmDisk.version = current_version /\ wmDisk.term = current_term
    BY <1>0, <2>1, <2>2 DEF IInv, TrackerFollowsWatermark, WmVersion, WmTerm
  <2>4. current_version' = current_version /\ current_term' = current_term /\ state' \in SlaveState
        /\ connection_error' \in BOOLEAN /\ degraded_reason' \in BOOLEAN
    BY <2>1, <2>3 DEF MarkDegraded, MarkSynced, tracker, SlaveState, IInv, TypeOK
  <2>5. ack' \in AckMessage /\ ack'.version = wm.version /\ ack'.term = wm.term
    BY <2>1, <2>2, Numbers DEF Ack, AckMessage
  <2>6. TypeOK'
    BY <1>0, <2>1, <2>4, <2>5 DEF IInv, TypeOK
  <2>7. TrackerFollowsWatermark' /\ SameMark' /\ CanAdvance'
    BY <1>0, <2>1, <2>4 DEF IInv, TrackerFollowsWatermark, SameMark, CanAdvance, WmVersion, WmTerm, WmForked
  <2>8. AckDurable'
    BY <2>1, <2>2, <2>3, <2>5, Numbers DEF AckDurable, WmVersion, WmTerm
  <2> QED BY <1>0, <2>1, <2>6, <2>7, <2>8 DEF IInv, StagedIsFresh, AckingIsDurable
<1>3. ASSUME AckWithoutWatermark(p) PROVE IInv'
  <2>1. wm = None /\ wmDisk = None /\ current_version = 0 /\ current_term = 0
    BY <1>0, <1>3 DEF AckWithoutWatermark, IInv, SameMark, TrackerFollowsWatermark, WmVersion, WmTerm
  <2>2. /\ UNCHANGED <<wmDisk, wm, live, disk, master_pubkey, pc, push>>
        /\ MarkSynced(0, 0) \/ UNCHANGED tracker
        /\ \E ok \in BOOLEAN, c \in Conflict \cup {None} : ack' = Ack(0, 0, ok, c)
    BY <1>3, <2>1 DEF AckWithoutWatermark, Conflict
  <2>3. current_version' = 0 /\ current_term' = 0 /\ state' \in SlaveState
        /\ connection_error' \in BOOLEAN /\ degraded_reason' \in BOOLEAN
    BY <2>1, <2>2 DEF MarkSynced, tracker, SlaveState, IInv, TypeOK
  <2>4. ack' \in AckMessage /\ ack'.version = 0 /\ ack'.term = 0
    BY <2>2 DEF Ack, AckMessage
  <2>5. TypeOK'
    BY <1>0, <2>2, <2>3, <2>4 DEF IInv, TypeOK
  <2>6. TrackerFollowsWatermark' /\ SameMark' /\ CanAdvance' /\ AckDurable'
    BY <2>1, <2>2, <2>3, <2>4 DEF TrackerFollowsWatermark, SameMark, CanAdvance, AckDurable,
                                  WmVersion, WmTerm, WmForked
  <2> QED BY <1>0, <2>2, <2>5, <2>6 DEF IInv, StagedIsFresh, AckingIsDurable
<1>4. ASSUME StagePush(p) PROVE IInv'
  <2>1. TypeOK'
    BY <1>4 DEF StagePush, IInv, TypeOK, SlaveState
  <2>2. TrackerFollowsWatermark' /\ SameMark' /\ CanAdvance' /\ AckDurable'
    BY <1>0, <1>4 DEF StagePush, IInv, TrackerFollowsWatermark, SameMark, CanAdvance, AckDurable,
                WmVersion, WmTerm, WmForked
  <2>3. StagedIsFresh' /\ AckingIsDurable'
    BY <1>4 DEF StagePush, StagedIsFresh, AckingIsDurable, Fresh, ForkBlocks, WmForked
  <2> QED BY <2>1, <2>2, <2>3 DEF IInv
<1> QED BY <1>1, <1>2, <1>3, <1>4 DEF HandlePush

(* The steps of an apply that moves no watermark: the push is rejected, or *)
(* the configuration is switched and the watermark not yet written.        *)
LEMMA ApplyWithoutMark ==
    ASSUME IInv, RejectPush \/ RejectUnverifiable \/ ApplyAndPersist \/ PersistWatermarkFails
    PROVE  IInv'
<1>1. push \in Push /\ pc # "down"
  BY NoneAssumption
     DEF RejectPush, RejectUnverifiable, ApplyAndPersist, PersistWatermarkFails, IInv, TypeOK
<1>2. ASSUME RejectPush \/ RejectUnverifiable \/ PersistWatermarkFails PROVE IInv'
  <2>1. /\ ack' = Ack(push.version, push.term, FALSE, None)
        /\ pc' = "session" /\ push' = None
        /\ UNCHANGED <<wmDisk, wm, live, disk, master_pubkey>>
        /\ UNCHANGED <<current_version, current_term>>
        /\ state' \in SlaveState /\ connection_error' \in BOOLEAN /\ degraded_reason' \in BOOLEAN
    BY <1>2 DEF RejectPush, RejectUnverifiable, PersistWatermarkFails, MarkDegraded, tracker,
                SlaveState, IInv, TypeOK
  <2>2. ack' \in AckMessage /\ ~ack'.applied
    <3>1. push.version \in Nat /\ push.term \in Nat
      BY <1>1, Numbers
    <3>2. ack' = [version |-> push.version, term |-> push.term, applied |-> FALSE, conflict |-> None]
      BY <2>1 DEF Ack
    <3> QED BY <3>1, <3>2 DEF AckMessage
  <2>3. TypeOK'
    BY <2>1, <2>2 DEF IInv, TypeOK
  <2>4. TrackerFollowsWatermark' /\ SameMark' /\ CanAdvance'
    BY <1>1, <2>1 DEF IInv, TrackerFollowsWatermark, SameMark, CanAdvance, WmVersion, WmTerm, WmForked
  <2>5. AckDurable' /\ StagedIsFresh' /\ AckingIsDurable'
    BY <2>1, <2>2 DEF AckDurable, StagedIsFresh, AckingIsDurable
  <2> QED BY <2>3, <2>4, <2>5 DEF IInv
<1>3. ASSUME ApplyAndPersist PROVE IInv'
  <2>1. TypeOK'
    BY <1>1, <1>3, NoneAssumption DEF ApplyAndPersist, IInv, TypeOK, tracker, Push
  <2>2. TrackerFollowsWatermark' /\ SameMark' /\ CanAdvance' /\ AckDurable'
    BY <1>1, <1>3 DEF ApplyAndPersist, tracker, IInv, TrackerFollowsWatermark, SameMark, CanAdvance,
                AckDurable, WmVersion, WmTerm, WmForked
  <2>3. StagedIsFresh' /\ AckingIsDurable'
    BY <1>3 DEF ApplyAndPersist, tracker, IInv, StagedIsFresh, AckingIsDurable, Fresh, Verifies,
                ForkBlocks, WmForked, AtCeiling
  <2> QED BY <2>1, <2>2, <2>3 DEF IInv
<1> QED BY <1>2, <1>3

(* What holds of the watermark file when persist_watermark replaces it. *)
LEMMA PersistRaises ==
    ASSUME IInv, PersistWatermark
    PROVE  /\ push \in Push
           /\ wmDisk' \in Watermark
           /\ wmDisk'.version = push.version /\ wmDisk'.term = push.term
           /\ wmDisk'.hash = push.hash
           /\ ~wmDisk'.forked
           /\ push.version > WmVersion(wmDisk)
           /\ push.term >= WmTerm(wmDisk)
           /\ WmForked(wmDisk) => push.term > WmTerm(wmDisk)
<1>1. push \in Push /\ pc = "persisting"
  BY NoneAssumption DEF PersistWatermark, IInv, TypeOK
<1>2. /\ wmDisk' \in Watermark /\ wmDisk'.version = push.version /\ wmDisk'.term = push.term
      /\ wmDisk'.hash = push.hash /\ ~wmDisk'.forked
  BY <1>1 DEF PersistWatermark, Watermark, Push
<1>3. Fresh(push) /\ Verifies(push)
  BY <1>1 DEF IInv, StagedIsFresh
<1>4. CASE wm = None
  <2>1. wmDisk = None /\ current_version = 0
    BY <1>1, <1>4 DEF IInv, SameMark, TrackerFollowsWatermark, WmVersion
  <2>2. push.version > 0
    BY <1>3, <1>4, <2>1 DEF Verifies
  <2>3. push.version \in Nat /\ push.term \in Nat
    BY <1>1, Numbers
  <2>4. WmVersion(wmDisk) = 0 /\ WmTerm(wmDisk) = 0 /\ ~WmForked(wmDisk)
    BY <2>1 DEF WmVersion, WmTerm, WmForked
  <2> QED BY <1>1, <1>2, <1>3, <2>2, <2>3, <2>4
<1>5. CASE wm # None
  <2>1. wm \in Watermark /\ wmDisk \in Watermark
    BY <1>1, <1>5, NoneAssumption DEF IInv, TypeOK, SameMark
  <2>2. /\ wmDisk # None
        /\ wm.version = wmDisk.version /\ wm.term = wmDisk.term
        /\ wmDisk.forked => wm.forked
    BY <1>1, <1>5, <2>1, NoneAssumption
       DEF IInv, TrackerFollowsWatermark, SameMark, WmVersion, WmTerm, WmForked
  <2> QED BY <1>1, <1>2, <1>3, <1>5, <2>1, <2>2, Numbers
          DEF Fresh, ForkBlocks, WmVersion, WmTerm, WmForked
<1> QED BY <1>4, <1>5

(* Writing the watermark and sending the Ack. *)
LEMMA PersistAndAck ==
    ASSUME IInv, PersistWatermark \/ SendAck
    PROVE  IInv'
<1>1. ASSUME PersistWatermark PROVE IInv'
  <2>1. /\ push \in Push /\ wmDisk' \in Watermark /\ wm' = wmDisk'
        /\ wmDisk'.version = push.version /\ wmDisk'.term = push.term
        /\ push.version > WmVersion(wmDisk) /\ push.term >= WmTerm(wmDisk)
        /\ ~AtCeiling(push)
    BY <1>1, PersistRaises DEF PersistWatermark
  <2>2. wmDisk' # None
    BY <2>1, NoneAssumption
  <2>3. TypeOK'
    <3>1. push.version \in Nat /\ push.term \in Nat
      BY <2>1, Numbers
    <3> QED BY <1>1, <2>1, <3>1, NoneAssumption
            DEF PersistWatermark, MarkSynced, IInv, TypeOK, SlaveState
  <2>4. TrackerFollowsWatermark' /\ SameMark'
    BY <1>1, <2>1, <2>2 DEF PersistWatermark, MarkSynced, TrackerFollowsWatermark, SameMark,
                            WmVersion, WmTerm, WmForked
  <2>5. CanAdvance'
    <3>1. push.version \in 0 .. MaxU64 /\ push.term \in 0 .. MaxU64 /\ MaxU64 \in Nat
      BY <2>1, Numbers
    <3>2. push.version < MaxU64 /\ push.term < MaxU64
      BY <2>1, <3>1 DEF AtCeiling
    <3> QED BY <2>1, <3>2 DEF CanAdvance
  <2>6. AckDurable'
    <3>1. SUFFICES ASSUME ack # None, ack.applied
                   PROVE  push.version >= ack.version /\ push.term >= ack.term
      BY <1>1, <2>1, <2>2 DEF PersistWatermark, AckDurable, WmVersion, WmTerm
    <3>2. /\ WmVersion(wmDisk) >= ack.version /\ WmTerm(wmDisk) >= ack.term
          /\ ack.version \in Nat /\ ack.term \in Nat
          /\ WmVersion(wmDisk) \in Nat /\ WmTerm(wmDisk) \in Nat
      BY <3>1, Numbers DEF IInv, AckDurable, TypeOK, AckMessage, WmVersion, WmTerm
    <3> QED BY <2>1, <3>2, Numbers
  <2>7. StagedIsFresh' /\ AckingIsDurable'
    BY <1>1, <2>1, <2>2 DEF PersistWatermark, StagedIsFresh, AckingIsDurable
  <2> QED BY <2>3, <2>4, <2>5, <2>6, <2>7 DEF IInv
<1>2. ASSUME SendAck PROVE IInv'
  <2>1. /\ push \in Push /\ pc # "down" /\ wmDisk # None
        /\ wmDisk.version = push.version /\ wmDisk.term = push.term /\ current_term = push.term
    BY <1>2, NoneAssumption
       DEF SendAck, IInv, TypeOK, AckingIsDurable, TrackerFollowsWatermark, WmTerm
  <2>2. ack' \in AckMessage /\ ack'.version = push.version /\ ack'.term = push.term
    BY <1>2, <2>1, Numbers DEF SendAck, Ack, AckMessage
  <2>3. TypeOK'
    BY <1>2, <2>2 DEF SendAck, tracker, IInv, TypeOK
  <2>4. TrackerFollowsWatermark' /\ SameMark' /\ CanAdvance'
    BY <1>2, <2>1 DEF SendAck, tracker, IInv, TrackerFollowsWatermark, SameMark, CanAdvance,
                      WmVersion, WmTerm, WmForked
  <2>5. AckDurable'
    <3>1. ack'.version \in Nat /\ ack'.term \in Nat
      BY <2>2 DEF AckMessage
    <3>2. WmVersion(wmDisk') = ack'.version /\ WmTerm(wmDisk') = ack'.term
      BY <1>2, <2>1, <2>2 DEF SendAck, WmVersion, WmTerm
    <3> QED BY <3>1, <3>2 DEF AckDurable
  <2>6. StagedIsFresh' /\ AckingIsDurable'
    BY <1>2 DEF SendAck, StagedIsFresh, AckingIsDurable
  <2> QED BY <2>3, <2>4, <2>5, <2>6 DEF IInv
<1> QED BY <1>1, <1>2

(* Process and session steps leave both files alone. *)
LEMMA WorkerSteps ==
    ASSUME IInv, Start \/ Crash \/ Reconnect \/ SessionBreaks \/ Handshake \/ SendHello \/ SessionCloses
    PROVE  IInv'
<1>1. ASSUME Start PROVE IInv'
  <2>1. TypeOK'
    <3>1. WmVersion(wmDisk) \in Nat /\ WmTerm(wmDisk) \in Nat
      BY Numbers DEF IInv, TypeOK, WmVersion, WmTerm
    <3> QED BY <1>1, <3>1 DEF Start, IInv, TypeOK, SlaveState
  <2>2. TrackerFollowsWatermark' /\ SameMark' /\ CanAdvance' /\ AckDurable'
    BY <1>1 DEF Start, IInv, TrackerFollowsWatermark, SameMark, CanAdvance, AckDurable,
                WmVersion, WmTerm, WmForked
  <2>3. StagedIsFresh' /\ AckingIsDurable'
    BY <1>1 DEF Start, StagedIsFresh, AckingIsDurable
  <2> QED BY <2>1, <2>2, <2>3 DEF IInv
<1>2. ASSUME Crash PROVE IInv'
  <2>1. TypeOK'
    BY <1>2 DEF Crash, tracker, IInv, TypeOK
  <2>2. TrackerFollowsWatermark' /\ SameMark' /\ CanAdvance' /\ AckDurable'
    BY <1>2 DEF Crash, IInv, TrackerFollowsWatermark, SameMark, CanAdvance, AckDurable,
                WmVersion, WmTerm
  <2>3. StagedIsFresh' /\ AckingIsDurable'
    BY <1>2 DEF Crash, StagedIsFresh, AckingIsDurable
  <2> QED BY <2>1, <2>2, <2>3 DEF IInv
<1>3. ASSUME Reconnect \/ SessionBreaks \/ Handshake \/ SendHello \/ SessionCloses PROVE IInv'
  <2>1. /\ pc \in {"backoff", "connecting", "greeting", "session"}
        /\ pc' \in {"backoff", "connecting", "greeting", "session"}
        /\ state' \in SlaveState /\ connection_error' \in BOOLEAN /\ degraded_reason' \in BOOLEAN
        /\ UNCHANGED <<wmDisk, wm, current_version, current_term, live, disk, master_pubkey, push, ack>>
    BY <1>3 DEF Reconnect, SessionBreaks, Handshake, SendHello, SessionCloses, SlaveState, IInv, TypeOK
  <2>2. TypeOK'
    BY <2>1 DEF IInv, TypeOK
  <2>3. TrackerFollowsWatermark' /\ SameMark' /\ CanAdvance' /\ AckDurable'
    BY <2>1 DEF IInv, TrackerFollowsWatermark, SameMark, CanAdvance, AckDurable,
                WmVersion, WmTerm, WmForked
  <2>4. StagedIsFresh' /\ AckingIsDurable'
    BY <2>1 DEF StagedIsFresh, AckingIsDurable
  <2> QED BY <2>2, <2>3, <2>4 DEF IInv
<1> QED BY <1>1, <1>2, <1>3

(* Every step preserves the invariant. *)
LEMMA NextIInv == IInv /\ [Next]_vars => IInv'
<1> SUFFICES ASSUME IInv, [Next]_vars PROVE IInv'
  OBVIOUS
<1>1. CASE Start \/ Crash \/ Reconnect \/ SessionBreaks \/ Handshake \/ SendHello \/ SessionCloses
  BY <1>1, WorkerSteps
<1>2. CASE \E p \in Push : HandlePush(p)
  <2>1. PICK p \in Push : HandlePush(p)
    BY <1>2
  <2> QED BY <2>1, EarlyReturns
<1>3. CASE ApplySteps
  BY <1>3, ApplyWithoutMark, PersistAndAck DEF ApplySteps
<1>4. CASE UNCHANGED vars
  <2>1. TypeOK'
    BY <1>4 DEF vars, tracker, IInv, TypeOK
  <2>2. (TrackerFollowsWatermark /\ SameMark)'
    BY <1>4 DEF vars, tracker, IInv, TrackerFollowsWatermark, SameMark
  <2>3. (AckDurable /\ CanAdvance)'
    BY <1>4 DEF vars, tracker, IInv, AckDurable, CanAdvance, AtCeiling
  <2>4. (Fresh(push) <=> Fresh(push)') /\ (Verifies(push) <=> Verifies(push)')
    BY <1>4 DEF vars, tracker, Fresh, Verifies, ForkBlocks, WmForked, AtCeiling
  <2>5. (StagedIsFresh /\ AckingIsDurable)'
    BY <1>4, <2>4 DEF vars, tracker, IInv, StagedIsFresh, AckingIsDurable
  <2> QED BY <2>1, <2>2, <2>3, <2>5 DEF IInv
<1> QED BY <1>1, <1>2, <1>3, <1>4 DEF Next

-----------------------------------------------------------------------------
(* Theorems *)

(* The inductive invariant holds in every reachable state. *)
THEOREM Invariance == Spec => []IInv
<1>1. Init => IInv
  BY InitIInv
<1>2. IInv /\ [Next]_vars => IInv'
  BY NextIInv
<1> QED BY <1>1, <1>2, PTL DEF Spec

(* Every variable of the slave keeps its type, and a push is held exactly  *)
(* while it is being applied.                                              *)
THEOREM TypeCorrect == Spec => []TypeOK
<1>1. IInv => TypeOK
  BY DEF IInv
<1> QED BY <1>1, Invariance, PTL

(* The version and term a slave announces are those of its watermark, in   *)
(* memory and in the file.                                                 *)
THEOREM TrackerCorrect == Spec => []TrackerFollowsWatermark
<1>1. IInv => TrackerFollowsWatermark
  BY DEF IInv
<1> QED BY <1>1, Invariance, PTL

(* An acknowledged push is covered by the watermark file. *)
THEOREM AckIsDurable == Spec => []AckDurable
<1>1. IInv => AckDurable
  BY DEF IInv
<1> QED BY <1>1, Invariance, PTL

(* The watermark file never holds u64::MAX. *)
THEOREM SequenceCanAdvance == Spec => []CanAdvance
<1>1. IInv => CanAdvance
  BY DEF IInv
<1> QED BY <1>1, Invariance, PTL

(* A step that changes the watermark file latches a fork or records a push. *)
LEMMA WatermarkWriters ==
    ASSUME IInv, [Next]_vars, wmDisk' # wmDisk
    PROVE  \/ PersistWatermark
           \/ pc # "down" /\ wm # None /\ LatchFork /\ disk' = disk
<1>1. CASE Start \/ Crash \/ Reconnect \/ SessionBreaks \/ Handshake \/ SendHello \/ SessionCloses
  BY <1>1 DEF Start, Crash, Reconnect, SessionBreaks, Handshake, SendHello, SessionCloses
<1>2. CASE \E p \in Push : HandlePush(p)
  <2> PICK p \in Push : HandlePush(p)
    BY <1>2
  <2> QED
    BY DEF HandlePush, RefuseForked, RefuseStaleTerm, RefuseTermReset, RefuseStaleVersion,
           DetectFork, AckDuplicate, AckWithoutWatermark, StagePush, ForkBlocks, WmForked
<1>3. CASE ApplySteps
  BY <1>3 DEF ApplySteps, RejectPush, RejectUnverifiable, ApplyAndPersist, PersistWatermarkFails,
              SendAck
<1>4. CASE UNCHANGED vars
  BY <1>4 DEF vars
<1> QED BY <1>1, <1>2, <1>3, <1>4 DEF Next

(* Only apply_and_persist changes config.toml. *)
LEMMA ConfigWriters ==
    ASSUME IInv, [Next]_vars, disk' # disk
    PROVE  ApplyAndPersist
<1>1. CASE Start \/ Crash \/ Reconnect \/ SessionBreaks \/ Handshake \/ SendHello \/ SessionCloses
  BY <1>1 DEF Start, Crash, Reconnect, SessionBreaks, Handshake, SendHello, SessionCloses
<1>2. CASE \E p \in Push : HandlePush(p)
  BY <1>2 DEF HandlePush, RefuseForked, RefuseStaleTerm, RefuseTermReset, RefuseStaleVersion,
              DetectFork, AckDuplicate, AckWithoutWatermark, StagePush
<1>3. CASE ApplySteps
  BY <1>3 DEF ApplySteps, RejectPush, RejectUnverifiable, PersistWatermark, PersistWatermarkFails,
              SendAck
<1>4. CASE UNCHANGED vars
  BY <1>4 DEF vars
<1> QED BY <1>1, <1>2, <1>3, <1>4 DEF Next

(* The applied configuration is above the watermark file. *)
LEMMA AppliedIsNew ==
    ASSUME IInv, ApplyAndPersist
    PROVE  /\ push.version > WmVersion(wmDisk)
           /\ push.term >= WmTerm(wmDisk)
           /\ WmForked(wmDisk) => push.term > WmTerm(wmDisk)
<1>1. push \in Push /\ pc = "staging" /\ Fresh(push) /\ Verifies(push)
  BY NoneAssumption DEF ApplyAndPersist, IInv, TypeOK, StagedIsFresh
<1>2. CASE wm = None
  <2>1. wmDisk = None /\ current_version = 0
    BY <1>1, <1>2 DEF IInv, SameMark, TrackerFollowsWatermark, WmVersion
  <2>2. push.version > 0
    BY <1>1, <1>2, <2>1 DEF Verifies
  <2>3. push.term \in Nat
    BY <1>1, Numbers
  <2>4. WmVersion(wmDisk) = 0 /\ WmTerm(wmDisk) = 0 /\ ~WmForked(wmDisk)
    BY <2>1 DEF WmVersion, WmTerm, WmForked
  <2> QED BY <2>2, <2>3, <2>4
<1>3. CASE wm # None
  <2>1. wm \in Watermark /\ wmDisk \in Watermark
    BY <1>1, <1>3, NoneAssumption DEF IInv, TypeOK, SameMark
  <2>2. /\ wmDisk # None
        /\ wm.version = wmDisk.version /\ wm.term = wmDisk.term
        /\ wmDisk.forked => wm.forked
    BY <1>1, <1>3, <2>1, NoneAssumption
       DEF IInv, TrackerFollowsWatermark, SameMark, WmVersion, WmTerm, WmForked
  <2> QED BY <1>1, <1>3, <2>1, <2>2, Numbers
          DEF Fresh, ForkBlocks, WmVersion, WmTerm, WmForked
<1> QED BY <1>2, <1>3

(* No step takes the durable watermark back, whatever masters send. *)
THEOREM WatermarkNeverRegresses == Spec => WatermarkMonotone
<1> DEFINE A == /\ WmVersion(wmDisk') >= WmVersion(wmDisk)
                /\ WmTerm(wmDisk') >= WmTerm(wmDisk)
                /\ wmDisk # None /\ wmDisk' # None /\ wmDisk'.hash # wmDisk.hash
                     => wmDisk'.version > wmDisk.version
<1>1. ASSUME IInv, [Next]_vars PROVE A
  <2>0. WmVersion(wmDisk) \in Nat /\ WmTerm(wmDisk) \in Nat
    BY <1>1, Numbers DEF IInv, TypeOK, WmVersion, WmTerm
  <2>1. CASE wmDisk' = wmDisk
    BY <2>0, <2>1
  <2>2. CASE PersistWatermark
    <3>1. /\ push \in Push /\ wmDisk' \in Watermark
          /\ wmDisk'.version = push.version /\ wmDisk'.term = push.term
          /\ push.version > WmVersion(wmDisk) /\ push.term >= WmTerm(wmDisk)
      BY <1>1, <2>2, PersistRaises
    <3>2. wmDisk' # None
      BY <3>1, NoneAssumption
    <3>3. /\ WmVersion(wmDisk') = push.version /\ WmTerm(wmDisk') = push.term
          /\ push.version \in Nat /\ push.term \in Nat
      BY <3>1, <3>2, Numbers DEF WmVersion, WmTerm
    <3>4. wmDisk # None => wmDisk.version = WmVersion(wmDisk)
      BY DEF WmVersion
    <3> QED BY <2>0, <3>1, <3>3, <3>4
  <2>3. CASE pc # "down" /\ wm # None /\ LatchFork /\ disk' = disk
    <3>1. wmDisk' \in Watermark /\ wmDisk'.version = wmDisk.version
          /\ wmDisk'.term = wmDisk.term /\ wmDisk'.hash = wmDisk.hash
      BY <1>1, <2>3, LatchKeepsMark
    <3>2. wmDisk # None /\ wmDisk' # None
      BY <1>1, <2>3, <3>1, NoneAssumption DEF IInv, SameMark
    <3> QED BY <2>0, <3>1, <3>2 DEF WmVersion, WmTerm
  <2> QED BY <1>1, <2>1, <2>2, <2>3, WatermarkWriters
<1>2. IInv /\ [Next]_vars => [A]_vars
  BY <1>1
<1> QED BY <1>2, Invariance, PTL DEF Spec, WatermarkMonotone

(* A replay of an old bundle never reaches config.toml. *)
THEOREM NoReplayEver == Spec => NoReplay
<1> DEFINE A == disk' # disk => /\ disk' = push.hash
                                /\ push.version > WmVersion(wmDisk)
                                /\ push.term >= WmTerm(wmDisk)
<1>1. IInv /\ [Next]_vars => [A]_vars
  BY ConfigWriters, AppliedIsNew DEF ApplyAndPersist
<1> QED BY <1>1, Invariance, PTL DEF Spec, NoReplay

(* A latched fork blocks every push until a strictly higher term. *)
THEOREM ForkLatchIsFinal == Spec => ForkLatchHolds
<1> DEFINE A == WmForked(wmDisk) =>
                  /\ WmForked(wmDisk') \/ WmTerm(wmDisk') > WmTerm(wmDisk)
                  /\ disk' # disk => push.term > WmTerm(wmDisk)
<1>1. ASSUME IInv, [Next]_vars, WmForked(wmDisk) PROVE WmForked(wmDisk') \/ WmTerm(wmDisk') > WmTerm(wmDisk)
  <2>1. CASE wmDisk' = wmDisk
    BY <1>1, <2>1
  <2>2. CASE PersistWatermark
    BY <1>1, <2>2, PersistRaises, NoneAssumption DEF WmTerm
  <2>3. CASE pc # "down" /\ wm # None /\ LatchFork /\ disk' = disk
    BY <1>1, <2>3, LatchKeepsMark, NoneAssumption DEF WmForked
  <2> QED BY <1>1, <2>1, <2>2, <2>3, WatermarkWriters
<1>2. ASSUME IInv, [Next]_vars, WmForked(wmDisk), disk' # disk PROVE push.term > WmTerm(wmDisk)
  BY <1>2, ConfigWriters, AppliedIsNew
<1>3. IInv /\ [Next]_vars => [A]_vars
  BY <1>1, <1>2
<1> QED BY <1>3, Invariance, PTL DEF Spec, ForkLatchHolds

(* Why readiness holds only inside a session: a state of Synced outlives   *)
(* the session only together with a connection error, and the reconnect    *)
(* loop resets it before the next handshake clears that error.             *)
ReadyInv ==
    pc # "down" /\ state = "Synced" =>
        /\ ~degraded_reason
        /\ pc \in {"backoff", "session", "acking"}
        /\ pc = "backoff" => connection_error

(* Outside a session, while greeting or applying, and while a failed apply *)
(* is recorded, the slave never reports itself ready.                      *)
THEOREM ReadyIsConnected == Spec => []ReadyOnlyInSession
<1>1. Init => ReadyInv
  BY DEF Init, ReadyInv
<1>2. ASSUME ReadyInv, [Next]_vars PROVE ReadyInv'
  <2> USE DEF ReadyInv
  <2>1. CASE Start \/ Crash \/ Reconnect
    BY <1>2, <2>1 DEF Start, Crash, Reconnect
  <2>2. CASE SessionBreaks \/ Handshake \/ SendHello \/ SessionCloses
    BY <1>2, <2>2 DEF SessionBreaks, Handshake, SendHello, SessionCloses
  <2>3. CASE \E p \in Push : HandlePush(p)
    <3> PICK p \in Push : HandlePush(p)
      BY <2>3
    <3>1. CASE RefuseForked(p) \/ RefuseTermReset(p) \/ DetectFork(p)
      BY <3>1 DEF RefuseForked, RefuseTermReset, DetectFork, MarkDegraded
    <3>2. CASE RefuseStaleTerm(p) \/ RefuseStaleVersion(p)
      BY <1>2, <3>2 DEF RefuseStaleTerm, RefuseStaleVersion, tracker
    <3>3. CASE AckDuplicate(p) \/ AckWithoutWatermark(p)
      BY <1>2, <3>3 DEF AckDuplicate, AckWithoutWatermark, MarkSynced, tracker
    <3>4. CASE StagePush(p)
      BY <3>4 DEF StagePush
    <3> QED BY <3>1, <3>2, <3>3, <3>4 DEF HandlePush
  <2>4. CASE ApplySteps
    <3>1. CASE RejectPush \/ PersistWatermarkFails
      BY <3>1 DEF RejectPush, PersistWatermarkFails, MarkDegraded
    <3>2. CASE RejectUnverifiable \/ ApplyAndPersist \/ SendAck
      BY <1>2, <3>2 DEF RejectUnverifiable, ApplyAndPersist, SendAck, tracker
    <3>3. CASE PersistWatermark
      BY <3>3 DEF PersistWatermark, MarkSynced
    <3> QED BY <2>4, <3>1, <3>2, <3>3 DEF ApplySteps
  <2>5. CASE UNCHANGED vars
    BY <1>2, <2>5 DEF vars, tracker
  <2> QED BY <1>2, <2>1, <2>2, <2>3, <2>4, <2>5 DEF Next
<1>3. ReadyInv => ReadyOnlyInSession
  BY DEF ReadyInv, ReadyOnlyInSession, Ready
<1> QED BY <1>1, <1>2, <1>3, PTL DEF Spec
=============================================================================

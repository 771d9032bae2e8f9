--------------------------- MODULE HaMasterProofs ---------------------------
(* Proofs about HaMaster, for any set of tasks, documents and any u64::MAX. *)
EXTENDS HaMaster, TLAPS

(* What each task holds at each point of publish_bundle. *)
TaskInv ==
    \A t \in Task :
        /\ pc[t] \in {"persist", "publish"} <=> persist_lock = t
        /\ pc[t] = "version" => content[t] \in Content
        /\ pc[t] \in {"prepare", "persist", "publish"} => bundle[t] \in Bundle
        /\ pc[t] \in {"persist", "publish"} => /\ Acceptable(bundle[t])
                                               /\ previous[t] = current_version
        /\ ~up => pc[t] = "idle"

(* As long as no two writes overlapped: while the write of a dropped       *)
(* request is in flight nothing is written or published beside it, and it  *)
(* is still next in the sequence; a bundle about to be published is the    *)
(* one in ha_state.toml.                                                   *)
WriteInv ==
    /\ ~up => orphans = {}
    /\ ~overlapped =>
         /\ \A b \in orphans : /\ Acceptable(b) /\ orphans = {b}
                              /\ \A t \in Task : pc[t] \notin {"persist", "publish"}
         /\ \A t \in Task : pc[t] = "publish" => ha_state = bundle[t]

(* While the master runs, the active bundle is a published one.            *)
ActiveInv ==
    up => /\ active \in published
          /\ active.version = current_version /\ active.term = current_term
          /\ current_version # MaxU64

(* The active bundle is the last of all published ones. *)
HistoryInv ==
    \A b \in published :
        up /\ ~overlapped =>
              /\ b.version <= current_version /\ b.term <= current_term
              /\ b.version = current_version => b = active

(* The inductive invariant. *)
IInv ==
    /\ TypeOK
    /\ TaskInv
    /\ WriteInv
    /\ ActiveInv
    /\ HistoryInv
    /\ PersistedBeforePublished
    /\ OneBundlePerVersion
    /\ TermsFollowVersions

-----------------------------------------------------------------------------
(* Versions and terms of bundles are natural numbers. *)
LEMMA BundleNumbers ==
    /\ \A b \in Bundle : /\ b.version \in Nat /\ b.term \in Nat
                         /\ b.version <= MaxU64 /\ b.term <= MaxU64
    /\ None \notin Bundle
    /\ MaxU64 \in Nat /\ 1 < MaxU64
    /\ 0 \in (0 .. MaxU64) \ {MaxU64}
BY ConstantsAssumption DEF Bundle

(* The first state satisfies the invariant. *)
LEMMA InitIInv == Init => IInv
<1> SUFFICES ASSUME Init PROVE IInv
  OBVIOUS
<1>1. TypeOK
  BY BundleNumbers DEF Init, Idle, TypeOK, Location
<1>2. TaskInv /\ WriteInv
  BY ConstantsAssumption DEF Init, Idle, TaskInv, WriteInv
<1>3. ActiveInv /\ HistoryInv /\ PersistedBeforePublished /\ OneBundlePerVersion /\ TermsFollowVersions
  BY DEF Init, ActiveInv, HistoryInv, PersistedBeforePublished, OneBundlePerVersion, TermsFollowVersions
<1> QED BY <1>1, <1>2, <1>3 DEF IInv

(* Publishing a bundle that ha_state.toml holds and that is above every    *)
(* bundle published before keeps the history in order.                     *)
LEMMA PublishKeepsOrder ==
    ASSUME published \subseteq Bundle, NEW b \in Bundle,
           OneBundlePerVersion, TermsFollowVersions,
           published' = published \cup {b}, UNCHANGED overlapped,
           ~overlapped => ha_state' = b,
           ~overlapped => \A c \in published : /\ c.version <= b.version /\ c.term <= b.term
                                               /\ c.version = b.version => c = b
    PROVE  OneBundlePerVersion' /\ TermsFollowVersions' /\ PersistedBeforePublished'
<1>1. OneBundlePerVersion'
  BY DEF OneBundlePerVersion
<1>2. TermsFollowVersions'
  <2> SUFFICES ASSUME NEW c \in published', NEW d \in published', c.version < d.version,
                      ~overlapped
               PROVE  c.term <= d.term
    BY DEF TermsFollowVersions
  <2>1. CASE c \in published /\ d \in published
    BY <2>1 DEF TermsFollowVersions
  <2>2. CASE d = b
    BY <2>2, BundleNumbers
  <2>3. CASE c = b /\ d \in published
    BY <2>3, BundleNumbers
  <2> QED BY <2>1, <2>2, <2>3
<1>3. PersistedBeforePublished'
  BY BundleNumbers DEF PersistedBeforePublished
<1> QED BY <1>1, <1>2, <1>3

(* Start-up: the sequence continues where ha_state.toml left it. *)
LEMMA StartSteps ==
    ASSUME IInv, StartResume \/ StartPublish \/ StartCrashes
    PROVE  IInv'
<1> DEFINE b == IF StartResume THEN ha_state ELSE StartBundle
<1>0. \A t \in Task : pc[t] = "idle"
  BY DEF StartResume, StartPublish, StartCrashes, CanStart, IInv, TaskInv
<1>1. ASSUME StartPublish \/ StartCrashes
      PROVE  /\ StartBundle \in Bundle
             /\ StartBundle.version # MaxU64
             /\ ~overlapped => \A c \in published : /\ c.version < StartBundle.version
                                                    /\ c.term <= StartBundle.term
  <2>1. CanStart /\ stamp \in Nat /\ config \in Content
    BY <1>1 DEF StartPublish, StartCrashes, IInv, TypeOK
  <2>2. CASE ha_state = None
    <3>1. ~overlapped => published = {}
      BY <2>2 DEF IInv, PersistedBeforePublished
    <3> QED BY <2>1, <2>2, <3>1, BundleNumbers DEF StartBundle, NewBundle, Bundle
  <2>3. CASE ha_state # None
    <3>1. ha_state \in Bundle
      BY <2>3 DEF IInv, TypeOK
    <3>2. ha_state.version \in 0 .. MaxU64 /\ ha_state.version # MaxU64 /\ ha_state.version + 1 # MaxU64
          /\ ha_state.term \in 0 .. MaxU64
      BY <2>1, <2>3, <3>1 DEF CanStart, Bundle
    <3>3. StartBundle = [version |-> ha_state.version + 1, term |-> ha_state.term,
                         content |-> config, stamp |-> stamp]
      BY <2>3 DEF StartBundle, NewBundle
    <3>4. StartBundle \in Bundle
      BY <2>1, <3>2, <3>3, BundleNumbers DEF Bundle
    <3>5. ~overlapped => \A c \in published : c.version <= ha_state.version /\ c.term <= ha_state.term
      BY DEF IInv, PersistedBeforePublished
    <3>6. \A c \in published : c.version \in Nat
      BY BundleNumbers DEF IInv, TypeOK
    <3> QED BY <3>2, <3>3, <3>4, <3>5, <3>6
  <2> QED BY <2>2, <2>3
<1>2. ASSUME StartResume \/ StartPublish PROVE IInv'
  <2> DEFINE d == ha_state'
  <2>1. /\ d \in Bundle /\ d.version # MaxU64
        /\ Activate(d) /\ up' = TRUE
        /\ stamp' \in Nat
        /\ UNCHANGED <<config, tasks, orphans, overlapped>> /\ orphans = {}
    <3>1. CASE StartResume
      <4>1. ha_state' = ha_state /\ ha_state # None
        BY <3>1 DEF StartResume
      <4> QED BY <3>1, <4>1 DEF StartResume, Activate, writes, IInv, TypeOK, WriteInv
    <3>2. CASE StartPublish
      BY <1>1, <3>2 DEF StartPublish, CanStart, Activate, writes, IInv, TypeOK, WriteInv
    <3> QED BY <1>2, <3>1, <3>2
  <2>2. ~overlapped => \A c \in published : /\ c.version <= d.version /\ c.term <= d.term
                                            /\ c.version = d.version => c = d
    <3>1. CASE StartResume
      BY <3>1 DEF StartResume, IInv, PersistedBeforePublished
    <3>2. CASE StartPublish
      BY <1>1, <3>2, BundleNumbers DEF StartPublish, IInv, TypeOK
    <3> QED BY <1>2, <3>1, <3>2
  <2>3. published \subseteq Bundle /\ OneBundlePerVersion /\ TermsFollowVersions
    BY DEF IInv, TypeOK
  <2>4. OneBundlePerVersion' /\ TermsFollowVersions' /\ PersistedBeforePublished'
    <3>1. published' = published \cup {d} /\ UNCHANGED overlapped /\ d \in Bundle
      BY <2>1 DEF Activate
    <3>2. overlapped \in BOOLEAN
      BY DEF IInv, TypeOK
    <3> QED BY <2>2, <2>3, <3>1, <3>2, PublishKeepsOrder
  <2>5. TypeOK'
    BY <2>1 DEF Activate, tasks, IInv, TypeOK, Bundle
  <2>6. TaskInv' /\ WriteInv'
    BY <1>0, <2>1 DEF tasks, IInv, TaskInv, WriteInv
  <2>7. ActiveInv'
    BY <2>1 DEF Activate, ActiveInv
  <2>8. HistoryInv'
    <3> SUFFICES ASSUME NEW c \in published', ~overlapped'
                 PROVE  c.version <= d.version /\ c.term <= d.term /\ (c.version = d.version => c = d)
      BY <2>1 DEF Activate, HistoryInv
    <3>1. ~overlapped /\ (c \in published \/ c = d)
      BY <2>1 DEF Activate
    <3>2. CASE c = d
      BY <2>1, <3>2, BundleNumbers
    <3>3. CASE c \in published
      BY <2>2, <3>1, <3>3, Zenon
    <3> QED BY <3>1, <3>2, <3>3
  <2> QED BY <2>4, <2>5, <2>6, <2>7, <2>8 DEF IInv
<1>3. ASSUME StartCrashes PROVE IInv'
  <2>1. /\ ha_state' \in Bundle /\ ~up /\ ~up'
        /\ ~overlapped => \A c \in published :
                             c.version < ha_state'.version /\ c.term <= ha_state'.term
        /\ stamp' \in Nat
        /\ UNCHANGED <<up, config, memory, tasks, orphans, overlapped, published>>
    BY <1>1, <1>3 DEF StartCrashes, CanStart, writes, IInv, TypeOK
  <2>2. TypeOK'
    BY <2>1 DEF memory, tasks, IInv, TypeOK
  <2>3. TaskInv' /\ WriteInv'
    BY <1>0, <2>1 DEF tasks, IInv, TaskInv, WriteInv
  <2>4. ActiveInv' /\ HistoryInv'
    BY <2>1 DEF ActiveInv, HistoryInv
  <2>5. PersistedBeforePublished'
    BY <2>1, BundleNumbers DEF PersistedBeforePublished, IInv, TypeOK
  <2>6. OneBundlePerVersion' /\ TermsFollowVersions'
    BY <2>1 DEF IInv, OneBundlePerVersion, TermsFollowVersions
  <2> QED BY <2>2, <2>3, <2>4, <2>5, <2>6 DEF IInv
<1> QED BY <1>2, <1>3

(* Steps outside the running master: a crash, an edit, a promotion. *)
LEMMA OfflineSteps ==
    ASSUME IInv, Crash \/ Promote \/ \E c \in Content : EditConfig(c)
    PROVE  IInv'
<1>1. ASSUME Crash PROVE IInv'
  <2>1. TypeOK'
    BY <1>1, BundleNumbers DEF Crash, IInv, TypeOK, Location
  <2>2. TaskInv' /\ WriteInv'
    BY <1>1, ConstantsAssumption DEF Crash, TaskInv, WriteInv
  <2>3. ActiveInv' /\ HistoryInv' /\ PersistedBeforePublished' /\ OneBundlePerVersion' /\ TermsFollowVersions'
    BY <1>1 DEF Crash, IInv, ActiveInv, HistoryInv, PersistedBeforePublished, OneBundlePerVersion,
                TermsFollowVersions
  <2> QED BY <2>1, <2>2, <2>3 DEF IInv
<1>2. ASSUME NEW c \in Content, EditConfig(c) PROVE IInv'
  <2>1. TypeOK'
    BY <1>2 DEF EditConfig, memory, tasks, writes, IInv, TypeOK
  <2>2. TaskInv' /\ WriteInv'
    BY <1>2 DEF EditConfig, memory, tasks, writes, IInv, TaskInv, WriteInv, Acceptable
  <2>3. ActiveInv' /\ HistoryInv' /\ PersistedBeforePublished' /\ OneBundlePerVersion' /\ TermsFollowVersions'
    BY <1>2 DEF EditConfig, memory, writes, IInv, ActiveInv, HistoryInv, PersistedBeforePublished,
                OneBundlePerVersion, TermsFollowVersions
  <2> QED BY <2>1, <2>2, <2>3 DEF IInv
<1>3. ASSUME Promote PROVE IInv'
  <2>1. ha_state \in Bundle /\ ~up /\ ~up' /\ stamp' \in Nat
        /\ UNCHANGED <<up, config, memory, tasks, orphans, overlapped, published>>
    BY <1>3 DEF Promote, writes, IInv, TypeOK
  <2>2. /\ ha_state'.version = ha_state.version + 1 /\ ha_state'.term = ha_state.term + 1
        /\ ha_state' \in Bundle
    <3>1. /\ ha_state.version \in Nat /\ ha_state.version + 1 < MaxU64
          /\ ha_state.term \in Nat /\ ha_state.term + 1 < MaxU64
      BY <1>3, <2>1, BundleNumbers DEF Promote
    <3>2. ha_state' = [ha_state EXCEPT !.term = ha_state.term + 1, !.version = ha_state.version + 1]
      BY <1>3 DEF Promote
    <3>3. ha_state.version + 1 \in 0 .. MaxU64 /\ ha_state.term + 1 \in 0 .. MaxU64
      BY <3>1, BundleNumbers
    <3> QED BY <2>1, <3>2, <3>3 DEF Bundle
  <2>3. TypeOK'
    BY <2>1, <2>2 DEF memory, tasks, IInv, TypeOK
  <2>4. TaskInv' /\ WriteInv'
    BY <2>1 DEF tasks, IInv, TaskInv, WriteInv
  <2>5. PersistedBeforePublished'
    <3> SUFFICES ASSUME NEW b \in published, ~overlapped
                 PROVE  b.version < ha_state'.version /\ b.term <= ha_state'.term
      BY <2>1, <2>2, BundleNumbers DEF PersistedBeforePublished, IInv, TypeOK
    <3>1. b \in Bundle /\ b.version <= ha_state.version /\ b.term <= ha_state.term
      BY DEF IInv, TypeOK, PersistedBeforePublished
    <3> QED BY <2>1, <2>2, <3>1, BundleNumbers
  <2>6. ActiveInv' /\ HistoryInv' /\ OneBundlePerVersion' /\ TermsFollowVersions'
    BY <2>1 DEF IInv, ActiveInv, HistoryInv, OneBundlePerVersion, TermsFollowVersions
  <2> QED BY <2>3, <2>4, <2>5, <2>6 DEF IInv
<1> QED BY <1>1, <1>2, <1>3

(* Steps of publish_bundle that change neither the file nor the memory of  *)
(* the coordinator: they only move the task.                               *)
LEMMA QuietSteps ==
    ASSUME IInv, NEW t \in Task,
           \/ \E c \in Content : AdminWrite(t, c)
           \/ Reload(t) \/ ReadDocument(t) \/ BuildBundle(t)
           \/ RefuseSecret(t) \/ PrepareBundle(t) \/ RefuseBundle(t) \/ PersistFails(t)
    PROVE  IInv'
<1>1. UNCHANGED <<up, ha_state, memory, published, orphans>> /\ (~overlapped' => ~overlapped)
      /\ overlapped' \in BOOLEAN
  BY DEF AdminWrite, Reload, ReadDocument, BuildBundle, RefuseSecret, PrepareBundle, RefuseBundle,
         PersistFails, writes, IInv, TypeOK
<1>2. ActiveInv' /\ HistoryInv' /\ PersistedBeforePublished' /\ OneBundlePerVersion' /\ TermsFollowVersions'
  BY <1>1 DEF memory, IInv, ActiveInv, HistoryInv, PersistedBeforePublished, OneBundlePerVersion,
              TermsFollowVersions
<1>3. pc[t] # "publish"
  BY DEF AdminWrite, Reload, ReadDocument, BuildBundle, RefuseSecret, PrepareBundle, RefuseBundle,
         PersistFails
<1>4. up
  BY DEF AdminWrite, Reload, ReadDocument, BuildBundle, RefuseSecret, PrepareBundle, RefuseBundle,
         PersistFails, IInv, TaskInv
<1>5. ASSUME RefuseSecret(t) \/ RefuseBundle(t) \/ PersistFails(t)
      PROVE  TypeOK' /\ TaskInv' /\ WriteInv'
  <2>1. Finish(t) /\ UNCHANGED <<config, stamp>>
    BY <1>5 DEF RefuseSecret, RefuseBundle, PersistFails
  <2>2. TypeOK'
    BY <1>1, <2>1, BundleNumbers DEF Finish, memory, IInv, TypeOK, Location
  <2>3. TaskInv'
    BY <1>1, <1>4, <2>1, ConstantsAssumption DEF Finish, memory, IInv, TypeOK, TaskInv, Acceptable
  <2>4. WriteInv'
    BY <1>1, <1>3, <1>4, <2>1 DEF Finish, memory, IInv, TypeOK, WriteInv, Acceptable
  <2> QED BY <2>2, <2>3, <2>4
<1>6. ASSUME (\E c \in Content : AdminWrite(t, c)) \/ Reload(t)
      PROVE  TypeOK' /\ TaskInv' /\ WriteInv'
  <2>1. /\ pc[t] = "idle" /\ pc' = [pc EXCEPT ![t] = "read"]
        /\ config' \in Content /\ apply_lock' \in Task \cup {None}
        /\ UNCHANGED <<persist_lock, content, bundle, previous, stamp>>
    BY <1>6 DEF AdminWrite, Reload, IInv, TypeOK
  <2>2. TypeOK'
    BY <1>1, <2>1 DEF memory, IInv, TypeOK, Location
  <2>3. TaskInv'
    BY <1>1, <1>4, <2>1 DEF memory, IInv, TypeOK, TaskInv, Acceptable
  <2>4. WriteInv'
    BY <1>1, <1>3, <1>4, <2>1 DEF memory, IInv, TypeOK, WriteInv, Acceptable
  <2> QED BY <2>2, <2>3, <2>4
<1>7. ASSUME ReadDocument(t) PROVE TypeOK' /\ TaskInv' /\ WriteInv'
  <2>1. TypeOK'
    BY <1>7 DEF ReadDocument, memory, writes, IInv, TypeOK, Location
  <2>2. TaskInv'
    BY <1>4, <1>7 DEF ReadDocument, memory, IInv, TypeOK, TaskInv, Acceptable
  <2>3. WriteInv'
    BY <1>1, <1>3, <1>4, <1>7 DEF ReadDocument, memory, IInv, TypeOK, WriteInv, Acceptable
  <2> QED BY <2>1, <2>2, <2>3
<1>8. ASSUME BuildBundle(t) PROVE TypeOK' /\ TaskInv' /\ WriteInv'
  <2>1. NewBundle(current_version + 1, current_term, content[t]) \in Bundle
    <3>1. content[t] \in Content /\ stamp \in Nat /\ current_version + 1 <= MaxU64
          /\ current_version \in 0 .. MaxU64 /\ current_term \in 0 .. MaxU64
      BY <1>8 DEF BuildBundle, IInv, TypeOK, TaskInv
    <3>2. current_version + 1 \in 0 .. MaxU64
      BY <3>1, BundleNumbers
    <3> QED BY <3>1, <3>2 DEF NewBundle, Bundle
  <2>2. TypeOK'
    BY <1>8, <2>1 DEF BuildBundle, memory, writes, IInv, TypeOK, Location
  <2>3. TaskInv'
    BY <1>4, <1>8, <2>1 DEF BuildBundle, memory, IInv, TypeOK, TaskInv, Acceptable
  <2>4. WriteInv'
    BY <1>1, <1>3, <1>4, <1>8 DEF BuildBundle, memory, IInv, TypeOK, WriteInv, Acceptable
  <2> QED BY <2>2, <2>3, <2>4
<1>9. ASSUME PrepareBundle(t) PROVE TypeOK' /\ TaskInv' /\ WriteInv'
  <2>1. TypeOK'
    BY <1>1, <1>9 DEF PrepareBundle, memory, IInv, TypeOK, Location
  <2>2. TaskInv'
    <3> SUFFICES ASSUME NEW u \in Task
                 PROVE  /\ pc'[u] \in {"persist", "publish"} <=> persist_lock' = u
                        /\ pc'[u] = "version" => content'[u] \in Content
                        /\ pc'[u] \in {"prepare", "persist", "publish"} => bundle'[u] \in Bundle
                        /\ pc'[u] \in {"persist", "publish"} => /\ Acceptable(bundle[u])'
                                                               /\ previous'[u] = current_version'
                        /\ ~up' => pc'[u] = "idle"
      BY DEF TaskInv
    <3>1. CASE u = t
      BY <1>4, <1>9, <3>1 DEF PrepareBundle, memory, IInv, TypeOK, TaskInv, Acceptable
    <3>2. CASE u # t
      BY <1>4, <1>9, <3>2, ConstantsAssumption DEF PrepareBundle, memory, IInv, TypeOK, TaskInv, Acceptable
    <3> QED BY <3>1, <3>2
  <2>3. WriteInv'
    <3>1. ~overlapped' => ~overlapped /\ orphans = {}
      BY <1>9 DEF PrepareBundle
    <3>2. orphans' = orphans /\ up' /\ ha_state' = ha_state /\ bundle' = bundle
          /\ pc' = [pc EXCEPT ![t] = "persist"]
      BY <1>1, <1>4, <1>9 DEF PrepareBundle
    <3>3. \A u \in Task : pc'[u] = "publish" => pc[u] = "publish"
      BY <3>2 DEF IInv, TypeOK
    <3> QED BY <3>1, <3>2, <3>3 DEF IInv, WriteInv
  <2> QED BY <2>1, <2>2, <2>3
<1> QED BY <1>2, <1>5, <1>6, <1>7, <1>8, <1>9 DEF IInv

(* A write that lands leaves a bundle in flight, or no readable file; as   *)
(* long as no two writes overlapped, it leaves its own bundle.             *)
LEMMA LandedBundles ==
    ASSUME IInv, NEW t \in Task, pc[t] = "persist"
    PROVE  /\ Landed(bundle[t]) \subseteq Bundle \cup {None}
           /\ ~overlapped => Landed(bundle[t]) = {bundle[t]} /\ orphans = {}
<1>1. persist_lock = t /\ \A u \in Task : pc[u] = "persist" => u = t /\ bundle[u] \in Bundle
  BY DEF IInv, TaskInv
<1>2. InFlight = orphans \cup {bundle[t]}
  BY <1>1 DEF InFlight
<1>3. ~overlapped => orphans = {}
  BY DEF IInv, WriteInv
<1>4. orphans \subseteq Bundle /\ bundle[t] \in Bundle
  BY <1>1 DEF IInv, TypeOK
<1> QED BY <1>2, <1>3, <1>4 DEF Landed

(* The same for the write of a dropped request. *)
LEMMA LandedOrphan ==
    ASSUME IInv, NEW b \in orphans
    PROVE  /\ Landed(b) \subseteq Bundle \cup {None}
           /\ ~overlapped => Landed(b) = {b}
<1>1. orphans \subseteq Bundle /\ \A u \in Task : pc[u] = "persist" => bundle[u] \in Bundle
  BY DEF IInv, TypeOK, TaskInv
<1>2. ~overlapped => orphans = {b} /\ \A u \in Task : pc[u] # "persist"
  BY DEF IInv, WriteInv
<1> QED BY <1>1, <1>2 DEF Landed, InFlight

(* The state file is replaced while persist_lock is held. *)
LEMMA PersistStep ==
    ASSUME IInv, NEW t \in Task, PersistBundle(t)
    PROVE  IInv'
<1>1. /\ pc[t] = "persist" /\ persist_lock = t /\ bundle[t] \in Bundle /\ Acceptable(bundle[t])
      /\ previous[t] = current_version /\ up
  BY DEF PersistBundle, IInv, TaskInv
<1>0. /\ ha_state' \in Bundle \cup {None}
      /\ ~overlapped => ha_state' = bundle[t] /\ orphans = {}
      /\ UNCHANGED <<orphans, overlapped>>
  BY <1>1, LandedBundles DEF PersistBundle, writes, IInv
<1>2. \A u \in Task : u # t => pc[u] \notin {"persist", "publish"}
  BY <1>1 DEF IInv, TaskInv
<1>3. TypeOK'
  BY <1>0, <1>1 DEF PersistBundle, memory, IInv, TypeOK, Location
<1>4. TaskInv'
  BY <1>1, <1>2 DEF PersistBundle, memory, IInv, TypeOK, TaskInv, Acceptable
<1>8. WriteInv'
  BY <1>0, <1>1, <1>2 DEF PersistBundle, IInv, TypeOK, WriteInv
<1>5. ActiveInv'
  BY <1>1 DEF PersistBundle, memory, IInv, TypeOK, ActiveInv
<1>6. HistoryInv' /\ OneBundlePerVersion' /\ TermsFollowVersions'
  BY <1>0 DEF PersistBundle, memory, IInv, HistoryInv, OneBundlePerVersion, TermsFollowVersions
<1>7. PersistedBeforePublished'
  <2> SUFFICES ASSUME NEW b \in published, ~overlapped
               PROVE  b.version < bundle[t].version /\ b.term <= bundle[t].term
    BY <1>0, <1>1, BundleNumbers DEF PersistBundle, PersistedBeforePublished, IInv, TypeOK
  <2>1. b \in Bundle /\ b.version <= current_version /\ b.term <= current_term
    BY <1>1 DEF IInv, TypeOK, HistoryInv
  <2>2. current_version < bundle[t].version /\ current_term = bundle[t].term
        /\ current_version \in Nat
    BY <1>1 DEF Acceptable, IInv, TypeOK
  <2> QED BY <1>1, <2>1, <2>2, BundleNumbers
<1> QED BY <1>3, <1>4, <1>5, <1>6, <1>7, <1>8 DEF IInv

(* publish_prepared makes the persisted bundle the active one. *)
LEMMA PublishStep ==
    ASSUME IInv, NEW t \in Task, PublishPrepared(t)
    PROVE  IInv'
<1>1. /\ pc[t] = "publish" /\ persist_lock = t /\ bundle[t] \in Bundle /\ Acceptable(bundle[t])
      /\ up /\ (~overlapped => ha_state = bundle[t] /\ orphans = {})
  BY DEF PublishPrepared, IInv, TaskInv, WriteInv
<1>2. \A u \in Task : u # t => pc[u] \notin {"persist", "publish"}
  BY <1>1 DEF IInv, TaskInv
<1>3. /\ up' /\ current_version' = bundle[t].version /\ current_term' = bundle[t].term
      /\ active' = bundle[t] /\ published' = published \cup {bundle[t]}
      /\ Finish(t) /\ UNCHANGED <<up, config, ha_state, orphans, overlapped, stamp>>
  BY <1>1 DEF PublishPrepared, Acceptable, writes
<1>4. ~overlapped => \A c \in published : c.version < bundle[t].version /\ c.term <= bundle[t].term
  <2> SUFFICES ASSUME NEW c \in published, ~overlapped
               PROVE  c.version < bundle[t].version /\ c.term <= bundle[t].term
    OBVIOUS
  <2>1. c \in Bundle /\ c.version <= current_version /\ c.term <= current_term
    BY <1>1 DEF IInv, TypeOK, HistoryInv
  <2>2. current_version < bundle[t].version /\ current_term = bundle[t].term
        /\ current_version \in Nat
    BY <1>1 DEF Acceptable, IInv, TypeOK
  <2> QED BY <1>1, <2>1, <2>2, BundleNumbers
<1>5. ~overlapped => \A c \in published : c.version <= bundle[t].version /\ c.term <= bundle[t].term
                           /\ (c.version = bundle[t].version => c = bundle[t])
  BY <1>1, <1>4, BundleNumbers DEF IInv, TypeOK
<1>6. OneBundlePerVersion' /\ TermsFollowVersions' /\ PersistedBeforePublished'
  BY <1>1, <1>3, <1>5, PublishKeepsOrder DEF IInv, TypeOK
<1>7. TypeOK'
  <2>1. current_version' \in (0 .. MaxU64) \ {MaxU64} /\ current_term' \in 0 .. MaxU64
    BY <1>1, <1>3 DEF Bundle, Acceptable
  <2> QED BY <1>1, <1>3, <2>1, BundleNumbers DEF Finish, IInv, TypeOK, Location
<1>8. TaskInv' /\ WriteInv'
  BY <1>1, <1>2, <1>3, ConstantsAssumption DEF Finish, IInv, TypeOK, TaskInv, WriteInv
<1>9. ActiveInv'
  BY <1>1, <1>3 DEF ActiveInv, Acceptable
<1>10. HistoryInv'
  BY <1>1, <1>3, <1>5, BundleNumbers DEF HistoryInv
<1> QED BY <1>6, <1>7, <1>8, <1>9, <1>10 DEF IInv

(* A dropped request keeps its write and loses its locks. *)
LEMMA CancelStep ==
    ASSUME IInv, NEW t \in Task, Cancel(t)
    PROVE  IInv'
<1>1. /\ UNCHANGED <<up, config, ha_state, memory, stamp, published, overlapped>>
      /\ Finish(t) /\ up
  BY DEF Cancel, IInv, TaskInv
<1>2. ActiveInv' /\ HistoryInv' /\ PersistedBeforePublished' /\ OneBundlePerVersion' /\ TermsFollowVersions'
  BY <1>1 DEF memory, IInv, ActiveInv, HistoryInv, PersistedBeforePublished, OneBundlePerVersion,
              TermsFollowVersions
<1>3. orphans' \subseteq Bundle
  BY DEF Cancel, IInv, TypeOK, TaskInv
<1>4. TypeOK'
  BY <1>1, <1>3, BundleNumbers DEF Finish, memory, IInv, TypeOK, Location
<1>5. TaskInv'
  BY <1>1, ConstantsAssumption DEF Finish, memory, IInv, TypeOK, TaskInv, Acceptable
<1>6. \A u \in Task : u # t => pc'[u] = pc[u] /\ bundle'[u] = bundle[u]
  BY <1>1 DEF Finish, IInv, TypeOK
<1>7. pc'[t] = "idle"
  BY <1>1 DEF Finish, IInv, TypeOK
<1>8. WriteInv'
  <2>1. CASE pc[t] = "persist"
    <3>1. orphans' = orphans \cup {bundle[t]} /\ persist_lock = t /\ Acceptable(bundle[t])
      BY <2>1 DEF Cancel, IInv, TaskInv
    <3>2. \A u \in Task : pc'[u] \notin {"persist", "publish"}
      BY <1>6, <1>7, <3>1 DEF IInv, TaskInv
    <3>3. ~overlapped => orphans = {}
      BY <2>1 DEF IInv, WriteInv
    <3> QED BY <1>1, <3>1, <3>2, <3>3 DEF memory, WriteInv, Acceptable
  <2>2. CASE pc[t] # "persist"
    <3>1. orphans' = orphans
      BY <2>2 DEF Cancel
    <3> QED BY <1>1, <1>6, <1>7, <3>1 DEF memory, IInv, WriteInv, Acceptable
  <2> QED BY <2>1, <2>2
<1> QED BY <1>2, <1>4, <1>5, <1>8 DEF IInv

(* The write of a dropped request lands or fails. *)
LEMMA OrphanStep ==
    ASSUME IInv, NEW b \in orphans, OrphanLands(b) \/ OrphanFails(b)
    PROVE  IInv'
<1>1. /\ UNCHANGED <<up, config, memory, tasks, stamp, published, overlapped>>
      /\ orphans' = orphans \ {b} /\ up
  BY DEF OrphanLands, OrphanFails, IInv, WriteInv
<1>2. ha_state' = ha_state \/ ha_state' \in Landed(b)
  BY DEF OrphanLands, OrphanFails
<1>3. /\ ha_state' \in Bundle \cup {None}
      /\ ~overlapped => ha_state' \in {ha_state, b}
  BY <1>2, LandedOrphan DEF IInv, TypeOK
<1>4. TypeOK'
  BY <1>1, <1>3 DEF memory, tasks, IInv, TypeOK
<1>5. TaskInv'
  BY <1>1 DEF memory, tasks, IInv, TaskInv, Acceptable
<1>6. WriteInv'
  BY <1>1, <1>3 DEF memory, tasks, IInv, WriteInv, Acceptable
<1>7. ActiveInv' /\ HistoryInv' /\ OneBundlePerVersion' /\ TermsFollowVersions'
  BY <1>1 DEF memory, IInv, ActiveInv, HistoryInv, OneBundlePerVersion, TermsFollowVersions
<1>8. PersistedBeforePublished'
  <2>1. CASE overlapped
    BY <1>1, <2>1 DEF PersistedBeforePublished
  <2>2. CASE ha_state' = ha_state
    BY <1>1, <2>2 DEF PersistedBeforePublished, IInv
  <2>3. CASE ~overlapped /\ ha_state' = b
    <3> SUFFICES ASSUME NEW c \in published
                 PROVE  c.version < b.version /\ c.term <= b.term
      BY <1>1, <2>3, BundleNumbers DEF PersistedBeforePublished, IInv, TypeOK
    <3>1. c \in Bundle /\ c.version <= current_version /\ c.term <= current_term
      BY <1>1, <2>3 DEF IInv, TypeOK, HistoryInv
    <3>2. current_version < b.version /\ current_term = b.term /\ current_version \in Nat
          /\ b \in Bundle
      BY <2>3 DEF Acceptable, IInv, TypeOK, WriteInv
    <3> QED BY <3>1, <3>2, BundleNumbers
  <2> QED BY <1>3, <2>1, <2>2, <2>3
<1> QED BY <1>4, <1>5, <1>6, <1>7, <1>8 DEF IInv

(* Every step preserves the invariant. *)
LEMMA NextIInv == IInv /\ [Next]_vars => IInv'
<1> SUFFICES ASSUME IInv, [Next]_vars PROVE IInv'
  OBVIOUS
<1>1. CASE StartResume \/ StartPublish \/ StartCrashes
  BY <1>1, StartSteps
<1>2. CASE Crash \/ Promote \/ \E c \in Content : EditConfig(c)
  BY <1>2, OfflineSteps
<1>3. CASE \E t \in Task, c \in Content : AdminWrite(t, c)
  BY <1>3, QuietSteps
<1>4. CASE \E t \in Task : Reload(t) \/ TaskStep(t)
  BY <1>4, QuietSteps, PersistStep, PublishStep DEF TaskStep
<1>6. CASE \E t \in Task : Cancel(t)
  BY <1>6, CancelStep
<1>7. CASE \E b \in orphans : OrphanLands(b) \/ OrphanFails(b)
  BY <1>7, OrphanStep
<1>5. CASE UNCHANGED vars
  <2>1. TypeOK'
    BY <1>5 DEF vars, memory, tasks, writes, IInv, TypeOK
  <2>2. TaskInv' /\ WriteInv'
    BY <1>5 DEF vars, memory, tasks, writes, IInv, TaskInv, WriteInv, Acceptable
  <2>3. (ActiveInv /\ HistoryInv)'
    BY <1>5 DEF vars, memory, tasks, writes, IInv, ActiveInv, HistoryInv
  <2>4. (PersistedBeforePublished /\ OneBundlePerVersion /\ TermsFollowVersions)'
    BY <1>5 DEF vars, memory, tasks, writes, IInv, PersistedBeforePublished, OneBundlePerVersion,
                TermsFollowVersions
  <2> QED BY <2>1, <2>2, <2>3, <2>4 DEF IInv
<1> QED BY <1>1, <1>2, <1>3, <1>4, <1>5, <1>6, <1>7 DEF Next

-----------------------------------------------------------------------------
(* Theorems *)

(* The inductive invariant holds in every reachable state. *)
THEOREM Invariance == Spec => []IInv
BY InitIInv, NextIInv, PTL DEF Spec

(* Every variable of the master keeps its type; no version or term leaves  *)
(* the range of u64.                                                       *)
THEOREM TypeCorrect == Spec => []TypeOK
<1>1. IInv => TypeOK
  BY DEF IInv
<1> QED BY <1>1, Invariance, PTL

(* Nothing a slave may have received is ahead of ha_state.toml. *)
THEOREM PersistPrecedesPublish == Spec => []PersistedBeforePublished
<1>1. IInv => PersistedBeforePublished
  BY DEF IInv
<1> QED BY <1>1, Invariance, PTL

(* The master never publishes two bundles under one version. *)
THEOREM NoForkBySequence == Spec => []OneBundlePerVersion
<1>1. IInv => OneBundlePerVersion
  BY DEF IInv
<1> QED BY <1>1, Invariance, PTL

(* A later version never carries an older term. *)
THEOREM TermsGrow == Spec => []TermsFollowVersions
<1>1. IInv => TermsFollowVersions
  BY DEF IInv
<1> QED BY <1>1, Invariance, PTL

(* The conflict branch of update_bundle_async is dead. *)
THEOREM ConflictUnreachable == Spec => []NothingOvertakes
<1>1. IInv => NothingOvertakes
  BY DEF IInv, TaskInv, NothingOvertakes
<1> QED BY <1>1, Invariance, PTL

(* Without dropped requests the lock does serialise the writes: no two are *)
(* ever in flight, and the theorems above hold without their exception.    *)
THEOREM LockSerialisesWrites ==
    ASSUME ~Drops PROVE Spec => [](orphans = {} /\ ~overlapped)
<1> DEFINE Serial == orphans = {} /\ ~overlapped
<1>1. Init => Serial
  BY DEF Init
<1>2. Serial /\ [Next]_vars => Serial'
  <2> SUFFICES ASSUME Serial, [Next]_vars PROVE Serial'
    OBVIOUS
  <2>1. CASE StartResume \/ StartPublish \/ StartCrashes \/ Crash \/ Promote
    BY <2>1 DEF StartResume, StartPublish, StartCrashes, Crash, Promote, writes
  <2>2. CASE (\E c \in Content : EditConfig(c)) \/ \E t \in Task, c \in Content : AdminWrite(t, c)
    BY <2>2 DEF EditConfig, AdminWrite, writes
  <2>3. CASE \E t \in Task : Reload(t) \/ TaskStep(t)
    <3> PICK t \in Task : Reload(t) \/ TaskStep(t)
      BY <2>3
    <3>1. CASE PrepareBundle(t)
      BY <3>1 DEF PrepareBundle
    <3>2. CASE ~PrepareBundle(t)
      BY <3>2 DEF Reload, TaskStep, ReadDocument, BuildBundle, RefuseSecret, RefuseBundle,
                  PersistBundle, PersistFails, PublishPrepared, writes
    <3> QED BY <3>1, <3>2
  <2>4. CASE \E t \in Task : Cancel(t)
    BY <2>4 DEF Cancel
  <2>5. CASE \E b \in orphans : OrphanLands(b) \/ OrphanFails(b)
    BY <2>5
  <2>6. CASE UNCHANGED vars
    BY <2>6 DEF vars, writes
  <2> QED BY <2>1, <2>2, <2>3, <2>4, <2>5, <2>6 DEF Next
<1> QED BY <1>1, <1>2, PTL DEF Spec
=============================================================================

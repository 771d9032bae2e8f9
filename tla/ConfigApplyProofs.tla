-------------------------- MODULE ConfigApplyProofs --------------------------
(* Proofs about ConfigApply, for every set of values, documents and clients. *)
EXTENDS ConfigApply, TLAPS

(* How step, mode and kind of an apply go together. *)
OpShape ==
    op # None =>
        /\ op.mode = "apply" => (op.sync <=> Sync(op.kind))
        /\ op.mode # "apply" => op.sync /\ op.step # "save"
        /\ op.step = "flt" => op.sync
        /\ op.step = "hooks" => Hooked(op.kind)
        /\ op.step = "save" \/ op.mode \in {"revert", "redo"} => Persists(op.kind)

(* Which document is the snapshot while an apply runs. *)
OpDocs ==
    op # None =>
        /\ op.mode \in {"apply", "undo"} /\ op.step # "save" => runtime = op.prev
        /\ op.step = "save" => runtime = op.target
        /\ op.mode \in {"undo", "revert"} => op.target = op.prev
        /\ op.mode = "redo" => op.target = runtime

(* A request never changes the sections it does not apply. *)
OpKeeps ==
    op # None =>
        /\ ~Hooked(op.kind) =>
              \A c \in {"hk", "plan"} : op.target[c] = op.prev[c] /\ runtime[c] = op.prev[c]
        /\ ~Sync(op.kind) /\ op.kind # "wizard" =>
              op.target["flt"] = op.prev["flt"] /\ runtime["flt"] = op.prev["flt"]
        /\ op.kind \in SectionWriter /\ op.mode = "apply" =>
              \A s \in Section \ {SectionOf(op.kind)} : op.target[s] = op.prev[s]

(* What is on record as left behind. *)
lag == failed \cup loose

(* What the components hold while an apply runs.  One whose step is done    *)
(* has the target's value, whatever was on record before, unless a task     *)
(* outside the lock came after; one without a step has it unless it is on   *)
(* record.                                                                  *)
UpComp == op # None /\ op.step # "up" => comp["up"] = op.target["up"]

FltComp ==
    op # None =>
        /\ op.sync /\ op.step \notin {"up", "flt"} /\ "flt" \notin loose
              => comp["flt"] = op.target["flt"]
        /\ ~op.sync /\ op.kind # "wizard" /\ "flt" \notin lag => comp["flt"] = op.target["flt"]
        /\ op.step = "save" /\ "flt" \notin lag => comp["flt"] = op.target["flt"]

HkComp ==
    op # None =>
        /\ Hooked(op.kind) /\ op.step \in {"store", "save"} => comp["hk"] = op.target["hk"]
        /\ ~Hooked(op.kind) /\ "hk" \notin lag => comp["hk"] = op.target["hk"]

PlanComp ==
    op # None /\ listener \in {"serving", "dead"} =>
        /\ Hooked(op.kind) /\ op.step \in {"store", "save"} /\ "plan" \notin loose
              => comp["plan"] = op.target["plan"]
        /\ ~Hooked(op.kind) /\ "plan" \notin lag => comp["plan"] = op.target["plan"]
        /\ op.step = "save" /\ "plan" \notin lag => listener = "serving"

(* A document the watcher works with is the file, or an event is waiting. *)
WatcherInv ==
    /\ watcher # None /\ watcher # file => event
    /\ op # None /\ op.kind = "watch" /\ op.mode = "apply" /\ op.target # file => event

(* The file is the snapshot, or something that will look at it is under way. *)
(* Between the snapshot and a failed write the file is the older document.   *)
FileInv ==
    "file" \notin lag =>
        \/ event \/ watcher # None
        \/ op # None /\ (op.kind = "watch" \/ op.mode = "redo")
        \/ file = IF op # None /\ (op.step = "save" \/ op.mode = "revert") THEN op.prev ELSE runtime

(* The inductive invariant. *)
IInv ==
    /\ TypeOK
    /\ OpShape /\ OpDocs /\ OpKeeps
    /\ UpComp /\ FltComp /\ HkComp /\ PlanComp
    /\ ComponentsAgree
    /\ WatcherInv /\ FileInv

-----------------------------------------------------------------------------
(* The first state satisfies the invariant. *)
LEMMA InitIInv == Init => IInv
<1> SUFFICES ASSUME Init PROVE IInv
  OBVIOUS
<1>1. TypeOK
  BY ConstantsAssumption DEF Init, TypeOK, Doc, Component, Section, Lag
<1>2. ComponentsAgree
  BY ConstantsAssumption DEF Init, ComponentsAgree, Component, Section
<1> QED BY <1>1, <1>2
        DEF Init, IInv, OpShape, OpDocs, OpKeeps, UpComp, FltComp, HkComp, PlanComp, WatcherInv,
            FileInv

(* The parts of the invariant about op, components and lag. *)
OpInv == OpShape /\ OpDocs /\ OpKeeps
CompInv == UpComp /\ FltComp /\ HkComp /\ PlanComp /\ ComponentsAgree

(* The sections that have a component. *)
LEMMA Components == Component = {"up", "flt", "hk", "plan"} /\ "file" \notin Component
BY DEF Component, Section

(* What the histories record, taken together. *)
LEMMA Recorded ==
    /\ UNCHANGED history => lag' = lag
    /\ UNCHANGED failed => lag' = failed \cup loose'
    /\ UNCHANGED loose => lag' = failed' \cup loose
    /\ \A cs : Reached(cs) => lag' = lag \ cs
    /\ TypeOK => lag \subseteq Lag
BY DEF history, lag, Reached, TypeOK

(* Between applies ComponentsAgree speaks of what is not on record. *)
LEMMA Agreement ==
    ComponentsAgree <=>
        (op = None => \A c \in Component \ lag :
                        \/ comp[c] = runtime[c] /\ (c = "plan" => listener # "dead")
                        \/ c = "plan" /\ listener \in {"empty", "binding"})
BY DEF ComponentsAgree, lag

(* Documents and applies hold values of their types. *)
LEMMA Typed ==
    /\ \A o \in Op : /\ o.kind \in Kind /\ o.sync \in BOOLEAN
                     /\ o.target \in Doc /\ o.prev \in Doc
                     /\ o # None
    /\ \A d \in Doc : d # None /\ \A s \in Section : d[s] \in Value
    /\ \A r \in Request : r # None /\ r.kind \in EarlyReader /\ r.doc \in Doc
    /\ \A v \in Value : v # None
BY ConstantsAssumption DEF Op, Doc, Request

-----------------------------------------------------------------------------
(* Steps beside the lock: requests arrive or are refused, the watcher reads *)

(* A step that leaves op, components and snapshot alone. *)
LEMMA QuietKeeps ==
    ASSUME IInv, UNCHANGED <<op, comp, runtime, listener>>,
           \A c \in Component : (c \in failed' <=> c \in failed) /\ (c \in loose' <=> c \in loose)
    PROVE  OpInv' /\ CompInv'
<1>0. \A c \in Component : c \in lag' <=> c \in lag
  BY DEF lag
<1>1. OpInv'
  BY DEF IInv, OpInv, OpShape, OpDocs, OpKeeps
<1>2. (UpComp /\ FltComp)'
  BY <1>0, Components DEF IInv, UpComp, FltComp
<1>3. (HkComp /\ PlanComp)'
  BY <1>0, Components DEF IInv, HkComp, PlanComp
<1>4. ComponentsAgree'
  BY Components DEF IInv, ComponentsAgree
<1> QED BY <1>1, <1>2, <1>3, <1>4 DEF CompInv

(* The file changes under the program. *)
LEMMA FileSteps ==
    ASSUME IInv, OrphanRename \/ \E d \in Doc : Edit(d)
    PROVE  IInv'
<1>1. file' \in Doc /\ event' = TRUE /\ failed' \subseteq Lag /\ loose' \subseteq Lag
  BY DEF OrphanRename, Edit, Written, IInv, TypeOK
<1>2. TypeOK'
  <2>1. CASE OrphanRename
    BY <1>1, <2>1 DEF OrphanRename, IInv, TypeOK
  <2>2. CASE \E d \in Doc : Edit(d)
    BY <1>1, <2>2 DEF Edit, CountRequest, IInv, TypeOK
  <2> QED BY <2>1, <2>2
<1>3. \A c \in Component : (c \in failed' <=> c \in failed) /\ (c \in loose' <=> c \in loose)
  BY Components DEF OrphanRename, Edit, Written
<1>4. OpInv' /\ CompInv'
  BY <1>3, QuietKeeps DEF OrphanRename, Edit
<1>5. (WatcherInv /\ FileInv)'
  BY <1>1 DEF WatcherInv, FileInv
<1> QED BY <1>2, <1>4, <1>5 DEF IInv, OpInv, CompInv

(* A request reads early or is refused, a list reload starts or fails. *)
LEMMA RequestSteps ==
    ASSUME IInv,
           \/ RefreshFails
           \/ \E v \in {runtime["flt"], comp["flt"]} : RefreshStarts(v)
           \/ \E c \in Client : RefuseEarly(c)
           \/ \E c \in Client, k \in EarlyReader, d \in Document : ReadEarly(c, k, d)
    PROVE  IInv'
<1>0. ASSUME NEW k \in EarlyReader, NEW d \in Document, NEW e \in EarlyRead(k, d) PROVE e \in Doc
  <2>1. d \in Doc /\ file \in Doc /\ runtime \in Doc
    BY ConstantsAssumption DEF IInv, TypeOK
  <2>2. k \in {"put", "restore", "reload", "push"}
    BY DEF EarlyReader
  <2> QED BY <1>0, <2>1, <2>2 DEF EarlyRead, Unmasked, PersistedConfig, Doc
<1>1. req' \in [Client -> Request \cup {None}] /\ refresh' \in Value \cup {None}
  <2>1. CASE RefreshFails \/ \E c \in Client : RefuseEarly(c)
    BY <2>1 DEF RefreshFails, RefuseEarly, IInv, TypeOK
  <2>2. ASSUME NEW c \in Client, NEW k \in EarlyReader, NEW d \in Document, ReadEarly(c, k, d)
        PROVE  req' \in [Client -> Request \cup {None}] /\ refresh' \in Value \cup {None}
    <3>1. PICK e \in EarlyRead(k, d) : req' = [req EXCEPT ![c] = [kind |-> k, doc |-> e]]
      BY <2>2 DEF ReadEarly
    <3>2. [kind |-> k, doc |-> e] \in Request
      BY <1>0 DEF Request
    <3> QED BY <2>2, <3>1, <3>2 DEF ReadEarly, IInv, TypeOK
  <2>3. ASSUME NEW v \in {runtime["flt"], comp["flt"]}, RefreshStarts(v)
        PROVE  req' \in [Client -> Request \cup {None}] /\ refresh' \in Value \cup {None}
    <3>1. v \in Value
      BY Typed, Components DEF IInv, TypeOK, Section
    <3> QED BY <2>3, <3>1 DEF RefreshStarts, IInv, TypeOK
  <2> QED BY <2>1, <2>2, <2>3
<1>2. /\ UNCHANGED <<file, runtime, comp, listener, event, watcher, op, orphan, history>>
      /\ requests' \in Nat /\ faults' \in Nat
  BY DEF RefreshFails, RefreshStarts, RefuseEarly, ReadEarly, CountRequest, CountFault, IInv, TypeOK
<1>3. TypeOK'
  BY <1>1, <1>2 DEF history, IInv, TypeOK
<1>4. OpInv' /\ CompInv'
  BY <1>2, QuietKeeps DEF history
<1>5. (WatcherInv /\ FileInv)'
  BY <1>2, Recorded DEF IInv, WatcherInv, FileInv
<1> QED BY <1>3, <1>4, <1>5 DEF IInv, OpInv, CompInv

(* The watcher reads the file, or drops what it read. *)
LEMMA WatcherSteps ==
    ASSUME IInv, WatcherReads \/ WatcherReadFails \/ WatcherSkips \/ WatcherRejects
    PROVE  IInv'
<1>0. /\ UNCHANGED <<file, runtime, comp, listener, req, op, orphan, refresh, loose, requests>>
      /\ failed' \in {failed, failed \cup {"file"}} /\ faults' \in Nat
  <2>1. CASE WatcherReads
    BY <2>1 DEF WatcherReads, history, IInv, TypeOK
  <2>2. CASE WatcherReadFails
    BY <2>2 DEF WatcherReadFails, CountFault, IInv, TypeOK
  <2>3. CASE WatcherSkips
    BY <2>3 DEF WatcherSkips, EventDocument, CountFault, history, IInv, TypeOK
  <2>4. CASE WatcherRejects
    <3>1. Current = {} \/ Current = {"file"}
      BY DEF Current
    <3> QED BY <2>4, <3>1 DEF WatcherRejects, CountFault, IInv, TypeOK
  <2> QED BY <2>1, <2>2, <2>3, <2>4
<1>1. TypeOK'
  <2>1. failed' \subseteq Lag
    BY <1>0 DEF IInv, TypeOK, Lag
  <2>2. event' \in BOOLEAN /\ watcher' \in Doc \cup {None}
    BY DEF WatcherReads, WatcherReadFails, WatcherSkips, WatcherRejects, IInv, TypeOK
  <2> QED BY <1>0, <2>1, <2>2 DEF IInv, TypeOK
<1>2. OpInv' /\ CompInv'
  <2>1. \A c \in Component : (c \in failed' <=> c \in failed) /\ (c \in loose' <=> c \in loose)
    BY <1>0, Components
  <2> QED BY <1>0, <2>1, QuietKeeps
<1>3. (WatcherInv /\ FileInv)'
  <2>0. file # None
    BY Typed DEF IInv, TypeOK
  <2>1. CASE WatcherReads
    BY <2>0, <2>1, Recorded DEF WatcherReads, WatcherIdle, WatcherInv, FileInv
  <2>2. CASE WatcherReadFails
    BY <2>2 DEF WatcherReadFails, WatcherIdle, WatcherInv, FileInv, lag
  <2>3. CASE WatcherSkips
    BY <2>3, Recorded DEF WatcherSkips, EventDocument, IInv, WatcherInv, FileInv
  <2>4. CASE WatcherRejects
    BY <2>4 DEF WatcherRejects, Current, IInv, WatcherInv, FileInv, lag
  <2> QED BY <2>1, <2>2, <2>3, <2>4
<1> QED BY <1>1, <1>2, <1>3 DEF IInv, OpInv, CompInv

-----------------------------------------------------------------------------
(* Steps that take the lock *)

(* A request that changes only what it will apply takes the lock. *)
LEMMA BeginKeeps ==
    ASSUME IInv, NEW k \in Kind, NEW d \in Doc, Begin(k, d),
           UNCHANGED <<comp, runtime, listener, history>>,
           ~Hooked(k) => d["hk"] = runtime["hk"] /\ d["plan"] = runtime["plan"],
           ~Sync(k) /\ k # "wizard" => d["flt"] = runtime["flt"],
           k \in SectionWriter => \A s \in Section \ {SectionOf(k)} : d[s] = runtime[s]
    PROVE  op' \in Op /\ OpInv' /\ CompInv'
<1>1. Sync(k) \in BOOLEAN /\ runtime \in Doc
  BY DEF Sync, IInv, TypeOK
<1>2. /\ op = None /\ op' \in Op /\ op' # None
      /\ op'.kind = k /\ op'.mode = "apply" /\ op'.step = "up"
      /\ op'.target = d /\ op'.prev = runtime /\ (op'.sync <=> Sync(k))
  BY <1>1, Typed DEF Begin, Op
<1>3. OpShape' /\ OpDocs'
  BY <1>2 DEF OpShape, OpDocs
<1>4. OpKeeps'
  BY <1>2 DEF OpKeeps
<1>5. \A c \in Component \ lag : comp[c] = runtime[c] \/ (c = "plan" /\ listener \in {"empty", "binding"})
  BY <1>2, Agreement DEF IInv
<1>6. UpComp' /\ FltComp'
  BY <1>2, <1>5, Components, Recorded DEF UpComp, FltComp
<1>7. HkComp' /\ PlanComp'
  BY <1>2, <1>5, Components, Recorded DEF HkComp, PlanComp
<1>8. ComponentsAgree'
  BY <1>2 DEF ComponentsAgree
<1> QED BY <1>2, <1>3, <1>4, <1>6, <1>7, <1>8 DEF OpInv, CompInv

(* What a request that edits one section changes. *)
LEMMA SectionKeeps ==
    ASSUME IInv, NEW k \in SectionWriter, NEW v \in Value, NEW d,
           d = [runtime EXCEPT ![SectionOf(k)] = v]
    PROVE  /\ d \in Doc /\ k \in Kind
           /\ ~Hooked(k) => d["hk"] = runtime["hk"] /\ d["plan"] = runtime["plan"]
           /\ ~Sync(k) /\ k # "wizard" => d["flt"] = runtime["flt"]
           /\ \A s \in Section \ {SectionOf(k)} : d[s] = runtime[s]
<1>1. k \in {"filtering", "upstream", "clients", "settings", "rewrites"} /\ k \in Kind
  BY DEF SectionWriter, Kind
<1>2. SectionOf(k) \in Section
  BY <1>1 DEF SectionOf, Section
<1>3. runtime \in Doc /\ d \in Doc
  BY <1>2 DEF IInv, TypeOK, Doc
<1>4. \A s \in Section \ {SectionOf(k)} : d[s] = runtime[s]
  BY <1>3 DEF Doc
<1>5. ~Hooked(k) => SectionOf(k) \in {"flt", "hot"}
  BY <1>1 DEF Hooked, SectionOf
<1>6. ~Sync(k) => SectionOf(k) \in {"up", "hk", "hot"}
  BY <1>1 DEF Sync, SectionOf
<1>7. "hk" \in Section /\ "plan" \in Section /\ "flt" \in Section
  BY DEF Section
<1> QED BY <1>1, <1>3, <1>4, <1>5, <1>6, <1>7

(* A request takes the lock. *)
LEMMA RequestBegins ==
    ASSUME IInv,
           \/ \E c \in Client : BeginEarly(c)
           \/ \E k \in SectionWriter, v \in Value : BeginSection(k, v)
           \/ \E d \in Document : BeginWizard(d)
    PROVE  IInv'
<1> DEFINE P(k, d) == /\ k \in Kind \ {"watch"} /\ d \in Doc /\ Begin(k, d)
                      /\ op' \in Op /\ OpInv' /\ CompInv'
                      /\ req' \in [Client -> Request \cup {None}]
                      /\ requests' \in Nat
                      /\ UNCHANGED <<file, runtime, comp, listener, event, watcher, orphan, refresh,
                                     history, faults>>
<1>1. ASSUME NEW c \in Client, BeginEarly(c) PROVE \E k, d : P(k, d)
  <2>1. req[c] \in Request
    BY <1>1 DEF BeginEarly, IInv, TypeOK
  <2>2. /\ req[c].kind \in EarlyReader /\ req[c].doc \in Doc
        /\ req[c].kind \in Kind \ {"watch"} /\ req[c].kind \notin SectionWriter
        /\ Hooked(req[c].kind) /\ Sync(req[c].kind)
    BY <2>1, Typed DEF EarlyReader, Kind, SectionWriter, Hooked, Sync
  <2>3. op' \in Op /\ OpInv' /\ CompInv'
    BY <1>1, <2>2, BeginKeeps DEF BeginEarly
  <2> QED BY <1>1, <2>2, <2>3 DEF BeginEarly, IInv, TypeOK
<1>2. ASSUME NEW k \in SectionWriter, NEW v \in Value, BeginSection(k, v) PROVE \E kk, d : P(kk, d)
  <2> DEFINE dd == [runtime EXCEPT ![SectionOf(k)] = v]
  <2>1. /\ dd \in Doc /\ k \in Kind \ {"watch"}
        /\ ~Hooked(k) => dd["hk"] = runtime["hk"] /\ dd["plan"] = runtime["plan"]
        /\ ~Sync(k) /\ k # "wizard" => dd["flt"] = runtime["flt"]
        /\ \A s \in Section \ {SectionOf(k)} : dd[s] = runtime[s]
    BY SectionKeeps DEF SectionWriter
  <2>2. Begin(k, dd) /\ UNCHANGED <<comp, runtime, listener, history>>
    BY <1>2 DEF BeginSection
  <2> HIDE DEF dd
  <2>3. op' \in Op /\ OpInv' /\ CompInv'
    BY <2>1, <2>2, BeginKeeps
  <2> QED BY <1>2, <2>1, <2>2, <2>3 DEF BeginSection, CountRequest, IInv, TypeOK
<1>3. ASSUME NEW d \in Document, BeginWizard(d) PROVE \E k, dd : P(k, dd)
  <2>1. d \in Doc
    BY ConstantsAssumption
  <2>2. "wizard" \in Kind \ {"watch"} /\ "wizard" \notin SectionWriter /\ Hooked("wizard")
    BY DEF Kind, SectionWriter, Hooked
  <2>3. op' \in Op /\ OpInv' /\ CompInv'
    BY <1>3, <2>1, <2>2, BeginKeeps DEF BeginWizard
  <2> QED BY <1>3, <2>1, <2>2, <2>3 DEF BeginWizard, CountRequest, IInv, TypeOK
<1>4. PICK k, d : P(k, d)
  BY <1>1, <1>2, <1>3
<1>5. TypeOK'
  BY <1>4 DEF history, IInv, TypeOK
<1>6. (WatcherInv /\ FileInv)'
  <2>1. op = None /\ op' # None /\ op'.kind = k /\ op'.mode = "apply" /\ op'.step = "up"
    BY <1>4, Typed DEF Begin
  <2> QED BY <1>4, <2>1, Recorded DEF IInv, WatcherInv, FileInv
<1> QED BY <1>4, <1>5, <1>6 DEF IInv, OpInv, CompInv

(* The watcher takes the lock. *)
LEMMA WatcherBegins ==
    ASSUME IInv, NEW d \in {file, watcher}, WatcherApplies(d)
    PROVE  IInv'
<1>1. d \in Doc
  BY DEF WatcherApplies, IInv, TypeOK
<1>2. "watch" \in Kind /\ "watch" \notin SectionWriter /\ Hooked("watch") /\ Sync("watch")
  BY DEF Kind, SectionWriter, Hooked, Sync
<1>3. op' \in Op /\ OpInv' /\ CompInv'
  BY <1>1, <1>2, BeginKeeps DEF WatcherApplies
<1>4. TypeOK'
  BY <1>3 DEF WatcherApplies, EventDocument, CountFault, history, IInv, TypeOK
<1>5. op' # None /\ op'.kind = "watch" /\ op'.target = d
  BY <1>3, Typed DEF WatcherApplies, Begin
<1>6. (WatcherInv /\ FileInv)'
  BY <1>5, Recorded DEF WatcherApplies, EventDocument, IInv, WatcherInv, FileInv
<1> QED BY <1>3, <1>4, <1>6 DEF IInv, OpInv, CompInv

-----------------------------------------------------------------------------
(* Steps of an apply *)

(* A step of apply_inner moves on to the next component. *)
LEMMA Moves ==
    ASSUME IInv, op # None, NEW s \in {"up", "flt", "hooks"}, op.step = s,
           op' = [op EXCEPT !.step = After(s)]
    PROVE  /\ op \in Op /\ op' \in Op /\ op' # None
           /\ op'.kind = op.kind /\ op'.mode = op.mode /\ op'.target = op.target
           /\ op'.prev = op.prev /\ op'.sync = op.sync /\ op'.step = After(s)
           /\ op'.step \in {"flt", "hooks", "store"}
           /\ op'.step = "flt" <=> s = "up" /\ op.sync
           /\ op'.step = "hooks" => Hooked(op.kind)
           /\ op'.step = "store" => s = "hooks" \/ ~Hooked(op.kind)
<1>1. op \in Op
  BY DEF IInv, TypeOK
<1>2. /\ After(s) \in {"flt", "hooks", "store"}
      /\ After(s) = "flt" <=> s = "up" /\ op.sync
      /\ After(s) = "hooks" => Hooked(op.kind)
      /\ After(s) = "store" => s = "hooks" \/ ~Hooked(op.kind)
  BY DEF After
<1> HIDE DEF After
<1>3. /\ op' \in Op
      /\ op'.kind = op.kind /\ op'.mode = op.mode /\ op'.target = op.target
      /\ op'.prev = op.prev /\ op'.sync = op.sync /\ op'.step = After(s)
  BY <1>1, <1>2 DEF Op
<1> QED BY <1>1, <1>2, <1>3, Typed

(* Moving on keeps what is said of op, file and watcher. *)
LEMMA MoveKeeps ==
    ASSUME IInv, op # None, NEW s \in {"up", "flt", "hooks"}, op.step = s,
           op' = [op EXCEPT !.step = After(s)],
           UNCHANGED <<file, runtime, event, watcher>>,
           "file" \notin lag' => "file" \notin lag
    PROVE  OpInv' /\ (WatcherInv /\ FileInv)'
<1> USE Moves
<1>1. OpShape'
  BY DEF IInv, OpShape
<1>2. OpDocs'
  BY DEF IInv, OpDocs
<1>3. OpKeeps'
  BY DEF IInv, OpKeeps
<1>4. (WatcherInv /\ FileInv)'
  BY DEF IInv, WatcherInv, FileInv
<1> QED BY <1>1, <1>2, <1>3, <1>4 DEF OpInv

(* The upstream manager takes the candidate's section. *)
LEMMA UpstreamStep == ASSUME IInv, ApplyUpstream PROVE IInv'
<1>1. /\ op \in Op /\ op' \in Op /\ op' # None /\ op # None /\ op.step = "up"
      /\ op'.kind = op.kind /\ op'.mode = op.mode /\ op'.target = op.target
      /\ op'.sync = op.sync
      /\ op'.step \in {"flt", "hooks", "store"}
      /\ op'.step = "flt" <=> op.sync
      /\ op'.step = "store" => ~Hooked(op.kind)
  BY Moves DEF ApplyUpstream
<1>2. /\ comp' \in [Component -> Value]
      /\ comp'["up"] = op.target["up"]
      /\ \A c \in Component \ {"up"} : comp'[c] = comp[c]
  <2>1. op.target["up"] \in Value
    BY <1>1, Typed DEF Section
  <2> QED BY <2>1, Components DEF ApplyUpstream, IInv, TypeOK
<1>3. UNCHANGED <<runtime, listener>> /\ lag' = lag \ {"up"}
  BY Recorded DEF ApplyUpstream
<1>4. TypeOK'
  BY <1>1, <1>2 DEF ApplyUpstream, Reached, IInv, TypeOK
<1>5. OpInv' /\ (WatcherInv /\ FileInv)'
  BY <1>3, MoveKeeps DEF ApplyUpstream
<1>6. UpComp'
  BY <1>1, <1>2, <1>3 DEF UpComp
<1>7. FltComp'
  BY <1>1, <1>2, <1>3, Components DEF IInv, OpShape, FltComp
<1>8. HkComp' /\ PlanComp'
  BY <1>1, <1>2, <1>3, Components DEF IInv, HkComp, PlanComp
<1>9. ComponentsAgree'
  BY <1>1 DEF ComponentsAgree
<1> QED BY <1>4, <1>5, <1>6, <1>7, <1>8, <1>9 DEF IInv, OpInv

(* The filter engine takes the candidate's section. *)
LEMMA FilterStep == ASSUME IInv, ApplyFilter PROVE IInv'
<1>1. /\ op \in Op /\ op' \in Op /\ op' # None /\ op # None /\ op.step = "flt" /\ op.sync
      /\ op'.kind = op.kind /\ op'.mode = op.mode /\ op'.target = op.target
      /\ op'.sync = op.sync
      /\ op'.step \in {"hooks", "store"}
      /\ op'.step = "store" => ~Hooked(op.kind)
  BY Moves DEF ApplyFilter, IInv, OpShape
<1>2. /\ comp' \in [Component -> Value]
      /\ comp'["flt"] = op.target["flt"]
      /\ \A c \in Component \ {"flt"} : comp'[c] = comp[c]
  <2>1. op.target["flt"] \in Value
    BY <1>1, Typed DEF Section
  <2> QED BY <2>1, Components DEF ApplyFilter, IInv, TypeOK
<1>3. UNCHANGED <<runtime, listener>> /\ lag' = lag \ {"flt"}
  BY Recorded DEF ApplyFilter
<1>4. TypeOK'
  BY <1>1, <1>2 DEF ApplyFilter, Reached, IInv, TypeOK
<1>5. OpInv' /\ (WatcherInv /\ FileInv)'
  BY <1>3, MoveKeeps DEF ApplyFilter
<1>6. UpComp'
  BY <1>1, <1>2, <1>3, Components DEF IInv, UpComp
<1>7. FltComp'
  BY <1>1, <1>2, <1>3 DEF FltComp
<1>8. HkComp' /\ PlanComp'
  BY <1>1, <1>2, <1>3, Components DEF IInv, HkComp, PlanComp
<1>9. ComponentsAgree'
  BY <1>1 DEF ComponentsAgree
<1> QED BY <1>4, <1>5, <1>6, <1>7, <1>8, <1>9 DEF IInv, OpInv

(* The hooks take theirs, the listeners rebind where the plan changed. *)
LEMMA HooksStep == ASSUME IInv, ApplyHooks PROVE IInv'
<1>1. /\ op \in Op /\ op' \in Op /\ op' # None /\ op # None /\ op.step = "hooks"
      /\ op'.kind = op.kind /\ op'.mode = op.mode /\ op'.target = op.target
      /\ op'.sync = op.sync /\ op'.step = "store"
  BY Moves DEF ApplyHooks, After
<1>2. Hooked(op.kind)
  BY <1>1 DEF IInv, OpShape
<1>3. op.target["hk"] \in Value /\ op.target["plan"] \in Value
  BY <1>1, Typed DEF Section
<1>4. /\ comp' \in [Component -> Value]
      /\ comp'["hk"] = op.target["hk"]
      /\ comp'["plan"] = IF Rebinds THEN op.target["plan"] ELSE comp["plan"]
      /\ comp'["up"] = comp["up"] /\ comp'["flt"] = comp["flt"]
  BY <1>3, Components DEF ApplyHooks, IInv, TypeOK
<1>5. /\ runtime' = runtime
      /\ listener' = IF Rebinds THEN "serving" ELSE listener
      /\ lag' = lag \ ({"hk"} \cup {c \in {"plan"} : listener' = "serving"})
      /\ loose' = loose \ ({"hk"} \cup {c \in {"plan"} : listener' = "serving"})
  BY Recorded DEF ApplyHooks, Reached
<1>6. TypeOK'
  BY <1>1, <1>4, <1>5 DEF ApplyHooks, Reached, IInv, TypeOK
<1>7. OpInv' /\ (WatcherInv /\ FileInv)'
  BY <1>5, MoveKeeps DEF ApplyHooks
<1>8. UpComp' /\ FltComp'
  BY <1>1, <1>4, <1>5 DEF IInv, UpComp, FltComp
<1>9. HkComp'
  BY <1>1, <1>2, <1>4 DEF HkComp
<1>10. PlanComp'
  BY <1>1, <1>2, <1>4, <1>5 DEF PlanComp, Rebinds
<1>11. ComponentsAgree'
  BY <1>1 DEF ComponentsAgree
<1> QED BY <1>6, <1>7, <1>8, <1>9, <1>10, <1>11 DEF IInv, OpInv

-----------------------------------------------------------------------------
(* Failing steps *)

(* What Behind does not name agrees with the snapshot. *)
LEMMA BehindAgrees ==
    ASSUME IInv, runtime' = runtime, listener' \in {"empty", "binding", "serving", "dead"},
           NEW c \in Component, c \notin Behind(comp', listener')
    PROVE  \/ comp'[c] = runtime'[c] /\ (c = "plan" => listener' # "dead")
           \/ c = "plan" /\ listener' \in {"empty", "binding"}
BY DEF Behind

(* A failed step starts a rollback, or ends the apply with what it left     *)
(* behind on record.                                                        *)
LEMMA FailKeeps ==
    ASSUME IInv, op # None, op.step # "save", StepFails,
           comp' \in [Component -> Value],
           \A c \in Component : comp'[c] = comp[c] \/ (c = "hk" /\ Hooked(op.kind)),
           \/ listener' = listener
           \/ listener \in {"serving", "dead"} /\ listener' \in {"serving", "dead"},
           UNCHANGED <<file, runtime, event, watcher, loose>>
    PROVE  /\ op' \in Op \cup {None} /\ failed' \subseteq Lag
           /\ OpInv' /\ CompInv' /\ (WatcherInv /\ FileInv)'
<1>1. op \in Op /\ runtime \in Doc /\ op.prev \in Doc
  BY Typed DEF IInv, TypeOK
<1>0. ~Hooked(op.kind) =>
         /\ \A c \in {"hk", "plan"} : op.target[c] = op.prev[c] /\ runtime[c] = op.prev[c]
         /\ "hk" \notin lag => comp'["hk"] = op.target["hk"]
         /\ "plan" \notin lag /\ listener' \in {"serving", "dead"} => comp'["plan"] = op.target["plan"]
  BY Components DEF IInv, OpKeeps, HkComp, PlanComp
<1>2. CASE op.mode = "apply"
  <2>1. /\ op' \in Op /\ op'.kind = op.kind /\ op'.mode = "undo" /\ op'.step = "up"
        /\ op'.target = op.prev /\ op'.prev = op.prev /\ op'.sync = TRUE
        /\ failed' = failed /\ lag' = lag
    BY <1>1, <1>2 DEF StepFails, Op, lag
  <2>2. op' # None
    BY <2>1, Typed
  <2>3. OpInv'
    BY <1>2, <2>1, <2>2 DEF IInv, OpInv, OpShape, OpDocs, OpKeeps
  <2>4. (UpComp /\ FltComp /\ HkComp /\ PlanComp /\ ComponentsAgree)'
    BY <1>0, <2>1, <2>2, Components DEF UpComp, FltComp, HkComp, PlanComp, ComponentsAgree
  <2>5. (WatcherInv /\ FileInv)'
    BY <1>2, <2>1, <2>2 DEF IInv, WatcherInv, FileInv
  <2> QED BY <2>1, <2>3, <2>4, <2>5 DEF CompInv, IInv, TypeOK
<1>3. CASE op.mode = "revert"
  <2>1. /\ op' \in Op /\ op'.kind = op.kind /\ op'.mode = "redo" /\ op'.step = "up"
        /\ op'.target = runtime /\ op'.prev = op.prev /\ op'.sync = op.sync
        /\ failed' = failed /\ lag' = lag
    BY <1>1, <1>3 DEF StepFails, Op, lag
  <2>2. op' # None
    BY <2>1, Typed
  <2>3. OpInv'
    BY <1>3, <2>1, <2>2 DEF IInv, OpInv, OpShape, OpDocs, OpKeeps
  <2>4. (UpComp /\ FltComp /\ HkComp /\ PlanComp /\ ComponentsAgree)'
    <3>1. op.sync
      BY <1>3 DEF IInv, OpShape
    <3> QED BY <1>0, <2>1, <2>2, <3>1, Components
            DEF UpComp, FltComp, HkComp, PlanComp, ComponentsAgree
  <2>5. (WatcherInv /\ FileInv)'
    BY <1>3, <2>1, <2>2 DEF IInv, WatcherInv, FileInv
  <2> QED BY <2>1, <2>3, <2>4, <2>5 DEF CompInv, IInv, TypeOK
<1>4. CASE op.mode \in {"undo", "redo"}
  <2>1. /\ op' = None
        /\ failed' = failed \cup Behind(comp', listener')
                            \cup {x \in Current : op.mode = "redo" \/ op.kind = "watch"}
    BY <1>4 DEF StepFails
  <2>2. failed' \subseteq Lag
    BY <2>1, Components DEF IInv, TypeOK, Lag, Behind, Current
  <2>3. OpInv'
    BY <2>1 DEF OpInv, OpShape, OpDocs, OpKeeps
  <2>4. ComponentsAgree'
    <3>1. listener' \in {"empty", "binding", "serving", "dead"}
      BY DEF IInv, TypeOK
    <3> QED BY <2>1, <3>1, BehindAgrees DEF ComponentsAgree
  <2>5. CompInv'
    BY <2>1, <2>4 DEF CompInv, UpComp, FltComp, HkComp, PlanComp
  <2>6. (WatcherInv /\ FileInv)'
    BY <1>4, <2>1 DEF IInv, WatcherInv, FileInv, lag, Current
  <2> QED BY <2>1, <2>2, <2>3, <2>5, <2>6
<1>5. op.mode \in {"apply", "undo", "revert", "redo"}
  BY <1>1 DEF Op
<1> QED BY <1>2, <1>3, <1>4, <1>5

(* A reload or a rebind fails. *)
LEMMA FailSteps == ASSUME IInv, ReloadFails \/ RebindFails PROVE IInv'
<1> DEFINE P == /\ op' \in Op \cup {None} /\ failed' \subseteq Lag
                /\ OpInv' /\ CompInv' /\ (WatcherInv /\ FileInv)'
<1>1. CASE ReloadFails
  <2>1. P
    BY <1>1, FailKeeps DEF ReloadFails, IInv, TypeOK
  <2>2. TypeOK'
    BY <1>1, <2>1 DEF ReloadFails, CountFault, IInv, TypeOK
  <2> QED BY <2>1, <2>2 DEF IInv, OpInv, CompInv
<1>2. CASE RebindFails
  <2>1. op \in Op /\ op # None /\ op.step = "hooks" /\ Hooked(op.kind)
    BY <1>2 DEF RebindFails, IInv, TypeOK, OpShape
  <2>2. op.target["hk"] \in Value
    BY <2>1, Typed DEF Section
  <2>3. /\ comp' \in [Component -> Value]
        /\ \A c \in Component : comp'[c] = comp[c] \/ c = "hk"
    BY <1>2, <2>2, Components DEF RebindFails, IInv, TypeOK
  <2>4. listener \in {"serving", "dead"} /\ listener' \in {"serving", "dead"}
    BY <1>2 DEF RebindFails, Rebinds
  <2>5. P
    BY <1>2, <2>1, <2>3, <2>4, FailKeeps DEF RebindFails
  <2>6. TypeOK'
    BY <1>2, <2>3, <2>4, <2>5 DEF RebindFails, CountFault, IInv, TypeOK
  <2> QED BY <2>5, <2>6 DEF IInv, OpInv, CompInv
<1> QED BY <1>1, <1>2

(* A dropped request leaves its mark in loose. *)
LEMMA CancelStep == ASSUME IInv, Cancel PROVE IInv'
<1>1. op \in Op /\ op # None /\ op' = None /\ op.target \in Doc /\ op.target["hk"] \in Value
  BY Typed DEF Cancel, IInv, TypeOK, Section
<1>2. comp' \in [Component -> Value]
  BY <1>1, Components DEF Cancel, IInv, TypeOK
<1>3. listener' \in {"empty", "binding", "serving", "dead"} /\ orphan' \in Doc \cup {None}
  BY <1>1 DEF Cancel, IInv, TypeOK
<1>4. /\ loose' = loose \cup Behind(comp', listener') \cup {x \in Current : file # runtime}
      /\ failed' = failed /\ UNCHANGED <<runtime, file, event, watcher>>
  BY DEF Cancel
<1>5. loose' \subseteq Lag
  BY <1>4, Components DEF IInv, TypeOK, Lag, Behind, Current
<1>6. TypeOK'
  BY <1>1, <1>2, <1>3, <1>5 DEF Cancel, CountFault, IInv, TypeOK
<1>7. ComponentsAgree'
  BY <1>3, <1>4, BehindAgrees DEF ComponentsAgree
<1>8. OpInv' /\ CompInv'
  BY <1>1, <1>7 DEF OpInv, OpShape, OpDocs, OpKeeps, CompInv, UpComp, FltComp, HkComp, PlanComp
<1>9. (WatcherInv /\ FileInv)'
  BY <1>1, <1>4 DEF IInv, WatcherInv, FileInv, lag, Current
<1> QED BY <1>6, <1>8, <1>9 DEF IInv, OpInv, CompInv

-----------------------------------------------------------------------------
(* Snapshot and file *)

(* What Store puts on record, and what it takes off. *)
LEMMA StoreRecords ==
    ASSUME IInv, Store
    PROVE  /\ failed' \subseteq Lag /\ loose' \subseteq Lag
           /\ \A c \in Component :
                 /\ c \in loose => c \in loose'
                 /\ c \notin lag' =>
                       /\ c \notin lag
                       /\ c = "plan" => listener # "dead"
                       /\ c = "flt" /\ op.kind = "wizard" /\ ~op.sync => comp[c] = op.target[c]
           /\ "file" \notin lag' =>
                 /\ "file" \notin lag \/ (op.mode = "apply" /\ ~Persists(op.kind) /\ op.target = file)
                 /\ \/ event
                    \/ /\ op.mode # "redo"
                       /\ op.mode = "undo" => op.kind # "watch"
                       /\ op.mode = "apply" /\ op.kind = "reload" => op.target = file
<1> DEFINE level == {x \in {"file"} : op.mode = "apply" /\ ~Persists(op.kind) /\ op.target = file}
<1>1. failed' = (failed \ level) \cup FailedAtStore /\ loose' = (loose \ level) \cup LooseAtStore
  BY DEF Store
<1>2. failed' \subseteq Lag /\ loose' \subseteq Lag
  BY <1>1, Components DEF FailedAtStore, LooseAtStore, Current, Lag, IInv, TypeOK
<1>3. ASSUME NEW c \in Component
      PROVE  /\ c \in loose => c \in loose'
             /\ c \notin lag' =>
                   /\ c \notin lag
                   /\ c = "plan" => listener # "dead"
                   /\ c = "flt" /\ op.kind = "wizard" /\ ~op.sync => comp[c] = op.target[c]
  BY <1>1, Components DEF FailedAtStore, LooseAtStore, lag
<1>4. ASSUME "file" \notin lag'
      PROVE  /\ "file" \notin lag \/ (op.mode = "apply" /\ ~Persists(op.kind) /\ op.target = file)
             /\ \/ event
                \/ /\ op.mode # "redo"
                   /\ op.mode = "undo" => op.kind # "watch"
                   /\ op.mode = "apply" /\ op.kind = "reload" => op.target = file
  BY <1>1, <1>4 DEF FailedAtStore, LooseAtStore, Current, lag
<1> QED BY <1>2, <1>3, <1>4

(* When the snapshot is replaced, every component that is not on record     *)
(* works with the section that becomes the running one.                     *)
LEMMA StoreAgrees ==
    ASSUME IInv, Store, NEW c \in Component, c \notin lag'
    PROVE  \/ comp[c] = op.target[c] /\ (c = "plan" => listener # "dead")
           \/ c = "plan" /\ listener \in {"empty", "binding"}
<1>1. op \in Op /\ op # None /\ op.step = "store"
  BY DEF Store, IInv, TypeOK
<1>2. op.sync \in BOOLEAN
  BY <1>1, Typed
<1>3. /\ c \notin lag /\ c \notin loose
      /\ c = "plan" => listener # "dead"
      /\ c = "flt" /\ op.kind = "wizard" /\ ~op.sync => comp[c] = op.target[c]
  BY StoreRecords DEF lag
<1>4. CASE c = "up"
  BY <1>1, <1>4 DEF IInv, UpComp
<1>5. CASE c = "flt"
  BY <1>1, <1>2, <1>3, <1>5 DEF IInv, FltComp
<1>6. CASE c = "hk"
  BY <1>1, <1>3, <1>6 DEF IInv, HkComp
<1>7. CASE c = "plan"
  BY <1>1, <1>3, <1>7 DEF IInv, TypeOK, PlanComp
<1> QED BY <1>4, <1>5, <1>6, <1>7, Components

(* How Store leaves the file: level with the snapshot, or on record, or     *)
(* about to be written, or to be looked at by the watcher.                  *)
LEMMA StoreFile == ASSUME IInv, Store PROVE (WatcherInv /\ FileInv)'
<1>1. /\ op \in Op /\ op # None /\ op.step = "store"
      /\ runtime' = op.target /\ UNCHANGED <<file, event, watcher>>
  BY DEF Store, IInv, TypeOK
<1>2. CASE op.mode = "apply" /\ Persists(op.kind)
  <2>1. op' = [op EXCEPT !.step = "save"]
    BY <1>2 DEF Store
  <2>2. op' \in Op /\ op' # None /\ op'.kind = op.kind /\ op'.prev = op.prev /\ op'.step = "save"
    BY <1>1, <2>1, Typed DEF Op
  <2>3. "file" \notin lag' => "file" \notin lag
    BY <1>2, StoreRecords
  <2>4. op.kind # "watch" /\ runtime = op.prev
    BY <1>1, <1>2 DEF Persists, IInv, OpDocs
  <2> QED BY <1>1, <1>2, <2>2, <2>3, <2>4 DEF IInv, WatcherInv, FileInv
<1>3. CASE op.mode = "apply" /\ ~Persists(op.kind)
  <2>1. op' = None /\ op.kind \in {"watch", "reload"}
    BY <1>3 DEF Store, Persists
  <2>2. "file" \notin lag' => event \/ op.target = file \/ op.kind = "watch"
    BY <1>3, <2>1, StoreRecords
  <2> QED BY <1>1, <1>3, <2>1, <2>2 DEF IInv, WatcherInv, FileInv
<1>4. CASE op.mode # "apply"
  <2>1. op' = None /\ op.mode \in {"undo", "revert", "redo"}
    BY <1>1, <1>4 DEF Store, Op
  <2>2. "file" \notin lag' => /\ "file" \notin lag
                              /\ event \/ (op.mode # "redo" /\ (op.mode = "undo" => op.kind # "watch"))
    BY <1>4, StoreRecords
  <2>3. /\ op.mode = "undo" => op.target = runtime
        /\ op.mode = "revert" => op.target = op.prev /\ op.kind # "watch"
    BY <1>1, <2>1 DEF IInv, OpDocs, OpShape, Persists
  <2>4. WatcherInv'
    BY <1>1, <2>1 DEF IInv, WatcherInv
  <2>5. ASSUME op.mode = "undo" PROVE FileInv'
    BY <1>1, <2>1, <2>2, <2>3, <2>5 DEF IInv, FileInv
  <2>6. ASSUME op.mode = "revert" PROVE FileInv'
    BY <1>1, <2>1, <2>2, <2>3, <2>6 DEF IInv, FileInv
  <2>7. ASSUME op.mode = "redo" PROVE FileInv'
    BY <1>1, <2>2, <2>7 DEF FileInv
  <2> QED BY <2>1, <2>4, <2>5, <2>6, <2>7
<1> QED BY <1>2, <1>3, <1>4

(* The snapshot is replaced. *)
LEMMA StoreStep == ASSUME IInv, Store PROVE IInv'
<1>1. /\ op \in Op /\ op # None /\ op.step = "store" /\ op.target \in Doc
      /\ runtime' = op.target /\ UNCHANGED <<comp, listener>>
  BY Typed DEF Store, IInv, TypeOK
<1>2. failed' \subseteq Lag /\ loose' \subseteq Lag
  BY StoreRecords
<1>3. CASE op.mode = "apply" /\ Persists(op.kind)
  <2>1. op' = [op EXCEPT !.step = "save"]
    BY <1>3 DEF Store
  <2>2. op' \in Op /\ op' # None /\ op'.step = "save"
    BY <1>1, <2>1, Typed DEF Op
  <2>3. /\ op'.kind = op.kind /\ op'.mode = "apply" /\ op'.target = op.target
        /\ op'.prev = op.prev /\ op'.sync = op.sync
    BY <1>1, <1>3, <2>1 DEF Op
  <2>4. TypeOK'
    BY <1>1, <1>2, <2>2 DEF Store, IInv, TypeOK
  <2>5. OpShape' /\ OpDocs'
    BY <1>1, <1>3, <2>2, <2>3 DEF IInv, OpShape, OpDocs
  <2>6. OpKeeps'
    BY <1>1, <1>3, <2>2, <2>3 DEF IInv, OpKeeps
  <2>7. UpComp' /\ FltComp'
    BY <1>1, <2>2, <2>3, StoreAgrees, StoreRecords, Components DEF IInv, UpComp, FltComp
  <2>8. HkComp' /\ PlanComp'
    BY <1>1, <2>2, <2>3, StoreAgrees, StoreRecords, Components DEF IInv, HkComp, PlanComp
  <2>9. ComponentsAgree'
    BY <2>2 DEF ComponentsAgree
  <2> QED BY <2>4, <2>5, <2>6, <2>7, <2>8, <2>9, StoreFile DEF IInv
<1>4. CASE ~(op.mode = "apply" /\ Persists(op.kind))
  <2>1. op' = None
    BY <1>4 DEF Store
  <2>2. TypeOK'
    BY <1>1, <1>2, <2>1 DEF Store, IInv, TypeOK
  <2>3. OpInv' /\ (UpComp /\ FltComp /\ HkComp /\ PlanComp)'
    BY <2>1 DEF OpInv, OpShape, OpDocs, OpKeeps, UpComp, FltComp, HkComp, PlanComp
  <2>4. ComponentsAgree'
    BY <1>1, StoreAgrees DEF ComponentsAgree, lag
  <2> QED BY <2>2, <2>3, <2>4, StoreFile DEF IInv, OpInv
<1> QED BY <1>3, <1>4

(* The file is written. *)
LEMMA SaveStep == ASSUME IInv, Save PROVE IInv'
<1>1. /\ op \in Op /\ op # None /\ op.step = "save" /\ op.target \in Doc /\ op' = None
      /\ op.target["flt"] \in Value
  BY Typed DEF Save, IInv, TypeOK, Section
<1>2. /\ file' = op.target /\ event' = TRUE
      /\ failed' = failed \ {"file"} /\ loose' = loose \ {"file"}
      /\ UNCHANGED <<runtime, comp, listener>>
  BY DEF Save, Written
<1>3. TypeOK'
  BY <1>1, <1>2 DEF Save, IInv, TypeOK
<1>4. OpInv' /\ (UpComp /\ FltComp /\ HkComp /\ PlanComp)'
  BY <1>1 DEF OpInv, OpShape, OpDocs, OpKeeps, UpComp, FltComp, HkComp, PlanComp
<1>5. op.mode = "apply" /\ runtime = op.target
  BY <1>1 DEF IInv, OpShape, OpDocs
<1>6. comp["up"] = runtime["up"]
  BY <1>1, <1>5 DEF IInv, UpComp
<1>7. comp["flt"] = runtime["flt"] \/ "flt" \in lag
  BY <1>1, <1>5 DEF IInv, FltComp
<1>8. comp["hk"] = runtime["hk"] \/ "hk" \in lag
  BY <1>1, <1>5 DEF IInv, HkComp
<1>9. \/ comp["plan"] = runtime["plan"] /\ listener # "dead"
      \/ "plan" \in lag
      \/ listener \in {"empty", "binding"}
  BY <1>1, <1>5 DEF IInv, TypeOK, PlanComp, lag
<1>10. ComponentsAgree'
  BY <1>2, <1>6, <1>7, <1>8, <1>9, Components DEF ComponentsAgree, lag
<1>11. (WatcherInv /\ FileInv)'
  BY <1>1, <1>2 DEF WatcherInv, FileInv
<1> QED BY <1>3, <1>4, <1>10, <1>11 DEF IInv, OpInv

(* The write fails and the rollback starts. *)
LEMMA SaveFailsStep == ASSUME IInv, SaveFails PROVE IInv'
<1>1. /\ op \in Op /\ op # None /\ op.step = "save" /\ op.prev \in Doc
      /\ op' = [op EXCEPT !.mode = "revert", !.step = "up", !.target = op.prev, !.sync = TRUE]
  BY Typed DEF SaveFails, IInv, TypeOK
<1>2. op' \in Op /\ op' # None
  <2>1. op' \in Op
    BY <1>1 DEF Op
  <2> QED BY <2>1, Typed
<1>3. /\ op'.kind = op.kind /\ op'.mode = "revert" /\ op'.step = "up"
      /\ op'.target = op.prev /\ op'.prev = op.prev /\ op'.sync = TRUE
  BY <1>1 DEF Op
<1>4. UNCHANGED <<file, runtime, comp, listener, event, watcher, failed, loose>> /\ lag' = lag
  BY Recorded DEF SaveFails, history
<1>5. TypeOK'
  BY <1>2, <1>4 DEF SaveFails, CountFault, IInv, TypeOK
<1>6. OpInv'
  BY <1>1, <1>2, <1>3, <1>4 DEF IInv, OpInv, OpShape, OpDocs, OpKeeps
<1>7. CompInv'
  BY <1>1, <1>2, <1>3, <1>4
     DEF IInv, OpKeeps, CompInv, UpComp, FltComp, HkComp, PlanComp, ComponentsAgree
<1>8. (WatcherInv /\ FileInv)'
  BY <1>1, <1>2, <1>3, <1>4 DEF IInv, OpShape, WatcherInv, FileInv
<1> QED BY <1>5, <1>6, <1>7, <1>8 DEF IInv, OpInv, CompInv

-----------------------------------------------------------------------------
(* Listener startup and the background refresh *)

(* A listener generation binds, or enters the slot. *)
LEMMA ListenerSteps == ASSUME IInv, BindListeners \/ InstallListeners PROVE IInv'
<1>1. /\ UNCHANGED <<op, runtime, file, event, watcher, failed>>
      /\ loose' \in {loose, loose \cup {"plan"}}
  <2>1. CASE BindListeners
    BY <2>1 DEF BindListeners, history
  <2>2. CASE InstallListeners
    <3> DEFINE late == {c \in {"plan"} : \/ comp[c] # runtime[c]
                                         \/ op # None /\ op.step = "store" /\ comp[c] # op.target[c]}
    <3>1. late = {} \/ late = {"plan"}
      OBVIOUS
    <3> QED BY <2>2, <3>1 DEF InstallListeners
  <2> QED BY <2>1, <2>2
<1>2. /\ comp' \in [Component -> Value]
      /\ \A c \in Component \ {"plan"} : /\ comp'[c] = comp[c]
                                         /\ c \in loose' <=> c \in loose
                                         /\ c \in lag' <=> c \in lag
      /\ "file" \in lag' <=> "file" \in lag
  <2>1. runtime["plan"] \in Value
    BY Typed DEF IInv, TypeOK, Section
  <2> QED BY <1>1, <2>1, Components DEF BindListeners, InstallListeners, IInv, TypeOK, lag
<1>3. TypeOK'
  <2>1. loose' \subseteq Lag
    BY <1>1, Components DEF IInv, TypeOK, Lag
  <2> QED BY <1>1, <1>2, <2>1 DEF BindListeners, InstallListeners, IInv, TypeOK
<1>4. OpInv' /\ (WatcherInv /\ FileInv)'
  BY <1>1, <1>2 DEF IInv, OpInv, OpShape, OpDocs, OpKeeps, WatcherInv, FileInv
<1>5. UpComp' /\ FltComp' /\ HkComp'
  BY <1>1, <1>2, Components DEF IInv, UpComp, FltComp, HkComp
<1>6. CASE BindListeners
  <2>1. PlanComp'
    BY <1>6 DEF BindListeners, PlanComp
  <2>2. listener' = "binding" /\ listener = "empty"
    BY <1>6 DEF BindListeners
  <2>3. ComponentsAgree'
    BY <1>1, <1>2, <2>2, Agreement, Components DEF IInv, ComponentsAgree, lag
  <2> QED BY <1>3, <1>4, <1>5, <2>1, <2>3 DEF IInv, OpInv
<1>7. CASE InstallListeners
  <2>1. /\ listener' = "serving"
        /\ "plan" \notin loose' =>
              /\ comp'["plan"] = runtime["plan"]
              /\ op # None /\ op.step = "store" => comp'["plan"] = op.target["plan"]
    BY <1>7 DEF InstallListeners
  <2>2. op # None /\ op.step = "save" => op.target = runtime
    BY DEF IInv, OpDocs
  <2>3. op # None /\ ~Hooked(op.kind) => op.target["plan"] = runtime["plan"]
    BY DEF IInv, OpKeeps
  <2>4. PlanComp'
    BY <1>1, <2>1, <2>2, <2>3 DEF PlanComp, lag
  <2>5. ComponentsAgree'
    BY <1>1, <1>2, <2>1, Components DEF IInv, ComponentsAgree, lag
  <2> QED BY <1>3, <1>4, <1>5, <2>4, <2>5 DEF IInv, OpInv
<1> QED BY <1>6, <1>7

(* A list reload outside the lock ends. *)
LEMMA RefreshStep == ASSUME IInv, RefreshEnds PROVE IInv'
<1> DEFINE due == IF op # None THEN op.target["flt"] ELSE runtime["flt"]
<1>1. UNCHANGED <<op, runtime, listener, file, event, watcher>>
  BY DEF RefreshEnds
<1>2. \/ refresh = due /\ failed' = failed \ {"flt"} /\ loose' = loose \ {"flt"}
      \/ failed' = failed /\ loose' = loose \cup {"flt"}
  BY DEF RefreshEnds, Reached
<1>3. /\ comp' \in [Component -> Value]
      /\ comp'["flt"] = refresh
      /\ \A c \in Component \ {"flt"} : comp'[c] = comp[c]
  BY Components DEF RefreshEnds, IInv, TypeOK
<1>4. /\ \A c \in Component \ {"flt"} : (c \in loose' <=> c \in loose) /\ (c \in lag' <=> c \in lag)
      /\ "file" \in lag' <=> "file" \in lag
      /\ failed' \subseteq Lag /\ loose' \subseteq Lag
  BY <1>2, Components DEF lag, IInv, TypeOK, Lag
<1>5. TypeOK'
  BY <1>3, <1>4 DEF RefreshEnds, IInv, TypeOK
<1>6. OpInv' /\ (WatcherInv /\ FileInv)'
  BY <1>1, <1>4 DEF IInv, OpInv, OpShape, OpDocs, OpKeeps, WatcherInv, FileInv
<1>7. "flt" \notin loose' => refresh = due
  BY <1>2
<1>8. UpComp' /\ HkComp' /\ PlanComp'
  BY <1>1, <1>3, <1>4, Components DEF IInv, UpComp, HkComp, PlanComp
<1>9. FltComp'
  BY <1>1, <1>3, <1>7 DEF FltComp, lag
<1>10. ComponentsAgree'
  BY <1>1, <1>3, <1>4, <1>7, Agreement, Components DEF IInv, ComponentsAgree, lag
<1> QED BY <1>5, <1>6, <1>8, <1>9, <1>10 DEF IInv, OpInv

-----------------------------------------------------------------------------
(* Theorems *)

(* Every step preserves the invariant. *)
LEMMA NextIInv == IInv /\ [Next]_vars => IInv'
<1> SUFFICES ASSUME IInv, [Next]_vars PROVE IInv'
  OBVIOUS
<1>1. CASE Ask
  <2>1. ASSUME NEW s \in Section, NEW v \in Value, Edit([file EXCEPT ![s] = v]) PROVE IInv'
    <3>1. [file EXCEPT ![s] = v] \in Doc
      BY DEF IInv, TypeOK, Doc
    <3> QED BY <2>1, <3>1, FileSteps
  <2> QED BY <1>1, <2>1, RequestSteps, RequestBegins DEF Ask
<1>2. CASE \E c \in Client : BeginEarly(c) \/ RefuseEarly(c)
  BY <1>2, RequestBegins, RequestSteps
<1>3. CASE Watch
  BY <1>3, WatcherSteps, WatcherBegins DEF Watch
<1>4. CASE ApplyStep
  BY <1>4, UpstreamStep, FilterStep, HooksStep, FailSteps, StoreStep, SaveStep, SaveFailsStep
     DEF ApplyStep
<1>5. CASE Cancel
  BY <1>5, CancelStep
<1>6. CASE Background
  BY <1>6, FileSteps, ListenerSteps, RefreshStep, RequestSteps DEF Background
<1>7. CASE UNCHANGED vars
  <2>1. TypeOK'
    BY <1>7 DEF vars, history, IInv, TypeOK
  <2>2. OpInv' /\ CompInv'
    BY <1>7, QuietKeeps DEF vars, history
  <2>3. (WatcherInv /\ FileInv)'
    BY <1>7, Recorded DEF vars, IInv, WatcherInv, FileInv
  <2> QED BY <2>1, <2>2, <2>3 DEF IInv, OpInv, CompInv
<1> QED BY <1>1, <1>2, <1>3, <1>4, <1>5, <1>6, <1>7 DEF Next

(* The inductive invariant holds in every reachable state. *)
THEOREM Invariance == Spec => []IInv
BY InitIInv, NextIInv, PTL DEF Spec

(* Every variable keeps its type. *)
THEOREM TypeCorrect == Spec => []TypeOK
<1>1. IInv => TypeOK
  BY DEF IInv
<1> QED BY <1>1, Invariance, PTL

(* Between applies every component works with the snapshot's section,       *)
(* unless a failure on record left it behind.                               *)
THEOREM AgreementOfComponents == Spec => []ComponentsAgree
<1>1. IInv => ComponentsAgree
  BY DEF IInv
<1> QED BY <1>1, Invariance, PTL

(* With nothing under way the file is the running configuration, unless a   *)
(* failure on record separated them.                                        *)
THEOREM AgreementOfFile == Spec => []FileAgrees
<1>1. IInv => FileAgrees
  BY DEF IInv, FileInv, FileAgrees, lag
<1> QED BY <1>1, Invariance, PTL

(* Only Store replaces the snapshot. *)
LEMMA RuntimeWriter == ASSUME [Next]_vars, runtime' # runtime PROVE Store
<1>1. CASE Ask
  BY <1>1 DEF Ask, Edit, ReadEarly, BeginSection, BeginWizard
<1>2. CASE \E c \in Client : BeginEarly(c) \/ RefuseEarly(c)
  BY <1>2 DEF BeginEarly, RefuseEarly
<1>3. CASE Watch
  BY <1>3 DEF Watch, WatcherReads, WatcherReadFails, WatcherSkips, WatcherApplies, WatcherRejects
<1>4. CASE ApplyStep
  BY <1>4 DEF ApplyStep, ApplyUpstream, ApplyFilter, ReloadFails, ApplyHooks, RebindFails, Save,
              SaveFails
<1>5. CASE Cancel \/ Background
  BY <1>5 DEF Cancel, Background, OrphanRename, BindListeners, InstallListeners, RefreshEnds,
              RefreshStarts, RefreshFails
<1>6. CASE UNCHANGED vars
  BY <1>6 DEF vars
<1> QED BY <1>1, <1>2, <1>3, <1>4, <1>5, <1>6 DEF Next

(* A request that edits one section never takes another section back,       *)
(* however reloads, edits and other requests interleave with it.            *)
THEOREM SectionsKept == Spec => NoLostUpdate
<1> DEFINE A == op # None /\ op.kind \in SectionWriter /\ op.mode = "apply" /\ runtime' # runtime
                => \A s \in Section \ {SectionOf(op.kind)} : runtime'[s] = runtime[s]
<1>1. ASSUME IInv, [Next]_vars PROVE A
  <2> SUFFICES ASSUME op # None, op.kind \in SectionWriter, op.mode = "apply", runtime' # runtime,
                      NEW s \in Section \ {SectionOf(op.kind)}
               PROVE  runtime'[s] = runtime[s]
    OBVIOUS
  <2>1. Store
    BY <1>1, RuntimeWriter
  <2>2. op.step = "store" /\ runtime' = op.target
    BY <2>1 DEF Store
  <2>3. runtime = op.prev /\ op.target[s] = op.prev[s]
    BY <1>1, <2>2 DEF IInv, OpDocs, OpKeeps
  <2> QED BY <2>2, <2>3
<1>2. IInv /\ [Next]_vars => [A]_vars
  BY <1>1
<1> QED BY <1>2, Invariance, PTL DEF Spec, NoLostUpdate

(* A rollback leaves snapshot and file as the apply found them, and every   *)
(* component it touched, the listener plan included, with the value it had. *)
(* Only a list reload that ended after the rollback's own, or a first       *)
(* listener generation, can have come after.                                *)
THEOREM RollbackRestores == Spec => RollsBack
<1> DEFINE A == Store /\ op.mode \in {"undo", "revert"}
                => /\ runtime' = op.prev
                   /\ file' = file
                   /\ \A c \in Touched :
                         \/ comp'[c] = op.prev[c]
                         \/ c = "flt" /\ c \in loose
                         \/ c = "plan" /\ (c \in loose \/ listener \in {"empty", "binding"})
<1>1. ASSUME IInv PROVE A
  <2> SUFFICES ASSUME Store, op.mode \in {"undo", "revert"}
               PROVE  /\ runtime' = op.prev /\ file' = file
                      /\ \A c \in Touched :
                            \/ comp'[c] = op.prev[c]
                            \/ c = "flt" /\ c \in loose
                            \/ c = "plan" /\ (c \in loose \/ listener \in {"empty", "binding"})
    OBVIOUS
  <2>1. /\ op # None /\ op.step = "store" /\ runtime' = op.target /\ file' = file /\ comp' = comp
    BY DEF Store
  <2>2. op.target = op.prev
    BY <1>1, <2>1 DEF IInv, OpDocs
  <2>3. comp["up"] = op.prev["up"]
    BY <1>1, <2>1, <2>2 DEF IInv, UpComp
  <2>4. "flt" \in Touched => comp["flt"] = op.prev["flt"] \/ "flt" \in loose
    BY <1>1, <2>1, <2>2 DEF IInv, FltComp, Touched
  <2>5. "hk" \in Touched => comp["hk"] = op.prev["hk"]
    BY <1>1, <2>1, <2>2 DEF IInv, HkComp, Touched
  <2>6. "plan" \in Touched =>
           comp["plan"] = op.prev["plan"] \/ "plan" \in loose \/ listener \in {"empty", "binding"}
    BY <1>1, <2>1, <2>2 DEF IInv, TypeOK, PlanComp, Touched
  <2>7. Touched \subseteq {"up", "flt", "hk", "plan"}
    BY DEF Touched
  <2> QED BY <2>1, <2>2, <2>3, <2>4, <2>5, <2>6, <2>7
<1>2. IInv /\ [Next]_vars => [A]_vars
  BY <1>1
<1> QED BY <1>2, Invariance, PTL DEF Spec, RollsBack

(* Only the watcher takes the lock for a watcher event. *)
LEMMA WatchBegins ==
    ASSUME IInv, [Next]_vars, op = None, op' # None, op'.kind = "watch"
    PROVE  \E d \in {file, watcher} : WatcherApplies(d)
<1>1. CASE Ask
  <2>1. ASSUME NEW k \in SectionWriter, NEW v \in Value, BeginSection(k, v) PROVE FALSE
    BY <2>1 DEF BeginSection, Begin, SectionWriter
  <2>2. ASSUME NEW d \in Document, BeginWizard(d) PROVE FALSE
    BY <2>2 DEF BeginWizard, Begin
  <2> QED BY <1>1, <2>1, <2>2 DEF Ask, Edit, ReadEarly
<1>2. CASE Watch
  BY <1>2 DEF Watch, WatcherReads, WatcherReadFails, WatcherSkips, WatcherRejects
<1>3. CASE ApplyStep \/ Cancel
  BY <1>3 DEF ApplyStep, ApplyUpstream, ApplyFilter, ReloadFails, ApplyHooks, RebindFails, Store,
              Save, SaveFails, Cancel
<1>4. CASE Background
  BY <1>4 DEF Background, OrphanRename, BindListeners, InstallListeners, RefreshStarts, RefreshEnds,
              RefreshFails
<1>5. CASE UNCHANGED vars
  BY <1>5 DEF vars
<1>6. ASSUME NEW c \in Client, BeginEarly(c) PROVE FALSE
  <2>1. req[c] \in Request
    BY <1>6 DEF BeginEarly, IInv, TypeOK
  <2>2. op'.kind = req[c].kind
    BY <1>6 DEF BeginEarly, Begin
  <2> QED BY <2>1, <2>2 DEF Request, EarlyReader
<1>7. ASSUME NEW c \in Client, RefuseEarly(c) PROVE FALSE
  BY <1>7 DEF RefuseEarly
<1> QED BY <1>1, <1>2, <1>3, <1>4, <1>5, <1>6, <1>7 DEF Next

(* A watcher event that leads to an apply found file and runtime different  *)
(* under the lock, or could not read the file again: the event of an older  *)
(* push is dropped once a newer one is in both.                             *)
THEOREM StaleEventsDropped == Spec => EventsNeverRegress
<1> DEFINE A == op = None /\ op' # None /\ op'.kind = "watch" => file # runtime \/ faults' # faults
<1>1. ASSUME IInv, [Next]_vars PROVE A
  <2> SUFFICES ASSUME op = None, op' # None, op'.kind = "watch"
               PROVE  file # runtime \/ faults' # faults
    OBVIOUS
  <2>1. PICK d \in {file, watcher} : WatcherApplies(d)
    BY <1>1, WatchBegins
  <2>2. CASE d = file
    BY <2>1, <2>2 DEF WatcherApplies
  <2>3. CASE d # file
    BY <1>1, <2>1, <2>3 DEF WatcherApplies, EventDocument, CountFault, IInv, TypeOK
  <2> QED BY <2>2, <2>3
<1>2. IInv /\ [Next]_vars => [A]_vars
  BY <1>1
<1> QED BY <1>2, Invariance, PTL DEF Spec, EventsNeverRegress

=============================================================================

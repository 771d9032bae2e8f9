----------------------------- MODULE ConfigApply -----------------------------
(***************************************************************************)
(* How a configuration document becomes the running configuration.         *)
(*                                                                         *)
(*   crates/sito-api/src/config_apply.rs   validate, apply, roll back,     *)
(*                                         persist, file-watcher events    *)
(*   crates/sito-api/src/config_writer.rs  temporary file and rename       *)
(*   crates/sito-api/src/handlers, ui      the requests that write         *)
(*   crates/sito/src/server.rs             apply hooks, file watcher,      *)
(*                                         DNS listener rebinding          *)
(*                                                                         *)
(* A document is a value per section.  Four sections configure a live      *)
(* component that keeps its own copy; the runtime snapshot holds the whole *)
(* document.  An apply changes the components one after another and the    *)
(* snapshot last, so failures, cancelled requests and other tasks fall     *)
(* between any two of its steps.                                           *)
(***************************************************************************)
EXTENDS Naturals

CONSTANTS
    Value,        \* what one section may hold
    Document,     \* documents a whole-file write may bring
    First,        \* the value every section holds at start
    Client,       \* requests that read before they take the apply lock
    MaxRequests,  \* bound: writes and edits in a behaviour
    MaxFaults,    \* bound: failing steps and cancelled requests
    Booted,       \* BOOLEAN: the DNS listeners run in the first state
    Drops,        \* BOOLEAN: peers may leave while their request runs
    None          \* Rust's Option::None

(* "up": [upstream]; "flt": [filtering]; "hk": what the hooks apply without *)
(* rebinding ([clients] groups, DNSSEC, rate limits, log level); "plan":    *)
(* the ListenerPlan fields; "hot": what is read through the snapshot        *)
(* (rewrites, privacy, statistics, cache); "cold": what is read at process  *)
(* start only, most of it local to the node.                                *)
Section == {"up", "flt", "hk", "plan", "hot", "cold"}
Component == {"up", "flt", "hk", "plan"}
Doc == [Section -> Value]

(* Requests that take the apply lock before they read the configuration,    *)
(* with the section each changes.                                           *)
SectionWriter == {"filtering", "upstream", "clients", "settings", "rewrites"}
SectionOf(k) ==
    CASE k = "filtering" -> "flt"
      [] k = "upstream"  -> "up"
      [] k = "clients"   -> "hk"
      [] k = "settings"  -> "hk"
      [] k = "rewrites"  -> "hot"
(* Requests that read the file or the runtime first and lock afterwards. *)
EarlyReader == {"put", "restore", "reload", "push"}
Kind == SectionWriter \cup EarlyReader \cup {"wizard", "watch"}

(* Mutant: the filtering routes defer the list reload. *)
Sync_FilteringDeferred(k) == k \notin {"filtering", "upstream", "clients", "rewrites", "wizard"}

(* FilterApply::Sync, hooks: Some, and whether the apply persists. *)
Sync(k) == k \notin {"upstream", "clients", "rewrites", "wizard"}
Hooked(k) == k \notin {"filtering", "rewrites"}
Persists(k) == k \notin {"watch", "reload"}
(* Requests served by axum: their future is dropped when the peer leaves. *)
Cancellable(k) == k \notin {"watch", "push"}

Request == [kind : EarlyReader, doc : Doc]
Op == [kind : Kind,
       mode : {"apply", "undo", "revert", "redo"},
       step : {"up", "flt", "hooks", "store", "save"},
       target : Doc,
       prev : Doc,
       sync : BOOLEAN]
Lag == Component \cup {"file"}

ASSUME ConstantsAssumption ==
    /\ First \in Value
    /\ Document \subseteq Doc
    /\ MaxRequests \in Nat
    /\ MaxFaults \in Nat
    /\ Booted \in BOOLEAN
    /\ Drops \in BOOLEAN
    /\ None \notin Value \cup Doc \cup Request \cup Op

VARIABLES
    file,      \* config.toml
    runtime,   \* the runtime snapshot, ctx.config
    comp,      \* the section value each live component works with
    listener,  \* the listener slot: empty, being bound, serving or dead
    event,     \* the watcher's channel holds a notification
    watcher,   \* the document the watcher read, until it has the lock
    req,       \* what each early reader read, until it has the lock
    op,        \* the apply in progress; holding it is holding apply_lock
    orphan,    \* a rename left behind by a cancelled request
    refresh,   \* filter section of a list reload outside the lock
    failed,    \* history: what a failure that was logged left behind
    loose,     \* history: what was left behind without a trace
    requests, faults

history == <<failed, loose>>
vars == <<file, runtime, comp, listener, event, watcher, req, op, orphan,
          refresh, history, requests, faults>>

TypeOK ==
    /\ file \in Doc
    /\ runtime \in Doc
    /\ comp \in [Component -> Value]
    /\ listener \in {"empty", "binding", "serving", "dead"}
    /\ event \in BOOLEAN
    /\ watcher \in Doc \cup {None}
    /\ req \in [Client -> Request \cup {None}]
    /\ op \in Op \cup {None}
    /\ orphan \in Doc \cup {None}
    /\ refresh \in Value \cup {None}
    /\ failed \subseteq Lag /\ loose \subseteq Lag
    /\ requests \in Nat
    /\ faults \in Nat

Init ==
    /\ file = [s \in Section |-> First]
    /\ runtime = file
    /\ comp = [c \in Component |-> First]
    /\ listener = IF Booted THEN "serving" ELSE "empty"
    /\ event = FALSE
    /\ watcher = None
    /\ req = [c \in Client |-> None]
    /\ op = None
    /\ orphan = None
    /\ refresh = None
    /\ failed = {} /\ loose = {}
    /\ requests = 0
    /\ faults = 0

CountRequest == requests < MaxRequests /\ requests' = requests + 1
CountFault == faults < MaxFaults /\ faults' = faults + 1

(* What is decided about the file holds for what it holds now, unless a     *)
(* change of it is still to be read.                                        *)
Current == {x \in {"file"} : ~event}

-----------------------------------------------------------------------------
(* Requests, up to the apply lock *)

(* The file has a new content; nothing is known of it yet. *)
Written(d) ==
    /\ file' = d
    /\ event' = TRUE
    /\ failed' = failed \ {"file"} /\ loose' = loose \ {"file"}

(* An operator, or a deployment tool, replaces config.toml. *)
Edit(d) ==
    /\ d # file
    /\ CountRequest
    /\ Written(d)
    /\ UNCHANGED <<runtime, comp, listener, watcher, req, op, orphan, refresh, faults>>

(* Mutant: a reload keeps only the sections that have a component. *)
EarlyRead_DropsRest(k, d) ==
    CASE k = "reload"  -> {[c \in Component |-> file[c]]}
      [] k # "reload"  -> {d}

(* A PUT takes the secrets its document masks from the file. *)
Unmasked(d) ==
    {[s \in Section |-> IF s \in masked THEN file[s] ELSE d[s]] :
        masked \in SUBSET {"hk", "cold"}}

(* An HA push takes what is local to the node from the live configuration:  *)
(* all of the restart-only fields but a few shared ones, and of the         *)
(* listener plan the addresses and TLS identity.                            *)
PersistedConfig(d) ==
    {[s \in Section |-> IF s \in local THEN runtime[s] ELSE d[s]] :
        local \in SUBSET {"plan", "cold"}}

(* What an early reader may come to hold for a document d. *)
EarlyRead(k, d) ==
    CASE k = "put"     -> Unmasked(d)
      [] k = "restore" -> {d}
      [] k = "reload"  -> {file}
      [] k = "push"    -> PersistedConfig(d)

ReadEarly(c, k, d) ==
    /\ req[c] = None
    /\ CountRequest
    /\ \E e \in EarlyRead(k, d) : req' = [req EXCEPT ![c] = [kind |-> k, doc |-> e]]
    /\ UNCHANGED <<file, runtime, comp, listener, event, watcher, op, orphan, refresh, history, faults>>

(* apply_full_config_locked starts: the lock is held, the rollback target   *)
(* is the configuration that runs now.                                      *)
Begin(k, d) ==
    /\ op = None
    /\ op' = [kind |-> k, mode |-> "apply", step |-> "up", target |-> d, prev |-> runtime,
              sync |-> Sync(k)]

(* A push that changes a restart-only field is refused under the lock. *)
RestartOnly(r) == r.kind = "push" /\ r.doc["cold"] # runtime["cold"]

BeginEarly(c) ==
    /\ req[c] # None
    /\ ~RestartOnly(req[c])
    /\ Begin(req[c].kind, req[c].doc)
    /\ req' = [req EXCEPT ![c] = None]
    /\ UNCHANGED <<file, runtime, comp, listener, event, watcher, orphan, refresh, history, requests, faults>>

(* Parsing or deep validation fails before anything is touched. *)
RefuseEarly(c) ==
    /\ op = None
    /\ req[c] # None
    /\ req' = [req EXCEPT ![c] = None]
    /\ UNCHANGED <<file, runtime, comp, listener, event, watcher, op, orphan, refresh, history, requests, faults>>

(* Mutant: the section is edited in the document read from the file. *)
BeginSection_FromFile(k, v) ==
    /\ CountRequest
    /\ Begin(k, [file EXCEPT ![SectionOf(k)] = v])
    /\ UNCHANGED <<file, runtime, comp, listener, event, watcher, req, orphan, refresh, history, faults>>

(* A request that locks first and then edits its section of the runtime. *)
BeginSection(k, v) ==
    /\ CountRequest
    /\ Begin(k, [runtime EXCEPT ![SectionOf(k)] = v])
    /\ UNCHANGED <<file, runtime, comp, listener, event, watcher, req, orphan, refresh, history, faults>>

(* The setup wizard rewrites most sections; its list download is queued.    *)
(* Bound: one list reload outside the lock at a time.                       *)
BeginWizard(d) ==
    /\ refresh = None
    /\ CountRequest
    /\ Begin("wizard", d)
    /\ UNCHANGED <<file, runtime, comp, listener, event, watcher, req, orphan, refresh, history, faults>>

-----------------------------------------------------------------------------
(* The file watcher *)

WatcherIdle == watcher = None /\ (op # None => op.kind # "watch")

(* Events are debounced into one; the file is read without the lock. *)
WatcherReads ==
    /\ WatcherIdle /\ event
    /\ event' = FALSE
    /\ watcher' = file
    /\ UNCHANGED <<file, runtime, comp, listener, req, op, orphan, refresh, history, requests, faults>>

WatcherReadFails ==
    /\ WatcherIdle /\ event
    /\ CountFault
    /\ event' = FALSE
    /\ failed' = failed \cup {"file"}
    /\ UNCHANGED <<file, runtime, comp, listener, watcher, req, op, orphan, refresh, loose, requests>>

(* Mutant: the document read with the event is applied. *)
EventDocument_NoReread(d) == d = watcher /\ UNCHANGED faults

(* The document an event leads to: the file as it is under the lock, or,    *)
(* when it cannot be read again, the one read before.                       *)
EventDocument(d) ==
    \/ d = file /\ UNCHANGED faults
    \/ d = watcher /\ d # file /\ CountFault

(* Mutant: an event is taken for a self-write whatever the file holds. *)
WatcherSkips_Anything ==
    /\ op = None /\ watcher # None
    /\ watcher' = None
    /\ UNCHANGED <<file, runtime, comp, listener, event, req, op, orphan, refresh, history, requests, faults>>

(* apply_config_document_event: a document equal to the runtime is skipped. *)
WatcherSkips ==
    /\ op = None /\ watcher # None
    /\ EventDocument(runtime)
    /\ watcher' = None
    /\ UNCHANGED <<file, runtime, comp, listener, event, req, op, orphan, refresh, history, requests>>

WatcherApplies(d) ==
    /\ watcher # None /\ d # runtime
    /\ EventDocument(d)
    /\ Begin("watch", d)
    /\ watcher' = None
    /\ UNCHANGED <<file, runtime, comp, listener, event, req, orphan, refresh, history, requests>>

(* The document does not parse or validate; the runtime stays by design. *)
WatcherRejects ==
    /\ op = None /\ watcher # None
    /\ CountFault
    /\ watcher' = None
    /\ failed' = failed \cup Current
    /\ UNCHANGED <<file, runtime, comp, listener, event, req, op, orphan, refresh, loose, requests>>

-----------------------------------------------------------------------------
(* apply_inner, one component after another *)

After(s) ==
    IF s = "up" /\ op.sync THEN "flt"
    ELSE IF s \in {"up", "flt"} /\ Hooked(op.kind) THEN "hooks"
    ELSE "store"

(* Components that do not work with the value the snapshot names; before   *)
(* the first listener generation is installed there is no plan to follow.   *)
Behind(holds, sockets) ==
    {c \in Component : holds[c] # runtime[c] /\ (c = "plan" => sockets = "serving")}
        \cup {c \in {"plan"} : sockets = "dead"}

(* An apply that reached these components made up for what they missed. *)
Reached(cs) == failed' = failed \ cs /\ loose' = loose \ cs

(* A step of apply_inner fails.  A failed apply goes back to the previous   *)
(* configuration; a failed rollback after a persist error re-applies the    *)
(* candidate; a rollback that fails itself is logged and leaves the         *)
(* components as they are.                                                  *)
StepFails ==
    \/ /\ op.mode = "apply"
       /\ op' = [op EXCEPT !.mode = "undo", !.step = "up", !.target = op.prev, !.sync = TRUE]
       /\ UNCHANGED failed
    \/ /\ op.mode = "revert"
       /\ op' = [op EXCEPT !.mode = "redo", !.step = "up", !.target = runtime]
       /\ UNCHANGED failed
    \/ /\ op.mode \in {"undo", "redo"}
       /\ op' = None
       /\ failed' = failed \cup Behind(comp', listener')
                           \cup {x \in Current : op.mode = "redo" \/ op.kind = "watch"}

ApplyUpstream ==
    /\ op # None /\ op.step = "up"
    /\ comp' = [comp EXCEPT !["up"] = op.target["up"]]
    /\ op' = [op EXCEPT !.step = After("up")]
    /\ Reached({"up"})
    /\ UNCHANGED <<file, runtime, listener, event, watcher, req, orphan, refresh, requests, faults>>

(* reload_with_config; the answers cached under the old rules are flushed. *)
ApplyFilter ==
    /\ op # None /\ op.step = "flt"
    /\ comp' = [comp EXCEPT !["flt"] = op.target["flt"]]
    /\ op' = [op EXCEPT !.step = After("flt")]
    /\ Reached({"flt"})
    /\ UNCHANGED <<file, runtime, listener, event, watcher, req, orphan, refresh, requests, faults>>

(* Neither reload changes anything when it fails. *)
ReloadFails ==
    /\ op # None /\ op.step \in {"up", "flt"}
    /\ CountFault
    /\ UNCHANGED <<comp, listener>>
    /\ StepFails
    /\ UNCHANGED <<file, runtime, event, watcher, req, orphan, refresh, loose, requests>>

(* needs_restart: the slot holds a manager built for another plan. *)
Rebinds == listener \in {"serving", "dead"} /\ comp["plan"] # op.target["plan"]

(* ServerApplyHooks::apply.  The manager keeps the new plan once it bound. *)
ApplyHooks ==
    /\ op # None /\ op.step = "hooks"
    /\ comp' = [comp EXCEPT !["hk"] = op.target["hk"],
                            !["plan"] = IF Rebinds THEN op.target["plan"] ELSE @]
    /\ listener' = IF Rebinds THEN "serving" ELSE listener
    /\ op' = [op EXCEPT !.step = After("hooks")]
    /\ Reached({"hk"} \cup {c \in {"plan"} : listener' = "serving"})
    /\ UNCHANGED <<file, runtime, event, watcher, req, orphan, refresh, requests, faults>>

(* DnsListenerManager::restart fails: the old bindings come back, or fail   *)
(* to come back too.  Either way the manager keeps the old plan.            *)
RebindFails ==
    /\ op # None /\ op.step = "hooks" /\ Rebinds
    /\ CountFault
    /\ comp' = [comp EXCEPT !["hk"] = op.target["hk"]]
    /\ listener' \in {"serving", "dead"}
    /\ StepFails
    /\ UNCHANGED <<file, runtime, event, watcher, req, orphan, refresh, loose, requests>>

Touched == {"up"} \cup {c \in {"flt"} : op.sync} \cup {c \in {"hk", "plan"} : Hooked(op.kind)}

(* What the new snapshot leaves behind with a word in the log: the content  *)
(* of the file that was refused, or that a failed rollback contradicts, and *)
(* listeners that came back from no rebind.                                 *)
FailedAtStore ==
    {x \in Current : op.mode = "redo" \/ (op.mode = "undo" /\ op.kind = "watch")}
        \cup {c \in {"plan"} : listener = "dead"}

(* ... and silently: the lists a deferred reload has yet to fetch, and the  *)
(* file when a reload applied what it had held before.                      *)
LooseAtStore ==
    {c \in {"flt"} : op.kind = "wizard" /\ ~op.sync /\ comp[c] # op.target[c]}
        \cup {x \in Current : op.mode = "apply" /\ op.kind = "reload" /\ op.target # file}

(* The snapshot is replaced; the apply ends unless a persist follows. *)
Store ==
    /\ op # None /\ op.step = "store"
    /\ runtime' = op.target
    /\ LET level == {x \in {"file"} : op.mode = "apply" /\ ~Persists(op.kind) /\ op.target = file}
       IN  /\ failed' = (failed \ level) \cup FailedAtStore
           /\ loose' = (loose \ level) \cup LooseAtStore
    /\ op' = IF op.mode = "apply" /\ Persists(op.kind) THEN [op EXCEPT !.step = "save"] ELSE None
    /\ UNCHANGED <<file, comp, listener, event, watcher, req, orphan, refresh, requests, faults>>

(* Mutant: the persist step takes the apply lock once more. *)
Save_LocksAgain ==
    /\ op # None /\ op.step = "save" /\ op = None
    /\ op' = None
    /\ UNCHANGED <<file, runtime, comp, listener, event, watcher, req, orphan, refresh, history, requests, faults>>

(* save_config_document_atomic succeeds: the rename is visible to the       *)
(* watcher.  The wizard then queues its list download, unless removing the  *)
(* bootstrap account fails and setup stays pending.                         *)
Save ==
    /\ op # None /\ op.step = "save"
    /\ Written(op.target)
    /\ \/ UNCHANGED refresh
       \/ op.kind = "wizard" /\ refresh' = op.target["flt"]
    /\ op' = None
    /\ UNCHANGED <<runtime, comp, listener, watcher, req, orphan, requests, faults>>

(* Mutant: the in-memory apply stays. *)
SaveFails_Keeps ==
    /\ op # None /\ op.step = "save"
    /\ CountFault
    /\ op' = None
    /\ UNCHANGED <<file, runtime, comp, listener, event, watcher, req, orphan, refresh, history, requests>>

(* Mutant: the rollback goes to what the file holds. *)
SaveFails_ToFile ==
    /\ op # None /\ op.step = "save"
    /\ CountFault
    /\ op' = [op EXCEPT !.mode = "revert", !.step = "up", !.target = file, !.sync = TRUE]
    /\ UNCHANGED <<file, runtime, comp, listener, event, watcher, req, orphan, refresh, history, requests>>

(* The write fails: the in-memory apply is rolled back. *)
SaveFails ==
    /\ op # None /\ op.step = "save"
    /\ CountFault
    /\ op' = [op EXCEPT !.mode = "revert", !.step = "up", !.target = op.prev, !.sync = TRUE]
    /\ UNCHANGED <<file, runtime, comp, listener, event, watcher, req, orphan, refresh, history, requests>>

-----------------------------------------------------------------------------
(* A peer that leaves drops the request at an await, and with it the lock.  *)
(* Nothing is rolled back.  A rename already handed to the blocking pool    *)
(* still happens; a rebind stops between its stop and its start.            *)
Cancel ==
    /\ Drops
    /\ op # None /\ Cancellable(op.kind)
    /\ CountFault
    /\ op' = None
    /\ \/ UNCHANGED <<orphan, comp, listener>>
       \/ /\ op.step = "save" /\ orphan = None
          /\ orphan' = op.target
          /\ UNCHANGED <<comp, listener>>
       \/ /\ op.step = "hooks" /\ Rebinds
          /\ listener' = "dead"
          /\ comp' = [comp EXCEPT !["hk"] = op.target["hk"]]
          /\ UNCHANGED orphan
    /\ loose' = loose \cup Behind(comp', listener') \cup {x \in Current : file # runtime}
    /\ UNCHANGED <<file, runtime, event, watcher, req, refresh, failed, requests>>

OrphanRename ==
    /\ orphan # None
    /\ Written(orphan)
    /\ orphan' = None
    /\ UNCHANGED <<runtime, comp, listener, watcher, req, op, refresh, requests, faults>>

-----------------------------------------------------------------------------
(* Tasks outside the apply lock *)

(* The listener generation is started from the snapshot as it is now. *)
BindListeners ==
    /\ listener = "empty"
    /\ listener' = "binding"
    /\ comp' = [comp EXCEPT !["plan"] = runtime["plan"]]
    /\ UNCHANGED <<file, runtime, event, watcher, req, op, orphan, refresh, history, requests, faults>>

(* It enters the slot once bound.  An apply in between found no manager to  *)
(* rebind.                                                                  *)
InstallListeners ==
    /\ listener = "binding"
    /\ listener' = "serving"
    /\ loose' = loose \cup {c \in {"plan"} : \/ comp[c] # runtime[c]
                                             \/ op # None /\ op.step = "store" /\ comp[c] # op.target[c]}
    /\ UNCHANGED <<file, runtime, comp, event, watcher, req, op, orphan, refresh, failed, requests, faults>>

(* A list reload that takes no apply lock: the refresh routes read the      *)
(* snapshot, the scheduled refresh the engine's own copy, and both then     *)
(* wait for the reload lock and for the downloads.                          *)
RefreshStarts(v) ==
    /\ refresh = None
    /\ op # None => op.kind # "wizard"
    /\ CountRequest
    /\ refresh' = v
    /\ UNCHANGED <<file, runtime, comp, listener, event, watcher, req, op, orphan, history, faults>>

(* It ends, the wizard's queued one included: the engine works with the     *)
(* lists that were asked for, whatever the configuration has become.        *)
RefreshEnds ==
    LET due == IF op # None THEN op.target["flt"] ELSE runtime["flt"]
    IN  /\ refresh # None
        /\ comp' = [comp EXCEPT !["flt"] = refresh]
        /\ IF refresh = due
           THEN Reached({"flt"})
           ELSE loose' = loose \cup {"flt"} /\ UNCHANGED failed
        /\ refresh' = None
        /\ UNCHANGED <<file, runtime, listener, event, watcher, req, op, orphan, requests, faults>>

(* A download fails, the drop guard refuses the lists, or the peer leaves. *)
RefreshFails ==
    /\ refresh # None
    /\ CountFault
    /\ refresh' = None
    /\ UNCHANGED <<file, runtime, comp, listener, event, watcher, req, op, orphan, history, requests>>

-----------------------------------------------------------------------------
Ask ==
    \/ \E s \in Section, v \in Value : Edit([file EXCEPT ![s] = v])
    \/ \E c \in Client, k \in EarlyReader, d \in Document : ReadEarly(c, k, d)
    \/ \E k \in SectionWriter, v \in Value : BeginSection(k, v)
    \/ \E d \in Document : BeginWizard(d)

Watch ==
    \/ WatcherReads
    \/ WatcherReadFails
    \/ WatcherSkips
    \/ \E d \in {file, watcher} : WatcherApplies(d)
    \/ WatcherRejects

ApplyStep ==
    \/ ApplyUpstream
    \/ ApplyFilter
    \/ ReloadFails
    \/ ApplyHooks
    \/ RebindFails
    \/ Store
    \/ Save
    \/ SaveFails

Background ==
    \/ OrphanRename
    \/ BindListeners
    \/ InstallListeners
    \/ \E v \in {runtime["flt"], comp["flt"]} : RefreshStarts(v)
    \/ RefreshEnds
    \/ RefreshFails

Next ==
    \/ Ask
    \/ \E c \in Client : BeginEarly(c) \/ RefuseEarly(c)
    \/ Watch
    \/ ApplyStep
    \/ Cancel
    \/ Background

Spec == Init /\ [][Next]_vars

(* Tasks that hold the lock keep running; the watcher is a task of its own  *)
(* and tokio's mutex serves its waiters in order.                           *)
Fairness ==
    /\ WF_vars(ApplyStep)
    /\ WF_vars(WatcherReads \/ WatcherReadFails)
    /\ SF_vars(WatcherSkips \/ WatcherRejects \/ \E d \in {file, watcher} : WatcherApplies(d))

FairSpec == Spec /\ Fairness

-----------------------------------------------------------------------------
(* Properties *)

(* Whenever no apply is running, every live component works with the        *)
(* section the snapshot names, the listeners included once they are         *)
(* installed.  The exceptions are the ones the two histories record: a      *)
(* rollback or a listener revert that failed as well (`failed`), a dropped  *)
(* request, a list reload outside the lock that ended under another         *)
(* configuration, the wizard's queued lists, a first listener generation    *)
(* overtaken by an apply (`loose`).  The next apply that reaches the        *)
(* component ends either one.                                               *)
ComponentsAgree ==
    op = None =>
        \A c \in Component \ (failed \cup loose) :
            \/ comp[c] = runtime[c] /\ (c = "plan" => listener # "dead")
            \/ c = "plan" /\ listener \in {"empty", "binding"}

(* Whenever nothing is under way, config.toml is the running configuration  *)
(* unless its present content was refused, a rollback failed (`failed`), or *)
(* a request was dropped or a reload applied an older content (`loose`):    *)
(* "the file and the runtime never diverge silently" (config_apply.rs:16).  *)
FileAgrees ==
    op = None /\ ~event /\ watcher = None /\ "file" \notin failed \cup loose => file = runtime

(* A request that edits one section under the lock never takes another      *)
(* section back to an older value.                                          *)
NoLostUpdate ==
    [][ op # None /\ op.kind \in SectionWriter /\ op.mode = "apply" /\ runtime' # runtime
        => \A s \in Section \ {SectionOf(op.kind)} : runtime'[s] = runtime[s] ]_vars

(* An apply or persist that fails and is rolled back leaves snapshot and    *)
(* file as it found them, and every component it touched, the listener plan *)
(* included, at the value it had.  Two things can undo that of the very     *)
(* rollback: a list reload outside the lock that ends after it, and a first *)
(* listener generation installed after it; what was loose before does not   *)
(* count, since the rollback reached it.  The sockets of a plan whose       *)
(* rebind and revert both failed stay closed (LaterEventRebinds).           *)
RollsBack ==
    [][ Store /\ op.mode \in {"undo", "revert"}
        => /\ runtime' = op.prev
           /\ file' = file
           /\ \A c \in Touched :
                  \/ comp'[c] = op.prev[c]
                  \/ c = "flt" /\ c \in loose
                  \/ c = "plan" /\ (c \in loose \/ listener \in {"empty", "binding"}) ]_vars

(* config_apply.rs:396: "An event for push A can be delivered after push B  *)
(* has already written and applied; applying the stale A document would     *)
(* regress the runtime".  An event leads to an apply only when file and     *)
(* runtime differ under the lock, or the file cannot be read again.         *)
EventsNeverRegress ==
    [][ op = None /\ op' # None /\ op'.kind = "watch"
        => file # runtime \/ faults' # faults ]_vars

(* An apply always ends: the lock is not held forever, whatever fails.      *)
LockReleased == op # None ~> op = None

(* What config.toml holds once it changed reaches the runtime, or the log   *)
(* says that this content was refused.  A content that an admin request     *)
(* replaces before the watcher applied it is gone, and is not claimed to    *)
(* arrive.                                                                  *)
EditsArrive == event ~> (file = runtime \/ "file" \in failed)

(* config_apply.rs:216: "an older document that was already read from disk  *)
(* cannot overwrite the runtime after a newer push acquired the lock        *)
(* first".                                                                  *)
NoOlderDocument ==
    [][ op # None /\ op.kind = "reload" /\ op.mode = "apply" /\ runtime' # runtime
        => runtime # file \/ runtime' = file ]_vars

(* server.rs:1772: "even when the new bind *and* the revert fail, an empty  *)
(* manager stays in the slot so a later config event can attempt a rebind   *)
(* instead of leaving the server permanently orphaned".  After a later      *)
(* event was applied with the hooks, the listeners serve.                   *)
LaterEventRebinds ==
    [][ Store /\ op.mode = "apply" /\ Hooked(op.kind) => listener # "dead" ]_vars

=============================================================================

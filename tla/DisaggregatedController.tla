----------------------- MODULE DisaggregatedController -----------------------
(***************************************************************************)
(* The ArksDisaggregatedApplication controller                             *)
(* (arksdisaggregatedapplication_controller.go) and one application.       *)
(* Reconcile takes the application from the informer cache, checks it,     *)
(* waits for its ArksModel, creates two LeaderWorkerSets (prefill and      *)
(* decode), a router Deployment with the RBAC objects it needs and a       *)
(* service, and then copies the counts of the three workloads to the       *)
(* status and scales them to what the spec asks for.  Workloads and        *)
(* service are read from the API server itself.                            *)
(*                                                                         *)
(* The application is queued when it or one of its workloads changes, and  *)
(* after an error.  Reconcile drops every other wish of reconcile to be    *)
(* called again.  Of the spec only the replica counts are edited.          *)
(***************************************************************************)
EXTENDS Integers, SequencesExt

CONSTANTS
  Named,      \* whether the spec names a service account for the router
  Wants,      \* the replica counts that a spec may ask for, by workload
  MaxFaults,  \* bound: API calls that fail, and restarts of the operator
  MaxLag,     \* bound: versions the cache may be behind
  MaxChanges, \* bound: edits, objects deleted, workloads becoming unready
  Varying     \* bound: the workloads whose replicas become ready

Workloads == {"prefill", "decode", "router"}

Unset == -1   \* a replica count that the spec leaves out
Missing == -2 \* in place of its replica count: a workload that does not exist

ASSUME DisaggregatedAssumption ==
  /\ Wants \subseteq [Workloads -> Nat \cup {Unset}]
  /\ Wants # {} /\ Named \in BOOLEAN /\ Varying \subseteq Workloads
  /\ MaxFaults \in Nat /\ MaxLag \in Nat /\ MaxChanges \in Nat

VARIABLES
  valid,      \* whether the runtime is SGLang and the volumes are allowed
  log,        \* the versions of the application from the one in the cache to
              \*   the latest one
  queued,     \* whether the application is in the work queue
  pc,         \* the next API call of the Reconcile that is running
  obj,        \* the copy of the application it works on
  stale,      \* whether obj was made from a version that is not the latest
  failed,     \* whether reconcile returned an error
  model,      \* the phase of the ArksModel in the cache; "absent" if none
  size,       \* the replicas that each workload is to have
  up,         \* the workloads whose replicas are all ready
  service,    \* whether the router service exists
  rbac,       \* the RBAC objects of the router that exist
  ignored,    \* history: what Reconcile left as it was because a call failed,
              \*   without returning the error
  past,       \* history: "Ready" and "noModel" for what the model has been,
              \*   "lost", "serviceLost" and "rbacFailed" for what has happened
  faults, changes   \* for the bounds

running == <<pc, obj, stale, failed>>
cluster == <<size, up, service, rbac>>
history == <<ignored, past>>
bounds == <<faults, changes>>
vars == <<valid, log, queued, running, model, cluster, history, bounds>>

Phases ==
  {"", "Pending", "Checking", "Loading", "Creating", "Running", "Failed"}

RBACObjects == {"role", "account", "binding"}

\* What the controller reads and writes of an application: metadata, the counts
\* of the spec, phase, the conditions Precheck, Loaded and Ready, and the
\* workloads that the status reports as ready.
Application ==
  [gone : BOOLEAN, deleting : BOOLEAN, finalizer : BOOLEAN, want : Wants,
   phase : Phases, precheck : BOOLEAN, loaded : BOOLEAN, ready : BOOLEAN,
   up : SUBSET Workloads]

NewApplication(w) ==
  [gone |-> FALSE, deleting |-> FALSE, finalizer |-> FALSE, want |-> w,
   phase |-> "", precheck |-> FALSE, loaded |-> FALSE, ready |-> FALSE,
   up |-> {}]

Latest == Last(log)
Cached == Head(log)

Nothing == NewApplication(CHOOSE w \in Wants : TRUE)

Init ==
  /\ valid \in BOOLEAN
  /\ \E w \in Wants : log = <<NewApplication(w)>>
  /\ queued = TRUE
  /\ pc = "idle" /\ obj = Nothing /\ stale = FALSE /\ failed = FALSE
  /\ model \in {"absent", "Loading"}
  /\ size = [c \in Workloads |-> Missing] /\ up = {}
  /\ service = FALSE /\ rbac = {}
  /\ ignored = {} /\ past = IF model = "absent" THEN {"noModel"} ELSE {}
  /\ faults = 0 /\ changes = 0

-----------------------------------------------------------------------------
\* The API server stores a version, unless nothing has changed.
Store(a) ==
  /\ Len(log) <= MaxLag
  /\ log' = IF a = Latest THEN log ELSE Append(log, a)

\* reconcile goes on with copy a at the given call.
Goto(call, a) == pc' = call /\ obj' = a /\ UNCHANGED <<stale, failed>>

\* reconcile returns; Reconcile updates the status before it looks at the error.
Return(a, err) ==
  /\ pc' = "status"
  /\ obj' = a
  /\ failed' = err
  /\ UNCHANGED stale

\* Reconcile returns; only an error has the application queued again.
Finish(err) ==
  /\ pc' = "idle"
  /\ obj' = Nothing
  /\ stale' = FALSE /\ failed' = FALSE
  /\ queued' = (queued \/ err)

Fault == faults < MaxFaults /\ faults' = faults + 1

-----------------------------------------------------------------------------
\* Where Reconcile starts: with remove for an application being deleted, and
\* with nothing but the status update for one that has failed.
FirstCall(a) ==
  IF a.deleting THEN "deleteService"
  ELSE IF a.phase = "Failed" THEN "status"
  ELSE IF a.finalizer THEN "model" ELSE "addFinalizer"

\* The phase of an application is Pending as soon as reconcile has seen it.
GetApplication ==
  /\ pc = "idle" /\ queued
  /\ queued' = FALSE
  /\ IF Cached.gone
       THEN UNCHANGED running
       ELSE /\ pc' = FirstCall(Cached)
            /\ obj' = IF Cached.phase = "" /\ ~Cached.deleting
                        THEN [Cached EXCEPT !.phase = "Pending"] ELSE Cached
            /\ stale' = (Len(log) > 1)
            /\ failed' = FALSE
  /\ UNCHANGED <<valid, log, model, cluster, history, bounds>>

\* The update of the finalizer does not take the status along; the copy keeps
\* its phase, for the status update that follows.  The requeue that reconcile
\* asks for is dropped, but the new version queues the application.
AddFinalizer ==
  /\ pc = "addFinalizer"
  /\ IF stale
       THEN UNCHANGED log
       ELSE Store([obj EXCEPT !.finalizer = TRUE, !.phase = Latest.phase])
  /\ Return([obj EXCEPT !.finalizer = ~stale], stale)
  /\ UNCHANGED <<valid, queued, model, cluster, history, bounds>>

\* What follows the check for the model: once it has been Ready the workloads
\* are created.  While it loads reconcile asks to be called again in three
\* seconds, which Reconcile drops.
WaitForModel(a) ==
  \/ /\ a.loaded
     /\ Goto(IF a.ready THEN "syncPrefill" ELSE "prefill", a)
  \/ /\ ~a.loaded /\ model = "Ready"
     /\ Goto(IF a.ready THEN "syncPrefill" ELSE "prefill",
             [a EXCEPT !.phase = "Loading", !.loaded = TRUE])
  \/ /\ ~a.loaded /\ model = "Failed"
     /\ Return([a EXCEPT !.phase = "Failed"], FALSE)
  \/ /\ ~a.loaded /\ model = "Loading"
     /\ Return([a EXCEPT !.phase = "Loading"], FALSE)

\* The pre-checks, and the ArksModel from the cache.  An application that does
\* not pass, or whose model does not exist or has failed, fails for good.
CheckModel ==
  /\ pc = "model"
  /\ LET a == IF obj.precheck THEN obj
                              ELSE [obj EXCEPT !.phase = "Checking",
                                               !.precheck = valid]
     IN  \/ /\ ~a.precheck
            /\ Return([a EXCEPT !.phase = "Failed"], FALSE)
         \/ /\ a.precheck /\ model = "absent"
            /\ Return([a EXCEPT !.phase = "Failed", !.loaded = FALSE], FALSE)
         \/ /\ a.precheck /\ model # "absent"
            /\ WaitForModel(a)
  /\ UNCHANGED <<valid, log, queued, model, cluster, history, bounds>>

\* The call that follows the one for a workload.
After(c) == IF c = "prefill" THEN "decode" ELSE "router"

\* The replicas of the LWS that generateDisaggregatedLws makes; for a count that
\* is not given it dereferences nil, and there is no LWS.
GeneratedLws(c) == IF obj.want[c] = Unset THEN Missing ELSE obj.want[c]

\* An LWS is looked up, and created if there is none; the panic of
\* generateDisaggregatedLws ends this Reconcile with an error before the status
\* is written.
EnsureLws(c) ==
  /\ pc = c /\ c # "router"
  /\ \/ /\ size[c] # Missing \/ GeneratedLws(c) # Missing
        /\ size' = [size EXCEPT ![c] = IF @ = Missing THEN GeneratedLws(c) ELSE @]
        /\ Goto(After(c), [obj EXCEPT !.phase = "Creating"])
        /\ UNCHANGED queued
     \/ /\ size[c] = Missing /\ GeneratedLws(c) = Missing
        /\ Finish(TRUE)
        /\ UNCHANGED size
  /\ UNCHANGED <<valid, log, model, up, service, rbac, history, bounds>>

\* Mutation: the binding is created first.
RBACOrderBindingFirst == <<"binding", "role", "account">>

\* The order in which the RBAC objects of the router are created.
RBACOrder == <<"role", "account", "binding">>

\* The router is looked up; if there is none, so is the binding of its account.
GetRouter ==
  /\ pc = "router"
  /\ Goto(CASE size["router"] # Missing -> "service"
            [] size["router"] = Missing /\ (Named \/ "binding" \in rbac) ->
                 "createRouter"
            [] OTHER -> RBACOrder[1], obj)
  /\ UNCHANGED <<valid, log, queued, model, cluster, history, bounds>>

\* applyRouterRBAC creates role, account and binding, each if it does not exist.
ApplyRouterRBAC ==
  /\ pc \in RBACObjects
  /\ rbac' = rbac \cup {pc}
  /\ LET i == CHOOSE k \in DOMAIN RBACOrder : RBACOrder[k] = pc
     IN  Goto(IF i = Len(RBACOrder) THEN "createRouter" ELSE RBACOrder[i + 1], obj)
  /\ UNCHANGED <<valid, log, queued, model, size, up, service, history, bounds>>

\* The replicas of the Deployment that generateRouterDeployment makes: the count
\* of the spec, which may be 0.
GeneratedRouter ==
  IF obj.want["router"] = Unset THEN 1 ELSE obj.want["router"]

CreateRouter ==
  /\ pc = "createRouter"
  /\ size' = [size EXCEPT !["router"] = IF @ = Missing THEN GeneratedRouter ELSE @]
  /\ Goto("service", obj)
  /\ UNCHANGED <<valid, log, queued, model, up, service, rbac, history, bounds>>

\* Mutation: an error creating the service is not returned either.
EnsureServiceLenient ==
  /\ pc = "service"
  /\ service' \in {service, TRUE}
  /\ ignored' = ignored \ {"service"}
  /\ Goto("syncPrefill", [obj EXCEPT !.phase = "Running", !.ready = TRUE])
  /\ UNCHANGED <<valid, log, queued, model, size, up, rbac, past, bounds>>

\* The service is looked up, and created if there is none.
EnsureService ==
  /\ pc = "service"
  /\ service' = TRUE
  /\ ignored' = ignored \ {"service"}
  /\ Goto("syncPrefill", [obj EXCEPT !.phase = "Running", !.ready = TRUE])
  /\ UNCHANGED <<valid, log, queued, model, size, up, rbac, past, bounds>>

\* Looking up the service fails: reconcile goes on as if it existed.
GetServiceFails ==
  /\ pc = "service"
  /\ Fault
  /\ ignored' = IF service THEN ignored ELSE ignored \cup {"service"}
  /\ Goto("syncPrefill", [obj EXCEPT !.phase = "Running", !.ready = TRUE])
  /\ UNCHANGED <<valid, log, queued, model, cluster, past, changes>>

-----------------------------------------------------------------------------
\* The replicas that the sync gives a workload.
Replicas(c, n) == IF n = Unset \/ (c = "router" /\ n = 0) THEN 1 ELSE n

SyncCall(c) ==
  CASE c = "prefill" -> "syncPrefill"
    [] c = "decode"  -> "syncDecode"
    [] c = "router"  -> "syncRouter"

\* What follows the sync of a workload.
SyncNext(c, a) ==
  CASE c = "prefill" -> Goto("syncDecode", a)
    [] c = "decode"  -> Goto("syncRouter", a)
    [] c = "router"  -> Return(a, FALSE)

\* Mutation: a workload that is not ready is taken for one that is gone.
SyncedHasty(c, a) ==
  IF c \notin up
    THEN [a EXCEPT !.phase = "Failed", !.ready = FALSE]
    ELSE [a EXCEPT !.up = @ \cup {c}]

\* The copy after the sync has looked at workload c.
Synced(c, a) ==
  IF size[c] = Missing
    THEN [a EXCEPT !.phase = "Failed", !.ready = FALSE]
    ELSE [a EXCEPT !.up = IF c \in up THEN @ \cup {c} ELSE @ \ {c}]

\* A workload is looked at and scaled.  If it does not exist the application has
\* failed; the sync goes on with the other workloads.
SyncWorkload(c) ==
  /\ pc = SyncCall(c)
  /\ size' = [size EXCEPT ![c] =
                IF @ = Missing THEN @ ELSE Replicas(c, obj.want[c])]
  /\ ignored' = ignored \ {c}
  /\ SyncNext(c, Synced(c, obj))
  /\ UNCHANGED <<valid, log, queued, model, up, service, rbac, past, bounds>>

\* Scaling an LWS fails: the error is logged, and the sync goes on.
ScaleLwsFails(c) ==
  /\ pc = SyncCall(c) /\ c # "router"
  /\ size[c] \notin {Missing, Replicas(c, obj.want[c])}
  /\ Fault
  /\ ignored' = ignored \cup {c}
  /\ SyncNext(c, Synced(c, obj))
  /\ UNCHANGED <<valid, log, queued, model, cluster, past, changes>>

-----------------------------------------------------------------------------
\* A call of reconcile fails; what it has changed so far is in the status.  A
\* call of applyRouterRBAC that fails makes the application fail for good.
ReconcileFails ==
  /\ Fault
  /\ \/ /\ pc = "addFinalizer"
        /\ Return(obj, TRUE)
        /\ UNCHANGED past
     \/ /\ pc = "model"
        /\ obj.precheck \/ valid
        /\ Return(IF obj.precheck THEN obj
                  ELSE [obj EXCEPT !.phase = "Checking", !.precheck = TRUE], TRUE)
        /\ UNCHANGED past
     \/ /\ pc \in {"prefill", "decode", "router", "createRouter", "service"}
        /\ Return([obj EXCEPT !.phase = "Creating"], TRUE)
        /\ UNCHANGED past
     \/ /\ \/ pc \in RBACObjects
           \/ pc = "router" /\ size["router"] = Missing /\ ~Named
        /\ Return([obj EXCEPT !.phase = "Failed", !.precheck = FALSE], TRUE)
        /\ past' = past \cup {"rbacFailed"}
     \/ /\ pc \in {"syncPrefill", "syncDecode", "syncRouter"}
        /\ Return(obj, TRUE)
        /\ UNCHANGED past
     \/ /\ pc = "syncRouter"
        /\ size["router"] \notin {Missing, Replicas("router", obj.want["router"])}
        /\ Return(Synced("router", obj), TRUE)
        /\ UNCHANGED past
  /\ UNCHANGED <<valid, log, queued, model, cluster, ignored, changes>>

\* The status is updated, also when reconcile failed.
UpdateStatus ==
  /\ pc = "status"
  /\ IF stale
       THEN Finish(TRUE) /\ UNCHANGED log
       ELSE Store(obj) /\ Finish(failed)
  /\ UNCHANGED <<valid, model, cluster, history, bounds>>

-----------------------------------------------------------------------------
\* remove: the service, the two LWS, the router, the finalizer.
DeleteService ==
  /\ pc = "deleteService"
  /\ service' = FALSE
  /\ Goto("deletePrefill", obj)
  /\ UNCHANGED <<valid, log, queued, model, size, up, rbac, history, bounds>>

DeleteCall(c) ==
  CASE c = "prefill" -> "deletePrefill"
    [] c = "decode"  -> "deleteDecode"
    [] c = "router"  -> "deleteRouter"

DeleteWorkload(c) ==
  /\ pc = DeleteCall(c)
  /\ size' = [size EXCEPT ![c] = Missing]
  /\ up' = up \ {c}
  /\ Goto(CASE c = "prefill" -> "deleteDecode"
            [] c = "decode"  -> "deleteRouter"
            [] c = "router"  -> "removeFinalizer", obj)
  /\ UNCHANGED <<valid, log, queued, model, service, rbac, history, bounds>>

RemoveFinalizer ==
  /\ pc = "removeFinalizer"
  /\ IF stale
       THEN Finish(TRUE) /\ UNCHANGED log
       ELSE /\ Store([obj EXCEPT !.finalizer = FALSE, !.gone = TRUE])
            /\ Finish(FALSE)
  /\ UNCHANGED <<valid, model, cluster, history, bounds>>

\* Mutation: remove goes on although the router could not be deleted.
UpdateFailsOn ==
  /\ Fault
  /\ pc = "deleteRouter"
  /\ Goto("removeFinalizer", obj)
  /\ UNCHANGED <<valid, log, queued, model, cluster, history, changes>>

\* Mutation: an error of remove or of the status update is not returned.
UpdateFailsQuietly ==
  /\ Fault
  /\ pc \in {"status", "deleteService", "deletePrefill", "deleteDecode",
            "deleteRouter", "removeFinalizer"}
  /\ Finish(FALSE)
  /\ UNCHANGED <<valid, log, model, cluster, history, changes>>

\* A call of remove or the status update fails.
UpdateFails ==
  /\ Fault
  /\ pc \in {"status", "deleteService", "deletePrefill", "deleteDecode",
            "deleteRouter", "removeFinalizer"}
  /\ Finish(TRUE)
  /\ UNCHANGED <<valid, log, model, cluster, history, changes>>

-----------------------------------------------------------------------------
\* A watch event brings the next version to the cache.
Watch ==
  /\ Len(log) > 1
  /\ log' = Tail(log)
  /\ queued' = TRUE
  /\ UNCHANGED <<valid, running, model, cluster, history, bounds>>

\* The application is queued although nothing has changed that its Reconcile has
\* not seen: by the event of a workload that Reconcile itself created, scaled or
\* deleted, or because the cache is synced again, every ten hours by default.
Resync ==
  /\ queued' = TRUE
  /\ UNCHANGED <<valid, log, running, model, cluster, history, bounds>>

\* The operator restarts: its cache is filled again, everything is queued.
Restart ==
  /\ Fault
  /\ log' = <<Latest>>
  /\ pc' = "idle" /\ obj' = Nothing /\ stale' = FALSE /\ failed' = FALSE
  /\ queued' = TRUE
  /\ UNCHANGED <<valid, model, cluster, history, changes>>

\* The user deletes the application, which stays until it has no finalizer.
DeleteApplication ==
  /\ ~Latest.gone /\ ~Latest.deleting
  /\ Store([Latest EXCEPT !.deleting = TRUE, !.gone = ~Latest.finalizer])
  /\ stale' = (pc # "idle")
  /\ UNCHANGED <<valid, queued, pc, obj, failed, model, cluster, history, bounds>>

Change == changes < MaxChanges /\ changes' = changes + 1

\* The user changes the replica counts.
EditApplication ==
  /\ Change
  /\ ~Latest.gone
  /\ \E w \in Wants \ {Latest.want} : Store([Latest EXCEPT !.want = w])
  /\ stale' = (pc # "idle")
  /\ UNCHANGED <<valid, queued, pc, obj, failed, model, cluster, history, faults>>

\* The model is created, loads, and becomes Ready or Failed.
ModelProgress ==
  /\ \/ model = "absent" /\ model' = "Loading"
     \/ model = "Loading" /\ model' \in {"Ready", "Failed"}
  /\ past' = past \cup (IF model' = "Ready" THEN {"Ready"}
                        ELSE IF model' = "Failed" THEN {"noModel"} ELSE {})
  /\ UNCHANGED <<valid, log, queued, running, cluster, ignored, bounds>>

\* The replicas of a workload become ready.
WorkloadReady ==
  /\ \E c \in Varying \ up : size[c] # Missing /\ up' = up \cup {c}
  /\ queued' = TRUE
  /\ UNCHANGED <<valid, log, running, model, size, service, rbac, history, bounds>>

\* A replica fails, or someone deletes a workload.
WorkloadChanges ==
  /\ Change
  /\ \/ /\ \E c \in up : up' = up \ {c}
        /\ UNCHANGED <<size, past>>
     \/ /\ \E c \in Workloads : /\ size[c] # Missing
                               /\ size' = [size EXCEPT ![c] = Missing]
                               /\ up' = up \ {c}
        /\ past' = past \cup {"lost"}
  /\ queued' = TRUE
  /\ UNCHANGED <<valid, log, running, model, service, rbac, ignored, faults>>

\* Someone deletes the model or the service; neither queues the application.
OthersDeleted ==
  /\ Change
  /\ \/ /\ model # "absent" /\ model' = "absent"
        /\ past' = past \cup {"noModel"}
        /\ UNCHANGED service
     \/ /\ service /\ service' = FALSE
        /\ past' = past \cup {"serviceLost"}
        /\ UNCHANGED model
  /\ UNCHANGED <<valid, log, queued, running, size, up, rbac, ignored, faults>>

Reconcile ==
  \/ GetApplication \/ AddFinalizer \/ CheckModel
  \/ \E c \in Workloads : EnsureLws(c) \/ SyncWorkload(c) \/ DeleteWorkload(c)
  \/ GetRouter \/ ApplyRouterRBAC \/ CreateRouter \/ EnsureService
  \/ UpdateStatus \/ DeleteService \/ RemoveFinalizer

Failures ==
  \/ ReconcileFails \/ GetServiceFails \/ UpdateFails
  \/ \E c \in Workloads : ScaleLwsFails(c)

Environment ==
  \/ DeleteApplication \/ EditApplication \/ ModelProgress \/ OthersDeleted
  \/ WorkloadReady \/ WorkloadChanges

Next == Reconcile \/ Failures \/ Watch \/ Resync \/ Restart \/ Environment

Spec == Init /\ [][Next]_vars

\* The workers of the controller take what is queued, their calls return, and
\* watch events arrive.  Nothing is assumed of the resync, the model, the
\* workloads or the user.
FairSpec == Spec /\ WF_vars(Reconcile) /\ WF_vars(Watch)

-----------------------------------------------------------------------------
Calls ==
  {"idle", "addFinalizer", "model", "prefill", "decode", "router", "role",
   "account", "binding", "createRouter", "service", "syncPrefill", "syncDecode",
   "syncRouter", "status", "deleteService", "deletePrefill", "deleteDecode",
   "deleteRouter", "removeFinalizer"}

\* The types of the variables.
TypeOK ==
  /\ valid \in BOOLEAN
  /\ log \in Seq(Application) /\ Len(log) \in 1 .. MaxLag + 1
  /\ queued \in BOOLEAN
  /\ pc \in Calls
  /\ obj \in Application /\ stale \in BOOLEAN /\ failed \in BOOLEAN
  /\ model \in {"absent", "Loading", "Ready", "Failed"}
  /\ size \in [Workloads -> Nat \cup {Missing}]
  /\ up \subseteq Workloads /\ service \in BOOLEAN
  /\ rbac \subseteq RBACObjects
  /\ ignored \subseteq Workloads \cup {"service"}
  /\ past \subseteq {"Ready", "noModel", "lost", "serviceLost", "rbacFailed"}
  /\ faults \in 0 .. MaxFaults /\ changes \in 0 .. MaxChanges

\* An application that is gone leaves no workload and no service: no Reconcile
\* that still sees it in its cache creates one, and remove lets the application
\* go only when all four are deleted.
NoOrphans ==
  Latest.gone => ~service /\ \A c \in Workloads : size[c] = Missing

\* Nothing is created before the model has been Ready and the checks passed.
WorkloadHasModel ==
  service \/ (\E c \in Workloads : size[c] # Missing) => valid /\ "Ready" \in past

\* A router that runs under the account of the controller has that account and
\* its role, wherever applyRouterRBAC was interrupted: it goes by the binding,
\* which is created last.
RouterHasAccount == size["router"] # Missing /\ ~Named => rbac = RBACObjects

\* A Running application has its service, unless someone has deleted it or the
\* lookup whose error reconcile ignores has failed.
RunningHasService ==
  Latest.ready /\ ~Latest.deleting =>
    service \/ "service" \in ignored \/ "serviceLost" \in past

\* An application fails, which is final, only if it is not valid, its model is
\* missing or has failed, a workload was deleted, or the RBAC objects could not be
\* applied: no other failed call is taken for more than a reason to try again.
FailedHasReason ==
  Latest.phase = "Failed" =>
    ~valid \/ past \cap {"noModel", "lost", "rbacFailed"} # {}

\* Nothing is left to do: no Reconcile runs or waits, and the cache is current.
Quiet == pc = "idle" /\ ~queued /\ Len(log) = 1

\* When nothing is left to do a Running application has all of its workloads,
\* the status says which are ready, and each has the replicas that the spec asks
\* for, except an LWS whose scaling failed: no event, edit, conflict or failed
\* call is forgotten but that one.
Settled ==
  Quiet /\ Latest.phase = "Running" /\ ~Latest.deleting =>
    /\ Latest.up = up
    /\ \A c \in Workloads :
         size[c] # Missing /\ (c \in ignored \/ size[c] = Replicas(c, Latest.want[c]))

\* Failed is final: a Reconcile that works on an older version of the
\* application cannot set it back.
FailedIsFinal ==
  [][Latest.phase = "Failed" => Latest'.phase = "Failed"]_vars

\* An application that the user deletes goes away, whatever call of remove fails.
DeletionCompletes == Latest.deleting ~> Latest.gone

\* reconcile waits for the model to be ready, as its comment says, and asks to be
\* called again in three seconds: an application that is Loading is looked at again.
WaitIsRevisited == Quiet => Latest.phase # "Loading"

\* What exists in the cluster for the object, as Lifecycle sees it.
Owned == {c \in Workloads : size[c] # Missing} \cup (IF service THEN {"service"} ELSE {})
Object == INSTANCE Lifecycle
            WITH Things <- Workloads \cup {"service"}, exist <- Owned,
                 finalizer <- Latest.finalizer, deleting <- Latest.deleting,
                 gone <- Latest.gone

\* The controller keeps the promise of Lifecycle about the workloads and the service,
\* from whatever version of the application a Reconcile works: none is made for an
\* application without the finalizer, and none is left, or made later, when it is gone.
ImplementsLifecycle == Object!Spec
=============================================================================

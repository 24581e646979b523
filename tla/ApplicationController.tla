------------------------ MODULE ApplicationController ------------------------
(***************************************************************************)
(* The ArksApplication controller (arksapplication_controller.go) and one  *)
(* ArksApplication.  Reconcile takes the application from the informer     *)
(* cache, checks it, waits for its ArksModel, creates the LeaderWorkerSet  *)
(* (LWS) and the service, and copies the replica counts of the LWS to the  *)
(* status.  The LWS and the service are read from the API server itself.   *)
(* The application is queued when it or its LWS changes, after an error    *)
(* and when Reconcile asks for it; changes of the model or of the service  *)
(* do not queue it.  An update made from an old version fails.             *)
(*                                                                         *)
(* Of the spec only the runtime is edited: reconcile changes no LWS that   *)
(* exists, so that an edit of the replicas has no effect.  A write that    *)
(* changes nothing but timestamps and messages leaves no trace.            *)
(***************************************************************************)
EXTENDS Integers, SequencesExt

CONSTANTS
  MaxFaults,  \* bound: API calls that fail, and restarts of the operator
  MaxLag,     \* bound: versions the cache may be behind
  MaxChanges  \* bound: edits, objects deleted, and LWS becoming unready

ASSUME ApplicationAssumption ==
  MaxFaults \in Nat /\ MaxLag \in Nat /\ MaxChanges \in Nat

VARIABLES
  valid,      \* whether the volumes of the spec pass the pre-checks
  log,        \* the versions of the application from the one in the cache to
              \*   the latest one
  queued,     \* whether the application is in the work queue
  pc,         \* the next API call of the Reconcile that is running
  obj,        \* the copy of the application it works on
  stale,      \* whether obj was made from a version that is not the latest
  again,      \* whether reconcile returned an error or asked to be queued
  model,      \* the phase of the ArksModel in the cache; "absent" if none
  lws,        \* the LWS: "none", "starting", or "ready" (all replicas are)
  service,    \* whether the service exists
  past,       \* history: "Ready" and "noModel" for what the model has been,
              \*   "unsupported" for a runtime that the spec has asked for
  faults, changes   \* for the bounds

running == <<pc, obj, stale, again>>
workload == <<lws, service>>
models == <<model, past>>
bounds == <<faults, changes>>
vars == <<valid, log, queued, running, workload, models, bounds>>

Phases ==
  {"", "Pending", "Checking", "Loading", "Creating", "Running", "Failed"}

\* What the controller reads and writes of an application: metadata, whether its
\* runtime is one of vllm, sglang and dynamo, phase, the conditions Precheck,
\* Loaded and Ready, and whether all replicas are ready.
Application ==
  [gone : BOOLEAN, deleting : BOOLEAN, finalizer : BOOLEAN,
   supported : BOOLEAN, phase : Phases,
   precheck : BOOLEAN, loaded : BOOLEAN, ready : BOOLEAN, replicas : BOOLEAN]

NewApplication ==
  [gone |-> FALSE, deleting |-> FALSE, finalizer |-> FALSE,
   supported |-> TRUE, phase |-> "",
   precheck |-> FALSE, loaded |-> FALSE, ready |-> FALSE, replicas |-> FALSE]

Latest == Last(log)
Cached == Head(log)

Init ==
  /\ valid \in BOOLEAN
  /\ log = <<NewApplication>>
  /\ queued = TRUE
  /\ pc = "idle" /\ obj = NewApplication /\ stale = FALSE /\ again = FALSE
  /\ model \in {"absent", "Loading"}
  /\ past = IF model = "absent" THEN {"noModel"} ELSE {}
  /\ lws = "none" /\ service = FALSE
  /\ faults = 0 /\ changes = 0

-----------------------------------------------------------------------------
\* The API server stores a version, unless nothing has changed.
Store(a) ==
  /\ Len(log) <= MaxLag
  /\ log' = IF a = Latest THEN log ELSE Append(log, a)

\* reconcile goes on with copy a at the given call.
Goto(call, a) == pc' = call /\ obj' = a /\ UNCHANGED <<stale, again>>

\* reconcile returns; Reconcile updates the status first in any case.
Return(a, requeue) ==
  /\ pc' = "status"
  /\ obj' = a
  /\ again' = requeue
  /\ UNCHANGED stale

\* Reconcile returns, and the application is queued again if it has to be.
Finish(requeue) ==
  /\ pc' = "idle"
  /\ obj' = NewApplication
  /\ stale' = FALSE /\ again' = FALSE
  /\ queued' = (queued \/ requeue)

Fault == faults < MaxFaults /\ faults' = faults + 1

-----------------------------------------------------------------------------
\* Where Reconcile starts: with remove for an application being deleted, and
\* with nothing but the status update for one that has failed.
FirstCall(a) ==
  IF a.deleting THEN "deleteService"
  ELSE IF a.phase = "Failed" THEN "status"
  ELSE IF a.finalizer THEN "model" ELSE "addFinalizer"

\* The phase of an application is Pending as soon as reconcile has seen it.
GetApplication ==
  /\ pc = "idle" /\ queued
  /\ queued' = FALSE
  /\ IF Cached.gone
       THEN UNCHANGED running
       ELSE /\ pc' = FirstCall(Cached)
            /\ obj' = IF Cached.phase = "" /\ ~Cached.deleting
                        THEN [Cached EXCEPT !.phase = "Pending"] ELSE Cached
            /\ stale' = (Len(log) > 1)
            /\ again' = FALSE
  /\ UNCHANGED <<valid, log, workload, models, bounds>>

\* The update of the finalizer does not take the status along; the copy keeps
\* its phase, for the status update that follows.
AddFinalizer ==
  /\ pc = "addFinalizer"
  /\ IF stale
       THEN UNCHANGED log
       ELSE Store([obj EXCEPT !.finalizer = TRUE, !.phase = Latest.phase])
  /\ Return([obj EXCEPT !.finalizer = ~stale], TRUE)
  /\ UNCHANGED <<valid, queued, workload, models, bounds>>

\* Mutation: the condition is set for a model that is still loading.
WaitForModelOnce(a) ==
  IF a.loaded
    THEN Goto(IF a.ready THEN "sync" ELSE "lws", a)
    ELSE CASE model = "Failed" -> Return([a EXCEPT !.phase = "Failed"], FALSE)
           [] OTHER            -> Return([a EXCEPT !.phase = "Loading",
                                                   !.loaded = TRUE], TRUE)

\* What follows the check for the model: once it has been Ready the workload is
\* created; one that is still loading is looked at again in three seconds.
WaitForModel(a) ==
  IF a.loaded
    THEN Goto(IF a.ready THEN "sync" ELSE "lws", a)
    ELSE CASE model = "Failed" -> Return([a EXCEPT !.phase = "Failed"], FALSE)
           [] model = "Ready"  -> Goto(IF a.ready THEN "sync" ELSE "lws",
                                       [a EXCEPT !.phase = "Loading",
                                                 !.loaded = TRUE])
           [] OTHER            -> Return([a EXCEPT !.phase = "Loading"], TRUE)

\* The pre-checks, and the ArksModel from the cache.  An application that does
\* not pass, or whose model does not exist or has failed, fails for good.
CheckModel ==
  /\ pc = "model"
  /\ LET a == IF obj.precheck THEN obj
                              ELSE [obj EXCEPT !.phase = "Checking",
                                               !.precheck = valid /\ obj.supported]
     IN  \/ /\ ~a.precheck
            /\ Return([a EXCEPT !.phase = "Failed"], FALSE)
         \/ /\ a.precheck /\ model = "absent"
            /\ Return([a EXCEPT !.phase = "Failed", !.loaded = FALSE], FALSE)
         \/ /\ a.precheck /\ model # "absent"
            /\ WaitForModel(a)
  /\ UNCHANGED <<valid, log, queued, workload, models, bounds>>

\* Whether generateLws makes an LWS: it needs image and commands of a runtime
\* that it knows, which the pre-checks may have found in an earlier spec.
GenerateLws(a) == a.supported

\* The LWS is looked up, and created if there is none; if it cannot be generated
\* the application has failed.
EnsureLws ==
  /\ pc = "lws"
  /\ \/ /\ lws # "none" \/ GenerateLws(obj)
        /\ lws' = IF lws = "none" THEN "starting" ELSE lws
        /\ Goto("service", [obj EXCEPT !.phase = "Creating"])
     \/ /\ lws = "none" /\ ~GenerateLws(obj)
        /\ Return([obj EXCEPT !.phase = "Failed", !.precheck = FALSE], TRUE)
        /\ UNCHANGED lws
  /\ UNCHANGED <<valid, log, queued, service, models, bounds>>

\* The service is looked up, and created if there is none.
EnsureService ==
  /\ pc = "service"
  /\ service' = TRUE
  /\ Goto("sync", [obj EXCEPT !.phase = "Running", !.ready = TRUE])
  /\ UNCHANGED <<valid, log, queued, lws, models, bounds>>

\* Mutation: a missing LWS does not change the condition Ready.
SyncStatusKeepsReady ==
  /\ pc = "sync"
  /\ Return(IF lws = "none"
              THEN [obj EXCEPT !.phase = "Running"]
              ELSE [obj EXCEPT !.replicas = (lws = "ready")], FALSE)
  /\ UNCHANGED <<valid, log, queued, workload, models, bounds>>

\* The counts of the LWS are copied; if it is gone the application is not Ready,
\* and the next Reconcile, which this change of the status brings, creates it.
SyncStatus ==
  /\ pc = "sync"
  /\ Return(IF lws = "none"
              THEN [obj EXCEPT !.phase = "Running", !.ready = FALSE]
              ELSE [obj EXCEPT !.replicas = (lws = "ready")], FALSE)
  /\ UNCHANGED <<valid, log, queued, workload, models, bounds>>

\* Mutation: an application whose LWS could not be created has failed.
ReconcileFailsForGood ==
  /\ Fault
  /\ pc = "lws" /\ Return([obj EXCEPT !.phase = "Failed"], TRUE)
  /\ UNCHANGED <<valid, log, queued, workload, models, changes>>

\* A call of reconcile fails; what it has changed so far is in the status.
ReconcileFails ==
  /\ Fault
  /\ \/ pc = "addFinalizer" /\ Return(obj, TRUE)
     \/ /\ pc = "model"
        /\ obj.precheck \/ (valid /\ obj.supported)
        /\ Return(IF obj.precheck THEN obj
                  ELSE [obj EXCEPT !.phase = "Checking", !.precheck = TRUE], TRUE)
     \/ pc = "lws" /\ Return([obj EXCEPT !.phase = "Creating"], TRUE)
     \/ pc \in {"service", "sync"} /\ Return(obj, TRUE)
  /\ UNCHANGED <<valid, log, queued, workload, models, changes>>

\* Mutation: the status is written whatever the version it was made from.
UpdateStatusAlways ==
  /\ pc = "status"
  /\ Store([obj EXCEPT !.gone = Latest.gone, !.deleting = Latest.deleting,
                       !.finalizer = Latest.finalizer])
  /\ Finish(again)
  /\ UNCHANGED <<valid, workload, models, bounds>>

\* Mutation: an update that is refused is not tried again.
UpdateStatusOnce ==
  /\ pc = "status"
  /\ IF stale THEN UNCHANGED log ELSE Store(obj)
  /\ Finish(FALSE)
  /\ UNCHANGED <<valid, workload, models, bounds>>

UpdateStatus ==
  /\ pc = "status"
  /\ IF stale
       THEN Finish(TRUE) /\ UNCHANGED log
       ELSE Store(obj) /\ Finish(again)
  /\ UNCHANGED <<valid, workload, models, bounds>>

-----------------------------------------------------------------------------
\* remove: the service, the LWS, the finalizer.
DeleteService ==
  /\ pc = "deleteService"
  /\ service' = FALSE
  /\ Goto("deleteLws", obj)
  /\ UNCHANGED <<valid, log, queued, lws, models, bounds>>

DeleteLws ==
  /\ pc = "deleteLws"
  /\ lws' = "none"
  /\ Goto("removeFinalizer", obj)
  /\ UNCHANGED <<valid, log, queued, service, models, bounds>>

RemoveFinalizer ==
  /\ pc = "removeFinalizer"
  /\ IF stale
       THEN Finish(TRUE) /\ UNCHANGED log
       ELSE /\ Store([obj EXCEPT !.finalizer = FALSE, !.gone = TRUE])
            /\ Finish(FALSE)
  /\ UNCHANGED <<valid, workload, models, bounds>>

\* Mutation: remove goes on although the LWS could not be deleted.
UpdateFailsOn ==
  /\ Fault
  /\ pc = "deleteLws"
  /\ Goto("removeFinalizer", obj)
  /\ UNCHANGED <<valid, log, queued, workload, models, changes>>

\* Mutation: an error of remove is not returned.
UpdateFailsQuietly ==
  /\ Fault
  /\ pc \in {"status", "deleteService", "deleteLws", "removeFinalizer"}
  /\ Finish(FALSE)
  /\ UNCHANGED <<valid, log, workload, models, changes>>

\* A call of remove or the status update fails.
UpdateFails ==
  /\ Fault
  /\ pc \in {"status", "deleteService", "deleteLws", "removeFinalizer"}
  /\ Finish(TRUE)
  /\ UNCHANGED <<valid, log, workload, models, changes>>

-----------------------------------------------------------------------------
\* A watch event brings the next version to the cache.
Watch ==
  /\ Len(log) > 1
  /\ log' = Tail(log)
  /\ queued' = TRUE
  /\ UNCHANGED <<valid, running, workload, models, bounds>>

\* The application is queued although nothing has changed that its Reconcile has
\* not seen: by the event of the LWS that Reconcile itself created or deleted, or
\* because the cache is synced again, every ten hours by default.
Resync ==
  /\ queued' = TRUE
  /\ UNCHANGED <<valid, log, running, workload, models, bounds>>

\* The operator restarts: its cache is filled again, everything is queued.
Restart ==
  /\ Fault
  /\ log' = <<Latest>>
  /\ pc' = "idle" /\ obj' = NewApplication /\ stale' = FALSE /\ again' = FALSE
  /\ queued' = TRUE
  /\ UNCHANGED <<valid, workload, models, changes>>

\* The user deletes the application, which stays until it has no finalizer.
DeleteApplication ==
  /\ ~Latest.gone /\ ~Latest.deleting
  /\ Store([Latest EXCEPT !.deleting = TRUE, !.gone = ~Latest.finalizer])
  /\ stale' = (pc # "idle")
  /\ UNCHANGED <<valid, queued, pc, obj, again, workload, models, bounds>>

\* The model is created, loads, and becomes Ready or Failed.
ModelProgress ==
  /\ \/ model = "absent" /\ model' = "Loading"
     \/ model = "Loading" /\ model' \in {"Ready", "Failed"}
  /\ past' = past \cup (IF model' = "Ready" THEN {"Ready"}
                        ELSE IF model' = "Failed" THEN {"noModel"} ELSE {})
  /\ UNCHANGED <<valid, log, queued, running, workload, bounds>>

\* The replicas of the LWS become ready.
LwsReady ==
  /\ lws = "starting"
  /\ lws' = "ready"
  /\ queued' = TRUE
  /\ UNCHANGED <<valid, log, running, service, models, bounds>>

Change == changes < MaxChanges /\ changes' = changes + 1

\* The user changes the runtime.
EditApplication ==
  /\ Change
  /\ ~Latest.gone
  /\ Store([Latest EXCEPT !.supported = ~@])
  /\ stale' = (pc # "idle")
  /\ past' = past \cup {"unsupported"}
  /\ UNCHANGED <<valid, queued, pc, obj, again, workload, model, faults>>

\* A replica fails, or someone deletes the LWS.
LwsChanges ==
  /\ Change
  /\ \/ lws = "ready" /\ lws' = "starting"
     \/ lws # "none" /\ lws' = "none"
  /\ queued' = TRUE
  /\ UNCHANGED <<valid, log, running, service, models, faults>>

\* Someone deletes the model or the service.
OthersDeleted ==
  /\ Change
  /\ \/ /\ model # "absent" /\ model' = "absent"
        /\ past' = past \cup {"noModel"}
        /\ UNCHANGED service
     \/ service /\ service' = FALSE /\ UNCHANGED models
  /\ UNCHANGED <<valid, log, queued, running, lws, faults>>

Reconcile ==
  \/ GetApplication \/ AddFinalizer \/ CheckModel \/ EnsureLws \/ EnsureService
  \/ SyncStatus \/ UpdateStatus \/ DeleteService \/ DeleteLws \/ RemoveFinalizer

Environment ==
  \/ DeleteApplication \/ EditApplication \/ ModelProgress
  \/ LwsReady \/ LwsChanges \/ OthersDeleted

Next ==
  \/ Reconcile \/ ReconcileFails \/ UpdateFails
  \/ Watch \/ Resync \/ Restart \/ Environment

Spec == Init /\ [][Next]_vars

\* The workers of the controller take what is queued, their calls return, and
\* watch events arrive.  Nothing is assumed of the resync, the model, the LWS or
\* the user.
FairSpec == Spec /\ WF_vars(Reconcile) /\ WF_vars(Watch)

-----------------------------------------------------------------------------
\* The types of the variables.
TypeOK ==
  /\ valid \in BOOLEAN
  /\ log \in Seq(Application) /\ Len(log) \in 1 .. MaxLag + 1
  /\ queued \in BOOLEAN
  /\ pc \in {"idle", "addFinalizer", "model", "lws", "service", "sync", "status",
            "deleteService", "deleteLws", "removeFinalizer"}
  /\ obj \in Application /\ stale \in BOOLEAN /\ again \in BOOLEAN
  /\ model \in {"absent", "Loading", "Ready", "Failed"}
  /\ past \subseteq {"Ready", "noModel", "unsupported"}
  /\ lws \in {"none", "starting", "ready"} /\ service \in BOOLEAN
  /\ faults \in 0 .. MaxFaults /\ changes \in 0 .. MaxChanges

\* An application that is gone leaves no LWS and no service: no Reconcile that
\* still sees it in its cache creates one, and remove lets the application go
\* only when both are deleted.
NoOrphans == Latest.gone => lws = "none" /\ ~service

\* No LWS and no service is created before the model has been Ready and the checks
\* passed, whatever an older version of the application says about its conditions.
WorkloadHasModel == lws # "none" \/ service => "Ready" \in past /\ valid

\* An application fails, which is final, only if its spec is not valid or has
\* asked for a runtime that is not supported, or its model is missing or has
\* failed: no failed call is taken for more than a reason to try again.
FailedHasReason ==
  Latest.phase = "Failed" =>
    ~valid \/ past \cap {"noModel", "unsupported"} # {}

\* Failed is final: a Reconcile that works on an older version of the
\* application cannot set it back.
FailedIsFinal ==
  [][Latest.phase = "Failed" => Latest'.phase = "Failed"]_vars

\* Whether the controller is still to look after the application.
Live == ~Latest.deleting /\ ~Latest.gone /\ Latest.phase # "Failed"

\* When the model and the LWS stay ready, the status says so in the end and
\* keeps saying so: conflicts, failed calls and restarts only delay it.
StatusFollowsLws ==
  <>[](model = "Ready" /\ lws = "ready") => <>[](Live => Latest.replicas)

\* A Running application that loses its LWS gets a new one, although the
\* Reconcile that finds it missing does not create it.
LwsRestored ==
  (lws = "none" /\ Latest.ready) ~> (lws # "none" \/ ~Live)

\* An application that the user deletes goes away, whatever call of remove fails.
DeletionCompletes == Latest.deleting ~> Latest.gone

\* What exists in the cluster for the object, as Lifecycle sees it.
Owned == (IF lws = "none" THEN {} ELSE {"lws"}) \cup (IF service THEN {"service"} ELSE {})
Object == INSTANCE Lifecycle
            WITH Things <- {"lws", "service"}, exist <- Owned,
                 finalizer <- Latest.finalizer, deleting <- Latest.deleting,
                 gone <- Latest.gone

\* The controller keeps the promise of Lifecycle about LWS and service, from whatever
\* version of the application a Reconcile works: none is made for an application
\* without the finalizer, and none is left, or made later, when it is gone.
ImplementsLifecycle == Object!Spec
=============================================================================

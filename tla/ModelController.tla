--------------------------- MODULE ModelController ---------------------------
(***************************************************************************)
(* The ArksModel controller (internal/controller/arksmodel_controller.go)  *)
(* and one ArksModel.  Reconcile takes the model from the informer cache,  *)
(* which may lag behind the API server, and goes through storage, worker   *)
(* pod and status with one API call after the other; PVCs and pods are     *)
(* read from the API server itself.  controller-runtime runs one Reconcile *)
(* of a model at a time, queues the model again after an error and when    *)
(* the model or something it owns changes, and does not queue it           *)
(* otherwise.  An update made from a version that is not the latest fails. *)
(*                                                                         *)
(* The spec of the model is not edited.  A write that changes nothing but  *)
(* timestamps and messages leaves no trace.                                *)
(***************************************************************************)
EXTENDS Integers, SequencesExt

CONSTANTS
  MaxFaults,  \* bound: API calls that fail, and restarts of the operator
  MaxLag,     \* bound: versions the cache may be behind
  MaxPods     \* bound: times the user deletes the worker pod

ASSUME ModelAssumption == MaxFaults \in Nat /\ MaxLag \in Nat /\ MaxPods \in Nat

VARIABLES
  source,      \* spec.source: "none", "huggingface", or "other" (empty)
  hasPVC,      \* whether spec.storage has a pvc
  log,         \* the versions of the model from the one in the cache to the
               \*   latest one
  queued,      \* whether the model is in the work queue
  pc,          \* the next API call of the Reconcile that is running
  obj,         \* the copy of the model it works on
  stale,       \* whether obj was made from a version that is not the latest
  claim,       \* storagePvcName: whether it has been set in this Reconcile
  failed,      \* whether reconcile returned an error
  pvc,         \* whether the PVC exists
  pod,         \* the phase of the worker pod
  downloaded,  \* history: a worker pod has succeeded
  dropped,     \* history: remove has given up because the pod was not deleted,
               \*   and has not been called again
  faults, deletions   \* for the bounds

running == <<pc, obj, stale, failed>>
cluster == <<pvc, pod, downloaded>>
bounds == <<faults, deletions>>
spec == <<source, hasPVC>>
vars == <<spec, log, queued, running, claim, cluster, dropped, bounds>>

Phases == {"", "StorageCreating", "ModelLoading", "Ready", "Failed"}
Terminal == {"Ready", "Failed"}
PodPhases == {"none", "Pending", "Running", "Succeeded", "Failed"}

\* What the controller reads and writes of a model: metadata, phase, and the
\* conditions StorageCreated and ModelLoaded.  The condition Ready goes with
\* the phase Ready.
Model == [gone : BOOLEAN, deleting : BOOLEAN, finalizer : BOOLEAN,
          phase : Phases, storageCreated : BOOLEAN, modelLoaded : BOOLEAN]

NewModel == [gone |-> FALSE, deleting |-> FALSE, finalizer |-> FALSE,
             phase |-> "", storageCreated |-> FALSE, modelLoaded |-> FALSE]

Latest == Last(log)
Cached == Head(log)

Init ==
  /\ source \in {"none", "huggingface", "other"}
  /\ hasPVC \in BOOLEAN
  /\ log = <<NewModel>>
  /\ queued = TRUE
  /\ pc = "idle" /\ obj = NewModel /\ stale = FALSE
  /\ claim = FALSE /\ failed = FALSE
  /\ pvc \in BOOLEAN
  /\ pod = "none" /\ downloaded = FALSE /\ dropped = FALSE
  /\ faults = 0 /\ deletions = 0

-----------------------------------------------------------------------------
\* The API server stores a version of the model, unless nothing has changed.
Store(m) ==
  /\ Len(log) <= MaxLag
  /\ log' = IF m = Latest THEN log ELSE Append(log, m)

\* Reconcile goes on with copy m at the given call.
Goto(call, m) == pc' = call /\ obj' = m /\ UNCHANGED <<stale, failed>>

\* reconcile returns; Reconcile updates the status before it looks at the error.
Return(m, err) ==
  /\ pc' = "status"
  /\ obj' = m
  /\ failed' = err
  /\ UNCHANGED stale

\* Reconcile returns, and the model is queued again if it failed.
Finish(again) ==
  /\ pc' = "idle"
  /\ obj' = NewModel
  /\ stale' = FALSE /\ claim' = FALSE /\ failed' = FALSE
  /\ queued' = (queued \/ again)

Fault == faults < MaxFaults /\ faults' = faults + 1

\* What reconcile does with the model once its storage is there: the phase
\* becomes Ready when the model is loaded, and it is taken to be loaded if it
\* has no source, and is not asked for if the source is not Huggingface.
AfterStorage(m) ==
  IF ~m.modelLoaded /\ source = "huggingface"
    THEN Goto("pod", m)
    ELSE Return([m EXCEPT !.phase = "Ready",
                          !.modelLoaded = @ \/ source = "none"], FALSE)

-----------------------------------------------------------------------------
\* Reconcile gets the model from the cache and chooses between remove and
\* reconcile; the latter leaves models in a terminal phase alone.
FirstCall(m) ==
  IF m.deleting
    THEN IF source = "huggingface" THEN "deletePod" ELSE "removeFinalizer"
    ELSE IF m.phase \in Terminal THEN "status"
    ELSE IF m.finalizer THEN "storage" ELSE "addFinalizer"

GetModel ==
  /\ pc = "idle" /\ queued
  /\ queued' = FALSE
  /\ IF Cached.gone
       THEN UNCHANGED running
       ELSE /\ pc' = FirstCall(Cached)
            /\ obj' = Cached
            /\ stale' = (Len(log) > 1)
            /\ failed' = FALSE
  /\ UNCHANGED <<spec, log, claim, cluster, dropped, bounds>>

\* The finalizer is added and the copy refreshed; the requested requeue is
\* dropped by Reconcile, but the new version queues the model.
AddFinalizer ==
  /\ pc = "addFinalizer"
  /\ IF stale
       THEN Return(obj, TRUE) /\ UNCHANGED log
       ELSE /\ Store([obj EXCEPT !.finalizer = TRUE])
            /\ Return([obj EXCEPT !.finalizer = TRUE], FALSE)
  /\ UNCHANGED <<spec, claim, queued, cluster, dropped, bounds>>

\* Without a PVC the model fails.  With one, the PVC is looked up and created
\* unless the condition says that this has been done.
EnsureStorage ==
  /\ pc = "storage"
  /\ \/ /\ ~hasPVC
        /\ Return([obj EXCEPT !.phase = "Failed", !.storageCreated = FALSE], FALSE)
        /\ UNCHANGED <<pvc, claim>>
     \/ /\ hasPVC /\ obj.storageCreated
        /\ AfterStorage(obj)
        /\ UNCHANGED <<pvc, claim>>
     \/ /\ hasPVC /\ ~obj.storageCreated
        /\ pvc' = TRUE
        /\ claim' = TRUE
        /\ AfterStorage([obj EXCEPT !.phase = "StorageCreating",
                                   !.storageCreated = TRUE])
  /\ UNCHANGED <<spec, log, queued, pod, downloaded, dropped, bounds>>

\* Looking up or creating the PVC fails.
EnsureStorageFails ==
  /\ pc = "storage" /\ hasPVC /\ ~obj.storageCreated
  /\ Fault
  /\ Return([obj EXCEPT !.phase = "StorageCreating"], TRUE)
  /\ UNCHANGED <<spec, claim, log, queued, cluster, dropped, deletions>>

\* Mutation: a worker pod that exists is taken for one that has succeeded.
EnsurePodEager ==
  /\ pc = "pod"
  /\ \/ /\ pod = "none"
        /\ pod' = IF claim THEN "Pending" ELSE "none"
        /\ Return([obj EXCEPT !.phase = "ModelLoading"], ~claim)
     \/ /\ pod # "none"
        /\ Return([obj EXCEPT !.phase = "Ready", !.modelLoaded = TRUE], FALSE)
        /\ UNCHANGED pod
  /\ UNCHANGED <<spec, claim, log, queued, pvc, downloaded, dropped, bounds>>

\* The worker pod is looked up.  If there is none it is created with the PVC
\* named by storagePvcName; the API server rejects a pod whose volume names none.
EnsurePod ==
  /\ pc = "pod"
  /\ \/ /\ pod = "none"
        /\ pod' = IF claim THEN "Pending" ELSE "none"
        /\ Return([obj EXCEPT !.phase = "ModelLoading"], ~claim)
     \/ /\ pod = "Failed"
        /\ Return([obj EXCEPT !.phase = "Failed"], FALSE)
        /\ UNCHANGED pod
     \/ /\ pod = "Succeeded"
        /\ Return([obj EXCEPT !.phase = "Ready", !.modelLoaded = TRUE], FALSE)
        /\ UNCHANGED pod
     \/ /\ pod \in {"Pending", "Running"}
        /\ Return(obj, FALSE)
        /\ UNCHANGED pod
  /\ UNCHANGED <<spec, claim, log, queued, pvc, downloaded, dropped, bounds>>

\* Looking up the worker pod fails, or creating it does.
EnsurePodFails ==
  /\ pc = "pod"
  /\ Fault
  /\ \/ Return(obj, TRUE)
     \/ pod = "none" /\ Return([obj EXCEPT !.phase = "ModelLoading"], TRUE)
  /\ UNCHANGED <<spec, claim, log, queued, cluster, dropped, deletions>>

\* Mutation: the status is written whatever the version it was made from.
UpdateStatusAlways ==
  /\ pc = "status"
  /\ Store([Latest EXCEPT !.phase = obj.phase, !.modelLoaded = obj.modelLoaded,
                          !.storageCreated = obj.storageCreated])
  /\ Finish(failed)
  /\ UNCHANGED <<spec, cluster, dropped, bounds>>

\* Mutation: an update that is refused is not tried again.
UpdateStatusOnce ==
  /\ pc = "status"
  /\ IF stale THEN UNCHANGED log ELSE Store(obj)
  /\ Finish(FALSE)
  /\ UNCHANGED <<spec, cluster, dropped, bounds>>

\* The status is updated, also when reconcile failed.
UpdateStatus ==
  /\ pc = "status"
  /\ IF stale
       THEN Finish(TRUE) /\ UNCHANGED log
       ELSE Store(obj) /\ Finish(failed)
  /\ UNCHANGED <<spec, cluster, dropped, bounds>>

\* remove deletes the worker pod of a model with a Huggingface source.  A pod that
\* is being deleted no longer counts: remove does not wait for it to terminate.
DeletePod ==
  /\ pc = "deletePod"
  /\ pod' = "none"
  /\ dropped' = FALSE
  /\ Goto("removeFinalizer", obj)
  /\ UNCHANGED <<spec, claim, log, queued, pvc, downloaded, bounds>>

\* Mutation: the finalizer is removed although the pod could not be deleted.
DeletePodFailsOn ==
  /\ pc = "deletePod"
  /\ Fault
  /\ Goto("removeFinalizer", obj)
  /\ UNCHANGED <<spec, claim, log, queued, cluster, dropped, deletions>>

\* Deleting the worker pod fails: remove returns no error, so that the model is
\* not queued again.
DeletePodFails ==
  /\ pc = "deletePod"
  /\ Fault
  /\ dropped' = TRUE
  /\ Finish(FALSE)
  /\ UNCHANGED <<spec, log, cluster, deletions>>

\* remove takes the finalizer away, and the API server the model.
RemoveFinalizer ==
  /\ pc = "removeFinalizer"
  /\ IF stale
       THEN Finish(TRUE) /\ UNCHANGED log
       ELSE /\ Store([obj EXCEPT !.finalizer = FALSE, !.gone = TRUE])
            /\ Finish(FALSE)
  /\ UNCHANGED <<spec, cluster, dropped, bounds>>

\* Mutation: an error removing the finalizer is not returned either.
UpdateFailsQuietly ==
  /\ Fault
  /\ pc = "removeFinalizer" /\ Finish(FALSE)
  /\ UNCHANGED <<spec, log, cluster, dropped, deletions>>

\* Updating the model or its status fails.
UpdateFails ==
  /\ Fault
  /\ \/ pc = "addFinalizer" /\ Return(obj, TRUE) /\ UNCHANGED <<queued, claim>>
     \/ pc \in {"status", "removeFinalizer"} /\ Finish(TRUE)
  /\ UNCHANGED <<spec, log, cluster, dropped, deletions>>

-----------------------------------------------------------------------------
\* A watch event brings the next version to the cache and queues the model.
Watch ==
  /\ Len(log) > 1
  /\ log' = Tail(log)
  /\ queued' = TRUE
  /\ UNCHANGED <<spec, claim, running, cluster, dropped, bounds>>

\* The model is queued although nothing has changed that its Reconcile has not
\* seen: by the event of the pod or the PVC that Reconcile itself created, or
\* because the cache is synced again, every ten hours by default.
Resync ==
  /\ queued' = TRUE
  /\ UNCHANGED <<spec, claim, log, running, cluster, dropped, bounds>>

\* The operator restarts: its cache is filled again and all models are queued.
Restart ==
  /\ Fault
  /\ log' = <<Latest>>
  /\ pc' = "idle" /\ obj' = NewModel
  /\ stale' = FALSE /\ claim' = FALSE /\ failed' = FALSE
  /\ queued' = TRUE
  /\ UNCHANGED <<spec, cluster, dropped, deletions>>

\* The user deletes the model, which stays until it has no finalizer.
DeleteModel ==
  /\ ~Latest.gone /\ ~Latest.deleting
  /\ Store([Latest EXCEPT !.deleting = TRUE, !.gone = ~Latest.finalizer])
  /\ stale' = (pc # "idle")
  /\ UNCHANGED <<spec, queued, pc, obj, claim, failed, cluster, dropped, bounds>>

\* The worker pod starts, and ends as download.py does; its owner is queued.
PodProgress ==
  /\ \/ pod = "Pending" /\ pod' \in {"Running", "Failed"}
     \/ pod = "Running" /\ pod' \in {"Succeeded", "Failed"}
  /\ downloaded' = (downloaded \/ pod' = "Succeeded")
  /\ queued' = TRUE
  /\ UNCHANGED <<spec, claim, log, running, pvc, dropped, bounds>>

\* Someone deletes the worker pod.
PodDeleted ==
  /\ pod # "none" /\ deletions < MaxPods
  /\ deletions' = deletions + 1
  /\ pod' = "none"
  /\ queued' = TRUE
  /\ UNCHANGED <<spec, claim, log, running, pvc, downloaded, dropped, faults>>

Reconcile ==
  \/ GetModel \/ AddFinalizer \/ EnsureStorage \/ EnsurePod
  \/ UpdateStatus \/ DeletePod \/ RemoveFinalizer

Failures == EnsureStorageFails \/ EnsurePodFails \/ DeletePodFails \/ UpdateFails

Next ==
  \/ Reconcile \/ Failures \/ Watch \/ Resync \/ Restart \/ DeleteModel
  \/ PodProgress \/ PodDeleted

Spec == Init /\ [][Next]_vars

\* The workers of the controller take what is queued, their calls return, and
\* watch events arrive.  Nothing is assumed of the resync, the worker pod or
\* the user.
FairSpec == Spec /\ WF_vars(Reconcile) /\ WF_vars(Watch)

-----------------------------------------------------------------------------
\* The types of the variables.
TypeOK ==
  /\ source \in {"none", "huggingface", "other"} /\ hasPVC \in BOOLEAN
  /\ log \in Seq(Model) /\ Len(log) \in 1 .. MaxLag + 1
  /\ queued \in BOOLEAN
  /\ pc \in {"idle", "addFinalizer", "storage", "pod", "status", "deletePod",
            "removeFinalizer"}
  /\ obj \in Model /\ stale \in BOOLEAN /\ claim \in BOOLEAN
  /\ failed \in BOOLEAN
  /\ pvc \in BOOLEAN /\ pod \in PodPhases /\ downloaded \in BOOLEAN
  /\ dropped \in BOOLEAN
  /\ faults \in 0 .. MaxFaults /\ deletions \in 0 .. MaxPods

\* A model that is gone leaves no worker pod behind: no Reconcile that still
\* sees the model in its cache creates one, and remove lets the model go only
\* when the pod is deleted.
NoOrphanPod == Latest.gone => pod = "none"

\* A model from Huggingface is Ready only if a worker pod has downloaded it and
\* its PVC exists.
ReadyIsDownloaded ==
  Latest.phase = "Ready" => pvc /\ (source = "huggingface" => downloaded)

\* A terminal phase is final: a Reconcile that works on an older version of the
\* model cannot set it back, whatever happens to the pod meanwhile.
TerminalIsFinal ==
  [][Latest.phase \in Terminal => Latest'.phase = Latest.phase]_vars

\* The end of the worker pod reaches the status of the model, unless the pod or
\* the model is deleted first: errors, conflicts and restarts only delay it.
PodEndIsReported ==
  pod \in {"Succeeded", "Failed"} ~>
    Latest.phase \in Terminal \/ Latest.deleting \/ Latest.gone \/ pod = "none"

\* The background workload downloads the model into the storage volume, as
\* docs/model-usage.md says: a worker pod is created with the PVC of the model.
WorkerMountsStorage == pc = "pod" /\ pod = "none" => claim

\* A model that the user deletes goes away, unless deleting the worker pod fails,
\* which remove does not return: errors of the other calls, conflicts and restarts
\* only delay it.
DeletionCompletes == Latest.deleting ~> Latest.gone \/ dropped

\* What exists in the cluster for the object, as Lifecycle sees it.
Owned == IF pod = "none" THEN {} ELSE {"pod"}
Object == INSTANCE Lifecycle
            WITH Things <- {"pod"}, exist <- Owned,
                 finalizer <- Latest.finalizer, deleting <- Latest.deleting,
                 gone <- Latest.gone

\* The controller keeps the promise of Lifecycle about the worker pod, from whatever
\* version of the model a Reconcile works: no pod is made for a model without the
\* finalizer, and none is left, or made later, when the model is gone.
ImplementsLifecycle == Object!Spec
=============================================================================

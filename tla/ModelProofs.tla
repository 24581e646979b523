---------------------------- MODULE ModelProofs -----------------------------
(***************************************************************************)
(* Proofs about the ArksModel controller, for every number of failed       *)
(* calls, restarts, deleted worker pods and versions that the cache is     *)
(* behind: the types, that no worker pod outlives the model, that Ready    *)
(* means that the model was downloaded, that terminal phases are final,    *)
(* that a controller at rest has left nothing undone, and that it          *)
(* implements Lifecycle.                                                   *)
(***************************************************************************)
EXTENDS ModelController, TLAPS

\* The versions from the cached to the latest one, and with the copy that
\* Reconcile works on.
Versions == {log[i] : i \in 1 .. Len(log)}
Copies == Versions \cup {obj}

\* The latest and the cached version are among the versions, which are models.
LEMMA VersionsOfLog ==
  ASSUME TypeOK
  PROVE  /\ Latest \in Versions /\ Cached \in Versions
         /\ Versions \subseteq Model
         /\ Len(log) = 1 => Versions = {Latest} /\ Cached = Latest
BY DEF TypeOK, Versions, Latest, Cached, Last

\* A version that is stored becomes the latest and is the only new one.
LEMMA StoreVersion ==
  ASSUME TypeOK, NEW m \in Model, Store(m)
  PROVE  /\ log' \in Seq(Model) /\ Len(log') \in 1 .. MaxLag + 1
         /\ Latest' = m
         /\ Versions' \subseteq Versions \cup {m}
<1> USE ModelAssumption
<1>1. CASE m = Latest
  BY <1>1 DEF TypeOK, Store, Versions, Latest
<1>2. CASE m # Latest
  <2>1. log' = Append(log, m) /\ Len(log) <= MaxLag
    BY <1>2 DEF Store
  <2>2. /\ log' \in Seq(Model) /\ Len(log') = Len(log) + 1
        /\ \A i \in 1 .. Len(log) + 1 : log'[i] = IF i = Len(log) + 1 THEN m ELSE log[i]
    BY <2>1 DEF TypeOK
  <2> QED
    BY <2>1, <2>2 DEF TypeOK, Versions, Latest, Last
<1> QED
  BY <1>1, <1>2

\* A watch event drops the oldest version and keeps the latest.
LEMMA WatchVersion ==
  ASSUME TypeOK, Len(log) > 1, log' = Tail(log)
  PROVE  /\ log' \in Seq(Model) /\ Len(log') \in 1 .. MaxLag + 1
         /\ Latest' = Latest
         /\ Versions' \subseteq Versions
<1>1. /\ log' \in Seq(Model) /\ Len(log') = Len(log) - 1
      /\ \A i \in 1 .. Len(log) - 1 : log'[i] = log[i + 1]
  BY DEF TypeOK
<1> QED
  BY <1>1, ModelAssumption DEF TypeOK, Versions, Latest, Last

\* A restart keeps the latest version only.
LEMMA RestartVersion ==
  ASSUME TypeOK, log' = <<Latest>>
  PROVE  /\ log' \in Seq(Model) /\ Len(log') \in 1 .. MaxLag + 1
         /\ Latest' = Latest
         /\ Versions' \subseteq Versions
<1>1. Latest \in Model
  BY VersionsOfLog
<1>2. log' \in Seq(Model) /\ Len(log') = 1 /\ log'[1] = Latest
  BY <1>1
<1>3. Latest' = Latest
  BY <1>2 DEF Latest, Last
<1>4. Versions' = {Latest}
  BY <1>2 DEF Versions
<1> QED
  BY <1>2, <1>3, <1>4, VersionsOfLog, ModelAssumption

-----------------------------------------------------------------------------
\* Where Reconcile may create something, and where remove is.
Creating == {"storage", "pod"}
Removing == {"deletePod", "removeFinalizer"}

\* A version with which Reconcile starts to create.
Creates(v) == v.finalizer /\ ~v.deleting /\ ~v.gone

\* What the copy of a running Reconcile has to do with the latest version.
CopyInv ==
  /\ pc # "idle" => ~obj.gone
  /\ pc # "idle" /\ ~stale => /\ ~Latest.gone
                              /\ obj.deleting = Latest.deleting
                              /\ obj.finalizer = Latest.finalizer
  /\ pc \in Creating => Creates(obj)
  /\ pc \in Removing => obj.deleting /\ (~stale => Len(log) = 1)

\* A worker pod is looked after: without the finalizer there is none, no
\* Reconcile that creates one, and no version that would start one.
OwnedInv ==
  /\ Latest.gone => ~Latest.finalizer
  /\ ~Latest.finalizer => /\ pod = "none"
                          /\ pc \notin Creating
                          /\ \A v \in Versions : ~Creates(v)
  /\ pc = "removeFinalizer" => pod = "none"
  /\ source # "huggingface" => pod = "none" /\ pc # "pod"

\* What the conditions and the phase of every copy say about the past.
Loaded == source = "huggingface" => downloaded

PastInv ==
  /\ \A v \in Copies : /\ v.storageCreated => pvc
                       /\ v.modelLoaded => Loaded
                       /\ v.phase = "Ready" => pvc /\ Loaded
  /\ pod = "Succeeded" => downloaded
  /\ pc = "pod" => obj.storageCreated

\* A Reconcile that may write the status of a model in a terminal phase keeps it.
FinalInv ==
  /\ pc # "idle" /\ ~stale /\ Latest.phase \in Terminal =>
       obj.phase = Latest.phase /\ pc \in {"status"} \cup Removing
  /\ pc = "addFinalizer" => obj.phase \notin Terminal

SafeInv == CopyInv /\ OwnedInv /\ PastInv /\ FinalInv

ModInv == TypeOK /\ SafeInv

-----------------------------------------------------------------------------
\* The copies that the calls make are models.
LEMMA CopyTypes ==
  ASSUME NEW m \in Model, NEW p \in Phases, NEW b \in BOOLEAN, NEW c \in BOOLEAN
  PROVE  /\ [m EXCEPT !.phase = p] \in Model
         /\ [m EXCEPT !.phase = p, !.storageCreated = b] \in Model
         /\ [m EXCEPT !.phase = p, !.modelLoaded = b] \in Model
         /\ [m EXCEPT !.finalizer = b] \in Model
         /\ [m EXCEPT !.finalizer = b, !.gone = c] \in Model
         /\ [m EXCEPT !.deleting = b, !.gone = c] \in Model
         /\ NewModel \in Model
BY DEF Model, NewModel, Phases

\* What reconcile makes of the storage: what the copy then says, and the call
\* it goes on with.
LEMMA StorageCopy ==
  ASSUME TypeOK, EnsureStorage
  PROVE  /\ obj' \in Model
         /\ pc = "storage" /\ pc' \in {"pod", "status"}
         /\ stale' = stale /\ failed' \in BOOLEAN
         /\ obj'.gone = obj.gone /\ obj'.deleting = obj.deleting
         /\ obj'.finalizer = obj.finalizer
         /\ pvc' = pvc \/ pvc' = TRUE
         /\ claim' \in BOOLEAN
         /\ obj'.storageCreated => pvc' \/ obj.storageCreated
         /\ obj'.modelLoaded => obj.modelLoaded \/ source = "none"
         /\ obj'.phase = "Ready" =>
              \/ obj.phase = "Ready"
              \/ obj'.storageCreated /\ (obj'.modelLoaded \/ source # "huggingface")
         /\ pc' = "pod" => source = "huggingface" /\ obj'.storageCreated
<1> DEFINE F == [obj EXCEPT !.phase = "Failed", !.storageCreated = FALSE]
           S == [obj EXCEPT !.phase = "StorageCreating", !.storageCreated = TRUE]
<1>1. obj \in Model /\ pvc \in BOOLEAN /\ claim \in BOOLEAN /\ failed \in BOOLEAN
  BY DEF TypeOK
<1>2. /\ F \in Model /\ S \in Model
      /\ F.gone = obj.gone /\ F.deleting = obj.deleting /\ F.finalizer = obj.finalizer
      /\ F.phase = "Failed" /\ ~F.storageCreated /\ F.modelLoaded = obj.modelLoaded
      /\ S.gone = obj.gone /\ S.deleting = obj.deleting /\ S.finalizer = obj.finalizer
      /\ S.storageCreated /\ S.modelLoaded = obj.modelLoaded /\ S.phase # "Ready"
  BY <1>1 DEF Model, Phases
<1>3. ASSUME NEW m \in Model, m.storageCreated, AfterStorage(m)
      PROVE  /\ obj' \in Model /\ pc' \in {"pod", "status"}
             /\ stale' = stale /\ failed' \in BOOLEAN
             /\ obj'.gone = m.gone /\ obj'.deleting = m.deleting
             /\ obj'.finalizer = m.finalizer /\ obj'.storageCreated
             /\ obj'.modelLoaded => m.modelLoaded \/ source = "none"
             /\ pc' = "status" => obj'.modelLoaded \/ source # "huggingface"
             /\ pc' = "pod" => source = "huggingface" /\ obj' = m
  <2>1. CASE ~m.modelLoaded /\ source = "huggingface"
    BY <1>1, <1>3, <2>1 DEF AfterStorage, Goto
  <2>2. CASE ~(~m.modelLoaded /\ source = "huggingface")
    <3> DEFINE R == [m EXCEPT !.phase = "Ready", !.modelLoaded = @ \/ source = "none"]
    <3>1. obj' = R /\ pc' = "status" /\ stale' = stale /\ failed' = FALSE
      BY <1>3, <2>2 DEF AfterStorage, Return
    <3>2. (m.modelLoaded \/ source = "none") \in BOOLEAN
      OBVIOUS
    <3>3. /\ R \in Model /\ R.gone = m.gone /\ R.deleting = m.deleting
          /\ R.finalizer = m.finalizer /\ R.storageCreated = m.storageCreated
          /\ R.modelLoaded = (m.modelLoaded \/ source = "none")
      BY <3>2 DEF Model, Phases
    <3> HIDE DEF R
    <3> QED
      BY <1>3, <2>2, <3>1, <3>3
  <2> QED
    BY <2>1, <2>2
<1> HIDE DEF F, S
<1>4. pc = "storage"
  BY DEF EnsureStorage
<1>5. CASE obj' = F /\ pc' = "status" /\ failed' = FALSE /\ UNCHANGED <<stale, pvc, claim>>
  BY <1>1, <1>2, <1>4, <1>5
<1>6. CASE obj.storageCreated /\ AfterStorage(obj) /\ UNCHANGED <<pvc, claim>>
  <2>1. /\ obj' \in Model /\ pc' \in {"pod", "status"}
        /\ stale' = stale /\ failed' \in BOOLEAN
        /\ obj'.gone = obj.gone /\ obj'.deleting = obj.deleting
        /\ obj'.finalizer = obj.finalizer /\ obj'.storageCreated
        /\ obj'.modelLoaded => obj.modelLoaded \/ source = "none"
        /\ pc' = "status" => obj'.modelLoaded \/ source # "huggingface"
        /\ pc' = "pod" => source = "huggingface" /\ obj' = obj
    BY <1>1, <1>3, <1>6
  <2> QED
    BY <1>1, <1>4, <1>6, <2>1
<1>7. CASE AfterStorage(S) /\ pvc' = TRUE /\ claim' = TRUE
  <2>1. /\ obj' \in Model /\ pc' \in {"pod", "status"}
        /\ stale' = stale /\ failed' \in BOOLEAN
        /\ obj'.gone = S.gone /\ obj'.deleting = S.deleting
        /\ obj'.finalizer = S.finalizer /\ obj'.storageCreated
        /\ obj'.modelLoaded => S.modelLoaded \/ source = "none"
        /\ pc' = "status" => obj'.modelLoaded \/ source # "huggingface"
        /\ pc' = "pod" => source = "huggingface" /\ obj' = S
    BY <1>2, <1>3, <1>7
  <2> QED
    BY <1>2, <1>4, <1>7, <2>1
<1> QED
  BY <1>5, <1>6, <1>7 DEF EnsureStorage, Return, F, S

\* What reconcile makes of the worker pod.
LEMMA PodCopy ==
  ASSUME TypeOK, EnsurePod \/ EnsurePodFails
  PROVE  /\ obj' \in Model /\ pc = "pod" /\ pc' = "status"
         /\ stale' = stale /\ failed' \in BOOLEAN
         /\ obj'.gone = obj.gone /\ obj'.deleting = obj.deleting
         /\ obj'.finalizer = obj.finalizer
         /\ obj'.storageCreated = obj.storageCreated
         /\ obj'.modelLoaded => obj.modelLoaded \/ pod = "Succeeded"
         /\ obj'.phase = "Ready" => obj.phase = "Ready" \/ pod = "Succeeded"
         /\ pod' = pod \/ pod' = "Pending"
<1>1. obj \in Model /\ claim \in BOOLEAN
  BY DEF TypeOK
<1>2. /\ pc = "pod" /\ pc' = "status" /\ stale' = stale
      /\ failed' \in {TRUE, FALSE, ~claim}
      /\ \/ obj' = obj
         \/ obj' = [obj EXCEPT !.phase = "ModelLoading"]
         \/ obj' = [obj EXCEPT !.phase = "Failed"]
         \/ pod = "Succeeded" /\ obj' = [obj EXCEPT !.phase = "Ready", !.modelLoaded = TRUE]
  BY DEF EnsurePod, EnsurePodFails, Return
<1>3. pod' = pod \/ pod' = "Pending"
  BY DEF EnsurePod, EnsurePodFails, cluster
<1>4. failed' \in BOOLEAN
  BY <1>1, <1>2
<1>5. CASE obj' = obj
  BY <1>1, <1>2, <1>3, <1>4, <1>5
<1>6. CASE obj' = [obj EXCEPT !.phase = "ModelLoading"]
  BY <1>1, <1>2, <1>3, <1>4, <1>6 DEF Model, Phases
<1>7. CASE obj' = [obj EXCEPT !.phase = "Failed"]
  BY <1>1, <1>2, <1>3, <1>4, <1>7 DEF Model, Phases
<1>8. CASE pod = "Succeeded" /\ obj' = [obj EXCEPT !.phase = "Ready", !.modelLoaded = TRUE]
  BY <1>1, <1>2, <1>3, <1>4, <1>8 DEF Model, Phases
<1> QED
  BY <1>2, <1>5, <1>6, <1>7, <1>8

\* Every step keeps the types.
LEMMA TypeStep ==
  ASSUME TypeOK, [Next]_vars
  PROVE  TypeOK'
<1> USE ModelAssumption
<1> DEFINE Calls == {"idle", "addFinalizer", "storage", "pod", "status", "deletePod",
                     "removeFinalizer"}
<1> DEFINE Logs == log' \in Seq(Model) /\ Len(log') \in 1 .. MaxLag + 1
<1>0. NewModel \in Model /\ Cached \in Model /\ Latest \in Model /\ obj \in Model
  BY VersionsOfLog DEF NewModel, Model, Phases, TypeOK
<1>a. /\ [obj EXCEPT !.finalizer = TRUE] \in Model
      /\ [obj EXCEPT !.finalizer = FALSE, !.gone = TRUE] \in Model
      /\ [obj EXCEPT !.phase = "StorageCreating"] \in Model
  BY <1>0 DEF Model, Phases
<1>1. CASE GetModel
  <2>1. obj' \in Model /\ failed' \in BOOLEAN
    BY <1>0, <1>1 DEF GetModel, TypeOK, running
  <2>2. pc' \in Calls
    BY <1>1 DEF GetModel, FirstCall, TypeOK, running
  <2>3. stale' \in BOOLEAN
    <3>1. CASE Cached.gone
      BY <1>1, <3>1 DEF GetModel, TypeOK, running
    <3>2. CASE ~Cached.gone
      <4>1. stale' = (Len(log) > 1)
        BY <1>1, <3>2 DEF GetModel
      <4>2. Len(log) \in Nat
        BY DEF TypeOK
      <4>3. (Len(log) > 1) \in BOOLEAN
        BY <4>2
      <4> QED
        BY <4>1, <4>3, Zenon
    <3> QED
      BY <3>1, <3>2
  <2> QED
    BY <1>1, <2>1, <2>2, <2>3 DEF GetModel, TypeOK, cluster, bounds, spec
<1>2. CASE AddFinalizer
  <2>1. Logs
    BY <1>2, <1>a, StoreVersion DEF AddFinalizer, TypeOK
  <2>2. obj' \in Model /\ pc' = "status" /\ failed' \in BOOLEAN /\ stale' \in BOOLEAN
    BY <1>2, <1>0, <1>a DEF AddFinalizer, Return, TypeOK
  <2> QED
    BY <1>2, <2>1, <2>2 DEF AddFinalizer, TypeOK, cluster, bounds, spec
<1>3. CASE EnsureStorage
  <2>1. UNCHANGED <<spec, log, queued, pod, downloaded, dropped, bounds>>
    BY <1>3 DEF EnsureStorage
  <2> QED
    BY <1>3, <2>1, StorageCopy DEF TypeOK, bounds, spec
<1>4. CASE EnsureStorageFails
  <2>1. faults' \in 0 .. MaxFaults
    BY <1>4 DEF EnsureStorageFails, Fault, TypeOK
  <2> QED
    BY <1>4, <1>a, <2>1 DEF EnsureStorageFails, Return, TypeOK, cluster, spec
<1>5. CASE EnsurePod
  <2>1. UNCHANGED <<spec, claim, log, queued, pvc, downloaded, dropped, bounds>>
    BY <1>5 DEF EnsurePod
  <2>2. pod' \in PodPhases
    BY <1>5, PodCopy DEF TypeOK, PodPhases
  <2> QED
    BY <1>5, <2>1, <2>2, PodCopy DEF TypeOK, bounds, spec
<1>6. CASE EnsurePodFails
  <2>1. faults' \in 0 .. MaxFaults
    BY <1>6 DEF EnsurePodFails, Fault, TypeOK
  <2>2. UNCHANGED <<spec, claim, log, queued, cluster, dropped, deletions>>
    BY <1>6 DEF EnsurePodFails
  <2> QED
    BY <1>6, <2>1, <2>2, PodCopy DEF TypeOK, cluster, spec
<1>7. CASE UpdateStatus \/ RemoveFinalizer
  <2>1. Logs
    BY <1>7, <1>0, <1>a, StoreVersion DEF UpdateStatus, RemoveFinalizer, TypeOK
  <2>2. /\ UNCHANGED <<spec, cluster, dropped, bounds>>
        /\ Finish(TRUE) \/ Finish(FALSE) \/ Finish(failed)
    BY <1>7 DEF UpdateStatus, RemoveFinalizer
  <2>3. /\ pc' = "idle" /\ obj' \in Model /\ stale' = FALSE /\ claim' = FALSE
        /\ failed' = FALSE
    BY <1>0, <2>2 DEF Finish
  <2>4. queued' \in BOOLEAN
    <3>1. queued \in BOOLEAN /\ failed \in BOOLEAN
      BY DEF TypeOK
    <3> QED
      BY <2>2, <3>1, Zenon DEF Finish
  <2> QED
    BY <2>1, <2>2, <2>3, <2>4 DEF TypeOK, cluster, bounds, spec
<1>8. CASE DeletePod
  BY <1>8 DEF DeletePod, Goto, TypeOK, bounds, spec, PodPhases
<1>9. CASE DeletePodFails \/ UpdateFails
  <2>1. faults' \in 0 .. MaxFaults
    <3>1. Fault
      BY <1>9 DEF DeletePodFails, UpdateFails
    <3> QED
      BY <3>1 DEF Fault, TypeOK
  <2>2. dropped' \in BOOLEAN /\ UNCHANGED <<spec, log, cluster, deletions>>
    BY <1>9 DEF DeletePodFails, UpdateFails, TypeOK
  <2>3. queued' \in BOOLEAN
    <3>1. queued \in BOOLEAN
      BY DEF TypeOK
    <3> QED
      BY <1>9, <3>1, Zenon DEF DeletePodFails, UpdateFails, Finish
  <2>4. /\ pc' \in Calls /\ obj' \in Model /\ stale' \in BOOLEAN /\ claim' \in BOOLEAN
        /\ failed' \in BOOLEAN
    BY <1>0, <1>9 DEF DeletePodFails, UpdateFails, Finish, Return, TypeOK
  <2> QED
    BY <2>1, <2>2, <2>3, <2>4 DEF TypeOK, cluster, spec
<1>10. CASE Watch
  BY <1>10, WatchVersion DEF Watch, TypeOK, running, cluster, bounds, spec
<1>11. CASE Resync
  BY <1>11 DEF Resync, TypeOK, running, cluster, bounds, spec
<1>12. CASE Restart
  <2>1. faults' \in 0 .. MaxFaults
    BY <1>12 DEF Restart, Fault, TypeOK
  <2>2. Logs
    BY <1>12, RestartVersion DEF Restart
  <2> QED
    BY <1>0, <1>12, <2>1, <2>2 DEF Restart, TypeOK, cluster, spec
<1>13. CASE DeleteModel
  <2>1. [Latest EXCEPT !.deleting = TRUE, !.gone = ~Latest.finalizer] \in Model
    BY <1>0 DEF Model
  <2>2. Logs
    BY <1>13, <2>1, StoreVersion DEF DeleteModel
  <2> QED
    BY <1>13, <2>2 DEF DeleteModel, TypeOK, cluster, bounds, spec
<1>14. CASE PodProgress
  BY <1>14 DEF PodProgress, TypeOK, running, bounds, spec, PodPhases
<1>15. CASE PodDeleted
  <2>1. deletions' \in 0 .. MaxPods
    BY <1>15 DEF PodDeleted, TypeOK
  <2> QED
    BY <1>15, <2>1 DEF PodDeleted, TypeOK, running, spec, PodPhases
<1>16. CASE UNCHANGED vars
  BY <1>16 DEF vars, TypeOK, running, cluster, bounds, spec
<1> QED
  BY <1>1, <1>2, <1>3, <1>4, <1>5, <1>6, <1>7, <1>8, <1>9, <1>10, <1>11, <1>12, <1>13,
     <1>14, <1>15, <1>16 DEF Next, Reconcile, Failures

-----------------------------------------------------------------------------
\* A Reconcile that ends without having written anything.
LEMMA IdleStep ==
  ASSUME ModInv, pc' = "idle", obj' = NewModel, UNCHANGED <<spec, log, cluster>>
  PROVE  SafeInv'
<1>1. /\ Latest' = Latest /\ Versions' = Versions
      /\ ~NewModel.storageCreated /\ ~NewModel.modelLoaded /\ NewModel.phase # "Ready"
  BY DEF Latest, Versions, NewModel
<1> QED
  BY <1>1 DEF ModInv, SafeInv, CopyInv, OwnedInv, PastInv, FinalInv, Creating, Removing,
     Copies, Loaded, cluster, spec

\* Reconcile starts with a version of the cache.
LEMMA GetStep ==
  ASSUME ModInv, GetModel
  PROVE  SafeInv'
<1>1. /\ UNCHANGED <<log, source, pvc, pod, downloaded>>
      /\ Latest' = Latest /\ Versions' = Versions
  BY DEF GetModel, cluster, spec, Latest, Versions
<1>2. CASE Cached.gone
  <2>1. UNCHANGED <<pc, obj, stale>>
    BY <1>2 DEF GetModel, running
  <2> QED
    BY <1>1, <2>1 DEF ModInv, SafeInv, CopyInv, OwnedInv, PastInv, FinalInv, Creates, Copies,
       Loaded
<1>3. CASE ~Cached.gone
  <2>1. /\ Cached \in Versions /\ Cached \in Model /\ Latest \in Model
        /\ Len(log) = 1 => Cached = Latest
    BY VersionsOfLog DEF ModInv
  <2>2. pc' = FirstCall(Cached) /\ obj' = Cached /\ (~stale' => Len(log) = 1)
    <3>1. pc' = FirstCall(Cached) /\ obj' = Cached /\ stale' = (Len(log) > 1)
      BY <1>3 DEF GetModel
    <3>2. \A n \in Nat : n >= 1 => n > 1 \/ n = 1
      OBVIOUS
    <3>3. Len(log) > 1 \/ Len(log) = 1
      <4>1. Len(log) \in Nat /\ Len(log) >= 1
        BY ModelAssumption DEF ModInv, TypeOK
      <4> QED
        BY <3>2, <4>1, Zenon
    <3> QED
      BY <3>1, <3>3, Zenon
  <2>3. /\ pc' # "idle" /\ pc' # "pod"
        /\ pc' = "removeFinalizer" => source # "huggingface"
        /\ pc' \in Creating => Creates(obj')
        /\ pc' \in Removing => obj'.deleting
        /\ obj'.phase \in Terminal => pc' \in {"status"} \cup Removing
    BY <1>3, <2>2 DEF FirstCall, Creating, Removing, Creates
  <2>4. CopyInv'
    BY <1>1, <1>3, <2>1, <2>2, <2>3 DEF CopyInv, Creates
  <2>5. OwnedInv'
    <3>1. ~Latest.finalizer => pc' \notin Creating
      BY <2>1, <2>2, <2>3 DEF ModInv, SafeInv, OwnedInv
    <3> QED
      BY <1>1, <2>3, <3>1 DEF ModInv, SafeInv, OwnedInv
  <2>6. PastInv'
    BY <1>1, <2>1, <2>2, <2>3 DEF ModInv, SafeInv, PastInv, Copies, Loaded
  <2>7. FinalInv'
    <3>1. pc' = "addFinalizer" => obj'.phase \notin Terminal
      BY <2>3 DEF Removing
    <3> QED
      BY <1>1, <2>1, <2>2, <2>3, <3>1 DEF FinalInv
  <2> QED
    BY <2>4, <2>5, <2>6, <2>7 DEF SafeInv
<1> QED
  BY <1>2, <1>3

\* The storage and the worker pod are looked up and created.
LEMMA CreateStep ==
  ASSUME ModInv, EnsureStorage \/ EnsureStorageFails \/ EnsurePod \/ EnsurePodFails
  PROVE  SafeInv' /\ log' = log
<1>1. /\ pc \in Creating /\ pc' \in {"pod", "status"}
      /\ UNCHANGED <<log, source, downloaded, stale>>
      /\ pvc' = pvc \/ pvc' = TRUE
      /\ pod' = pod \/ pod = "none" \/ pod' = "Pending"
      /\ pod' # pod => pc = "pod" /\ pod' = "Pending"
      /\ obj'.gone = obj.gone /\ obj'.deleting = obj.deleting
      /\ obj'.finalizer = obj.finalizer
      /\ obj'.storageCreated => pvc' \/ obj.storageCreated
      /\ obj'.modelLoaded => \/ obj.modelLoaded \/ source = "none"
                             \/ pc = "pod" /\ pod = "Succeeded"
      /\ obj'.phase = "Ready" =>
           \/ obj.phase = "Ready"
           \/ obj'.storageCreated /\ (obj'.modelLoaded \/ source # "huggingface")
           \/ pc = "pod" /\ pod = "Succeeded"
      /\ pc' = "pod" => source = "huggingface" /\ obj'.storageCreated
  <2>1. CASE EnsureStorage
    <3>1. UNCHANGED <<log, source, downloaded, pod>>
      BY <2>1 DEF EnsureStorage, spec
    <3> QED
      BY <2>1, <3>1, StorageCopy DEF ModInv, Creating
  <2>2. CASE EnsureStorageFails
    <3>1. obj' = [obj EXCEPT !.phase = "StorageCreating"] /\ obj \in Model
      BY <2>2 DEF EnsureStorageFails, Return, ModInv, TypeOK
    <3>2. /\ obj'.gone = obj.gone /\ obj'.deleting = obj.deleting
          /\ obj'.finalizer = obj.finalizer /\ obj'.storageCreated = obj.storageCreated
          /\ obj'.modelLoaded = obj.modelLoaded /\ obj'.phase # "Ready"
      BY <3>1 DEF Model
    <3>3. /\ pc = "storage" /\ pc' = "status"
          /\ UNCHANGED <<log, source, downloaded, stale, pvc, pod>>
      BY <2>2 DEF EnsureStorageFails, Return, spec, cluster
    <3> QED
      BY <3>2, <3>3 DEF Creating
  <2>3. CASE EnsurePod \/ EnsurePodFails
    <3>1. UNCHANGED <<log, source, downloaded, pvc>>
      BY <2>3 DEF EnsurePod, EnsurePodFails, spec, cluster
    <3> QED
      BY <2>3, <3>1, PodCopy DEF ModInv, Creating
  <2> QED
    BY <2>1, <2>2, <2>3
<1>2. Latest' = Latest /\ Versions' = Versions
  BY <1>1 DEF Latest, Versions
<1>3. CopyInv'
  BY <1>1, <1>2 DEF ModInv, SafeInv, CopyInv, Creating, Removing, Creates
<1>4. Latest.finalizer
  BY <1>1 DEF ModInv, SafeInv, OwnedInv
<1>5. OwnedInv'
  BY <1>1, <1>2, <1>4 DEF ModInv, SafeInv, OwnedInv
<1>6. PastInv'
  <2>1. pvc \in BOOLEAN
    BY DEF ModInv, TypeOK
  <2>2. /\ obj.storageCreated => pvc /\ pvc'
        /\ obj.modelLoaded => Loaded
        /\ obj.phase = "Ready" => pvc /\ pvc' /\ Loaded
        /\ pod = "Succeeded" => Loaded
        /\ source = "none" => Loaded
        /\ source # "huggingface" => Loaded
        /\ pc = "pod" => pvc /\ pvc'
        /\ pvc => pvc'
        /\ Loaded' = Loaded
    BY <1>1, <2>1 DEF ModInv, SafeInv, PastInv, Copies, Loaded
  <2>3. /\ obj'.storageCreated => pvc'
        /\ obj'.modelLoaded => Loaded'
        /\ obj'.phase = "Ready" => pvc' /\ Loaded'
    BY <1>1, <2>2
  <2>4. pod' = "Succeeded" => downloaded'
    BY <1>1 DEF ModInv, SafeInv, PastInv
  <2> QED
    BY <1>1, <1>2, <2>2, <2>3, <2>4 DEF ModInv, SafeInv, PastInv, Copies
<1>7. FinalInv'
  BY <1>1, <1>2 DEF ModInv, SafeInv, FinalInv, Creating, Removing
<1> QED
  BY <1>1, <1>3, <1>5, <1>6, <1>7 DEF SafeInv

\* A version is stored that was made from the latest one.
LEMMA StoreStep ==
  ASSUME ModInv, NEW m \in Model, Store(m), pc' \in {"idle", "status"},
         UNCHANGED <<source, pvc, pod, downloaded>>,
         pc' = "status" => obj' = m /\ ~m.gone, pc' = "idle" => obj' = NewModel,
         ~Latest.gone,
         \/ ~m.gone /\ (m.finalizer \/ ~Latest.finalizer)
         \/ /\ m.gone /\ ~m.finalizer /\ pod = "none"
            /\ \A v \in Versions : ~Creates(v),
         m.storageCreated => pvc,
         m.modelLoaded => Loaded,
         m.phase = "Ready" => pvc /\ Loaded
  PROVE  SafeInv' /\ Latest' = m
<1>1. Latest' = m /\ Versions' \subseteq Versions \cup {m}
  BY StoreVersion DEF ModInv
<1>2. ~NewModel.storageCreated /\ ~NewModel.modelLoaded /\ NewModel.phase # "Ready"
  BY DEF NewModel
<1>3. CopyInv'
  BY <1>1 DEF CopyInv, Creating, Removing
<1>4. OwnedInv'
  BY <1>1 DEF ModInv, SafeInv, OwnedInv, Creates, Creating
<1>5. PastInv'
  BY <1>1, <1>2 DEF ModInv, SafeInv, PastInv, Copies, Loaded
<1>6. FinalInv'
  BY <1>1 DEF FinalInv
<1> QED
  BY <1>1, <1>3, <1>4, <1>5, <1>6 DEF SafeInv

\* The finalizer is added.
LEMMA FinalizerStep ==
  ASSUME ModInv, AddFinalizer
  PROVE  SafeInv' /\ (Latest.phase \in Terminal => Latest' = Latest)
<1>1. pc = "addFinalizer" /\ pc' = "status" /\ UNCHANGED <<source, pvc, pod, downloaded, stale>>
  BY DEF AddFinalizer, Return, cluster, spec
<1>2. CASE stale
  <2>1. log' = log /\ obj' = obj /\ Latest' = Latest /\ Versions' = Versions
    BY <1>2 DEF AddFinalizer, Return, Latest, Versions
  <2> QED
    BY <1>1, <1>2, <2>1 DEF ModInv, SafeInv, CopyInv, OwnedInv, PastInv, FinalInv, Copies,
       Loaded, Creating, Removing
<1>3. CASE ~stale
  <2> DEFINE m == [obj EXCEPT !.finalizer = TRUE]
  <2>1. obj \in Model /\ ~obj.gone /\ ~Latest.gone
    BY <1>1, <1>3 DEF ModInv, SafeInv, CopyInv, TypeOK
  <2>2. /\ m \in Model /\ ~m.gone /\ m.finalizer /\ m.phase = obj.phase
        /\ m.storageCreated = obj.storageCreated /\ m.modelLoaded = obj.modelLoaded
    BY <2>1 DEF Model
  <2>3. Store(m) /\ obj' = m
    BY <1>3 DEF AddFinalizer, Return
  <2> HIDE DEF m
  <2>4. /\ m.storageCreated => pvc
        /\ m.modelLoaded => Loaded
        /\ m.phase = "Ready" => pvc /\ Loaded
    BY <2>2 DEF ModInv, SafeInv, PastInv, Copies
  <2>5. Latest.phase \notin Terminal
    BY <1>1, <1>3 DEF ModInv, SafeInv, FinalInv, Removing
  <2>6. SafeInv'
    BY <1>1, <2>1, <2>2, <2>3, <2>4, StoreStep
  <2> QED
    BY <2>5, <2>6
<1> QED
  BY <1>2, <1>3

\* The status is written, or refused if the copy is old.
LEMMA StatusStep ==
  ASSUME ModInv, UpdateStatus
  PROVE  SafeInv' /\ (Latest.phase \in Terminal => Latest'.phase = Latest.phase)
<1>1. /\ pc = "status" /\ pc' = "idle" /\ obj' = NewModel
      /\ UNCHANGED <<spec, cluster, source, pvc, pod, downloaded>>
  BY DEF UpdateStatus, Finish, cluster, spec
<1>2. CASE stale
  <2>1. log' = log
    BY <1>2 DEF UpdateStatus
  <2> QED
    BY <1>1, <2>1, IdleStep DEF Latest
<1>3. CASE ~stale
  <2>1. Store(obj)
    BY <1>3 DEF UpdateStatus
  <2>2. obj \in Model /\ ~obj.gone /\ ~Latest.gone /\ obj.finalizer = Latest.finalizer
    BY <1>1, <1>3 DEF ModInv, SafeInv, CopyInv, TypeOK
  <2>3. /\ obj.storageCreated => pvc
        /\ obj.modelLoaded => Loaded
        /\ obj.phase = "Ready" => pvc /\ Loaded
    BY DEF ModInv, SafeInv, PastInv, Copies
  <2>4. Latest.phase \in Terminal => obj.phase = Latest.phase
    BY <1>1, <1>3 DEF ModInv, SafeInv, FinalInv
  <2>5. SafeInv' /\ Latest' = obj
    BY <1>1, <2>1, <2>2, <2>3, StoreStep
  <2> QED
    BY <2>4, <2>5
<1> QED
  BY <1>2, <1>3

\* remove deletes the worker pod, and lets the model go.
LEMMA RemoveStep ==
  ASSUME ModInv, DeletePod \/ RemoveFinalizer
  PROVE  SafeInv' /\ (Latest.phase \in Terminal => Latest'.phase = Latest.phase)
<1>1. CASE DeletePod
  <2>1. /\ pc = "deletePod" /\ pc' = "removeFinalizer" /\ pod' = "none"
        /\ UNCHANGED <<log, source, pvc, downloaded, obj, stale>>
        /\ Latest' = Latest /\ Versions' = Versions
    BY <1>1 DEF DeletePod, Goto, spec, Latest, Versions
  <2>2. CopyInv' /\ OwnedInv'
    BY <2>1 DEF ModInv, SafeInv, CopyInv, OwnedInv, Creating, Removing
  <2>3. PastInv' /\ FinalInv'
    BY <2>1 DEF ModInv, SafeInv, PastInv, FinalInv, Copies, Loaded, Removing
  <2> QED
    BY <2>1, <2>2, <2>3 DEF SafeInv
<1>2. CASE RemoveFinalizer
  <2>1. /\ pc = "removeFinalizer" /\ pc' = "idle" /\ obj' = NewModel
        /\ UNCHANGED <<spec, cluster, source, pvc, pod, downloaded>>
    BY <1>2 DEF RemoveFinalizer, Finish, cluster, spec
  <2>2. CASE stale
    <3>1. log' = log
      BY <1>2, <2>2 DEF RemoveFinalizer
    <3> QED
      BY <2>1, <3>1, IdleStep DEF Latest
  <2>3. CASE ~stale
    <3> DEFINE m == [obj EXCEPT !.finalizer = FALSE, !.gone = TRUE]
    <3>1. Store(m)
      BY <1>2, <2>3 DEF RemoveFinalizer
    <3>2. obj \in Model /\ ~Latest.gone /\ Latest.deleting /\ Len(log) = 1 /\ pod = "none"
      BY <2>1, <2>3 DEF ModInv, SafeInv, CopyInv, OwnedInv, TypeOK, Removing
    <3>3. /\ m \in Model /\ m.gone /\ ~m.finalizer /\ m.phase = obj.phase
          /\ m.storageCreated = obj.storageCreated /\ m.modelLoaded = obj.modelLoaded
      BY <3>2 DEF Model
    <3> HIDE DEF m
    <3>4. \A v \in Versions : ~Creates(v)
      BY <3>2, VersionsOfLog DEF ModInv, Creates
    <3>5. /\ m.storageCreated => pvc
          /\ m.modelLoaded => Loaded
          /\ m.phase = "Ready" => pvc /\ Loaded
      BY <3>3 DEF ModInv, SafeInv, PastInv, Copies
    <3>6. Latest.phase \in Terminal => obj.phase = Latest.phase
      BY <2>1, <2>3 DEF ModInv, SafeInv, FinalInv
    <3>7. SafeInv' /\ Latest' = m
      BY <2>1, <3>1, <3>2, <3>3, <3>4, <3>5, StoreStep
    <3> QED
      BY <3>3, <3>6, <3>7
  <2> QED
    BY <2>2, <2>3
<1> QED
  BY <1>1, <1>2

\* A call of remove fails, or one that updates the model or its status.
LEMMA FailStep ==
  ASSUME ModInv, DeletePodFails \/ UpdateFails
  PROVE  SafeInv' /\ log' = log
<1>1. UNCHANGED <<spec, log, cluster>> /\ Latest' = Latest /\ Versions' = Versions
  BY DEF DeletePodFails, UpdateFails, Latest, Versions
<1>2. CASE pc' = "idle" /\ obj' = NewModel
  BY <1>1, <1>2, IdleStep
<1>3. CASE pc = "addFinalizer" /\ pc' = "status" /\ UNCHANGED <<obj, stale>>
  BY <1>1, <1>3 DEF ModInv, SafeInv, CopyInv, OwnedInv, PastInv, FinalInv, Copies, Loaded,
     Creating, Removing, cluster, spec
<1> QED
  BY <1>1, <1>2, <1>3 DEF DeletePodFails, UpdateFails, Finish, Return

\* Watch events, resyncs and restarts change no object.
LEMMA CacheStep ==
  ASSUME ModInv, Watch \/ Resync \/ Restart \/ UNCHANGED vars
  PROVE  SafeInv' /\ Latest' = Latest
<1>1. /\ UNCHANGED <<source, pvc, pod, downloaded>>
      /\ \/ UNCHANGED <<pc, obj, stale>> /\ (log' = log \/ Len(log) > 1)
         \/ pc' = "idle" /\ obj' = NewModel
  BY DEF Watch, Resync, Restart, vars, running, cluster, spec
<1>2. Latest' = Latest /\ Versions' \subseteq Versions
  <2>1. CASE log' = log
    BY <2>1 DEF Latest, Versions
  <2>2. CASE log' # log
    BY <2>2, WatchVersion, RestartVersion DEF ModInv, Watch, Resync, Restart, vars
  <2> QED
    BY <2>1, <2>2
<1>3. CopyInv'
  <2>1. CASE pc' = "idle"
    BY <1>2, <2>1 DEF CopyInv, Creating, Removing
  <2>2. CASE UNCHANGED <<pc, obj, stale>> /\ log' = log
    BY <1>2, <2>2 DEF ModInv, SafeInv, CopyInv, Creates
  <2>3. CASE UNCHANGED <<pc, obj, stale>> /\ Len(log) > 1
    <3>1. pc \in Removing => stale
      <4>1. stale \in BOOLEAN /\ Len(log) \in Nat
        BY DEF ModInv, TypeOK
      <4>2. Len(log) # 1
        BY <2>3, <4>1
      <4> QED
        BY <4>1, <4>2 DEF ModInv, SafeInv, CopyInv
    <3> QED
      BY <1>2, <2>3, <3>1 DEF ModInv, SafeInv, CopyInv, Creates
  <2> QED
    BY <1>1, <2>1, <2>2, <2>3
<1>4. OwnedInv' /\ FinalInv'
  BY <1>1, <1>2 DEF ModInv, SafeInv, OwnedInv, FinalInv, Creating
<1>5. PastInv'
  <2>1. ~NewModel.storageCreated /\ ~NewModel.modelLoaded /\ NewModel.phase # "Ready"
    BY DEF NewModel
  <2> QED
    BY <1>1, <1>2, <2>1 DEF ModInv, SafeInv, PastInv, Copies, Loaded
<1> QED
  BY <1>2, <1>3, <1>4, <1>5 DEF SafeInv

\* The user deletes the model, and the worker pod changes or is deleted.
LEMMA OthersStep ==
  ASSUME ModInv, DeleteModel \/ PodProgress \/ PodDeleted
  PROVE  SafeInv' /\ Latest'.phase = Latest.phase
<1>1. CASE DeleteModel
  <2> DEFINE m == [Latest EXCEPT !.deleting = TRUE, !.gone = ~Latest.finalizer]
  <2>1. /\ Store(m) /\ ~Latest.gone /\ (pc # "idle" => stale')
        /\ UNCHANGED <<pc, obj, source, pvc, pod, downloaded>>
    BY <1>1 DEF DeleteModel, cluster, spec
  <2>2. Latest \in Model /\ Latest \in Versions
    BY VersionsOfLog DEF ModInv
  <2>3. /\ m \in Model /\ m.deleting /\ m.finalizer = Latest.finalizer
        /\ m.gone => ~m.finalizer
        /\ m.phase = Latest.phase
        /\ m.storageCreated = Latest.storageCreated /\ m.modelLoaded = Latest.modelLoaded
    BY <2>2 DEF Model
  <2> HIDE DEF m
  <2>4. Latest' = m /\ Versions' \subseteq Versions \cup {m}
    BY <2>1, <2>3, StoreVersion DEF ModInv
  <2>5. CopyInv' /\ FinalInv'
    BY <2>1 DEF ModInv, SafeInv, CopyInv, FinalInv, Creates, Creating, Removing
  <2>6. OwnedInv'
    BY <2>1, <2>3, <2>4 DEF ModInv, SafeInv, OwnedInv, Creates
  <2>7. PastInv'
    BY <2>1, <2>2, <2>3, <2>4 DEF ModInv, SafeInv, PastInv, Copies, Loaded
  <2> QED
    BY <2>3, <2>4, <2>5, <2>6, <2>7 DEF SafeInv
<1>2. CASE PodProgress \/ PodDeleted
  <2>1. /\ UNCHANGED <<log, pc, obj, stale, source, pvc>>
        /\ Latest' = Latest /\ Versions' = Versions
        /\ pod # "none"
        /\ downloaded => downloaded'
        /\ pod' = "Succeeded" => downloaded'
    <3>1. UNCHANGED <<log, pc, obj, stale, source, pvc>> /\ pod # "none"
      BY <1>2 DEF PodProgress, PodDeleted, running, spec
    <3>2. (downloaded => downloaded') /\ (pod' = "Succeeded" => downloaded')
      <4>1. CASE PodProgress
        <5>1. downloaded' = (downloaded \/ pod' = "Succeeded")
          BY <4>1 DEF PodProgress
        <5> QED
          BY <5>1, Zenon
      <4>2. CASE PodDeleted
        BY <4>2 DEF PodDeleted
      <4> QED
        BY <1>2, <4>1, <4>2
    <3> QED
      BY <3>1, <3>2 DEF Latest, Versions
  <2>2. CopyInv' /\ FinalInv'
    BY <2>1 DEF ModInv, SafeInv, CopyInv, FinalInv, Creates
  <2>3. OwnedInv'
    BY <2>1 DEF ModInv, SafeInv, OwnedInv
  <2>4. PastInv'
    BY <2>1 DEF ModInv, SafeInv, PastInv, Copies, Loaded
  <2> QED
    BY <2>1, <2>2, <2>3, <2>4 DEF SafeInv
<1> QED
  BY <1>1, <1>2

-----------------------------------------------------------------------------
\* The inductive invariant holds in every state.
LEMMA Inductive == Spec => []ModInv
<1>1. Init => ModInv
  <2> SUFFICES ASSUME Init PROVE ModInv
    OBVIOUS
  <2>1. /\ NewModel \in Model /\ ~NewModel.gone /\ ~NewModel.finalizer
        /\ ~NewModel.storageCreated /\ ~NewModel.modelLoaded /\ NewModel.phase # "Ready"
    BY DEF NewModel, Model, Phases
  <2>2. /\ log \in Seq(Model) /\ Len(log) = 1 /\ Latest = NewModel
        /\ Versions = {NewModel} /\ obj = NewModel
    BY <2>1 DEF Init, Latest, Last, Versions
  <2>3. TypeOK
    <3>1. /\ Len(log) \in 1 .. MaxLag + 1
          /\ faults \in 0 .. MaxFaults /\ deletions \in 0 .. MaxPods
      BY <2>2, ModelAssumption DEF Init
    <3> QED
      BY <2>1, <2>2, <3>1 DEF Init, TypeOK, PodPhases
  <2>4. CopyInv /\ OwnedInv
    BY <2>1, <2>2 DEF Init, CopyInv, OwnedInv, Creating, Removing, Creates
  <2>5. PastInv /\ FinalInv
    BY <2>1, <2>2 DEF Init, PastInv, FinalInv, Copies
  <2> QED
    BY <2>3, <2>4, <2>5 DEF ModInv, SafeInv
<1>2. ModInv /\ [Next]_vars => ModInv'
  <2> SUFFICES ASSUME ModInv, [Next]_vars PROVE ModInv'
    OBVIOUS
  <2>1. TypeOK'
    BY TypeStep DEF ModInv
  <2>2. SafeInv'
    BY GetStep, CreateStep, FinalizerStep, StatusStep, RemoveStep, FailStep, CacheStep,
       OthersStep DEF Next, Reconcile, Failures
  <2> QED
    BY <2>1, <2>2 DEF ModInv
<1> QED
  BY <1>1, <1>2, PTL DEF Spec

\* The variables keep their types.
THEOREM TypeCorrect == Spec => []TypeOK
BY Inductive, PTL DEF ModInv

\* No worker pod outlives the model, whatever call failed and however old the
\* versions that Reconcile has worked on.
THEOREM NoPodLeft == Spec => []NoOrphanPod
<1>1. ModInv => NoOrphanPod
  BY DEF ModInv, SafeInv, OwnedInv, NoOrphanPod
<1> QED
  BY Inductive, <1>1, PTL

\* A model is Ready only if its PVC exists and, for one from Huggingface, a
\* worker pod has downloaded it.
THEOREM ReadyMeansDownloaded == Spec => []ReadyIsDownloaded
<1>1. ModInv => ReadyIsDownloaded
  BY VersionsOfLog DEF ModInv, SafeInv, PastInv, Copies, Loaded, ReadyIsDownloaded
<1> QED
  BY Inductive, <1>1, PTL

\* A terminal phase is final: no status update made from an older version sets
\* it back.
THEOREM TerminalLasts == Spec => TerminalIsFinal
<1>1. ModInv /\ [Next]_vars =>
        [Latest.phase \in Terminal => Latest'.phase = Latest.phase]_vars
  <2> SUFFICES ASSUME ModInv, Next
               PROVE  Latest.phase \in Terminal => Latest'.phase = Latest.phase
    OBVIOUS
  <2>1. ASSUME log' = log PROVE Latest' = Latest
    BY <2>1 DEF Latest
  <2>2. GetModel => log' = log
    BY DEF GetModel
  <2> QED
    BY <2>1, <2>2, CreateStep, FinalizerStep, StatusStep, RemoveStep, FailStep, CacheStep,
       OthersStep DEF Next, Reconcile, Failures
<1> QED
  BY Inductive, <1>1, PTL DEF Spec, TerminalIsFinal

-----------------------------------------------------------------------------
\* The model is to be looked at again: it is queued, or a watch event that will
\* queue it is on its way.
Awaited == queued \/ Len(log) > 1

\* Nothing is left to do.
Quiet == pc = "idle" /\ ~Awaited

\* Version m is final, or the end of the worker pod will queue the model.
Rests(m) == m.phase \in Terminal \/ pod \in {"Pending", "Running"}

\* Unless the model is awaited, an idle controller has dealt with its latest
\* version, and one that runs is dealing with it.
AwaitInv ==
  /\ stale => Awaited /\ pc # "idle"
  /\ Latest.gone => Latest.deleting
  /\ pc \in {"addFinalizer", "status"} => ~obj.deleting
  /\ pc = "addFinalizer" => ~obj.finalizer
  /\ ~Awaited =>
       /\ pc = "idle" /\ Latest.deleting => Latest.gone \/ dropped
       /\ pc = "idle" /\ ~Latest.deleting => Rests(Latest)
       /\ pc = "status" /\ ~failed => Rests(obj)

\* A step of the environment, of the cache, or of a Reconcile that returns an error,
\* after which the model is awaited.
LEMMA AwaitedStep ==
  ASSUME AwaitInv, Awaited', Latest'.gone => Latest'.deleting,
         \/ UNCHANGED <<pc, obj>> /\ (stale' => stale \/ pc # "idle")
         \/ pc' = "idle" /\ ~stale'
  PROVE  AwaitInv'
BY DEF AwaitInv

\* A stored version that differs from the latest is announced by a watch event.
LEMMA StoreAwaited ==
  ASSUME TypeOK, NEW m, Store(m), m # Latest
  PROVE  Awaited'
<1>1. log' = Append(log, m)
  BY DEF Store
<1>2. Len(log') = Len(log) + 1 /\ Len(log) \in Nat /\ Len(log) >= 1
  BY <1>1, ModelAssumption DEF TypeOK
<1>3. Len(log') > 1
  BY ONLY <1>2
<1> QED
  BY <1>3 DEF Awaited

\* The user, the cache and the worker pod have the model awaited.
LEMMA OutsideAwait ==
  ASSUME ModInv, AwaitInv,
         \/ Watch \/ Resync \/ Restart \/ DeleteModel \/ PodProgress \/ PodDeleted
         \/ UNCHANGED vars
  PROVE  AwaitInv'
<1>0. TypeOK /\ Latest \in Model
  BY VersionsOfLog DEF ModInv
<1>1. CASE Watch \/ Resync \/ Restart \/ PodProgress \/ PodDeleted
  <2>1. queued' = TRUE
    BY <1>1 DEF Watch, Resync, Restart, PodProgress, PodDeleted
  <2>2. Latest' = Latest
    <3>1. CASE Watch
      BY <1>0, <3>1, WatchVersion DEF Watch
    <3>2. CASE Restart
      BY <1>0, <3>2, RestartVersion DEF Restart
    <3>3. CASE Resync \/ PodProgress \/ PodDeleted
      BY <3>3 DEF Resync, PodProgress, PodDeleted, Latest
    <3> QED
      BY <1>1, <3>1, <3>2, <3>3
  <2>3. UNCHANGED <<pc, obj, stale>> \/ (pc' = "idle" /\ stale' = FALSE)
    BY <1>1 DEF Watch, Resync, Restart, PodProgress, PodDeleted, running
  <2> QED
    BY <2>1, <2>2, <2>3, AwaitedStep DEF AwaitInv, Awaited
<1>2. CASE DeleteModel
  <2> DEFINE m == [Latest EXCEPT !.deleting = TRUE, !.gone = ~Latest.finalizer]
  <2>1. /\ m \in Model /\ m.deleting /\ m # Latest
        /\ Store(m) /\ UNCHANGED <<pc, obj>> /\ stale' = (pc # "idle")
    BY <1>0, <1>2 DEF DeleteModel, Model
  <2> HIDE DEF m
  <2>2. Latest' = m /\ Awaited'
    BY <1>0, <2>1, StoreVersion, StoreAwaited
  <2> QED
    BY <2>1, <2>2, AwaitedStep
<1>3. CASE UNCHANGED vars
  <2>1. UNCHANGED <<log, queued, pc, obj, stale, failed, pod, dropped>>
    BY <1>3 DEF vars, running, cluster
  <2> QED
    BY <2>1 DEF AwaitInv, Awaited, Latest, Rests
<1> QED
  BY <1>1, <1>2, <1>3

\* A Reconcile starts with the latest version, or the latest is on its way.
LEMMA GetAwait ==
  ASSUME ModInv, AwaitInv, GetModel
  PROVE  AwaitInv'
<1>1. /\ TypeOK
      /\ Len(log) = 1 => Cached = Latest
      /\ Len(log) > 1 \/ Len(log) = 1
  <2>1. TypeOK /\ Len(log) \in Nat /\ Len(log) >= 1
    BY ModelAssumption DEF ModInv, TypeOK
  <2>2. \A n \in Nat : n >= 1 => n > 1 \/ n = 1
    OBVIOUS
  <2>3. Len(log) > 1 \/ Len(log) = 1
    BY <2>1, <2>2, Zenon
  <2> QED
    BY <2>1, <2>3, VersionsOfLog
<1>2. /\ UNCHANGED <<log, pod, dropped>> /\ queued' = FALSE /\ Latest' = Latest
      /\ pc = "idle" /\ ~stale
  BY DEF GetModel, Latest, cluster, AwaitInv
<1>3. CASE Cached.gone
  <2>1. pc' = "idle" /\ ~stale'
    BY <1>2, <1>3, Zenon DEF GetModel, running
  <2>2. CASE Len(log) > 1
    BY <1>2, <2>1, <2>2, AwaitedStep DEF AwaitInv, Awaited
  <2>3. CASE Len(log) = 1
    <3>1. Latest.gone /\ Latest.deleting
      BY <1>1, <1>3, <2>3 DEF AwaitInv
    <3> QED
      BY <1>2, <2>1, <3>1 DEF AwaitInv
  <2> QED
    BY <1>1, <2>2, <2>3
<1>4. CASE ~Cached.gone
  <2>1. pc' = FirstCall(Cached) /\ stale' = (Len(log) > 1) /\ obj' = Cached
    BY <1>4 DEF GetModel
  <2>2. /\ pc' # "idle"
        /\ pc' \in {"addFinalizer", "status"} => ~obj'.deleting
        /\ pc' = "addFinalizer" => ~obj'.finalizer
        /\ pc' = "status" => Rests(obj)'
    BY <2>1 DEF FirstCall, Rests
  <2>3. stale' => Awaited'
    BY <1>2, <2>1, Zenon DEF Awaited
  <2> QED
    BY <1>2, <2>2, <2>3 DEF AwaitInv
<1> QED
  BY <1>3, <1>4

\* The finalizer is a new version, and a failed update of it an error.
LEMMA FinalizerAwait ==
  ASSUME ModInv, AwaitInv, AddFinalizer
  PROVE  AwaitInv'
<1>1. UNCHANGED <<queued, stale>> /\ pc = "addFinalizer" /\ pc' = "status"
  BY DEF AddFinalizer, Return
<1>2. TypeOK /\ obj \in Model /\ ~obj.deleting /\ ~obj.finalizer /\ ~obj.gone
  BY <1>1 DEF ModInv, TypeOK, AwaitInv, SafeInv, CopyInv
<1>3. CASE stale
  <2>1. obj' = obj /\ failed' = TRUE /\ Latest' = Latest /\ (Awaited => Awaited')
    BY <1>1, <1>3 DEF AddFinalizer, Return, Latest, Awaited
  <2> QED
    BY <1>1, <1>2, <2>1 DEF AwaitInv
<1>4. CASE ~stale
  <2> DEFINE m == [obj EXCEPT !.finalizer = TRUE]
  <2>1. m \in Model /\ Store(m) /\ m.finalizer /\ ~m.gone /\ ~m.deleting /\ obj' = m
    BY <1>2, <1>4 DEF AddFinalizer, Return, Model
  <2>2. m # Latest
    BY <1>1, <1>2, <1>4, <2>1 DEF ModInv, SafeInv, CopyInv
  <2> HIDE DEF m
  <2>3. Latest' = m /\ Awaited'
    BY <1>2, <2>1, <2>2, StoreVersion, StoreAwaited
  <2> QED
    BY <1>1, <2>1, <2>3 DEF AwaitInv
<1> QED
  BY <1>3, <1>4

\* reconcile returns with a final phase, with a worker pod at work, or an error.
LEMMA CreateAwait ==
  ASSUME ModInv, AwaitInv,
         EnsureStorage \/ EnsureStorageFails \/ EnsurePod \/ EnsurePodFails
  PROVE  AwaitInv'
<1>1. /\ UNCHANGED <<log, queued, stale>> /\ Latest' = Latest /\ (Awaited => Awaited')
      /\ Awaited' => Awaited
      /\ pc \in Creating /\ pc' \in {"pod", "status"}
  BY DEF EnsureStorage, EnsureStorageFails, EnsurePod, EnsurePodFails, AfterStorage, Goto,
     Return, Latest, Awaited, Creating
<1>2. TypeOK /\ obj \in Model /\ ~obj.deleting
  BY <1>1 DEF ModInv, TypeOK, SafeInv, CopyInv, Creates
<1>3. obj'.deleting = obj.deleting
  <2>1. CASE EnsureStorage
    BY <1>2, <2>1, StorageCopy
  <2>2. CASE EnsurePod \/ EnsurePodFails
    BY <1>2, <2>2, PodCopy
  <2>3. CASE EnsureStorageFails
    BY <1>2, <2>3 DEF EnsureStorageFails, Return, Model
  <2> QED
    BY <2>1, <2>2, <2>3
<1>4. pc' = "status" /\ ~failed' => Rests(obj)'
  <2>1. CASE EnsureStorageFails \/ EnsurePodFails
    BY <2>1 DEF EnsureStorageFails, EnsurePodFails, Return
  <2>2. CASE EnsureStorage
    <3> DEFINE S == [obj EXCEPT !.phase = "StorageCreating", !.storageCreated = TRUE]
    <3>1. S \in Model
      BY <1>2 DEF Model, Phases
    <3>2. \/ pc' = "pod"
          \/ obj' = [obj EXCEPT !.phase = "Failed", !.storageCreated = FALSE]
          \/ \E m \in {obj, S} : obj' = [m EXCEPT !.phase = "Ready",
                                             !.modelLoaded = @ \/ source = "none"]
      BY <2>2 DEF EnsureStorage, AfterStorage, Goto, Return
    <3> HIDE DEF S
    <3>3. pc' = "status" => obj'.phase \in Terminal
      BY <1>2, <3>1, <3>2 DEF Model, Terminal
    <3> QED
      BY <3>3 DEF Rests
  <2>3. CASE EnsurePod
    <3>1. \/ failed' = ~claim /\ (claim => pod' = "Pending")
          \/ obj' = [obj EXCEPT !.phase = "Failed"]
          \/ obj' = [obj EXCEPT !.phase = "Ready", !.modelLoaded = TRUE]
          \/ pod \in {"Pending", "Running"} /\ pod' = pod
      BY <2>3 DEF EnsurePod, Return
    <3>2. \/ failed' = ~claim /\ (claim => pod' = "Pending")
          \/ obj'.phase \in Terminal
          \/ pod' \in {"Pending", "Running"}
      BY <1>2, <3>1 DEF Model, Terminal
    <3> QED
      BY <3>2, Zenon DEF Rests
  <2> QED
    BY <2>1, <2>2, <2>3
<1> QED
  BY <1>1, <1>2, <1>3, <1>4 DEF AwaitInv

\* The status update and remove leave nothing to do, or have the model awaited, or
\* remove has given up because the worker pod was not deleted.
LEMMA UpdateAwait ==
  ASSUME ModInv, AwaitInv,
         UpdateStatus \/ DeletePod \/ DeletePodFails \/ RemoveFinalizer \/ UpdateFails
  PROVE  AwaitInv'
<1>0. TypeOK /\ obj \in Model
  BY DEF ModInv, TypeOK
<1>1. CASE DeletePod
  <2>1. UNCHANGED <<log, queued, stale>> /\ pc' = "removeFinalizer" /\ Latest' = Latest
    BY <1>1 DEF DeletePod, Goto, Latest
  <2> QED
    BY <2>1 DEF AwaitInv, Awaited
<1>2. CASE DeletePodFails
  <2>1. /\ UNCHANGED <<log, pod>> /\ Latest' = Latest /\ pc = "deletePod" /\ pc' = "idle"
        /\ dropped' = TRUE /\ stale' = FALSE /\ queued' = (queued \/ FALSE)
    BY <1>2 DEF DeletePodFails, Finish, Latest, cluster
  <2>2. Awaited => Awaited'
    BY <2>1, Zenon DEF Awaited
  <2>3. ~Awaited => Latest.deleting
    BY <2>1 DEF ModInv, SafeInv, CopyInv, AwaitInv, Removing
  <2> QED
    BY <2>1, <2>2, <2>3 DEF AwaitInv
<1>3. CASE UpdateFails
  <2>1. CASE pc = "addFinalizer"
    <3>1. /\ UNCHANGED <<log, queued, stale, obj>> /\ pc' = "status" /\ failed' = TRUE
          /\ Latest' = Latest
      BY <1>3, <2>1 DEF UpdateFails, Return, Latest
    <3> QED
      BY <2>1, <3>1 DEF AwaitInv, Awaited
  <2>2. CASE pc # "addFinalizer"
    <3>1. queued' = TRUE /\ log' = log /\ Latest' = Latest /\ pc' = "idle" /\ ~stale'
      BY <1>3, <2>2 DEF UpdateFails, Finish, Latest
    <3> QED
      BY <3>1, AwaitedStep DEF AwaitInv, Awaited
  <2> QED
    BY <2>1, <2>2
<1>4. CASE (UpdateStatus \/ RemoveFinalizer) /\ stale
  <2>1. queued' = TRUE /\ log' = log /\ Latest' = Latest /\ pc' = "idle" /\ ~stale'
    BY <1>4 DEF UpdateStatus, RemoveFinalizer, Finish, Latest
  <2> QED
    BY <2>1, AwaitedStep DEF AwaitInv, Awaited
<1>5. CASE UpdateStatus /\ ~stale
  <2>1. /\ Store(obj) /\ queued' = (queued \/ failed) /\ pc = "status" /\ pc' = "idle"
        /\ ~stale' /\ pod' = pod /\ ~obj.deleting /\ ~obj.gone
    BY <1>5 DEF UpdateStatus, Finish, cluster, AwaitInv, ModInv, SafeInv, CopyInv
  <2>2. Latest' = obj
    BY <1>0, <2>1, StoreVersion
  <2>3. ASSUME ~Awaited'
        PROVE  ~Awaited /\ ~failed
    <3>1. obj = Latest
      BY <1>0, <2>1, <2>3, StoreAwaited
    <3>2. log' = log
      BY <2>1, <3>1 DEF Store
    <3> QED
      BY <2>1, <2>3, <3>2 DEF Awaited
  <2>4. ~Awaited' => Rests(Latest)'
    BY <2>1, <2>2, <2>3 DEF AwaitInv, Rests
  <2> QED
    BY <2>1, <2>2, <2>4 DEF AwaitInv
<1>6. CASE RemoveFinalizer /\ ~stale
  <2> DEFINE m == [obj EXCEPT !.finalizer = FALSE, !.gone = TRUE]
  <2>1. /\ Store(m) /\ m \in Model /\ m.gone /\ m.deleting /\ pc' = "idle" /\ ~stale'
    BY <1>0, <1>6 DEF RemoveFinalizer, Finish, Model, ModInv, SafeInv, CopyInv, Removing
  <2> HIDE DEF m
  <2>2. Latest' = m
    BY <1>0, <2>1, StoreVersion
  <2> QED
    BY <2>1, <2>2 DEF AwaitInv
<1> QED
  BY <1>1, <1>2, <1>3, <1>4, <1>5, <1>6

\* Unless it is awaited, the model has been or is being dealt with.
LEMMA AwaitInvariance == Spec => []AwaitInv
<1>1. Init => AwaitInv
  <2>1. Init => Latest = NewModel
    BY DEF Init, Latest, Last
  <2>2. Init => Awaited
    BY DEF Init, Awaited
  <2>3. Init => pc = "idle" /\ ~stale
    BY DEF Init
  <2>4. ~NewModel.gone
    BY DEF NewModel
  <2> QED
    BY <2>1, <2>2, <2>3, <2>4 DEF AwaitInv
<1>2. ModInv /\ AwaitInv /\ [Next]_vars => AwaitInv'
  BY OutsideAwait, GetAwait, FinalizerAwait, CreateAwait, UpdateAwait
  DEF Next, Reconcile, Failures
<1> QED
  BY <1>1, <1>2, Inductive, PTL DEF Spec

\* The safety half of PodEndIsReported: when nothing is left to do, a model that is
\* not being deleted is Ready or Failed, or its worker pod is at work, whose end
\* queues it.  In particular the end of a pod is never left unreported.
THEOREM NothingForgotten ==
  Spec => [](Quiet /\ ~Latest.deleting =>
               Latest.phase \in Terminal \/ pod \in {"Pending", "Running"})
<1>1. AwaitInv => (Quiet /\ ~Latest.deleting =>
                     Latest.phase \in Terminal \/ pod \in {"Pending", "Running"})
  BY DEF AwaitInv, Quiet, Rests
<1> QED
  BY <1>1, AwaitInvariance, PTL

\* The safety half of DeletionCompletes: a model that the user has deleted is gone
\* when nothing is left to do, unless deleting the worker pod failed, which remove
\* does not return.  No other failed call, conflict or restart makes the controller
\* forget it.
THEOREM DeletionPending ==
  Spec => [](Quiet /\ Latest.deleting => Latest.gone \/ dropped)
<1>1. AwaitInv => (Quiet /\ Latest.deleting => Latest.gone \/ dropped)
  BY DEF AwaitInv, Quiet
<1> QED
  BY <1>1, AwaitInvariance, PTL

-----------------------------------------------------------------------------
\* What a step shows of the model: its metadata and whether its pod exists.
Shown == <<Latest.finalizer, Latest.deleting, Latest.gone, Owned>>

\* Storage, the queue and the cache, failures and the progress of the pod show
\* nothing; nor does a status that is written.
LEMMA HiddenStep ==
  ASSUME ModInv, \/ GetModel \/ EnsureStorage \/ UpdateStatus \/ Failures
                 \/ Watch \/ Resync \/ Restart \/ PodProgress \/ UNCHANGED vars
  PROVE  UNCHANGED Shown
<1>0. TypeOK /\ Latest \in Model /\ obj \in Model
  BY VersionsOfLog DEF ModInv, TypeOK
<1>1. CASE UpdateStatus /\ ~stale
  <2>1. /\ Store(obj) /\ pod' = pod
        /\ obj.finalizer = Latest.finalizer /\ obj.deleting = Latest.deleting
        /\ ~obj.gone /\ ~Latest.gone
    BY <1>1 DEF UpdateStatus, cluster, ModInv, SafeInv, CopyInv
  <2>2. Latest' = obj
    BY <1>0, <2>1, StoreVersion
  <2>3. obj.gone = Latest.gone
    BY <1>0, <2>1 DEF Model
  <2> QED
    BY <2>1, <2>2, <2>3 DEF Shown, Owned
<1>2. CASE PodProgress
  BY <1>2 DEF PodProgress, Shown, Owned, Latest
<1>3. CASE Watch \/ Restart
  BY <1>0, <1>3, WatchVersion, RestartVersion DEF Watch, Restart, Shown, Owned, cluster
<1>4. CASE \/ GetModel \/ EnsureStorage \/ (UpdateStatus /\ stale) \/ Failures
           \/ Resync \/ UNCHANGED vars
  <2>1. UNCHANGED <<log, pod>>
    BY <1>4 DEF GetModel, EnsureStorage, UpdateStatus, Failures, EnsureStorageFails,
                EnsurePodFails, DeletePodFails, UpdateFails, Resync, cluster, vars
  <2> QED
    BY <2>1 DEF Shown, Owned, Latest
<1> QED
  BY <1>1, <1>2, <1>3, <1>4

\* The pod is created for a model that still has its finalizer, and lost when it is
\* deleted, by remove or by someone else.
LEMMA PodStep ==
  ASSUME ModInv, EnsurePod \/ DeletePod \/ PodDeleted
  PROVE  Object!Next \/ UNCHANGED Shown
<1>1. Latest' = Latest
  BY DEF EnsurePod, DeletePod, PodDeleted, Latest
<1>2. CASE EnsurePod
  <2>1. Owned' = Owned \/ Owned' = Owned \cup {"pod"}
    BY <1>2 DEF EnsurePod, Owned
  <2>2. Latest.finalizer
    BY <1>2 DEF EnsurePod, ModInv, SafeInv, OwnedInv, Creating
  <2> QED
    BY <1>1, <2>1, <2>2 DEF Shown, Object!Next, Object!Make
<1>3. CASE DeletePod \/ PodDeleted
  <2>1. Owned' = Owned \ {"pod"}
    BY <1>3 DEF DeletePod, PodDeleted, Owned
  <2> QED
    BY <1>1, <2>1 DEF Object!Next, Object!Lose
<1> QED
  BY <1>2, <1>3

\* The finalizer is added to a model that nobody has deleted, and taken from one
\* that has been deleted and has no pod.
LEMMA ReleaseStep ==
  ASSUME ModInv, AwaitInv, AddFinalizer \/ RemoveFinalizer \/ DeleteModel
  PROVE  Object!Next \/ UNCHANGED Shown
<1>0. TypeOK /\ Latest \in Model /\ obj \in Model
  BY VersionsOfLog DEF ModInv, TypeOK
<1>1. Owned' = Owned
  <2>1. pod' = pod
    BY DEF AddFinalizer, RemoveFinalizer, DeleteModel, cluster
  <2> QED
    BY <2>1 DEF Owned
<1>2. CASE (AddFinalizer \/ RemoveFinalizer) /\ stale
  <2>1. Latest' = Latest
    BY <1>2 DEF AddFinalizer, RemoveFinalizer, Latest
  <2> QED
    BY <1>1, <2>1 DEF Shown
<1>3. CASE AddFinalizer /\ ~stale
  <2> DEFINE m == [obj EXCEPT !.finalizer = TRUE]
  <2>1. /\ Store(m) /\ m \in Model /\ m.finalizer = TRUE
        /\ m.deleting = Latest.deleting /\ m.gone = obj.gone
        /\ ~obj.gone /\ ~Latest.gone /\ ~Latest.deleting
    BY <1>0, <1>3 DEF AddFinalizer, Model, ModInv, SafeInv, CopyInv, AwaitInv
  <2> HIDE DEF m
  <2>2. Latest' = m
    BY <1>0, <2>1, StoreVersion
  <2>3. obj.gone = Latest.gone
    BY <1>0, <2>1 DEF Model
  <2> QED
    BY <1>1, <2>1, <2>2, <2>3 DEF Object!Next, Object!Adopt
<1>4. CASE RemoveFinalizer /\ ~stale
  <2> DEFINE m == [obj EXCEPT !.finalizer = FALSE, !.gone = TRUE]
  <2>1. /\ Store(m) /\ m \in Model /\ m.finalizer = FALSE /\ m.gone = TRUE
        /\ m.deleting = Latest.deleting /\ Latest.deleting /\ pod = "none"
    BY <1>0, <1>4 DEF RemoveFinalizer, Model, ModInv, SafeInv, CopyInv, OwnedInv, Removing
  <2> HIDE DEF m
  <2>2. Latest' = m
    BY <1>0, <2>1, StoreVersion
  <2>3. Owned = {}
    BY <2>1 DEF Owned
  <2> QED
    BY <1>1, <2>1, <2>2, <2>3 DEF Object!Next, Object!Release
<1>5. CASE DeleteModel
  <2> DEFINE m == [Latest EXCEPT !.deleting = TRUE, !.gone = ~Latest.finalizer]
  <2>1. /\ Store(m) /\ m \in Model /\ m.finalizer = Latest.finalizer
        /\ m.deleting = TRUE /\ m.gone = ~Latest.finalizer /\ ~Latest.deleting
    BY <1>0, <1>5 DEF DeleteModel, Model
  <2> HIDE DEF m
  <2>2. Latest' = m
    BY <1>0, <2>1, StoreVersion
  <2> QED
    BY <1>1, <2>1, <2>2 DEF Object!Next, Object!Delete
<1> QED
  BY <1>2, <1>3, <1>4, <1>5

\* The controller implements Lifecycle: whatever version of the model its Reconciles
\* work from, a worker pod is created only while the model has the finalizer, the
\* model is released only without one, and nothing follows that.
THEOREM Refinement == Spec => ImplementsLifecycle
<1>1. Init => Object!Init
  <2>1. Init => Latest = NewModel
    BY DEF Init, Latest, Last
  <2>2. Init => Owned = {}
    BY DEF Init, Owned
  <2>3. NewModel.finalizer = FALSE /\ NewModel.deleting = FALSE /\ NewModel.gone = FALSE
    BY DEF NewModel
  <2> QED
    BY <2>1, <2>2, <2>3 DEF Object!Init
<1>2. ModInv /\ AwaitInv /\ [Next]_vars => [Object!Next]_(Object!vars)
  <2> SUFFICES ASSUME ModInv, AwaitInv, [Next]_vars
               PROVE  Object!Next \/ UNCHANGED Shown
    BY DEF Object!vars, Shown
  <2> QED
    BY HiddenStep, PodStep, ReleaseStep DEF Next, Reconcile
<1> QED
  BY <1>1, <1>2, Inductive, AwaitInvariance, PTL
  DEF Spec, ImplementsLifecycle, Object!Spec
=============================================================================

------------------------- MODULE DisaggregatedProofs -------------------------
(***************************************************************************)
(* Proofs about the ArksDisaggregatedApplication controller, for every     *)
(* number of failed calls, restarts, changes, replica counts and versions  *)
(* that the cache is behind: the types, that nothing outlives the          *)
(* application, that a router has its account, that a Running application  *)
(* has its service, that no workload is created before its model was       *)
(* Ready, that Failed has a reason and is final, that the controller never *)
(* comes to rest with something left to do, and that it implements         *)
(* Lifecycle.                                                              *)
(***************************************************************************)
EXTENDS DisaggregatedController, TLAPS

\* The versions from the cached to the latest one, and with the copy that
\* Reconcile works on.
Versions == {log[i] : i \in 1 .. Len(log)}
Copies == Versions \cup {obj}

\* The versions that follow one being deleted are being deleted.
DeletingLasts ==
  \A i, j \in 1 .. Len(log) : i <= j /\ log[i].deleting => log[j].deleting

\* The latest and the cached version are among the versions, which are applications.
LEMMA VersionsOfLog ==
  ASSUME TypeOK
  PROVE  /\ Latest \in Versions /\ Cached \in Versions
         /\ Versions \subseteq Application
         /\ Len(log) = 1 => Versions = {Latest} /\ Cached = Latest
         /\ DeletingLasts /\ Cached.deleting => \A v \in Versions : v.deleting
BY DEF TypeOK, Versions, Latest, Cached, Last, DeletingLasts

\* A version that is stored becomes the latest and is the only new one.
LEMMA StoreVersion ==
  ASSUME TypeOK, NEW a \in Application, Store(a)
  PROVE  /\ log' \in Seq(Application) /\ Len(log') \in 1 .. MaxLag + 1
         /\ Latest' = a
         /\ Versions' \subseteq Versions \cup {a}
         /\ DeletingLasts /\ (Latest.deleting => a.deleting) => DeletingLasts'
<1> USE DisaggregatedAssumption
<1>1. CASE a = Latest
  BY <1>1 DEF TypeOK, Store, Versions, Latest, DeletingLasts
<1>2. CASE a # Latest
  <2>1. log' = Append(log, a) /\ Len(log) <= MaxLag
    BY <1>2 DEF Store
  <2>2. /\ log' \in Seq(Application) /\ Len(log') = Len(log) + 1
        /\ \A i \in 1 .. Len(log) + 1 : log'[i] = IF i = Len(log) + 1 THEN a ELSE log[i]
    BY <2>1 DEF TypeOK
  <2>3. DeletingLasts /\ (Latest.deleting => a.deleting) => DeletingLasts'
    <3> SUFFICES ASSUME DeletingLasts, Latest.deleting => a.deleting,
                        NEW i \in 1 .. Len(log) + 1, NEW j \in 1 .. Len(log) + 1,
                        i <= j, log'[i].deleting
                 PROVE  log'[j].deleting
      BY <2>2 DEF DeletingLasts
    <3>1. CASE j <= Len(log)
      BY <2>2, <3>1 DEF TypeOK, DeletingLasts
    <3>2. CASE i <= Len(log) /\ j = Len(log) + 1
      <4>1. log[i].deleting /\ log[Len(log)].deleting
        BY <2>2, <3>2 DEF TypeOK, DeletingLasts
      <4> QED
        BY <2>2, <3>2, <4>1 DEF Latest, Last
    <3>3. CASE i = Len(log) + 1 /\ j = Len(log) + 1
      BY <3>3
    <3> QED
      BY <3>1, <3>2, <3>3 DEF TypeOK
  <2> QED
    BY <2>1, <2>2, <2>3 DEF TypeOK, Versions, Latest, Last
<1> QED
  BY <1>1, <1>2

\* A watch event drops the oldest version and keeps the latest.
LEMMA WatchVersion ==
  ASSUME TypeOK, Len(log) > 1, log' = Tail(log)
  PROVE  /\ log' \in Seq(Application) /\ Len(log') \in 1 .. MaxLag + 1
         /\ Latest' = Latest
         /\ Versions' \subseteq Versions
         /\ DeletingLasts => DeletingLasts'
<1>1. /\ log' \in Seq(Application) /\ Len(log') = Len(log) - 1
      /\ \A i \in 1 .. Len(log) - 1 : log'[i] = log[i + 1]
  BY DEF TypeOK
<1>2. DeletingLasts => DeletingLasts'
  BY <1>1 DEF TypeOK, DeletingLasts
<1> QED
  BY <1>1, <1>2, DisaggregatedAssumption DEF TypeOK, Versions, Latest, Last

\* A restart keeps the latest version only.
LEMMA RestartVersion ==
  ASSUME TypeOK, log' = <<Latest>>
  PROVE  /\ log' \in Seq(Application) /\ Len(log') \in 1 .. MaxLag + 1
         /\ Latest' = Latest
         /\ Versions' \subseteq Versions
         /\ DeletingLasts'
<1>1. Latest \in Application
  BY VersionsOfLog
<1>2. log' \in Seq(Application) /\ Len(log') = 1 /\ log'[1] = Latest
  BY <1>1
<1>3. Latest' = Latest
  BY <1>2 DEF Latest, Last
<1>4. Versions' = {Latest}
  BY <1>2 DEF Versions
<1>5. DeletingLasts'
  BY <1>2 DEF DeletingLasts
<1> QED
  BY <1>2, <1>3, <1>4, <1>5, VersionsOfLog, DisaggregatedAssumption

\* The application that the user creates, and the one of an idle controller.
LEMMA NothingIsNew ==
  /\ \A w \in Wants : NewApplication(w) \in Application
  /\ Nothing \in Application
  /\ ~Nothing.gone /\ ~Nothing.finalizer /\ ~Nothing.deleting
  /\ ~Nothing.precheck /\ ~Nothing.loaded /\ ~Nothing.ready
  /\ Nothing.phase # "Failed"
<1>1. \A w \in Wants : NewApplication(w) \in Application
  BY DEF NewApplication, Application, Phases
<1>2. (CHOOSE w \in Wants : TRUE) \in Wants
  BY DisaggregatedAssumption
<1> QED
  BY <1>1, <1>2 DEF Nothing, NewApplication

-----------------------------------------------------------------------------
Syncing == {"syncPrefill", "syncDecode", "syncRouter"}
Creating ==
  {"model", "prefill", "decode", "router", "createRouter", "service"}
    \cup RBACObjects \cup Syncing
Removing ==
  {"deleteService", "deletePrefill", "deleteDecode", "deleteRouter", "removeFinalizer"}

\* A version with which Reconcile starts to create.
Creates(v) == v.finalizer /\ ~v.deleting /\ ~v.gone

\* What the copy of a running Reconcile has to do with the latest version.  The
\* versions that follow one being deleted are being deleted.
CopyInv ==
  /\ pc # "idle" => ~obj.gone
  /\ pc # "idle" /\ ~stale => /\ ~Latest.gone
                              /\ obj.deleting = Latest.deleting
                              /\ obj.finalizer = Latest.finalizer
  /\ pc \in Creating => Creates(obj)
  /\ pc \in Removing => /\ obj.deleting /\ (~stale => Len(log) = 1)
                        /\ \A v \in Versions : v.deleting
  /\ DeletingLasts

\* How far remove has come.
RemoveInv ==
  /\ pc \in Removing \ {"deleteService"} => ~service
  /\ pc \in {"deleteDecode", "deleteRouter", "removeFinalizer"} => size["prefill"] = Missing
  /\ pc \in {"deleteRouter", "removeFinalizer"} => size["decode"] = Missing
  /\ pc = "removeFinalizer" => size["router"] = Missing

Empty == ~service /\ \A c \in Workloads : size[c] = Missing

\* What exists is looked after: without the finalizer there is nothing, no
\* Reconcile that creates, and no version that would start one.
OwnedInv ==
  /\ Latest.gone => ~Latest.finalizer
  /\ ~Latest.finalizer => /\ Empty
                          /\ pc \notin Creating
                          /\ \A v \in Versions : ~Creates(v)

\* The RBAC objects come in the order of RBACOrder.
AccountInv ==
  Named \/ /\ "binding" \in rbac => rbac = RBACObjects
           /\ pc \in {"account", "binding"} => "role" \in rbac
           /\ pc = "binding" => "account" \in rbac
           /\ pc = "createRouter" => rbac = RBACObjects
           /\ size["router"] # Missing => rbac = RBACObjects

\* The workloads that a Reconcile has created are there, unless someone has
\* deleted one.
ExistInv ==
  \/ "lost" \in past
  \/ /\ pc \in {"decode", "router", "createRouter", "service"} \cup RBACObjects =>
          size["prefill"] # Missing
     /\ pc \in {"router", "createRouter", "service"} \cup RBACObjects =>
          size["decode"] # Missing
     /\ pc = "service" => size["router"] # Missing
     /\ \A v \in Copies : v.ready /\ ~v.deleting =>
          \A c \in Workloads : size[c] # Missing

Reason == ~valid \/ past \cap {"noModel", "lost", "rbacFailed"} # {}

\* What the conditions and the phase of every copy say about the past.
PastInv ==
  /\ \A v \in Copies :
       /\ v.precheck => valid
       /\ v.loaded => "Ready" \in past
       /\ v.phase = "Failed" => Reason
       /\ v.ready => service \/ "service" \in ignored \/ "serviceLost" \in past
                     \/ Latest.deleting
  /\ model \in {"absent", "Failed"} => "noModel" \in past
  /\ model = "Ready" => "Ready" \in past
  /\ pc \in Creating \ {"model"} => obj.precheck /\ obj.loaded
  /\ pc \in Syncing => obj.ready \/ "lost" \in past
  /\ WorkloadHasModel

\* A Reconcile that may write the status of a failed application keeps it failed.
FinalInv ==
  pc # "idle" /\ ~stale /\ Latest.phase = "Failed" =>
    obj.phase = "Failed" /\ pc \in {"status"} \cup Removing

SafeInv ==
  /\ CopyInv /\ RemoveInv /\ OwnedInv /\ AccountInv /\ ExistInv /\ PastInv /\ FinalInv

DisInv == TypeOK /\ SafeInv

-----------------------------------------------------------------------------
\* The copies that reconcile makes of an application are applications.
LEMMA CopyTypes ==
  ASSUME NEW a \in Application, NEW p \in Phases, NEW b \in BOOLEAN,
         NEW u \in SUBSET Workloads, NEW w \in Wants
  PROVE  /\ [a EXCEPT !.phase = p] \in Application
         /\ [a EXCEPT !.phase = p, !.precheck = b] \in Application
         /\ [a EXCEPT !.phase = p, !.loaded = b] \in Application
         /\ [a EXCEPT !.phase = p, !.ready = b] \in Application
         /\ [a EXCEPT !.finalizer = b] \in Application
         /\ [a EXCEPT !.up = u] \in Application
         /\ [a EXCEPT !.want = w] \in Application
BY DEF Application

\* The copy after the sync of a workload is an application.
LEMMA SyncedType ==
  ASSUME TypeOK, NEW c \in Workloads
  PROVE  Synced(c, obj) \in Application
<1>1. obj \in Application /\ obj.up \subseteq Workloads
  BY DEF TypeOK, Application
<1>2. /\ obj.up \cup {c} \in SUBSET Workloads
      /\ obj.up \ {c} \in SUBSET Workloads
  BY <1>1
<1>3. /\ [obj EXCEPT !.phase = "Failed", !.ready = FALSE] \in Application
      /\ [obj EXCEPT !.up = obj.up \cup {c}] \in Application
      /\ [obj EXCEPT !.up = obj.up \ {c}] \in Application
  BY <1>1, <1>2 DEF Application, Phases
<1> QED
  BY <1>3 DEF Synced

\* Where Reconcile goes on or returns, its locals keep their types.
LEMMA CallTypes ==
  ASSUME TypeOK, NEW a
  PROVE  /\ \A call \in Calls : Goto(call, a) =>
              pc' \in Calls /\ obj' = a /\ stale' \in BOOLEAN /\ failed' \in BOOLEAN
         /\ \A err \in BOOLEAN : Return(a, err) =>
              pc' \in Calls /\ obj' = a /\ stale' \in BOOLEAN /\ failed' \in BOOLEAN
         /\ \A err \in BOOLEAN : Finish(err) =>
              /\ pc' \in Calls /\ obj' \in Application
              /\ stale' \in BOOLEAN /\ failed' \in BOOLEAN /\ queued' \in BOOLEAN
BY NothingIsNew DEF TypeOK, Goto, Return, Finish, Calls

\* The first calls of Reconcile keep the types.
LEMMA TypeReconcile ==
  ASSUME TypeOK, GetApplication \/ AddFinalizer \/ CheckModel
  PROVE  TypeOK'
<1>0. Cached \in Application /\ Latest \in Application /\ obj \in Application
  BY VersionsOfLog DEF TypeOK
<1>1. CASE GetApplication
  <2>1. [Cached EXCEPT !.phase = "Pending"] \in Application
    BY <1>0 DEF Application, Phases
  <2>2. obj' \in Application
    BY <1>0, <1>1, <2>1 DEF GetApplication, running
  <2>3. FirstCall(Cached) \in Calls
    BY DEF FirstCall, Calls
  <2>4. pc' \in Calls
    BY <1>1, <2>3 DEF GetApplication, TypeOK, running
  <2>5. stale' \in BOOLEAN /\ failed' \in BOOLEAN
    <3>1. CASE Cached.gone
      BY <1>1, <3>1 DEF GetApplication, TypeOK, running
    <3>2. CASE ~Cached.gone
      <4>1. stale' = (Len(log) > 1) /\ failed' = FALSE
        BY <1>1, <3>2 DEF GetApplication
      <4>2. Len(log) \in Nat
        BY DEF TypeOK
      <4>3. (Len(log) > 1) \in BOOLEAN
        BY <4>2
      <4> QED
        BY <4>1, <4>3, Zenon
    <3> QED
      BY <3>1, <3>2
  <2> QED
    BY <1>1, <2>2, <2>4, <2>5 DEF GetApplication, TypeOK, cluster, history, bounds
<1>2. CASE AddFinalizer
  <2>1. /\ [obj EXCEPT !.finalizer = TRUE, !.phase = Latest.phase] \in Application
        /\ [obj EXCEPT !.finalizer = ~stale] \in Application
    BY <1>0 DEF Application
  <2>2. log' \in Seq(Application) /\ Len(log') \in 1 .. MaxLag + 1
    BY <1>2, <2>1, StoreVersion DEF AddFinalizer, TypeOK
  <2>3. /\ pc' \in Calls /\ obj' \in Application
        /\ stale' \in BOOLEAN /\ failed' \in BOOLEAN
    BY <1>2, <2>1 DEF AddFinalizer, Return, Calls, TypeOK
  <2> QED
    BY <1>2, <2>2, <2>3 DEF AddFinalizer, TypeOK, cluster, history, bounds
<1>3. CASE CheckModel
  <2> DEFINE a == IF obj.precheck THEN obj
                  ELSE [obj EXCEPT !.phase = "Checking", !.precheck = valid]
  <2>1. a \in Application
    BY <1>0 DEF TypeOK, Application, Phases
  <2>2. \/ obj' = [a EXCEPT !.phase = "Failed"]
        \/ obj' = [a EXCEPT !.phase = "Failed", !.loaded = FALSE]
        \/ obj' = [a EXCEPT !.phase = "Loading", !.loaded = TRUE]
        \/ obj' = [a EXCEPT !.phase = "Loading"]
        \/ obj' = a
    BY <1>3 DEF CheckModel, WaitForModel, Goto, Return
  <2>3. pc' \in Calls /\ stale' \in BOOLEAN /\ failed' \in BOOLEAN
    BY <1>3 DEF CheckModel, WaitForModel, Goto, Return, TypeOK, Calls
  <2> HIDE DEF a
  <2>4. obj' \in Application
    BY <2>1, <2>2 DEF Application, Phases
  <2> QED
    BY <1>3, <2>3, <2>4 DEF CheckModel, TypeOK, cluster, history, bounds
<1> QED
  BY <1>1, <1>2, <1>3

\* The calls that create keep the types.
LEMMA TypeCreate ==
  ASSUME TypeOK,
         \/ \E c \in Workloads : EnsureLws(c)
         \/ GetRouter \/ ApplyRouterRBAC \/ CreateRouter \/ EnsureService \/ GetServiceFails
  PROVE  TypeOK'
<1>0. /\ obj \in Application /\ obj.want \in [Workloads -> Nat \cup {Unset}]
      /\ [obj EXCEPT !.phase = "Creating"] \in Application
      /\ [obj EXCEPT !.phase = "Running", !.ready = TRUE] \in Application
  BY DisaggregatedAssumption DEF TypeOK, Application, Phases
<1>1. ASSUME NEW c \in Workloads, EnsureLws(c) PROVE TypeOK'
  <2>1. GeneratedLws(c) \in Nat \cup {Missing} /\ After(c) \in Calls
    BY <1>0 DEF GeneratedLws, After, Calls
  <2>2. size' \in [Workloads -> Nat \cup {Missing}]
    BY ZenonT(60), <1>1, <2>1 DEF EnsureLws, TypeOK
  <2>3. /\ pc' \in Calls /\ obj' \in Application /\ stale' \in BOOLEAN
        /\ failed' \in BOOLEAN /\ queued' \in BOOLEAN
    BY <1>0, <1>1, <2>1, CallTypes DEF EnsureLws, TypeOK
  <2> QED
    BY <1>1, <2>2, <2>3 DEF EnsureLws, TypeOK, history, bounds
<1>2. CASE GetRouter
  <2>1. /\ pc' \in Calls /\ obj' \in Application
        /\ stale' \in BOOLEAN /\ failed' \in BOOLEAN
    BY <1>0, <1>2 DEF GetRouter, Goto, RBACOrder, Calls, TypeOK
  <2> QED
    BY <1>2, <2>1 DEF GetRouter, TypeOK, cluster, history, bounds
<1>3. CASE ApplyRouterRBAC
  <2>1. rbac' \subseteq RBACObjects
    BY <1>3 DEF ApplyRouterRBAC, TypeOK
  <2>2. /\ pc' \in Calls /\ obj' \in Application
        /\ stale' \in BOOLEAN /\ failed' \in BOOLEAN
    <3> DEFINE i == CHOOSE k \in DOMAIN RBACOrder : RBACOrder[k] = pc
    <3>1. i \in DOMAIN RBACOrder
      BY <1>3 DEF ApplyRouterRBAC, RBACOrder, RBACObjects
    <3>2. (IF i = Len(RBACOrder) THEN "createRouter" ELSE RBACOrder[i + 1]) \in Calls
      BY <3>1 DEF RBACOrder, Calls
    <3>3. Goto(IF i = Len(RBACOrder) THEN "createRouter" ELSE RBACOrder[i + 1], obj)
      BY <1>3 DEF ApplyRouterRBAC
    <3> HIDE DEF i
    <3> QED
      BY <1>0, <3>2, <3>3 DEF Goto, TypeOK
  <2> QED
    BY <1>3, <2>1, <2>2 DEF ApplyRouterRBAC, TypeOK, history, bounds
<1>4. CASE CreateRouter
  <2>1. GeneratedRouter \in Nat \cup {Missing}
    BY <1>0 DEF GeneratedRouter, Workloads
  <2>2. size' \in [Workloads -> Nat \cup {Missing}]
    BY <1>4, <2>1 DEF CreateRouter, TypeOK, Workloads
  <2>3. /\ pc' \in Calls /\ obj' \in Application
        /\ stale' \in BOOLEAN /\ failed' \in BOOLEAN
    BY <1>0, <1>4 DEF CreateRouter, Goto, Calls, TypeOK
  <2> QED
    BY <1>4, <2>2, <2>3 DEF CreateRouter, TypeOK, history, bounds
<1>5. CASE EnsureService \/ GetServiceFails
  <2>1. /\ pc' \in Calls /\ obj' \in Application
        /\ stale' \in BOOLEAN /\ failed' \in BOOLEAN
    BY <1>0, <1>5 DEF EnsureService, GetServiceFails, Goto, Calls, TypeOK
  <2>2. faults' \in 0 .. MaxFaults
    BY <1>5, DisaggregatedAssumption
    DEF EnsureService, GetServiceFails, Fault, bounds, TypeOK
  <2>3. ignored' \subseteq Workloads \cup {"service"} /\ service' \in BOOLEAN
    BY <1>5 DEF EnsureService, GetServiceFails, cluster, TypeOK
  <2> QED
    BY <1>5, <2>1, <2>2, <2>3 DEF EnsureService, GetServiceFails, TypeOK, cluster, bounds
<1> QED
  BY <1>1, <1>2, <1>3, <1>4, <1>5

\* The sync of a workload keeps the types.
LEMMA TypeSync ==
  ASSUME TypeOK, NEW c \in Workloads, SyncWorkload(c) \/ ScaleLwsFails(c)
  PROVE  TypeOK'
<1>1. obj.want[c] \in Nat \cup {Unset}
  BY DisaggregatedAssumption DEF TypeOK, Application
<1>2. Replicas(c, obj.want[c]) \in Nat
  BY <1>1 DEF Replicas, Unset
<1>3. size' \in [Workloads -> Nat \cup {Missing}]
  BY <1>2 DEF SyncWorkload, ScaleLwsFails, cluster, TypeOK
<1>4. SyncNext(c, Synced(c, obj))
  BY DEF SyncWorkload, ScaleLwsFails
<1>5. /\ pc' \in Calls /\ obj' \in Application
      /\ stale' \in BOOLEAN /\ failed' \in BOOLEAN
  <2>1. \/ Goto("syncDecode", Synced(c, obj)) \/ Goto("syncRouter", Synced(c, obj))
        \/ Return(Synced(c, obj), FALSE)
    BY <1>4 DEF SyncNext, Workloads
  <2> QED
    BY <2>1, SyncedType DEF Goto, Return, Calls, TypeOK
<1>6. faults' \in 0 .. MaxFaults
  BY DisaggregatedAssumption DEF SyncWorkload, ScaleLwsFails, Fault, bounds, TypeOK
<1>7. ignored' \subseteq Workloads \cup {"service"}
  BY DEF SyncWorkload, ScaleLwsFails, TypeOK
<1> QED
  BY <1>3, <1>5, <1>6, <1>7 DEF SyncWorkload, ScaleLwsFails, TypeOK, cluster, bounds

\* Failing calls keep the types.
LEMMA TypeFails ==
  ASSUME TypeOK, ReconcileFails \/ UpdateFails
  PROVE  TypeOK'
<1>0. Fault
  BY DEF ReconcileFails, UpdateFails
<1>1. faults' \in 0 .. MaxFaults
  BY <1>0, DisaggregatedAssumption DEF Fault, TypeOK
<1>2. past' \subseteq {"Ready", "noModel", "lost", "serviceLost", "rbacFailed"}
  BY DEF ReconcileFails, UpdateFails, history, TypeOK
<1>3. CASE ReconcileFails
  <2>1. /\ obj \in Application
        /\ [obj EXCEPT !.phase = "Checking", !.precheck = TRUE] \in Application
        /\ [obj EXCEPT !.phase = "Creating"] \in Application
        /\ [obj EXCEPT !.phase = "Failed", !.precheck = FALSE] \in Application
        /\ Synced("router", obj) \in Application
    BY SyncedType DEF TypeOK, Application, Phases, Workloads
  <2>2. \/ Return(obj, TRUE)
        \/ Return([obj EXCEPT !.phase = "Checking", !.precheck = TRUE], TRUE)
        \/ Return([obj EXCEPT !.phase = "Creating"], TRUE)
        \/ Return([obj EXCEPT !.phase = "Failed", !.precheck = FALSE], TRUE)
        \/ Return(Synced("router", obj), TRUE)
    BY <1>3 DEF ReconcileFails, Return
  <2>3. /\ pc' \in Calls /\ obj' \in Application
        /\ stale' \in BOOLEAN /\ failed' \in BOOLEAN
    BY <2>1, <2>2 DEF Return, TypeOK, Calls
  <2> QED
    BY <1>1, <1>2, <1>3, <2>3 DEF ReconcileFails, TypeOK, cluster
<1>4. CASE UpdateFails
  BY <1>1, <1>2, <1>4, CallTypes DEF UpdateFails, TypeOK, cluster, history
<1> QED
  BY <1>3, <1>4

\* The status update and the calls of remove keep the types.
LEMMA TypeRemove ==
  ASSUME TypeOK,
         UpdateStatus \/ DeleteService \/ (\E c \in Workloads : DeleteWorkload(c))
         \/ RemoveFinalizer
  PROVE  TypeOK'
<1>0. /\ obj \in Application
      /\ [obj EXCEPT !.finalizer = FALSE, !.gone = TRUE] \in Application
  BY DEF TypeOK, Application
<1>1. CASE UpdateStatus \/ RemoveFinalizer
  <2>1. log' \in Seq(Application) /\ Len(log') \in 1 .. MaxLag + 1
    BY <1>0, <1>1, StoreVersion DEF UpdateStatus, RemoveFinalizer, TypeOK
  <2>2. Finish(TRUE) \/ Finish(FALSE) \/ Finish(failed)
    BY <1>1 DEF UpdateStatus, RemoveFinalizer
  <2>3. /\ pc' \in Calls /\ obj' \in Application
        /\ stale' \in BOOLEAN /\ failed' \in BOOLEAN /\ queued' \in BOOLEAN
    BY <2>2, CallTypes DEF TypeOK
  <2> QED
    BY <1>1, <2>1, <2>3 DEF UpdateStatus, RemoveFinalizer, TypeOK, cluster, history, bounds
<1>2. CASE DeleteService
  BY <1>0, <1>2 DEF DeleteService, Goto, Calls, TypeOK, history, bounds
<1>3. ASSUME NEW c \in Workloads, DeleteWorkload(c) PROVE TypeOK'
  <2>1. size' \in [Workloads -> Nat \cup {Missing}] /\ up' \subseteq Workloads
    BY <1>3 DEF DeleteWorkload, TypeOK
  <2>2. /\ pc' \in Calls /\ obj' \in Application
        /\ stale' \in BOOLEAN /\ failed' \in BOOLEAN
    BY <1>0, <1>3 DEF DeleteWorkload, Goto, Workloads, Calls, TypeOK
  <2> QED
    BY <1>3, <2>1, <2>2 DEF DeleteWorkload, TypeOK, history, bounds
<1> QED
  BY <1>1, <1>2, <1>3

\* The cache, restarts and the environment keep the types.
LEMMA TypeOthers ==
  ASSUME TypeOK, Watch \/ Resync \/ Restart \/ Environment \/ UNCHANGED vars
  PROVE  TypeOK'
<1> DEFINE Logs == log' \in Seq(Application) /\ Len(log') \in 1 .. MaxLag + 1
<1>0. Latest \in Application
  BY VersionsOfLog
<1>1. CASE Watch \/ Resync \/ UNCHANGED vars
  <2>1. Logs
    BY <1>1, WatchVersion DEF Watch, Resync, vars, TypeOK
  <2> QED
    BY <1>1, <2>1
    DEF Watch, Resync, vars, TypeOK, running, cluster, history, bounds
<1>2. CASE Restart
  <2>1. faults' \in 0 .. MaxFaults
    BY <1>2, DisaggregatedAssumption DEF Restart, Fault, TypeOK
  <2>2. Logs
    BY <1>2, RestartVersion DEF Restart
  <2>3. pc' \in Calls /\ obj' \in Application
    BY <1>2, NothingIsNew DEF Restart, Calls
  <2> QED
    BY <1>2, <2>1, <2>2, <2>3 DEF Restart, TypeOK, cluster, history
<1>3. CASE DeleteApplication
  <2>1. [Latest EXCEPT !.deleting = TRUE, !.gone = ~Latest.finalizer] \in Application
    BY <1>0 DEF Application
  <2>2. Logs
    BY <1>3, <2>1, StoreVersion DEF DeleteApplication
  <2> QED
    BY <1>3, <2>2 DEF DeleteApplication, TypeOK, cluster, history, bounds
<1>4. CASE EditApplication
  <2>1. \A w \in Wants : [Latest EXCEPT !.want = w] \in Application
    BY <1>0 DEF Application
  <2>2. Logs
    BY <1>4, <2>1, StoreVersion DEF EditApplication
  <2>3. changes' \in 0 .. MaxChanges
    BY <1>4, DisaggregatedAssumption DEF EditApplication, Change, TypeOK
  <2> QED
    BY <1>4, <2>2, <2>3 DEF EditApplication, TypeOK, cluster, history
<1>5. CASE ModelProgress
  <2>1. /\ model' \in {"absent", "Loading", "Ready", "Failed"}
        /\ past' \subseteq {"Ready", "noModel", "lost", "serviceLost", "rbacFailed"}
    BY <1>5 DEF ModelProgress, TypeOK
  <2> QED
    BY <1>5, <2>1 DEF ModelProgress, TypeOK, running, cluster, bounds
<1>6. CASE WorkloadReady
  <2>1. up' \subseteq Workloads
    BY <1>6, DisaggregatedAssumption DEF WorkloadReady, TypeOK
  <2> QED
    BY <1>6, <2>1 DEF WorkloadReady, TypeOK, running, history, bounds
<1>7. CASE WorkloadChanges \/ OthersDeleted
  <2>1. changes' \in 0 .. MaxChanges
    BY <1>7, DisaggregatedAssumption DEF WorkloadChanges, OthersDeleted, Change, TypeOK
  <2>2. /\ size' \in [Workloads -> Nat \cup {Missing}] /\ up' \subseteq Workloads
        /\ service' \in BOOLEAN
    BY <1>7 DEF WorkloadChanges, OthersDeleted, TypeOK
  <2>3. /\ model' \in {"absent", "Loading", "Ready", "Failed"}
        /\ past' \subseteq {"Ready", "noModel", "lost", "serviceLost", "rbacFailed"}
    BY <1>7 DEF WorkloadChanges, OthersDeleted, TypeOK
  <2>4. queued' \in BOOLEAN
    BY <1>7 DEF WorkloadChanges, OthersDeleted, TypeOK
  <2> QED
    BY <1>7, <2>1, <2>2, <2>3, <2>4 DEF WorkloadChanges, OthersDeleted, TypeOK, running
<1> QED
  BY <1>1, <1>2, <1>3, <1>4, <1>5, <1>6, <1>7 DEF Environment

-----------------------------------------------------------------------------
\* Reconcile returns without having changed anything but its own state.
LEMMA IdleStep ==
  ASSUME DisInv, pc' = "idle", obj' = Nothing,
         UNCHANGED <<valid, log, model, size, service, rbac, ignored, past>>
  PROVE  SafeInv'
<1>1. Latest' = Latest /\ Versions' = Versions /\ (DeletingLasts => DeletingLasts')
  BY DEF Latest, Versions, DeletingLasts
<1>2. CopyInv' /\ RemoveInv' /\ FinalInv'
  BY <1>1 DEF DisInv, SafeInv, CopyInv, RemoveInv, FinalInv, Creating, Removing, Syncing,
     RBACObjects
<1>3. OwnedInv' /\ AccountInv'
  BY <1>1 DEF DisInv, SafeInv, OwnedInv, AccountInv, Empty, Creating, Syncing, RBACObjects
<1>4. ExistInv' /\ PastInv'
  BY <1>1, NothingIsNew DEF DisInv, SafeInv, ExistInv, PastInv, Copies, Reason,
     WorkloadHasModel, Creating, Syncing, RBACObjects
<1> QED
  BY <1>2, <1>3, <1>4 DEF SafeInv

\* reconcile goes on, or returns, with a copy that has the same metadata.
LEMMA CreatingStep ==
  ASSUME DisInv, pc \in {"addFinalizer"} \cup Creating, pc' \in {"status"} \cup Creating,
         pc = "addFinalizer" => pc' = "status" /\ UNCHANGED <<size, service>>,
         UNCHANGED <<log, stale>>,
         obj'.gone = obj.gone, obj'.deleting = obj.deleting, obj'.finalizer = obj.finalizer
  PROVE  /\ CopyInv' /\ RemoveInv' /\ OwnedInv' /\ FinalInv'
         /\ Latest' = Latest /\ Versions' = Versions
<1>1. Latest' = Latest /\ Versions' = Versions /\ (DeletingLasts => DeletingLasts')
  BY DEF Latest, Versions, DeletingLasts
<1>2. pc \notin Removing /\ pc' \notin Removing /\ pc' # "idle" /\ pc # "idle"
  BY DEF Creating, Removing, Syncing, RBACObjects
<1>3. CopyInv'
  BY <1>1, <1>2 DEF DisInv, SafeInv, CopyInv, Creates, Creating, Syncing, RBACObjects
<1>4. RemoveInv'
  BY <1>2 DEF RemoveInv, Removing
<1>5. OwnedInv'
  BY <1>1, <1>2 DEF DisInv, SafeInv, OwnedInv, Empty, Creating, Syncing, RBACObjects
<1>6. FinalInv'
  BY <1>1, <1>2 DEF DisInv, SafeInv, FinalInv, Creating, Syncing, RBACObjects
<1> QED
  BY <1>1, <1>3, <1>4, <1>5, <1>6

\* Reconcile starts with a version of the cache.
LEMMA GetStep ==
  ASSUME DisInv, GetApplication
  PROVE  SafeInv'
<1>1. /\ log' = log /\ Latest' = Latest /\ Versions' = Versions
      /\ UNCHANGED <<valid, model, size, service, rbac, ignored, past>>
      /\ pc = "idle"
  BY DEF GetApplication, Latest, Versions, cluster, history
<1>2. /\ TypeOK /\ Latest \in Application /\ Cached \in Versions
      /\ Cached \in Application /\ (Len(log) = 1 => Cached = Latest)
      /\ Cached.deleting => \A v \in Versions : v.deleting
      /\ DeletingLasts /\ DeletingLasts'
  BY <1>1, VersionsOfLog DEF DisInv, SafeInv, CopyInv, DeletingLasts
<1>3. CASE Cached.gone
  <2>1. UNCHANGED <<pc, obj, stale>>
    BY <1>3 DEF GetApplication, running
  <2>2. CopyInv' /\ RemoveInv' /\ FinalInv'
    BY <1>1, <1>2, <2>1 DEF CopyInv, RemoveInv, FinalInv, Creating, Removing, Syncing,
       RBACObjects
  <2>3. OwnedInv' /\ AccountInv'
    BY <1>1, <2>1 DEF DisInv, SafeInv, OwnedInv, AccountInv, Empty
  <2>4. ExistInv' /\ PastInv'
    BY <1>1, <2>1 DEF DisInv, SafeInv, ExistInv, PastInv, Copies, Reason, WorkloadHasModel
  <2> QED
    BY <2>2, <2>3, <2>4 DEF SafeInv
<1>4. CASE ~Cached.gone
  <2>1. /\ pc' = FirstCall(Cached) /\ stale' = (Len(log) > 1)
        /\ obj' = IF Cached.phase = "" /\ ~Cached.deleting
                    THEN [Cached EXCEPT !.phase = "Pending"] ELSE Cached
    BY <1>4 DEF GetApplication
  <2>2. /\ obj'.gone = Cached.gone /\ obj'.deleting = Cached.deleting
        /\ obj'.finalizer = Cached.finalizer /\ obj'.ready = Cached.ready
        /\ obj'.precheck = Cached.precheck /\ obj'.loaded = Cached.loaded
        /\ obj'.phase = "Failed" <=> Cached.phase = "Failed"
    BY <1>2, <2>1 DEF Application
  <2>3. ASSUME ~stale' PROVE Len(log) = 1 /\ Cached = Latest
    <3>1. ~(Len(log) > 1)
      BY <2>1, <2>3, Zenon
    <3>2. Len(log) \in Nat /\ Len(log) # 0
      BY <1>2, DisaggregatedAssumption DEF TypeOK
    <3>3. Len(log) = 1
      BY ONLY <3>1, <3>2
    <3> QED
      BY <1>2, <3>3
  <2>4. /\ pc' \in {"deleteService", "status", "model", "addFinalizer"}
        /\ pc' = "model" => Creates(Cached)
        /\ pc' = "deleteService" => Cached.deleting
        /\ Cached.phase = "Failed" => pc' \in {"deleteService", "status"}
    BY <1>4, <2>1 DEF FirstCall, Creates
  <2>5. CopyInv'
    BY <1>1, <1>2, <1>4, <2>2, <2>3, <2>4
    DEF CopyInv, Creating, Removing, Syncing, RBACObjects, Creates
  <2>6. OwnedInv'
    BY <1>1, <1>2, <2>4
    DEF DisInv, SafeInv, OwnedInv, Empty, Creating, Syncing, RBACObjects
  <2>7. RemoveInv' /\ AccountInv'
    BY <1>1, <2>4 DEF DisInv, SafeInv, RemoveInv, AccountInv, Removing
  <2>8. ExistInv'
    BY <1>1, <1>2, <2>2, <2>4 DEF DisInv, SafeInv, ExistInv, Copies, RBACObjects
  <2>9. PastInv'
    BY <1>1, <1>2, <2>2, <2>4 DEF DisInv, SafeInv, PastInv, Copies, Reason,
       WorkloadHasModel, Creating, Syncing, RBACObjects
  <2>10. FinalInv'
    BY <1>1, <2>2, <2>3, <2>4 DEF FinalInv, Removing
  <2> QED
    BY <2>5, <2>6, <2>7, <2>8, <2>9, <2>10 DEF SafeInv
<1> QED
  BY <1>3, <1>4

\* The finalizer is added, which leaves the phase alone.
LEMMA FinalizerStep ==
  ASSUME DisInv, AddFinalizer
  PROVE  SafeInv' /\ Latest'.phase = Latest.phase
<1>1. /\ UNCHANGED <<valid, model, size, service, rbac, ignored, past, stale>>
      /\ pc = "addFinalizer" /\ pc' = "status"
      /\ obj' = [obj EXCEPT !.finalizer = ~stale]
  BY DEF AddFinalizer, Return, cluster, history
<1>2. /\ TypeOK /\ Latest \in Application /\ Latest \in Versions /\ obj \in Application
      /\ Versions \subseteq Application
  BY VersionsOfLog DEF DisInv, TypeOK
<1>3. /\ obj'.gone = obj.gone /\ obj'.deleting = obj.deleting
      /\ obj'.finalizer = ~stale /\ obj'.ready = obj.ready
      /\ obj'.precheck = obj.precheck /\ obj'.loaded = obj.loaded
      /\ obj'.phase = obj.phase
  BY <1>1, <1>2 DEF Application
<1>4. RemoveInv' /\ AccountInv'
  BY <1>1 DEF DisInv, SafeInv, RemoveInv, AccountInv, Removing
<1>5. CASE stale
  <2>1. Latest' = Latest /\ Versions' = Versions /\ (DeletingLasts => DeletingLasts')
    BY <1>5 DEF AddFinalizer, Latest, Versions, DeletingLasts
  <2>2. CopyInv' /\ OwnedInv' /\ FinalInv'
    BY <1>1, <1>3, <1>5, <2>1 DEF DisInv, SafeInv, CopyInv, OwnedInv, FinalInv, Empty,
       Creating, Removing, Syncing, RBACObjects
  <2>3. ExistInv'
    BY <1>1, <1>3, <2>1 DEF DisInv, SafeInv, ExistInv, Copies, RBACObjects
  <2>4. PastInv'
    BY ZenonT(60), <1>1, <1>3, <2>1 DEF DisInv, SafeInv, PastInv, Copies, Reason, WorkloadHasModel,
       Creating, Syncing, RBACObjects
  <2> QED
    BY <1>4, <2>1, <2>2, <2>3, <2>4 DEF SafeInv
<1>6. CASE ~stale
  <2> DEFINE a == [obj EXCEPT !.finalizer = TRUE, !.phase = Latest.phase]
  <2>1. /\ a \in Application /\ a.finalizer /\ a.gone = obj.gone
        /\ a.deleting = obj.deleting /\ a.ready = obj.ready
        /\ a.precheck = obj.precheck /\ a.loaded = obj.loaded /\ a.phase = Latest.phase
    BY <1>2 DEF Application
  <2>2. Latest.deleting => a.deleting
    BY <1>1, <1>6, <2>1 DEF DisInv, SafeInv, CopyInv
  <2>3. /\ Latest' = a /\ Versions' \subseteq Versions \cup {a}
        /\ DeletingLasts => DeletingLasts'
    BY <1>2, <1>6, <2>1, <2>2, StoreVersion DEF AddFinalizer
  <2> HIDE DEF a
  <2>4. CopyInv'
    BY <1>1, <1>3, <1>6, <2>1, <2>3 DEF DisInv, SafeInv, CopyInv, Creating, Removing,
       Syncing, RBACObjects
  <2>5. OwnedInv'
    BY <1>1, <1>6, <2>1, <2>3 DEF DisInv, SafeInv, CopyInv, OwnedInv
  <2>6. /\ Latest \in Copies /\ obj \in Copies /\ Copies' \subseteq Copies \cup {a, obj'}
        /\ Latest.deleting => Latest'.deleting
    BY <1>2, <2>2, <2>3 DEF Copies
  <2>7. ExistInv'
    BY <1>1, <1>3, <2>1, <2>6 DEF DisInv, SafeInv, ExistInv, RBACObjects
  <2>8. PastInv'
    BY ZenonT(60), <1>1, <1>3, <2>1, <2>6 DEF DisInv, SafeInv, PastInv, Reason, WorkloadHasModel,
       Creating, Syncing, RBACObjects
  <2>9. FinalInv' /\ Latest'.phase = Latest.phase
    BY <1>1, <1>3, <1>6, <2>1, <2>3 DEF DisInv, SafeInv, FinalInv, Removing
  <2> QED
    BY <1>4, <2>4, <2>5, <2>7, <2>8, <2>9 DEF SafeInv
<1> QED
  BY <1>5, <1>6

\* The checks and the model decide what the copy says.
LEMMA CheckStep ==
  ASSUME DisInv, CheckModel
  PROVE  SafeInv'
<1> DEFINE a == IF obj.precheck THEN obj
                ELSE [obj EXCEPT !.phase = "Checking", !.precheck = valid]
<1>1. /\ UNCHANGED <<valid, log, model, size, service, rbac, ignored, past, stale>>
      /\ pc = "model" /\ pc' \in {"syncPrefill", "prefill", "status"}
  BY DEF CheckModel, WaitForModel, Goto, Return, cluster, history
<1>2. /\ TypeOK /\ obj \in Application /\ valid \in BOOLEAN
      /\ model \in {"absent", "Loading", "Ready", "Failed"}
  BY DEF DisInv, TypeOK
<1>3. /\ a.gone = obj.gone /\ a.deleting = obj.deleting /\ a.finalizer = obj.finalizer
      /\ a.loaded = obj.loaded /\ a.ready = obj.ready
      /\ a.precheck <=> obj.precheck \/ valid
      /\ a.phase = "Failed" => obj.phase = "Failed"
      /\ a \in Application
  BY <1>2 DEF Application, Phases
<1>4. \/ /\ ~a.precheck /\ obj' = [a EXCEPT !.phase = "Failed"] /\ pc' = "status"
      \/ /\ a.precheck /\ model = "absent" /\ pc' = "status"
         /\ obj' = [a EXCEPT !.phase = "Failed", !.loaded = FALSE]
      \/ /\ a.precheck /\ ~a.loaded /\ model = "Failed" /\ pc' = "status"
         /\ obj' = [a EXCEPT !.phase = "Failed"]
      \/ /\ a.precheck /\ model = "Ready"
         /\ obj' = [a EXCEPT !.phase = "Loading", !.loaded = TRUE]
         /\ pc' = IF a.ready THEN "syncPrefill" ELSE "prefill"
      \/ /\ a.precheck /\ a.loaded /\ obj' = a
         /\ pc' = IF a.ready THEN "syncPrefill" ELSE "prefill"
      \/ a.precheck /\ obj' = [a EXCEPT !.phase = "Loading"] /\ pc' = "status"
  BY DEF CheckModel, WaitForModel, Goto, Return
<1> HIDE DEF a
<1>5. /\ obj'.gone = a.gone /\ obj'.deleting = a.deleting /\ obj'.finalizer = a.finalizer
      /\ obj'.precheck = a.precheck /\ obj'.ready = a.ready
      /\ obj'.loaded => a.loaded \/ model = "Ready"
      /\ obj'.phase = "Failed" => a.phase = "Failed" \/ ~a.precheck
                                  \/ model \in {"absent", "Failed"}
      /\ pc' \in {"syncPrefill", "prefill"} => obj'.precheck /\ obj'.loaded
      /\ pc' = "syncPrefill" => obj'.ready
  BY <1>3, <1>4 DEF Application
<1>6. /\ CopyInv' /\ RemoveInv' /\ OwnedInv' /\ FinalInv'
      /\ Latest' = Latest /\ Versions' = Versions
  BY <1>1, <1>3, <1>5, CreatingStep DEF Creating, Syncing
<1>7. AccountInv'
  BY <1>1 DEF DisInv, SafeInv, AccountInv
<1>8. ExistInv'
  BY <1>1, <1>3, <1>5, <1>6 DEF DisInv, SafeInv, ExistInv, Copies, RBACObjects
<1>9. PastInv'
  <2>1. PastInv
    BY DEF DisInv, SafeInv
  <2>2. /\ obj'.precheck => valid
        /\ obj'.loaded => "Ready" \in past
        /\ obj'.phase = "Failed" => Reason
    BY <1>2, <1>3, <1>5, <2>1 DEF PastInv, Copies, Reason
  <2>3. /\ pc' \in Creating \ {"model"} => obj'.precheck /\ obj'.loaded
        /\ pc' \in Syncing => obj'.ready
    BY <1>1, <1>5 DEF Creating, Syncing, RBACObjects
  <2> QED
    BY <1>1, <1>3, <1>5, <1>6, <2>1, <2>2, <2>3 DEF PastInv, Copies, Reason, WorkloadHasModel
<1> QED
  BY <1>6, <1>7, <1>8, <1>9 DEF SafeInv

\* The LWS of prefill or decode is created or found.
LEMMA LwsStep ==
  ASSUME DisInv, NEW c \in Workloads, EnsureLws(c)
  PROVE  SafeInv' /\ log' = log
<1>1. /\ UNCHANGED <<valid, log, model, service, rbac, ignored, past>>
      /\ pc = c /\ c \in {"prefill", "decode"}
  BY DEF EnsureLws, history, Workloads
<1>2. CASE Finish(TRUE) /\ UNCHANGED size
  BY <1>1, <1>2, IdleStep DEF Finish
<1>3. CASE ~(Finish(TRUE) /\ UNCHANGED size)
  <2>1. /\ size[c] # Missing \/ GeneratedLws(c) # Missing
        /\ size' = [size EXCEPT ![c] = IF @ = Missing THEN GeneratedLws(c) ELSE @]
        /\ pc' = After(c) /\ obj' = [obj EXCEPT !.phase = "Creating"] /\ stale' = stale
    BY <1>3 DEF EnsureLws, Goto
  <2>2. /\ size'[c] # Missing
        /\ \A x \in Workloads : size[x] # Missing => size'[x] # Missing
        /\ size'["router"] = size["router"]
    BY <1>1, <2>1 DEF DisInv, TypeOK, Workloads
  <2>3. /\ obj'.gone = obj.gone /\ obj'.deleting = obj.deleting
        /\ obj'.finalizer = obj.finalizer /\ obj'.ready = obj.ready
        /\ obj'.precheck = obj.precheck /\ obj'.loaded = obj.loaded
        /\ obj'.phase # "Failed"
    BY <2>1 DEF DisInv, TypeOK, Application
  <2>4. \/ pc = "prefill" /\ pc' = "decode"
        \/ pc = "decode" /\ pc' = "router"
    BY <1>1, <2>1 DEF After
  <2>5. /\ CopyInv' /\ RemoveInv' /\ OwnedInv' /\ FinalInv'
        /\ Latest' = Latest /\ Versions' = Versions
    BY <1>1, <2>1, <2>3, <2>4, CreatingStep DEF Creating
  <2>6. AccountInv'
    BY <1>1, <2>2, <2>4 DEF DisInv, SafeInv, AccountInv
  <2>7. ExistInv'
    BY <1>1, <2>2, <2>3, <2>4, <2>5
    DEF DisInv, SafeInv, ExistInv, Copies, RBACObjects, Workloads
  <2>8. PastInv'
    BY <1>1, <2>3, <2>4, <2>5 DEF DisInv, SafeInv, PastInv, Copies, Reason,
       WorkloadHasModel, Creating, Syncing, RBACObjects
  <2> QED
    BY <1>1, <2>5, <2>6, <2>7, <2>8 DEF SafeInv
<1> QED
  BY <1>1, <1>2, <1>3

\* The router and its RBAC objects are created or found.
LEMMA RouterStep ==
  ASSUME DisInv, GetRouter \/ ApplyRouterRBAC \/ CreateRouter
  PROVE  SafeInv' /\ log' = log
<1>1. /\ UNCHANGED <<valid, log, obj, stale, model, service, ignored, past>>
      /\ pc \in {"router", "createRouter"} \cup RBACObjects
  BY DEF GetRouter, ApplyRouterRBAC, CreateRouter, Goto, cluster, history
<1>2. /\ pc' \in {"service", "createRouter"} \cup RBACObjects
      /\ \A x \in Workloads : size[x] # Missing => size'[x] # Missing
      /\ pc' = "service" => size'["router"] # Missing
      /\ AccountInv'
  <2>1. CASE GetRouter
    <3>1. /\ UNCHANGED <<size, rbac>>
          /\ \/ pc' = "service" /\ size["router"] # Missing
             \/ pc' = "createRouter" /\ (Named \/ "binding" \in rbac)
             \/ pc' = "role"
      BY <2>1 DEF GetRouter, Goto, cluster, RBACOrder
    <3> QED
      BY <3>1 DEF DisInv, SafeInv, AccountInv, RBACObjects
  <2>2. CASE ApplyRouterRBAC
    <3> DEFINE i == CHOOSE k \in DOMAIN RBACOrder : RBACOrder[k] = pc
    <3>1. pc \in RBACObjects /\ rbac' = rbac \cup {pc} /\ size' = size
      BY <2>2 DEF ApplyRouterRBAC
    <3>2. i \in 1 .. 3 /\ RBACOrder[i] = pc
      BY <3>1 DEF RBACOrder, RBACObjects
    <3>3. pc' = IF i = Len(RBACOrder) THEN "createRouter" ELSE RBACOrder[i + 1]
      BY <2>2 DEF ApplyRouterRBAC, Goto
    <3> HIDE DEF i
    <3>4. \/ pc = "role" /\ pc' = "account"
          \/ pc = "account" /\ pc' = "binding"
          \/ pc = "binding" /\ pc' = "createRouter"
      BY <3>2, <3>3 DEF RBACOrder
    <3>5. rbac \subseteq RBACObjects
      BY DEF DisInv, TypeOK
    <3> QED
      BY <3>1, <3>4, <3>5 DEF DisInv, SafeInv, AccountInv, RBACObjects
  <2>3. CASE CreateRouter
    <3>1. GeneratedRouter # Missing
      <4>1. obj.want["router"] \in Nat \cup {Unset}
        BY DisaggregatedAssumption DEF DisInv, TypeOK, Application, Workloads
      <4> QED
        BY <4>1 DEF GeneratedRouter, Missing, Unset
    <3>2. /\ pc = "createRouter" /\ pc' = "service" /\ rbac' = rbac
          /\ size' = [size EXCEPT !["router"] = IF @ = Missing THEN GeneratedRouter ELSE @]
      BY <2>3 DEF CreateRouter, Goto
    <3>3. /\ \A x \in Workloads : size[x] # Missing => size'[x] # Missing
          /\ size'["router"] # Missing
      BY <3>1, <3>2 DEF DisInv, TypeOK, Workloads
    <3> QED
      BY <3>2, <3>3 DEF DisInv, SafeInv, AccountInv
  <2> QED
    BY <2>1, <2>2, <2>3
<1>3. /\ CopyInv' /\ RemoveInv' /\ OwnedInv' /\ FinalInv'
      /\ Latest' = Latest /\ Versions' = Versions
  BY <1>1, <1>2, CreatingStep DEF Creating, RBACObjects
<1>4. ExistInv'
  BY <1>1, <1>2, <1>3 DEF DisInv, SafeInv, ExistInv, Copies, RBACObjects, Workloads
<1>5. PastInv'
  BY <1>1, <1>2, <1>3 DEF DisInv, SafeInv, PastInv, Copies, Reason, WorkloadHasModel,
     Creating, Syncing, RBACObjects
<1> QED
  BY <1>1, <1>2, <1>3, <1>4, <1>5 DEF SafeInv

\* The service is created or found, or its lookup fails.
LEMMA ServiceStep ==
  ASSUME DisInv, EnsureService \/ GetServiceFails
  PROVE  SafeInv' /\ log' = log
<1>1. /\ UNCHANGED <<valid, log, stale, model, size, rbac, past>>
      /\ pc = "service" /\ pc' = "syncPrefill"
      /\ obj' = [obj EXCEPT !.phase = "Running", !.ready = TRUE]
      /\ service' \/ "service" \in ignored'
  BY DEF EnsureService, GetServiceFails, Goto, cluster
<1>2. /\ obj'.gone = obj.gone /\ obj'.deleting = obj.deleting
      /\ obj'.finalizer = obj.finalizer /\ obj'.precheck = obj.precheck
      /\ obj'.loaded = obj.loaded /\ obj'.ready /\ obj'.phase # "Failed"
  BY <1>1 DEF DisInv, TypeOK, Application
<1>3. /\ CopyInv' /\ RemoveInv' /\ OwnedInv' /\ FinalInv'
      /\ Latest' = Latest /\ Versions' = Versions
  BY <1>1, <1>2, CreatingStep DEF Creating, Syncing
<1>4. AccountInv'
  BY <1>1 DEF DisInv, SafeInv, AccountInv
<1>5. ExistInv'
  BY <1>1, <1>2, <1>3 DEF DisInv, SafeInv, ExistInv, Copies, RBACObjects, Workloads
<1>6. PastInv'
  BY <1>1, <1>2, <1>3 DEF DisInv, SafeInv, PastInv, Copies, Reason, WorkloadHasModel,
     Creating, Syncing, RBACObjects
<1> QED
  BY <1>1, <1>3, <1>4, <1>5, <1>6 DEF SafeInv

\* The copy after the sync of a workload, and that one which is missing was lost.
LEMMA SyncedCopy ==
  ASSUME DisInv, NEW c \in Workloads, pc \in Syncing
  PROVE  /\ Synced(c, obj).gone = obj.gone /\ Synced(c, obj).deleting = obj.deleting
         /\ Synced(c, obj).finalizer = obj.finalizer
         /\ Synced(c, obj).precheck = obj.precheck /\ Synced(c, obj).loaded = obj.loaded
         /\ Synced(c, obj).ready => obj.ready
         /\ Synced(c, obj).phase = "Failed" => obj.phase = "Failed" \/ "lost" \in past
         /\ obj.ready => Synced(c, obj).ready \/ "lost" \in past
<1>1. size[c] = Missing => "lost" \in past
  <2>1. obj.ready \/ "lost" \in past
    BY DEF DisInv, SafeInv, PastInv
  <2>2. ~obj.deleting
    BY DEF DisInv, SafeInv, CopyInv, Creates, Creating
  <2> QED
    BY <2>1, <2>2 DEF DisInv, SafeInv, ExistInv, Copies
<1>2. obj \in Application
  BY DEF DisInv, TypeOK
<1> QED
  BY <1>1, <1>2 DEF Synced, Application

\* A workload is looked at and scaled.
LEMMA SyncStep ==
  ASSUME DisInv, NEW c \in Workloads, SyncWorkload(c) \/ ScaleLwsFails(c)
  PROVE  SafeInv' /\ log' = log
<1>1. /\ UNCHANGED <<valid, log, model, service, rbac, past>>
      /\ pc = SyncCall(c) /\ SyncNext(c, Synced(c, obj))
      /\ "service" \in ignored => "service" \in ignored'
  BY DEF SyncWorkload, ScaleLwsFails, cluster, Workloads
<1>2. /\ pc \in Syncing /\ pc' \in {"syncDecode", "syncRouter", "status"}
      /\ obj' = Synced(c, obj) /\ stale' = stale
  BY <1>1 DEF SyncCall, SyncNext, Goto, Return, Syncing, Workloads
<1>3. \A x \in Workloads : size'[x] = Missing <=> size[x] = Missing
  <2>1. obj.want[c] \in Nat \cup {Unset}
    BY DisaggregatedAssumption DEF DisInv, TypeOK, Application
  <2>2. Replicas(c, obj.want[c]) # Missing
    BY <2>1 DEF Replicas, Unset, Missing
  <2>3. CASE SyncWorkload(c)
    BY <2>2, <2>3 DEF SyncWorkload, DisInv, TypeOK
  <2>4. CASE ScaleLwsFails(c)
    BY <2>4 DEF ScaleLwsFails, cluster
  <2> QED
    BY <2>3, <2>4
<1>4. /\ obj'.gone = obj.gone /\ obj'.deleting = obj.deleting
      /\ obj'.finalizer = obj.finalizer
      /\ obj'.precheck = obj.precheck /\ obj'.loaded = obj.loaded
      /\ obj'.ready => obj.ready
      /\ obj'.phase = "Failed" => obj.phase = "Failed" \/ "lost" \in past
      /\ obj.ready => obj'.ready \/ "lost" \in past
  BY <1>2, SyncedCopy
<1>5. /\ CopyInv' /\ RemoveInv' /\ OwnedInv' /\ FinalInv'
      /\ Latest' = Latest /\ Versions' = Versions
  BY <1>1, <1>2, <1>4, CreatingStep DEF Creating, Syncing
<1>6. AccountInv'
  BY <1>1, <1>2, <1>3 DEF DisInv, SafeInv, AccountInv, Workloads
<1>7. ExistInv'
  BY <1>1, <1>2, <1>3, <1>4, <1>5 DEF DisInv, SafeInv, ExistInv, Copies, RBACObjects
<1>8. PastInv'
  <2>1. PastInv /\ ("lost" \in past => Reason)
    BY DEF DisInv, SafeInv, Reason
  <2>2. WorkloadHasModel'
    BY <1>1, <1>3, <2>1 DEF PastInv, WorkloadHasModel
  <2>3. /\ obj.precheck /\ obj.loaded
        /\ obj'.phase = "Failed" => Reason'
        /\ pc' \in Syncing => obj'.ready \/ "lost" \in past'
    BY <1>1, <1>2, <1>4, <2>1 DEF PastInv, Copies, Reason, Creating, Syncing
  <2> QED
    BY <1>1, <1>4, <1>5, <2>1, <2>2, <2>3 DEF PastInv, Copies, Reason
<1> QED
  BY <1>1, <1>5, <1>6, <1>7, <1>8 DEF SafeInv

\* A call of reconcile fails.
LEMMA FailStep ==
  ASSUME DisInv, ReconcileFails
  PROVE  SafeInv' /\ log' = log
<1>1. /\ UNCHANGED <<valid, log, model, size, service, rbac, ignored>>
      /\ past \subseteq past'
      /\ "lost" \in past' => "lost" \in past
      /\ pc \in {"addFinalizer"} \cup Creating
  BY DEF ReconcileFails, cluster, Creating, Syncing, RBACObjects
<1>2. /\ pc' = "status" /\ stale' = stale
      /\ \/ obj' = obj
         \/ obj' = [obj EXCEPT !.phase = "Checking", !.precheck = TRUE] /\ valid
         \/ obj' = [obj EXCEPT !.phase = "Creating"]
         \/ /\ obj' = [obj EXCEPT !.phase = "Failed", !.precheck = FALSE]
            /\ "rbacFailed" \in past'
         \/ obj' = Synced("router", obj) /\ pc \in Syncing
  BY DEF ReconcileFails, Return, Syncing
<1>3. /\ obj'.gone = obj.gone /\ obj'.deleting = obj.deleting
      /\ obj'.finalizer = obj.finalizer /\ obj'.loaded = obj.loaded
      /\ obj'.precheck => obj.precheck \/ valid
      /\ obj'.ready => obj.ready
      /\ obj'.phase = "Failed" => \/ obj.phase = "Failed"
                                  \/ "lost" \in past \/ "rbacFailed" \in past'
  BY <1>2, SyncedCopy DEF DisInv, TypeOK, Application, Workloads
<1>4. /\ CopyInv' /\ RemoveInv' /\ OwnedInv' /\ FinalInv'
      /\ Latest' = Latest /\ Versions' = Versions
  BY <1>1, <1>2, <1>3, CreatingStep
<1>5. AccountInv' /\ ExistInv'
  BY <1>1, <1>2, <1>3, <1>4 DEF DisInv, SafeInv, AccountInv, ExistInv, Copies, RBACObjects
<1>6. PastInv'
  <2>1. PastInv
    BY DEF DisInv, SafeInv
  <2>2. (Reason => Reason') /\ (obj'.phase = "Failed" => Reason')
    BY <1>1, <1>3, <2>1 DEF PastInv, Reason, Copies
  <2> QED
    BY <1>1, <1>2, <1>3, <1>4, <2>1, <2>2 DEF PastInv, Copies, WorkloadHasModel, Creating,
       Syncing, RBACObjects
<1> QED
  BY <1>1, <1>4, <1>5, <1>6 DEF SafeInv

\* Reconcile ends with an update of the latest version, or without one.
LEMMA StatusStep ==
  ASSUME DisInv, UpdateStatus \/ RemoveFinalizer
  PROVE  SafeInv' /\ (Latest.phase = "Failed" => Latest'.phase = "Failed")
<1>1. /\ UNCHANGED <<valid, model, size, service, rbac, ignored, past>>
      /\ pc' = "idle" /\ obj' = Nothing
  BY DEF UpdateStatus, RemoveFinalizer, Finish, cluster, history
<1>2. CASE log' = log
  BY <1>1, <1>2, IdleStep DEF Latest
<1>3. CASE log' # log
  <2> DEFINE a == IF pc = "status" THEN obj
                  ELSE [obj EXCEPT !.finalizer = FALSE, !.gone = TRUE]
  <2>1. /\ ~stale /\ pc \in {"status", "removeFinalizer"} /\ Store(a)
    BY <1>3 DEF UpdateStatus, RemoveFinalizer
  <2>2. /\ TypeOK /\ obj \in Application /\ Latest \in Versions
        /\ Len(log) = 1 => Versions = {Latest}
    BY VersionsOfLog DEF DisInv, TypeOK
  <2>3. /\ a \in Application /\ a.deleting = obj.deleting /\ a.ready = obj.ready
        /\ a.precheck = obj.precheck /\ a.loaded = obj.loaded /\ a.phase = obj.phase
        /\ pc = "status" => a.finalizer = obj.finalizer /\ a.gone = obj.gone
        /\ pc = "removeFinalizer" => ~a.finalizer /\ a.gone
    BY <2>2 DEF Application
  <2>4. Latest.deleting => a.deleting
    BY <2>1, <2>3 DEF DisInv, SafeInv, CopyInv
  <2>5. /\ Latest' = a /\ Versions' \subseteq Versions \cup {a}
        /\ DeletingLasts => DeletingLasts'
    BY <2>1, <2>2, <2>3, <2>4, StoreVersion
  <2> HIDE DEF a
  <2>6. CopyInv' /\ RemoveInv' /\ FinalInv'
    BY <1>1, <2>5 DEF DisInv, SafeInv, CopyInv, RemoveInv, FinalInv, Creating, Removing,
       Syncing, RBACObjects
  <2>7. OwnedInv'
    <3>1. CASE pc = "status"
      BY <1>1, <2>1, <2>3, <2>5, <3>1 DEF DisInv, SafeInv, CopyInv, OwnedInv, Empty,
         Creates, Creating, Syncing, RBACObjects
    <3>2. CASE pc = "removeFinalizer"
      <4>1. Empty' /\ Versions = {Latest} /\ Latest.deleting
        BY <1>1, <2>1, <2>2, <3>2 DEF DisInv, SafeInv, CopyInv, RemoveInv, Removing, Empty,
           Workloads
      <4> QED
        BY <1>1, <2>3, <2>5, <3>2, <4>1 DEF OwnedInv, Creates, Creating, Syncing, RBACObjects
    <3> QED
      BY <2>1, <3>1, <3>2
  <2>8. Copies' \subseteq Copies \cup {a, Nothing} /\ obj \in Copies
    BY <1>1, <2>5 DEF Copies
  <2>9. AccountInv' /\ ExistInv'
    BY <1>1, <2>3, <2>8, NothingIsNew DEF DisInv, SafeInv, AccountInv, ExistInv, RBACObjects
  <2>10. PastInv'
    BY <1>1, <2>3, <2>4, <2>5, <2>8, NothingIsNew DEF DisInv, SafeInv, PastInv, Reason,
       WorkloadHasModel, Creating, Syncing, RBACObjects
  <2>11. Latest.phase = "Failed" => Latest'.phase = "Failed"
    BY <2>1, <2>3, <2>5 DEF DisInv, SafeInv, FinalInv
  <2> QED
    BY <2>6, <2>7, <2>9, <2>10, <2>11 DEF SafeInv
<1> QED
  BY <1>2, <1>3

\* remove deletes the service and the workloads.
LEMMA DeleteStep ==
  ASSUME DisInv, DeleteService \/ \E c \in Workloads : DeleteWorkload(c)
  PROVE  SafeInv' /\ log' = log
<1>1. /\ UNCHANGED <<valid, log, obj, stale, model, rbac, ignored, past>>
      /\ Latest' = Latest /\ Versions' = Versions /\ (DeletingLasts => DeletingLasts')
      /\ service' => service
  BY DEF DeleteService, DeleteWorkload, Goto, history, Latest, Versions, DeletingLasts
<1>2. /\ \A x \in Workloads : size'[x] # Missing => size'[x] = size[x]
      /\ \/ pc = "deleteService" /\ pc' = "deletePrefill" /\ ~service' /\ size' = size
         \/ /\ pc = "deletePrefill" /\ pc' = "deleteDecode" /\ size'["prefill"] = Missing
         \/ /\ pc = "deleteDecode" /\ pc' = "deleteRouter" /\ size'["decode"] = Missing
         \/ /\ pc = "deleteRouter" /\ pc' = "removeFinalizer" /\ size'["router"] = Missing
  <2>1. CASE DeleteService
    BY <2>1 DEF DeleteService, Goto
  <2>2. ASSUME NEW c \in Workloads, DeleteWorkload(c)
        PROVE  /\ \A x \in Workloads : size'[x] = IF x = c THEN Missing ELSE size[x]
               /\ \/ c = "prefill" /\ pc = "deletePrefill" /\ pc' = "deleteDecode"
                  \/ c = "decode" /\ pc = "deleteDecode" /\ pc' = "deleteRouter"
                  \/ c = "router" /\ pc = "deleteRouter" /\ pc' = "removeFinalizer"
    BY <2>2 DEF DeleteWorkload, DeleteCall, Goto, Workloads, DisInv, TypeOK
  <2> QED
    BY <2>1, <2>2 DEF Workloads
<1>3. /\ pc \in Removing /\ pc' \in Removing /\ pc' \notin Creating /\ pc' # "idle"
      /\ pc # "idle"
  BY <1>2 DEF Removing, Creating, Syncing, RBACObjects
<1>4. CopyInv' /\ FinalInv'
  BY <1>1, <1>3 DEF DisInv, SafeInv, CopyInv, FinalInv
<1>5. RemoveInv'
  BY <1>1, <1>2 DEF DisInv, SafeInv, RemoveInv, Removing, Workloads
<1>6. OwnedInv' /\ AccountInv'
  BY <1>1, <1>2, <1>3 DEF DisInv, SafeInv, OwnedInv, AccountInv, Empty, Workloads
<1>7. \A v \in Copies' : v.deleting
  BY <1>1, <1>3 DEF DisInv, SafeInv, CopyInv, Copies
<1>8. Latest'.deleting
  BY <1>1, <1>7, VersionsOfLog DEF DisInv, Copies
<1>9. ExistInv'
  BY <1>2, <1>7 DEF ExistInv, RBACObjects
<1>10. PastInv'
  BY <1>1, <1>2, <1>3, <1>8 DEF DisInv, SafeInv, PastInv, Copies, Reason, WorkloadHasModel,
     Creating, Removing, Syncing, RBACObjects
<1> QED
  BY <1>1, <1>4, <1>5, <1>6, <1>9, <1>10 DEF SafeInv

\* Watch events, resyncs and restarts change no object.
LEMMA CacheStep ==
  ASSUME DisInv, Watch \/ Resync \/ Restart \/ UNCHANGED vars
  PROVE  SafeInv' /\ Latest' = Latest
<1>1. /\ UNCHANGED <<valid, model, size, service, rbac, ignored, past>>
      /\ \/ UNCHANGED <<pc, obj, stale>> /\ (log' = log \/ Len(log) > 1)
         \/ pc' = "idle" /\ obj' = Nothing
  BY DEF Watch, Resync, Restart, vars, running, cluster, history
<1>2. /\ Latest' = Latest /\ Versions' \subseteq Versions
      /\ DeletingLasts => DeletingLasts'
  <2>1. CASE log' = log
    BY <2>1 DEF Latest, Versions, DeletingLasts
  <2>2. CASE log' # log
    BY <2>2, WatchVersion, RestartVersion DEF DisInv, Watch, Resync, Restart, vars
  <2> QED
    BY <2>1, <2>2
<1>3. CopyInv'
  <2>1. CASE pc' = "idle"
    BY <1>2, <2>1 DEF DisInv, SafeInv, CopyInv, Creating, Removing, Syncing, RBACObjects
  <2>2. CASE UNCHANGED <<pc, obj, stale>> /\ log' = log
    BY <1>2, <2>2 DEF DisInv, SafeInv, CopyInv, Creates
  <2>3. CASE UNCHANGED <<pc, obj, stale>> /\ Len(log) > 1
    <3>1. pc \in Removing => stale
      <4>1. stale \in BOOLEAN /\ Len(log) \in Nat
        BY DEF DisInv, TypeOK
      <4>2. Len(log) # 1
        BY <2>3, <4>1
      <4> QED
        BY <4>1, <4>2 DEF DisInv, SafeInv, CopyInv
    <3> QED
      BY <1>2, <2>3, <3>1 DEF DisInv, SafeInv, CopyInv, Creates
  <2> QED
    BY <1>1, <2>1, <2>2, <2>3
<1>4. OwnedInv' /\ RemoveInv' /\ AccountInv' /\ FinalInv'
  BY <1>1, <1>2 DEF DisInv, SafeInv, OwnedInv, RemoveInv, AccountInv, FinalInv, Empty,
     Creating, Removing, Syncing, RBACObjects
<1>5. Copies' \subseteq Copies \cup {Nothing}
  BY <1>1, <1>2 DEF Copies
<1>6. ExistInv'
  BY <1>1, <1>5, NothingIsNew DEF DisInv, SafeInv, ExistInv, RBACObjects
<1>7. PastInv'
  BY <1>1, <1>2, <1>5, NothingIsNew DEF DisInv, SafeInv, PastInv, Reason,
     WorkloadHasModel, Creating, Syncing, RBACObjects
<1> QED
  BY <1>2, <1>3, <1>4, <1>6, <1>7 DEF SafeInv

\* The user deletes or edits the application.
LEMMA UserStep ==
  ASSUME DisInv, DeleteApplication \/ EditApplication
  PROVE  SafeInv' /\ Latest'.phase = Latest.phase
<1>1. TypeOK /\ Latest \in Application /\ Latest \in Versions
  BY VersionsOfLog DEF DisInv
<1>2. PICK a \in Application :
        /\ Store(a) /\ a.phase = Latest.phase /\ a.finalizer = Latest.finalizer
        /\ a.gone => ~a.finalizer
        /\ Latest.deleting => a.deleting
        /\ a.precheck = Latest.precheck /\ a.loaded = Latest.loaded
        /\ a.ready = Latest.ready
  <2>1. CASE DeleteApplication
    <3> DEFINE a == [Latest EXCEPT !.deleting = TRUE, !.gone = ~Latest.finalizer]
    <3>1. /\ a \in Application /\ a.phase = Latest.phase /\ a.finalizer = Latest.finalizer
          /\ a.gone => ~a.finalizer
          /\ a.deleting /\ a.ready = Latest.ready
          /\ a.precheck = Latest.precheck /\ a.loaded = Latest.loaded
      BY <1>1 DEF Application
    <3> QED
      BY <2>1, <3>1 DEF DeleteApplication
  <2>2. CASE EditApplication
    <3>1. PICK w \in Wants : Store([Latest EXCEPT !.want = w]) /\ ~Latest.gone
      BY <2>2 DEF EditApplication
    <3> DEFINE a == [Latest EXCEPT !.want = w]
    <3>2. /\ a \in Application /\ a.phase = Latest.phase /\ a.finalizer = Latest.finalizer
          /\ a.gone = Latest.gone /\ a.deleting = Latest.deleting /\ a.ready = Latest.ready
          /\ a.precheck = Latest.precheck /\ a.loaded = Latest.loaded
      BY <1>1 DEF Application
    <3> QED
      BY <3>1, <3>2
  <2> QED
    BY <2>1, <2>2
<1>3. /\ Latest' = a /\ Versions' \subseteq Versions \cup {a}
      /\ DeletingLasts => DeletingLasts'
  BY <1>1, <1>2, StoreVersion
<1>4. /\ UNCHANGED <<valid, model, size, service, rbac, ignored, past, pc, obj>>
      /\ pc # "idle" => stale'
  BY DEF DeleteApplication, EditApplication, cluster, history
<1>5. CopyInv' /\ FinalInv'
  BY <1>1, <1>2, <1>3, <1>4 DEF DisInv, SafeInv, CopyInv, FinalInv, Creates, Creating,
     Removing, Syncing, RBACObjects
<1>6. OwnedInv'
  BY <1>1, <1>2, <1>3, <1>4 DEF DisInv, SafeInv, OwnedInv, Empty, Creates
<1>7. RemoveInv' /\ AccountInv'
  BY <1>4 DEF DisInv, SafeInv, RemoveInv, AccountInv
<1>8. Copies' \subseteq Copies \cup {a} /\ Latest \in Copies
  BY <1>1, <1>3, <1>4 DEF Copies
<1>9. ExistInv'
  BY <1>2, <1>4, <1>8 DEF DisInv, SafeInv, ExistInv
<1>10. PastInv'
  BY <1>2, <1>3, <1>4, <1>8 DEF DisInv, SafeInv, PastInv, Reason, WorkloadHasModel
<1> QED
  BY <1>2, <1>3, <1>5, <1>6, <1>7, <1>9, <1>10 DEF SafeInv

\* The model, the workloads and others change what the controller looks at.
LEMMA ClusterStep ==
  ASSUME DisInv, ModelProgress \/ OthersDeleted \/ WorkloadReady \/ WorkloadChanges
  PROVE  SafeInv' /\ log' = log
<1>1. /\ UNCHANGED <<valid, log, pc, obj, stale, rbac, ignored>>
      /\ Latest' = Latest /\ Versions' = Versions /\ (DeletingLasts => DeletingLasts')
      /\ past \subseteq past'
      /\ service' => service
      /\ service /\ ~service' => "serviceLost" \in past'
  BY DEF ModelProgress, OthersDeleted, WorkloadReady, WorkloadChanges, running, cluster,
     history, Latest, Versions, DeletingLasts
<1>2. /\ \A x \in Workloads : size'[x] = Missing \/ size'[x] = size[x]
      /\ size' = size \/ "lost" \in past'
  BY DEF ModelProgress, OthersDeleted, WorkloadReady, WorkloadChanges, cluster, DisInv, TypeOK
<1>3. \/ UNCHANGED model
      \/ /\ model' \in {"absent", "Failed"} => "noModel" \in past'
         /\ model' = "Ready" => "Ready" \in past'
  BY DEF ModelProgress, OthersDeleted, WorkloadReady, WorkloadChanges
<1>4. CopyInv' /\ FinalInv'
  BY <1>1 DEF DisInv, SafeInv, CopyInv, FinalInv
<1>5. RemoveInv' /\ OwnedInv' /\ AccountInv'
  BY <1>1, <1>2 DEF DisInv, SafeInv, RemoveInv, OwnedInv, AccountInv, Empty, Workloads
<1>6. ExistInv'
  BY <1>1, <1>2 DEF DisInv, SafeInv, ExistInv, Copies
<1>7. PastInv'
  BY <1>1, <1>2, <1>3 DEF DisInv, SafeInv, PastInv, Copies, Reason, WorkloadHasModel
<1> QED
  BY <1>1, <1>4, <1>5, <1>6, <1>7 DEF SafeInv

-----------------------------------------------------------------------------
\* The inductive invariant holds in every state.
LEMMA Inductive == Spec => []DisInv
<1>1. Init => DisInv
  <2> SUFFICES ASSUME Init PROVE DisInv
    OBVIOUS
  <2>1. PICK w \in Wants : log = <<NewApplication(w)>>
    BY DEF Init
  <2> DEFINE a == NewApplication(w)
  <2>2. /\ a \in Application /\ ~a.gone /\ ~a.finalizer /\ ~a.deleting /\ ~a.precheck
        /\ ~a.loaded /\ ~a.ready /\ a.phase # "Failed"
    BY NothingIsNew DEF NewApplication
  <2> HIDE DEF a
  <2>3. /\ log \in Seq(Application) /\ Len(log) = 1 /\ Latest = a /\ Versions = {a}
        /\ DeletingLasts /\ obj = Nothing
    BY <2>1, <2>2 DEF a, Init, Latest, Last, Versions, DeletingLasts
  <2>4. TypeOK
    <3>1. /\ past \subseteq {"Ready", "noModel", "lost", "serviceLost", "rbacFailed"}
          /\ size \in [Workloads -> Nat \cup {Missing}]
      BY DEF Init
    <3>2. /\ Len(log) \in 1 .. MaxLag + 1
          /\ faults \in 0 .. MaxFaults /\ changes \in 0 .. MaxChanges
      BY <2>3, DisaggregatedAssumption DEF Init
    <3>3. pc \in Calls /\ obj \in Application
      BY NothingIsNew DEF Init, Calls
    <3> QED
      BY <2>3, <3>1, <3>2, <3>3 DEF Init, TypeOK
  <2>5. CopyInv /\ RemoveInv /\ OwnedInv /\ FinalInv
    BY <2>2, <2>3 DEF Init, CopyInv, RemoveInv, OwnedInv, FinalInv, Empty, Creating,
       Removing, Syncing, RBACObjects, Creates
  <2>6. AccountInv /\ ExistInv
    BY <2>2, <2>3, NothingIsNew DEF Init, AccountInv, ExistInv, Copies, RBACObjects, Workloads
  <2>7. PastInv
    BY <2>2, <2>3, NothingIsNew DEF Init, PastInv, Copies, WorkloadHasModel, Creating,
       Syncing, RBACObjects
  <2> QED
    BY <2>4, <2>5, <2>6, <2>7 DEF DisInv, SafeInv
<1>2. DisInv /\ [Next]_vars => DisInv'
  <2> SUFFICES ASSUME DisInv, [Next]_vars PROVE DisInv'
    OBVIOUS
  <2>1. TypeOK'
    BY TypeReconcile, TypeCreate, TypeSync, TypeFails, TypeRemove, TypeOthers
    DEF DisInv, Next, Reconcile, Failures
  <2>2. ASSUME UpdateFails PROVE SafeInv'
    BY <2>2, IdleStep DEF UpdateFails, Finish, cluster, history
  <2>3. SafeInv'
    BY <2>2, GetStep, FinalizerStep, CheckStep, LwsStep, RouterStep, ServiceStep, SyncStep,
       FailStep, StatusStep, DeleteStep, CacheStep, UserStep, ClusterStep
    DEF Next, Reconcile, Failures, Environment
  <2> QED
    BY <2>1, <2>3 DEF DisInv
<1> QED
  BY <1>1, <1>2, PTL DEF Spec

\* The variables keep their types.
THEOREM TypeCorrect == Spec => []TypeOK
BY Inductive, PTL DEF DisInv

\* Nothing outlives the application, whatever call failed and however old the
\* versions that Reconcile has worked on.
THEOREM NothingOutlives == Spec => []NoOrphans
<1>1. DisInv => NoOrphans
  BY DEF DisInv, SafeInv, OwnedInv, Empty, NoOrphans
<1> QED
  BY Inductive, <1>1, PTL

\* A router under the account of the controller has the account, its role and
\* the binding of the two, wherever applyRouterRBAC was interrupted.
THEOREM RouterAccount == Spec => []RouterHasAccount
<1>1. DisInv => RouterHasAccount
  BY DEF DisInv, SafeInv, AccountInv, RouterHasAccount
<1> QED
  BY Inductive, <1>1, PTL

\* A Running application has its service, unless someone has deleted it or the
\* lookup whose error reconcile ignores has failed.
THEOREM ServiceThere == Spec => []RunningHasService
<1>1. DisInv => RunningHasService
  BY VersionsOfLog DEF DisInv, SafeInv, PastInv, Copies, RunningHasService
<1> QED
  BY Inductive, <1>1, PTL

\* Nothing is created before the model was Ready and the checks passed.
THEOREM ModelComesFirst == Spec => []WorkloadHasModel
<1>1. DisInv => WorkloadHasModel
  BY DEF DisInv, SafeInv, PastInv
<1> QED
  BY Inductive, <1>1, PTL

\* An application fails only if it is not valid, its model is missing or has
\* failed, a workload was deleted, or the RBAC objects could not be applied.
THEOREM FailureHasReason == Spec => []FailedHasReason
<1>1. DisInv => FailedHasReason
  BY VersionsOfLog DEF DisInv, SafeInv, PastInv, Copies, Reason, FailedHasReason
<1> QED
  BY Inductive, <1>1, PTL

\* Failed is final: no status update made from an older version sets it back.
THEOREM FailureIsFinal == Spec => FailedIsFinal
<1>1. DisInv /\ [Next]_vars => [Latest.phase = "Failed" => Latest'.phase = "Failed"]_vars
  <2> SUFFICES ASSUME DisInv, Next
               PROVE  Latest.phase = "Failed" => Latest'.phase = "Failed"
    OBVIOUS
  <2>1. ASSUME log' = log PROVE Latest' = Latest
    BY <2>1 DEF Latest
  <2>2. GetApplication \/ CheckModel \/ UpdateFails => log' = log
    BY DEF GetApplication, CheckModel, UpdateFails
  <2> QED
    BY <2>1, <2>2, FinalizerStep, LwsStep, RouterStep, ServiceStep, SyncStep, FailStep,
       StatusStep, DeleteStep, CacheStep, UserStep, ClusterStep
    DEF Next, Reconcile, Failures, Environment
<1> QED
  BY Inductive, <1>1, PTL DEF Spec, FailedIsFinal
-----------------------------------------------------------------------------
\* The application is to be looked at again: it is queued, or a watch event that
\* will queue it is on its way.
Awaited == queued \/ Len(log) > 1

\* Version a reports workload c as it is, and c has the replicas that a asks for.
Reports(a, c) ==
  /\ c \in a.up <=> c \in up
  /\ size[c] # Missing /\ (c \in ignored \/ size[c] = Replicas(c, a.want[c]))

\* The workloads that a Reconcile has dealt with before the given call.
SyncedBefore(call) ==
  CASE call = "syncDecode" -> {"prefill"}
    [] call = "syncRouter" -> {"prefill", "decode"}
    [] call = "status"     -> Workloads
    [] OTHER               -> {}

\* Unless the application is awaited, an idle controller has dealt with its latest
\* version, and one that runs is dealing with it.
AwaitInv ==
  /\ stale => Awaited
  /\ Latest.gone => Latest.deleting
  /\ pc \in {"addFinalizer", "status"} => ~obj.deleting
  /\ pc = "addFinalizer" => ~obj.finalizer
  /\ stale => pc # "idle"
  /\ failed => pc = "status"
  /\ pc = "idle" /\ ~Awaited /\ Latest.deleting => Latest.gone
  /\ pc = "idle" /\ ~Awaited /\ Latest.phase = "Running" /\ ~Latest.deleting =>
       \A c \in Workloads : Reports(Latest, c)
  /\ pc # "idle" /\ ~Awaited /\ ~failed /\ obj.phase = "Running" =>
       \A c \in SyncedBefore(pc) : Reports(obj, c)

\* The application is still awaited after a step of the environment, of the cache,
\* or of a Reconcile that returns an error.
LEMMA AwaitedStep ==
  ASSUME Awaited', Latest'.gone => Latest'.deleting,
         \/ UNCHANGED <<pc, obj, failed>> /\ (stale' => stale \/ pc # "idle")
         \/ pc' = "idle" /\ ~stale' /\ ~failed',
         AwaitInv
  PROVE  AwaitInv'
BY DEF AwaitInv

\* A call of reconcile after which nothing is reported yet, or an error is returned.
LEMMA UnreportedStep ==
  ASSUME AwaitInv, UNCHANGED <<log, queued, stale>>, pc' # "idle",
         pc' = "status" => ~obj'.deleting, pc' # "addFinalizer", failed' => pc' = "status",
         obj'.phase # "Running" \/ failed' \/ SyncedBefore(pc') = {}
  PROVE  AwaitInv'
<1>1. Latest' = Latest /\ (Awaited => Awaited')
  BY DEF Latest, Awaited
<1> QED
  BY <1>1 DEF AwaitInv

\* A stored version that differs from the latest is announced by a watch event.
LEMMA StoreAwaited ==
  ASSUME TypeOK, NEW a, Store(a), a # Latest
  PROVE  Awaited'
<1>1. log' = Append(log, a)
  BY DEF Store
<1>2. Len(log') = Len(log) + 1 /\ Len(log) \in Nat /\ Len(log) >= 1
  BY <1>1, DisaggregatedAssumption DEF TypeOK
<1>3. Len(log') > 1
  BY ONLY <1>2
<1> QED
  BY <1>3 DEF Awaited

\* The user, the cache and the workloads have the application awaited; the model
\* and the service do not, but it does not report on them.
LEMMA OutsideAwait ==
  ASSUME DisInv, AwaitInv,
         Watch \/ Resync \/ Restart \/ Environment \/ UpdateFails \/ UNCHANGED vars
  PROVE  AwaitInv'
<1>0. TypeOK /\ Latest \in Application
  BY VersionsOfLog DEF DisInv
<1>1. CASE Watch \/ Resync \/ WorkloadReady \/ WorkloadChanges \/ Restart \/ UpdateFails
  <2>1. queued' = TRUE
    BY <1>1 DEF Watch, Resync, WorkloadReady, WorkloadChanges, Restart, UpdateFails, Finish
  <2>2. Latest' = Latest
    <3>1. CASE Watch
      BY <1>0, <3>1, WatchVersion DEF Watch
    <3>2. CASE Restart
      BY <1>0, <3>2, RestartVersion DEF Restart
    <3>3. CASE Resync \/ WorkloadReady \/ WorkloadChanges \/ UpdateFails
      BY <3>3 DEF Resync, WorkloadReady, WorkloadChanges, UpdateFails, Latest
    <3> QED
      BY <1>1, <3>1, <3>2, <3>3
  <2>3. \/ UNCHANGED <<pc, obj, failed, stale>>
        \/ pc' = "idle" /\ stale' = FALSE /\ failed' = FALSE
    BY <1>1 DEF Watch, Resync, WorkloadReady, WorkloadChanges, Restart, UpdateFails, Finish,
       running
  <2> QED
    BY <2>1, <2>2, <2>3, AwaitedStep DEF AwaitInv, Awaited
<1>2. CASE DeleteApplication
  <2> DEFINE a == [Latest EXCEPT !.deleting = TRUE, !.gone = ~Latest.finalizer]
  <2>1. /\ a \in Application /\ a.deleting /\ a # Latest
        /\ Store(a) /\ UNCHANGED <<pc, obj, failed>> /\ stale' = (pc # "idle")
    BY <1>0, <1>2 DEF DeleteApplication, Application
  <2> HIDE DEF a
  <2>2. Latest' = a /\ Awaited'
    BY <1>0, <2>1, StoreVersion, StoreAwaited
  <2> QED
    BY <2>1, <2>2, AwaitedStep DEF AwaitInv
<1>3. CASE EditApplication
  <2>1. PICK w \in Wants \ {Latest.want} : Store([Latest EXCEPT !.want = w])
    BY <1>3 DEF EditApplication
  <2> DEFINE a == [Latest EXCEPT !.want = w]
  <2>2. /\ a \in Application /\ a # Latest /\ ~a.gone
        /\ Store(a) /\ UNCHANGED <<pc, obj, failed>> /\ stale' = (pc # "idle")
    BY <1>0, <1>3, <2>1 DEF EditApplication, Application
  <2> HIDE DEF a
  <2>3. Latest' = a /\ Awaited'
    BY <1>0, <2>2, StoreVersion, StoreAwaited
  <2> QED
    BY <2>2, <2>3, AwaitedStep DEF AwaitInv
<1>4. CASE ModelProgress \/ OthersDeleted \/ UNCHANGED vars
  <2>1. UNCHANGED <<log, queued, pc, obj, stale, failed, size, up, ignored>>
    BY <1>4 DEF ModelProgress, OthersDeleted, vars, running, cluster, history
  <2> QED
    BY <2>1 DEF AwaitInv, Awaited, Latest, Reports
<1> QED
  BY <1>1, <1>2, <1>3, <1>4 DEF Environment

\* A Reconcile starts with the latest version, or the latest is on its way.
LEMMA GetAwait ==
  ASSUME DisInv, AwaitInv, GetApplication
  PROVE  AwaitInv'
<1>1. /\ TypeOK /\ Cached \in Application /\ Len(log) \in Nat /\ Len(log) >= 1
      /\ Len(log) = 1 => Cached = Latest
  BY VersionsOfLog, DisaggregatedAssumption DEF DisInv, TypeOK
<1>2. log' = log /\ queued' = FALSE /\ Latest' = Latest /\ pc = "idle" /\ ~failed
  BY DEF GetApplication, Latest, AwaitInv
<1>3. CASE Cached.gone
  <2>1. UNCHANGED <<pc, obj, stale, failed>>
    BY <1>3 DEF GetApplication, running
  <2>2. CASE Len(log) > 1
    BY <1>2, <2>1, <2>2, AwaitedStep DEF AwaitInv, Awaited
  <2>3. CASE Len(log) = 1
    <3>1. Latest.gone /\ Latest.deleting
      BY <1>1, <1>3, <2>3 DEF AwaitInv
    <3>2. ~stale
      BY <1>2 DEF AwaitInv
    <3>3. pc' = "idle" /\ ~stale' /\ ~failed'
      BY <1>2, <2>1, <3>2, Zenon
    <3> QED
      BY <1>2, <3>1, <3>3 DEF AwaitInv
  <2>4. Len(log) > 1 \/ Len(log) = 1
    <3>1. \A n \in Nat : n >= 1 => n > 1 \/ n = 1
      OBVIOUS
    <3> QED
      BY <1>1, <3>1, Zenon
  <2> QED
    BY <2>2, <2>3, <2>4, Zenon
<1>4. CASE ~Cached.gone
  <2>1. /\ pc' = FirstCall(Cached) /\ stale' = (Len(log) > 1) /\ failed' = FALSE
        /\ obj' = IF Cached.phase = "" /\ ~Cached.deleting
                    THEN [Cached EXCEPT !.phase = "Pending"] ELSE Cached
    BY <1>4 DEF GetApplication
  <2>2. /\ obj'.deleting = Cached.deleting /\ obj'.finalizer = Cached.finalizer
        /\ Cached.phase = "Failed" => obj'.phase = "Failed"
    BY <1>1, <2>1 DEF Application
  <2>3. /\ pc' # "idle" /\ (pc' = "addFinalizer" => ~obj'.finalizer)
        /\ (pc' \in {"addFinalizer", "status"} => ~obj'.deleting)
        /\ obj'.phase # "Running" \/ SyncedBefore(pc') = {}
    BY <2>1, <2>2 DEF FirstCall, SyncedBefore
  <2>4. stale' => Awaited'
    BY <1>2, <2>1, Zenon DEF Awaited
  <2> QED
    BY <1>2, <2>1, <2>3, <2>4 DEF AwaitInv
<1> QED
  BY <1>3, <1>4

\* The finalizer is a new version, and a failed update of it an error.
LEMMA FinalizerAwait ==
  ASSUME DisInv, AwaitInv, AddFinalizer
  PROVE  AwaitInv'
<1>1. /\ UNCHANGED <<queued, stale>> /\ pc = "addFinalizer" /\ pc' = "status"
      /\ failed' = stale /\ obj' = [obj EXCEPT !.finalizer = ~stale]
  BY DEF AddFinalizer, Return
<1>2. TypeOK /\ obj \in Application /\ Latest \in Application
  BY VersionsOfLog DEF DisInv, TypeOK
<1>3. obj'.deleting = obj.deleting /\ ~obj.deleting
  BY <1>1, <1>2 DEF AwaitInv, Application
<1>4. CASE stale
  <2>1. Latest' = Latest /\ (Awaited => Awaited')
    BY <1>1, <1>4 DEF AddFinalizer, Latest, Awaited
  <2> QED
    BY <1>1, <1>3, <1>4, <2>1 DEF AwaitInv
<1>5. CASE ~stale
  <2> DEFINE a == [obj EXCEPT !.finalizer = TRUE, !.phase = Latest.phase]
  <2>1. /\ a \in Application /\ Store(a) /\ a.finalizer /\ ~a.gone
    BY <1>1, <1>2, <1>5 DEF AddFinalizer, Application, DisInv, SafeInv, CopyInv
  <2>2. a # Latest
    BY <1>1, <1>5, <2>1 DEF DisInv, SafeInv, CopyInv, AwaitInv
  <2> HIDE DEF a
  <2>3. Latest' = a /\ Awaited'
    BY <1>2, <2>1, <2>2, StoreVersion, StoreAwaited
  <2> QED
    BY <1>1, <1>3, <1>5, <2>1, <2>3 DEF AwaitInv
<1> QED
  BY <1>4, <1>5

\* The calls that create, and those of remove, report nothing.
LEMMA CreateAwait ==
  ASSUME DisInv, AwaitInv,
         \/ CheckModel \/ GetRouter \/ ApplyRouterRBAC \/ CreateRouter \/ EnsureService
         \/ GetServiceFails \/ DeleteService
         \/ \E c \in Workloads : EnsureLws(c) \/ DeleteWorkload(c)
  PROVE  AwaitInv'
<1>0. TypeOK /\ obj \in Application
  BY DEF DisInv, TypeOK
<1>1. pc \in Creating => ~obj.deleting
  BY DEF DisInv, SafeInv, CopyInv, Creates
<1>2. pc # "status" => ~failed
  BY DEF AwaitInv
<1>3. CASE CheckModel
  <2> DEFINE a == IF obj.precheck THEN obj
                  ELSE [obj EXCEPT !.phase = "Checking", !.precheck = valid]
  <2>1. a \in Application /\ a.deleting = obj.deleting
    BY <1>0 DEF TypeOK, Application, Phases
  <2>2. /\ UNCHANGED <<log, queued, stale>> /\ pc = "model"
        /\ \/ /\ pc' \in {"syncPrefill", "prefill"} /\ failed' = failed
           \/ /\ pc' = "status" /\ failed' = FALSE
              /\ \/ obj' = [a EXCEPT !.phase = "Failed"]
                 \/ obj' = [a EXCEPT !.phase = "Failed", !.loaded = FALSE]
                 \/ obj' = [a EXCEPT !.phase = "Loading"]
    BY <1>3 DEF CheckModel, WaitForModel, Goto, Return
  <2> HIDE DEF a
  <2>3. pc' = "status" => obj'.phase # "Running" /\ obj'.deleting = obj.deleting
    BY <2>1, <2>2 DEF Application
  <2> QED
    BY <1>1, <1>2, <2>2, <2>3, UnreportedStep DEF SyncedBefore, Creating
<1>4. ASSUME NEW c \in Workloads, EnsureLws(c)
      PROVE  AwaitInv'
  <2>1. CASE Finish(TRUE)
    <3>1. /\ log' = log /\ queued' = TRUE /\ pc' = "idle" /\ stale' = FALSE
          /\ failed' = FALSE /\ Latest' = Latest
      BY <1>4, <2>1 DEF EnsureLws, Finish, Latest
    <3> QED
      BY <3>1, AwaitedStep DEF AwaitInv, Awaited
  <2>2. CASE Goto(After(c), [obj EXCEPT !.phase = "Creating"]) /\ UNCHANGED queued
    <3>1. /\ UNCHANGED <<log, queued, stale, failed>> /\ pc' \in {"decode", "router"}
          /\ pc = c /\ pc # "status"
      BY <1>4, <2>2 DEF EnsureLws, Goto, After, Workloads
    <3> QED
      BY <1>2, <3>1, UnreportedStep DEF SyncedBefore
  <2> QED
    BY <1>4, <2>1, <2>2 DEF EnsureLws
<1>5. CASE GetRouter \/ CreateRouter \/ EnsureService \/ GetServiceFails
  <2>1. /\ UNCHANGED <<log, queued, stale, failed>> /\ pc # "status"
        /\ pc' \in {"service", "createRouter", "role", "syncPrefill"}
    BY <1>5 DEF GetRouter, CreateRouter, EnsureService, GetServiceFails, Goto, RBACOrder
  <2> QED
    BY <1>2, <2>1, UnreportedStep DEF SyncedBefore
<1>6. CASE ApplyRouterRBAC
  <2>1. UNCHANGED <<log, queued, stale, failed>> /\ pc \in RBACObjects
    BY <1>6 DEF ApplyRouterRBAC, Goto
  <2>2. pc' \in {"account", "binding", "createRouter"} \cup RBACObjects
    <3> DEFINE i == CHOOSE k \in DOMAIN RBACOrder : RBACOrder[k] = pc
    <3>1. i \in DOMAIN RBACOrder
      BY <1>6 DEF ApplyRouterRBAC, RBACOrder, RBACObjects
    <3>2. pc' = IF i = Len(RBACOrder) THEN "createRouter" ELSE RBACOrder[i + 1]
      BY <1>6 DEF ApplyRouterRBAC, Goto
    <3> HIDE DEF i
    <3> QED
      BY <3>1, <3>2 DEF RBACOrder
  <2> QED
    BY <1>2, <2>1, <2>2, UnreportedStep DEF SyncedBefore, RBACObjects
<1>7. ASSUME NEW c \in Workloads, DeleteService \/ DeleteWorkload(c)
      PROVE  AwaitInv'
  <2>1. /\ UNCHANGED <<log, queued, stale, failed>> /\ pc # "status"
        /\ pc' \in {"deletePrefill", "deleteDecode", "deleteRouter", "removeFinalizer"}
    BY <1>7 DEF DeleteService, DeleteWorkload, DeleteCall, Goto, Workloads
  <2> QED
    BY <1>2, <2>1, UnreportedStep DEF SyncedBefore
<1>8. "prefill" \in Workloads
  BY DEF Workloads
<1> QED
  BY <1>3, <1>4, <1>5, <1>6, <1>7, <1>8

\* A call of reconcile that fails leaves an error behind.
LEMMA FailAwait ==
  ASSUME DisInv, AwaitInv, ReconcileFails
  PROVE  AwaitInv'
<1>1. /\ UNCHANGED <<log, queued, stale>> /\ pc' = "status" /\ failed' = TRUE
      /\ pc \in {"addFinalizer"} \cup Creating
  BY DEF ReconcileFails, Return, Creating, Syncing
<1>2. ~obj.deleting /\ obj \in Application
  BY <1>1 DEF DisInv, TypeOK, SafeInv, CopyInv, Creates, AwaitInv
<1>3. \/ obj' = obj
      \/ obj' = [obj EXCEPT !.phase = "Checking", !.precheck = TRUE]
      \/ obj' = [obj EXCEPT !.phase = "Creating"]
      \/ obj' = [obj EXCEPT !.phase = "Failed", !.precheck = FALSE]
      \/ obj' = Synced("router", obj)
  BY DEF ReconcileFails, Return
<1>4. obj'.deleting = obj.deleting
  BY <1>2, <1>3 DEF Synced, Application
<1> QED
  BY <1>1, <1>2, <1>4, UnreportedStep

\* The sync of a workload reports it.
LEMMA SyncAwait ==
  ASSUME DisInv, AwaitInv, NEW c \in Workloads, SyncWorkload(c) \/ ScaleLwsFails(c)
  PROVE  AwaitInv'
<1>1. /\ UNCHANGED <<log, queued, up>> /\ pc = SyncCall(c)
      /\ SyncNext(c, Synced(c, obj))
  BY DEF SyncWorkload, ScaleLwsFails, cluster
<1>2. /\ TypeOK /\ obj \in Application /\ Latest' = Latest /\ Awaited' = Awaited
      /\ obj.up \subseteq Workloads /\ size \in [Workloads -> Nat \cup {Missing}]
  BY <1>1 DEF DisInv, TypeOK, Latest, Awaited, Application
<1>3. /\ pc \in Syncing /\ obj' = Synced(c, obj) /\ stale' = stale
      /\ ~failed /\ ~failed'
      /\ pc' \in {"syncDecode", "syncRouter", "status"}
      /\ SyncedBefore(pc') = SyncedBefore(pc) \cup {c} /\ c \notin SyncedBefore(pc)
      /\ SyncedBefore(pc) \subseteq Workloads
  <2>1. ~failed
    BY <1>1 DEF AwaitInv, SyncCall, Workloads
  <2> QED
    BY <1>1, <2>1 DEF SyncNext, SyncCall, SyncedBefore, Goto, Return, Syncing, Workloads
<1>4. obj'.deleting = obj.deleting /\ ~obj.deleting
  BY <1>2, <1>3 DEF DisInv, SafeInv, CopyInv, Creates, Creating, Synced, Application
<1>5. ASSUME ~Awaited, obj'.phase = "Running", NEW d \in SyncedBefore(pc')
      PROVE  Reports(obj, d)'
  <2>1. size[c] # Missing /\ obj' = [obj EXCEPT !.up = IF c \in up THEN @ \cup {c} ELSE @ \ {c}]
    BY <1>2, <1>3, <1>5 DEF Synced, Application
  <2>2. /\ obj'.want = obj.want /\ obj.phase = "Running"
        /\ obj'.up = IF c \in up THEN obj.up \cup {c} ELSE obj.up \ {c}
    BY <1>2, <1>5, <2>1 DEF Application
  <2>3. obj.want[c] \in Nat \cup {Unset}
    BY <1>2, DisaggregatedAssumption DEF Application
  <2>4. Replicas(c, obj.want[c]) \in Nat
    BY <2>3 DEF Replicas, Unset
  <2>5. CASE d = c
    <3>1. \/ size'[c] = Replicas(c, obj.want[c])
          \/ size'[c] = size[c] /\ c \in ignored'
      BY <1>2, <2>1 DEF SyncWorkload, ScaleLwsFails, cluster
    <3>2. size'[c] # Missing
      BY <2>1, <2>4, <3>1 DEF Missing
    <3> QED
      BY <1>1, <2>2, <2>5, <3>1, <3>2 DEF Reports
  <2>6. CASE d # c
    <3>1. Reports(obj, d)
      BY <1>2, <1>3, <1>5, <2>2, <2>6 DEF AwaitInv, Syncing
    <3>2. size'[d] = size[d] /\ (d \in ignored' <=> d \in ignored)
      BY <1>2, <1>3, <1>5, <2>6 DEF SyncWorkload, ScaleLwsFails, cluster
    <3> QED
      BY <1>1, <2>2, <2>6, <3>1, <3>2 DEF Reports
  <2> QED
    BY <2>5, <2>6
<1> QED
  BY <1>1, <1>2, <1>3, <1>4, <1>5 DEF AwaitInv

\* The status update leaves nothing to do, or has the application awaited, and so
\* does the removal of the finalizer.
LEMMA UpdateAwait ==
  ASSUME DisInv, AwaitInv, UpdateStatus \/ RemoveFinalizer
  PROVE  AwaitInv'
<1>1. /\ TypeOK /\ obj \in Application /\ Latest \in Application
      /\ pc \in {"status", "removeFinalizer"} /\ pc' = "idle" /\ ~stale' /\ ~failed'
      /\ UNCHANGED <<size, up, ignored>>
  BY VersionsOfLog DEF DisInv, TypeOK, UpdateStatus, RemoveFinalizer, Finish, cluster, history
<1>2. CASE stale
  <2>1. queued' = TRUE /\ log' = log /\ Latest' = Latest
    BY <1>2 DEF UpdateStatus, RemoveFinalizer, Finish, Latest
  <2> QED
    BY <1>1, <2>1, AwaitedStep DEF AwaitInv, Awaited
<1>3. CASE ~stale /\ UpdateStatus
  <2>1. /\ Store(obj) /\ queued' = (queued \/ failed) /\ pc = "status" /\ ~obj.deleting
        /\ ~obj.gone
    BY <1>3 DEF UpdateStatus, Finish, AwaitInv, DisInv, SafeInv, CopyInv
  <2>2. Latest' = obj
    BY <1>1, <2>1, StoreVersion
  <2>3. ASSUME ~Awaited'
        PROVE  ~Awaited /\ ~failed
    <3>1. obj = Latest
      BY <1>1, <2>1, <2>3, StoreAwaited
    <3>2. log' = log
      BY <2>1, <3>1 DEF Store
    <3> QED
      BY <2>1, <2>3, <3>2 DEF Awaited
  <2>4. ASSUME ~Awaited', obj.phase = "Running", NEW c \in Workloads
        PROVE  Reports(obj, c)
    BY <2>1, <2>3, <2>4 DEF AwaitInv, SyncedBefore
  <2>5. ASSUME ~Awaited', Latest'.phase = "Running", NEW c \in Workloads
        PROVE  Reports(Latest, c)'
    BY <1>1, <2>2, <2>4, <2>5 DEF Reports
  <2> QED
    BY <1>1, <2>1, <2>2, <2>5 DEF AwaitInv
<1>4. CASE ~stale /\ RemoveFinalizer
  <2> DEFINE a == [obj EXCEPT !.finalizer = FALSE, !.gone = TRUE]
  <2>1. /\ Store(a) /\ a \in Application /\ a.gone /\ a.deleting
    BY <1>1, <1>4 DEF RemoveFinalizer, Application, DisInv, SafeInv, CopyInv, Removing
  <2> HIDE DEF a
  <2>2. Latest' = a
    BY <1>1, <2>1, StoreVersion
  <2> QED
    BY <1>1, <2>1, <2>2 DEF AwaitInv
<1> QED
  BY <1>2, <1>3, <1>4

\* Unless it is awaited, the application has been or is being dealt with.
LEMMA AwaitInvariance == Spec => []AwaitInv
<1>1. Init => AwaitInv
  <2> SUFFICES ASSUME Init PROVE AwaitInv
    OBVIOUS
  <2>1. PICK w \in Wants : log = <<NewApplication(w)>>
    BY DEF Init
  <2>2. ~Latest.gone
    BY <2>1 DEF Latest, Last, NewApplication
  <2> QED
    BY <2>2 DEF Init, AwaitInv, Awaited
<1>2. DisInv /\ AwaitInv /\ [Next]_vars => AwaitInv'
  BY OutsideAwait, GetAwait, FinalizerAwait, CreateAwait, FailAwait, SyncAwait, UpdateAwait
  DEF Next, Reconcile, Failures
<1> QED
  BY <1>1, <1>2, Inductive, PTL DEF Spec

\* When nothing is left to do a Running application has all of its workloads, each
\* with the replicas that the spec asks for unless its scaling failed, and the
\* status says which are ready.
THEOREM NothingForgotten == Spec => []Settled
<1>1. DisInv /\ AwaitInv => Settled
  <2> SUFFICES ASSUME DisInv, AwaitInv, Quiet, Latest.phase = "Running", ~Latest.deleting
               PROVE  /\ Latest.up = up
                      /\ \A c \in Workloads :
                           /\ size[c] # Missing
                           /\ c \in ignored \/ size[c] = Replicas(c, Latest.want[c])
    BY DEF Settled
  <2>1. \A c \in Workloads : Reports(Latest, c)
    BY DEF Quiet, AwaitInv, Awaited
  <2>2. Latest.up \subseteq Workloads /\ up \subseteq Workloads
    BY VersionsOfLog DEF DisInv, TypeOK, Application
  <2> QED
    BY <2>1, <2>2 DEF Reports
<1> QED
  BY <1>1, Inductive, AwaitInvariance, PTL

\* The safety half of DeletionCompletes: an application that the user has deleted
\* is gone, or is queued, or a Reconcile runs, or an event is on its way that will
\* queue it.  No failed call, conflict or restart makes the controller forget it.
THEOREM DeletionPending == Spec => [](Quiet /\ Latest.deleting => Latest.gone)
<1>1. AwaitInv => (Quiet /\ Latest.deleting => Latest.gone)
  BY DEF AwaitInv, Quiet, Awaited
<1> QED
  BY <1>1, AwaitInvariance, PTL

-----------------------------------------------------------------------------
\* What a step shows of the application: its metadata and what it owns.
Shown == <<Latest.finalizer, Latest.deleting, Latest.gone, Owned>>

\* How the size of one workload shows.
LEMMA SizeStep ==
  ASSUME TypeOK, NEW c \in Workloads, NEW n, service' = service,
         size' = [size EXCEPT ![c] = n]
  PROVE  /\ n # Missing => Owned' = Owned \cup {c}
         /\ n = Missing => Owned' = Owned \ {c}
<1>1. c # "service" /\ "service" \notin Workloads
  BY DEF Workloads
<1>2. \A d \in Workloads : size'[d] = IF d = c THEN n ELSE size[d]
  BY DEF TypeOK
<1> QED
  BY <1>1, <1>2 DEF Owned

\* Calls that only read, the queue and the cache, and failures show nothing; nor
\* does a status that is written.
LEMMA HiddenStep ==
  ASSUME DisInv, \/ GetApplication \/ CheckModel \/ GetRouter \/ ApplyRouterRBAC
                 \/ UpdateStatus \/ Failures \/ Watch \/ Resync \/ Restart
                 \/ EditApplication \/ ModelProgress \/ WorkloadReady
                 \/ UNCHANGED vars
  PROVE  UNCHANGED Shown
<1>0. TypeOK /\ Latest \in Application /\ obj \in Application
  BY VersionsOfLog DEF DisInv, TypeOK
<1>1. Owned' = Owned
  <2>1. size' = size /\ service' = service
    BY DEF GetApplication, CheckModel, GetRouter, ApplyRouterRBAC, UpdateStatus,
           Failures, ReconcileFails, GetServiceFails, UpdateFails, ScaleLwsFails,
           Watch, Resync, Restart, EditApplication, ModelProgress, WorkloadReady,
           cluster, vars
  <2> QED
    BY <2>1 DEF Owned
<1>2. CASE EditApplication
  <2>1. PICK w \in Wants : Store([Latest EXCEPT !.want = w])
    BY <1>2 DEF EditApplication
  <2> DEFINE a == [Latest EXCEPT !.want = w]
  <2>2. /\ Store(a) /\ a \in Application /\ a.finalizer = Latest.finalizer
        /\ a.deleting = Latest.deleting /\ a.gone = Latest.gone
    BY <1>0, <2>1 DEF Application
  <2> HIDE DEF a
  <2> QED
    BY <1>0, <1>1, <2>2, StoreVersion DEF Shown
<1>3. CASE UpdateStatus /\ ~stale
  <2>1. /\ Store(obj)
        /\ obj.finalizer = Latest.finalizer /\ obj.deleting = Latest.deleting
        /\ ~obj.gone /\ ~Latest.gone
    BY <1>3 DEF UpdateStatus, DisInv, SafeInv, CopyInv
  <2>2. Latest' = obj
    BY <1>0, <2>1, StoreVersion
  <2>3. obj.gone = Latest.gone
    BY <1>0, <2>1 DEF Application
  <2> QED
    BY <1>1, <2>1, <2>2, <2>3 DEF Shown
<1>4. CASE Watch \/ Restart
  BY <1>0, <1>1, <1>4, WatchVersion, RestartVersion DEF Watch, Restart, Shown
<1>5. CASE \/ GetApplication \/ CheckModel \/ GetRouter \/ ApplyRouterRBAC
           \/ (UpdateStatus /\ stale) \/ Failures \/ Resync
           \/ ModelProgress \/ WorkloadReady \/ UNCHANGED vars
  <2>1. log' = log
    BY <1>5 DEF GetApplication, CheckModel, GetRouter, ApplyRouterRBAC, UpdateStatus,
                Failures, ReconcileFails, GetServiceFails, UpdateFails, ScaleLwsFails,
                Resync, ModelProgress, WorkloadReady, vars
  <2> QED
    BY <1>1, <2>1 DEF Shown, Latest
<1> QED
  BY <1>2, <1>3, <1>4, <1>5

\* A call that creates works on an application that still has its finalizer.
LEMMA MakeStep ==
  ASSUME DisInv, NEW c \in Workloads,
         EnsureLws(c) \/ SyncWorkload(c) \/ CreateRouter \/ EnsureService
  PROVE  Object!Next \/ UNCHANGED Shown
<1>0. TypeOK /\ "router" \in Workloads
  BY DEF DisInv, Workloads
<1>1. Latest' = Latest
  BY DEF EnsureLws, SyncWorkload, CreateRouter, EnsureService, Latest
<1>2. Latest.finalizer
  BY DEF EnsureLws, SyncWorkload, SyncCall, CreateRouter, EnsureService, Workloads,
         DisInv, SafeInv, OwnedInv, Creating, Syncing
<1>3. ASSUME NEW d \in Workloads, Owned' = Owned \cup {d} \/ Owned' = Owned \ {d}
      PROVE  Object!Next
  BY <1>1, <1>2, <1>3 DEF Object!Next, Object!Make, Object!Lose
<1>4. ASSUME NEW d \in Workloads, NEW n, service' = service,
             size' = [size EXCEPT ![d] = n]
      PROVE  Object!Next
  BY <1>0, <1>3, <1>4, SizeStep
<1>5. CASE EnsureLws(c)
  <2>1. \/ size' = [size EXCEPT ![c] = IF @ = Missing THEN GeneratedLws(c) ELSE @]
        \/ size' = size
    BY <1>5 DEF EnsureLws
  <2>2. service' = service
    BY <1>5 DEF EnsureLws
  <2>3. CASE size' = size
    BY <1>1, <2>2, <2>3 DEF Shown, Owned
  <2> QED
    BY <1>4, <2>1, <2>2, <2>3
<1>6. CASE SyncWorkload(c)
  BY <1>4, <1>6 DEF SyncWorkload
<1>7. CASE CreateRouter
  BY <1>0, <1>4, <1>7 DEF CreateRouter
<1>8. CASE EnsureService
  <2>1. Owned' = Owned \cup {"service"}
    BY <1>8 DEF EnsureService, Owned
  <2> QED
    BY <1>1, <1>2, <2>1 DEF Object!Next, Object!Make
<1> QED
  BY <1>5, <1>6, <1>7, <1>8

\* What is deleted, by remove or by someone else, is lost.
LEMMA LoseStep ==
  ASSUME DisInv, NEW c \in Workloads,
         DeleteService \/ DeleteWorkload(c) \/ WorkloadChanges \/ OthersDeleted
  PROVE  Object!Next \/ UNCHANGED Shown
<1>0. TypeOK
  BY DEF DisInv
<1>1. Latest' = Latest
  BY DEF DeleteService, DeleteWorkload, WorkloadChanges, OthersDeleted, Latest
<1>2. CASE DeleteService \/ OthersDeleted
  <2>1. size' = size /\ (service' = service \/ ~service')
    BY <1>2 DEF DeleteService, OthersDeleted
  <2>2. Owned' = Owned \/ Owned' = Owned \ {"service"}
    BY <2>1 DEF Owned, Workloads
  <2> QED
    BY <1>1, <2>2 DEF Shown, Object!Next, Object!Lose
<1>3. CASE DeleteWorkload(c) \/ WorkloadChanges
  <2>1. service' = service
    BY <1>3 DEF DeleteWorkload, WorkloadChanges
  <2>2. CASE size' = size
    BY <1>1, <2>1, <2>2 DEF Shown, Owned
  <2>3. ASSUME NEW d \in Workloads, size' = [size EXCEPT ![d] = Missing]
        PROVE  Object!Next
    <3>1. Owned' = Owned \ {d}
      BY <1>0, <2>1, <2>3, SizeStep
    <3> QED
      BY <1>1, <3>1 DEF Object!Next, Object!Lose
  <2> QED
    BY <1>3, <2>2, <2>3 DEF DeleteWorkload, WorkloadChanges
<1> QED
  BY <1>2, <1>3

\* The finalizer is added to an application that nobody has deleted, and taken from
\* one that has been deleted and owns nothing.
LEMMA ReleaseStep ==
  ASSUME DisInv, AwaitInv, AddFinalizer \/ RemoveFinalizer \/ DeleteApplication
  PROVE  Object!Next \/ UNCHANGED Shown
<1>0. TypeOK /\ Latest \in Application /\ obj \in Application
  BY VersionsOfLog DEF DisInv, TypeOK
<1>1. Owned' = Owned
  <2>1. size' = size /\ service' = service
    BY DEF AddFinalizer, RemoveFinalizer, DeleteApplication, cluster
  <2> QED
    BY <2>1 DEF Owned
<1>2. CASE (AddFinalizer \/ RemoveFinalizer) /\ stale
  <2>1. Latest' = Latest
    BY <1>2 DEF AddFinalizer, RemoveFinalizer, Latest
  <2> QED
    BY <1>1, <2>1 DEF Shown
<1>3. CASE AddFinalizer /\ ~stale
  <2> DEFINE a == [obj EXCEPT !.finalizer = TRUE, !.phase = Latest.phase]
  <2>1. /\ Store(a) /\ a \in Application /\ a.finalizer = TRUE
        /\ a.deleting = Latest.deleting /\ a.gone = obj.gone
        /\ ~obj.gone /\ ~Latest.gone /\ ~Latest.deleting
    BY <1>0, <1>3 DEF AddFinalizer, Application, DisInv, SafeInv, CopyInv, AwaitInv
  <2> HIDE DEF a
  <2>2. Latest' = a
    BY <1>0, <2>1, StoreVersion
  <2>3. obj.gone = Latest.gone
    BY <1>0, <2>1 DEF Application
  <2> QED
    BY <1>1, <2>1, <2>2, <2>3 DEF Object!Next, Object!Adopt
<1>4. CASE RemoveFinalizer /\ ~stale
  <2> DEFINE a == [obj EXCEPT !.finalizer = FALSE, !.gone = TRUE]
  <2>1. /\ Store(a) /\ a \in Application /\ a.finalizer = FALSE /\ a.gone = TRUE
        /\ a.deleting = Latest.deleting /\ Latest.deleting
    BY <1>0, <1>4 DEF RemoveFinalizer, Application, DisInv, SafeInv, CopyInv, Removing
  <2> HIDE DEF a
  <2>2. Latest' = a
    BY <1>0, <2>1, StoreVersion
  <2>3. Owned = {}
    BY <1>4 DEF RemoveFinalizer, DisInv, SafeInv, RemoveInv, Removing, Workloads, Owned
  <2> QED
    BY <1>1, <2>1, <2>2, <2>3 DEF Object!Next, Object!Release
<1>5. CASE DeleteApplication
  <2> DEFINE a == [Latest EXCEPT !.deleting = TRUE, !.gone = ~Latest.finalizer]
  <2>1. /\ Store(a) /\ a \in Application /\ a.finalizer = Latest.finalizer
        /\ a.deleting = TRUE /\ a.gone = ~Latest.finalizer /\ ~Latest.deleting
    BY <1>0, <1>5 DEF DeleteApplication, Application
  <2> HIDE DEF a
  <2>2. Latest' = a
    BY <1>0, <2>1, StoreVersion
  <2> QED
    BY <1>1, <2>1, <2>2 DEF Object!Next, Object!Delete
<1> QED
  BY <1>2, <1>3, <1>4, <1>5

\* The controller implements Lifecycle: whatever version of the application its
\* Reconciles work from, workloads and service are created only while the application
\* has the finalizer, it is released only without them, and nothing follows that.
THEOREM Refinement == Spec => ImplementsLifecycle
<1>1. Init => Object!Init
  <2> SUFFICES ASSUME Init
               PROVE  Object!Init
    OBVIOUS
  <2>1. PICK w \in Wants : log = <<NewApplication(w)>>
    BY DEF Init
  <2>2. Latest = NewApplication(w)
    BY <2>1 DEF Latest, Last
  <2>3. Owned = {}
    BY DEF Init, Owned
  <2>4. /\ NewApplication(w).finalizer = FALSE /\ NewApplication(w).deleting = FALSE
        /\ NewApplication(w).gone = FALSE
    BY DEF NewApplication
  <2> QED
    BY <2>2, <2>3, <2>4 DEF Object!Init
<1>2. DisInv /\ AwaitInv /\ [Next]_vars => [Object!Next]_(Object!vars)
  <2> SUFFICES ASSUME DisInv, AwaitInv, [Next]_vars
               PROVE  Object!Next \/ UNCHANGED Shown
    BY DEF Object!vars, Shown
  <2>1. "router" \in Workloads
    BY DEF Workloads
  <2> QED
    BY <2>1, HiddenStep, MakeStep, LoseStep, ReleaseStep
    DEF Next, Reconcile, Environment
<1> QED
  BY <1>1, <1>2, Inductive, AwaitInvariance, PTL
  DEF Spec, ImplementsLifecycle, Object!Spec
=============================================================================

------------------------- MODULE ApplicationProofs --------------------------
(***************************************************************************)
(* Proofs about the ArksApplication controller, for every number of failed *)
(* calls, restarts, changes and versions that the cache is behind: the     *)
(* types, that nothing outlives the application, that no workload is       *)
(* created before its model was Ready, that Failed has a reason and is     *)
(* final, that a controller at rest has left nothing undone, and that it   *)
(* implements Lifecycle.                                                   *)
(***************************************************************************)
EXTENDS ApplicationController, TLAPS

\* The versions from the cached to the latest one, and with the copy that
\* Reconcile works on.
Versions == {log[i] : i \in 1 .. Len(log)}
Copies == Versions \cup {obj}

\* The latest and the cached version are among the versions, which are applications.
LEMMA VersionsOfLog ==
  ASSUME TypeOK
  PROVE  /\ Latest \in Versions /\ Cached \in Versions
         /\ Versions \subseteq Application
         /\ Len(log) = 1 => Versions = {Latest} /\ Cached = Latest
BY DEF TypeOK, Versions, Latest, Cached, Last

\* A version that is stored becomes the latest and is the only new one.
LEMMA StoreVersion ==
  ASSUME TypeOK, NEW a \in Application, Store(a)
  PROVE  /\ log' \in Seq(Application) /\ Len(log') \in 1 .. MaxLag + 1
         /\ Latest' = a
         /\ Versions' \subseteq Versions \cup {a}
<1> USE ApplicationAssumption
<1>1. CASE a = Latest
  BY <1>1 DEF TypeOK, Store, Versions, Latest
<1>2. CASE a # Latest
  <2>1. log' = Append(log, a) /\ Len(log) <= MaxLag
    BY <1>2 DEF Store
  <2>2. /\ log' \in Seq(Application) /\ Len(log') = Len(log) + 1
        /\ \A i \in 1 .. Len(log) + 1 : log'[i] = IF i = Len(log) + 1 THEN a ELSE log[i]
    BY <2>1 DEF TypeOK
  <2> QED
    BY <2>1, <2>2 DEF TypeOK, Versions, Latest, Last
<1> QED
  BY <1>1, <1>2

\* A watch event drops the oldest version and keeps the latest.
LEMMA WatchVersion ==
  ASSUME TypeOK, Len(log) > 1, log' = Tail(log)
  PROVE  /\ log' \in Seq(Application) /\ Len(log') \in 1 .. MaxLag + 1
         /\ Latest' = Latest
         /\ Versions' \subseteq Versions
<1>1. /\ log' \in Seq(Application) /\ Len(log') = Len(log) - 1
      /\ \A i \in 1 .. Len(log) - 1 : log'[i] = log[i + 1]
  BY DEF TypeOK
<1> QED
  BY <1>1, ApplicationAssumption DEF TypeOK, Versions, Latest, Last

\* A restart keeps the latest version only.
LEMMA RestartVersion ==
  ASSUME TypeOK, log' = <<Latest>>
  PROVE  /\ log' \in Seq(Application) /\ Len(log') \in 1 .. MaxLag + 1
         /\ Latest' = Latest
         /\ Versions' \subseteq Versions
<1>1. Latest \in Application
  BY VersionsOfLog
<1>2. log' \in Seq(Application) /\ Len(log') = 1 /\ log'[1] = Latest
  BY <1>1
<1>3. Latest' = Latest
  BY <1>2 DEF Latest, Last
<1>4. Versions' = {Latest}
  BY <1>2 DEF Versions
<1> QED
  BY <1>2, <1>3, <1>4, VersionsOfLog, ApplicationAssumption

-----------------------------------------------------------------------------
Creating == {"model", "lws", "service", "sync"}
Removing == {"deleteService", "deleteLws", "removeFinalizer"}

\* A version with which Reconcile starts to create.
Creates(v) == v.finalizer /\ ~v.deleting /\ ~v.gone

\* What the copy of a running Reconcile has to do with the latest version, and
\* how far remove has come.
CopyInv ==
  /\ pc # "idle" => ~obj.gone
  /\ pc # "idle" /\ ~stale => /\ ~Latest.gone
                              /\ obj.deleting = Latest.deleting
                              /\ obj.finalizer = Latest.finalizer
  /\ pc \in Creating => Creates(obj)
  /\ pc \in Removing => obj.deleting /\ (~stale => Len(log) = 1)
  /\ pc = "deleteLws" => ~service
  /\ pc = "removeFinalizer" => ~service /\ lws = "none"

\* What exists is looked after: without the finalizer there is nothing, no
\* Reconcile that creates, and no version that would start one.
OwnedInv ==
  /\ Latest.gone => ~Latest.finalizer
  /\ ~Latest.finalizer => /\ lws = "none" /\ ~service
                          /\ pc \notin Creating
                          /\ \A v \in Versions : ~Creates(v)

Reason == ~valid \/ past \cap {"noModel", "unsupported"} # {}

\* What the conditions and the phase of every copy say about the past.
PastInv ==
  /\ \A v \in Copies : /\ v.precheck => valid
                       /\ v.loaded => "Ready" \in past
                       /\ ~v.supported => "unsupported" \in past
                       /\ v.phase = "Failed" => Reason
  /\ model \in {"absent", "Failed"} => "noModel" \in past
  /\ model = "Ready" => "Ready" \in past
  /\ pc \in {"lws", "service", "sync"} => obj.precheck /\ obj.loaded
  /\ WorkloadHasModel

\* A Reconcile that may write the status of a failed application keeps it failed.
FinalInv ==
  pc # "idle" /\ ~stale /\ Latest.phase = "Failed" =>
    obj.phase = "Failed" /\ pc \in {"status"} \cup Removing

AppInv == TypeOK /\ CopyInv /\ OwnedInv /\ PastInv /\ FinalInv

-----------------------------------------------------------------------------
\* The copies that reconcile makes of an application are applications.
LEMMA CopyTypes ==
  ASSUME NEW a \in Application, NEW p \in Phases, NEW b \in BOOLEAN
  PROVE  /\ [a EXCEPT !.phase = p] \in Application
         /\ [a EXCEPT !.phase = p, !.precheck = b] \in Application
         /\ [a EXCEPT !.phase = p, !.loaded = b] \in Application
         /\ [a EXCEPT !.phase = p, !.ready = b] \in Application
         /\ [a EXCEPT !.replicas = b] \in Application
         /\ [a EXCEPT !.finalizer = b] \in Application
BY DEF Application

\* Every step keeps the types.
LEMMA TypeStep ==
  ASSUME TypeOK, [Next]_vars
  PROVE  TypeOK'
<1> USE ApplicationAssumption
<1> DEFINE Calls == {"idle", "addFinalizer", "status"} \cup Creating \cup Removing
<1> USE DEF Creating, Removing
<1> DEFINE Logs == log' \in Seq(Application) /\ Len(log') \in 1 .. MaxLag + 1
<1>0. NewApplication \in Application /\ Cached \in Application /\ Latest \in Application
  BY VersionsOfLog DEF NewApplication, Application, Phases
<1>1. CASE GetApplication
  <2>1. [Cached EXCEPT !.phase = "Pending"] \in Application
    BY <1>0 DEF Application, Phases
  <2>2. obj' \in Application
    BY <1>0, <1>1, <2>1 DEF GetApplication, TypeOK, running
  <2>3. FirstCall(Cached) \in Calls
    BY DEF FirstCall
  <2>4. pc' \in Calls
    BY <1>1, <2>3 DEF GetApplication, TypeOK, running
  <2>5. stale' \in BOOLEAN /\ again' \in BOOLEAN
    <3>1. CASE Cached.gone
      BY <1>1, <3>1 DEF GetApplication, TypeOK, running
    <3>2. CASE ~Cached.gone
      <4>1. stale' = (Len(log) > 1) /\ again' = FALSE
        BY <1>1, <3>2 DEF GetApplication
      <4>2. Len(log) \in Nat
        BY DEF TypeOK
      <4>3. (Len(log) > 1) \in BOOLEAN
        BY <4>2
      <4> QED
        BY <4>1, <4>3, Zenon
    <3> QED
      BY <3>1, <3>2
  <2> QED
    BY <1>1, <2>2, <2>4, <2>5 DEF GetApplication, TypeOK, workload, models, bounds
<1>2. CASE AddFinalizer
  <2>1. [obj EXCEPT !.finalizer = TRUE, !.phase = Latest.phase] \in Application
    BY <1>0 DEF TypeOK, Application
  <2>2. Logs
    BY <1>2, <2>1, StoreVersion DEF AddFinalizer, TypeOK
  <2> QED
    BY <1>2, <2>2, ZenonT(60)
    DEF AddFinalizer, Return, TypeOK, workload, models, bounds, Application
<1>3. CASE CheckModel
  <2>1. obj' \in Application
    <3> DEFINE a == IF obj.precheck THEN obj
                    ELSE [obj EXCEPT !.phase = "Checking",
                                     !.precheck = valid /\ obj.supported]
    <3>0. (valid /\ obj.supported) \in BOOLEAN
      OBVIOUS
    <3>1. a \in Application
      BY <3>0, CopyTypes DEF TypeOK, Phases
    <3>2. \/ obj' = [a EXCEPT !.phase = "Failed"]
          \/ obj' = [a EXCEPT !.phase = "Failed", !.loaded = FALSE]
          \/ obj' = [a EXCEPT !.phase = "Loading", !.loaded = TRUE]
          \/ obj' = [a EXCEPT !.phase = "Loading"]
          \/ obj' = a
      BY <1>3 DEF CheckModel, WaitForModel, Goto, Return
    <3> HIDE DEF a
    <3> QED
      BY <3>1, <3>2, CopyTypes DEF Phases
  <2>2. pc' \in Calls /\ stale' \in BOOLEAN /\ again' \in BOOLEAN
    BY <1>3 DEF CheckModel, WaitForModel, Goto, Return, TypeOK
  <2> QED
    BY <1>3, <2>1, <2>2 DEF CheckModel, TypeOK, workload, models, bounds
<1>4. CASE EnsureLws \/ EnsureService \/ SyncStatus
  <2>1. obj' \in Application
    <3>1. \/ obj' = [obj EXCEPT !.phase = "Creating"]
          \/ obj' = [obj EXCEPT !.phase = "Failed", !.precheck = FALSE]
          \/ obj' = [obj EXCEPT !.phase = "Running", !.ready = TRUE]
          \/ obj' = [obj EXCEPT !.phase = "Running", !.ready = FALSE]
          \/ obj' = [obj EXCEPT !.replicas = (lws = "ready")]
      BY <1>4 DEF EnsureLws, EnsureService, SyncStatus, Goto, Return
    <3> QED
      BY <3>1, CopyTypes DEF TypeOK, Phases
  <2>2. /\ pc' \in Calls /\ stale' \in BOOLEAN /\ again' \in BOOLEAN
        /\ lws' \in {"none", "starting", "ready"} /\ service' \in BOOLEAN
    BY <1>4 DEF EnsureLws, EnsureService, SyncStatus, Goto, Return, TypeOK, workload
  <2> QED
    BY <1>4, <2>1, <2>2
    DEF EnsureLws, EnsureService, SyncStatus, TypeOK, models, bounds
<1>5. CASE ReconcileFails
  <2>1. obj' \in Application
    BY <1>5, ZenonT(60) DEF ReconcileFails, Return, TypeOK, Application, Phases
  <2>2. pc' \in Calls /\ stale' \in BOOLEAN /\ again' \in BOOLEAN
    BY <1>5 DEF ReconcileFails, Return, TypeOK
  <2>3. faults' \in 0 .. MaxFaults
    BY <1>5 DEF ReconcileFails, Fault, TypeOK
  <2> QED
    BY <1>5, <2>1, <2>2, <2>3 DEF ReconcileFails, TypeOK, workload, models
<1>6. CASE UpdateStatus
  <2>1. Logs
    BY <1>6, StoreVersion DEF UpdateStatus, TypeOK
  <2> QED
    BY <1>0, <1>6, <2>1 DEF UpdateStatus, Finish, TypeOK, workload, models, bounds
<1>7. CASE DeleteService \/ DeleteLws
  BY <1>7 DEF DeleteService, DeleteLws, Goto, TypeOK, models, bounds
<1>8. CASE RemoveFinalizer
  <2>1. [obj EXCEPT !.finalizer = FALSE, !.gone = TRUE] \in Application
    BY DEF TypeOK, Application
  <2>2. Logs
    BY <1>8, <2>1, StoreVersion DEF RemoveFinalizer, TypeOK
  <2> QED
    BY <1>0, <1>8, <2>2 DEF RemoveFinalizer, Finish, TypeOK, workload, models, bounds
<1>9. CASE UpdateFails
  <2>1. faults' \in 0 .. MaxFaults
    BY <1>9 DEF UpdateFails, Fault, TypeOK
  <2> QED
    BY <1>0, <1>9, <2>1 DEF UpdateFails, Finish, TypeOK, workload, models
<1>10. CASE Watch
  BY <1>10, WatchVersion DEF Watch, TypeOK, running, workload, models, bounds
<1>11. CASE Resync
  BY <1>11 DEF Resync, TypeOK, running, workload, models, bounds
<1>12. CASE Restart
  <2>1. faults' \in 0 .. MaxFaults
    BY <1>12 DEF Restart, Fault, TypeOK
  <2>2. Logs
    BY <1>12, RestartVersion DEF Restart
  <2> QED
    BY <1>0, <1>12, <2>1, <2>2 DEF Restart, TypeOK, workload, models
<1>13. CASE DeleteApplication
  <2>1. [Latest EXCEPT !.deleting = TRUE, !.gone = ~Latest.finalizer] \in Application
    BY <1>0 DEF Application
  <2>2. Logs
    BY <1>13, <2>1, StoreVersion DEF DeleteApplication
  <2> QED
    BY <1>13, <2>2 DEF DeleteApplication, TypeOK, workload, models, bounds
<1>14. CASE EditApplication
  <2>1. [Latest EXCEPT !.supported = ~@] \in Application
    BY <1>0 DEF Application
  <2>2. Logs
    BY <1>14, <2>1, StoreVersion DEF EditApplication
  <2> QED
    BY <1>14, <2>2 DEF EditApplication, Change, TypeOK, workload
<1>15. CASE ModelProgress \/ LwsReady
  <2>1. /\ model' \in {"absent", "Loading", "Ready", "Failed"}
        /\ past' \subseteq {"Ready", "noModel", "unsupported"}
    BY <1>15 DEF ModelProgress, LwsReady, TypeOK, models
  <2> QED
    BY ZenonT(60), <1>15, <2>1 DEF ModelProgress, LwsReady, TypeOK, running, workload, bounds
<1>17. CASE LwsChanges \/ OthersDeleted
  <2>1. changes' \in 0 .. MaxChanges
    BY <1>17 DEF LwsChanges, OthersDeleted, Change, TypeOK
  <2>2. lws' \in {"none", "starting", "ready"} /\ service' \in BOOLEAN
    BY <1>17 DEF LwsChanges, OthersDeleted, TypeOK
  <2>3. /\ model' \in {"absent", "Loading", "Ready", "Failed"}
        /\ past' \subseteq {"Ready", "noModel", "unsupported"}
    BY <1>17 DEF LwsChanges, OthersDeleted, TypeOK, models
  <2> QED
    BY <1>17, <2>1, <2>2, <2>3 DEF LwsChanges, OthersDeleted, TypeOK, running
<1>16. CASE UNCHANGED vars
  BY <1>16 DEF vars, TypeOK, running, workload, models, bounds
<1> QED
  BY <1>1, <1>2, <1>3, <1>4, <1>5, <1>6, <1>7, <1>8, <1>9, <1>10, <1>11, <1>12, <1>13,
     <1>14, <1>15, <1>16, <1>17 DEF Next, Reconcile, Environment

-----------------------------------------------------------------------------
\* Reconcile starts with a version of the cache.
LEMMA GetStep ==
  ASSUME AppInv, GetApplication
  PROVE  CopyInv' /\ OwnedInv' /\ PastInv' /\ FinalInv'
<1>1. /\ log' = log /\ Latest' = Latest /\ Versions' = Versions
      /\ UNCHANGED <<valid, lws, service, model, past>>
  BY DEF GetApplication, Latest, Versions, workload, models
<1>2. /\ TypeOK /\ Latest \in Application /\ Cached \in Versions
      /\ Cached \in Application /\ (Len(log) = 1 => Cached = Latest)
  BY VersionsOfLog DEF AppInv
<1>3. CASE Cached.gone
  <2>1. UNCHANGED <<pc, obj, stale>>
    BY <1>3 DEF GetApplication, running
  <2> QED
    BY <1>1, <2>1 DEF AppInv, CopyInv, OwnedInv, PastInv, FinalInv, Copies, Reason,
       WorkloadHasModel
<1>4. CASE ~Cached.gone
  <2>1. /\ pc' = FirstCall(Cached) /\ stale' = (Len(log) > 1)
        /\ obj' = IF Cached.phase = "" /\ ~Cached.deleting
                    THEN [Cached EXCEPT !.phase = "Pending"] ELSE Cached
    BY <1>4 DEF GetApplication
  <2>2. /\ obj'.gone = Cached.gone /\ obj'.deleting = Cached.deleting
        /\ obj'.finalizer = Cached.finalizer /\ obj'.supported = Cached.supported
        /\ obj'.precheck = Cached.precheck /\ obj'.loaded = Cached.loaded
        /\ obj'.phase = "Failed" <=> Cached.phase = "Failed"
    BY <1>2, <2>1 DEF Application
  <2>3. ASSUME ~stale' PROVE Len(log) = 1 /\ Cached = Latest
    <3>1. ~(Len(log) > 1)
      BY <2>1, <2>3, Zenon
    <3> QED
      BY <1>2, <3>1, ApplicationAssumption DEF TypeOK
  <2>4. CopyInv'
    BY <1>1, <1>2, <1>4, <2>1, <2>2, <2>3
    DEF CopyInv, FirstCall, Creating, Removing, Creates
  <2>5. OwnedInv'
    BY <1>1, <1>2, <1>4, <2>1
    DEF AppInv, OwnedInv, FirstCall, Creating, Creates
  <2>6. PastInv'
    BY <1>1, <1>2, <2>1, <2>2
    DEF AppInv, PastInv, Copies, Reason, FirstCall, WorkloadHasModel
  <2>7. FinalInv'
    BY <1>1, <2>1, <2>2, <2>3 DEF FinalInv, FirstCall, Removing
  <2> QED
    BY <2>4, <2>5, <2>6, <2>7
<1> QED
  BY <1>3, <1>4

\* The finalizer is added, which leaves the phase alone.
LEMMA FinalizerStep ==
  ASSUME AppInv, AddFinalizer
  PROVE  CopyInv' /\ OwnedInv' /\ PastInv' /\ FinalInv'
<1>1. /\ UNCHANGED <<valid, lws, service, model, past, stale>>
      /\ pc = "addFinalizer" /\ pc' = "status"
      /\ obj' = [obj EXCEPT !.finalizer = ~stale]
  BY DEF AddFinalizer, Return, workload, models
<1>2. /\ TypeOK /\ Latest \in Application /\ Latest \in Versions /\ obj \in Application
      /\ Versions \subseteq Application
  BY VersionsOfLog DEF AppInv, TypeOK
<1>3. /\ obj'.gone = obj.gone /\ obj'.deleting = obj.deleting
      /\ obj'.finalizer = ~stale /\ obj'.supported = obj.supported
      /\ obj'.precheck = obj.precheck /\ obj'.loaded = obj.loaded
      /\ obj'.phase = obj.phase
  BY <1>1, <1>2 DEF Application
<1>4. CASE stale
  <2>1. Latest' = Latest /\ Versions' = Versions
    BY <1>4 DEF AddFinalizer, Latest, Versions
  <2> QED
    BY <1>1, <1>3, <1>4, <2>1 DEF AppInv, CopyInv, OwnedInv, PastInv, FinalInv, Copies,
       Reason, WorkloadHasModel, Creating, Removing
<1>5. CASE ~stale
  <2> DEFINE a == [obj EXCEPT !.finalizer = TRUE, !.phase = Latest.phase]
  <2>1. /\ a \in Application /\ a.finalizer /\ a.gone = obj.gone /\ a.deleting = obj.deleting
        /\ a.supported = obj.supported /\ a.precheck = obj.precheck
        /\ a.loaded = obj.loaded /\ a.phase = Latest.phase
    BY <1>2 DEF Application
  <2>2. Latest' = a /\ Versions' \subseteq Versions \cup {a}
    BY <1>2, <1>5, <2>1, StoreVersion DEF AddFinalizer
  <2> HIDE DEF a
  <2>3. CopyInv'
    BY <1>1, <1>3, <1>5, <2>1, <2>2 DEF AppInv, CopyInv, Creating, Removing
  <2>4. OwnedInv'
    BY <1>1, <1>5, <2>1, <2>2 DEF AppInv, CopyInv, OwnedInv
  <2>5. PastInv'
    <3>1. Latest \in Copies /\ obj \in Copies /\ Copies' \subseteq Copies \cup {a, obj'}
      BY <1>2, <2>2 DEF Copies
    <3> QED
      BY ZenonT(60), <1>1, <1>3, <2>1, <3>1 DEF AppInv, PastInv, Reason, WorkloadHasModel
  <2>6. FinalInv'
    BY <1>1, <1>3, <1>5, <2>1, <2>2 DEF AppInv, FinalInv, Removing
  <2> QED
    BY <2>3, <2>4, <2>5, <2>6
<1> QED
  BY <1>4, <1>5

\* The checks and the model decide what the copy says.
LEMMA CheckStep ==
  ASSUME AppInv, CheckModel
  PROVE  CopyInv' /\ OwnedInv' /\ PastInv' /\ FinalInv'
<1> DEFINE a == IF obj.precheck THEN obj
                ELSE [obj EXCEPT !.phase = "Checking",
                                 !.precheck = valid /\ obj.supported]
<1>1. /\ UNCHANGED <<valid, log, lws, service, model, past, stale>>
      /\ Latest' = Latest /\ Versions' = Versions
      /\ pc = "model" /\ pc' \in {"sync", "lws", "status"}
  BY DEF CheckModel, WaitForModel, Goto, Return, workload, models, Latest, Versions
<1>2. /\ TypeOK /\ obj \in Application /\ valid \in BOOLEAN
      /\ model \in {"absent", "Loading", "Ready", "Failed"}
  BY DEF AppInv, TypeOK
<1>3. /\ a.gone = obj.gone /\ a.deleting = obj.deleting /\ a.finalizer = obj.finalizer
      /\ a.supported = obj.supported /\ a.loaded = obj.loaded
      /\ a.precheck <=> obj.precheck \/ (valid /\ obj.supported)
      /\ a.phase = "Failed" => obj.phase = "Failed"
      /\ a \in Application
  BY <1>2, ZenonT(60) DEF Application, Phases
<1>4. \/ /\ ~a.precheck /\ obj' = [a EXCEPT !.phase = "Failed"] /\ pc' = "status"
      \/ /\ a.precheck /\ model = "absent" /\ pc' = "status"
         /\ obj' = [a EXCEPT !.phase = "Failed", !.loaded = FALSE]
      \/ /\ a.precheck /\ ~a.loaded /\ model = "Failed" /\ pc' = "status"
         /\ obj' = [a EXCEPT !.phase = "Failed"]
      \/ /\ a.precheck /\ model = "Ready"
         /\ obj' = [a EXCEPT !.phase = "Loading", !.loaded = TRUE]
      \/ a.precheck /\ a.loaded /\ obj' = a
      \/ /\ a.precheck /\ obj' = [a EXCEPT !.phase = "Loading"] /\ pc' = "status"
  BY <1>2 DEF CheckModel, WaitForModel, Goto, Return
<1> HIDE DEF a
<1>5. /\ obj'.gone = a.gone /\ obj'.deleting = a.deleting /\ obj'.finalizer = a.finalizer
      /\ obj'.supported = a.supported
      /\ obj'.precheck = a.precheck
      /\ obj'.loaded => a.loaded \/ model = "Ready"
      /\ obj'.phase = "Failed" => a.phase = "Failed" \/ ~a.precheck
                                  \/ model \in {"absent", "Failed"}
      /\ pc' \in {"sync", "lws"} => obj'.precheck /\ obj'.loaded
  BY <1>3, <1>4 DEF Application
<1>6. CopyInv'
  BY <1>1, <1>3, <1>5 DEF AppInv, CopyInv, Creating, Removing, Creates
<1>7. OwnedInv'
  BY <1>1 DEF AppInv, OwnedInv, Creating
<1>8. PastInv'
  BY <1>1, <1>3, <1>5 DEF AppInv, PastInv, Copies, Reason, WorkloadHasModel
<1>9. FinalInv'
  BY <1>1 DEF AppInv, FinalInv, Removing
<1> QED
  BY <1>6, <1>7, <1>8, <1>9

\* The LWS and the service are created or found.
LEMMA CreateStep ==
  ASSUME AppInv, EnsureLws \/ EnsureService \/ SyncStatus \/ ReconcileFails
  PROVE  CopyInv' /\ OwnedInv' /\ PastInv' /\ FinalInv'
<1>1. /\ UNCHANGED <<valid, log, model, past, stale>>
      /\ Latest' = Latest /\ Versions' = Versions
      /\ pc \in {"addFinalizer"} \cup Creating
      /\ pc' \in {"service", "sync", "status"}
      /\ pc' \in {"service", "sync"} => pc \in {"lws", "service"}
      /\ (lws' # "none" \/ service') /\ ~(lws # "none" \/ service) =>
           pc \in {"lws", "service", "sync"}
  BY DEF EnsureLws, EnsureService, SyncStatus, ReconcileFails, Goto, Return, workload, models,
     Latest, Versions, Creating
<1>2. /\ TypeOK /\ obj \in Application
  BY DEF AppInv, TypeOK
<1>3. /\ obj'.gone = obj.gone /\ obj'.deleting = obj.deleting
      /\ obj'.finalizer = obj.finalizer /\ obj'.supported = obj.supported
      /\ obj'.loaded = obj.loaded
      /\ obj'.precheck => obj.precheck \/ valid
      /\ obj'.phase = "Failed" => obj.phase = "Failed" \/ ~obj.supported
      /\ pc' \in {"service", "sync"} => obj'.precheck = obj.precheck
  BY <1>2 DEF EnsureLws, EnsureService, SyncStatus, ReconcileFails, GenerateLws, Goto, Return,
     Application
<1>4. lws' # lws \/ service' # service => pc \in {"lws", "service", "sync"}
  BY DEF EnsureLws, EnsureService, SyncStatus, ReconcileFails, workload
<1>5. CopyInv'
  BY <1>1, <1>3 DEF AppInv, CopyInv, Creating, Removing, Creates
<1>6. OwnedInv'
  BY <1>1, <1>4 DEF AppInv, OwnedInv, Creating
<1>7. PastInv'
  BY <1>1, <1>3 DEF AppInv, PastInv, Copies, Reason, WorkloadHasModel
<1>8. FinalInv'
  BY <1>1 DEF AppInv, FinalInv, Creating, Removing
<1> QED
  BY <1>5, <1>6, <1>7, <1>8

\* The status of the copy is written, or refused if the copy is old.
LEMMA StatusStep ==
  ASSUME AppInv, UpdateStatus
  PROVE  /\ CopyInv' /\ OwnedInv' /\ PastInv' /\ FinalInv'
         /\ Latest.phase = "Failed" => Latest'.phase = "Failed"
<1>1. /\ UNCHANGED <<valid, lws, service, model, past>>
      /\ pc = "status" /\ pc' = "idle" /\ obj' = NewApplication
  BY DEF UpdateStatus, Finish, workload, models
<1>2. /\ TypeOK /\ obj \in Application
  BY DEF AppInv, TypeOK
<1>3. /\ NewApplication.supported /\ ~NewApplication.precheck /\ ~NewApplication.loaded
      /\ NewApplication.phase # "Failed"
  BY DEF NewApplication
<1>4. \/ Latest' = Latest /\ Versions' = Versions
      \/ ~stale /\ Latest' = obj /\ Versions' \subseteq Versions \cup {obj}
  BY <1>2, StoreVersion DEF UpdateStatus, Latest, Versions
<1>5. CopyInv'
  BY <1>1 DEF CopyInv, Creating, Removing
<1>6. OwnedInv'
  BY <1>1, <1>4 DEF AppInv, CopyInv, OwnedInv, Creating, Creates
<1>7. PastInv'
  BY <1>1, <1>3, <1>4 DEF AppInv, PastInv, Copies, Reason, WorkloadHasModel
<1>8. FinalInv'
  BY <1>1 DEF FinalInv
<1>9. Latest.phase = "Failed" => Latest'.phase = "Failed"
  BY <1>1, <1>4 DEF AppInv, FinalInv
<1> QED
  BY <1>5, <1>6, <1>7, <1>8, <1>9

\* remove deletes the workload and lets the application go.
LEMMA RemoveStep ==
  ASSUME AppInv, DeleteService \/ DeleteLws \/ RemoveFinalizer \/ UpdateFails
  PROVE  /\ CopyInv' /\ OwnedInv' /\ PastInv' /\ FinalInv'
         /\ Latest.phase = "Failed" => Latest'.phase = "Failed"
<1>1. /\ TypeOK /\ obj \in Application
      /\ Len(log) = 1 => Versions = {Latest}
      /\ Latest \in Application /\ Latest \in Versions /\ Versions \subseteq Application
  BY VersionsOfLog DEF AppInv, TypeOK
<1>2. CASE DeleteService \/ DeleteLws
  <2>1. /\ UNCHANGED <<valid, log, obj, stale, model, past>>
        /\ Latest' = Latest /\ Versions' = Versions
        /\ service' => service
        /\ lws' # "none" => lws # "none"
        /\ \/ pc = "deleteService" /\ pc' = "deleteLws" /\ ~service'
           \/ pc = "deleteLws" /\ pc' = "removeFinalizer" /\ lws' = "none" /\ service' = service
    BY <1>2 DEF DeleteService, DeleteLws, Goto, models, Latest, Versions
  <2> QED
    BY <2>1 DEF AppInv, CopyInv, OwnedInv, PastInv, FinalInv, Copies, Reason,
       WorkloadHasModel, Creating, Removing
<1>3. CASE RemoveFinalizer \/ UpdateFails
  <2> DEFINE a == [obj EXCEPT !.finalizer = FALSE, !.gone = TRUE]
  <2>1. /\ UNCHANGED <<valid, lws, service, model, past>>
        /\ pc' = "idle" /\ obj' = NewApplication
    BY <1>3 DEF RemoveFinalizer, UpdateFails, Finish, workload, models
  <2>2. /\ a \in Application /\ ~a.finalizer /\ a.gone /\ a.supported = obj.supported
        /\ a.precheck = obj.precheck /\ a.loaded = obj.loaded /\ a.phase = obj.phase
    BY <1>1 DEF Application
  <2>3. \/ Latest' = Latest /\ Versions' = Versions
        \/ /\ ~stale /\ pc = "removeFinalizer"
           /\ Latest' = a /\ Versions' \subseteq Versions \cup {a}
    BY <1>1, <1>3, <2>2, StoreVersion DEF RemoveFinalizer, UpdateFails, Latest, Versions
  <2> HIDE DEF a
  <2>4. /\ NewApplication.supported /\ ~NewApplication.precheck /\ ~NewApplication.loaded
        /\ NewApplication.phase # "Failed"
    BY DEF NewApplication
  <2>5. CopyInv' /\ FinalInv'
    BY <2>1 DEF CopyInv, FinalInv, Creating, Removing
  <2>6. OwnedInv'
    BY <1>1, <2>1, <2>2, <2>3 DEF AppInv, CopyInv, OwnedInv, Creating, Removing, Creates
  <2>7. PastInv'
    BY <2>1, <2>2, <2>3, <2>4 DEF AppInv, PastInv, Copies, Reason, WorkloadHasModel
  <2>8. Latest.phase = "Failed" => Latest'.phase = "Failed"
    BY <2>2, <2>3 DEF AppInv, FinalInv
  <2> QED
    BY <2>5, <2>6, <2>7, <2>8
<1> QED
  BY <1>2, <1>3

\* Watch events, resyncs and restarts change no object.
LEMMA CacheStep ==
  ASSUME AppInv, Watch \/ Resync \/ Restart \/ UNCHANGED vars
  PROVE  /\ CopyInv' /\ OwnedInv' /\ PastInv' /\ FinalInv'
         /\ Latest' = Latest
<1>2. UNCHANGED <<valid, lws, service, model, past>> /\ Latest' = Latest
      /\ Versions' \subseteq Versions
  BY WatchVersion, RestartVersion
  DEF AppInv, Watch, Resync, Restart, vars, running, workload, models, Latest, Versions
<1>3. \/ UNCHANGED <<pc, obj, stale>> /\ (log' = log \/ Len(log) > 1)
      \/ pc' = "idle" /\ obj' = NewApplication
  BY DEF Watch, Resync, Restart, vars, running
<1>4. /\ NewApplication.supported /\ ~NewApplication.precheck /\ ~NewApplication.loaded
      /\ NewApplication.phase # "Failed"
  BY DEF NewApplication
<1>5. CopyInv'
  <2>1. CASE pc' = "idle"
    BY <2>1 DEF CopyInv, Creating, Removing
  <2>2. CASE UNCHANGED <<pc, obj, stale>> /\ log' = log
    BY <1>2, <2>2 DEF AppInv, CopyInv, Creates
  <2>3. CASE UNCHANGED <<pc, obj, stale>> /\ Len(log) > 1
    <3>1. pc \in Removing => stale
      <4>1. stale \in BOOLEAN /\ Len(log) \in Nat
        BY DEF AppInv, TypeOK
      <4>2. Len(log) # 1
        BY <2>3, <4>1
      <4> QED
        BY <4>1, <4>2 DEF AppInv, CopyInv
    <3> QED
      BY <1>2, <2>3, <3>1 DEF AppInv, CopyInv, Creates
  <2> QED
    BY <1>3, <2>1, <2>2, <2>3
<1>6. OwnedInv' /\ FinalInv'
  BY <1>2, <1>3 DEF AppInv, OwnedInv, FinalInv, Creating
<1>7. PastInv'
  BY <1>2, <1>3, <1>4 DEF AppInv, PastInv, Copies, Reason, WorkloadHasModel
<1> QED
  BY <1>2, <1>5, <1>6, <1>7

\* The user deletes or edits the application.
LEMMA UserStep ==
  ASSUME AppInv, DeleteApplication \/ EditApplication
  PROVE  /\ CopyInv' /\ OwnedInv' /\ PastInv' /\ FinalInv'
         /\ Latest.phase = "Failed" => Latest'.phase = "Failed"
<1>1. TypeOK /\ Latest \in Application /\ Latest \in Versions
  BY VersionsOfLog DEF AppInv
<1>2. PICK a \in Application :
        /\ Store(a) /\ a.phase = Latest.phase /\ a.finalizer = Latest.finalizer
        /\ a.gone => ~a.finalizer
        /\ Latest.deleting => a.deleting
        /\ a.precheck = Latest.precheck /\ a.loaded = Latest.loaded
        /\ ~a.supported => ~Latest.supported \/ "unsupported" \in past'
  <2>1. CASE DeleteApplication
    <3> DEFINE a == [Latest EXCEPT !.deleting = TRUE, !.gone = ~Latest.finalizer]
    <3>1. /\ a \in Application /\ a.phase = Latest.phase /\ a.finalizer = Latest.finalizer
          /\ a.gone => ~a.finalizer
          /\ a.deleting /\ a.supported = Latest.supported
          /\ a.precheck = Latest.precheck /\ a.loaded = Latest.loaded
      BY <1>1 DEF Application
    <3> QED
      BY <2>1, <3>1 DEF DeleteApplication
  <2>2. CASE EditApplication
    <3> DEFINE a == [Latest EXCEPT !.supported = ~@]
    <3>1. /\ a \in Application /\ a.phase = Latest.phase /\ a.finalizer = Latest.finalizer
          /\ a.gone = Latest.gone /\ a.deleting = Latest.deleting
          /\ a.precheck = Latest.precheck /\ a.loaded = Latest.loaded
      BY <1>1 DEF Application
    <3>2. Store(a) /\ ~Latest.gone /\ "unsupported" \in past'
      BY <2>2 DEF EditApplication
    <3> QED
      BY <3>1, <3>2
  <2> QED
    BY <2>1, <2>2
<1>3. Latest' = a /\ Versions' \subseteq Versions \cup {a}
  BY <1>1, <1>2, StoreVersion
<1>4. /\ UNCHANGED <<valid, lws, service, model, pc, obj>>
      /\ past \subseteq past' /\ past' \subseteq past \cup {"unsupported"}
      /\ pc # "idle" => stale'
  BY DEF DeleteApplication, EditApplication, workload, models
<1>5. CopyInv' /\ FinalInv'
  BY <1>4 DEF AppInv, CopyInv, FinalInv, Creates, Creating, Removing
<1>6. OwnedInv'
  BY <1>1, <1>2, <1>3, <1>4 DEF AppInv, OwnedInv, Creates
<1>7. PastInv'
  BY <1>1, <1>2, <1>3, <1>4 DEF AppInv, PastInv, Copies, Reason, WorkloadHasModel
<1> QED
  BY <1>2, <1>3, <1>5, <1>6, <1>7

\* The model, the workloads and others change what the controller looks at.
LEMMA ClusterStep ==
  ASSUME AppInv, ModelProgress \/ LwsReady \/ LwsChanges \/ OthersDeleted
  PROVE  /\ CopyInv' /\ OwnedInv' /\ PastInv' /\ FinalInv'
         /\ Latest' = Latest
<1>1. /\ UNCHANGED <<valid, log, pc, obj, stale>>
      /\ Latest' = Latest /\ Versions' = Versions
      /\ past \subseteq past'
      /\ service' => service
      /\ lws' # "none" => lws # "none"
      /\ \/ UNCHANGED <<model, past>>
         \/ /\ model' \in {"absent", "Failed"} => "noModel" \in past'
            /\ model' = "Ready" => "Ready" \in past'
  BY DEF ModelProgress, LwsReady, LwsChanges, OthersDeleted, running, workload, models,
     Latest, Versions
<1>2. CopyInv' /\ OwnedInv' /\ FinalInv'
  BY <1>1 DEF AppInv, CopyInv, OwnedInv, FinalInv
<1>3. PastInv'
  BY <1>1 DEF AppInv, PastInv, Copies, Reason, WorkloadHasModel
<1> QED
  BY <1>1, <1>2, <1>3

-----------------------------------------------------------------------------
\* The inductive invariant holds in every state.
LEMMA Inductive == Spec => []AppInv
<1>1. Init => AppInv
  <2> SUFFICES ASSUME Init PROVE AppInv
    OBVIOUS
  <2>1. NewApplication \in Application
    BY DEF NewApplication, Application, Phases
  <2>2. /\ log \in Seq(Application) /\ Len(log) = 1 /\ Latest = NewApplication
        /\ Versions = {NewApplication} /\ obj = NewApplication
    BY <2>1 DEF Init, Latest, Last, Versions
  <2>3. TypeOK
    <3>1. past \subseteq {"Ready", "noModel", "unsupported"}
      BY DEF Init
    <3>2. /\ Len(log) \in 1 .. MaxLag + 1
          /\ faults \in 0 .. MaxFaults /\ changes \in 0 .. MaxChanges
      BY <2>2, ApplicationAssumption DEF Init
    <3> QED
      BY <2>1, <2>2, <3>1, <3>2 DEF Init, TypeOK
  <2>4. /\ ~NewApplication.gone /\ ~NewApplication.finalizer /\ NewApplication.supported
        /\ ~NewApplication.precheck /\ ~NewApplication.loaded
        /\ NewApplication.phase # "Failed"
    BY DEF NewApplication
  <2>5. CopyInv /\ OwnedInv /\ FinalInv
    BY <2>2, <2>4 DEF Init, CopyInv, OwnedInv, FinalInv, Creating, Removing, Creates
  <2>6. PastInv
    BY <2>2, <2>4 DEF Init, PastInv, Copies, WorkloadHasModel
  <2> QED
    BY <2>3, <2>5, <2>6 DEF AppInv
<1>2. AppInv /\ [Next]_vars => AppInv'
  BY TypeStep, GetStep, FinalizerStep, CheckStep, CreateStep, StatusStep, RemoveStep,
     CacheStep, UserStep, ClusterStep
  DEF AppInv, Next, Reconcile, Environment
<1> QED
  BY <1>1, <1>2, PTL DEF Spec

\* The variables keep their types.
THEOREM TypeCorrect == Spec => []TypeOK
BY Inductive, PTL DEF AppInv

\* Nothing outlives the application, whatever call failed and however old the
\* versions that Reconcile has worked on.
THEOREM NothingOutlives == Spec => []NoOrphans
<1>1. AppInv => NoOrphans
  BY DEF AppInv, OwnedInv, NoOrphans
<1> QED
  BY Inductive, <1>1, PTL

\* No LWS and no service is created before the model was Ready and the volumes
\* of the spec were found to be allowed.
THEOREM ModelComesFirst == Spec => []WorkloadHasModel
<1>1. AppInv => WorkloadHasModel
  BY DEF AppInv, PastInv
<1> QED
  BY Inductive, <1>1, PTL

\* An application fails only for a reason of its spec or its model.
THEOREM FailureHasReason == Spec => []FailedHasReason
<1>1. AppInv => FailedHasReason
  BY VersionsOfLog DEF AppInv, PastInv, Copies, Reason, FailedHasReason
<1> QED
  BY Inductive, <1>1, PTL

\* Failed is final: no status update made from an older version sets it back.
THEOREM FailureIsFinal == Spec => FailedIsFinal
<1>1. AppInv /\ [Next]_vars => [Latest.phase = "Failed" => Latest'.phase = "Failed"]_vars
  <2> SUFFICES ASSUME AppInv, Next
               PROVE  Latest.phase = "Failed" => Latest'.phase = "Failed"
    OBVIOUS
  <2>1. CASE GetApplication \/ CheckModel \/ EnsureLws \/ EnsureService \/ SyncStatus
             \/ ReconcileFails
    BY <2>1 DEF GetApplication, CheckModel, EnsureLws, EnsureService, SyncStatus,
       ReconcileFails, Latest
  <2>2. CASE AddFinalizer
    <3>1. CASE stale
      BY <2>2, <3>1 DEF AddFinalizer, Latest
    <3>2. CASE ~stale
      <4> DEFINE a == [obj EXCEPT !.finalizer = TRUE, !.phase = Latest.phase]
      <4>1. a \in Application /\ a.phase = Latest.phase
        BY VersionsOfLog DEF AppInv, TypeOK, Application
      <4>2. Latest' = a
        BY <2>2, <3>2, <4>1, StoreVersion DEF AddFinalizer, AppInv
      <4> QED
        BY <4>1, <4>2
    <3> QED
      BY <3>1, <3>2
  <2> QED
    BY <2>1, <2>2, StatusStep, RemoveStep, CacheStep, UserStep, ClusterStep
    DEF Next, Reconcile, Environment
<1> QED
  BY Inductive, <1>1, PTL DEF Spec, FailedIsFinal

-----------------------------------------------------------------------------
\* The application is to be looked at again: it is queued, or a watch event that
\* will queue it is on its way.
Awaited == queued \/ Len(log) > 1

\* Nothing is left to do.
Quiet == pc = "idle" /\ ~Awaited

\* Version a says what is the case: the LWS is there, and whether it is ready.
Reports(a) == a.ready /\ lws # "none" /\ (a.replicas <=> lws = "ready")

\* Unless the application is awaited, an idle controller has dealt with its latest
\* version, and one that runs is dealing with it.  A Reconcile that finds the LWS
\* missing does not create it, but changes the status, which brings the next one.
AwaitInv ==
  /\ stale => Awaited /\ pc # "idle"
  /\ Latest.gone => Latest.deleting
  /\ pc \in {"addFinalizer", "status"} => ~obj.deleting
  /\ pc = "model" /\ ~stale => obj.ready = Latest.ready
  /\ pc = "sync" => obj.ready
  /\ ~Awaited =>
       /\ pc = "idle" /\ Latest.deleting => Latest.gone
       /\ pc = "idle" /\ Live => Reports(Latest)
       /\ pc = "service" => lws # "none"
       /\ pc = "sync" => lws # "none" \/ Latest.ready
       /\ pc = "status" /\ ~again /\ obj.phase # "Failed" =>
            Reports(obj) \/ (Latest.ready /\ ~obj.ready)

\* A step of the environment, of the cache, or of a Reconcile that returns an error,
\* after which the application is awaited.
LEMMA AwaitedStep ==
  ASSUME AwaitInv, Awaited', Latest'.gone => Latest'.deleting,
         \/ UNCHANGED <<pc, obj>> /\ stale' = stale /\ Latest' = Latest
         \/ UNCHANGED <<pc, obj>> /\ (stale' <=> pc # "idle")
         \/ pc' = "idle" /\ ~stale'
  PROVE  AwaitInv'
BY DEF AwaitInv

\* A stored version that differs from the latest is announced by a watch event.
LEMMA StoreAwaited ==
  ASSUME TypeOK, NEW a, Store(a), a # Latest
  PROVE  Awaited'
<1>1. log' = Append(log, a)
  BY DEF Store
<1>2. Len(log') = Len(log) + 1 /\ Len(log) \in Nat /\ Len(log) >= 1
  BY <1>1, ApplicationAssumption DEF TypeOK
<1>3. Len(log') > 1
  BY ONLY <1>2
<1> QED
  BY <1>3 DEF Awaited

\* What happens outside of the controller has the application awaited, or does not
\* concern it.
LEMMA OutsideAwait ==
  ASSUME AppInv, AwaitInv, Watch \/ Resync \/ Restart \/ Environment \/ UNCHANGED vars
  PROVE  AwaitInv'
<1>0. TypeOK /\ Latest \in Application
  BY VersionsOfLog DEF AppInv
<1>1. CASE Watch \/ Resync \/ Restart \/ LwsReady \/ LwsChanges
  <2>1. queued' = TRUE
    BY <1>1 DEF Watch, Resync, Restart, LwsReady, LwsChanges
  <2>2. Latest' = Latest
    <3>1. CASE Watch
      BY <1>0, <3>1, WatchVersion DEF Watch
    <3>2. CASE Restart
      BY <1>0, <3>2, RestartVersion DEF Restart
    <3>3. CASE Resync \/ LwsReady \/ LwsChanges
      BY <3>3 DEF Resync, LwsReady, LwsChanges, Latest
    <3> QED
      BY <1>1, <3>1, <3>2, <3>3
  <2>3. UNCHANGED <<pc, obj, stale>> \/ (pc' = "idle" /\ stale' = FALSE)
    BY <1>1 DEF Watch, Resync, Restart, LwsReady, LwsChanges, running
  <2> QED
    BY <2>1, <2>2, <2>3, AwaitedStep DEF AwaitInv, Awaited
<1>2. CASE DeleteApplication
  <2> DEFINE a == [Latest EXCEPT !.deleting = TRUE, !.gone = ~Latest.finalizer]
  <2>1. /\ a \in Application /\ a.deleting /\ a # Latest
        /\ Store(a) /\ UNCHANGED <<pc, obj>> /\ stale' = (pc # "idle")
    BY <1>0, <1>2 DEF DeleteApplication, Application
  <2> HIDE DEF a
  <2>2. Latest' = a /\ Awaited'
    BY <1>0, <2>1, StoreVersion, StoreAwaited
  <2> QED
    BY <2>1, <2>2, AwaitedStep
<1>3. CASE EditApplication
  <2> DEFINE a == [Latest EXCEPT !.supported = ~@]
  <2>1. /\ a \in Application /\ ~a.gone /\ a # Latest
        /\ Store(a) /\ UNCHANGED <<pc, obj>> /\ stale' = (pc # "idle")
    BY <1>0, <1>3 DEF EditApplication, Application
  <2> HIDE DEF a
  <2>2. Latest' = a /\ Awaited'
    BY <1>0, <2>1, StoreVersion, StoreAwaited
  <2> QED
    BY <2>1, <2>2, AwaitedStep
<1>4. CASE ModelProgress \/ OthersDeleted \/ UNCHANGED vars
  <2>1. UNCHANGED <<log, queued, pc, obj, stale, again, lws>>
    BY <1>4 DEF ModelProgress, OthersDeleted, vars, running, workload
  <2> QED
    BY <2>1 DEF AwaitInv, Awaited, Latest, Live, Reports
<1> QED
  BY <1>1, <1>2, <1>3, <1>4 DEF Environment

\* A Reconcile starts with the latest version, or the latest is on its way.
LEMMA GetAwait ==
  ASSUME AppInv, AwaitInv, GetApplication
  PROVE  AwaitInv'
<1>1. /\ TypeOK /\ Cached \in Application
      /\ Len(log) = 1 => Cached = Latest
      /\ Len(log) > 1 \/ Len(log) = 1
  <2>1. TypeOK /\ Len(log) \in Nat /\ Len(log) >= 1
    BY ApplicationAssumption DEF AppInv, TypeOK
  <2>2. \A n \in Nat : n >= 1 => n > 1 \/ n = 1
    OBVIOUS
  <2>3. Len(log) > 1 \/ Len(log) = 1
    BY <2>1, <2>2, Zenon
  <2> QED
    BY <2>1, <2>3, VersionsOfLog
<1>2. /\ UNCHANGED <<log, lws>> /\ queued' = FALSE /\ Latest' = Latest
      /\ pc = "idle" /\ ~stale
  BY DEF GetApplication, Latest, workload, AwaitInv
<1>3. CASE Cached.gone
  <2>1. pc' = "idle" /\ ~stale'
    BY <1>2, <1>3, Zenon DEF GetApplication, running
  <2>2. CASE Len(log) > 1
    BY <1>2, <2>1, <2>2, AwaitedStep DEF AwaitInv, Awaited
  <2>3. CASE Len(log) = 1
    <3>1. Latest.gone /\ Latest.deleting
      BY <1>1, <1>3, <2>3 DEF AwaitInv
    <3> QED
      BY <1>2, <2>1, <3>1 DEF AwaitInv, Live
  <2> QED
    BY <1>1, <2>2, <2>3
<1>4. CASE ~Cached.gone
  <2>1. /\ pc' = FirstCall(Cached) /\ stale' = (Len(log) > 1)
        /\ \/ obj' = Cached
           \/ Cached.phase # "Failed" /\ obj' = [Cached EXCEPT !.phase = "Pending"]
    BY <1>4 DEF GetApplication
  <2>2. /\ obj'.deleting = Cached.deleting /\ obj'.ready = Cached.ready
        /\ Cached.phase = "Failed" => obj'.phase = "Failed"
    BY <1>1, <2>1 DEF Application
  <2>3. /\ pc' \in {"deleteService", "status", "model", "addFinalizer"}
        /\ pc' \in {"addFinalizer", "status"} => ~obj'.deleting
        /\ pc' = "status" => obj'.phase = "Failed"
    BY <2>1, <2>2 DEF FirstCall
  <2>4. stale' => Awaited'
    BY <1>2, <2>1, Zenon DEF Awaited
  <2>5. ~stale' => obj'.ready = Latest'.ready
    BY <1>1, <1>2, <2>1, <2>2, Zenon
  <2> QED
    BY <1>2, <2>3, <2>4, <2>5 DEF AwaitInv
<1> QED
  BY <1>3, <1>4

\* After the finalizer Reconcile asks to be called again.
LEMMA FinalizerAwait ==
  ASSUME AppInv, AwaitInv, AddFinalizer
  PROVE  AwaitInv'
<1>1. /\ UNCHANGED <<queued, stale>> /\ pc = "addFinalizer" /\ pc' = "status"
      /\ again' = TRUE /\ obj' = [obj EXCEPT !.finalizer = ~stale]
  BY DEF AddFinalizer, Return
<1>2. TypeOK /\ obj \in Application /\ ~obj.deleting /\ ~obj.gone /\ Latest \in Application
  BY <1>1, VersionsOfLog DEF AppInv, TypeOK, AwaitInv, CopyInv
<1>3. ~obj'.deleting
  BY <1>1, <1>2 DEF Application
<1>4. CASE stale
  <2>1. Latest' = Latest /\ (Awaited => Awaited')
    BY <1>1, <1>4 DEF AddFinalizer, Latest, Awaited
  <2> QED
    BY <1>1, <1>3, <2>1 DEF AwaitInv
<1>5. CASE ~stale
  <2> DEFINE a == [obj EXCEPT !.finalizer = TRUE, !.phase = Latest.phase]
  <2>1. a \in Application /\ Store(a) /\ ~a.gone
    BY <1>2, <1>5 DEF AddFinalizer, Application
  <2> HIDE DEF a
  <2>2. Latest' = a
    BY <1>2, <2>1, StoreVersion
  <2> QED
    BY <1>1, <1>3, <1>5, <2>1, <2>2 DEF AwaitInv
<1> QED
  BY <1>4, <1>5

\* The check for the model: reconcile gives up, asks to be called again, or goes on
\* with the condition Ready as it was.
LEMMA CheckAwait ==
  ASSUME AppInv, AwaitInv, CheckModel
  PROVE  AwaitInv'
<1> DEFINE b == [obj EXCEPT !.phase = "Checking", !.precheck = valid /\ obj.supported]
<1>1. /\ UNCHANGED <<log, queued, stale, lws>> /\ Latest' = Latest /\ pc = "model"
  BY DEF CheckModel, WaitForModel, Goto, Return, Latest, workload
<1>2. obj \in Application /\ ~obj.deleting
  BY <1>1 DEF AppInv, TypeOK, CopyInv, Creates, Creating
<1>3. b \in Application /\ b.deleting = obj.deleting /\ b.ready = obj.ready
  BY <1>2 DEF AppInv, TypeOK, Application, Phases
<1>4. PICK a \in {obj, b} :
        \/ Return([a EXCEPT !.phase = "Failed"], FALSE)
        \/ Return([a EXCEPT !.phase = "Failed", !.loaded = FALSE], FALSE)
        \/ Return([a EXCEPT !.phase = "Loading"], TRUE)
        \/ Goto(IF a.ready THEN "sync" ELSE "lws", a)
        \/ Goto(IF a.ready THEN "sync" ELSE "lws",
                [a EXCEPT !.phase = "Loading", !.loaded = TRUE])
  <2>1. ASSUME NEW a, WaitForModel(a)
        PROVE  \/ Return([a EXCEPT !.phase = "Failed"], FALSE)
               \/ Return([a EXCEPT !.phase = "Loading"], TRUE)
               \/ Goto(IF a.ready THEN "sync" ELSE "lws", a)
               \/ Goto(IF a.ready THEN "sync" ELSE "lws",
                       [a EXCEPT !.phase = "Loading", !.loaded = TRUE])
    BY <2>1 DEF WaitForModel
  <2> DEFINE a == IF obj.precheck THEN obj ELSE b
  <2>2. \/ Return([a EXCEPT !.phase = "Failed"], FALSE)
        \/ Return([a EXCEPT !.phase = "Failed", !.loaded = FALSE], FALSE)
        \/ WaitForModel(a)
    BY DEF CheckModel
  <2>3. a \in {obj, b}
    OBVIOUS
  <2> HIDE DEF a, b
  <2> QED
    BY <2>1, <2>2, <2>3
<1> HIDE DEF b
<1>5. a \in Application /\ ~a.deleting /\ a.ready = obj.ready
  BY <1>2, <1>3, <1>4
<1>6. CASE \/ Return([a EXCEPT !.phase = "Failed"], FALSE)
           \/ Return([a EXCEPT !.phase = "Failed", !.loaded = FALSE], FALSE)
           \/ Return([a EXCEPT !.phase = "Loading"], TRUE)
  <2>1. pc' = "status" /\ ~obj'.deleting /\ (again' = TRUE \/ obj'.phase = "Failed")
    BY <1>5, <1>6 DEF Return, Application
  <2> QED
    BY <1>1, <2>1 DEF AwaitInv, Awaited
<1>7. CASE \/ Goto(IF a.ready THEN "sync" ELSE "lws", a)
           \/ Goto(IF a.ready THEN "sync" ELSE "lws",
                   [a EXCEPT !.phase = "Loading", !.loaded = TRUE])
  <2>1. pc' = (IF a.ready THEN "sync" ELSE "lws") /\ obj'.ready = a.ready
    BY <1>5, <1>7 DEF Goto, Application
  <2> QED
    BY <1>1, <1>5, <2>1 DEF AwaitInv, Awaited
<1> QED
  BY <1>4, <1>6, <1>7

\* The workload: the LWS is there once it is ensured, and its counts are copied; an
\* LWS that has gone since makes the copy differ from the latest version.
LEMMA WorkloadAwait ==
  ASSUME AppInv, AwaitInv,
         EnsureLws \/ EnsureService \/ SyncStatus \/ DeleteService \/ DeleteLws
  PROVE  AwaitInv'
<1>1. /\ UNCHANGED <<log, queued, stale>> /\ Latest' = Latest /\ obj \in Application
      /\ pc \in Creating => ~obj.deleting
  BY DEF EnsureLws, EnsureService, SyncStatus, DeleteService, DeleteLws, Goto, Return,
     Latest, AppInv, TypeOK, CopyInv, Creates
<1>2. CASE EnsureLws
  <2>1. \/ pc' = "service" /\ lws' # "none"
        \/ /\ pc' = "status" /\ again' = TRUE
           /\ obj' = [obj EXCEPT !.phase = "Failed", !.precheck = FALSE]
    BY <1>2 DEF EnsureLws, Goto, Return
  <2>2. pc' = "status" => ~obj'.deleting
    BY <1>1, <1>2, <2>1 DEF EnsureLws, Creating, Application
  <2> QED
    BY <1>1, <2>1, <2>2 DEF AwaitInv, Awaited
<1>3. CASE EnsureService
  <2>1. /\ pc = "service" /\ pc' = "sync" /\ lws' = lws
        /\ obj' = [obj EXCEPT !.phase = "Running", !.ready = TRUE]
    BY <1>3 DEF EnsureService, Goto
  <2>2. obj'.ready
    BY <1>1, <2>1 DEF Application
  <2> QED
    BY <1>1, <2>1, <2>2 DEF AwaitInv, Awaited
<1>4. CASE SyncStatus
  <2>1. /\ pc = "sync" /\ pc' = "status" /\ lws' = lws
        /\ \/ lws = "none" /\ obj' = [obj EXCEPT !.phase = "Running", !.ready = FALSE]
           \/ lws # "none" /\ obj' = [obj EXCEPT !.replicas = (lws = "ready")]
    BY <1>4 DEF SyncStatus, Return, workload
  <2>2. /\ obj.ready /\ ~obj'.deleting
        /\ \/ lws = "none" /\ ~obj'.ready
           \/ lws # "none" /\ obj'.ready /\ obj'.replicas = (lws = "ready")
    BY <1>1, <2>1 DEF AwaitInv, Creating, Application
  <2>3. ~Awaited => Reports(obj)' \/ (Latest.ready /\ ~obj'.ready)
    <3>1. ~Awaited => lws # "none" \/ Latest.ready
      BY <2>1 DEF AwaitInv
    <3>2. lws # "none" /\ obj'.ready /\ obj'.replicas = (lws = "ready") => Reports(obj)'
      BY <2>1 DEF Reports
    <3> QED
      BY <2>2, <3>1, <3>2
  <2> QED
    BY <1>1, <2>1, <2>2, <2>3 DEF AwaitInv, Awaited
<1>5. CASE DeleteService \/ DeleteLws
  <2>1. pc' \in {"deleteLws", "removeFinalizer"}
    BY <1>5 DEF DeleteService, DeleteLws, Goto
  <2> QED
    BY <1>1, <2>1 DEF AwaitInv, Awaited
<1> QED
  BY <1>2, <1>3, <1>4, <1>5

\* An error of reconcile has it called again.
LEMMA FailAwait ==
  ASSUME AppInv, AwaitInv, ReconcileFails
  PROVE  AwaitInv'
<1>1. /\ UNCHANGED <<log, queued, stale>> /\ Latest' = Latest /\ obj \in Application
      /\ pc' = "status" /\ again' = TRUE /\ pc \in Creating \cup {"addFinalizer"}
      /\ \/ obj' = obj
         \/ obj' = [obj EXCEPT !.phase = "Checking", !.precheck = TRUE]
         \/ obj' = [obj EXCEPT !.phase = "Creating"]
  BY DEF ReconcileFails, Return, Latest, AppInv, TypeOK, Creating
<1>2. ~obj'.deleting
  BY <1>1 DEF Application, AppInv, CopyInv, Creates, AwaitInv
<1> QED
  BY <1>1, <1>2 DEF AwaitInv, Awaited

\* The status update and remove leave nothing to do, or have the application awaited.
LEMMA UpdateAwait ==
  ASSUME AppInv, AwaitInv, UpdateStatus \/ RemoveFinalizer \/ UpdateFails
  PROVE  AwaitInv'
<1>0. TypeOK /\ obj \in Application
  BY DEF AppInv, TypeOK
<1>1. CASE ((UpdateStatus \/ RemoveFinalizer) /\ stale) \/ UpdateFails
  <2>1. queued' = TRUE /\ log' = log /\ Latest' = Latest /\ pc' = "idle" /\ ~stale'
    BY <1>1 DEF UpdateStatus, RemoveFinalizer, UpdateFails, Finish, Latest
  <2> QED
    BY <2>1, AwaitedStep DEF AwaitInv, Awaited
<1>2. CASE UpdateStatus /\ ~stale
  <2>1. /\ Store(obj) /\ queued' = (queued \/ again) /\ pc = "status" /\ pc' = "idle"
        /\ ~stale' /\ lws' = lws /\ ~obj.deleting /\ ~obj.gone
    BY <1>2 DEF UpdateStatus, Finish, workload, AwaitInv, AppInv, CopyInv
  <2>2. Latest' = obj
    BY <1>0, <2>1, StoreVersion
  <2>3. ASSUME ~Awaited'
        PROVE  ~Awaited /\ ~again /\ obj = Latest
    <3>1. obj = Latest
      BY <1>0, <2>1, <2>3, StoreAwaited
    <3>2. log' = log
      BY <2>1, <3>1 DEF Store
    <3> QED
      BY <2>1, <2>3, <3>1, <3>2 DEF Awaited
  <2>4. ~Awaited' /\ Live' => Reports(Latest)'
    <3>1. ~Awaited' /\ obj.phase # "Failed" => Reports(obj)
      BY <2>1, <2>3 DEF AwaitInv
    <3>2. Reports(obj) => Reports(Latest)'
      BY <2>1, <2>2 DEF Reports
    <3> QED
      BY <2>2, <3>1, <3>2 DEF Live
  <2> QED
    BY <2>1, <2>2, <2>4 DEF AwaitInv
<1>3. CASE RemoveFinalizer /\ ~stale
  <2> DEFINE a == [obj EXCEPT !.finalizer = FALSE, !.gone = TRUE]
  <2>1. /\ Store(a) /\ a \in Application /\ a.gone /\ a.deleting /\ pc' = "idle" /\ ~stale'
    BY <1>0, <1>3 DEF RemoveFinalizer, Finish, Application, AppInv, CopyInv, Removing
  <2> HIDE DEF a
  <2>2. Latest' = a
    BY <1>0, <2>1, StoreVersion
  <2> QED
    BY <2>1, <2>2 DEF AwaitInv, Live
<1> QED
  BY <1>1, <1>2, <1>3

\* Unless it is awaited, the application has been or is being dealt with.
LEMMA AwaitInvariance == Spec => []AwaitInv
<1>1. Init => AwaitInv
  <2>1. Init => Latest = NewApplication
    BY DEF Init, Latest, Last
  <2>2. Init => Awaited
    BY DEF Init, Awaited
  <2>3. Init => pc = "idle" /\ ~stale
    BY DEF Init
  <2>4. ~NewApplication.gone
    BY DEF NewApplication
  <2> QED
    BY <2>1, <2>2, <2>3, <2>4 DEF AwaitInv
<1>2. AppInv /\ AwaitInv /\ [Next]_vars => AwaitInv'
  BY OutsideAwait, GetAwait, FinalizerAwait, CheckAwait, WorkloadAwait, FailAwait,
     UpdateAwait
  DEF Next, Reconcile
<1> QED
  BY <1>1, <1>2, Inductive, PTL DEF Spec

\* The safety half of StatusFollowsLws and LwsRestored: when nothing is left to do,
\* the LWS of an application that is looked after exists, and the status says
\* whether it is ready.  No conflict, failed call or restart loses an event of the
\* LWS, and a missing LWS is never left missing.
THEOREM NothingForgotten ==
  Spec => [](Quiet /\ Live =>
               Latest.ready /\ lws # "none" /\ (Latest.replicas <=> lws = "ready"))
<1>1. AwaitInv => (Quiet /\ Live =>
                     Latest.ready /\ lws # "none" /\ (Latest.replicas <=> lws = "ready"))
  BY DEF AwaitInv, Quiet, Reports
<1> QED
  BY <1>1, AwaitInvariance, PTL

\* The safety half of DeletionCompletes: an application that the user has deleted is
\* gone when nothing is left to do, whatever call of remove fails.
THEOREM DeletionPending == Spec => [](Quiet /\ Latest.deleting => Latest.gone)
<1>1. AwaitInv => (Quiet /\ Latest.deleting => Latest.gone)
  BY DEF AwaitInv, Quiet
<1> QED
  BY <1>1, AwaitInvariance, PTL

-----------------------------------------------------------------------------
\* What a step shows of the application: its metadata and what it owns.
Shown == <<Latest.finalizer, Latest.deleting, Latest.gone, Owned>>

\* Calls that only read, the queue and the cache, and failures show nothing; nor
\* does a status that is written.
LEMMA HiddenStep ==
  ASSUME AppInv, \/ GetApplication \/ CheckModel \/ SyncStatus \/ UpdateStatus
                 \/ ReconcileFails \/ UpdateFails \/ Watch \/ Resync \/ Restart
                 \/ EditApplication \/ ModelProgress \/ LwsReady \/ UNCHANGED vars
  PROVE  UNCHANGED Shown
<1>0. TypeOK /\ Latest \in Application /\ obj \in Application
  BY VersionsOfLog DEF AppInv, TypeOK
<1>1. CASE EditApplication
  <2> DEFINE a == [Latest EXCEPT !.supported = ~@]
  <2>1. /\ Store(a) /\ a \in Application /\ UNCHANGED workload
        /\ a.finalizer = Latest.finalizer /\ a.deleting = Latest.deleting
        /\ a.gone = Latest.gone
    BY <1>0, <1>1 DEF EditApplication, Application
  <2> HIDE DEF a
  <2> QED
    BY <1>0, <2>1, StoreVersion DEF Shown, Owned, workload
<1>2. CASE UpdateStatus /\ ~stale
  <2>1. /\ Store(obj) /\ UNCHANGED workload
        /\ obj.finalizer = Latest.finalizer /\ obj.deleting = Latest.deleting
        /\ ~obj.gone /\ ~Latest.gone
    BY <1>2 DEF UpdateStatus, AppInv, CopyInv
  <2>2. Latest' = obj
    BY <1>0, <2>1, StoreVersion
  <2>3. obj.gone = Latest.gone
    BY <1>0, <2>1 DEF Application
  <2> QED
    BY <2>1, <2>2, <2>3 DEF Shown, Owned, workload
<1>3. CASE LwsReady
  BY <1>3 DEF LwsReady, Shown, Owned, Latest
<1>4. CASE Watch \/ Restart
  BY <1>0, <1>4, WatchVersion, RestartVersion DEF Watch, Restart, Shown, Owned, workload
<1>5. CASE \/ GetApplication \/ CheckModel \/ SyncStatus \/ (UpdateStatus /\ stale)
           \/ ReconcileFails \/ UpdateFails \/ Resync \/ ModelProgress \/ UNCHANGED vars
  <2>1. UNCHANGED <<log, workload>>
    BY <1>5 DEF GetApplication, CheckModel, SyncStatus, UpdateStatus, ReconcileFails,
                UpdateFails, Resync, ModelProgress, vars
  <2> QED
    BY <2>1 DEF Shown, Owned, Latest, workload
<1> QED
  BY <1>1, <1>2, <1>3, <1>4, <1>5

\* A call that creates works on an application that still has its finalizer.
LEMMA MakeStep ==
  ASSUME AppInv, EnsureLws \/ EnsureService
  PROVE  Object!Next \/ UNCHANGED Shown
<1>1. Latest' = Latest /\ Latest.finalizer
  BY DEF EnsureLws, EnsureService, Latest, AppInv, OwnedInv, Creating
<1>2. CASE EnsureLws
  <2>1. Owned' = Owned \/ Owned' = Owned \cup {"lws"}
    BY <1>2 DEF EnsureLws, Owned
  <2> QED
    BY <1>1, <2>1 DEF Shown, Object!Next, Object!Make
<1>3. CASE EnsureService
  <2>1. Owned' = Owned \cup {"service"}
    BY <1>3 DEF EnsureService, Owned
  <2> QED
    BY <1>1, <2>1 DEF Shown, Object!Next, Object!Make
<1> QED
  BY <1>2, <1>3

\* What is deleted, by remove or by someone else, is lost.
LEMMA LoseStep ==
  ASSUME AppInv, DeleteService \/ DeleteLws \/ LwsChanges \/ OthersDeleted
  PROVE  Object!Next \/ UNCHANGED Shown
<1>1. Latest' = Latest
  BY DEF DeleteService, DeleteLws, LwsChanges, OthersDeleted, Latest
<1>2. \/ Owned' = Owned \/ Owned' = Owned \ {"lws"} \/ Owned' = Owned \ {"service"}
  <2>1. lws' = lws \/ (lws # "none" /\ lws' # "none") \/ lws' = "none"
    BY DEF DeleteService, DeleteLws, LwsChanges, OthersDeleted
  <2>2. \/ service' = service
        \/ lws' = lws /\ ~service'
    BY DEF DeleteService, DeleteLws, LwsChanges, OthersDeleted
  <2> QED
    BY <2>1, <2>2 DEF Owned
<1> QED
  BY <1>1, <1>2 DEF Shown, Object!Next, Object!Lose

\* The finalizer is added to an application that nobody has deleted, and taken from
\* one that has been deleted and owns nothing.
LEMMA ReleaseStep ==
  ASSUME AppInv, AwaitInv, AddFinalizer \/ RemoveFinalizer \/ DeleteApplication
  PROVE  Object!Next \/ UNCHANGED Shown
<1>0. TypeOK /\ Latest \in Application /\ obj \in Application
  BY VersionsOfLog DEF AppInv, TypeOK
<1>1. Owned' = Owned
  <2>1. lws' = lws /\ service' = service
    BY DEF AddFinalizer, RemoveFinalizer, DeleteApplication, workload
  <2> QED
    BY <2>1 DEF Owned
<1>2. CASE (AddFinalizer \/ RemoveFinalizer) /\ stale
  <2>1. Latest' = Latest
    BY <1>2 DEF AddFinalizer, RemoveFinalizer, Latest
  <2> QED
    BY <1>1, <2>1 DEF Shown
<1>3. CASE AddFinalizer /\ ~stale
  <2> DEFINE a == [obj EXCEPT !.finalizer = TRUE, !.phase = Latest.phase]
  <2>1. /\ Store(a) /\ a \in Application /\ a.finalizer = TRUE
        /\ a.deleting = Latest.deleting /\ a.gone = obj.gone
        /\ ~obj.gone /\ ~Latest.gone /\ ~Latest.deleting
    BY <1>0, <1>3 DEF AddFinalizer, Application, AppInv, CopyInv, AwaitInv
  <2> HIDE DEF a
  <2>2. Latest' = a
    BY <1>0, <2>1, StoreVersion
  <2>3. obj.gone = Latest.gone
    BY <1>0, <2>1 DEF Application
  <2> QED
    BY <1>1, <2>1, <2>2, <2>3 DEF Object!Next, Object!Adopt
<1>4. CASE RemoveFinalizer /\ ~stale
  <2> DEFINE a == [obj EXCEPT !.finalizer = FALSE, !.gone = TRUE]
  <2>1. /\ Store(a) /\ a \in Application /\ a.finalizer = FALSE /\ a.gone = TRUE
        /\ a.deleting = Latest.deleting /\ Latest.deleting
        /\ lws = "none" /\ ~service
    BY <1>0, <1>4 DEF RemoveFinalizer, Application, AppInv, CopyInv, Removing
  <2> HIDE DEF a
  <2>2. Latest' = a
    BY <1>0, <2>1, StoreVersion
  <2>3. Owned = {}
    BY <2>1 DEF Owned
  <2> QED
    BY <1>1, <2>1, <2>2, <2>3 DEF Object!Next, Object!Release
<1>5. CASE DeleteApplication
  <2> DEFINE a == [Latest EXCEPT !.deleting = TRUE, !.gone = ~Latest.finalizer]
  <2>1. /\ Store(a) /\ a \in Application /\ a.finalizer = Latest.finalizer
        /\ a.deleting = TRUE /\ a.gone = ~Latest.finalizer /\ ~Latest.deleting
    BY <1>0, <1>5 DEF DeleteApplication, Application
  <2> HIDE DEF a
  <2>2. Latest' = a
    BY <1>0, <2>1, StoreVersion
  <2> QED
    BY <1>1, <2>1, <2>2 DEF Object!Next, Object!Delete
<1> QED
  BY <1>2, <1>3, <1>4, <1>5

\* The controller implements Lifecycle: whatever version of the application its
\* Reconciles work from, LWS and service are created only while the application has
\* the finalizer, it is released only without them, and nothing follows that.
THEOREM Refinement == Spec => ImplementsLifecycle
<1>1. Init => Object!Init
  <2>1. Init => Latest = NewApplication
    BY DEF Init, Latest, Last
  <2>2. Init => Owned = {}
    BY DEF Init, Owned
  <2>3. /\ NewApplication.finalizer = FALSE /\ NewApplication.deleting = FALSE
        /\ NewApplication.gone = FALSE
    BY DEF NewApplication
  <2> QED
    BY <2>1, <2>2, <2>3 DEF Object!Init
<1>2. AppInv /\ AwaitInv /\ [Next]_vars => [Object!Next]_(Object!vars)
  <2> SUFFICES ASSUME AppInv, AwaitInv, [Next]_vars
               PROVE  Object!Next \/ UNCHANGED Shown
    BY DEF Object!vars, Shown
  <2> QED
    BY HiddenStep, MakeStep, LoseStep, ReleaseStep DEF Next, Reconcile, Environment
<1> QED
  BY <1>1, <1>2, Inductive, AwaitInvariance, PTL
  DEF Spec, ImplementsLifecycle, Object!Spec
=============================================================================

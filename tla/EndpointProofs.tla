--------------------------- MODULE EndpointProofs ---------------------------
(***************************************************************************)
(* Proofs about the ArksEndpoint controller, for any applications, static  *)
(* services, failed calls and lags of its three caches: the types, that    *)
(* only an endpoint with the finalizer gets a route, that an endpoint that *)
(* is gone leaves none unless handleDelete has read an old route, that a   *)
(* controller at rest has the ready applications in route and status, and  *)
(* that it implements Lifecycle.                                           *)
(***************************************************************************)
EXTENDS EndpointController, TLAPS

\* The latest version of the endpoint, and those from the cached one to it.
Latest == Last(log)
Versions == {log[i] : i \in 1 .. Len(log)}

\* Where Reconcile is about to write the route, and where handleDelete is.
Creating == {"list", "route", "status"}
Removing == {"deleteRoute", "removeFinalizer"}

\* A version with which Reconcile goes on to write the route.
Creates(v) == v.finalizer /\ ~v.deleting /\ ~v.gone

\* What the copy of a running Reconcile has to do with the latest version.  If
\* handleDelete works on the latest version, the cache has no other.
CopyInv ==
  /\ pc # "idle" => ~obj.gone
  /\ pc # "idle" /\ ~stale => /\ ~Latest.gone
                              /\ obj.deleting = Latest.deleting
                              /\ obj.finalizer = Latest.finalizer
  /\ pc \in Creating => Creates(obj)
  /\ pc \in Removing => obj.deleting /\ (~stale => Len(log) = 1)

\* An endpoint without the finalizer: no Reconcile writes a route, and none
\* will from a version in the cache.  Before it has the finalizer there is no
\* route; when it has lost it handleDelete has deleted the one in the cache.
OwnedInv ==
  /\ Latest.gone => ~Latest.finalizer
  /\ ~Latest.finalizer => /\ pc \notin Creating
                          /\ \A v \in Versions : ~Creates(v)
                          /\ Last(routeLog).exists => Latest.gone /\ behind
  /\ pc = "removeFinalizer" /\ ~behind => ~Last(routeLog).exists

EndInv == TypeOK /\ CopyInv /\ OwnedInv

-----------------------------------------------------------------------------
\* How many versions a log may have.
LEMMA Lengths ==
  \A n \in Nat : (n > 1 => n # 1) /\ (n >= 1 => n = 1 \/ n > 1)
OBVIOUS

\* The ends of a log that is not empty.
LEMMA Ends ==
  ASSUME NEW S, NEW s \in Seq(S), Len(s) \in 1 .. MaxLag + 1
  PROVE  /\ Head(s) \in S /\ Last(s) \in S
         /\ Head(s) = s[1] /\ Last(s) = s[Len(s)]
         /\ Len(s) \in Nat /\ ~(Len(s) > 1) => Head(s) = Last(s)
BY EndpointAssumption DEF Last

\* A version that is stored becomes the last one and is the only new one.
LEMMA Stored ==
  ASSUME NEW S, NEW s \in Seq(S), Len(s) \in 1 .. MaxLag + 1, NEW v \in S, HasRoom(s),
         NEW t, t = Append(s, v) \/ t = Store(s, v)
  PROVE  /\ t \in Seq(S) /\ Len(t) \in 1 .. MaxLag + 1 /\ Last(t) = v
         /\ \A i \in 1 .. Len(t) : t[i] = v \/ \E j \in 1 .. Len(s) : t[i] = s[j]
<1>1. CASE t = s /\ v = Last(s)
  BY <1>1
<1>2. CASE t = Append(s, v)
  <2>1. t \in Seq(S) /\ Len(t) = Len(s) + 1 /\ t[Len(s) + 1] = v
    BY <1>2
  <2>2. \A j \in 1 .. Len(s) : t[j] = s[j]
    BY <1>2
  <2>3. Len(t) \in 1 .. MaxLag + 1
    BY <2>1, EndpointAssumption DEF HasRoom
  <2> QED
    BY <2>1, <2>2, <2>3 DEF Last
<1> QED
  BY <1>1, <1>2 DEF Store

\* A watch event drops the oldest version and keeps the last one.
LEMMA Watched ==
  ASSUME NEW S, NEW s \in Seq(S), Len(s) \in 1 .. MaxLag + 1, Len(s) > 1,
         NEW t, t = Tail(s)
  PROVE  /\ t \in Seq(S) /\ Len(t) \in 1 .. MaxLag + 1 /\ Last(t) = Last(s)
         /\ \A i \in 1 .. Len(t) : \E j \in 1 .. Len(s) : t[i] = s[j]
<1>1. t \in Seq(S) /\ Len(t) = Len(s) - 1 /\ Len(s) \in Nat
  OBVIOUS
<1>2. \A i \in 1 .. Len(t) : t[i] = s[i + 1] /\ i + 1 \in 1 .. Len(s)
  BY <1>1
<1>3. Len(t) \in 1 .. MaxLag + 1
  BY <1>1, EndpointAssumption
<1> QED
  BY <1>1, <1>2, <1>3 DEF Last

\* A restart keeps the last version only.
LEMMA Restarted ==
  ASSUME NEW S, NEW s \in Seq(S), Len(s) \in 1 .. MaxLag + 1, NEW t, t = <<Last(s)>>
  PROVE  /\ t \in Seq(S) /\ Len(t) \in 1 .. MaxLag + 1 /\ Last(t) = Last(s)
         /\ \A i \in 1 .. Len(t) : \E j \in 1 .. Len(s) : t[i] = s[j]
<1>1. Last(s) \in S /\ Last(s) = s[Len(s)] /\ Len(s) \in 1 .. Len(s)
  BY Ends
<1>2. t \in Seq(S) /\ Len(t) = 1 /\ t[1] = Last(s)
  BY <1>1
<1>3. 1 \in 1 .. MaxLag + 1
  BY EndpointAssumption
<1> QED
  BY <1>1, <1>2, <1>3 DEF Last

\* The same of the log of the endpoint, and of its versions.
LEMMA LogStored ==
  ASSUME TypeOK, NEW e \in Endpoint, HasRoom(log), log' = Append(log, e) \/ log' = Store(log, e)
  PROVE  /\ log' \in Seq(Endpoint) /\ Len(log)' \in 1 .. MaxLag + 1
         /\ Latest' = e /\ Versions' \subseteq Versions \cup {e}
<1>1. /\ log' \in Seq(Endpoint) /\ Len(log') \in 1 .. MaxLag + 1 /\ Last(log') = e
      /\ \A i \in 1 .. Len(log') : log'[i] = e \/ \E j \in 1 .. Len(log) : log'[i] = log[j]
  BY Stored DEF TypeOK
<1> QED
  BY <1>1 DEF Latest, Versions

LEMMA LogCached ==
  ASSUME TypeOK, \/ Len(log) > 1 /\ log' = Tail(log)
                 \/ log' = <<Last(log)>>
                 \/ log' = log
  PROVE  /\ log' \in Seq(Endpoint) /\ Len(log)' \in 1 .. MaxLag + 1
         /\ Latest' = Latest /\ Versions' \subseteq Versions
<1>1. CASE log' = log
  BY <1>1 DEF TypeOK, Latest, Versions
<1>2. CASE log' # log
  <2>1. /\ log' \in Seq(Endpoint) /\ Len(log') \in 1 .. MaxLag + 1 /\ Last(log') = Last(log)
        /\ \A i \in 1 .. Len(log') : \E j \in 1 .. Len(log) : log'[i] = log[j]
    BY <1>2, Watched, Restarted DEF TypeOK
  <2> QED
    BY <2>1 DEF Latest, Versions
<1> QED
  BY <1>1, <1>2

\* The latest and the cached version.
LEMMA LogEnds ==
  ASSUME TypeOK
  PROVE  /\ Latest \in Endpoint /\ Head(log) \in Endpoint
         /\ Latest \in Versions /\ Head(log) \in Versions
         /\ ~(Len(log) > 1) => Len(log) = 1 /\ Head(log) = Latest
         /\ Head(routeLog) \in Route /\ Last(routeLog) \in Route
         /\ (Len(log) > 1) \in BOOLEAN /\ RouteBehind \in BOOLEAN
<1>1. /\ Latest \in Endpoint /\ Head(log) \in Endpoint
      /\ Head(log) = log[1] /\ Latest = log[Len(log)]
      /\ ~(Len(log) > 1) => Head(log) = Latest
  BY Ends DEF TypeOK, Latest
<1>2. Head(routeLog) \in Route /\ Last(routeLog) \in Route
  BY Ends DEF TypeOK
<1>3. 1 \in 1 .. Len(log) /\ Len(log) \in 1 .. Len(log) /\ (~(Len(log) > 1) => Len(log) = 1)
  <2>1. Len(log) \in Nat /\ Len(log) >= 1
    BY EndpointAssumption DEF TypeOK
  <2>2. 1 \in 1 .. Len(log) /\ Len(log) \in 1 .. Len(log)
    BY ONLY <2>1
  <2>3. Len(log) = 1 \/ Len(log) > 1
    BY <2>1, Lengths
  <2> QED
    BY <2>2, <2>3, Zenon
<1>4. (Len(log) > 1) \in BOOLEAN /\ RouteBehind \in BOOLEAN
  BY DEF TypeOK, RouteBehind
<1> QED
  BY <1>1, <1>2, <1>3, <1>4 DEF Versions

-----------------------------------------------------------------------------
\* The copies that the calls write are endpoints.
LEMMA CopyTypes ==
  ASSUME NEW e \in Endpoint, NEW r \in SUBSET Services, NEW b \in BOOLEAN, NEW c \in BOOLEAN
  PROVE  /\ [e EXCEPT !.finalizer = b] \in Endpoint
         /\ [e EXCEPT !.finalizer = b, !.gone = c] \in Endpoint
         /\ [e EXCEPT !.deleting = b, !.gone = c] \in Endpoint
         /\ [e EXCEPT !.routes = r] \in Endpoint
         /\ NewEndpoint \in Endpoint /\ NoRoute \in Route
         /\ [exists |-> b, backends |-> r] \in Route
BY DEF Endpoint, Route, NewEndpoint, NoRoute

\* Where Reconcile goes on or returns, its locals keep their types.
LEMMA Returns ==
  ASSUME TypeOK, NEW call, call \in {"status", "removeFinalizer"},
         Goto(call) \/ Finish(TRUE) \/ Finish(FALSE)
  PROVE  /\ pc' \in {"idle", "status", "removeFinalizer"} /\ queued' \in BOOLEAN
         /\ obj' \in Endpoint /\ stale' \in BOOLEAN /\ refs' \subseteq Services
<1>1. NewEndpoint \in Endpoint
  BY DEF NewEndpoint, Endpoint
<1>2. queued \in BOOLEAN /\ stale \in BOOLEAN /\ obj \in Endpoint /\ refs \subseteq Services
  BY DEF TypeOK
<1>3. CASE Goto(call)
  BY <1>2, <1>3 DEF Goto
<1>4. CASE Finish(TRUE) \/ Finish(FALSE)
  <2>1. queued' \in BOOLEAN
    BY <1>2, <1>4, Zenon DEF Finish
  <2> QED
    BY <1>1, <1>4, <2>1 DEF Finish
<1> QED
  BY <1>3, <1>4

\* The calls of Reconcile that write the endpoint keep the types.
LEMMA TypeEndpoint ==
  ASSUME TypeOK, AddFinalizer \/ UpdateStatus \/ RemoveFinalizer
  PROVE  TypeOK'
<1>1. /\ UNCHANGED <<appLog, routeLog, notes, behind, bounds>>
      /\ Finish(TRUE) \/ Finish(FALSE)
  BY DEF AddFinalizer, UpdateStatus, RemoveFinalizer
<1>2. /\ pc' \in {"idle", "status", "removeFinalizer"} /\ queued' \in BOOLEAN
      /\ obj' \in Endpoint /\ stale' \in BOOLEAN /\ refs' \subseteq Services
  BY <1>1, Returns
<1>3. /\ [obj EXCEPT !.finalizer = TRUE] \in Endpoint
      /\ [obj EXCEPT !.routes = refs] \in Endpoint
      /\ [obj EXCEPT !.finalizer = FALSE, !.gone = TRUE] \in Endpoint
  BY CopyTypes DEF TypeOK
<1>4. log' \in Seq(Endpoint) /\ Len(log') \in 1 .. MaxLag + 1
  <2>1. CASE log' = log
    BY <2>1 DEF TypeOK
  <2>2. CASE log' # log
    BY <1>3, <2>2, LogStored DEF AddFinalizer, UpdateStatus, RemoveFinalizer
  <2> QED
    BY <2>1, <2>2
<1> QED
  BY <1>1, <1>2, <1>4 DEF TypeOK, bounds

\* The calls that write the route keep the types.
LEMMA TypeRoute ==
  ASSUME TypeOK, CreateRoute \/ PatchRoute \/ DeleteRoute
  PROVE  TypeOK'
<1>1. /\ UNCHANGED <<log, appLog, notes, bounds>>
      /\ Goto("status") \/ Goto("removeFinalizer") \/ Finish(TRUE)
  BY DEF CreateRoute, PatchRoute, DeleteRoute
<1>2. /\ pc' \in {"idle", "status", "removeFinalizer"} /\ queued' \in BOOLEAN
      /\ obj' \in Endpoint /\ stale' \in BOOLEAN /\ refs' \subseteq Services
  BY <1>1, Returns
<1>3. [exists |-> TRUE, backends |-> refs] \in Route /\ NoRoute \in Route
  BY CopyTypes DEF TypeOK, Route, NoRoute
<1>4. routeLog' \in Seq(Route) /\ Len(routeLog') \in 1 .. MaxLag + 1
  <2>1. CASE routeLog' = routeLog
    BY <2>1 DEF TypeOK
  <2>2. CASE routeLog' # routeLog
    <3>1. PICK r \in Route : HasRoom(routeLog) /\ routeLog' = Store(routeLog, r)
      BY <1>3, <2>2 DEF CreateRoute, PatchRoute, DeleteRoute
    <3>2. routeLog \in Seq(Route) /\ Len(routeLog) \in 1 .. MaxLag + 1
      BY DEF TypeOK
    <3> QED
      BY <3>1, <3>2, Stored
  <2> QED
    BY <2>1, <2>2
<1>5. behind' \in BOOLEAN
  <2>1. behind \in BOOLEAN /\ RouteBehind \in BOOLEAN
    BY LogEnds DEF TypeOK
  <2>2. behind' = behind \/ behind' = (behind \/ RouteBehind)
    BY DEF CreateRoute, PatchRoute, DeleteRoute
  <2> QED
    BY <2>1, <2>2, Zenon
<1> QED
  BY <1>1, <1>2, <1>4, <1>5 DEF TypeOK, bounds

\* The other calls of Reconcile, and those that fail, keep the types.
LEMMA TypeCalls ==
  ASSUME TypeOK, GetEndpoint \/ ListApps \/ CallFails
  PROVE  TypeOK'
<1>1. CASE GetEndpoint
  <2>1. Head(log) \in Endpoint /\ (Len(log) > 1) \in BOOLEAN
    BY LogEnds
  <2>2. stale' \in BOOLEAN
    BY <1>1, <2>1, Zenon DEF GetEndpoint, TypeOK, running
  <2>3. obj' \in Endpoint /\ refs' = refs
        /\ pc' \in {"idle", "addFinalizer", "list", "route", "status", "deleteRoute",
                    "removeFinalizer"}
    BY <1>1, <2>1 DEF GetEndpoint, TypeOK, running, FirstCall
  <2>4. queued' = FALSE /\ UNCHANGED <<logs, notes, behind, bounds>>
    BY <1>1 DEF GetEndpoint
  <2> QED
    BY <2>2, <2>3, <2>4 DEF TypeOK, logs, bounds
<1>2. CASE ListApps
  BY <1>2 DEF ListApps, TypeOK, logs, bounds, Services
<1>3. CASE CallFails
  <2>1. UNCHANGED <<logs, notes, behind, changes>> /\ Finish(TRUE)
    BY <1>3 DEF CallFails
  <2>2. /\ pc' \in {"idle", "status", "removeFinalizer"} /\ queued' \in BOOLEAN
        /\ obj' \in Endpoint /\ stale' \in BOOLEAN /\ refs' \subseteq Services
    BY <2>1, Returns
  <2>3. faults' \in 0 .. MaxFaults
    BY <1>3, EndpointAssumption DEF CallFails, Fault, TypeOK
  <2> QED
    BY <2>1, <2>2, <2>3 DEF TypeOK, logs
<1> QED
  BY <1>1, <1>2, <1>3

\* The caches keep the types.
LEMMA TypeCaches ==
  ASSUME TypeOK,
         \/ Notify \/ WatchEndpoint \/ WatchRoute \/ Restart \/ UNCHANGED vars
         \/ \E a \in Apps : WatchApp(a)
  PROVE  TypeOK'
<1> DEFINE Note == [app : Apps, old : AppStates, new : AppStates]
<1>1. CASE UNCHANGED vars
  BY <1>1 DEF vars, logs, running, bounds, TypeOK
<1>2. CASE Notify
  <2>1. /\ UNCHANGED <<logs, running, behind, bounds>> /\ notes # <<>> /\ notes' = Tail(notes)
        /\ queued' = (queued \/ FilterApp(Head(notes).app, Head(notes).old, Head(notes).new))
    BY <1>2 DEF Notify
  <2>2. notes' \in Seq(Note)
    BY <2>1 DEF TypeOK
  <2>3. FilterApp(Head(notes).app, Head(notes).old, Head(notes).new) \in BOOLEAN
    BY Zenon DEF FilterApp
  <2>4. queued' \in BOOLEAN
    BY <2>1, <2>3, Zenon DEF TypeOK
  <2> QED
    BY <2>1, <2>2, <2>4 DEF TypeOK, logs, running, bounds
<1>3. CASE WatchEndpoint
  <2>1. log' \in Seq(Endpoint) /\ Len(log') \in 1 .. MaxLag + 1
    BY <1>3, LogCached DEF WatchEndpoint
  <2> QED
    BY <1>3, <2>1 DEF WatchEndpoint, TypeOK, running, bounds
<1>4. CASE WatchRoute
  <2>1. routeLog' \in Seq(Route) /\ Len(routeLog') \in 1 .. MaxLag + 1
    BY <1>4, Watched DEF WatchRoute, RouteBehind, TypeOK
  <2> QED
    BY <1>4, <2>1 DEF WatchRoute, TypeOK, running, bounds
<1>5. CASE Restart
  <2>1. log' \in Seq(Endpoint) /\ Len(log') \in 1 .. MaxLag + 1
    BY <1>5, LogCached DEF Restart
  <2>2. routeLog' \in Seq(Route) /\ Len(routeLog') \in 1 .. MaxLag + 1
    BY <1>5, Restarted DEF Restart, TypeOK
  <2>3. \A a \in Apps : <<Last(appLog[a])>> \in Seq(AppStates) /\ Len(<<Last(appLog[a])>>) \in 1 .. MaxLag + 1
    BY Restarted DEF TypeOK
  <2>4. /\ appLog' \in [Apps -> Seq(AppStates)]
        /\ \A a \in Apps : Len(appLog'[a]) \in 1 .. MaxLag + 1
    BY <1>5, <2>3 DEF Restart
  <2>5. obj' \in Endpoint
    BY <1>5 DEF Restart, NewEndpoint, Endpoint
  <2>6. faults' \in 0 .. MaxFaults
    BY <1>5, EndpointAssumption DEF Restart, Fault, TypeOK
  <2>7. notes' \in Seq(Note)
    BY <1>5 DEF Restart
  <2> QED
    BY <1>5, <2>1, <2>2, <2>4, <2>5, <2>6, <2>7 DEF Restart, TypeOK
<1>6. ASSUME NEW a \in Apps, WatchApp(a) PROVE TypeOK'
  <2>1. /\ appLog[a] \in Seq(AppStates) /\ Len(appLog[a]) \in 1 .. MaxLag + 1
        /\ Len(appLog[a]) > 1 /\ appLog' = [appLog EXCEPT ![a] = Tail(@)]
    BY <1>6 DEF WatchApp, TypeOK
  <2>2. Tail(appLog[a]) \in Seq(AppStates) /\ Len(Tail(appLog[a])) \in 1 .. MaxLag + 1
    BY <2>1, Watched
  <2>3. /\ appLog' \in [Apps -> Seq(AppStates)]
        /\ \A b \in Apps : Len(appLog'[b]) \in 1 .. MaxLag + 1
    BY <2>1, <2>2 DEF TypeOK
  <2>4. appLog[a][1] \in AppStates /\ appLog[a][2] \in AppStates
    BY <2>1
  <2>5. notes' \in Seq(Note)
    BY <1>6, <2>4 DEF WatchApp, TypeOK
  <2> QED
    BY <1>6, <2>3, <2>5 DEF WatchApp, TypeOK, running, bounds
<1> QED
  BY <1>1, <1>2, <1>3, <1>4, <1>5, <1>6

\* The user and the applications keep the types.
LEMMA TypeOthers ==
  ASSUME TypeOK, DeleteEndpoint \/ \E a \in Apps : AppChanges(a)
  PROVE  TypeOK'
<1>1. CASE DeleteEndpoint
  <2>1. [Last(log) EXCEPT !.deleting = TRUE, !.gone = ~Last(log).finalizer] \in Endpoint
    <3>1. Last(log) \in Endpoint /\ (~Last(log).finalizer) \in BOOLEAN
      BY LogEnds DEF Latest, Endpoint
    <3> QED
      BY <3>1, CopyTypes
  <2>2. log' \in Seq(Endpoint) /\ Len(log') \in 1 .. MaxLag + 1
    BY <1>1, <2>1, LogStored DEF DeleteEndpoint
  <2>3. stale' \in BOOLEAN
    BY <1>1, Zenon DEF DeleteEndpoint
  <2> QED
    BY <1>1, <2>2, <2>3 DEF DeleteEndpoint, TypeOK, bounds
<1>2. ASSUME NEW a \in Apps, AppChanges(a) PROVE TypeOK'
  <2>1. PICK s \in AppStates : appLog' = [appLog EXCEPT ![a] = Append(@, s)]
    BY <1>2 DEF AppChanges
  <2>2. appLog[a] \in Seq(AppStates) /\ Len(appLog[a]) \in 1 .. MaxLag + 1
    BY DEF TypeOK
  <2>3. Append(appLog[a], s) \in Seq(AppStates) /\ Len(Append(appLog[a], s)) \in 1 .. MaxLag + 1
    BY <1>2, <2>2, Stored DEF AppChanges
  <2>4. /\ appLog' \in [Apps -> Seq(AppStates)]
        /\ \A b \in Apps : Len(appLog'[b]) \in 1 .. MaxLag + 1
    BY <2>1, <2>3 DEF TypeOK
  <2>5. changes' \in 0 .. MaxChanges
    BY <1>2, EndpointAssumption DEF AppChanges, TypeOK
  <2> QED
    BY <1>2, <2>4, <2>5 DEF AppChanges, TypeOK, running
<1> QED
  BY <1>1, <1>2

-----------------------------------------------------------------------------
\* A Reconcile that ends without having written anything.
LEMMA IdleStep ==
  ASSUME EndInv, pc' = "idle", UNCHANGED <<log, routeLog, behind>>
  PROVE  CopyInv' /\ OwnedInv'
<1>1. Latest' = Latest /\ Versions' = Versions
  BY DEF Latest, Versions
<1> QED
  BY <1>1 DEF EndInv, CopyInv, OwnedInv, Creating, Removing

\* Reconcile starts with a version of the cache, and lists the applications.
LEMMA GetStep ==
  ASSUME EndInv, GetEndpoint \/ ListApps
  PROVE  CopyInv' /\ OwnedInv'
<1>1. UNCHANGED <<log, routeLog, behind>> /\ Latest' = Latest /\ Versions' = Versions
  BY DEF GetEndpoint, ListApps, logs, Latest, Versions
<1>2. CASE ListApps
  <2>1. pc = "list" /\ pc' = "route" /\ UNCHANGED <<obj, stale>>
    BY <1>2 DEF ListApps
  <2>2. CopyInv'
    BY <1>1, <2>1 DEF EndInv, CopyInv, Creating, Removing, Creates
  <2>3. OwnedInv'
    BY <1>1, <2>1 DEF EndInv, OwnedInv, Creating
  <2> QED
    BY <2>2, <2>3
<1>3. CASE GetEndpoint /\ Head(log).gone
  <2>1. pc' = "idle"
    BY <1>3 DEF GetEndpoint, running
  <2> QED
    BY <1>1, <2>1, IdleStep
<1>4. CASE GetEndpoint /\ ~Head(log).gone
  <2>1. /\ Head(log) \in Versions /\ Head(log) \in Endpoint /\ Latest \in Endpoint
        /\ ~(Len(log) > 1) => Len(log) = 1 /\ Head(log) = Latest
    BY LogEnds DEF EndInv
  <2>2. /\ pc' = FirstCall(Head(log)) /\ obj' = Head(log)
        /\ ~stale' => Len(log) = 1 /\ Head(log) = Latest
    <3>1. pc' = FirstCall(Head(log)) /\ obj' = Head(log) /\ stale' = (Len(log) > 1)
      BY <1>4 DEF GetEndpoint
    <3>2. ~stale' => ~(Len(log) > 1)
      BY <3>1, Zenon
    <3> QED
      BY <2>1, <3>1, <3>2
  <2>3. /\ pc' # "removeFinalizer" /\ pc' # "idle"
        /\ pc' \in Creating => Creates(obj')
        /\ pc' \in Removing => obj'.deleting
    BY <1>4, <2>2 DEF FirstCall, Creating, Removing, Creates
  <2>4. CopyInv'
    BY <1>1, <1>4, <2>1, <2>2, <2>3 DEF CopyInv, Creates
  <2>5. ~Latest.finalizer => pc' \notin Creating
    BY <2>1, <2>2, <2>3 DEF EndInv, OwnedInv
  <2>6. OwnedInv'
    BY <1>1, <2>3, <2>5 DEF EndInv, OwnedInv
  <2> QED
    BY <2>4, <2>6
<1> QED
  BY <1>2, <1>3, <1>4

\* A version is stored that Reconcile has made from the latest one, or by the
\* user: it is not gone, or it goes without its finalizer.
LEMMA StoreStep ==
  ASSUME EndInv, NEW e \in Endpoint, HasRoom(log), log' = Append(log, e) \/ log' = Store(log, e),
         pc' = "idle", UNCHANGED <<routeLog, behind>>,
         ~Latest.gone,
         \/ ~e.gone /\ (e.finalizer \/ ~Latest.finalizer)
         \/ /\ e.gone /\ ~e.finalizer
            /\ Latest.finalizer => /\ Last(routeLog).exists => behind
                                   /\ \A v \in Versions : ~Creates(v)
  PROVE  CopyInv' /\ OwnedInv'
<1>1. Latest' = e /\ Versions' \subseteq Versions \cup {e}
  BY LogStored DEF EndInv
<1>2. CopyInv'
  BY DEF CopyInv, Creating, Removing
<1>3. OwnedInv'
  BY <1>1 DEF EndInv, OwnedInv, Creates, Creating
<1> QED
  BY <1>2, <1>3

\* The finalizer is added, and the status is written.
LEMMA UpdateStep ==
  ASSUME EndInv, AddFinalizer \/ UpdateStatus
  PROVE  CopyInv' /\ OwnedInv'
<1>1. UNCHANGED <<routeLog, behind>> /\ pc' = "idle" /\ pc # "idle"
  BY DEF AddFinalizer, UpdateStatus, Finish
<1>2. CASE log' = log
  BY <1>1, <1>2, IdleStep
<1>3. CASE log' # log
  <2>1. ~stale /\ HasRoom(log)
    BY <1>3 DEF AddFinalizer, UpdateStatus
  <2>2. obj \in Endpoint /\ ~obj.gone /\ ~Latest.gone /\ obj.finalizer = Latest.finalizer
    BY <1>1, <2>1 DEF EndInv, TypeOK, CopyInv
  <2>3. PICK e \in Endpoint : /\ log' = Store(log, e) /\ ~e.gone
                              /\ e.finalizer \/ ~Latest.finalizer
    <3>1. CASE AddFinalizer
      <4> DEFINE e == [obj EXCEPT !.finalizer = TRUE]
      <4>1. e \in Endpoint /\ ~e.gone /\ e.finalizer
        BY <2>2 DEF Endpoint
      <4> QED
        BY <2>1, <3>1, <4>1 DEF AddFinalizer
    <3>2. CASE UpdateStatus
      <4> DEFINE e == [obj EXCEPT !.routes = refs]
      <4>1. e \in Endpoint
        BY <2>2, CopyTypes DEF EndInv, TypeOK
      <4>2. ~e.gone /\ e.finalizer = Latest.finalizer
        BY <2>2 DEF Endpoint
      <4>3. log' = Store(log, e)
        BY <2>1, <3>2 DEF UpdateStatus
      <4> QED
        BY <4>1, <4>2, <4>3
    <3> QED
      BY <3>1, <3>2
  <2> QED
    BY <1>1, <2>1, <2>2, <2>3, StoreStep
<1> QED
  BY <1>2, <1>3

\* The route is created or patched: the endpoint has its finalizer or is gone
\* with handleDelete having read an old route.
LEMMA RouteStep ==
  ASSUME EndInv, CreateRoute \/ PatchRoute
  PROVE  CopyInv' /\ OwnedInv'
<1>1. UNCHANGED <<log, behind>> /\ Latest' = Latest /\ Versions' = Versions /\ pc = "route"
  BY DEF CreateRoute, PatchRoute, Latest, Versions
<1>2. CASE pc' = "idle" /\ routeLog' = routeLog
  BY <1>1, <1>2, IdleStep
<1>3. CASE pc' = "status" /\ UNCHANGED <<obj, stale>>
  <2>1. CopyInv'
    BY <1>1, <1>3 DEF EndInv, CopyInv, Creating, Removing, Creates
  <2>2. Latest.finalizer
    BY <1>1 DEF EndInv, OwnedInv, Creating
  <2>3. OwnedInv'
    BY <1>1, <1>3, <2>2 DEF EndInv, OwnedInv
  <2> QED
    BY <2>1, <2>3
<1> QED
  BY <1>2, <1>3 DEF CreateRoute, PatchRoute, Goto, Finish

\* handleDelete deletes the route that the cache has.
LEMMA DeleteStep ==
  ASSUME EndInv, DeleteRoute
  PROVE  CopyInv' /\ OwnedInv'
<1>1. /\ UNCHANGED log /\ Latest' = Latest /\ Versions' = Versions /\ pc = "deleteRoute"
      /\ behind => behind'
      /\ ~behind' => ~(Len(routeLog) > 1)
  <2>1. UNCHANGED log /\ pc = "deleteRoute" /\ behind' = (behind \/ RouteBehind)
    BY DEF DeleteRoute
  <2>2. /\ behind => behind'
        /\ ~behind' => ~(Len(routeLog) > 1)
    BY <2>1, Zenon DEF RouteBehind
  <2> QED
    BY <2>1, <2>2 DEF Latest, Versions
<1>2. /\ \/ pc' = "idle"
         \/ pc' = "removeFinalizer" /\ UNCHANGED <<obj, stale>>
      /\ Last(routeLog').exists => Last(routeLog).exists
      /\ pc' = "removeFinalizer" /\ ~behind' => ~Last(routeLog').exists
  <2>1. routeLog \in Seq(Route) /\ Len(routeLog) \in 1 .. MaxLag + 1
    BY DEF EndInv, TypeOK
  <2>2. CASE routeLog' = routeLog
    <3>1. ~(Len(routeLog) > 1) => Head(routeLog) = Last(routeLog)
      BY <2>1, Ends
    <3>2. \/ pc' = "idle"
          \/ /\ pc' = "removeFinalizer" /\ UNCHANGED <<obj, stale>>
             /\ ~Head(routeLog).exists \/ Last(routeLog') = NoRoute
      <4>1. NoRoute \in Route
        BY DEF NoRoute, Route
      <4>2. HasRoom(routeLog) /\ routeLog' = Store(routeLog, NoRoute) => Last(routeLog') = NoRoute
        BY <2>1, <4>1, Stored
      <4> QED
        BY <4>2 DEF DeleteRoute, Goto, Finish
    <3>3. ~NoRoute.exists
      BY DEF NoRoute
    <3> QED
      BY <1>1, <2>2, <3>1, <3>2, <3>3
  <2>3. CASE routeLog' # routeLog
    <3>1. /\ HasRoom(routeLog) /\ routeLog' = Store(routeLog, NoRoute)
          /\ pc' = "removeFinalizer" /\ UNCHANGED <<obj, stale>>
      BY <2>3 DEF DeleteRoute, Goto
    <3>2. NoRoute \in Route /\ ~NoRoute.exists
      BY DEF NoRoute, Route
    <3>3. Last(routeLog') = NoRoute
      BY <2>1, <3>1, <3>2, Stored
    <3> QED
      BY <3>1, <3>2, <3>3
  <2> QED
    BY <2>2, <2>3
<1>3. CopyInv'
  BY <1>1, <1>2 DEF EndInv, CopyInv, Creating, Removing
<1>4. OwnedInv'
  BY <1>1, <1>2 DEF EndInv, OwnedInv, Creating
<1> QED
  BY <1>3, <1>4

\* handleDelete lets the endpoint go.
LEMMA RemoveStep ==
  ASSUME EndInv, RemoveFinalizer
  PROVE  CopyInv' /\ OwnedInv'
<1>1. UNCHANGED <<routeLog, behind>> /\ pc' = "idle" /\ pc = "removeFinalizer"
  BY DEF RemoveFinalizer, Finish
<1>2. CASE stale
  BY <1>1, <1>2, IdleStep DEF RemoveFinalizer
<1>3. CASE ~stale
  <2> DEFINE e == [obj EXCEPT !.finalizer = FALSE, !.gone = TRUE]
  <2>1. log' = Store(log, e) /\ HasRoom(log)
    BY <1>3 DEF RemoveFinalizer
  <2>2. e \in Endpoint /\ e.gone /\ ~e.finalizer
    BY DEF EndInv, TypeOK, Endpoint
  <2>3. ~Latest.gone /\ Latest.deleting /\ Len(log) = 1
    BY <1>1, <1>3 DEF EndInv, CopyInv, Removing
  <2>4. \A v \in Versions : ~Creates(v)
    BY <2>3 DEF Versions, Latest, Last, Creates
  <2>5. Last(routeLog).exists => behind
    BY <1>1 DEF EndInv, OwnedInv, TypeOK
  <2> QED
    BY <1>1, <2>1, <2>2, <2>3, <2>4, <2>5, StoreStep
<1> QED
  BY <1>2, <1>3

\* Watch events, the filter and restarts change no object.
LEMMA CacheStep ==
  ASSUME EndInv,
         \/ Notify \/ WatchEndpoint \/ WatchRoute \/ Restart \/ UNCHANGED vars
         \/ \E a \in Apps : WatchApp(a) \/ AppChanges(a)
  PROVE  CopyInv' /\ OwnedInv'
<1>1. /\ UNCHANGED behind
      /\ UNCHANGED <<pc, obj, stale>> \/ pc' = "idle"
      /\ \/ Len(log) > 1 /\ log' = Tail(log)
         \/ log' = <<Last(log)>> /\ pc' = "idle"
         \/ log' = log
      /\ \/ Len(routeLog) > 1 /\ routeLog' = Tail(routeLog)
         \/ routeLog' = <<Last(routeLog)>>
         \/ routeLog' = routeLog
  BY DEF Notify, WatchEndpoint, WatchRoute, Restart, vars, WatchApp, AppChanges, logs,
     running, RouteBehind
<1>2. Latest' = Latest /\ Versions' \subseteq Versions
  BY <1>1, LogCached DEF EndInv
<1>3. Last(routeLog') = Last(routeLog)
  <2>1. routeLog \in Seq(Route) /\ Len(routeLog) \in 1 .. MaxLag + 1
    BY DEF EndInv, TypeOK
  <2> QED
    BY <1>1, <2>1, Watched, Restarted
<1>4. CopyInv'
  <2>1. CASE pc' = "idle"
    BY <2>1 DEF CopyInv, Creating, Removing
  <2>2. CASE UNCHANGED <<pc, obj, stale>> /\ log' = log
    BY <1>2, <2>2 DEF EndInv, CopyInv, Creates
  <2>3. CASE UNCHANGED <<pc, obj, stale>> /\ Len(log) > 1
    <3>0. Len(log) \in Nat
      BY DEF EndInv, TypeOK
    <3>1. Len(log) # 1
      BY <2>3, <3>0, Lengths
    <3>2. pc \in Removing => stale
      BY <3>1 DEF EndInv, CopyInv, TypeOK
    <3> QED
      BY <1>2, <2>3, <3>2 DEF EndInv, CopyInv, Creates
  <2> QED
    BY <1>1, <2>1, <2>2, <2>3
<1>5. OwnedInv'
  BY <1>1, <1>2, <1>3 DEF EndInv, OwnedInv, Creating
<1> QED
  BY <1>4, <1>5

\* The user deletes the endpoint.
LEMMA UserStep ==
  ASSUME EndInv, DeleteEndpoint
  PROVE  CopyInv' /\ OwnedInv'
<1> DEFINE e == [Last(log) EXCEPT !.deleting = TRUE, !.gone = ~Last(log).finalizer]
<1>1. /\ log' = Append(log, e) /\ HasRoom(log) /\ ~Latest.gone
      /\ UNCHANGED <<routeLog, pc, obj, behind>>
  BY DEF DeleteEndpoint, Latest
<1>2. pc # "idle" => stale'
  BY DEF DeleteEndpoint
<1>3. e \in Endpoint /\ e.deleting /\ e.finalizer = Latest.finalizer /\ e.gone = ~e.finalizer
  <2>1. Last(log) \in Endpoint /\ Latest = Last(log)
    BY LogEnds DEF EndInv, Latest
  <2>2. Last(log).finalizer \in BOOLEAN
    BY <2>1 DEF Endpoint
  <2>3. (~Last(log).finalizer) \in BOOLEAN
    BY <2>2, Zenon
  <2>4. e \in Endpoint
    BY <2>1, <2>3, CopyTypes
  <2> QED
    BY <2>1, <2>4 DEF Endpoint
<1> HIDE DEF e
<1>4. Latest' = e /\ Versions' \subseteq Versions \cup {e}
  BY <1>1, <1>3, LogStored DEF EndInv
<1>5. CopyInv'
  BY <1>1, <1>2 DEF EndInv, CopyInv, Creates, Creating, Removing
<1>6. OwnedInv'
  BY <1>1, <1>3, <1>4 DEF EndInv, OwnedInv, Creates
<1> QED
  BY <1>5, <1>6

-----------------------------------------------------------------------------
\* The inductive invariant holds in every state.
LEMMA Inductive == Spec => []EndInv
<1>1. Init => EndInv
  <2> SUFFICES ASSUME Init PROVE EndInv
    OBVIOUS
  <2>1. /\ NewEndpoint \in Endpoint /\ NoRoute \in Route /\ ~NoRoute.exists
        /\ ~NewEndpoint.gone /\ ~NewEndpoint.finalizer
    BY DEF NewEndpoint, NoRoute, Endpoint, Route
  <2>2. /\ log \in Seq(Endpoint) /\ Len(log) = 1 /\ Latest = NewEndpoint
        /\ Versions = {NewEndpoint}
        /\ routeLog \in Seq(Route) /\ Len(routeLog) = 1 /\ Last(routeLog) = NoRoute
    BY <2>1 DEF Init, Latest, Last, Versions
  <2>3. /\ appLog \in [Apps -> Seq(AppStates)]
        /\ \A a \in Apps : Len(appLog[a]) = 1
    BY DEF Init, AppStates
  <2>4. 1 \in 1 .. MaxLag + 1 /\ 0 \in 0 .. MaxFaults /\ 0 \in 0 .. MaxChanges
    BY EndpointAssumption
  <2>5. TypeOK
    <3>1. notes \in Seq([app : Apps, old : AppStates, new : AppStates])
      BY DEF Init
    <3>2. /\ faults \in 0 .. MaxFaults /\ changes \in 0 .. MaxChanges
          /\ queued \in BOOLEAN /\ behind \in BOOLEAN /\ stale \in BOOLEAN
          /\ pc = "idle" /\ obj \in Endpoint /\ refs \subseteq Services
      BY <2>1, <2>4 DEF Init
    <3>3. Len(log) \in 1 .. MaxLag + 1 /\ Len(routeLog) \in 1 .. MaxLag + 1
      BY <2>2, <2>4
    <3>4. \A a \in Apps : Len(appLog[a]) \in 1 .. MaxLag + 1
      BY <2>3, <2>4
    <3> QED
      BY <2>2, <2>3, <3>1, <3>2, <3>3, <3>4 DEF TypeOK
  <2> QED
    BY <2>1, <2>2, <2>5 DEF Init, EndInv, CopyInv, OwnedInv, Creating, Removing, Creates
<1>2. EndInv /\ [Next]_vars => EndInv'
  <2> SUFFICES ASSUME EndInv, [Next]_vars PROVE EndInv'
    OBVIOUS
  <2>1. TypeOK'
    BY TypeEndpoint, TypeRoute, TypeCalls, TypeCaches, TypeOthers DEF EndInv, Next, Reconcile
  <2>2. ASSUME CallFails PROVE CopyInv' /\ OwnedInv'
    BY <2>2, IdleStep DEF CallFails, Finish, logs
  <2>3. CopyInv' /\ OwnedInv'
    BY <2>2, GetStep, UpdateStep, RouteStep, DeleteStep, RemoveStep, CacheStep, UserStep
    DEF Next, Reconcile
  <2> QED
    BY <2>1, <2>3 DEF EndInv
<1> QED
  BY <1>1, <1>2, PTL DEF Spec

\* The variables keep their types.
THEOREM TypeCorrect == Spec => []TypeOK
BY Inductive, PTL DEF EndInv

\* An endpoint that is gone leaves no route, however old the versions of the
\* endpoint that Reconcile has worked on, if handleDelete has not read an old route.
THEOREM NoRouteLeft == Spec => []NoOrphanRoute
<1>1. EndInv => NoOrphanRoute
  BY DEF EndInv, TypeOK, OwnedInv, NoOrphanRoute, Latest
<1> QED
  BY Inductive, <1>1, PTL

\* Only an endpoint with the finalizer, or one that had it, gets a route.
THEOREM FinalizerFirst == Spec => []RouteHasFinalizer
<1>1. EndInv => RouteHasFinalizer
  BY DEF EndInv, OwnedInv, RouteHasFinalizer, Latest
<1> QED
  BY Inductive, <1>1, PTL

-----------------------------------------------------------------------------
\* The endpoint is to be looked at again: it is queued, or a watch event that will
\* queue it is on its way.
Awaited == queued \/ Len(log) > 1

\* Nothing is left to do: no Reconcile runs or waits, and filterApp has seen every
\* change of the applications.
Quiet ==
  /\ pc = "idle" /\ ~Awaited
  /\ notes = <<>> /\ \A a \in Apps : Len(appLog[a]) = 1

\* The applications of which filterApp has seen what the cache has, and those that
\* are ready by the cache.
Seen == {a \in Apps : \A i \in 1 .. Len(notes) : notes[i].app # a}
Up == {a \in Apps : Head(appLog[a]) = "ready"}

\* What waits for filterApp are changes, the last one of an application to what the
\* cache has.
NotesInv ==
  /\ \A a \in Apps : \A i \in 1 .. Len(appLog[a]) - 1 : appLog[a][i] # appLog[a][i + 1]
  /\ \A i \in 1 .. Len(notes) :
       /\ notes[i].old # notes[i].new
       /\ (\A j \in i + 1 .. Len(notes) : notes[j].app # notes[i].app) =>
            notes[i].new = Head(appLog[notes[i].app])

\* Unless the endpoint is awaited, the status of an idle controller and the route
\* agree, and are right about every application whose changes filterApp has seen.
\* A Reconcile that is wrong about one is about to change the status.
AwaitInv ==
  /\ stale => Awaited /\ pc # "idle"
  /\ pc # "idle" /\ ~stale => obj = Latest
  /\ Latest.gone => Latest.deleting
  /\ pc \in {"route", "status"} => Static \subseteq refs
  /\ pc = "status" => Last(routeLog) = [exists |-> TRUE, backends |-> refs]
  /\ ~Awaited =>
       /\ pc = "idle" /\ Latest.deleting => Latest.gone
       /\ pc = "idle" /\ ~Latest.deleting =>
            /\ Static \subseteq Latest.routes
            /\ Last(routeLog) = [exists |-> TRUE, backends |-> Latest.routes]
            /\ \A a \in Seen \ Static : a \in Latest.routes <=> a \in Up
       /\ pc \in {"route", "status"} =>
            \A a \in Seen \ Static : \/ a \in refs <=> a \in Up
                                     \/ ~(a \in refs <=> a \in Latest.routes)

\* The first version of a log stays the first when one is appended; the second is
\* the first of the tail.
LEMMA Heads ==
  ASSUME NEW S, NEW s \in Seq(S), NEW v \in S, Len(s) >= 1
  PROVE  /\ Head(Append(s, v)) = Head(s)
         /\ Len(s) > 1 => Head(Tail(s)) = s[2] /\ s[2] \in S
<1>1. Append(s, v) \in Seq(S) /\ Append(s, v)[1] = s[1] /\ Append(s, v) # <<>> /\ s # <<>>
  OBVIOUS
<1>2. ASSUME Len(s) > 1
      PROVE  Tail(s) \in Seq(S) /\ Tail(s) # <<>> /\ Tail(s)[1] = s[2] /\ s[2] \in S
  <2>1. /\ Tail(s) \in Seq(S) /\ Len(Tail(s)) = Len(s) - 1 /\ Len(s) \in Nat
        /\ \A i \in 1 .. Len(s) - 1 : Tail(s)[i] = s[i + 1]
    BY <1>2
  <2>2. 1 \in 1 .. Len(s) - 1 /\ 2 \in 1 .. Len(s) /\ 1 + 1 = 2
    BY <1>2, <2>1
  <2>3. Tail(s) # <<>>
    <3>1. Len(Tail(s)) # 0
      BY <1>2, <2>1
    <3>2. Len(<<>>) = 0
      OBVIOUS
    <3> QED
      BY <3>1, <3>2, Zenon
  <2> QED
    BY <2>1, <2>2, <2>3
<1> QED
  BY <1>1, <1>2

\* The changes of an application: one more version, a watch event, filterApp, and
\* a restart keep what is known of those that wait for filterApp.
LEMMA NotesStep ==
  ASSUME TypeOK, NotesInv, [Next]_vars
  PROVE  NotesInv'
<1> DEFINE Note == [app : Apps, old : AppStates, new : AppStates]
<1>0. /\ appLog \in [Apps -> Seq(AppStates)] /\ notes \in Seq(Note)
      /\ Len(notes) \in Nat
      /\ \A a \in Apps : /\ appLog[a] \in Seq(AppStates) /\ Len(appLog[a]) \in Nat
                         /\ Len(appLog[a]) >= 1
      /\ \A i \in 1 .. Len(notes) : notes[i].app \in Apps
  <2>1. appLog \in [Apps -> Seq(AppStates)] /\ notes \in Seq(Note) /\ Len(notes) \in Nat
    BY DEF TypeOK
  <2>2. \A a \in Apps : /\ appLog[a] \in Seq(AppStates) /\ Len(appLog[a]) \in Nat
                         /\ Len(appLog[a]) >= 1
    BY <2>1, EndpointAssumption DEF TypeOK
  <2>3. \A i \in 1 .. Len(notes) : notes[i].app \in Apps
    <3>1. \A n \in Note : n.app \in Apps
      OBVIOUS
    <3> HIDE DEF Note
    <3>2. \A i \in 1 .. Len(notes) : notes[i] \in Note
      BY <2>1
    <3> QED
      BY <3>1, <3>2, Zenon
  <2> QED
    BY <2>1, <2>2, <2>3
<1> HIDE DEF Note
<1>1. CASE UNCHANGED <<appLog, notes>>
  BY <1>1 DEF NotesInv
<1>2. ASSUME NEW a \in Apps, AppChanges(a)
      PROVE  NotesInv'
  <2>1. /\ notes' = notes
        /\ \E s \in AppStates : /\ s # Last(appLog[a])
                                /\ appLog' = [appLog EXCEPT ![a] = Append(@, s)]
    BY <1>2 DEF AppChanges
  <2>2. PICK s \in AppStates : /\ s # Last(appLog[a])
                               /\ appLog' = [appLog EXCEPT ![a] = Append(@, s)]
    BY <2>1
  <2>3. /\ \A b \in Apps : b # a => appLog'[b] = appLog[b]
        /\ appLog'[a] = Append(appLog[a], s)
    BY <1>0, <2>2
  <2>4. \A b \in Apps : Head(appLog'[b]) = Head(appLog[b])
    BY <1>0, <2>3, Heads
  <2>5. ASSUME NEW i \in 1 .. Len(appLog'[a]) - 1
        PROVE  appLog'[a][i] # appLog'[a][i + 1]
    <3>1. /\ Len(appLog'[a]) = Len(appLog[a]) + 1
          /\ appLog'[a][Len(appLog[a]) + 1] = s
          /\ \A j \in 1 .. Len(appLog[a]) : appLog'[a][j] = appLog[a][j]
      BY <1>0, <2>3
    <3>2. CASE i = Len(appLog[a])
      BY <1>0, <2>2, <3>1, <3>2 DEF Last
    <3>3. CASE i # Len(appLog[a])
      <4>1. i \in 1 .. Len(appLog[a]) - 1 /\ i \in 1 .. Len(appLog[a])
            /\ i + 1 \in 1 .. Len(appLog[a])
        BY <1>0, <3>1, <3>3
      <4> QED
        BY <3>1, <4>1 DEF NotesInv
    <3> QED
      BY <3>2, <3>3
  <2>6. \A b \in Apps : \A i \in 1 .. Len(appLog'[b]) - 1 : appLog'[b][i] # appLog'[b][i + 1]
    <3> SUFFICES ASSUME NEW b \in Apps, NEW i \in 1 .. Len(appLog'[b]) - 1
                 PROVE  appLog'[b][i] # appLog'[b][i + 1]
      OBVIOUS
    <3>1. CASE b = a
      BY <2>5, <3>1
    <3>2. CASE b # a
      BY <2>3, <3>2 DEF NotesInv
    <3> QED
      BY <3>1, <3>2
  <2>7. \A i \in 1 .. Len(notes') :
          /\ notes'[i].old # notes'[i].new
          /\ (\A j \in i + 1 .. Len(notes') : notes'[j].app # notes'[i].app) =>
               notes'[i].new = Head(appLog'[notes'[i].app])
    BY <1>0, <2>1, <2>4 DEF NotesInv
  <2> QED
    BY <2>6, <2>7 DEF NotesInv
<1>3. ASSUME NEW a \in Apps, WatchApp(a)
      PROVE  NotesInv'
  <2> DEFINE n == [app |-> a, old |-> appLog[a][1], new |-> appLog[a][2]]
  <2>1. /\ Len(appLog[a]) > 1 /\ appLog' = [appLog EXCEPT ![a] = Tail(@)]
        /\ notes' = Append(notes, n)
    BY <1>3 DEF WatchApp
  <2>2. /\ \A b \in Apps : b # a => appLog'[b] = appLog[b]
        /\ appLog'[a] = Tail(appLog[a])
    BY <1>0, <2>1
  <2>3. /\ n \in Note /\ n.app = a /\ n.new = Head(appLog'[a]) /\ n.old # n.new
    <3>1. appLog[a][1] \in AppStates /\ appLog[a][2] \in AppStates /\ 1 \in 1 .. Len(appLog[a]) - 1
      BY <1>0, <2>1
    <3>2. appLog[a][1] # appLog[a][1 + 1]
      BY <3>1 DEF NotesInv
    <3>3. Head(appLog'[a]) = appLog[a][2]
      BY <1>0, <2>1, <2>2, <3>1, Heads
    <3> QED
      BY <3>1, <3>2, <3>3 DEF Note
  <2> HIDE DEF n
  <2>4. /\ Len(notes') = Len(notes) + 1 /\ notes'[Len(notes) + 1] = n
        /\ \A i \in 1 .. Len(notes) : notes'[i] = notes[i]
    BY <1>0, <2>1, <2>3
  <2>5. ASSUME NEW b \in Apps, NEW i \in 1 .. Len(appLog'[b]) - 1
        PROVE  appLog'[b][i] # appLog'[b][i + 1]
    <3>1. CASE b # a
      BY <2>2, <2>5, <3>1 DEF NotesInv
    <3>2. CASE b = a
      <4>1. /\ Len(appLog'[a]) = Len(appLog[a]) - 1
            /\ \A j \in 1 .. Len(appLog[a]) - 1 : appLog'[a][j] = appLog[a][j + 1]
        BY <1>0, <2>1, <2>2
      <4>2. /\ i \in 1 .. Len(appLog[a]) - 1 /\ i + 1 \in 1 .. Len(appLog[a]) - 1
        BY <1>0, <2>5, <3>2, <4>1
      <4>3. appLog[a][i + 1] # appLog[a][(i + 1) + 1]
        BY <4>2 DEF NotesInv
      <4> QED
        BY <3>2, <4>1, <4>2, <4>3
    <3> QED
      BY <3>1, <3>2
  <2>6. ASSUME NEW i \in 1 .. Len(notes')
        PROVE  /\ notes'[i].old # notes'[i].new
               /\ (\A j \in i + 1 .. Len(notes') : notes'[j].app # notes'[i].app) =>
                    notes'[i].new = Head(appLog'[notes'[i].app])
    <3>1. CASE i = Len(notes) + 1
      BY <2>3, <2>4, <3>1
    <3>2. CASE i # Len(notes) + 1
      <4>1. i \in 1 .. Len(notes) /\ Len(notes) + 1 \in i + 1 .. Len(notes')
        BY <1>0, <2>4, <2>6, <3>2
      <4>2. \A j \in i + 1 .. Len(notes) : j \in 1 .. Len(notes) /\ j \in i + 1 .. Len(notes')
        BY <1>0, <2>4, <4>1
      <4>3. notes'[i].old # notes'[i].new
        BY <2>4, <4>1 DEF NotesInv
      <4>4. ASSUME \A j \in i + 1 .. Len(notes') : notes'[j].app # notes'[i].app
            PROVE  notes'[i].new = Head(appLog'[notes'[i].app])
        <5>1. notes[i].app # a /\ notes[i].app \in Apps /\ notes'[i] = notes[i]
          BY <1>0, <2>3, <2>4, <4>1, <4>4
        <5>2. \A j \in i + 1 .. Len(notes) : notes[j].app # notes[i].app
          BY <2>4, <4>1, <4>2, <4>4
        <5>3. notes[i].new = Head(appLog[notes[i].app])
          BY <4>1, <5>2 DEF NotesInv
        <5> QED
          BY <2>2, <5>1, <5>3
      <4> QED
        BY <4>3, <4>4
    <3> QED
      BY <3>1, <3>2
  <2> QED
    BY <2>5, <2>6 DEF NotesInv
<1>4. CASE Notify
  <2>1. notes # <<>> /\ notes' = Tail(notes) /\ appLog' = appLog
    BY <1>4 DEF Notify, logs
  <2>2. /\ Len(notes') = Len(notes) - 1
        /\ \A i \in 1 .. Len(notes) - 1 : notes'[i] = notes[i + 1]
    BY <1>0, <2>1
  <2>3. ASSUME NEW i \in 1 .. Len(notes')
        PROVE  /\ notes'[i].old # notes'[i].new
               /\ (\A j \in i + 1 .. Len(notes') : notes'[j].app # notes'[i].app) =>
                    notes'[i].new = Head(appLog'[notes'[i].app])
    <3>1. i + 1 \in 1 .. Len(notes) /\ notes'[i] = notes[i + 1]
      BY <1>0, <2>2, <2>3
    <3>2. ASSUME \A j \in i + 1 .. Len(notes') : notes'[j].app # notes'[i].app
          PROVE  \A k \in (i + 1) + 1 .. Len(notes) : notes[k].app # notes[i + 1].app
      <4> SUFFICES ASSUME NEW k \in (i + 1) + 1 .. Len(notes)
                   PROVE  notes[k].app # notes[i + 1].app
        OBVIOUS
      <4>1. k - 1 \in i + 1 .. Len(notes') /\ notes'[k - 1] = notes[k]
        BY <1>0, <2>2, <2>3
      <4> QED
        BY <3>1, <3>2, <4>1
    <3> QED
      BY <2>1, <3>1, <3>2 DEF NotesInv
  <2> QED
    BY <2>1, <2>3 DEF NotesInv
<1>5. CASE Restart
  <2>1. notes' = <<>> /\ appLog' = [a \in Apps |-> <<Last(appLog[a])>>]
    BY <1>5 DEF Restart
  <2>2. Len(notes') = 0 /\ \A a \in Apps : Len(appLog'[a]) = 1
    BY <2>1
  <2> QED
    BY <2>2 DEF NotesInv
<1>6. \/ UNCHANGED <<appLog, notes>> \/ Notify \/ Restart
      \/ \E a \in Apps : WatchApp(a) \/ AppChanges(a)
  <2>1. CASE Reconcile \/ CallFails \/ WatchEndpoint \/ WatchRoute \/ DeleteEndpoint
    BY <2>1 DEF Reconcile, GetEndpoint, AddFinalizer, ListApps, CreateRoute, PatchRoute,
       UpdateStatus, DeleteRoute, RemoveFinalizer, CallFails, WatchEndpoint, WatchRoute,
       DeleteEndpoint, logs
  <2> QED
    BY <2>1 DEF Next, vars, logs
<1> QED
  BY <1>1, <1>2, <1>3, <1>4, <1>5, <1>6

\* A step after which the endpoint is awaited: of the cache, the user, or a Reconcile
\* that returns an error.
LEMMA AwaitedStep ==
  ASSUME AwaitInv, Awaited', Latest'.gone => Latest'.deleting,
         \/ /\ UNCHANGED <<pc, obj, stale, refs>> /\ Latest' = Latest
            /\ Last(routeLog)' = Last(routeLog)
         \/ UNCHANGED <<pc, obj, refs, routeLog>> /\ (stale' <=> pc # "idle")
         \/ pc' = "idle" /\ ~stale'
  PROVE  AwaitInv'
<1>1. CASE /\ UNCHANGED <<pc, obj, stale, refs>> /\ Latest' = Latest
           /\ Last(routeLog)' = Last(routeLog)
  BY <1>1 DEF AwaitInv
<1>2. CASE UNCHANGED <<pc, obj, refs, routeLog>> /\ (stale' <=> pc # "idle")
  <2>1. Last(routeLog)' = Last(routeLog)
    BY <1>2
  <2> QED
    BY <1>2, <2>1 DEF AwaitInv
<1>3. CASE pc' = "idle" /\ ~stale'
  BY <1>3 DEF AwaitInv
<1> QED
  BY <1>1, <1>2, <1>3

\* A step that changes nothing but the logs of the applications and what filterApp
\* has not seen, so that what it has seen is still what the cache has.
LEMMA SameStep ==
  ASSUME AwaitInv, UNCHANGED <<log, queued, pc, obj, stale, refs>>,
         Last(routeLog)' = Last(routeLog),
         \A a \in Seen' : a \in Seen /\ (a \in Up' <=> a \in Up)
  PROVE  AwaitInv'
<1>1. Latest' = Latest /\ (Awaited' <=> Awaited)
  BY DEF Latest, Awaited
<1>2. ASSUME ~Awaited, pc = "idle", ~Latest.deleting
      PROVE  \A a \in Seen' \ Static : a \in Latest.routes <=> a \in Up'
  BY <1>2 DEF AwaitInv
<1>3. ASSUME ~Awaited, pc \in {"route", "status"}
      PROVE  \A a \in Seen' \ Static : \/ a \in refs <=> a \in Up'
                                       \/ ~(a \in refs <=> a \in Latest.routes)
  BY <1>3 DEF AwaitInv
<1> QED
  BY <1>1, <1>2, <1>3 DEF AwaitInv

\* A stored version that differs from the latest is announced by a watch event.
LEMMA StoreAwaited ==
  ASSUME TypeOK, NEW e, log' = Append(log, e)
  PROVE  Awaited'
<1>1. Len(log') = Len(log) + 1 /\ Len(log) \in Nat /\ Len(log) >= 1
  BY EndpointAssumption DEF TypeOK
<1>2. Len(log') > 1
  BY ONLY <1>1
<1> QED
  BY <1>2 DEF Awaited

\* Changes of the applications, and what the caches see of them and of the route.
LEMMA AppsAwait ==
  ASSUME EndInv, AwaitInv,
         \/ WatchRoute \/ UNCHANGED vars
         \/ \E a \in Apps : WatchApp(a) \/ AppChanges(a)
  PROVE  AwaitInv'
<1>0. /\ TypeOK /\ appLog \in [Apps -> Seq(AppStates)]
      /\ \A a \in Apps : appLog[a] \in Seq(AppStates) /\ Len(appLog[a]) >= 1
      /\ notes \in Seq([app : Apps, old : AppStates, new : AppStates])
  BY EndpointAssumption DEF EndInv, TypeOK
<1>1. CASE WatchRoute
  <2>1. UNCHANGED <<log, queued, pc, obj, stale, refs, appLog, notes>>
    BY <1>1 DEF WatchRoute, running
  <2>2. Last(routeLog)' = Last(routeLog)
    BY <1>0, <1>1, Watched DEF WatchRoute, RouteBehind, TypeOK
  <2>3. Seen' = Seen /\ Up' = Up
    BY <2>1 DEF Seen, Up
  <2> QED
    BY <2>1, <2>2, <2>3, SameStep
<1>2. CASE UNCHANGED vars
  <2>1. UNCHANGED <<log, queued, pc, obj, stale, refs, appLog, notes, routeLog>>
    BY <1>2 DEF vars, logs, running
  <2>2. Seen' = Seen /\ Up' = Up
    BY <2>1 DEF Seen, Up
  <2> QED
    BY <2>1, <2>2, SameStep
<1>3. ASSUME NEW a \in Apps, AppChanges(a)
      PROVE  AwaitInv'
  <2>1. UNCHANGED <<log, queued, pc, obj, stale, refs, routeLog, notes>>
    BY <1>3 DEF AppChanges, running
  <2>2. \A b \in Apps : Head(appLog'[b]) = Head(appLog[b])
    BY <1>0, <1>3, Heads DEF AppChanges
  <2>3. Seen' = Seen /\ Up' = Up
    BY <2>1, <2>2 DEF Seen, Up
  <2> QED
    BY <2>1, <2>3, SameStep
<1>4. ASSUME NEW a \in Apps, WatchApp(a)
      PROVE  AwaitInv'
  <2> DEFINE n == [app |-> a, old |-> appLog[a][1], new |-> appLog[a][2]]
  <2>1. /\ UNCHANGED <<log, queued, pc, obj, stale, refs, routeLog>>
        /\ notes' = Append(notes, n) /\ Len(appLog[a]) > 1
        /\ \A b \in Apps : b # a => appLog'[b] = appLog[b]
    BY <1>0, <1>4 DEF WatchApp, running
  <2>2. n.app = a /\ n \in [app : Apps, old : AppStates, new : AppStates]
    BY <1>0, <2>1
  <2> HIDE DEF n
  <2>3. /\ Len(notes) + 1 \in 1 .. Len(notes') /\ notes'[Len(notes) + 1] = n
        /\ \A i \in 1 .. Len(notes) : i \in 1 .. Len(notes') /\ notes'[i] = notes[i]
    <3> DEFINE Note == [app : Apps, old : AppStates, new : AppStates]
    <3>1. notes \in Seq(Note) /\ n \in Note
      BY <1>0, <2>2
    <3> HIDE DEF Note
    <3> QED
      BY <2>1, <3>1
  <2>4. ASSUME NEW b \in Seen'
        PROVE  b \in Seen /\ (b \in Up' <=> b \in Up)
    <3>1. b \in Apps /\ \A i \in 1 .. Len(notes') : notes'[i].app # b
      BY <2>4 DEF Seen
    <3>2. b # a /\ \A i \in 1 .. Len(notes) : notes[i].app # b
      BY <2>2, <2>3, <3>1
    <3> QED
      BY <2>1, <3>1, <3>2 DEF Seen, Up
  <2> QED
    BY <2>1, <2>4, SameStep
<1> QED
  BY <1>1, <1>2, <1>3, <1>4

\* filterApp drops the last change of an application only if the status is right
\* about the application, or the endpoint is awaited or gone.
LEMMA FilterAppDrops ==
  ASSUME TypeOK, NotesInv, Notify, ~Awaited', ~Latest.gone, Head(notes).app \in Seen'
  PROVE  Head(notes).app \in Latest.routes <=> Head(notes).app \in Up
<1> DEFINE a == Head(notes).app  old == Head(notes).old  new == Head(notes).new
<1>1. /\ notes # <<>> /\ notes' = Tail(notes) /\ log' = log
      /\ queued' = (queued \/ FilterApp(a, old, new))
  BY DEF Notify, logs
<1>2. /\ notes \in Seq([app : Apps, old : AppStates, new : AppStates])
      /\ Len(notes) \in Nat /\ 1 \in 1 .. Len(notes) /\ Head(notes) = notes[1] /\ a \in Apps
  <2>1. /\ notes \in Seq([app : Apps, old : AppStates, new : AppStates])
        /\ Len(notes) \in Nat /\ notes # <<>>
    BY <1>1 DEF TypeOK
  <2>2. 1 \in 1 .. Len(notes) /\ Head(notes) = notes[1]
    BY <2>1
  <2>3. a \in Apps
    <3> DEFINE Note == [app : Apps, old : AppStates, new : AppStates]
    <3>1. \A n \in Note : n.app \in Apps
      OBVIOUS
    <3>2. notes \in Seq(Note)
      BY <2>1
    <3> HIDE DEF Note
    <3>3. notes[1] \in Note
      BY <2>2, <3>2
    <3> QED
      BY <2>2, <3>1, <3>3
  <2> QED
    BY <2>1, <2>2, <2>3
<1>3. \A j \in 2 .. Len(notes) : notes[j].app # a
  <2> SUFFICES ASSUME NEW j \in 2 .. Len(notes) PROVE notes[j].app # a
    OBVIOUS
  <2>1. j - 1 \in 1 .. Len(notes') /\ notes'[j - 1] = notes[j]
    BY <1>1, <1>2
  <2> QED
    BY <2>1 DEF Seen
<1>4. old # new /\ new = Head(appLog[a])
  <2>1. 1 + 1 = 2
    OBVIOUS
  <2> QED
    BY <1>2, <1>3, <2>1 DEF NotesInv
<1>5. Head(log) = Latest /\ ~FilterApp(a, old, new)
  <2>1. ~queued' /\ ~(Len(log) > 1)
    BY <1>1 DEF Awaited
  <2> QED
    BY <1>1, <2>1, LogEnds
<1>6. a \in Up <=> new = "ready"
  BY <1>2, <1>4 DEF Up
<1> HIDE DEF a, old, new
<1>7. a \in Latest.routes <=> a \in Up
  <2>1. CASE old = "absent"
    BY <1>5, <1>6, <2>1 DEF FilterApp, Includes
  <2>2. CASE old # "absent" /\ new = "absent"
    BY <1>5, <1>6, <2>2 DEF FilterApp, Includes
  <2>3. CASE old # "absent" /\ new # "absent"
    BY <1>4, <1>5, <2>3 DEF FilterApp
  <2> QED
    BY <2>1, <2>2, <2>3
<1> QED
  BY <1>7 DEF a

\* filterApp queues the endpoint, or has seen one more change that needs nothing.
LEMMA NotifyAwait ==
  ASSUME EndInv, NotesInv, AwaitInv, Notify
  PROVE  AwaitInv'
<1>0. TypeOK /\ UNCHANGED <<log, appLog, routeLog, pc, obj, stale, refs>> /\ Latest' = Latest
      /\ Up' = Up
  BY DEF Notify, logs, running, EndInv, Latest, Up
<1>1. CASE Awaited'
  BY <1>0, <1>1, AwaitedStep DEF AwaitInv
<1>2. CASE ~Awaited'
  <2>1. ~Awaited
    BY <1>0, <1>2 DEF Notify, Awaited
  <2>2. ASSUME NEW b \in Seen', b # Head(notes).app
        PROVE  b \in Seen
    <3>1. /\ notes # <<>> /\ notes' = Tail(notes)
          /\ notes \in Seq([app : Apps, old : AppStates, new : AppStates])
      BY <1>0 DEF Notify, TypeOK
    <3>2. \A i \in 1 .. Len(notes) : i = 1 \/ (i - 1 \in 1 .. Len(notes') /\ notes'[i - 1] = notes[i])
      BY <3>1
    <3>3. Head(notes) = notes[1]
      BY <3>1
    <3> QED
      BY <2>2, <3>2, <3>3 DEF Seen
  <2>3. ~Latest.gone => \A b \in Seen' : b \in Seen \/ (b \in Latest.routes <=> b \in Up)
    BY <1>0, <1>2, <2>2, FilterAppDrops
  <2>4. ASSUME pc = "idle", ~Latest.deleting
        PROVE  \A a \in Seen' \ Static : a \in Latest.routes <=> a \in Up
    BY <2>1, <2>3, <2>4 DEF AwaitInv
  <2>5. ASSUME pc \in {"route", "status"}
        PROVE  \A a \in Seen' \ Static : \/ a \in refs <=> a \in Up
                                         \/ ~(a \in refs <=> a \in Latest.routes)
    <3>1. ~Latest.gone
      BY <2>1, <2>5 DEF EndInv, CopyInv, AwaitInv
    <3> QED
      BY <2>1, <2>3, <2>5, <3>1 DEF AwaitInv
  <2> QED
    BY <1>0, <2>1, <2>4, <2>5 DEF AwaitInv
<1> QED
  BY <1>1, <1>2

\* The user, the watch of the endpoint, a restart, and the errors of Reconcile.
LEMMA QueueAwait ==
  ASSUME EndInv, AwaitInv,
         WatchEndpoint \/ Restart \/ DeleteEndpoint \/ AddFinalizer \/ CallFails
  PROVE  AwaitInv'
<1>0. TypeOK /\ Latest \in Endpoint /\ obj \in Endpoint
  BY LogEnds DEF EndInv, TypeOK
<1>1. CASE WatchEndpoint \/ Restart \/ CallFails
  <2>1. /\ queued' = TRUE
        /\ UNCHANGED <<pc, obj, stale, refs, routeLog>> \/ (pc' = "idle" /\ stale' = FALSE)
    BY <1>1 DEF WatchEndpoint, Restart, CallFails, Finish, running
  <2>2. Latest' = Latest
    BY <1>0, <1>1, LogCached DEF WatchEndpoint, Restart, CallFails, logs
  <2> QED
    BY <2>1, <2>2, AwaitedStep DEF AwaitInv, Awaited
<1>2. CASE DeleteEndpoint
  <2> DEFINE e == [Latest EXCEPT !.deleting = TRUE, !.gone = ~Latest.finalizer]
  <2>1. /\ e \in Endpoint /\ e.deleting /\ HasRoom(log) /\ log' = Append(log, e)
        /\ UNCHANGED <<pc, obj, refs, routeLog>> /\ stale' = (pc # "idle")
    BY <1>0, <1>2 DEF DeleteEndpoint, Endpoint, Latest
  <2> HIDE DEF e
  <2>2. Latest' = e /\ Awaited'
    BY <1>0, <2>1, LogStored, StoreAwaited
  <2> QED
    BY <2>1, <2>2, AwaitedStep
<1>3. CASE AddFinalizer
  <2> DEFINE e == [obj EXCEPT !.finalizer = TRUE]
  <2>1. /\ pc' = "idle" /\ stale' = FALSE /\ queued' = TRUE /\ HasRoom(log)
        /\ log' = log \/ log' = Store(log, e)
        /\ e \in Endpoint /\ e.gone = obj.gone /\ ~obj.gone
    BY <1>0, <1>3 DEF AddFinalizer, Finish, EndInv, CopyInv, Endpoint
  <2> HIDE DEF e
  <2>2. Latest' = Latest \/ Latest' = e
    BY <1>0, <2>1, LogStored DEF Latest
  <2> QED
    BY <2>1, <2>2, AwaitedStep DEF AwaitInv, Awaited
<1> QED
  BY <1>1, <1>2, <1>3

\* Reconcile starts with the latest version, or the latest is on its way, and lists
\* the applications as the cache has them.
LEMMA StartAwait ==
  ASSUME EndInv, AwaitInv, GetEndpoint \/ ListApps
  PROVE  AwaitInv'
<1>0. TypeOK /\ (~(Len(log) > 1) => Head(log) = Latest)
  BY LogEnds DEF EndInv
<1>1. UNCHANGED <<log, appLog, routeLog, notes>> /\ Latest' = Latest /\ Up' = Up
  BY DEF GetEndpoint, ListApps, logs, Latest, Up
<1>2. CASE ListApps
  <2>1. /\ UNCHANGED <<obj, stale, queued>> /\ pc = "list" /\ pc' = "route"
        /\ refs' = Static \cup Up
    BY <1>2 DEF ListApps, Up
  <2> QED
    BY <1>1, <2>1 DEF AwaitInv, Awaited
<1>3. CASE GetEndpoint /\ Head(log).gone
  <2>1. UNCHANGED <<pc, obj, stale, refs>> /\ pc = "idle" /\ queued' = FALSE
    BY <1>3 DEF GetEndpoint, running
  <2>2. CASE Len(log) > 1
    BY <1>1, <2>1, <2>2, AwaitedStep DEF AwaitInv, Awaited
  <2>3. CASE ~(Len(log) > 1)
    <3>1. Latest.gone /\ Latest.deleting
      BY <1>0, <1>3, <2>3 DEF AwaitInv
    <3>2. ~stale
      BY <2>1 DEF AwaitInv
    <3> QED
      BY <1>1, <2>1, <3>1, <3>2 DEF AwaitInv
  <2> QED
    BY <2>2, <2>3
<1>4. CASE GetEndpoint /\ ~Head(log).gone
  <2>1. pc' = FirstCall(Head(log)) /\ obj' = Head(log) /\ stale' = (Len(log) > 1)
    BY <1>4 DEF GetEndpoint
  <2>2. pc' \in {"deleteRoute", "list", "addFinalizer"}
    BY <2>1 DEF FirstCall
  <2>3. stale' => Awaited'
    BY <1>1, <2>1, Zenon DEF Awaited
  <2>4. ~stale' => obj' = Latest'
    BY <1>0, <1>1, <2>1, Zenon
  <2> QED
    BY <1>1, <2>2, <2>3, <2>4 DEF AwaitInv
<1> QED
  BY <1>2, <1>3, <1>4

\* The route is written before the status, or the endpoint is queued again.
LEMMA RouteAwait ==
  ASSUME EndInv, AwaitInv, CreateRoute \/ PatchRoute \/ DeleteRoute
  PROVE  AwaitInv'
<1>0. /\ TypeOK /\ routeLog \in Seq(Route) /\ Len(routeLog) \in 1 .. MaxLag + 1
      /\ [exists |-> TRUE, backends |-> refs] \in Route
  BY DEF EndInv, TypeOK, Route
<1>1. UNCHANGED <<log, appLog, notes>> /\ Latest' = Latest /\ Up' = Up /\ Seen' = Seen
  BY DEF CreateRoute, PatchRoute, DeleteRoute, Latest, Up, Seen
<1>2. CASE Finish(TRUE)
  <2>1. pc' = "idle" /\ stale' = FALSE /\ queued' = TRUE
    BY <1>2 DEF Finish
  <2> QED
    BY <1>1, <2>1, AwaitedStep DEF AwaitInv, Awaited
<1>3. CASE DeleteRoute /\ Goto("removeFinalizer")
  <2>1. pc = "deleteRoute" /\ pc' = "removeFinalizer" /\ UNCHANGED <<obj, stale, refs, queued>>
    BY <1>3 DEF DeleteRoute, Goto
  <2> QED
    BY <1>1, <2>1 DEF AwaitInv, Awaited
<1>4. CASE (CreateRoute \/ PatchRoute) /\ ~Finish(TRUE)
  <2>1. /\ pc = "route" /\ pc' = "status" /\ UNCHANGED <<obj, stale, refs, queued>>
        /\ HasRoom(routeLog)
        /\ routeLog' = Store(routeLog, [exists |-> TRUE, backends |-> refs])
    BY <1>4 DEF CreateRoute, PatchRoute, Goto
  <2>2. Last(routeLog') = [exists |-> TRUE, backends |-> refs]
    <3>1. PICK r \in Route : /\ r = [exists |-> TRUE, backends |-> refs]
                             /\ routeLog' = Store(routeLog, r)
      BY <1>0, <2>1, Zenon
    <3>2. /\ HasRoom(routeLog) /\ routeLog \in Seq(Route) /\ Len(routeLog) \in 1 .. MaxLag + 1
          /\ r \in Route /\ routeLog' = Store(routeLog, r)
      BY <1>0, <2>1, <3>1
    <3>3. Last(routeLog') = r
      BY ONLY <3>2, Stored
    <3> QED
      BY <3>1, <3>3
  <2> QED
    BY <1>1, <2>1, <2>2 DEF AwaitInv, Awaited
<1> QED
  BY <1>2, <1>3, <1>4 DEF DeleteRoute

\* The status update and handleDelete leave nothing to do, or have the endpoint
\* awaited.
LEMMA UpdateAwait ==
  ASSUME EndInv, AwaitInv, UpdateStatus \/ RemoveFinalizer
  PROVE  AwaitInv'
<1>0. TypeOK /\ obj \in Endpoint /\ refs \subseteq Services
  BY DEF EndInv, TypeOK
<1>1. CASE stale
  <2>1. queued' = TRUE /\ log' = log /\ Latest' = Latest /\ pc' = "idle" /\ stale' = FALSE
    BY <1>1 DEF UpdateStatus, RemoveFinalizer, Finish, Latest
  <2> QED
    BY <2>1, AwaitedStep DEF AwaitInv, Awaited
<1>2. CASE UpdateStatus /\ ~stale
  <2> DEFINE e == [obj EXCEPT !.routes = refs]
  <2>1. /\ pc = "status" /\ pc' = "idle" /\ stale' = FALSE /\ queued' = queued
        /\ HasRoom(log) /\ log' = Store(log, e) /\ UNCHANGED <<appLog, routeLog, notes>>
    <3>1. queued' = (queued \/ FALSE) /\ queued \in BOOLEAN
      BY <1>0, <1>2 DEF UpdateStatus, Finish, TypeOK
    <3>2. queued' = queued
      BY <3>1, Zenon
    <3> QED
      BY <1>2, <3>2 DEF UpdateStatus, Finish
  <2>2. e \in Endpoint /\ e.routes = refs /\ ~e.deleting /\ ~e.gone
    BY <1>0, <2>1 DEF Endpoint, EndInv, CopyInv, Creates, Creating
  <2>3. obj = Latest
    BY <1>2, <2>1 DEF AwaitInv
  <2> HIDE DEF e
  <2>4. Latest' = e /\ Up' = Up /\ Seen' = Seen
    BY <1>0, <2>1, <2>2, LogStored DEF Up, Seen
  <2>5. ASSUME ~Awaited'
        PROVE  ~Awaited /\ refs = Latest.routes
    <3>1. e = Latest
      BY <1>0, <2>1, <2>5, StoreAwaited DEF Store, Latest
    <3>2. log' = log
      BY <2>1, <3>1 DEF Store, Latest
    <3> QED
      BY <2>1, <2>2, <2>5, <3>1, <3>2 DEF Awaited
  <2>6. ~Awaited' => \A a \in Seen \ Static : a \in refs <=> a \in Up
    BY <2>1, <2>5 DEF AwaitInv
  <2>7. Static \subseteq refs /\ Last(routeLog) = [exists |-> TRUE, backends |-> refs]
    BY <2>1 DEF AwaitInv
  <2> QED
    BY <2>1, <2>2, <2>4, <2>6, <2>7 DEF AwaitInv
<1>3. CASE RemoveFinalizer /\ ~stale
  <2> DEFINE e == [obj EXCEPT !.finalizer = FALSE, !.gone = TRUE]
  <2>1. /\ HasRoom(log) /\ log' = Store(log, e) /\ e \in Endpoint /\ e.gone /\ e.deleting
        /\ pc' = "idle" /\ stale' = FALSE
    BY <1>0, <1>3 DEF RemoveFinalizer, Finish, Endpoint, EndInv, CopyInv, Removing
  <2> HIDE DEF e
  <2>2. Latest' = e
    BY <1>0, <2>1, LogStored
  <2> QED
    BY <2>1, <2>2 DEF AwaitInv
<1> QED
  BY <1>1, <1>2, <1>3

\* Unless it is awaited, the endpoint has been or is being dealt with.
LEMMA AwaitInvariance == Spec => [](EndInv /\ AwaitInv)
<1>1. Init => NotesInv /\ AwaitInv
  <2>1. Init => NotesInv
    BY DEF Init, NotesInv
  <2>2. Init => AwaitInv
    <3>1. Init => Latest = NewEndpoint
      BY DEF Init, Latest, Last
    <3>2. Init => Awaited
      BY DEF Init, Awaited
    <3>3. Init => pc = "idle" /\ ~stale
      BY DEF Init
    <3>4. ~NewEndpoint.gone
      BY DEF NewEndpoint
    <3> QED
      BY <3>1, <3>2, <3>3, <3>4 DEF AwaitInv
  <2> QED
    BY <2>1, <2>2
<1>2. EndInv /\ NotesInv /\ [Next]_vars => NotesInv'
  BY NotesStep DEF EndInv
<1>3. EndInv /\ NotesInv /\ AwaitInv /\ [Next]_vars => AwaitInv'
  BY AppsAwait, NotifyAwait, QueueAwait, StartAwait, RouteAwait, UpdateAwait
  DEF Next, Reconcile
<1> QED
  BY <1>1, <1>2, <1>3, Inductive, PTL DEF Spec

\* The safety half of StatusFollowsApps and RouteFollowsApps: when nothing is left to
\* do, the status of an endpoint that the user wants and the HTTPRoute both have the
\* static services and the ready applications.  No change of an application that
\* filterApp drops, looking at an old version of the endpoint, is missed.
THEOREM NothingForgotten ==
  Spec => [](Quiet /\ Live =>
               /\ Last(log).routes = Wanted
               /\ Last(routeLog) = [exists |-> TRUE, backends |-> Wanted])
<1>1. EndInv /\ AwaitInv =>
        (Quiet /\ Live => /\ Last(log).routes = Wanted
                          /\ Last(routeLog) = [exists |-> TRUE, backends |-> Wanted])
  <2> SUFFICES ASSUME EndInv, AwaitInv, Quiet, Live
               PROVE  /\ Last(log).routes = Wanted
                      /\ Last(routeLog) = [exists |-> TRUE, backends |-> Latest.routes]
    BY DEF Latest
  <2>1. /\ Static \subseteq Latest.routes
        /\ Last(routeLog) = [exists |-> TRUE, backends |-> Latest.routes]
        /\ \A a \in Seen \ Static : a \in Latest.routes <=> a \in Up
    BY DEF AwaitInv, Quiet, Live, Latest
  <2>2. Seen = Apps
    BY DEF Quiet, Seen
  <2>3. Up = {a \in Apps : Last(appLog[a]) = "ready"}
    <3>1. \A a \in Apps : Head(appLog[a]) = Last(appLog[a])
      BY DEF Quiet, EndInv, TypeOK, Last
    <3> QED
      BY <3>1 DEF Up
  <2>4. Latest.routes \subseteq Apps \cup Static
    BY LogEnds DEF EndInv, Endpoint, Services
  <2>5. Latest.routes = Wanted
    BY <2>1, <2>2, <2>3, <2>4 DEF Wanted
  <2> QED
    BY <2>1, <2>5 DEF Latest
<1> QED
  BY <1>1, AwaitInvariance, PTL

\* The safety half of DeletionCompletes: an endpoint that the user has deleted is gone
\* when nothing is left to do.
THEOREM DeletionPending == Spec => [](Quiet /\ Last(log).deleting => Last(log).gone)
<1>1. AwaitInv => (Quiet /\ Last(log).deleting => Last(log).gone)
  BY DEF AwaitInv, Quiet, Latest
<1> QED
  BY <1>1, AwaitInvariance, PTL

-----------------------------------------------------------------------------
\* What a step shows of the endpoint: its metadata and whether it has a route.
Shown == <<Latest.finalizer, Latest.deleting, Latest.gone, Owned>>

\* Reconcile adds the finalizer to no endpoint that it has seen deleted.
AdoptInv == pc = "addFinalizer" => ~obj.deleting

LEMMA AdoptInvariance == Spec => []AdoptInv
<1>1. Init => AdoptInv
  BY DEF Init, AdoptInv
<1>2. AdoptInv /\ [Next]_vars => AdoptInv'
  <2> SUFFICES ASSUME AdoptInv, [Next]_vars
               PROVE  AdoptInv'
    OBVIOUS
  <2>1. CASE GetEndpoint
    BY <2>1 DEF GetEndpoint, FirstCall, running, AdoptInv
  <2>2. CASE ~GetEndpoint
    <3>1. pc' # "addFinalizer" \/ UNCHANGED <<pc, obj>>
      BY <2>2
      DEF Next, Reconcile, AddFinalizer, ListApps, CreateRoute, PatchRoute, UpdateStatus,
          DeleteRoute, RemoveFinalizer, CallFails, Notify, WatchEndpoint, WatchRoute,
          Restart, DeleteEndpoint, WatchApp, AppChanges, Goto, Finish, running, vars
    <3> QED
      BY <3>1 DEF AdoptInv
  <2> QED
    BY <2>1, <2>2
<1> QED
  BY <1>1, <1>2, PTL DEF Spec

\* The applications, the queue and the caches, and calls that fail show nothing; nor
\* does a status that is written.
LEMMA HiddenStep ==
  ASSUME EndInv, \/ GetEndpoint \/ ListApps \/ UpdateStatus \/ CallFails \/ Notify
                 \/ WatchEndpoint \/ WatchRoute \/ Restart \/ UNCHANGED vars
                 \/ \E a \in Apps : WatchApp(a) \/ AppChanges(a)
  PROVE  UNCHANGED Shown
<1>0. TypeOK /\ Latest \in Endpoint /\ obj \in Endpoint /\ refs \in SUBSET Services
  BY LogEnds DEF EndInv, TypeOK
<1>1. Owned' = Owned
  <2>1. behind' = behind
    BY DEF GetEndpoint, ListApps, UpdateStatus, CallFails, Notify, WatchEndpoint,
           WatchRoute, Restart, WatchApp, AppChanges, vars
  <2>2. \/ Len(routeLog) > 1 /\ routeLog' = Tail(routeLog)
        \/ routeLog' = <<Last(routeLog)>>
        \/ routeLog' = routeLog
    BY DEF GetEndpoint, ListApps, UpdateStatus, CallFails, Notify, WatchEndpoint,
           WatchRoute, RouteBehind, Restart, WatchApp, AppChanges, logs, vars
  <2>3. routeLog \in Seq(Route) /\ Len(routeLog) \in 1 .. MaxLag + 1
    BY <1>0 DEF TypeOK
  <2>4. Last(routeLog') = Last(routeLog)
    BY <2>2, <2>3, Watched, Restarted
  <2> QED
    BY <2>1, <2>4 DEF Owned
<1>2. CASE UpdateStatus /\ ~stale
  <2> DEFINE e == [obj EXCEPT !.routes = refs]
  <2>1. /\ HasRoom(log) /\ log' = Store(log, e) /\ e \in Endpoint
        /\ e.finalizer = Latest.finalizer /\ e.deleting = Latest.deleting
        /\ e.gone = obj.gone /\ ~obj.gone /\ ~Latest.gone
    BY <1>0, <1>2 DEF UpdateStatus, Endpoint, EndInv, CopyInv
  <2> HIDE DEF e
  <2>2. Latest' = e
    BY <1>0, <2>1, LogStored
  <2>3. obj.gone = Latest.gone
    BY <1>0, <2>1 DEF Endpoint
  <2> QED
    BY <1>1, <2>1, <2>2, <2>3 DEF Shown
<1>3. CASE ~(UpdateStatus /\ ~stale)
  <2>1. \/ Len(log) > 1 /\ log' = Tail(log)
        \/ log' = <<Last(log)>>
        \/ log' = log
    BY <1>3 DEF GetEndpoint, ListApps, UpdateStatus, CallFails, Notify, WatchEndpoint,
           WatchRoute, Restart, WatchApp, AppChanges, logs, vars
  <2>2. Latest' = Latest
    BY <1>0, <2>1, LogCached
  <2> QED
    BY <1>1, <2>2 DEF Shown
<1> QED
  BY <1>2, <1>3

\* A route is created for an endpoint that still has its finalizer; the one that
\* handleDelete finds is lost.
LEMMA RouteShown ==
  ASSUME EndInv, CreateRoute \/ PatchRoute \/ DeleteRoute
  PROVE  Object!Next \/ UNCHANGED Shown
<1>0. TypeOK /\ refs \in SUBSET Services /\ behind \in BOOLEAN
  BY DEF EndInv, TypeOK
<1>1. Latest' = Latest
  BY DEF CreateRoute, PatchRoute, DeleteRoute, Latest
<1>2. routeLog \in Seq(Route) /\ Len(routeLog) \in 1 .. MaxLag + 1
  BY <1>0 DEF TypeOK
<1>3. CASE (CreateRoute \/ PatchRoute) /\ routeLog' = routeLog
  <2>1. behind' = behind
    BY <1>3 DEF CreateRoute, PatchRoute
  <2> QED
    BY <1>1, <1>3, <2>1 DEF Shown, Owned
<1>4. CASE (CreateRoute \/ PatchRoute) /\ routeLog' # routeLog
  <2> DEFINE r == [exists |-> TRUE, backends |-> refs]
  <2>1. HasRoom(routeLog) /\ routeLog' = Store(routeLog, r) /\ behind' = behind
    BY <1>4 DEF CreateRoute, PatchRoute
  <2>2. r \in Route /\ r.exists
    BY <1>0 DEF Route
  <2> HIDE DEF r
  <2>3. Last(routeLog') = r
    BY <1>2, <2>1, <2>2, Stored
  <2>4. Owned' = Owned \/ Owned' = Owned \cup {"route"}
    BY <2>1, <2>2, <2>3 DEF Owned
  <2>5. Latest.finalizer
    BY <1>4 DEF CreateRoute, PatchRoute, EndInv, OwnedInv, Creating
  <2> QED
    BY <1>1, <2>4, <2>5 DEF Shown, Object!Next, Object!Make, Latest
<1>5. CASE DeleteRoute
  <2>1. behind' <=> behind \/ RouteBehind
    BY <1>5 DEF DeleteRoute
  <2>2. Owned' = Owned \ {"route"}
    <3>1. CASE behind'
      BY <3>1 DEF Owned
    <3>2. CASE ~behind'
      <4>1. ~behind /\ ~(Len(routeLog) > 1)
        BY <2>1, <3>2 DEF RouteBehind
      <4>2. Head(routeLog) = Last(routeLog)
        BY <1>2, <4>1, Ends
      <4>3. CASE ~Last(routeLog).exists
        <5>1. routeLog' = routeLog
          BY <1>5, <4>2, <4>3 DEF DeleteRoute
        <5> QED
          BY <4>3, <5>1 DEF Owned
      <4>4. CASE Last(routeLog).exists
        <5>1. HasRoom(routeLog) /\ routeLog' = Store(routeLog, NoRoute)
          BY <1>5, <4>2, <4>4 DEF DeleteRoute
        <5>2. NoRoute \in Route /\ ~NoRoute.exists
          BY DEF NoRoute, Route
        <5>3. Last(routeLog') = NoRoute
          BY <1>2, <5>1, <5>2, Stored
        <5> QED
          BY <5>2, <5>3 DEF Owned
      <4> QED
        BY <4>3, <4>4
    <3> QED
      BY <3>1, <3>2
  <2> QED
    BY <1>1, <2>2 DEF Object!Next, Object!Lose, Latest
<1> QED
  BY <1>3, <1>4, <1>5

\* The finalizer is added to an endpoint that nobody has deleted, and taken from one
\* that has been deleted and has no route that handleDelete could see.
LEMMA ReleaseStep ==
  ASSUME EndInv, AdoptInv, AddFinalizer \/ RemoveFinalizer \/ DeleteEndpoint
  PROVE  Object!Next \/ UNCHANGED Shown
<1>0. TypeOK /\ Latest \in Endpoint /\ obj \in Endpoint
  BY LogEnds DEF EndInv, TypeOK
<1>1. Owned' = Owned
  <2>1. routeLog' = routeLog /\ behind' = behind
    BY DEF AddFinalizer, RemoveFinalizer, DeleteEndpoint
  <2> QED
    BY <2>1 DEF Owned
<1>2. CASE (AddFinalizer \/ RemoveFinalizer) /\ stale
  <2>1. Latest' = Latest
    BY <1>2 DEF AddFinalizer, RemoveFinalizer, Latest
  <2> QED
    BY <1>1, <2>1 DEF Shown
<1>3. CASE AddFinalizer /\ ~stale
  <2> DEFINE e == [obj EXCEPT !.finalizer = TRUE]
  <2>1. /\ HasRoom(log) /\ log' = Store(log, e) /\ e \in Endpoint /\ e.finalizer = TRUE
        /\ e.deleting = Latest.deleting /\ e.gone = obj.gone
        /\ ~obj.gone /\ ~Latest.gone /\ ~Latest.deleting
    BY <1>0, <1>3 DEF AddFinalizer, Endpoint, EndInv, CopyInv, AdoptInv
  <2> HIDE DEF e
  <2>2. Latest' = e
    BY <1>0, <2>1, LogStored
  <2>3. obj.gone = Latest.gone
    BY <1>0, <2>1 DEF Endpoint
  <2> QED
    BY <1>1, <2>1, <2>2, <2>3 DEF Object!Next, Object!Adopt, Latest
<1>4. CASE RemoveFinalizer /\ ~stale
  <2> DEFINE e == [obj EXCEPT !.finalizer = FALSE, !.gone = TRUE]
  <2>1. /\ HasRoom(log) /\ log' = Store(log, e) /\ e \in Endpoint
        /\ e.finalizer = FALSE /\ e.gone = TRUE
        /\ e.deleting = Latest.deleting /\ Latest.deleting
    BY <1>0, <1>4 DEF RemoveFinalizer, Endpoint, EndInv, CopyInv, Removing
  <2> HIDE DEF e
  <2>2. Latest' = e
    BY <1>0, <2>1, LogStored
  <2>3. Owned = {}
    BY <1>4 DEF RemoveFinalizer, EndInv, OwnedInv, Owned
  <2> QED
    BY <1>1, <2>1, <2>2, <2>3 DEF Object!Next, Object!Release, Latest
<1>5. CASE DeleteEndpoint
  <2> DEFINE e == [Latest EXCEPT !.deleting = TRUE, !.gone = ~Latest.finalizer]
  <2>1. /\ HasRoom(log) /\ log' = Append(log, e) /\ e \in Endpoint
        /\ e.finalizer = Latest.finalizer
        /\ e.deleting = TRUE /\ e.gone = ~Latest.finalizer /\ ~Latest.deleting
    BY <1>0, <1>5 DEF DeleteEndpoint, Endpoint, Latest
  <2> HIDE DEF e
  <2>2. Latest' = e
    BY <1>0, <2>1, LogStored
  <2> QED
    BY <1>1, <2>1, <2>2 DEF Object!Next, Object!Delete, Latest
<1> QED
  BY <1>2, <1>3, <1>4, <1>5

\* The controller implements Lifecycle: whatever versions of the endpoint its
\* Reconciles work from, a route is created only while the endpoint has the finalizer,
\* and the endpoint is released only without one, unless handleDelete has read an
\* older version of the route.
THEOREM Refinement == Spec => ImplementsLifecycle
<1>1. Init => Object!Init
  <2>1. Init => Last(log) = NewEndpoint /\ Last(routeLog) = NoRoute
    BY DEF Init, Last
  <2>2. Init => Owned = {}
    BY <2>1 DEF Owned, NoRoute
  <2>3. /\ NewEndpoint.finalizer = FALSE /\ NewEndpoint.deleting = FALSE
        /\ NewEndpoint.gone = FALSE
    BY DEF NewEndpoint
  <2> QED
    BY <2>1, <2>2, <2>3 DEF Object!Init
<1>2. EndInv /\ AdoptInv /\ [Next]_vars => [Object!Next]_(Object!vars)
  <2> SUFFICES ASSUME EndInv, AdoptInv, [Next]_vars
               PROVE  Object!Next \/ UNCHANGED Shown
    BY DEF Object!vars, Shown, Latest
  <2> QED
    BY HiddenStep, RouteShown, ReleaseStep DEF Next, Reconcile
<1> QED
  BY <1>1, <1>2, Inductive, AdoptInvariance, PTL
  DEF Spec, ImplementsLifecycle, Object!Spec
=============================================================================

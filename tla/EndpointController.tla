------------------------- MODULE EndpointController -------------------------
(***************************************************************************)
(* The ArksEndpoint controller (arksendpoint_controller.go), one           *)
(* ArksEndpoint and the ArksApplications that serve its model.  Reconcile  *)
(* lists the applications, writes the ready ones and the static services   *)
(* to the HTTPRoute, and then to the status of the endpoint.  Endpoint,    *)
(* applications and route are all read from informer caches, each of which *)
(* lags behind the API server on its own.                                  *)
(*                                                                         *)
(* A change of the endpoint queues it.  A change of an application passes  *)
(* filterApp first, which runs some time after the cache has changed and   *)
(* looks at the endpoint in the cache.  Changes of the route do not queue  *)
(* anything.  The spec of the endpoint is not edited, and nobody else      *)
(* writes the route.  The order of the services in the route is left out.  *)
(***************************************************************************)
EXTENDS Integers, SequencesExt

CONSTANTS
  Apps,       \* the applications whose served model is the endpoint's name
  Static,     \* the services that spec.routeConfigs lists
  MaxFaults,  \* bound: API calls that fail, and restarts of the operator
  MaxLag,     \* bound: versions a cache may be behind
  MaxChanges  \* bound: changes of the applications

ASSUME EndpointAssumption ==
  MaxFaults \in Nat /\ MaxLag \in Nat /\ MaxChanges \in Nat

VARIABLES
  log,       \* the versions of the endpoint from the cached to the latest one
  appLog,    \* appLog[a]: the same for application a
  routeLog,  \* the same for the HTTPRoute
  notes,     \* the changes of applications that filterApp has not seen
  queued,    \* whether the endpoint is in the work queue
  pc,        \* the next call of the Reconcile that is running
  obj,       \* the copy of the endpoint it works on
  stale,     \* whether obj was made from a version that is not the latest
  refs,      \* backendRefs: the services it is going to write
  behind,    \* history: handleDelete has read a route that was not the latest
  faults, changes   \* for the bounds

logs == <<log, appLog, routeLog>>
running == <<pc, obj, stale, refs>>
bounds == <<faults, changes>>
vars == <<logs, notes, queued, running, behind, bounds>>

Services == Apps \cup Static

\* What the controller reads and writes of an endpoint, of an application and of
\* the route.  The service of an application goes by the application's name.
Endpoint == [gone : BOOLEAN, deleting : BOOLEAN, finalizer : BOOLEAN,
             routes : SUBSET Services]
AppStates == {"absent", "unready", "ready"}
Route == [exists : BOOLEAN, backends : SUBSET Services]

NewEndpoint ==
  [gone |-> FALSE, deleting |-> FALSE, finalizer |-> FALSE, routes |-> {}]
NoRoute == [exists |-> FALSE, backends |-> {}]

Init ==
  /\ log = <<NewEndpoint>>
  /\ appLog = [a \in Apps |-> <<"absent">>]
  /\ routeLog = <<NoRoute>>
  /\ notes = <<>>
  /\ queued = TRUE
  /\ pc = "idle" /\ obj = NewEndpoint /\ stale = FALSE /\ refs = {}
  /\ behind = FALSE
  /\ faults = 0 /\ changes = 0

-----------------------------------------------------------------------------
\* The API server stores a version of an object, unless nothing has changed.
Store(versions, v) ==
  IF v = Last(versions) THEN versions ELSE Append(versions, v)

HasRoom(versions) == Len(versions) <= MaxLag

\* Reconcile goes on at the given call.
Goto(call) == pc' = call /\ UNCHANGED <<obj, stale, refs, queued>>

\* Reconcile returns, and the endpoint is queued again if it has to be.
Finish(again) ==
  /\ pc' = "idle"
  /\ obj' = NewEndpoint
  /\ stale' = FALSE
  /\ refs' = {}
  /\ queued' = (queued \/ again)

Fault == faults < MaxFaults /\ faults' = faults + 1

\* Whether the route in the cache is not the latest one.
RouteBehind == Len(routeLog) > 1

-----------------------------------------------------------------------------
\* Reconcile gets the endpoint from the cache.
FirstCall(e) ==
  IF e.deleting THEN "deleteRoute"
  ELSE IF e.finalizer THEN "list" ELSE "addFinalizer"

GetEndpoint ==
  /\ pc = "idle" /\ queued
  /\ queued' = FALSE
  /\ LET e == Head(log)
     IN  IF e.gone
           THEN UNCHANGED running
           ELSE /\ pc' = FirstCall(e)
                /\ obj' = e
                /\ stale' = (Len(log) > 1)
                /\ UNCHANGED refs
  /\ UNCHANGED <<logs, notes, behind, bounds>>

AddFinalizer ==
  /\ pc = "addFinalizer"
  /\ HasRoom(log)
  /\ log' = IF stale THEN log ELSE Store(log, [obj EXCEPT !.finalizer = TRUE])
  /\ Finish(TRUE)
  /\ UNCHANGED <<appLog, routeLog, notes, behind, bounds>>

\* The applications are listed from the cache: the static services and those
\* of the applications with all replicas ready make up the route.
ListApps ==
  /\ pc = "list"
  /\ pc' = "route"
  /\ refs' = Static \cup {a \in Apps : Head(appLog[a]) = "ready"}
  /\ UNCHANGED <<logs, notes, obj, stale, queued, behind, bounds>>

\* The route is created if the cache has none, which fails if there is one.
CreateRoute ==
  /\ pc = "route" /\ ~Head(routeLog).exists
  /\ IF Last(routeLog).exists
       THEN Finish(TRUE) /\ UNCHANGED routeLog
       ELSE /\ HasRoom(routeLog)
            /\ routeLog' = Store(routeLog, [exists |-> TRUE, backends |-> refs])
            /\ Goto("status")
  /\ UNCHANGED <<log, appLog, notes, behind, bounds>>

\* Mutation: no call is made if the cached route has the services.
PatchRouteIfChanged ==
  /\ pc = "route" /\ Head(routeLog).exists
  /\ HasRoom(routeLog)
  /\ routeLog' = IF refs = Head(routeLog).backends
                   THEN routeLog
                   ELSE Store(routeLog, [exists |-> TRUE, backends |-> refs])
  /\ Goto("status")
  /\ UNCHANGED <<log, appLog, notes, behind, bounds>>

\* Otherwise it is patched with what differs from the cached one.  The rules always
\* do, by the fields that the API server has filled in there, and a merge patch
\* has all of a list that differs: the latest route gets the services.  That
\* fails if there is no route.
PatchRoute ==
  /\ pc = "route" /\ Head(routeLog).exists
  /\ IF Last(routeLog).exists
       THEN /\ HasRoom(routeLog)
            /\ routeLog' = Store(routeLog, [exists |-> TRUE, backends |-> refs])
            /\ Goto("status")
       ELSE Finish(TRUE) /\ UNCHANGED routeLog
  /\ UNCHANGED <<log, appLog, notes, behind, bounds>>

UpdateStatus ==
  /\ pc = "status"
  /\ IF stale
       THEN Finish(TRUE) /\ UNCHANGED log
       ELSE /\ HasRoom(log)
            /\ log' = Store(log, [obj EXCEPT !.routes = refs])
            /\ Finish(FALSE)
  /\ UNCHANGED <<appLog, routeLog, notes, behind, bounds>>

\* handleDelete: the route is deleted if the cache has one, which fails if there
\* is none.
DeleteRoute ==
  /\ pc = "deleteRoute"
  /\ IF ~Head(routeLog).exists
       THEN Goto("removeFinalizer") /\ UNCHANGED routeLog
       ELSE IF Last(routeLog).exists
         THEN /\ HasRoom(routeLog)
              /\ routeLog' = Store(routeLog, NoRoute)
              /\ Goto("removeFinalizer")
         ELSE Finish(TRUE) /\ UNCHANGED routeLog
  /\ behind' = (behind \/ RouteBehind)
  /\ UNCHANGED <<log, appLog, notes, bounds>>

RemoveFinalizer ==
  /\ pc = "removeFinalizer"
  /\ IF stale
       THEN Finish(TRUE) /\ UNCHANGED log
       ELSE /\ HasRoom(log)
            /\ log' = Store(log, [obj EXCEPT !.finalizer = FALSE, !.gone = TRUE])
            /\ Finish(FALSE)
  /\ UNCHANGED <<appLog, routeLog, notes, behind, bounds>>

\* Mutations: handleDelete goes on, or the error is not returned.
CallFailsOn ==
  /\ Fault
  /\ pc = "deleteRoute" /\ Goto("removeFinalizer")
  /\ UNCHANGED <<logs, notes, behind, changes>>

CallFailsQuietly ==
  /\ Fault
  /\ pc \in {"addFinalizer", "route", "status", "deleteRoute", "removeFinalizer"}
  /\ Finish(FALSE)
  /\ UNCHANGED <<logs, notes, behind, changes>>

\* A call to the API server fails.
CallFails ==
  /\ Fault
  /\ pc \in {"addFinalizer", "route", "status", "deleteRoute", "removeFinalizer"}
  /\ Finish(TRUE)
  /\ UNCHANGED <<logs, notes, behind, changes>>

-----------------------------------------------------------------------------
\* Whether the endpoint in the cache has the service of application a in its
\* status (arksEndpointIncludesAppService).
Includes(a) == a \in Head(log).routes

\* Mutation: updates of an application do not pass.
FilterAppNoUpdates(a, old, new) ==
  /\ ~Head(log).gone
  /\ CASE old = "absent" -> (new = "ready") # Includes(a)
       [] new = "absent" -> Includes(a)
       [] OTHER          -> FALSE

\* Whether a change of application a queues the endpoint (filterApp): a new one
\* if the status is wrong about it, a deleted one if the status has it, and any
\* other if its readiness has changed.
FilterApp(a, old, new) ==
  /\ ~Head(log).gone
  /\ CASE old = "absent" -> (new = "ready") # Includes(a)
       [] new = "absent" -> Includes(a)
       [] OTHER          -> old # new

\* filterApp looks at the next change of an application.
Notify ==
  /\ notes # <<>>
  /\ notes' = Tail(notes)
  /\ queued' = (queued \/ FilterApp(Head(notes).app, Head(notes).old, Head(notes).new))
  /\ UNCHANGED <<logs, running, behind, bounds>>

\* Watch events bring the next version of an object to the cache.
WatchApp(a) ==
  /\ Len(appLog[a]) > 1 /\ Len(notes) < MaxLag
  /\ appLog' = [appLog EXCEPT ![a] = Tail(@)]
  /\ notes' = Append(notes, [app |-> a, old |-> appLog[a][1], new |-> appLog[a][2]])
  /\ UNCHANGED <<log, routeLog, queued, running, behind, bounds>>

WatchEndpoint ==
  /\ Len(log) > 1
  /\ log' = Tail(log)
  /\ queued' = TRUE
  /\ UNCHANGED <<appLog, routeLog, notes, running, behind, bounds>>

WatchRoute ==
  /\ RouteBehind
  /\ routeLog' = Tail(routeLog)
  /\ UNCHANGED <<log, appLog, notes, queued, running, behind, bounds>>

\* The operator restarts: its caches are filled again, everything is queued.
Restart ==
  /\ Fault
  /\ log' = <<Last(log)>>
  /\ appLog' = [a \in Apps |-> <<Last(appLog[a])>>]
  /\ routeLog' = <<Last(routeLog)>>
  /\ notes' = <<>>
  /\ pc' = "idle" /\ obj' = NewEndpoint /\ stale' = FALSE /\ refs' = {}
  /\ queued' = TRUE
  /\ UNCHANGED <<behind, changes>>

\* The user deletes the endpoint, which stays until it has no finalizer.
DeleteEndpoint ==
  /\ ~Last(log).gone /\ ~Last(log).deleting /\ HasRoom(log)
  /\ log' = Append(log, [Last(log) EXCEPT !.deleting = TRUE,
                                          !.gone = ~Last(log).finalizer])
  /\ stale' = (pc # "idle")
  /\ UNCHANGED <<appLog, routeLog, notes, queued, pc, obj, refs, behind, bounds>>

\* An application is created, deleted, becomes ready or is no longer ready.
AppChanges(a) ==
  /\ changes < MaxChanges /\ HasRoom(appLog[a])
  /\ changes' = changes + 1
  /\ \E s \in AppStates \ {Last(appLog[a])} :
       appLog' = [appLog EXCEPT ![a] = Append(@, s)]
  /\ UNCHANGED <<log, routeLog, notes, queued, running, behind, faults>>

Reconcile ==
  \/ GetEndpoint \/ AddFinalizer \/ ListApps \/ CreateRoute \/ PatchRoute
  \/ UpdateStatus \/ DeleteRoute \/ RemoveFinalizer

Next ==
  \/ Reconcile \/ CallFails \/ Notify \/ WatchEndpoint \/ WatchRoute \/ Restart
  \/ DeleteEndpoint
  \/ \E a \in Apps : WatchApp(a) \/ AppChanges(a)

Spec == Init /\ [][Next]_vars

\* The workers of the controller take what is queued, their calls return, and
\* watch events arrive.
FairSpec == /\ Spec
            /\ WF_vars(Reconcile) /\ WF_vars(Notify)
            /\ WF_vars(WatchEndpoint) /\ WF_vars(WatchRoute)
            /\ \A a \in Apps : WF_vars(WatchApp(a))

-----------------------------------------------------------------------------
\* The types of the variables.
TypeOK ==
  /\ log \in Seq(Endpoint) /\ Len(log) \in 1 .. MaxLag + 1
  /\ appLog \in [Apps -> Seq(AppStates)]
  /\ \A a \in Apps : Len(appLog[a]) \in 1 .. MaxLag + 1
  /\ routeLog \in Seq(Route) /\ Len(routeLog) \in 1 .. MaxLag + 1
  /\ notes \in Seq([app : Apps, old : AppStates, new : AppStates])
  /\ queued \in BOOLEAN
  /\ pc \in {"idle", "addFinalizer", "list", "route", "status", "deleteRoute",
            "removeFinalizer"}
  /\ obj \in Endpoint /\ stale \in BOOLEAN /\ refs \subseteq Services
  /\ behind \in BOOLEAN
  /\ faults \in 0 .. MaxFaults /\ changes \in 0 .. MaxChanges

\* The endpoint is still there, and the user wants it.
Live == ~Last(log).deleting /\ ~Last(log).gone

\* What the route is for: the static services and the ready applications.
Wanted == Static \cup {a \in Apps : Last(appLog[a]) = "ready"}

\* When the applications stop changing, the status of the endpoint shows the
\* static services and the ready applications: no event that filterApp drops,
\* having looked at an old version of the endpoint, is missed for good.
StatusFollowsApps == <>[](Live => Last(log).routes = Wanted)

\* So does the HTTPRoute, which is written before the status, from caches that
\* lag behind each other and with a route that may be an old one.
RouteFollowsApps ==
  <>[](Live => Last(routeLog) = [exists |-> TRUE, backends |-> Wanted])

\* An endpoint that is gone leaves no route, if handleDelete has not read an
\* older version of the route from the cache: then it may not find the route that
\* was just created, and nothing else deletes it.
NoOrphanRoute == Last(log).gone /\ ~behind => ~Last(routeLog).exists

\* No route is created for an endpoint without the finalizer, which would not
\* be looked after when the endpoint is deleted.
RouteHasFinalizer ==
  Last(routeLog).exists => Last(log).finalizer \/ Last(log).gone

\* An endpoint that the user deletes goes away: a route that is already deleted,
\* a conflict or a failed call only delays it.
DeletionCompletes == Last(log).deleting ~> Last(log).gone

\* What exists in the cluster for the object, as Lifecycle sees it.
Owned == IF Last(routeLog).exists /\ ~behind THEN {"route"} ELSE {}
Object == INSTANCE Lifecycle
            WITH Things <- {"route"}, exist <- Owned,
                 finalizer <- Last(log).finalizer, deleting <- Last(log).deleting,
                 gone <- Last(log).gone

\* The controller keeps the promise of Lifecycle about the route, from whatever version
\* of the endpoint a Reconcile works, as long as handleDelete has not read an older
\* version of the route: it then loses sight of the one that exists.
ImplementsLifecycle == Object!Spec
=============================================================================

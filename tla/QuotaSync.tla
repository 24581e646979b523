------------------------------ MODULE QuotaSync ------------------------------
(***************************************************************************)
(* The reconciliation of one ArksQuota with its usage counters in Redis    *)
(* (pkg/gateway/qosconfig).  Every gateway runs syncQuotaUsage on a ticker *)
(* of its own: it lists the quota from its informer cache, reads the       *)
(* counters, copies what grew into the status, writes the counters when    *)
(* the status is ahead of them, and updates the status, which the API      *)
(* server refuses when the object has changed since the listed version.    *)
(* Meanwhile responses are charged, the informer caches lag behind, the    *)
(* quota is edited, gateways restart, and Redis, which the deployment runs *)
(* without a volume, may lose its data.                                    *)
(***************************************************************************)
EXTENDS Integers, Sequences, Functions

CONSTANTS
  Gateways,     \* gateway processes
  Types,        \* the quota's types
  MaxConsumed,  \* bound: what is charged to all types together
  MaxEdits,     \* bound: edits of the quota's spec
  MaxFaults,    \* bound: failed calls and restarts
  MaxLosses     \* bound: times Redis loses its data

ASSUME SyncAssumption ==
  /\ MaxConsumed \in Nat
  /\ MaxEdits \in Nat
  /\ MaxFaults \in Nat
  /\ MaxLosses \in Nat

VARIABLES
  usage,     \* usage[t]: the counter of type t in Redis
  consumed,  \* history: consumed[t]: everything charged to type t
  versions,  \* the versions of the ArksQuota: versions[v][t] is the used value
             \*   of type t in resource version v, Absent if not in the status
  cache,     \* cache[g]: the version in the informer cache of gateway g
  pc,        \* pc[g]: where the sync of gateway g is
  base,      \* base[g]: the version it listed
  obj,       \* obj[g]: the status it is going to write
  changed,   \* changed[g]: shouldUpdateCR
  edits, faults, losses   \* for the bounds

syncVars == <<pc, base, obj, changed>>
bounds == <<edits, faults, losses>>
vars == <<usage, consumed, versions, cache, syncVars, bounds>>

Absent == -1
NoStatus == [t \in Types |-> Absent]
Latest == Len(versions)

Init ==
  /\ usage = [t \in Types |-> 0]
  /\ consumed = [t \in Types |-> 0]
  /\ versions = <<NoStatus>>
  /\ cache = [g \in Gateways |-> 1]
  /\ pc = [g \in Gateways |-> "idle"]
  /\ base = [g \in Gateways |-> 1]
  /\ obj = [g \in Gateways |-> NoStatus]
  /\ changed = [g \in Gateways |-> FALSE]
  /\ edits = 0 /\ faults = 0 /\ losses = 0

-----------------------------------------------------------------------------
\* The sync of gateway g is over until the next tick.
Done(g) ==
  /\ pc' = [pc EXCEPT ![g] = "idle"]
  /\ base' = [base EXCEPT ![g] = 1]
  /\ obj' = [obj EXCEPT ![g] = NoStatus]
  /\ changed' = [changed EXCEPT ![g] = FALSE]

\* The ticker fires: the quota is listed from the informer cache.
ListQuota(g) ==
  /\ pc[g] = "idle"
  /\ pc' = [pc EXCEPT ![g] = "get"]
  /\ base' = [base EXCEPT ![g] = cache[g]]
  /\ obj' = [obj EXCEPT ![g] = versions[cache[g]]]
  /\ UNCHANGED <<usage, consumed, versions, cache, changed, bounds>>

\* Mutation: the counter is added to the status.
MergedSum(used) ==
  [t \in Types |-> IF used[t] < usage[t] THEN used[t] + usage[t] ELSE used[t]]

\* What the sync makes of a status used and the counters: types that are not in
\* the status are added, and those that are behind are raised.
Merged(used) ==
  [t \in Types |-> IF used[t] < usage[t] THEN usage[t] ELSE used[t]]

\* Mutation: a status that has no entry for a type is left without it.
BehindIfPresent(used) ==
  \E t \in Types : used[t] # Absent /\ used[t] < usage[t]

\* Mutation: a status that equals its counter is taken to be ahead of it.
AheadOrEqual(used) == \E t \in Types : used[t] >= usage[t]

\* shouldUpdateCR and shouldUpdateQuota
Behind(used) == \E t \in Types : used[t] < usage[t]
Ahead(used) == \E t \in Types : used[t] > usage[t]

\* GetUsage succeeds; the counters are to be written if the status of some type
\* is ahead, and the status is to be written if that of some type is behind.
GetUsage(g) ==
  /\ pc[g] = "get"
  /\ \/ /\ Ahead(obj[g]) \/ Behind(obj[g])
        /\ pc' = [pc EXCEPT ![g] = IF Ahead(obj[g]) THEN "set" ELSE "update"]
        /\ obj' = [obj EXCEPT ![g] = Merged(@)]
        /\ changed' = [changed EXCEPT ![g] = Behind(obj[g])]
        /\ UNCHANGED base
     \/ /\ ~ Ahead(obj[g]) /\ ~ Behind(obj[g])
        /\ Done(g)
  /\ UNCHANGED <<usage, consumed, versions, cache, bounds>>

\* SetUsage is given the requests built for GetUsage, from no counts: it writes
\* 0 to every type.
SetUsageRequest(g, t) == 0

AfterSet(g) ==
  IF changed[g]
    THEN pc' = [pc EXCEPT ![g] = "update"] /\ UNCHANGED <<base, obj, changed>>
    ELSE Done(g)

SetUsage(g) ==
  /\ pc[g] = "set"
  /\ usage' = [t \in Types |-> SetUsageRequest(g, t)]
  /\ AfterSet(g)
  /\ UNCHANGED <<consumed, versions, cache, bounds>>

\* The pipeline of SetUsage fails after some of its writes; the error is ignored.
SetUsageFails(g) ==
  /\ pc[g] = "set"
  /\ faults < MaxFaults
  /\ faults' = faults + 1
  /\ \E written \in SUBSET Types :
       usage' = [t \in Types |->
                   IF t \in written THEN SetUsageRequest(g, t) ELSE usage[t]]
  /\ AfterSet(g)
  /\ UNCHANGED <<consumed, versions, cache, edits, losses>>

\* Mutation: updates are not checked against the version they were made from.
AcceptsAny(v) == TRUE

\* Whether the API server takes an update made from version v.
Accepts(v) == v = Latest

UpdateStatus(g) ==
  /\ pc[g] = "update"
  /\ versions' = IF Accepts(base[g]) THEN Append(versions, obj[g]) ELSE versions
  /\ Done(g)
  /\ UNCHANGED <<usage, consumed, cache, bounds>>

\* GetUsage or the status update fails, or the gateway restarts and its cache
\* is filled again.
SyncFails(g) ==
  /\ faults < MaxFaults
  /\ faults' = faults + 1
  /\ \/ pc[g] \in {"get", "update"} /\ UNCHANGED cache
     \/ cache' = [cache EXCEPT ![g] = Latest]
  /\ Done(g)
  /\ UNCHANGED <<usage, consumed, versions, edits, losses>>

-----------------------------------------------------------------------------
\* A watch event brings the next version to the cache of gateway g.
Watch(g) ==
  /\ cache[g] < Latest
  /\ cache' = [cache EXCEPT ![g] = @ + 1]
  /\ UNCHANGED <<usage, consumed, versions, syncVars, bounds>>

TotalConsumed == FoldFunction(+, 0, consumed)

\* A response is charged (IncrUsage) by any gateway; a type may count nothing.
Charge(t) ==
  /\ TotalConsumed < MaxConsumed
  /\ usage' = [usage EXCEPT ![t] = @ + 1]
  /\ consumed' = [consumed EXCEPT ![t] = @ + 1]
  /\ UNCHANGED <<versions, cache, syncVars, bounds>>

\* The quota's spec is edited: a new version with the same status.
EditQuota ==
  /\ edits < MaxEdits
  /\ edits' = edits + 1
  /\ versions' = Append(versions, versions[Latest])
  /\ UNCHANGED <<usage, consumed, cache, syncVars, faults, losses>>

\* Redis restarts without its data.
RedisLoss ==
  /\ losses < MaxLosses
  /\ losses' = losses + 1
  /\ usage' = [t \in Types |-> 0]
  /\ UNCHANGED <<consumed, versions, cache, syncVars, edits, faults>>

Sync(g) == ListQuota(g) \/ GetUsage(g) \/ SetUsage(g) \/ UpdateStatus(g)

Next ==
  \/ \E g \in Gateways : \/ Sync(g) \/ SetUsageFails(g) \/ SyncFails(g)
                         \/ Watch(g)
  \/ \E t \in Types : Charge(t)
  \/ EditQuota \/ RedisLoss

Spec == Init /\ [][Next]_vars

\* The ticker fires again and again, its calls return, and watch events arrive.
FairSpec == /\ Spec
            /\ \A g \in Gateways : WF_vars(Sync(g)) /\ WF_vars(Watch(g))
-----------------------------------------------------------------------------
\* The types of the variables: a sync holds a version that exists, and only a
\* sync that has listed the quota holds a status.
TypeOK ==
  /\ usage \in [Types -> Nat]
  /\ consumed \in [Types -> Nat]
  /\ versions \in Seq([Types -> Nat \cup {Absent}]) /\ versions # <<>>
  /\ cache \in [Gateways -> 1 .. Latest]
  /\ pc \in [Gateways -> {"idle", "get", "set", "update"}]
  /\ base \in [Gateways -> 1 .. Latest]
  /\ obj \in [Gateways -> [Types -> Nat \cup {Absent}]]
  /\ changed \in [Gateways -> BOOLEAN]
  /\ edits \in 0 .. MaxEdits /\ faults \in 0 .. MaxFaults
  /\ losses \in 0 .. MaxLosses

\* The used values of the quota's status never go down: several gateways write
\* them from stale caches and from counters they read at different times, and
\* only the resource version of Status().Update stops an older value from
\* replacing a newer one.
StatusMonotone ==
  [][\A t \in Types : versions'[Len(versions')][t] >= versions[Latest][t]]_vars

\* syncQuotaUsage never reports usage that was not charged, whatever is lost.
StatusIsReal ==
  \A t \in Types : versions[Latest][t] <= consumed[t]

\* As long as Redis keeps its data no charge is undone: SetUsage, which writes 0
\* to every counter, runs only if a status is ahead of the counter it is
\* compared with, and the listed status, however stale, never is.
ChargesKept ==
  losses = 0 => \A t \in Types : usage[t] = consumed[t]

\* As long as Redis keeps its data, the status ends up at the counters and stays
\* there once charges stop: a conflicting update, a failed call or a restart only
\* delays syncQuotaUsage.
StatusConverges ==
  <>[](losses = 0 => \A t \in Types : versions[Latest][t] = usage[t])

\* SetUsage brings the counters back to what the status records, as the comment
\* "set usage to quotaService if outdated" of syncQuotaUsage says.
SyncRestoresUsage ==
  [][\A g \in Gateways :
       SetUsage(g) => \A t \in Types : usage'[t] >= versions[base[g]][t]]_vars
=============================================================================

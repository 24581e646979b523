--------------------------- MODULE QuotaSyncProofs ---------------------------
(***************************************************************************)
(* Proofs about QuotaSync for any number of gateways, types, charges,      *)
(* edits, faults and losses: the types, that the status reports only what  *)
(* was charged and never goes down, and that no charge is undone while     *)
(* Redis keeps its data.                                                   *)
(***************************************************************************)
EXTENDS QuotaSync, TLAPS

\* The inductive invariant.  Nothing that is anywhere in the system (a counter,
\* a version, a status about to be written) exceeds what was charged; versions
\* only grow, also the one that a sync is about to add; and as long as Redis has
\* lost nothing no status is ahead of its counter, so no sync gets to SetUsage.
CountersReal == \A t \in Types : usage[t] <= consumed[t]

VersionsReal == \A v \in 1 .. Latest : \A t \in Types : versions[v][t] <= consumed[t]

ObjectsReal == \A g \in Gateways : \A t \in Types : obj[g][t] <= consumed[t]

VersionsGrow ==
  \A v, w \in 1 .. Latest : v <= w => \A t \in Types : versions[v][t] <= versions[w][t]

ObjectsGrow ==
  \A g \in Gateways : pc[g] # "idle" =>
    \A t \in Types : versions[base[g]][t] <= obj[g][t]

NothingLost ==
  losses = 0 => /\ \A t \in Types : usage[t] = consumed[t]
                /\ \A g \in Gateways : pc[g] # "set"

SyncInv ==
  /\ TypeOK
  /\ CountersReal /\ VersionsReal /\ ObjectsReal
  /\ VersionsGrow /\ ObjectsGrow
  /\ NothingLost

-----------------------------------------------------------------------------
\* The status of no type is a status.
LEMMA NoStatusType == NoStatus \in [Types -> Nat \cup {Absent}]
  BY DEF NoStatus

\* The initial state satisfies the invariant.
LEMMA InitInv == Init => SyncInv
  <1> SUFFICES ASSUME Init PROVE SyncInv
    OBVIOUS
  <1> USE SyncAssumption, NoStatusType DEF Init, Latest
  <1>1. versions \in Seq([Types -> Nat \cup {Absent}]) /\ Len(versions) = 1
    OBVIOUS
  <1>2. TypeOK
    BY <1>1 DEF TypeOK
  <1>3. CountersReal /\ VersionsReal /\ ObjectsReal
    BY <1>1 DEF CountersReal, VersionsReal, ObjectsReal, NoStatus, Absent
  <1>4. VersionsGrow /\ ObjectsGrow /\ NothingLost
    BY <1>1 DEF VersionsGrow, ObjectsGrow, NothingLost, NoStatus, Absent
  <1> QED
    BY <1>2, <1>3, <1>4 DEF SyncInv

\* What Merged makes of a status is a status that is not behind it and, like it
\* and the counters, reports nothing that was not charged.
LEMMA MergedFacts ==
  ASSUME TypeOK, CountersReal,
         NEW used \in [Types -> Nat \cup {Absent}],
         \A t \in Types : used[t] <= consumed[t]
  PROVE  /\ Merged(used) \in [Types -> Nat \cup {Absent}]
         /\ \A t \in Types : /\ Merged(used)[t] <= consumed[t]
                             /\ used[t] <= Merged(used)[t]
  <1>1. /\ usage \in [Types -> Nat] /\ consumed \in [Types -> Nat]
        /\ \A t \in Types : usage[t] <= consumed[t]
    BY DEF TypeOK, CountersReal
  <1>2. ASSUME NEW t \in Types
        PROVE  /\ Merged(used)[t] \in Nat \cup {Absent}
               /\ Merged(used)[t] <= consumed[t]
               /\ used[t] <= Merged(used)[t]
    <2>1. /\ usage[t] \in Nat /\ consumed[t] \in Nat /\ usage[t] <= consumed[t]
          /\ used[t] \in Nat \cup {Absent} /\ used[t] <= consumed[t]
      BY <1>1
    <2>2. Merged(used)[t] = IF used[t] < usage[t] THEN usage[t] ELSE used[t]
      BY DEF Merged
    <2> QED
      BY <2>1, <2>2 DEF Absent
  <1> QED
    BY <1>2 DEF Merged

\* The sync that is over holds values of the right types.
LEMMA DoneType ==
  ASSUME TypeOK, NEW g \in Gateways, Done(g)
  PROVE  /\ pc' \in [Gateways -> {"idle", "get", "set", "update"}]
         /\ base' \in [Gateways -> 1 .. Latest]
         /\ obj' \in [Gateways -> [Types -> Nat \cup {Absent}]]
         /\ changed' \in [Gateways -> BOOLEAN]
  BY NoStatusType DEF TypeOK, Done, Latest

\* So does the sync after SetUsage.
LEMMA AfterSetType ==
  ASSUME TypeOK, NEW g \in Gateways, AfterSet(g)
  PROVE  /\ pc' \in [Gateways -> {"idle", "get", "set", "update"}]
         /\ base' \in [Gateways -> 1 .. Latest]
         /\ obj' \in [Gateways -> [Types -> Nat \cup {Absent}]]
         /\ changed' \in [Gateways -> BOOLEAN]
  <1>1. CASE changed[g]
    BY <1>1 DEF AfterSet, TypeOK
  <1>2. CASE ~changed[g]
    BY <1>2, DoneType DEF AfterSet
  <1> QED
    BY <1>1, <1>2

-----------------------------------------------------------------------------
\* Every step of the sync keeps the types of its variables.
LEMMA TypeOKStep == TypeOK /\ [Next]_vars => TypeOK'
  <1> SUFFICES ASSUME TypeOK, [Next]_vars PROVE TypeOK'
    OBVIOUS
  <1> USE SyncAssumption, NoStatusType DEF TypeOK, Latest, bounds, syncVars
  <1>1. ASSUME NEW g \in Gateways, ListQuota(g) PROVE TypeOK'
    BY <1>1 DEF ListQuota
  <1>2. ASSUME NEW g \in Gateways, GetUsage(g) PROVE TypeOK'
    <2>1. Merged(obj[g]) \in [Types -> Nat \cup {Absent}]
      BY DEF Merged
    <2>2. Behind(obj[g]) \in BOOLEAN
      BY DEF Behind
    <2>3. CASE Done(g)
      BY <1>2, <2>3, DoneType DEF GetUsage
    <2>4. CASE ~Done(g)
      <3>1. /\ pc' \in [Gateways -> {"idle", "get", "set", "update"}]
            /\ obj' = [obj EXCEPT ![g] = Merged(obj[g])]
            /\ changed' = [changed EXCEPT ![g] = Behind(obj[g])]
            /\ UNCHANGED <<base, usage, consumed, versions, cache, edits, faults, losses>>
        BY <1>2, <2>4 DEF GetUsage
      <3> QED
        BY <2>1, <2>2, <3>1
    <2> QED
      BY <2>3, <2>4
  <1>3. ASSUME NEW g \in Gateways, SetUsage(g) PROVE TypeOK'
    BY <1>3, AfterSetType DEF SetUsage, SetUsageRequest
  <1>4. ASSUME NEW g \in Gateways, UpdateStatus(g) PROVE TypeOK'
    BY <1>4 DEF UpdateStatus, Done
  <1>5. ASSUME NEW g \in Gateways, SetUsageFails(g) PROVE TypeOK'
    BY <1>5, AfterSetType DEF SetUsageFails, SetUsageRequest
  <1>6. ASSUME NEW g \in Gateways, SyncFails(g) PROVE TypeOK'
    BY <1>6 DEF SyncFails, Done
  <1>7. ASSUME NEW g \in Gateways, Watch(g) PROVE TypeOK'
    BY <1>7 DEF Watch
  <1>8. ASSUME NEW t \in Types, Charge(t) PROVE TypeOK'
    <2>1. usage' \in [Types -> Nat] /\ consumed' \in [Types -> Nat]
      BY <1>8 DEF Charge
    <2> QED
      BY <1>8, <2>1 DEF Charge
  <1>9. CASE EditQuota
    BY <1>9 DEF EditQuota
  <1>10. CASE RedisLoss
    BY <1>10 DEF RedisLoss
  <1>11. CASE UNCHANGED vars
    BY <1>11 DEF vars
  <1> QED
    BY <1>1, <1>2, <1>3, <1>4, <1>5, <1>6, <1>7, <1>8, <1>9, <1>10, <1>11 DEF Next, Sync

-----------------------------------------------------------------------------
\* The sync that is over holds nothing, and neither is it about to call SetUsage.
LEMMA DoneFacts ==
  ASSUME SyncInv, NEW g \in Gateways, Done(g)
  PROVE  /\ \A h \in Gateways : \A t \in Types : obj'[h][t] <= consumed[t]
         /\ \A h \in Gateways : pc'[h] # "idle" =>
              pc'[h] = pc[h] /\ base'[h] = base[h] /\ obj'[h] = obj[h]
  <1>1. /\ pc \in [Gateways -> {"idle", "get", "set", "update"}]
        /\ base \in [Gateways -> 1 .. Latest]
        /\ obj \in [Gateways -> [Types -> Nat \cup {Absent}]]
        /\ consumed \in [Types -> Nat]
    BY DEF SyncInv, TypeOK
  <1>2. ASSUME NEW h \in Gateways PROVE \A t \in Types : obj'[h][t] <= consumed[t]
    <2>1. CASE h = g
      BY <1>1, <2>1 DEF Done, NoStatus, Absent
    <2>2. CASE h # g
      BY <1>1, <2>2 DEF Done, SyncInv, ObjectsReal
    <2> QED
      BY <2>1, <2>2
  <1>3. ASSUME NEW h \in Gateways, pc'[h] # "idle"
        PROVE  pc'[h] = pc[h] /\ base'[h] = base[h] /\ obj'[h] = obj[h]
    BY <1>1, <1>3 DEF Done
  <1> QED
    BY <1>2, <1>3

\* The same holds after SetUsage, which goes on to the status update at most.
LEMMA AfterSetFacts ==
  ASSUME SyncInv, NEW g \in Gateways, AfterSet(g)
  PROVE  /\ \A h \in Gateways : \A t \in Types : obj'[h][t] <= consumed[t]
         /\ \A h \in Gateways : pc'[h] # "idle" =>
              /\ pc[h] # "idle" \/ h = g
              /\ base'[h] = base[h] /\ obj'[h] = obj[h]
              /\ pc'[h] = "set" => pc[h] = "set"
  <1>1. CASE changed[g]
    BY <1>1 DEF AfterSet, SyncInv, ObjectsReal, TypeOK
  <1>2. CASE ~changed[g]
    BY <1>2, DoneFacts DEF AfterSet
  <1> QED
    BY <1>1, <1>2

\* What a version that the API server adds changes.
LEMMA AppendFacts ==
  ASSUME TypeOK, NEW s \in [Types -> Nat \cup {Absent}],
         versions' = Append(versions, s)
  PROVE  /\ Latest \in Nat \ {0} /\ Latest' = Latest + 1
         /\ \A v \in 1 .. Latest : versions'[v] = versions[v]
         /\ versions'[Latest'] = s
  BY DEF TypeOK, Latest

\* A version that is not behind the latest one and reports only what was charged
\* keeps what holds of the versions, and of the syncs that have listed one.
LEMMA AppendKeeps ==
  ASSUME SyncInv, NEW s \in [Types -> Nat \cup {Absent}],
         versions' = Append(versions, s), UNCHANGED consumed,
         \A t \in Types : s[t] <= consumed[t] /\ versions[Latest][t] <= s[t]
  PROVE  /\ VersionsReal' /\ VersionsGrow'
         /\ \A g \in Gateways : versions'[base[g]] = versions[base[g]]
  <1>1. /\ Latest \in Nat \ {0} /\ Latest' = Latest + 1
        /\ \A v \in 1 .. Latest : versions'[v] = versions[v]
        /\ versions'[Latest'] = s
    BY AppendFacts DEF SyncInv
  <1>2. /\ \A g \in Gateways : base[g] \in 1 .. Latest
        /\ consumed \in [Types -> Nat]
        /\ \A v \in 1 .. Latest : versions[v] \in [Types -> Nat \cup {Absent}]
    BY DEF SyncInv, TypeOK, Latest
  <1>3. VersionsReal'
    <2> SUFFICES ASSUME NEW v \in 1 .. Latest', NEW t \in Types
                 PROVE  versions'[v][t] <= consumed'[t]
      BY DEF VersionsReal
    <2>1. CASE v = Latest'
      BY <1>1, <2>1
    <2>2. CASE v # Latest'
      <3>1. v \in 1 .. Latest
        BY <1>1, <2>2
      <3> QED
        BY <1>1, <3>1 DEF SyncInv, VersionsReal
    <2> QED
      BY <2>1, <2>2
  <1>4. VersionsGrow'
    <2> SUFFICES ASSUME NEW v \in 1 .. Latest', NEW w \in 1 .. Latest', v <= w,
                        NEW t \in Types
                 PROVE  versions'[v][t] <= versions'[w][t]
      BY DEF VersionsGrow
    <2>1. CASE w # Latest'
      <3>1. v \in 1 .. Latest /\ w \in 1 .. Latest
        BY <1>1, <2>1
      <3> QED
        BY <1>1, <3>1 DEF SyncInv, VersionsGrow
    <2>2. CASE w = Latest' /\ v # Latest'
      <3>1. v \in 1 .. Latest /\ Latest \in 1 .. Latest /\ v <= Latest
        BY <1>1, <2>2
      <3>2. versions[v][t] <= versions[Latest][t] /\ versions[Latest][t] <= s[t]
        BY <3>1 DEF SyncInv, VersionsGrow
      <3>3. /\ versions[v][t] \in Nat \cup {Absent} /\ s[t] \in Nat \cup {Absent}
            /\ versions[Latest][t] \in Nat \cup {Absent}
        BY <1>2, <3>1
      <3>4. versions[v][t] <= s[t]
        BY <3>2, <3>3 DEF Absent
      <3>5. versions'[v] = versions[v] /\ versions'[w] = s
        BY <1>1, <2>2, <3>1
      <3> QED
        BY <3>4, <3>5
    <2>3. CASE w = Latest' /\ v = Latest'
      <3>1. s[t] \in Nat \cup {Absent}
        OBVIOUS
      <3>2. s[t] <= s[t]
        BY <3>1 DEF Absent
      <3> QED
        BY <1>1, <2>3, <3>2
    <2> QED
      BY <2>1, <2>2, <2>3
  <1> QED
    BY <1>1, <1>2, <1>3, <1>4

\* As long as neither the versions nor what was charged change, what holds of the
\* versions stays.
LEMMA VersionsKept ==
  ASSUME SyncInv, UNCHANGED <<versions, consumed>>
  PROVE  VersionsReal' /\ VersionsGrow'
  BY DEF SyncInv, VersionsReal, VersionsGrow, Latest

-----------------------------------------------------------------------------
\* Every step keeps the invariant.
LEMMA SyncInvStep == SyncInv /\ [Next]_vars => SyncInv'
  <1> SUFFICES ASSUME SyncInv, [Next]_vars PROVE SyncInv'
    OBVIOUS
  <1> USE DEF bounds, syncVars
  <1>0. TypeOK /\ TypeOK'
    BY TypeOKStep DEF SyncInv
  <1>1. ASSUME NEW g \in Gateways, ListQuota(g) PROVE SyncInv'
    <2>1. /\ cache[g] \in 1 .. Latest /\ versions[cache[g]] \in [Types -> Nat \cup {Absent}]
          /\ pc' = [pc EXCEPT ![g] = "get"]
          /\ base' = [base EXCEPT ![g] = cache[g]]
          /\ obj' = [obj EXCEPT ![g] = versions[cache[g]]]
          /\ UNCHANGED <<usage, consumed, versions, losses>>
      BY <1>0, <1>1 DEF ListQuota, TypeOK, Latest
    <2>2. CountersReal' /\ VersionsReal' /\ VersionsGrow'
      BY <2>1, VersionsKept DEF SyncInv, CountersReal
    <2>3. ObjectsReal'
      BY <1>0, <2>1 DEF SyncInv, TypeOK, ObjectsReal, VersionsReal
    <2>4. ObjectsGrow'
      <3>1. \A t \in Types : versions[cache[g]][t] <= versions[cache[g]][t]
        BY <2>1 DEF Absent
      <3> QED
        BY <1>0, <2>1, <3>1 DEF SyncInv, TypeOK, ObjectsGrow
    <2>5. NothingLost'
      BY <1>0, <2>1 DEF SyncInv, TypeOK, NothingLost
    <2> QED
      BY <1>0, <2>2, <2>3, <2>4, <2>5 DEF SyncInv
  <1>2. ASSUME NEW g \in Gateways, GetUsage(g) PROVE SyncInv'
    <2>1. pc[g] = "get" /\ UNCHANGED <<usage, consumed, versions, losses>>
      BY <1>2 DEF GetUsage
    <2>2. CountersReal' /\ VersionsReal' /\ VersionsGrow'
      BY <2>1, VersionsKept DEF SyncInv, CountersReal
    <2>3. CASE Done(g)
      BY <1>0, <2>1, <2>2, <2>3, DoneFacts
         DEF SyncInv, ObjectsReal, ObjectsGrow, NothingLost
    <2>4. CASE ~Done(g)
      <3>1. /\ pc' = [pc EXCEPT ![g] = IF Ahead(obj[g]) THEN "set" ELSE "update"]
            /\ obj' = [obj EXCEPT ![g] = Merged(obj[g])]
            /\ UNCHANGED base
        BY <1>2, <2>4 DEF GetUsage
      <3>2. /\ obj[g] \in [Types -> Nat \cup {Absent}]
            /\ \A t \in Types : obj[g][t] <= consumed[t]
            /\ \A t \in Types : versions[base[g]][t] <= obj[g][t]
            /\ versions[base[g]] \in [Types -> Nat \cup {Absent}]
        <4>1. base[g] \in 1 .. Latest
          BY <1>0 DEF TypeOK
        <4>2. versions[base[g]] \in [Types -> Nat \cup {Absent}]
          BY <1>0, <4>1 DEF TypeOK, Latest
        <4>3. /\ \A t \in Types : obj[g][t] <= consumed[t]
              /\ \A t \in Types : versions[base[g]][t] <= obj[g][t]
          BY <2>1 DEF SyncInv, ObjectsReal, ObjectsGrow
        <4> QED
          BY <1>0, <4>2, <4>3 DEF TypeOK
      <3>3. /\ Merged(obj[g]) \in [Types -> Nat \cup {Absent}]
            /\ \A t \in Types : /\ Merged(obj[g])[t] <= consumed[t]
                                /\ obj[g][t] <= Merged(obj[g])[t]
        BY <1>0, <3>2, MergedFacts DEF SyncInv
      <3>4. \A t \in Types : versions[base[g]][t] <= Merged(obj[g])[t]
        BY <3>2, <3>3 DEF Absent
      <3>5. ObjectsReal'
        BY <1>0, <2>1, <3>1, <3>3 DEF SyncInv, TypeOK, ObjectsReal
      <3>6. ObjectsGrow'
        BY <1>0, <2>1, <3>1, <3>4 DEF SyncInv, TypeOK, ObjectsGrow
      <3>7. ASSUME losses = 0 PROVE ~Ahead(obj[g])
        <4> SUFFICES ASSUME NEW t \in Types PROVE ~(obj[g][t] > usage[t])
          BY DEF Ahead
        <4>1. /\ obj[g][t] \in Nat \cup {Absent} /\ obj[g][t] <= consumed[t]
              /\ usage[t] \in Nat /\ usage[t] = consumed[t]
          BY <1>0, <3>2, <3>7 DEF SyncInv, NothingLost, TypeOK
        <4> QED
          BY <4>1 DEF Absent
      <3>8. NothingLost'
        BY <1>0, <2>1, <3>1, <3>7 DEF SyncInv, TypeOK, NothingLost
      <3> QED
        BY <1>0, <2>2, <3>5, <3>6, <3>8 DEF SyncInv
    <2> QED
      BY <2>3, <2>4
  <1>3. ASSUME NEW g \in Gateways, SetUsage(g) \/ SetUsageFails(g) PROVE SyncInv'
    <2>1. /\ pc[g] = "set" /\ AfterSet(g)
          /\ \A t \in Types : usage'[t] \in {0, usage[t]}
          /\ UNCHANGED <<consumed, versions, losses>>
      BY <1>0, <1>3 DEF SetUsage, SetUsageFails, SetUsageRequest, TypeOK
    <2>2. CountersReal'
      <3> SUFFICES ASSUME NEW t \in Types PROVE usage'[t] <= consumed'[t]
        BY DEF CountersReal
      <3>1. consumed[t] \in Nat /\ usage[t] <= consumed[t]
        BY <1>0 DEF SyncInv, CountersReal, TypeOK
      <3> QED
        BY <2>1, <3>1
    <2>3. ObjectsReal' /\ ObjectsGrow'
      BY <1>0, <2>1, AfterSetFacts DEF SyncInv, ObjectsReal, ObjectsGrow
    <2>4. NothingLost'
      BY <2>1 DEF SyncInv, NothingLost
    <2> QED
      BY <1>0, <2>1, <2>2, <2>3, <2>4, VersionsKept DEF SyncInv
  <1>4. ASSUME NEW g \in Gateways, UpdateStatus(g) PROVE SyncInv'
    <2>1. pc[g] = "update" /\ Done(g) /\ UNCHANGED <<usage, consumed, losses>>
      BY <1>4 DEF UpdateStatus
    <2>2. CountersReal' /\ ObjectsReal' /\ NothingLost'
      BY <2>1, DoneFacts DEF SyncInv, CountersReal, ObjectsReal, NothingLost
    <2>3. CASE UNCHANGED versions
      BY <1>0, <2>1, <2>2, <2>3, VersionsKept, DoneFacts DEF SyncInv, ObjectsGrow
    <2>4. CASE versions' # versions
      <3>1. versions' = Append(versions, obj[g]) /\ base[g] = Latest
        BY <1>4, <2>4 DEF UpdateStatus, Accepts
      <3>2. /\ obj[g] \in [Types -> Nat \cup {Absent}]
            /\ \A t \in Types : obj[g][t] <= consumed[t] /\ versions[Latest][t] <= obj[g][t]
        BY <1>0, <2>1, <3>1 DEF SyncInv, TypeOK, ObjectsReal, ObjectsGrow
      <3>3. /\ VersionsReal' /\ VersionsGrow'
            /\ \A h \in Gateways : versions'[base[h]] = versions[base[h]]
        BY <2>1, <3>1, <3>2, AppendKeeps
      <3>4. ObjectsGrow'
        BY <2>1, <3>3, DoneFacts DEF SyncInv, ObjectsGrow
      <3> QED
        BY <1>0, <2>2, <3>3, <3>4 DEF SyncInv
    <2> QED
      BY <2>3, <2>4
  <1>6. ASSUME NEW g \in Gateways, SyncFails(g) PROVE SyncInv'
    <2>1. Done(g) /\ UNCHANGED <<usage, consumed, versions, losses>>
      BY <1>6 DEF SyncFails
    <2> QED
      BY <1>0, <2>1, VersionsKept, DoneFacts
         DEF SyncInv, CountersReal, ObjectsReal, ObjectsGrow, NothingLost
  <1>7. ASSUME NEW g \in Gateways, Watch(g) PROVE SyncInv'
    <2>1. UNCHANGED <<usage, consumed, versions, pc, base, obj, losses>>
      BY <1>7 DEF Watch
    <2> QED
      BY <1>0, <2>1, VersionsKept
         DEF SyncInv, CountersReal, ObjectsReal, ObjectsGrow, NothingLost
  <1>8. ASSUME NEW t \in Types, Charge(t) PROVE SyncInv'
    <2>1. /\ usage' = [usage EXCEPT ![t] = usage[t] + 1]
          /\ consumed' = [consumed EXCEPT ![t] = consumed[t] + 1]
          /\ UNCHANGED <<versions, pc, base, obj, losses>>
      BY <1>8 DEF Charge
    <2>2. \A u \in Types : /\ consumed[u] \in Nat /\ usage[u] \in Nat
                           /\ consumed[u] <= consumed'[u]
                           /\ consumed'[u] \in Nat
                           /\ usage[u] <= consumed[u] => usage'[u] <= consumed'[u]
                           /\ usage[u] = consumed[u] => usage'[u] = consumed'[u]
      BY <1>0, <2>1 DEF TypeOK
    <2>3. CountersReal' /\ NothingLost'
      BY <2>1, <2>2 DEF SyncInv, CountersReal, NothingLost
    <2>4. VersionsReal'
      <3> SUFFICES ASSUME NEW v \in 1 .. Latest', NEW u \in Types
                   PROVE  versions'[v][u] <= consumed'[u]
        BY DEF VersionsReal
      <3>1. versions' = versions /\ v \in 1 .. Latest
        BY <2>1 DEF Latest
      <3>2. versions[v][u] \in Nat \cup {Absent} /\ versions[v][u] <= consumed[u]
        BY <1>0, <3>1 DEF SyncInv, TypeOK, VersionsReal, Latest
      <3> QED
        BY <2>2, <3>1, <3>2 DEF Absent
    <2>5. ObjectsReal'
      <3> SUFFICES ASSUME NEW g \in Gateways, NEW u \in Types
                   PROVE  obj'[g][u] <= consumed'[u]
        BY DEF ObjectsReal
      <3>1. obj[g][u] \in Nat \cup {Absent} /\ obj[g][u] <= consumed[u]
        BY <1>0 DEF SyncInv, TypeOK, ObjectsReal
      <3> QED
        BY <2>1, <2>2, <3>1 DEF Absent
    <2>6. VersionsGrow' /\ ObjectsGrow'
      BY <2>1 DEF SyncInv, VersionsGrow, ObjectsGrow, Latest
    <2> QED
      BY <1>0, <2>3, <2>4, <2>5, <2>6 DEF SyncInv
  <1>9. CASE EditQuota
    <2>1. /\ versions' = Append(versions, versions[Latest])
          /\ UNCHANGED <<usage, consumed, pc, base, obj, losses>>
      BY <1>9 DEF EditQuota
    <2>2. Latest \in 1 .. Latest /\ versions[Latest] \in [Types -> Nat \cup {Absent}]
      BY <1>0 DEF TypeOK, Latest
    <2>3. \A t \in Types : /\ versions[Latest][t] <= consumed[t]
                           /\ versions[Latest][t] <= versions[Latest][t]
      BY <2>2 DEF SyncInv, VersionsReal, VersionsGrow
    <2>4. /\ VersionsReal' /\ VersionsGrow'
          /\ \A h \in Gateways : versions'[base[h]] = versions[base[h]]
      BY <2>1, <2>2, <2>3, AppendKeeps
    <2> QED
      BY <1>0, <2>1, <2>4
         DEF SyncInv, CountersReal, ObjectsReal, ObjectsGrow, NothingLost
  <1>10. CASE RedisLoss
    <2>1. /\ \A t \in Types : usage'[t] = 0
          /\ losses' # 0
          /\ UNCHANGED <<consumed, versions, pc, base, obj>>
      BY <1>0, <1>10 DEF RedisLoss, TypeOK
    <2>2. CountersReal'
      BY <1>0, <2>1 DEF CountersReal, TypeOK
    <2> QED
      BY <1>0, <2>1, <2>2, VersionsKept DEF SyncInv, ObjectsReal, ObjectsGrow, NothingLost
  <1>11. CASE UNCHANGED vars
    BY <1>0, <1>11, VersionsKept
       DEF vars, SyncInv, CountersReal, ObjectsReal, ObjectsGrow, NothingLost
  <1> QED
    BY <1>1, <1>2, <1>3, <1>4, <1>6, <1>7, <1>8, <1>9, <1>10, <1>11 DEF Next, Sync

\* A step adds at most a version: those that there are stay.
LEMMA VersionsExtended ==
  ASSUME TypeOK, TypeOK', [Next]_vars
  PROVE  /\ Latest \in 1 .. Latest /\ Latest \in 1 .. Latest'
         /\ Latest' \in 1 .. Latest' /\ Latest <= Latest'
         /\ versions'[Latest] = versions[Latest]
  <1>1. \/ UNCHANGED versions
        \/ \E s \in [Types -> Nat \cup {Absent}] : versions' = Append(versions, s)
    <2>1. ASSUME NEW g \in Gateways, UpdateStatus(g)
          PROVE  \/ UNCHANGED versions
                 \/ \E s \in [Types -> Nat \cup {Absent}] : versions' = Append(versions, s)
      BY <2>1 DEF UpdateStatus, TypeOK
    <2>2. CASE EditQuota
      BY <2>2 DEF EditQuota, TypeOK, Latest
    <2> QED
      BY <2>1, <2>2 DEF Next, vars, Sync, ListQuota, GetUsage, SetUsage, SetUsageFails,
                        SyncFails, Watch, Charge, RedisLoss
  <1>2. CASE UNCHANGED versions
    BY <1>2 DEF TypeOK, Latest
  <1>3. ASSUME NEW s \in [Types -> Nat \cup {Absent}], versions' = Append(versions, s)
        PROVE  /\ Latest \in 1 .. Latest /\ Latest \in 1 .. Latest'
               /\ Latest' \in 1 .. Latest' /\ Latest <= Latest'
               /\ versions'[Latest] = versions[Latest]
    <2>1. /\ Latest \in Nat \ {0} /\ Latest' = Latest + 1
          /\ \A v \in 1 .. Latest : versions'[v] = versions[v]
      BY <1>3, AppendFacts
    <2> QED
      BY <2>1
  <1> QED
    BY <1>1, <1>2, <1>3

\* Every reachable state satisfies the invariant.
LEMMA SyncInvariance == Spec => []SyncInv
  BY InitInv, SyncInvStep, PTL DEF Spec

-----------------------------------------------------------------------------
\* The variables of syncQuotaUsage keep their types.
THEOREM TypeCorrect == Spec => []TypeOK
<1>1. SyncInv => TypeOK
  BY DEF SyncInv
<1> QED
  BY <1>1, SyncInvariance, PTL

\* However many gateways sync from however stale caches, the status never reports
\* usage that was not charged, also after Redis has lost its data.
THEOREM StatusReal == Spec => []StatusIsReal
<1>1. SyncInv => StatusIsReal
  <2> SUFFICES ASSUME SyncInv PROVE StatusIsReal
    OBVIOUS
  <2>1. Latest \in 1 .. Latest
    BY DEF SyncInv, TypeOK, Latest
  <2> QED
    BY <2>1 DEF SyncInv, VersionsReal, StatusIsReal
<1> QED
  BY <1>1, SyncInvariance, PTL

\* While Redis keeps its data no sync undoes a charge: SetUsage is not called.
THEOREM NoChargeUndone == Spec => []ChargesKept
<1>1. SyncInv => ChargesKept
  BY DEF SyncInv, NothingLost, ChargesKept
<1> QED
  BY <1>1, SyncInvariance, PTL

\* The used values that Status().Update writes never go down.
THEOREM StatusGrows == Spec => StatusMonotone
<1>1. SyncInv /\ SyncInv' /\ [Next]_vars =>
        [\A t \in Types : versions'[Len(versions')][t] >= versions[Latest][t]]_vars
  <2> SUFFICES ASSUME SyncInv, SyncInv', [Next]_vars, NEW t \in Types
               PROVE  versions'[Len(versions')][t] >= versions[Latest][t]
    OBVIOUS
  <2>1. /\ Latest \in 1 .. Latest /\ Latest \in 1 .. Latest'
        /\ Latest' \in 1 .. Latest' /\ Latest <= Latest'
        /\ versions'[Latest] = versions[Latest]
    <3>1. TypeOK /\ TypeOK'
      BY DEF SyncInv
    <3> QED
      BY <3>1, VersionsExtended
  <2>2. versions'[Latest][t] <= versions'[Latest'][t]
    BY <2>1 DEF SyncInv, VersionsGrow
  <2>3. /\ versions'[Latest][t] \in Nat \cup {Absent}
        /\ versions'[Latest'][t] \in Nat \cup {Absent}
    BY SMTT(60), <2>1 DEF SyncInv, TypeOK, Latest
  <2> QED
    BY <2>1, <2>2, <2>3 DEF Latest, Absent
<1> QED
  BY <1>1, SyncInvariance, PTL DEF Spec, StatusMonotone
=============================================================================

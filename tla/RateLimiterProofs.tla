-------------------------- MODULE RateLimiterProofs --------------------------
(***************************************************************************)
(* Proofs about RateLimiter: its keys count every increment of the current *)
(* window, DoLimit implements WindowCounter, a key of the current window   *)
(* has an expiry or gets one, and the calls are all or nothing, for any    *)
(* number of callers, rules, faults and retries.  The last one needs sums, *)
(* about which the module proves what it uses by induction over finite     *)
(* sets.                                                                   *)
(***************************************************************************)
EXTENDS RateLimiter, FiniteSetTheorems, TLAPS

\* getWindowStart returns an instant of the past, and t lies in the period
\* that starts there.
LEMMA WindowHoldsTime ==
  ASSUME NEW t \in Nat, NEW p \in Nat \ {0}
  PROVE  /\ WindowStart(t, p) \in 0..t
         /\ t < WindowStart(t, p) + p
  BY DEF WindowStart

\* When getWindowStart is asked one second later it returns the same window,
\* or one that starts at that second.
LEMMA WindowStep ==
  ASSUME NEW t \in Nat, NEW p \in Nat \ {0}
  PROVE  WindowStart(t + 1, p) \in {WindowStart(t, p), t + 1}
<1> DEFINE q == t \div p
           r == t % p
           d == (t + 1) \div p
           u == (t + 1) % p
<1>1. q \in Int /\ d \in Int /\ r \in 0..(p - 1) /\ u \in 0..(p - 1)
  OBVIOUS
<1>2. t = p * q + r /\ t + 1 = p * d + u
  OBVIOUS
<1> HIDE DEF q, r, d, u
<1>3. p * (d - q) = 1 + r - u
  BY <1>1, <1>2
<1>4. CASE d - q >= 1
  <2>1. p * (d - q) >= p
    BY <1>1, <1>4
  <2>2. u = 0
    BY <1>1, <1>3, <2>1
  <2> QED
    BY <2>2 DEF WindowStart, u
<1>5. CASE d - q <= -1
  <2>1. p * (d - q) <= -p
    BY <1>1, <1>5
  <2> QED
    BY <2>1, <1>1, <1>3
<1>6. CASE d - q = 0
  <2>1. u = 1 + r
    BY <1>1, <1>3, <1>6
  <2> QED
    BY <2>1, <1>1 DEF WindowStart, u, r
<1> QED
  BY <1>1, <1>4, <1>5, <1>6

\* A call works at a time that has come, and adds something.
CallsInv ==
  \A c \in Callers : at[c] <= now /\ (pc[c] # "idle" => amount[c] > 0)

\* An expiry lets a key live to the end of its window at least.
ExpiryInv ==
  \A r \in Rules, w \in Times :
    exp[r][w] # NoExpiry => exp[r][w] >= w + Period[r]

\* Until a window is over its key holds all that was added for it.
ExactInv ==
  \A r \in Rules, w \in Times :
    now < w + Period[r] => val[r][w] = total[r][w]

\* Windows that have not started hold nothing.
FutureInv ==
  \A r \in Rules, w \in Times : w > now => val[r][w] = 0

KeyInv == TypeOK /\ CallsInv /\ ExpiryInv /\ ExactInv /\ FutureInv

\* The window of an instant of the run is one of the run's windows.
LEMMA WindowType ==
  ASSUME NEW r \in Rules, NEW t \in Times
  PROVE  /\ Window(r, t) \in Times /\ Window(r, t) <= t
         /\ t < Window(r, t) + Period[r]
         /\ Period[r] \in Nat \ {0}
<1>1. t \in Nat /\ Period[r] \in Nat \ {0} /\ MaxTime \in Nat /\ t <= MaxTime
  BY LimiterAssumption DEF Times
<1>2. WindowStart(t, Period[r]) \in 0..t /\ t < WindowStart(t, Period[r]) + Period[r]
  BY <1>1, WindowHoldsTime
<1> QED
  BY <1>1, <1>2 DEF Window, Times

\* Every step of DoLimit, of Redis and of the clock keeps the types.
LEMMA TypeOKStep == TypeOK /\ [Next]_vars => TypeOK'
<1> SUFFICES ASSUME TypeOK, [Next]_vars
             PROVE  TypeOK'
  OBVIOUS
<1> USE DEF TypeOK, redis, callVars
<1>1. CASE UNCHANGED vars
  BY <1>1 DEF vars
<1>2. CASE Tick
  BY <1>2, LimiterAssumption DEF Tick, Times
<1>3. ASSUME NEW c \in Callers, Return(c)
      PROVE  /\ pc' \in [Callers -> {"idle", "ttl", "exec"}]
             /\ at' \in [Callers -> Times]
             /\ amount' \in [Callers -> Nat]
             /\ ttlLeft' \in [Callers -> SUBSET Rules]
             /\ expire' \in [Callers -> SUBSET Rules]
             /\ incrLeft' \in [Callers -> SUBSET Rules]
             /\ expLeft' \in [Callers -> SUBSET Rules]
             /\ tries' \in [Callers -> 0..MaxRetries]
  BY <1>3, LimiterAssumption DEF Return, Times
<1>4. ASSUME NEW c \in Callers, DoLimit(c)
      PROVE  TypeOK'
  BY <1>4, LimiterAssumption DEF DoLimit
<1>5. ASSUME NEW c \in Callers, NEW r \in Rules, ReadTTL(c, r)
      PROVE  TypeOK'
  BY <1>5 DEF ReadTTL
<1>6. ASSUME NEW c \in Callers, NEW r \in Rules, IncrBy(c, r)
      PROVE  TypeOK'
  <2>1. Window(r, at[c]) \in Times /\ amount[c] \in Nat
    BY WindowType
  <2> QED
    BY <1>6, <2>1 DEF IncrBy
<1>7. ASSUME NEW c \in Callers, NEW r \in Rules, Expire(c, r)
      PROVE  TypeOK'
  <2>1. Window(r, at[c]) \in Times /\ Period[r] \in Nat
    BY WindowType
  <2>2. now \in Nat /\ MaxJitter \in Nat
    BY LimiterAssumption DEF Times
  <2>3. ASSUME NEW e \in Expirations(r)
        PROVE  e \in Nat
    <3>1. PICK j \in 0..MaxJitter : e = now + Period[r] + j
      BY DEF Expirations
    <3> QED
      BY <2>1, <2>2, <3>1
  <2>4. exp' \in [Rules -> [Times -> Nat \cup {NoExpiry}]]
    <3>1. CASE exp' = exp
      BY <3>1
    <3>2. CASE \E e \in Expirations(r) : exp' = [exp EXCEPT ![r][Window(r, at[c])] = e]
      BY <2>1, <2>3, <3>2
    <3> QED
      BY <1>7, <3>1, <3>2 DEF Expire
  <2> QED
    BY <1>7, <2>4 DEF Expire
<1>8. ASSUME NEW c \in Callers, Exec(c)
      PROVE  TypeOK'
  BY <1>8 DEF Exec
<1>9. ASSUME NEW c \in Callers, ExecDone(c) \/ ReadTTLFails(c)
      PROVE  TypeOK'
  BY <1>3, <1>9 DEF ExecDone, ReadTTLFails
<1>10. ASSUME NEW c \in Callers, ExecFails(c)
       PROVE  TypeOK'
  <2>1. faults' \in 0..MaxFaults
    BY <1>10, LimiterAssumption DEF ExecFails
  <2>2. CASE Return(c)
    BY <1>3, <1>10, <2>1, <2>2 DEF ExecFails
  <2>3. CASE ~Return(c)
    <3>1. tries[c] < MaxRetries /\ tries' = [tries EXCEPT ![c] = @ + 1]
      BY <1>10, <2>3 DEF ExecFails
    <3>2. tries' \in [Callers -> 0..MaxRetries]
      BY <3>1, LimiterAssumption
    <3>3. /\ incrLeft' = [incrLeft EXCEPT ![c] = Rules]
          /\ expLeft' = [expLeft EXCEPT ![c] = expire[c]]
          /\ UNCHANGED <<pc, at, amount, ttlLeft, expire, now, redis, calls, total>>
      BY <1>10, <2>3 DEF ExecFails
    <3> QED
      BY <2>1, <3>2, <3>3
  <2> QED
    BY <2>2, <2>3
<1> QED
  BY <1>1, <1>2, <1>4, <1>5, <1>6, <1>7, <1>8, <1>9, <1>10 DEF Next, Call, Fault

-----------------------------------------------------------------------------
\* A key whose window is not over when the clock has moved is not dropped.
LEMMA KeepsKey ==
  ASSUME KeyInv, Tick, NEW r \in Rules, NEW w \in Times, now' < w + Period[r]
  PROVE  /\ ~Expired(r, w, now')
         /\ val'[r][w] = val[r][w]
<1>1. /\ now' \in Nat /\ Period[r] \in Nat /\ w \in Nat
      /\ exp[r][w] \in Nat \cup {NoExpiry}
  BY LimiterAssumption DEF KeyInv, TypeOK, Tick, Times
<1>2. exp[r][w] # NoExpiry => exp[r][w] >= w + Period[r]
  BY DEF KeyInv, ExpiryInv
<1>3. ~Expired(r, w, now')
  BY <1>1, <1>2 DEF Expired
<1> QED
  BY <1>3 DEF Tick

\* Every step keeps the facts about keys.
LEMMA KeyInvStep == KeyInv /\ [Next]_vars => KeyInv'
<1> SUFFICES ASSUME KeyInv, [Next]_vars
             PROVE  KeyInv'
  OBVIOUS
<1>1. TypeOK /\ TypeOK'
  BY TypeOKStep DEF KeyInv
<1>2. now \in Nat
  BY <1>1, LimiterAssumption DEF TypeOK, Times
<1> USE DEF redis, callVars
<1>3. CASE Tick
  <2>1. now' = now + 1 /\ UNCHANGED <<callVars, total>>
    BY <1>3 DEF Tick
  <2>2. CallsInv'
    BY <1>1, <1>2, <2>1, LimiterAssumption DEF KeyInv, CallsInv, TypeOK, Times
  <2>3. ExpiryInv'
    BY <1>3 DEF KeyInv, ExpiryInv, Tick
  <2>4. ExactInv'
    <3> SUFFICES ASSUME NEW r \in Rules, NEW w \in Times, now' < w + Period[r]
                 PROVE  val'[r][w] = total[r][w]
      BY <2>1 DEF ExactInv
    <3>1. now < w + Period[r]
      BY <1>2, <2>1, LimiterAssumption DEF Times
    <3> QED
      BY <1>3, <3>1, KeepsKey DEF KeyInv, ExactInv
  <2>5. FutureInv'
    <3> SUFFICES ASSUME NEW r \in Rules, NEW w \in Times, w > now'
                 PROVE  val'[r][w] = 0
      BY DEF FutureInv
    <3>1. w > now
      BY <1>2, <2>1, LimiterAssumption DEF Times
    <3> QED
      BY <1>3, <3>1 DEF KeyInv, FutureInv, Tick
  <2> QED
    BY <1>1, <2>2, <2>3, <2>4, <2>5 DEF KeyInv
<1>4. ASSUME NEW c \in Callers, NEW r \in Rules, IncrBy(c, r)
      PROVE  KeyInv'
  <2> DEFINE v == Window(r, at[c])
  <2>1. v \in Times /\ v <= at[c] /\ at[c] <= now /\ at[c] \in Times
    BY <1>1, WindowType DEF TypeOK, KeyInv, CallsInv
  <2> HIDE DEF v
  <2>2. /\ val' = [val EXCEPT ![r][v] = @ + amount[c]]
        /\ total' = [total EXCEPT ![r][v] = @ + amount[c]]
        /\ UNCHANGED <<now, exp, pc, at, amount>>
    BY <1>4 DEF IncrBy, v
  <2>3. CallsInv' /\ ExpiryInv'
    BY <2>2 DEF KeyInv, CallsInv, ExpiryInv
  <2>4. ExactInv'
    BY <1>1, <2>1, <2>2 DEF KeyInv, ExactInv, TypeOK
  <2>5. ~(v > now)
    BY <1>2, <2>1, LimiterAssumption DEF Times
  <2>6. FutureInv'
    BY <1>1, <2>1, <2>2, <2>5 DEF KeyInv, FutureInv, TypeOK
  <2> QED
    BY <1>1, <2>3, <2>4, <2>6 DEF KeyInv
<1>5. ASSUME NEW c \in Callers, NEW r \in Rules, Expire(c, r)
      PROVE  KeyInv'
  <2> DEFINE v == Window(r, at[c])
  <2>1. /\ v \in Times /\ v <= at[c] /\ at[c] <= now /\ at[c] \in Times
        /\ Period[r] \in Nat
    BY <1>1, WindowType DEF TypeOK, KeyInv, CallsInv
  <2>2. v \in Nat /\ v <= now
    BY <1>2, <2>1, LimiterAssumption DEF Times
  <2>3. UNCHANGED <<now, val, total, pc, at, amount>>
    BY <1>5 DEF Expire
  <2>4. ExpiryInv'
    <3>1. CASE exp' = exp
      BY <3>1 DEF KeyInv, ExpiryInv
    <3>2. CASE \E e \in Expirations(r) : exp' = [exp EXCEPT ![r][v] = e]
      <4>1. PICK e \in Expirations(r) : exp' = [exp EXCEPT ![r][v] = e]
        BY <3>2
      <4>2. PICK j \in 0..MaxJitter : e = now + Period[r] + j
        BY DEF Expirations
      <4>3. e >= v + Period[r]
        BY <1>2, <2>1, <2>2, <4>2, LimiterAssumption
      <4> HIDE DEF v
      <4> QED
        BY <1>1, <2>1, <4>1, <4>3 DEF KeyInv, ExpiryInv, TypeOK
    <3> QED
      BY <1>5, <3>1, <3>2 DEF Expire
  <2>5. CallsInv' /\ ExactInv' /\ FutureInv'
    BY <2>3 DEF KeyInv, CallsInv, ExactInv, FutureInv
  <2> QED
    BY <1>1, <2>4, <2>5 DEF KeyInv
<1>6. ASSUME NEW c \in Callers, DoLimit(c)
      PROVE  KeyInv'
  <2>1. CallsInv'
    BY <1>1, <1>2, <1>6, LimiterAssumption DEF KeyInv, CallsInv, TypeOK, DoLimit, Times
  <2>2. ExpiryInv' /\ ExactInv' /\ FutureInv'
    BY <1>6 DEF KeyInv, ExpiryInv, ExactInv, FutureInv, DoLimit
  <2> QED
    BY <1>1, <2>1, <2>2 DEF KeyInv
<1>7. CASE \/ UNCHANGED vars
           \/ \E c \in Callers : \/ Exec(c) \/ ExecDone(c) \/ Fault(c)
                                \/ \E r \in Rules : ReadTTL(c, r)
  <2>1. UNCHANGED <<now, val, exp, total>>
    BY <1>7 DEF vars, Exec, ExecDone, Fault, ReadTTLFails, ExecFails, ReadTTL
  <2>2. CallsInv'
    <3>1. ASSUME NEW c \in Callers, Return(c)
          PROVE  CallsInv'
      BY <1>1, <1>2, <2>1, <3>1 DEF KeyInv, CallsInv, TypeOK, Return
    <3>2. CASE \/ UNCHANGED <<pc, at, amount>>
               \/ \E c \in Callers : Exec(c)
      BY <1>1, <2>1, <3>2 DEF KeyInv, CallsInv, TypeOK, Exec
    <3> QED
      BY <1>7, <3>1, <3>2
      DEF vars, ExecDone, Fault, ReadTTLFails, ExecFails, ReadTTL
  <2>3. ExpiryInv' /\ ExactInv' /\ FutureInv'
    BY <2>1 DEF KeyInv, ExpiryInv, ExactInv, FutureInv
  <2> QED
    BY <1>1, <2>2, <2>3 DEF KeyInv
<1> QED
  BY <1>3, <1>4, <1>5, <1>6, <1>7 DEF Next, Call

\* The facts about keys hold in every state.
LEMMA KeyInvariance == Spec => []KeyInv
<1>1. Init => KeyInv
  BY LimiterAssumption
  DEF Init, KeyInv, TypeOK, CallsInv, ExpiryInv, ExactInv, FutureInv, Times
<1> QED
  BY <1>1, KeyInvStep, PTL DEF Spec

\* What DoLimit keeps for its calls and in Redis stays of its type.
THEOREM TypeCorrect == Spec => []TypeOK
<1>1. KeyInv => TypeOK
  BY DEF KeyInv
<1> QED
  BY <1>1, KeyInvariance, PTL

\* Redis never drops, and DoLimit never overwrites, an increment of a window
\* that is not over.
THEOREM NoLostIncrement == Spec => []CurrentWindowExact
<1>1. KeyInv => CurrentWindowExact
  <2> SUFFICES ASSUME KeyInv, NEW r \in Rules
               PROVE  val[r][Window(r, now)] = total[r][Window(r, now)]
    BY DEF CurrentWindowExact
  <2>1. Window(r, now) \in Times /\ now < Window(r, now) + Period[r]
    BY WindowType DEF KeyInv, TypeOK
  <2> QED
    BY <2>1 DEF KeyInv, ExactInv
<1> QED
  BY <1>1, KeyInvariance, PTL

-----------------------------------------------------------------------------
\* DoLimit implements WindowCounter: seen through the keys of the current
\* windows, its steps increment one counter, move the clock, or do nothing.
THEOREM Refinement == Spec => ImplementsWindowCounter
<1> DEFINE bar == [r \in Rules |-> val[r][Window(r, now)]]
<1>1. Init => Counter!Init
  <2> SUFFICES ASSUME Init
               PROVE  bar = [r \in Rules |-> 0]
    BY DEF Init, Counter!Init
  <2>1. \A r \in Rules : Window(r, now) \in Times
    BY WindowType, LimiterAssumption DEF Init, Times
  <2> QED
    BY <2>1 DEF Init
<1>2. KeyInv /\ KeyInv' /\ [Next]_vars => [Counter!Next]_(Counter!vars)
  <2> SUFFICES ASSUME KeyInv, KeyInv', [Next]_vars
               PROVE  Counter!Next \/ (now' = now /\ bar' = bar)
    BY DEF Counter!vars
  <2>1. TypeOK /\ now \in Times /\ now' \in Times /\ now \in Nat
    <3>1. TypeOK /\ TypeOK'
      BY DEF KeyInv
    <3>2. now \in Times /\ now' \in Times
      BY <3>1 DEF TypeOK
    <3> QED
      BY <3>1, <3>2, LimiterAssumption DEF Times
  <2>2. \A r \in Rules : /\ Window(r, now) \in Times
                         /\ now < Window(r, now) + Period[r]
                         /\ Period[r] \in Nat \ {0}
    BY <2>1, WindowType
  <2>3. CASE Tick
    <3>1. now' = now + 1 /\ now' \in Times
      BY <2>1, <2>3 DEF Tick
    <3>2. ASSUME NEW r \in Rules
          PROVE  val'[r][Window(r, now')] =
                   IF WindowStart(now', Period[r]) = WindowStart(now, Period[r])
                     THEN bar[r] ELSE 0
      <4>1. Window(r, now') \in Times /\ now' < Window(r, now') + Period[r]
        BY <3>1, WindowType
      <4>2. val'[r][Window(r, now')] = val[r][Window(r, now')]
        BY <2>3, <4>1, KeepsKey
      <4>3. Window(r, now') \in {Window(r, now), now'}
        BY <2>1, <2>2, <3>1, WindowStep DEF Window
      <4>4. CASE Window(r, now') = Window(r, now)
        BY <4>2, <4>4 DEF Window
      <4>5. CASE Window(r, now') # Window(r, now)
        <5>1. Window(r, now') > now
          BY <2>1, <3>1, <4>3, <4>5
        <5>2. val[r][Window(r, now')] = 0
          BY <4>1, <5>1 DEF KeyInv, FutureInv
        <5> QED
          BY <4>2, <4>5, <5>2 DEF Window
      <4> QED
        BY <4>4, <4>5
    <3>3. bar' = [r \in Rules |->
                    IF WindowStart(now', Period[r]) = WindowStart(now, Period[r])
                      THEN bar[r] ELSE 0]
      BY <3>2 DEF Window
    <3> QED
      BY <3>1, <3>3
      DEF Counter!Next, Counter!Tick, Counter!WindowStart, WindowStart
  <2>4. ASSUME NEW c \in Callers, NEW r \in Rules, IncrBy(c, r)
        PROVE  Counter!Next \/ (now' = now /\ bar' = bar)
    <3> DEFINE v == Window(r, at[c])
               u == Window(r, now)
    <3>1. v \in Times /\ u \in Times /\ amount[c] \in Nat /\ amount[c] > 0
      BY <2>1, <2>2, <2>4, WindowType DEF TypeOK, KeyInv, CallsInv, IncrBy
    <3>2. now' = now /\ val' = [val EXCEPT ![r][v] = @ + amount[c]]
      BY <2>4 DEF IncrBy
    <3>3. \A o \in Rules \ {r} : bar'[o] = bar[o]
      BY <2>1, <3>2 DEF TypeOK, Window
    <3>4. CASE v = u
      <4>1. bar'[r] = val[r][u] + amount[c] /\ bar[r] = val[r][u]
        BY <2>1, <3>1, <3>2, <3>4 DEF TypeOK, Window
      <4>2. val[r][u] \in Nat
        <5>1. val \in [Rules -> [Times -> Nat]]
          BY <2>1 DEF TypeOK
        <5> HIDE DEF u
        <5> QED
          BY <3>1, <5>1
      <4>3. bar'[r] \in Nat /\ bar'[r] > bar[r]
        BY <3>1, <4>1, <4>2
      <4>4. bar' = [bar EXCEPT ![r] = bar'[r]]
        BY <3>3
      <4> QED
        BY <3>2, <4>3, <4>4 DEF Counter!Next, Counter!Increment
    <3>5. CASE v # u
      <4>1. bar'[r] = bar[r]
        BY <2>1, <3>1, <3>2, <3>5 DEF TypeOK, Window
      <4> QED
        BY <3>2, <3>3, <4>1
    <3> QED
      BY <3>4, <3>5
  <2>5. CASE UNCHANGED <<now, val>>
    BY <2>5 DEF Window
  <2> QED
    BY <2>3, <2>4, <2>5
    DEF Next, Call, Fault, DoLimit, ReadTTL, Expire, Exec, ExecDone,
        ReadTTLFails, ExecFails, vars, redis
<1> QED
  BY <1>1, <1>2, KeyInvariance, PTL DEF Spec, ImplementsWindowCounter, Counter!Spec

-----------------------------------------------------------------------------
\* The key of a window has an expiry, or the window is over.
Dated(r, w) == exp[r][w] # NoExpiry \/ now >= w + Period[r]

\* Commands wait only while their pipeline runs.
CommandsInv ==
  \A c \in Callers : pc[c] # "exec" => incrLeft[c] = {} /\ expLeft[c] = {}

\* A call that has read the TTL of a key without queuing EXPIRE has seen an
\* expiry, which is still there when its INCRBY runs unless the window is over.
SeenInv ==
  \A c \in Callers, r \in Rules :
    /\ pc[c] = "ttl" /\ r \notin ttlLeft[c] =>
         r \in expire[c] \/ Dated(r, Window(r, at[c]))
    /\ r \in incrLeft[c] => r \in expLeft[c] \/ Dated(r, Window(r, at[c]))

\* A key without expiry, of a window that is not over, gets one.
ComesInv ==
  \A r \in Rules, w \in Times : val[r][w] > 0 => Dated(r, w) \/ ExpiryComes(r, w)

QueuedInv == CommandsInv /\ (faults = 0 => SeenInv /\ ComesInv)

\* A key keeps its expiry until its window is over.
LEMMA DatedLasts ==
  ASSUME KeyInv, KeyInv', [Next]_vars, NEW r \in Rules, NEW w \in Times, Dated(r, w)
  PROVE  Dated(r, w)'
<1>1. /\ now \in Nat /\ now' \in Nat /\ Period[r] \in Nat /\ w \in Nat
      /\ exp \in [Rules -> [Times -> Nat \cup {NoExpiry}]]
  BY LimiterAssumption DEF KeyInv, TypeOK, Times
<1>2. CASE Tick
  <2>1. now' = now + 1
    BY <1>2 DEF Tick
  <2>2. CASE now' >= w + Period[r]
    BY <2>2 DEF Dated
  <2>3. CASE now' < w + Period[r]
    <3>1. exp[r][w] # NoExpiry
      BY <1>1, <2>1, <2>3 DEF Dated
    <3>2. ~Expired(r, w, now')
      BY <1>2, <2>3, KeepsKey
    <3>3. exp'[r][w] = exp[r][w]
      BY <1>2, <3>2 DEF Tick
    <3> QED
      BY <3>1, <3>3 DEF Dated
  <2> QED
    BY <1>1, <2>2, <2>3
<1>3. ASSUME NEW c \in Callers, NEW o \in Rules, Expire(c, o)
      PROVE  Dated(r, w)'
  <2> DEFINE v == Window(o, at[c])
  <2>1. now' = now /\ v \in Times /\ Period[o] \in Nat
    BY <1>3, WindowType DEF Expire, KeyInv, TypeOK
  <2>2. CASE exp' = exp
    BY <2>1, <2>2 DEF Dated
  <2>3. CASE \E e \in Expirations(o) : exp' = [exp EXCEPT ![o][v] = e]
    <3>1. PICK e \in Expirations(o) : exp' = [exp EXCEPT ![o][v] = e]
      BY <2>3
    <3>2. PICK j \in 0..MaxJitter : e = now + Period[o] + j
      BY DEF Expirations
    <3>3. e # NoExpiry
      BY <1>1, <2>1, <3>2, LimiterAssumption DEF NoExpiry
    <3> HIDE DEF v
    <3> QED
      BY <1>1, <2>1, <3>1, <3>3 DEF Dated
  <2> QED
    BY <1>3, <2>2, <2>3 DEF Expire
<1>4. CASE UNCHANGED <<now, exp>>
  BY <1>4 DEF Dated
<1> QED
  BY <1>2, <1>3, <1>4
  DEF Next, Call, Fault, DoLimit, ReadTTL, IncrBy, Exec, ExecDone, ReadTTLFails,
      ExecFails, vars, redis

\* A call that returns has nothing left to run.
LEMMA ReturnCommands ==
  ASSUME KeyInv, CommandsInv, NEW c \in Callers, Return(c)
  PROVE  /\ CommandsInv'
         /\ pc'[c] = "idle" /\ incrLeft'[c] = {} /\ expLeft'[c] = {}
         /\ \A d \in Callers \ {c} :
              /\ pc'[d] = pc[d] /\ at'[d] = at[d] /\ ttlLeft'[d] = ttlLeft[d]
              /\ expire'[d] = expire[d] /\ incrLeft'[d] = incrLeft[d]
              /\ expLeft'[d] = expLeft[d]
BY DEF KeyInv, TypeOK, CommandsInv, Return

\* Every step keeps the facts about queued commands.
LEMMA QueuedStep == KeyInv /\ KeyInv' /\ QueuedInv /\ [Next]_vars => QueuedInv'
<1> SUFFICES ASSUME KeyInv, KeyInv', QueuedInv, [Next]_vars
             PROVE  QueuedInv'
  OBVIOUS
<1>1. TypeOK /\ CommandsInv
  BY DEF KeyInv, QueuedInv
<1>2. \A c \in Callers, r \in Rules : Window(r, at[c]) \in Times
  BY <1>1, WindowType DEF TypeOK
<1>3. \A r \in Rules, w \in Times : Dated(r, w) => Dated(r, w)'
  BY DatedLasts
<1> USE DEF redis, callVars
<1>4. CASE UNCHANGED vars \/ Tick
  <2>1. UNCHANGED <<callVars, faults>>
    BY <1>4 DEF vars, Tick
  <2>2. CommandsInv'
    BY <1>1, <2>1 DEF CommandsInv
  <2>3. ASSUME faults = 0, SeenInv PROVE SeenInv'
    BY <1>2, <1>3, <2>1, <2>3 DEF SeenInv, Window
  <2>4. ASSUME faults = 0, ComesInv PROVE ComesInv'
    <3> SUFFICES ASSUME NEW r \in Rules, NEW w \in Times, val'[r][w] > 0
                 PROVE  Dated(r, w)' \/ ExpiryComes(r, w)'
      BY DEF ComesInv
    <3>1. val[r][w] > 0
      BY <1>4 DEF vars, Tick
    <3>2. Dated(r, w) \/ ExpiryComes(r, w)
      BY <2>4, <3>1 DEF ComesInv
    <3> QED
      BY <1>3, <2>1, <3>2 DEF ExpiryComes, Window
  <2> QED
    BY <2>1, <2>2, <2>3, <2>4 DEF QueuedInv
<1>5. ASSUME NEW c \in Callers, DoLimit(c)
      PROVE  QueuedInv'
  <2>1. /\ UNCHANGED <<now, redis, expire, incrLeft, expLeft, faults>>
        /\ pc[c] = "idle" /\ pc' = [pc EXCEPT ![c] = "ttl"]
        /\ at' = [at EXCEPT ![c] = now] /\ ttlLeft' = [ttlLeft EXCEPT ![c] = Rules]
    BY <1>5 DEF DoLimit
  <2>2. incrLeft[c] = {} /\ expLeft[c] = {}
    BY <1>1, <2>1 DEF CommandsInv
  <2>3. CommandsInv'
    BY <1>1, <2>1, <2>2 DEF CommandsInv, TypeOK
  <2>4. \A d \in Callers \ {c} : at'[d] = at[d] /\ ttlLeft'[d] = ttlLeft[d] /\ pc'[d] = pc[d]
    BY <1>1, <2>1 DEF TypeOK
  <2>5. ttlLeft'[c] = Rules
    BY <1>1, <2>1 DEF TypeOK
  <2>6. ASSUME SeenInv PROVE SeenInv'
    BY <1>2, <1>3, <2>1, <2>2, <2>4, <2>5, <2>6 DEF SeenInv, Window
  <2>7. ASSUME ComesInv PROVE ComesInv'
    BY <2>1, <2>2, <2>4, <2>7 DEF ComesInv, Dated, ExpiryComes, Window
  <2> QED
    BY <2>1, <2>3, <2>6, <2>7 DEF QueuedInv
<1>6. ASSUME NEW c \in Callers, NEW r \in Rules, ReadTTL(c, r)
      PROVE  QueuedInv'
  <2>1. /\ UNCHANGED <<now, redis, pc, at, incrLeft, expLeft, faults>>
        /\ pc[c] = "ttl" /\ ttlLeft' = [ttlLeft EXCEPT ![c] = @ \ {r}]
        /\ expire' = IF exp[r][Window(r, at[c])] = NoExpiry
                       THEN [expire EXCEPT ![c] = @ \cup {r}] ELSE expire
    BY <1>6 DEF ReadTTL
  <2>2. CommandsInv'
    BY <1>1, <2>1 DEF CommandsInv
  <2>3. /\ \A d \in Callers \ {c} : ttlLeft'[d] = ttlLeft[d] /\ expire'[d] = expire[d]
        /\ ttlLeft'[c] = ttlLeft[c] \ {r}
        /\ expire[c] \subseteq expire'[c]
        /\ r \in expire'[c] \/ exp[r][Window(r, at[c])] # NoExpiry
    BY <1>1, <2>1 DEF TypeOK
  <2>4. ASSUME SeenInv PROVE SeenInv'
    <3>1. \A d \in Callers, o \in Rules : Dated(o, Window(o, at[d]))' <=> Dated(o, Window(o, at[d]))
      BY <2>1 DEF Dated, Window
    <3>2. r \in expire'[c] \/ Dated(r, Window(r, at[c]))
      BY <2>3 DEF Dated
    <3>3. \A d \in Callers, o \in Rules :
            /\ o \in incrLeft'[d] => o \in expLeft'[d] \/ Dated(o, Window(o, at[d]))
            /\ pc'[d] = "ttl" /\ o \notin ttlLeft'[d] =>
                 o \in expire'[d] \/ Dated(o, Window(o, at[d]))
      BY <2>1, <2>3, <2>4, <3>2 DEF SeenInv
    <3> QED
      BY <3>1, <3>3 DEF SeenInv
  <2>5. ASSUME ComesInv PROVE ComesInv'
    BY <2>1, <2>5 DEF ComesInv, Dated, ExpiryComes, Window
  <2> QED
    BY <2>1, <2>2, <2>4, <2>5 DEF QueuedInv
<1>7. ASSUME NEW c \in Callers, ReadTTLFails(c) \/ ExecDone(c)
      PROVE  QueuedInv'
  <2>1. /\ UNCHANGED <<now, redis, faults>> /\ Return(c)
        /\ incrLeft[c] = {} /\ expLeft[c] = {}
    BY <1>1, <1>7 DEF ReadTTLFails, ExecDone, CommandsInv
  <2>2. /\ CommandsInv'
        /\ pc'[c] = "idle" /\ incrLeft'[c] = {} /\ expLeft'[c] = {}
        /\ \A d \in Callers \ {c} :
             /\ pc'[d] = pc[d] /\ at'[d] = at[d] /\ ttlLeft'[d] = ttlLeft[d]
             /\ expire'[d] = expire[d] /\ incrLeft'[d] = incrLeft[d]
             /\ expLeft'[d] = expLeft[d]
    BY <1>1, <2>1, ReturnCommands
  <2>3. ASSUME SeenInv PROVE SeenInv'
    BY <1>2, <1>3, <2>2, <2>3 DEF SeenInv, Window
  <2>4. ASSUME ComesInv PROVE ComesInv'
    BY <2>1, <2>2, <2>4 DEF ComesInv, Dated, ExpiryComes, Window
  <2> QED
    BY <2>1, <2>2, <2>3, <2>4 DEF QueuedInv
<1>8. ASSUME NEW c \in Callers, Exec(c)
      PROVE  QueuedInv'
  <2>1. /\ UNCHANGED <<now, redis, at, ttlLeft, expire, faults>>
        /\ pc[c] = "ttl" /\ ttlLeft[c] = {} /\ pc' = [pc EXCEPT ![c] = "exec"]
        /\ incrLeft' = [incrLeft EXCEPT ![c] = Rules]
        /\ expLeft' = [expLeft EXCEPT ![c] = expire[c]]
    BY <1>8 DEF Exec
  <2>2. expLeft[c] = {}
    BY <1>1, <2>1 DEF CommandsInv
  <2>3. /\ \A d \in Callers \ {c} : /\ pc'[d] = pc[d] /\ incrLeft'[d] = incrLeft[d]
                                   /\ expLeft'[d] = expLeft[d]
        /\ pc'[c] = "exec" /\ expLeft'[c] = expire[c]
    BY <1>1, <2>1 DEF TypeOK
  <2>4. CommandsInv'
    BY <1>1, <2>3 DEF CommandsInv
  <2>5. ASSUME SeenInv PROVE SeenInv'
    BY <2>1, <2>3, <2>5 DEF SeenInv, Dated, Window
  <2>6. ASSUME ComesInv PROVE ComesInv'
    BY <2>1, <2>2, <2>3, <2>6 DEF ComesInv, Dated, ExpiryComes, Window
  <2> QED
    BY <2>1, <2>4, <2>5, <2>6 DEF QueuedInv
<1>9. ASSUME NEW c \in Callers, NEW r \in Rules, IncrBy(c, r)
      PROVE  QueuedInv'
  <2> DEFINE v == Window(r, at[c])
  <2>1. /\ UNCHANGED <<now, exp, pc, at, ttlLeft, expire, expLeft, faults>>
        /\ pc[c] = "exec" /\ r \in incrLeft[c]
        /\ incrLeft' = [incrLeft EXCEPT ![c] = @ \ {r}]
        /\ val' = [val EXCEPT ![r][v] = @ + amount[c]]
    BY <1>9 DEF IncrBy
  <2>2. \A d \in Callers : incrLeft'[d] \subseteq incrLeft[d]
    BY <1>1, <2>1 DEF TypeOK
  <2>3. CommandsInv'
    BY <1>1, <2>1, <2>2 DEF CommandsInv
  <2>4. ASSUME SeenInv PROVE SeenInv'
    BY <2>1, <2>2, <2>4 DEF SeenInv, Dated, Window
  <2>5. ASSUME SeenInv, ComesInv PROVE ComesInv'
    <3> SUFFICES ASSUME NEW o \in Rules, NEW w \in Times, val'[o][w] > 0
                 PROVE  Dated(o, w) \/ ExpiryComes(o, w)
      BY <2>1 DEF ComesInv, Dated, ExpiryComes, Window
    <3>1. CASE o = r /\ w = v
      BY <2>1, <2>5, <3>1 DEF SeenInv, ExpiryComes
    <3>2. CASE ~(o = r /\ w = v)
      <4>1. val'[o][w] = val[o][w]
        <5> HIDE DEF v
        <5> QED
          BY <1>1, <2>1, <3>2 DEF TypeOK
      <4> QED
        BY <2>5, <4>1 DEF ComesInv
    <3> QED
      BY <3>1, <3>2
  <2> QED
    BY <2>1, <2>3, <2>4, <2>5 DEF QueuedInv
<1>10. ASSUME NEW c \in Callers, NEW r \in Rules, Expire(c, r)
       PROVE  QueuedInv'
  <2> DEFINE v == Window(r, at[c])
  <2>1. /\ UNCHANGED <<now, val, pc, at, ttlLeft, expire, incrLeft, faults>>
        /\ pc[c] = "exec" /\ r \in expLeft[c] /\ r \notin incrLeft[c]
        /\ expLeft' = [expLeft EXCEPT ![c] = @ \ {r}]
    BY <1>10 DEF Expire
  <2>2. /\ \A d \in Callers \ {c} : expLeft'[d] = expLeft[d]
        /\ expLeft'[c] = expLeft[c] \ {r}
    BY <1>1, <2>1 DEF TypeOK
  <2>3. CommandsInv'
    BY <1>1, <2>1, <2>2 DEF CommandsInv
  <2>4. ASSUME SeenInv PROVE SeenInv'
    BY <1>2, <1>3, <2>1, <2>2, <2>4 DEF SeenInv, Window
  <2>5. val[r][v] > 0 => exp'[r][v] # NoExpiry
    <3> SUFFICES ASSUME val[r][v] > 0 PROVE exp'[r][v] # NoExpiry
      OBVIOUS
    <3>1. v \in Times /\ Period[r] \in Nat /\ now \in Nat
      BY <1>1, <1>2, LimiterAssumption DEF TypeOK, Times
    <3>2. PICK e \in Expirations(r) : exp' = [exp EXCEPT ![r][v] = e]
      BY <1>10 DEF Expire
    <3>3. PICK j \in 0..MaxJitter : e = now + Period[r] + j
      BY DEF Expirations
    <3>4. e # NoExpiry
      BY <3>1, <3>3, LimiterAssumption DEF NoExpiry
    <3> HIDE DEF v
    <3> QED
      BY <1>1, <3>1, <3>2, <3>4 DEF TypeOK
  <2>6. ASSUME ComesInv PROVE ComesInv'
    <3> SUFFICES ASSUME NEW o \in Rules, NEW w \in Times, val[o][w] > 0
                 PROVE  Dated(o, w)' \/ ExpiryComes(o, w)'
      BY <2>1 DEF ComesInv
    <3>1. CASE o = r /\ w = v
      <4>1. exp'[o][w] # NoExpiry
        BY <2>5, <3>1
      <4> QED
        BY <4>1 DEF Dated
    <3>2. CASE ~(o = r /\ w = v)
      BY <1>3, <2>1, <2>2, <2>6, <3>2 DEF ComesInv, ExpiryComes, Window
    <3> QED
      BY <3>1, <3>2
  <2> QED
    BY <2>1, <2>3, <2>4, <2>6 DEF QueuedInv
<1>11. ASSUME NEW c \in Callers, ExecFails(c)
       PROVE  QueuedInv'
  <2>1. faults' # 0
    BY <1>1, <1>11, LimiterAssumption DEF ExecFails, TypeOK
  <2>2. CASE Return(c)
    BY <1>1, <2>1, <2>2, ReturnCommands DEF QueuedInv
  <2>3. CASE ~Return(c)
    <3>1. /\ pc[c] = "exec" /\ UNCHANGED pc
          /\ incrLeft' = [incrLeft EXCEPT ![c] = Rules]
          /\ expLeft' = [expLeft EXCEPT ![c] = expire[c]]
      BY <1>11, <2>3 DEF ExecFails
    <3>2. CommandsInv'
      BY <1>1, <3>1 DEF CommandsInv, TypeOK
    <3> QED
      BY <2>1, <3>2 DEF QueuedInv
  <2> QED
    BY <2>2, <2>3
<1> QED
  BY <1>4, <1>5, <1>6, <1>7, <1>8, <1>9, <1>10, <1>11 DEF Next, Call, Fault

\* The facts about queued commands hold in every state.
LEMMA QueuedInvariance == Spec => []QueuedInv
<1>1. Init => QueuedInv
  BY DEF Init, QueuedInv, CommandsInv, SeenInv, ComesInv
<1> QED
  BY <1>1, QueuedStep, KeyInvariance, PTL DEF Spec

\* Without a pipeline cut off, no key that DoLimit has written for the current
\* window stays without expiry: a TTL read by one call remains true of the key
\* while the pipelines of others run.
THEOREM KeysExpire == Spec => []CurrentKeysExpire
<1>1. KeyInv /\ QueuedInv => CurrentKeysExpire
  <2> SUFFICES ASSUME KeyInv, QueuedInv, faults = 0, NEW r \in Rules,
                      val[r][Window(r, now)] > 0, exp[r][Window(r, now)] = NoExpiry
               PROVE  ExpiryComes(r, Window(r, now))
    BY DEF CurrentKeysExpire
  <2>1. /\ Window(r, now) \in Times /\ now < Window(r, now) + Period[r]
        /\ Period[r] \in Nat /\ now \in Nat /\ Window(r, now) \in Nat
    BY WindowType, LimiterAssumption DEF KeyInv, TypeOK, Times
  <2>2. ~Dated(r, Window(r, now))
    BY <2>1 DEF Dated
  <2> QED
    BY <2>1, <2>2 DEF QueuedInv, ComesInv
<1> QED
  BY <1>1, KeyInvariance, QueuedInvariance, PTL

-----------------------------------------------------------------------------
\* A set of subsets of a finite set has one that contains no other.  This is the
\* induction used below: a least set for which a statement fails is contradicted.
LEMMA Smallest ==
  ASSUME NEW S, IsFiniteSet(S), NEW T \in SUBSET (SUBSET S), T # {}
  PROVE  \E X \in T : \A Y \in T : Y \subseteq X => Y = X
<1>0. IsWellFoundedOn(StrictSubsetOrdering(S), SUBSET S)
  BY FS_StrictSubsetOrderingWellFounded, FS_FiniteSubsetsOfFinite
<1>1. PICK x \in T : \A y \in T : ~(<<y, x>> \in StrictSubsetOrdering(S))
  BY <1>0, WFMin
<1> QED
  BY <1>1 DEF StrictSubsetOrdering

\* The element that a fold takes first, and the sums that it computes.
Pick(s) == CHOOSE x \in s : TRUE
Adds(g, f, S) ==
  g = [s \in SUBSET S |-> IF s = {} THEN 0 ELSE f[Pick(s)] + g[s \ {Pick(s)}]]
SumOver(f, S) == (CHOOSE g : Adds(g, f, S))[S]

\* The fold of + over a function is its sum.
LEMMA FoldIsSum ==
  ASSUME NEW f
  PROVE  FoldFunction(+, 0, f) = SumOver(f, DOMAIN f)
BY DEF FoldFunction, FoldFunctionOnSet, MapThenFoldSet, Adds, Pick, SumOver

\* A fold takes an element that is there.
LEMMA PickIn == ASSUME NEW s, s # {} PROVE Pick(s) \in s
BY DEF Pick

\* Sums depend on nothing but the values that are added.
LEMMA AddsUnique ==
  ASSUME NEW S, IsFiniteSet(S), NEW f, NEW g, Adds(g, f, S),
         NEW T \in SUBSET S, NEW e, NEW h, Adds(h, e, T),
         \A x \in T : f[x] = e[x]
  PROVE  \A s \in SUBSET T : g[s] = h[s]
<1> DEFINE Bad == {s \in SUBSET T : g[s] # h[s]}
<1> SUFFICES ASSUME Bad # {} PROVE FALSE
  OBVIOUS
<1>1. IsFiniteSet(T)
  BY FS_Subset
<1>2. PICK X \in Bad : \A Y \in Bad : Y \subseteq X => Y = X
  <2>1. Bad \in SUBSET (SUBSET T)
    OBVIOUS
  <2> HIDE DEF Bad
  <2> QED
    BY <1>1, <2>1, Smallest
<1>3. X \in SUBSET T /\ X \in SUBSET S /\ g[X] # h[X]
  OBVIOUS
<1>4. /\ g[X] = IF X = {} THEN 0 ELSE f[Pick(X)] + g[X \ {Pick(X)}]
      /\ h[X] = IF X = {} THEN 0 ELSE e[Pick(X)] + h[X \ {Pick(X)}]
  <2>1. g[X] = [s \in SUBSET S |-> IF s = {} THEN 0 ELSE f[Pick(s)] + g[s \ {Pick(s)}]][X]
    BY DEF Adds
  <2>2. h[X] = [s \in SUBSET T |-> IF s = {} THEN 0 ELSE e[Pick(s)] + h[s \ {Pick(s)}]][X]
    BY DEF Adds
  <2> QED
    BY <1>3, <2>1, <2>2
<1>5. X # {}
  BY <1>3, <1>4
<1>6. Pick(X) \in X /\ Pick(X) \in T
  BY <1>3, <1>5, PickIn
<1>7. g[X \ {Pick(X)}] = h[X \ {Pick(X)}]
  BY <1>2, <1>6
<1> QED
  BY <1>3, <1>4, <1>5, <1>6, <1>7

\* The function of all partial sums exists, so that the CHOOSE of the fold has one
\* to take.
LEMMA AddsExists ==
  ASSUME NEW S, IsFiniteSet(S), NEW f
  PROVE  \E g : Adds(g, f, S)
<1> DEFINE Bad == {s \in SUBSET S : ~ \E g : Adds(g, f, s)}
<1> SUFFICES ASSUME Bad # {} PROVE FALSE
  OBVIOUS
<1>2. PICK X \in Bad : \A Y \in Bad : Y \subseteq X => Y = X
  <2>1. Bad \in SUBSET (SUBSET S)
    OBVIOUS
  <2> HIDE DEF Bad
  <2> QED
    BY <2>1, Smallest
<1> DEFINE h == [s \in SUBSET X |-> IF s = {} THEN 0
                                     ELSE f[Pick(s)] + SumOver(f, s \ {Pick(s)})]
           G(s) == CHOOSE g : Adds(g, f, s)
<1>3. ASSUME NEW Y \in SUBSET X, Y # X
      PROVE  Adds(G(Y), f, Y) /\ SumOver(f, Y) = G(Y)[Y]
  <2>1. Y \notin Bad /\ Y \in SUBSET S
    BY <1>2, <1>3
  <2> QED
    BY <2>1 DEF SumOver
<1> HIDE DEF G
<1>4. ASSUME NEW Y \in SUBSET X, Y # X
      PROVE  SumOver(f, Y) = h[Y]
  <2>1. G(Y)[Y] = IF Y = {} THEN 0 ELSE f[Pick(Y)] + G(Y)[Y \ {Pick(Y)}]
    <3>1. G(Y)[Y] = [s \in SUBSET Y |-> IF s = {} THEN 0 ELSE f[Pick(s)] + G(Y)[s \ {Pick(s)}]][Y]
      BY <1>3, <1>4 DEF Adds
    <3> QED
      BY <3>1
  <2>2. CASE Y = {}
    BY <1>3, <1>4, <2>1, <2>2
  <2>3. CASE Y # {}
    <3> DEFINE Z == Y \ {Pick(Y)}
    <3>1. Z \in SUBSET X /\ Z # X /\ Z \in SUBSET Y
      BY <1>4, <2>3, PickIn
    <3>2. Adds(G(Z), f, Z) /\ SumOver(f, Z) = G(Z)[Z] /\ Adds(G(Y), f, Y)
      BY <1>3, <1>4, <3>1
    <3>3. IsFiniteSet(Y)
      BY FS_Subset
    <3>4. \A s \in SUBSET Z : G(Y)[s] = G(Z)[s]
      <4> HIDE DEF Z, h, Bad
      <4>1. ASSUME NEW b, NEW d, Adds(b, f, Y), Adds(d, f, Z)
            PROVE  \A s \in SUBSET Z : b[s] = d[s]
        BY <3>1, <3>3, <4>1, AddsUnique
      <4> QED
        BY <3>2, <4>1
    <3>5. G(Y)[Z] = SumOver(f, Z)
      BY <3>2, <3>4
    <3> QED
      BY <1>3, <1>4, <2>1, <2>3, <3>5
  <2> QED
    BY <2>2, <2>3
<1>5. Adds(h, f, X)
  <2>1. ASSUME NEW s \in SUBSET X, s # {}
        PROVE  SumOver(f, s \ {Pick(s)}) = h[s \ {Pick(s)}]
    <3>1. s \ {Pick(s)} \in SUBSET X /\ s \ {Pick(s)} # X
      BY <2>1, PickIn
    <3> HIDE DEF h
    <3> QED
      BY <1>4, <3>1
  <2>2. h = [s \in SUBSET X |-> IF s = {} THEN 0 ELSE f[Pick(s)] + h[s \ {Pick(s)}]]
    <3>1. ASSUME NEW s \in SUBSET X
          PROVE  (IF s = {} THEN 0 ELSE f[Pick(s)] + SumOver(f, s \ {Pick(s)}))
               = (IF s = {} THEN 0 ELSE f[Pick(s)] + h[s \ {Pick(s)}])
      BY <2>1 
    <3> QED
      BY <3>1
  <2> QED
    BY <2>2 DEF Adds
<1> QED
  BY <1>5

\* A sum is its first value and the sum of the rest.
LEMMA SumDef ==
  ASSUME NEW S, IsFiniteSet(S), NEW f
  PROVE  SumOver(f, S) = IF S = {} THEN 0
                         ELSE f[Pick(S)] + SumOver(f, S \ {Pick(S)})
<1> DEFINE G(s) == CHOOSE g : Adds(g, f, s)
           Z == S \ {Pick(S)}
<1>1. Adds(G(S), f, S) /\ SumOver(f, S) = G(S)[S]
  BY AddsExists DEF SumOver
<1>2. IsFiniteSet(Z)
  BY FS_Subset
<1>3. Adds(G(Z), f, Z) /\ SumOver(f, Z) = G(Z)[Z]
  <2> HIDE DEF Z
  <2> QED
    BY <1>2, AddsExists DEF SumOver
<1>4. Z \in SUBSET S
  OBVIOUS
<1> HIDE DEF G
<1>5. G(S)[Z] = G(Z)[Z]
  <2> HIDE DEF Z
  <2> QED
    BY <1>1, <1>3, <1>4, AddsUnique
<1>6. G(S)[S] = [s \in SUBSET S |-> IF s = {} THEN 0 ELSE f[Pick(s)] + G(S)[s \ {Pick(s)}]][S]
  BY <1>1 DEF Adds
<1> QED
  BY <1>1, <1>3, <1>5, <1>6

\* Functions that agree have the same sum.
LEMMA SumAgree ==
  ASSUME NEW S, IsFiniteSet(S), NEW f, NEW e, \A x \in S : f[x] = e[x]
  PROVE  SumOver(f, S) = SumOver(e, S)
<1> DEFINE G(d) == CHOOSE g : Adds(g, d, S)
<1>1. Adds(G(f), f, S) /\ SumOver(f, S) = G(f)[S]
  BY AddsExists DEF SumOver
<1>2. Adds(G(e), e, S) /\ SumOver(e, S) = G(e)[S]
  BY AddsExists DEF SumOver
<1> HIDE DEF G
<1> QED
  BY <1>1, <1>2, AddsUnique

\* A sum of integers is an integer.
LEMMA SumType ==
  ASSUME NEW S, IsFiniteSet(S), NEW f, \A x \in S : f[x] \in Int
  PROVE  SumOver(f, S) \in Int
<1> DEFINE Bad == {s \in SUBSET S : SumOver(f, s) \notin Int}
<1> SUFFICES ASSUME Bad # {} PROVE FALSE
  OBVIOUS
<1>1. PICK X \in Bad : \A Y \in Bad : Y \subseteq X => Y = X
  <2>1. Bad \in SUBSET (SUBSET S)
    OBVIOUS
  <2> HIDE DEF Bad
  <2> QED
    BY <2>1, Smallest
<1>2. IsFiniteSet(X) /\ X \in SUBSET S
  BY FS_Subset
<1>3. SumOver(f, X) = IF X = {} THEN 0 ELSE f[Pick(X)] + SumOver(f, X \ {Pick(X)})
  BY <1>2, SumDef
<1>4. X # {}
  BY <1>3
<1>5. Pick(X) \in X
  BY <1>4, PickIn
<1>6. SumOver(f, X \ {Pick(X)}) \in Int
  BY <1>1, <1>5
<1> QED
  BY <1>2, <1>3, <1>4, <1>5, <1>6

\* Any value can be taken out of a sum, not only the first.
LEMMA SumTakeOut ==
  ASSUME NEW S, IsFiniteSet(S), NEW f, \A x \in S : f[x] \in Int, NEW a \in S
  PROVE  SumOver(f, S) = f[a] + SumOver(f, S \ {a})
<1> DEFINE Bad == {s \in SUBSET S : \E x \in s : SumOver(f, s) # f[x] + SumOver(f, s \ {x})}
<1> SUFFICES ASSUME Bad # {} PROVE FALSE
  OBVIOUS
<1>1. PICK X \in Bad : \A Y \in Bad : Y \subseteq X => Y = X
  <2>1. Bad \in SUBSET (SUBSET S)
    OBVIOUS
  <2> HIDE DEF Bad
  <2> QED
    BY <2>1, Smallest
<1>2. PICK x \in X : SumOver(f, X) # f[x] + SumOver(f, X \ {x})
  OBVIOUS
<1>3. \A Y \in SUBSET X : IsFiniteSet(Y) /\ SumOver(f, Y) \in Int
  <2> SUFFICES ASSUME NEW Y \in SUBSET X PROVE IsFiniteSet(Y) /\ SumOver(f, Y) \in Int
    OBVIOUS
  <2>1. Y \in SUBSET S
    OBVIOUS
  <2>2. IsFiniteSet(Y)
    BY <2>1, FS_Subset
  <2> QED
    BY <2>1, <2>2, SumType
<1> DEFINE p == Pick(X)
<1>4. p \in X /\ f[p] \in Int /\ f[x] \in Int
  BY PickIn
<1>5. SumOver(f, X) = f[p] + SumOver(f, X \ {p})
  BY <1>3, <1>4, SumDef
<1>6. p # x
  BY <1>2, <1>5
<1> HIDE DEF p
<1>7. SumOver(f, X \ {p}) = f[x] + SumOver(f, (X \ {p}) \ {x})
  <2>1. X \ {p} \notin Bad /\ X \ {p} \in SUBSET S
    BY <1>1, <1>4
  <2> QED
    BY <1>6, <2>1
<1>8. SumOver(f, X \ {x}) = f[p] + SumOver(f, (X \ {p}) \ {x})
  <2>1. X \ {x} \notin Bad /\ X \ {x} \in SUBSET S
    BY <1>1, <1>2
  <2>2. SumOver(f, X \ {x}) = f[p] + SumOver(f, (X \ {x}) \ {p})
    BY <1>4, <1>6, <2>1
  <2>3. (X \ {p}) \ {x} = (X \ {x}) \ {p}
    OBVIOUS
  <2> QED
    BY <2>2, <2>3, Zenon
<1>10. SumOver(f, (X \ {p}) \ {x}) \in Int
  BY <1>3
<1> HIDE DEF Bad
<1> QED
  BY <1>2, <1>4, <1>5, <1>7, <1>8, <1>10

\* A change of one value changes the sum by as much.
LEMMA SumUpdate ==
  ASSUME NEW S, IsFiniteSet(S), NEW f, NEW e, NEW a \in S,
         \A x \in S : f[x] \in Int /\ e[x] \in Int,
         \A x \in S \ {a} : e[x] = f[x]
  PROVE  SumOver(e, S) = SumOver(f, S) + (e[a] - f[a])
<1>1. IsFiniteSet(S \ {a})
  BY FS_Subset
<1>2. SumOver(e, S \ {a}) = SumOver(f, S \ {a})
  BY <1>1, SumAgree
<1>3. SumOver(f, S) = f[a] + SumOver(f, S \ {a}) /\ SumOver(e, S) = e[a] + SumOver(e, S \ {a})
  BY SumTakeOut
<1>4. SumOver(f, S \ {a}) \in Int
  BY <1>1, SumType
<1> QED
  BY <1>2, <1>3, <1>4

\* The sum of zeros is zero.
LEMMA SumZero ==
  ASSUME NEW S, IsFiniteSet(S), NEW f, \A x \in S : f[x] = 0
  PROVE  SumOver(f, S) = 0
<1> DEFINE Bad == {s \in SUBSET S : SumOver(f, s) # 0}
<1> SUFFICES ASSUME Bad # {} PROVE FALSE
  OBVIOUS
<1>1. PICK X \in Bad : \A Y \in Bad : Y \subseteq X => Y = X
  <2>1. Bad \in SUBSET (SUBSET S)
    OBVIOUS
  <2> HIDE DEF Bad
  <2> QED
    BY <2>1, Smallest
<1>2. IsFiniteSet(X) /\ X \in SUBSET S
  BY FS_Subset
<1>3. SumOver(f, X) = IF X = {} THEN 0 ELSE f[Pick(X)] + SumOver(f, X \ {Pick(X)})
  BY <1>2, SumDef
<1>4. X # {}
  BY <1>3
<1>5. Pick(X) \in X
  BY <1>4, PickIn
<1>6. SumOver(f, X \ {Pick(X)}) = 0
  BY <1>1, <1>5
<1> QED
  BY <1>2, <1>3, <1>4, <1>5, <1>6

-----------------------------------------------------------------------------
\* All that was ever added for rule r, and what the pipelines that run are still
\* to add.
Added(r) == SumOver(total[r], Times)
Owing(r) == [c \in Callers |-> IF r \in incrLeft[c] THEN amount[c] ELSE 0]
Owed(r) == SumOver(Owing(r), Callers)

\* While no pipeline is cut off the rules are even, if what is owed is counted.
EvenInv ==
  faults = 0 => \A r, o \in Rules : Added(r) + Owed(r) = Added(o) + Owed(o)

\* What is added and owed, and the sums of both.
Numbers ==
  \A r \in Rules : /\ Added(r) \in Int /\ Owed(r) \in Int
                  /\ \A w \in Times : total[r][w] \in Int
                  /\ \A c \in Callers : Owing(r)[c] \in Int

\* The sums are over finite sets.
LEMMA FiniteSums == IsFiniteSet(Times) /\ IsFiniteSet(Callers)
  BY LimiterAssumption, FS_Interval DEF Times

\* They are sums of integers.
LEMMA SumsType == TypeOK => Numbers
<1> SUFFICES ASSUME TypeOK
             PROVE  Numbers
  OBVIOUS
<1>2. ASSUME NEW r \in Rules
      PROVE  /\ \A w \in Times : total[r][w] \in Int
             /\ \A c \in Callers : Owing(r)[c] \in Int
  BY DEF TypeOK, Owing
<1>3. ASSUME NEW r \in Rules
      PROVE  Added(r) \in Int /\ Owed(r) \in Int
  BY <1>2, FiniteSums, SumType DEF Added, Owed
<1> QED
  BY <1>2, <1>3 DEF Numbers

\* A step that leaves the totals and what is owed alone keeps the rules even.
LEMMA EvenStays ==
  ASSUME EvenInv, faults' = 0 => faults = 0, total' = total,
         \A r \in Rules : Owing(r)' = Owing(r)
  PROVE  EvenInv'
<1>1. \A r \in Rules : Added(r)' = Added(r) /\ Owed(r)' = Owed(r)
  BY DEF Added, Owed
<1> QED
  BY <1>1 DEF EvenInv

\* Every step keeps the rules even.
LEMMA EvenStep == KeyInv /\ KeyInv' /\ QueuedInv /\ EvenInv /\ [Next]_vars => EvenInv'
<1> SUFFICES ASSUME KeyInv, KeyInv', QueuedInv, EvenInv, [Next]_vars
             PROVE  EvenInv'
  OBVIOUS
<1>1. TypeOK /\ TypeOK' /\ CommandsInv
  BY DEF KeyInv, QueuedInv
<1>2. Numbers /\ Numbers'
  BY <1>1, SumsType, PTL
<1> USE DEF redis, callVars
<1>3. CASE \/ UNCHANGED vars \/ Tick
           \/ \E c \in Callers, r \in Rules : ReadTTL(c, r) \/ Expire(c, r)
  <2>1. UNCHANGED <<incrLeft, amount, total, faults>>
    BY <1>3 DEF vars, Tick, ReadTTL, Expire
  <2> QED
    BY <2>1, EvenStays DEF Owing
<1>4. ASSUME NEW c \in Callers, DoLimit(c) \/ ReadTTLFails(c) \/ ExecDone(c)
      PROVE  EvenInv'
  <2>1. /\ UNCHANGED <<total, faults>>
        /\ incrLeft[c] = {} /\ incrLeft'[c] = {}
        /\ \A d \in Callers \ {c} : incrLeft'[d] = incrLeft[d] /\ amount'[d] = amount[d]
    BY <1>1, <1>4 DEF DoLimit, ReadTTLFails, ExecDone, Return, CommandsInv, TypeOK
  <2>2. \A r \in Rules : Owing(r)' = Owing(r)
    BY <2>1 DEF Owing
  <2> QED
    BY <2>1, <2>2, EvenStays
<1>5. ASSUME NEW c \in Callers, Exec(c)
      PROVE  EvenInv'
  <2>1. /\ UNCHANGED <<total, faults, amount>>
        /\ incrLeft[c] = {} /\ incrLeft'[c] = Rules
        /\ \A d \in Callers \ {c} : incrLeft'[d] = incrLeft[d]
    BY <1>1, <1>5 DEF Exec, CommandsInv, TypeOK
  <2>2. ASSUME NEW r \in Rules
        PROVE  Added(r)' = Added(r) /\ Owed(r)' = Owed(r) + amount[c]
    <3>1. /\ Owing(r)[c] = 0 /\ Owing(r)'[c] = amount[c]
          /\ \A d \in Callers \ {c} : Owing(r)'[d] = Owing(r)[d]
      BY <2>1 DEF Owing
    <3>2. amount[c] \in Int
      BY <1>1 DEF TypeOK
    <3> DEFINE f == Owing(r)
               e == Owing(r)'
    <3>3. /\ \A x \in Callers : f[x] \in Int /\ e[x] \in Int
          /\ \A x \in Callers \ {c} : e[x] = f[x]
      BY <1>1, <3>1 DEF TypeOK, Owing
    <3>4. /\ Owed(r) = SumOver(f, Callers) /\ Owed(r)' = SumOver(e, Callers)
          /\ f[c] = 0 /\ e[c] = amount[c]
          /\ Owed(r) \in Int /\ Added(r)' = Added(r)
      BY <1>2, <2>1, <3>1 DEF Owed, Added, Numbers
    <3> HIDE DEF f, e
    <3>5. SumOver(e, Callers) = SumOver(f, Callers) + (e[c] - f[c])
      BY <3>3, FiniteSums, SumUpdate
    <3> QED
      BY <3>2, <3>4, <3>5
  <2>3. amount[c] \in Int
    BY <1>1 DEF TypeOK
  <2> QED
    BY <1>2, <2>1, <2>2, <2>3 DEF EvenInv, Numbers
<1>6. ASSUME NEW c \in Callers, NEW r \in Rules, IncrBy(c, r)
      PROVE  EvenInv'
  <2> DEFINE v == Window(r, at[c])
             n == amount[c]
  <2>1. v \in Times /\ n \in Int
    BY <1>1, WindowType DEF TypeOK
  <2>2. /\ UNCHANGED <<faults, amount>> /\ r \in incrLeft[c]
        /\ total' = [total EXCEPT ![r][v] = @ + n]
        /\ incrLeft' = [incrLeft EXCEPT ![c] = @ \ {r}]
    BY <1>6 DEF IncrBy
  <2> HIDE DEF v
  <2>3. /\ total'[r][v] = total[r][v] + n
        /\ \A w \in Times \ {v} : total'[r][w] = total[r][w]
        /\ \A o \in Rules \ {r} : total'[o] = total[o]
    BY <1>1, <2>1, <2>2 DEF TypeOK
  <2>4. /\ \A o \in Rules \ {r} : Owing(o)' = Owing(o)
        /\ Owing(r)[c] = n /\ Owing(r)'[c] = 0
        /\ \A d \in Callers \ {c} : Owing(r)'[d] = Owing(r)[d]
    BY <1>1, <2>2 DEF TypeOK, Owing
  <2> HIDE DEF n
  <2>5. Added(r)' = Added(r) + n
    <3> DEFINE f == total[r]
               e == total'[r]
    <3>1. /\ \A x \in Times : f[x] \in Int /\ e[x] \in Int
          /\ \A x \in Times \ {v} : e[x] = f[x]
      BY <1>2, <2>3 DEF Numbers
    <3>2. /\ Added(r) = SumOver(f, Times) /\ Added(r)' = SumOver(e, Times)
          /\ e[v] = f[v] + n /\ f[v] \in Int /\ Added(r) \in Int
      BY <1>2, <2>1, <2>3 DEF Added, Numbers
    <3> HIDE DEF f, e
    <3>3. SumOver(e, Times) = SumOver(f, Times) + (e[v] - f[v])
      BY <2>1, <3>1, FiniteSums, SumUpdate
    <3> QED
      BY <2>1, <3>2, <3>3
  <2>6. Owed(r)' = Owed(r) - n
    <3> DEFINE f == Owing(r)
               e == Owing(r)'
    <3>1. /\ \A x \in Callers : f[x] \in Int /\ e[x] \in Int
          /\ \A x \in Callers \ {c} : e[x] = f[x]
      BY <1>1, <2>4 DEF TypeOK, Owing
    <3>2. /\ Owed(r) = SumOver(f, Callers) /\ Owed(r)' = SumOver(e, Callers)
          /\ f[c] = n /\ e[c] = 0 /\ Owed(r) \in Int
      BY <1>2, <2>4 DEF Owed, Numbers
    <3> HIDE DEF f, e
    <3>3. SumOver(e, Callers) = SumOver(f, Callers) + (e[c] - f[c])
      BY <3>1, FiniteSums, SumUpdate
    <3> QED
      BY <2>1, <3>2, <3>3
  <2>7. \A o \in Rules \ {r} : Added(o)' = Added(o) /\ Owed(o)' = Owed(o)
    BY <2>3, <2>4 DEF Added, Owed
  <2>8. \A o \in Rules : Added(o)' + Owed(o)' = Added(o) + Owed(o)
    BY <1>2, <2>1, <2>5, <2>6, <2>7 DEF Numbers
  <2> QED
    BY <2>2, <2>8 DEF EvenInv
<1>7. ASSUME NEW c \in Callers, ExecFails(c)
      PROVE  EvenInv'
  <2>1. faults' # 0
    BY <1>1, <1>7, LimiterAssumption DEF ExecFails, TypeOK
  <2> QED
    BY <2>1 DEF EvenInv
<1> QED
  BY <1>3, <1>4, <1>5, <1>6, <1>7 DEF Next, Call, Fault

\* With no call running and no pipeline ever cut off, every rule has counted the
\* same: the calls of DoLimit are all or nothing.
THEOREM AllOrNothing == Spec => []RulesAgree
<1>1. Init => EvenInv
  <2> SUFFICES ASSUME Init, NEW r \in Rules, NEW o \in Rules
               PROVE  Added(r) + Owed(r) = Added(o) + Owed(o)
    BY DEF EvenInv
  <2>1. total[r] = total[o] /\ Owing(r) = Owing(o)
    BY DEF Init, Owing
  <2> QED
    BY <2>1 DEF Added, Owed
<1>2. KeyInv /\ QueuedInv /\ EvenInv => RulesAgree
  <2> SUFFICES ASSUME KeyInv, QueuedInv, EvenInv, faults = 0,
                      \A c \in Callers : pc[c] = "idle",
                      NEW r \in Rules, NEW o \in Rules
               PROVE  FoldFunction(+, 0, total[r]) = FoldFunction(+, 0, total[o])
    BY DEF RulesAgree
  <2>1. TypeOK /\ Numbers
    BY SumsType DEF KeyInv
  <2>2. ASSUME NEW q \in Rules
        PROVE  Owed(q) = 0 /\ FoldFunction(+, 0, total[q]) = Added(q)
    <3>1. \A c \in Callers : Owing(q)[c] = 0
      BY DEF QueuedInv, CommandsInv, Owing
    <3>2. Owed(q) = 0
      BY <3>1, FiniteSums, SumZero DEF Owed
    <3>3. DOMAIN total[q] = Times
      BY <2>1 DEF TypeOK
    <3> QED
      BY <3>2, <3>3, FoldIsSum DEF Added
  <2>3. Added(r) + Owed(r) = Added(o) + Owed(o)
    BY DEF EvenInv
  <2>4. Added(r) = Added(o)
    <3>1. Owed(r) = 0 /\ Owed(o) = 0 /\ Added(r) \in Int /\ Added(o) \in Int
      BY <2>1, <2>2 DEF Numbers
    <3> QED
      BY <2>3, <3>1
  <2> QED
    BY <2>2, <2>4
<1> QED
  BY <1>1, <1>2, EvenStep, KeyInvariance, QueuedInvariance, PTL DEF Spec
=============================================================================

----------------------------- MODULE RateLimiter -----------------------------
(***************************************************************************)
(* DoLimit of the Redis rate limiter (pkg/gateway/ratelimiter), command by *)
(* command.  A call reads the clock once, builds one key per rule from the *)
(* window of that time, reads the TTL of every key, and then runs one      *)
(* pipeline: INCRBY for every rule, and EXPIRE for those whose key had no  *)
(* expiry when its TTL was read.  Calls of any number of gateways          *)
(* interleave between any two commands, the clock moves meanwhile, and     *)
(* Redis drops a key when its expiry comes.                                *)
(*                                                                         *)
(* The client re-sends a whole pipeline after a network error, up to       *)
(* MaxRetries times; what the failed attempt did stays done.               *)
(***************************************************************************)
EXTENDS Integers, FiniteSets, Functions, Windows

CONSTANTS
  Callers,      \* goroutines calling DoLimit, in any number of gateways
  Rules,        \* the rules of one call (all of one type) for one identity
  Period,       \* Period[r]: the window length of rule r
  Amounts,      \* what a call may add: 1, or the tokens of a response
  MaxJitter,    \* the largest jitter added to an expiry, in whole seconds
  MaxRetries,   \* redis.max-retries
  MaxFaults,    \* bound: network errors while a pipeline runs
  MaxCalls,     \* bound: calls of DoLimit
  MaxTime       \* bound: the last instant modelled

Times == 0..MaxTime

ASSUME LimiterAssumption ==
  /\ IsFiniteSet(Callers)
  /\ Period \in [Rules -> Nat \ {0}]
  /\ Amounts \subseteq Nat \ {0}
  /\ MaxJitter \in Nat
  /\ MaxRetries \in Nat
  /\ MaxFaults \in Nat
  /\ MaxCalls \in Nat
  /\ MaxTime \in Nat

VARIABLES
  now,      \* the clock
  val,      \* val[r][w]: the value of the key of rule r and window w; 0: no key
  exp,      \* exp[r][w]: when that key expires; NoExpiry if never or no key
  pc,       \* pc[c]: what caller c does next
  at,       \* at[c]: the time its call read
  amount,   \* amount[c]: what its call adds
  ttlLeft,  \* ttlLeft[c]: the rules whose TTL it has not read
  expire,   \* expire[c]: the rules whose EXPIRE it has queued
  incrLeft, \* incrLeft[c], expLeft[c]: the commands of its pipeline that have
  expLeft,  \*   not run in this attempt
  tries,    \* tries[c]: how often its pipeline was re-sent
  calls,    \* calls started, for the bound
  faults,   \* network errors in pipelines, for the bound
  total     \* history: total[r][w]: everything ever added for window w

redis == <<val, exp>>
callVars == <<pc, at, amount, ttlLeft, expire, incrLeft, expLeft, tries>>
vars == <<now, redis, callVars, calls, faults, total>>

NoExpiry == -1
Window(r, t) == WindowStart(t, Period[r])

Init ==
  /\ now = 0
  /\ val = [r \in Rules |-> [w \in Times |-> 0]]
  /\ exp = [r \in Rules |-> [w \in Times |-> NoExpiry]]
  /\ pc = [c \in Callers |-> "idle"]
  /\ at = [c \in Callers |-> 0]
  /\ amount = [c \in Callers |-> 0]
  /\ ttlLeft = [c \in Callers |-> {}]
  /\ expire = [c \in Callers |-> {}]
  /\ incrLeft = [c \in Callers |-> {}]
  /\ expLeft = [c \in Callers |-> {}]
  /\ tries = [c \in Callers |-> 0]
  /\ calls = 0
  /\ faults = 0
  /\ total = [r \in Rules |-> [w \in Times |-> 0]]

-----------------------------------------------------------------------------
\* The call returns; its locals are gone.
Return(c) ==
  /\ pc' = [pc EXCEPT ![c] = "idle"]
  /\ at' = [at EXCEPT ![c] = 0]
  /\ amount' = [amount EXCEPT ![c] = 0]
  /\ ttlLeft' = [ttlLeft EXCEPT ![c] = {}]
  /\ expire' = [expire EXCEPT ![c] = {}]
  /\ incrLeft' = [incrLeft EXCEPT ![c] = {}]
  /\ expLeft' = [expLeft EXCEPT ![c] = {}]
  /\ tries' = [tries EXCEPT ![c] = 0]

\* DoLimit reads the clock; every key of the call is built from this time.
DoLimit(c) ==
  /\ pc[c] = "idle"
  /\ calls < MaxCalls
  /\ \E n \in Amounts : amount' = [amount EXCEPT ![c] = n]
  /\ pc' = [pc EXCEPT ![c] = "ttl"]
  /\ at' = [at EXCEPT ![c] = now]
  /\ ttlLeft' = [ttlLeft EXCEPT ![c] = Rules]
  /\ calls' = calls + 1
  /\ UNCHANGED <<now, redis, expire, incrLeft, expLeft, tries, faults, total>>

\* Mutation: EXPIRE is queued for a key without expiry, not for a missing one.
ReadTTLExisting(c, r) ==
  /\ pc[c] = "ttl"
  /\ r \in ttlLeft[c]
  /\ ttlLeft' = [ttlLeft EXCEPT ![c] = @ \ {r}]
  /\ LET w == Window(r, at[c])
     IN  expire' = IF val[r][w] > 0 /\ exp[r][w] = NoExpiry
                     THEN [expire EXCEPT ![c] = @ \cup {r}] ELSE expire
  /\ UNCHANGED <<now, redis, pc, at, amount, incrLeft, expLeft, tries,
                 calls, faults, total>>

\* INCRBY is queued and the TTL is read; EXPIRE is queued if the key does not
\* exist (-2) or has no expiry (-1).
ReadTTL(c, r) ==
  /\ pc[c] = "ttl"
  /\ r \in ttlLeft[c]
  /\ ttlLeft' = [ttlLeft EXCEPT ![c] = @ \ {r}]
  /\ expire' = IF exp[r][Window(r, at[c])] = NoExpiry
                 THEN [expire EXCEPT ![c] = @ \cup {r}] ELSE expire
  /\ UNCHANGED <<now, redis, pc, at, amount, incrLeft, expLeft, tries,
                 calls, faults, total>>

\* Mutation: after a failed TTL the commands queued so far are run.
ReadTTLFailsPartly(c) ==
  /\ pc[c] = "ttl"
  /\ ttlLeft[c] # {}
  /\ pc' = [pc EXCEPT ![c] = "exec"]
  /\ incrLeft' = [incrLeft EXCEPT ![c] = Rules \ ttlLeft[c]]
  /\ expLeft' = [expLeft EXCEPT ![c] = expire[c]]
  /\ UNCHANGED <<now, redis, at, amount, ttlLeft, expire, tries,
                 calls, faults, total>>

\* Reading a TTL fails: the call returns and the queued commands never run.
ReadTTLFails(c) ==
  /\ pc[c] = "ttl"
  /\ ttlLeft[c] # {}
  /\ Return(c)
  /\ UNCHANGED <<now, redis, calls, faults, total>>

\* The pipeline is sent.
Exec(c) ==
  /\ pc[c] = "ttl"
  /\ ttlLeft[c] = {}
  /\ pc' = [pc EXCEPT ![c] = "exec"]
  /\ incrLeft' = [incrLeft EXCEPT ![c] = Rules]
  /\ expLeft' = [expLeft EXCEPT ![c] = expire[c]]
  /\ UNCHANGED <<now, redis, at, amount, ttlLeft, expire, tries,
                 calls, faults, total>>

\* Redis runs INCRBY: a key that does not exist starts from 0, without expiry.
IncrBy(c, r) ==
  /\ pc[c] = "exec"
  /\ r \in incrLeft[c]
  /\ val' = [val EXCEPT ![r][Window(r, at[c])] = @ + amount[c]]
  /\ total' = [total EXCEPT ![r][Window(r, at[c])] = @ + amount[c]]
  /\ incrLeft' = [incrLeft EXCEPT ![c] = @ \ {r}]
  /\ UNCHANGED <<now, exp, pc, at, amount, ttlLeft, expire, expLeft, tries,
                 calls, faults>>

\* Mutation: the expiry is a second short.
ExpirationsShort(r) == {now + Period[r] - 1 + j : j \in 0..MaxJitter}

\* The expiry EXPIRE gives a key: a full period from now, plus the jitter.
Expirations(r) == {now + Period[r] + j : j \in 0..MaxJitter}

\* Redis runs EXPIRE, queued behind the INCRBY of the same key; it does nothing
\* to a key that is gone.
Expire(c, r) ==
  /\ pc[c] = "exec"
  /\ r \in expLeft[c] \ incrLeft[c]
  /\ IF val[r][Window(r, at[c])] = 0
       THEN UNCHANGED exp
       ELSE \E e \in Expirations(r) :
              exp' = [exp EXCEPT ![r][Window(r, at[c])] = e]
  /\ expLeft' = [expLeft EXCEPT ![c] = @ \ {r}]
  /\ UNCHANGED <<now, val, pc, at, amount, ttlLeft, expire, incrLeft, tries,
                 calls, faults, total>>

\* All answers are in.
ExecDone(c) ==
  /\ pc[c] = "exec"
  /\ incrLeft[c] = {} /\ expLeft[c] = {}
  /\ Return(c)
  /\ UNCHANGED <<now, redis, calls, faults, total>>

\* The connection fails with some answers, or all, still missing.  The client
\* sends the whole pipeline again, or gives up and DoLimit returns the error.
ExecFails(c) ==
  /\ pc[c] = "exec"
  /\ faults < MaxFaults
  /\ faults' = faults + 1
  /\ \/ /\ tries[c] < MaxRetries
        /\ tries' = [tries EXCEPT ![c] = @ + 1]
        /\ incrLeft' = [incrLeft EXCEPT ![c] = Rules]
        /\ expLeft' = [expLeft EXCEPT ![c] = expire[c]]
        /\ UNCHANGED <<pc, at, amount, ttlLeft, expire>>
     \/ /\ tries[c] = MaxRetries
        /\ Return(c)
  /\ UNCHANGED <<now, redis, calls, total>>

-----------------------------------------------------------------------------
\* Whether the key of window w of rule r is gone at time t.
Expired(r, w, t) == exp[r][w] # NoExpiry /\ exp[r][w] <= t

\* The clock moves on; Redis drops the keys whose expiry has come.
Tick ==
  /\ now < MaxTime
  /\ now' = now + 1
  /\ val' = [r \in Rules |-> [w \in Times |->
       IF Expired(r, w, now') THEN 0 ELSE val[r][w]]]
  /\ exp' = [r \in Rules |-> [w \in Times |->
       IF Expired(r, w, now') THEN NoExpiry ELSE exp[r][w]]]
  /\ UNCHANGED <<callVars, calls, faults, total>>

Call(c) ==
  \/ \E r \in Rules : ReadTTL(c, r) \/ IncrBy(c, r) \/ Expire(c, r)
  \/ Exec(c) \/ ExecDone(c)

Fault(c) == ReadTTLFails(c) \/ ExecFails(c)

Next == Tick \/ \E c \in Callers : DoLimit(c) \/ Call(c) \/ Fault(c)

Spec == Init /\ [][Next]_vars

-----------------------------------------------------------------------------
\* The types of the keys in Redis and of the locals of every call.
TypeOK ==
  /\ now \in Times
  /\ val \in [Rules -> [Times -> Nat]]
  /\ exp \in [Rules -> [Times -> Nat \cup {NoExpiry}]]
  /\ pc \in [Callers -> {"idle", "ttl", "exec"}]
  /\ at \in [Callers -> Times]
  /\ amount \in [Callers -> Nat]
  /\ ttlLeft \in [Callers -> SUBSET Rules]
  /\ expire \in [Callers -> SUBSET Rules]
  /\ incrLeft \in [Callers -> SUBSET Rules]
  /\ expLeft \in [Callers -> SUBSET Rules]
  /\ tries \in [Callers -> 0..MaxRetries]
  /\ calls \in 0..MaxCalls
  /\ faults \in 0..MaxFaults
  /\ total \in [Rules -> [Times -> Nat]]

\* No increment made for the current window is lost: Redis never drops the key
\* of a window that DoLimit and CheckLimit still use, also when the expiry was
\* set by another caller, late, or twice.
CurrentWindowExact ==
  \A r \in Rules : val[r][Window(r, now)] = total[r][Window(r, now)]

\* Whether some caller is still to set the expiry of a key.
ExpiryComes(r, w) ==
  \E c \in Callers : r \in expLeft[c] /\ Window(r, at[c]) = w

\* While no pipeline is cut off, no key of the current window is left without an
\* expiry: either it has one or the pipeline of DoLimit that will set it is
\* running.
CurrentKeysExpire ==
  faults = 0 =>
    \A r \in Rules :
      LET w == Window(r, now)
      IN  val[r][w] > 0 /\ exp[r][w] = NoExpiry => ExpiryComes(r, w)

\* While no pipeline is cut off, a call of DoLimit counts for all of its rules
\* or, when a TTL cannot be read, for none: with no call running, all rules have
\* the same total over their windows.
RulesAgree ==
  faults = 0 /\ (\A c \in Callers : pc[c] = "idle") =>
    \A r, o \in Rules : FoldFunction(+, 0, total[r]) = FoldFunction(+, 0, total[o])

\* DoLimit implements the window counter: commands for windows that are over,
\* expiries and the bookkeeping of the calls do not show.
Counter == INSTANCE WindowCounter
             WITH count <- [r \in Rules |-> val[r][Window(r, now)]]
ImplementsWindowCounter == Counter!Spec
=============================================================================

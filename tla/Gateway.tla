------------------------------- MODULE Gateway -------------------------------
(***************************************************************************)
(* The request path of the gateway plugin (pkg/gateway).  Envoy opens one  *)
(* ext_proc stream per HTTP request and Process serves each stream in its  *)
(* own goroutine, so the handlers of concurrent requests interleave at     *)
(* every call to Redis.  The streams modelled here belong to one           *)
(* (namespace, user, model): they share the counters of that identity's    *)
(* rate-limit rules and the usage of the ArksQuota its token names.        *)
(*                                                                         *)
(* One step is one Redis pipeline, or the local work up to the next one.   *)
(* The time a limiter call works with is read when the call starts, one    *)
(* step before its pipeline runs: the clock may have moved to the next     *)
(* window in between.  The client library re-sends a pipeline that failed  *)
(* on the network, so a command may take effect up to MaxApply times, and  *)
(* a pipeline reported as failed may have applied any part of itself.      *)
(* Redis is a single node (redis.mode single or sentinel): a read that     *)
(* fails makes the whole pipeline fail.                                    *)
(***************************************************************************)
EXTENDS Integers, FiniteSets, Windows

CONSTANTS
  Streams,       \* the goroutines of Process that may run at a time
  RequestRules,  \* rules of type "request" in the token's qos: rpm, rpd
  TokenRules,    \* rules of type "token": tpm, tpd
  Period,        \* Period[r]: the window length of rule r in seconds
  Limit,         \* Limit[r]: the value the token gives rule r
  HasQuota,      \* whether the qos names an ArksQuota
  QuotaTypes,    \* the types that ArksQuota limits
  QuotaLimit,    \* QuotaLimit[q]: the value the ArksQuota gives type q
  Reports,       \* the usage reports a backend may send
  MaxUsage,      \* the largest count in a usage report
  MaxReports,    \* bound: body messages of one response that report usage
  MaxApply,      \* how often a command may take effect: 1 + redis.max-retries
  MaxTime        \* the last instant modelled

CountTypes == {"prompt", "response", "total"}
Rules == RequestRules \cup TokenRules
Times == 0..MaxTime

ASSUME ConstantsAssumption ==
  /\ IsFiniteSet(Streams)
  /\ RequestRules \cap TokenRules = {}
  /\ Period \in [Rules -> Nat \ {0}]
  /\ Limit \in [Rules -> Nat]
  /\ HasQuota \in BOOLEAN
  /\ QuotaTypes \subseteq CountTypes
  /\ QuotaTypes # {} => HasQuota
  /\ QuotaLimit \in [QuotaTypes -> Nat]
  /\ MaxUsage \in Nat
  /\ MaxReports \in Nat
  /\ Reports \subseteq [CountTypes -> 0..MaxUsage]
  /\ MaxApply \in Nat \ {0}
  /\ MaxTime \in Nat

VARIABLES
  now,           \* the clock
  pc,            \* pc[s]: what the goroutine of stream s does next
  at,            \* at[s]: the time its limiter call in progress works with
  report,        \* report[s]: the usage it is charging
  reported,      \* reported[s]: the usage reports of its response so far
  count,         \* count[r][w]: the counter of rule r for the window from w
  quotaUsed,     \* quotaUsed[q]: the usage counter of quota type q
  quotaPresent,  \* whether the ArksQuota exists
  forwarded,     \* history: requests sent on, by the window they count in
  delivered      \* history: tokens of the usage reports passed on

limiterVars == <<count, forwarded>>
quotaVars == <<quotaUsed, delivered>>
streamVars == <<pc, at, report, reported>>
vars == <<now, streamVars, limiterVars, quotaVars, quotaPresent>>

NoReport == [c \in CountTypes |-> 0]

\* Where Process waits in srv.Recv, and where a handler is running.
Receiving == {"headers", "body", "upstream", "response", "error"}
Handling == {"check", "quota", "limit", "incr", "tincr", "qcharge"}

Window(r, t) == WindowStart(t, Period[r])

\* The types of the variables: the time of a limiter call in progress is an
\* instant that has been, and a charge is a report that was received.
TypeOK ==
  /\ now \in Times
  /\ pc \in [Streams -> {"idle"} \cup Receiving \cup Handling]
  /\ at \in [Streams -> Times]
  /\ report \in [Streams -> [CountTypes -> 0..MaxUsage]]
  /\ reported \in [Streams -> 0..MaxReports]
  /\ count \in [Rules -> [Times -> Nat]]
  /\ quotaUsed \in [QuotaTypes -> Nat]
  /\ quotaPresent \in BOOLEAN
  /\ forwarded \in [RequestRules -> [Times -> Nat]]
  /\ delivered \in [QuotaTypes -> Nat]

Init ==
  /\ now = 0
  /\ pc = [s \in Streams |-> "idle"]
  /\ at = [s \in Streams |-> 0]
  /\ report = [s \in Streams |-> NoReport]
  /\ reported = [s \in Streams |-> 0]
  /\ count = [r \in Rules |-> [w \in Times |-> 0]]
  /\ quotaUsed = [q \in QuotaTypes |-> 0]
  /\ quotaPresent = HasQuota
  /\ forwarded = [r \in RequestRules |-> [w \in Times |-> 0]]
  /\ delivered = [q \in QuotaTypes |-> 0]

-----------------------------------------------------------------------------
\* Stream s goes on at label, where no limiter call and no charge is under way.
GoTo(s, label) ==
  /\ pc' = [pc EXCEPT ![s] = label]
  /\ at' = [at EXCEPT ![s] = 0]
  /\ report' = [report EXCEPT ![s] = NoReport]

\* It does so before its response has reported any usage, or ends.
Continue(s, label) == GoTo(s, label) /\ reported' = [reported EXCEPT ![s] = 0]

\* A part of its response is passed on, and Process waits for the next part.
PassOn(s) == GoTo(s, "response") /\ UNCHANGED reported

\* An immediate response (an error or a refusal) answers the request; Envoy
\* then ends the stream, which leaves room for the next request.
Answer(s) == Continue(s, "idle")

\* A limiter call starts: it reads the clock and builds its keys from it.
StartLimiterCall(s, label, usage) ==
  /\ pc' = [pc EXCEPT ![s] = label]
  /\ at' = [at EXCEPT ![s] = now]
  /\ report' = [report EXCEPT ![s] = usage]

SharedUnchanged == UNCHANGED <<now, limiterVars, quotaVars, quotaPresent>>

-----------------------------------------------------------------------------
(* The request: headers, validation, checks, counting.                     *)

\* Envoy opens a stream for a new HTTP request.
Process(s) ==
  /\ pc[s] = "idle"
  /\ Continue(s, "headers")
  /\ SharedUnchanged

\* The headers carry a bearer token, or the request is refused with 401.  The body
\* comes next: a request without one is outside the streams modelled.
HandleRequestHeaders(s) ==
  /\ pc[s] = "headers"
  /\ Continue(s, "body") \/ Answer(s)
  /\ SharedUnchanged

\* The body does not parse or names no model (400), the token or its qos for
\* the model is not found (500), the model has no endpoint or cannot be looked
\* up, or a streaming request does not ask for usage (400).
RejectRequestBody(s) ==
  /\ pc[s] = "body"
  /\ Answer(s)
  /\ SharedUnchanged

\* The body is accepted: checkRateLimit lists the rules and CheckLimit reads
\* the clock.
StartCheckLimit(s) ==
  /\ pc[s] = "body"
  /\ StartLimiterCall(s, "check", NoReport)
  /\ UNCHANGED reported
  /\ SharedUnchanged

\* What a check adds to the counter before it compares: tokens are not known
\* yet, so a token rule is checked with 0.
Cost(r) == IF r \in RequestRules THEN 1 ELSE 0

\* Mutations: the request itself is not counted; token rules are not checked.
OverLimitWithoutCost(r, v) == v > Limit[r]
OverLimitRequestsOnly(r, v) == r \in RequestRules /\ v + Cost(r) > Limit[r]

OverLimit(r, v) == v + Cost(r) > Limit[r]

\* What GET may return for the window of t.  The counter of a window that has
\* ended may have expired, and been started again by a late increment.
Seen(r, t) ==
  IF Window(r, t) = Window(r, now)
    THEN {count[r][Window(r, t)]}
    ELSE 0..count[r][Window(r, t)]

\* CheckLimit's pipeline: the request goes on if no rule is over its limit.
AdmitRate(s) ==
  /\ pc[s] = "check"
  /\ \A r \in Rules : \E v \in Seen(r, at[s]) : ~OverLimit(r, v)
  /\ Continue(s, IF HasQuota THEN "quota" ELSE "limit")
  /\ SharedUnchanged

\* 429: a rule is over its limit.
RefuseRate(s) ==
  /\ pc[s] = "check"
  /\ \E r \in Rules : \E v \in Seen(r, at[s]) : OverLimit(r, v)
  /\ Answer(s)
  /\ SharedUnchanged

\* GetUsage: no amount is added before comparing.
OverQuota(q) == quotaUsed[q] > QuotaLimit[q]

\* Mutation: the result of the quota check is not looked at.
AdmitQuotaUnchecked(s) ==
  /\ pc[s] = "quota"
  /\ quotaPresent
  /\ Continue(s, "limit")
  /\ SharedUnchanged

\* checkTokenQuotaLimit finds the ArksQuota and no type over its limit.
AdmitQuota(s) ==
  /\ pc[s] = "quota"
  /\ quotaPresent
  /\ \A q \in QuotaTypes : ~OverQuota(q)
  /\ Continue(s, "limit")
  /\ SharedUnchanged

\* Mutation: a request over its quota is checked again instead of refused.
RefuseQuotaRetry(s) ==
  /\ pc[s] = "quota"
  /\ quotaPresent => \E q \in QuotaTypes : OverQuota(q)
  /\ StartLimiterCall(s, "check", NoReport)
  /\ UNCHANGED reported
  /\ SharedUnchanged

\* 429 over the quota, 500 without the ArksQuota.
RefuseQuota(s) ==
  /\ pc[s] = "quota"
  /\ quotaPresent => \E q \in QuotaTypes : OverQuota(q)
  /\ Answer(s)
  /\ SharedUnchanged

\* 500: the pipeline of a check fails.
CheckFails(s) ==
  /\ pc[s] \in {"check", "quota"}
  /\ Answer(s)
  /\ SharedUnchanged

\* doRequestRateLimit: DoLimit reads the clock for the request rules.
StartRequestLimit(s) ==
  /\ pc[s] = "limit"
  /\ StartLimiterCall(s, "incr", NoReport)
  /\ UNCHANGED reported
  /\ SharedUnchanged

\* Mutation: a failed pipeline is taken for one that succeeded.
AppliedUnchecked(keys, least) == [keys -> 0..MaxApply]

\* How often each command of a pipeline takes effect.
Applied(keys, least) == [keys -> least..MaxApply]

\* The counters of the given rules after n was added applied[r] times to the
\* window of t.
Incremented(rules, t, n, applied) ==
  [r \in Rules |-> [w \in Times |->
     IF r \in rules /\ w = Window(r, t)
       THEN count[r][w] + applied[r] * n
       ELSE count[r][w]]]

\* The request is counted and sent on with the model, namespace and user
\* headers.
DoRequestLimit(s) ==
  /\ pc[s] = "incr"
  /\ \E applied \in Applied(RequestRules, 1) :
       count' = Incremented(RequestRules, at[s], 1, applied)
  /\ forwarded' = [r \in RequestRules |-> [w \in Times |->
       IF w = Window(r, at[s]) THEN forwarded[r][w] + 1 ELSE forwarded[r][w]]]
  /\ Continue(s, "upstream")
  /\ UNCHANGED <<now, quotaVars, quotaPresent>>

\* The request is not sent on: the pipeline failed, at whatever point (500),
\* or it succeeded and Envoy has given the stream up, so that Send fails.
DropRequest(s) ==
  /\ pc[s] = "incr"
  /\ \E applied \in Applied(RequestRules, 0) :
       count' = Incremented(RequestRules, at[s], 1, applied)
  /\ Answer(s)
  /\ UNCHANGED <<now, forwarded, quotaVars, quotaPresent>>

-----------------------------------------------------------------------------
(* The response: headers, usage reports, charging.                         *)

\* Status 200 lets the body through; 500 is answered at once; any other status
\* is answered when the body arrives.
HandleResponseHeaders(s) ==
  /\ pc[s] = "upstream"
  /\ \E label \in {"response", "error", "idle"} : Continue(s, label)
  /\ SharedUnchanged

ResponseErrorProcessing(s) ==
  /\ pc[s] = "error"
  /\ Answer(s)
  /\ SharedUnchanged

\* The response ends, after any number of usage reports, or does not parse.
EndResponse(s) ==
  /\ pc[s] = "response"
  /\ Answer(s)
  /\ SharedUnchanged

\* A part of the body reports usage; those that do not are passed on and change
\* nothing here.  A report whose total is 0 is taken for none.  Every other one is
\* charged, also if an earlier part of the response has been, and no check comes
\* before it.  doTokenRateLimit reads the clock for the token rules.
HandleUsage(s) ==
  /\ pc[s] = "response"
  /\ reported[s] < MaxReports
  /\ reported' = [reported EXCEPT ![s] = @ + 1]
  /\ \E usage \in Reports :
       /\ usage["total"] # 0
       /\ StartLimiterCall(s, "tincr", usage)
  /\ SharedUnchanged

\* The token rules are charged with the total; the quota is next, if any.
DoTokenLimit(s) ==
  /\ pc[s] = "tincr"
  /\ \E applied \in Applied(TokenRules, 1) :
       count' = Incremented(TokenRules, at[s], report[s]["total"], applied)
  /\ IF HasQuota
       THEN /\ pc' = [pc EXCEPT ![s] = "qcharge"]
            /\ at' = [at EXCEPT ![s] = 0]
            /\ UNCHANGED <<report, reported>>
       ELSE PassOn(s)
  /\ UNCHANGED <<now, forwarded, quotaVars, quotaPresent>>

\* The pipeline fails, at whatever point: 500, and the quota is not charged.
DoTokenLimitFails(s) ==
  /\ pc[s] = "tincr"
  /\ \E applied \in Applied(TokenRules, 0) :
       count' = Incremented(TokenRules, at[s], report[s]["total"], applied)
  /\ Answer(s)
  /\ UNCHANGED <<now, forwarded, quotaVars, quotaPresent>>

Charged(usage, applied) ==
  [q \in QuotaTypes |-> quotaUsed[q] + applied[q] * usage[q]]

\* Mutation: without the ArksQuota the report is passed on uncharged.
DoTokenQuotaLimitLenient(s) ==
  /\ pc[s] = "qcharge"
  /\ \/ quotaPresent /\ \E applied \in Applied(QuotaTypes, 1) :
                            quotaUsed' = Charged(report[s], applied)
     \/ ~quotaPresent /\ UNCHANGED quotaUsed
  /\ delivered' = [q \in QuotaTypes |-> delivered[q] + report[s][q]]
  /\ PassOn(s)
  /\ UNCHANGED <<now, limiterVars, quotaPresent>>

\* doTokenQuotaLimit finds the ArksQuota and IncrUsage charges every type; the
\* part of the response with the report is passed on.
DoTokenQuotaLimit(s) ==
  /\ pc[s] = "qcharge"
  /\ quotaPresent
  /\ \E applied \in Applied(QuotaTypes, 1) :
       quotaUsed' = Charged(report[s], applied)
  /\ delivered' = [q \in QuotaTypes |-> delivered[q] + report[s][q]]
  /\ PassOn(s)
  /\ UNCHANGED <<now, limiterVars, quotaPresent>>

\* 500: the ArksQuota is gone, or the pipeline fails at whatever point.
DoTokenQuotaLimitFails(s) ==
  /\ pc[s] = "qcharge"
  /\ \/ quotaPresent /\ \E applied \in Applied(QuotaTypes, 0) :
                            quotaUsed' = Charged(report[s], applied)
     \/ ~quotaPresent /\ UNCHANGED quotaUsed
  /\ Answer(s)
  /\ UNCHANGED <<now, limiterVars, delivered, quotaPresent>>

\* The client or Envoy ends the stream: Process sees it when it waits in Recv.
Disconnect(s) ==
  /\ pc[s] \in Receiving
  /\ Continue(s, "idle")
  /\ SharedUnchanged

-----------------------------------------------------------------------------
\* The ArksQuota is deleted or created; its counters in Redis stay.
ToggleQuota ==
  /\ HasQuota
  /\ quotaPresent' = ~quotaPresent
  /\ UNCHANGED <<now, streamVars, limiterVars, quotaVars>>

Tick ==
  /\ now < MaxTime
  /\ now' = now + 1
  /\ UNCHANGED <<streamVars, limiterVars, quotaVars, quotaPresent>>

\* The steps of a running handler: each ends, as every Redis call returns or
\* times out.
Handle(s) ==
  \/ AdmitRate(s) \/ RefuseRate(s) \/ AdmitQuota(s) \/ RefuseQuota(s)
  \/ CheckFails(s) \/ StartRequestLimit(s) \/ DoRequestLimit(s)
  \/ DropRequest(s) \/ DoTokenLimit(s) \/ DoTokenLimitFails(s)
  \/ DoTokenQuotaLimit(s) \/ DoTokenQuotaLimitFails(s)

\* The steps that a message from Envoy starts.
Receive(s) ==
  \/ Process(s) \/ HandleRequestHeaders(s) \/ RejectRequestBody(s)
  \/ StartCheckLimit(s) \/ HandleResponseHeaders(s)
  \/ ResponseErrorProcessing(s) \/ EndResponse(s) \/ HandleUsage(s)
  \/ Disconnect(s)

Next == Tick \/ ToggleQuota \/ \E s \in Streams : Handle(s) \/ Receive(s)

Spec == Init /\ [][Next]_vars
FairSpec == Spec /\ \A s \in Streams : WF_vars(Handle(s))

-----------------------------------------------------------------------------
N == Cardinality(Streams)

\* The check and the increment of a request rule are two Redis round trips, so
\* concurrent requests can all pass the check.  However the requests, retries,
\* failures and window boundaries fall, a window never sees more than the limit
\* plus N - 1 requests forwarded, and none if the limit is 0.
RequestOvershootBounded ==
  \A r \in RequestRules, w \in Times :
    forwarded[r][w] <= IF Limit[r] = 0 THEN 0 ELSE Limit[r] - 1 + N

\* Every request sent to a backend is counted in the window it was admitted
\* for by doRequestRateLimit, whatever the pipeline's retries did.
ForwardedIsCounted ==
  \A r \in RequestRules, w \in Times : forwarded[r][w] <= count[r][w]

\* What the reports of all responses under way may add to a counter.
Overshoot == (N * MaxReports) * (MaxApply * MaxUsage)

\* A token rule is charged when the response arrives, long after the check, perhaps
\* in a window the check never looked at, and once for each part of the response
\* that reports usage.  The counter of a window still never exceeds the limit by
\* more than the reports of one response of every stream.
TokenOvershootBounded ==
  \A r \in TokenRules, w \in Times : count[r][w] <= Limit[r] + Overshoot

\* The quota is checked before the request and charged during the response: the
\* usage never exceeds the limit by more than the reports of one response of every
\* stream.
QuotaOvershootBounded ==
  \A q \in QuotaTypes : quotaUsed[q] <= QuotaLimit[q] + Overshoot

\* No usage report is passed on before its tokens are charged to the quota, also
\* when the ArksQuota comes and goes or a pipeline fails in between.
DeliveredIsCharged == \A q \in QuotaTypes : delivered[q] <= quotaUsed[q]

\* Every handler that starts work on a message ends it: the request is sent on,
\* or the client gets its answer.
HandlersFinish ==
  \A s \in Streams : pc[s] \in Handling ~> pc[s] \notin Handling
=============================================================================

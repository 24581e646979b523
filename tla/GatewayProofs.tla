---------------------------- MODULE GatewayProofs ----------------------------
(***************************************************************************)
(* Proofs about Gateway: type correctness, and the bounds on what          *)
(* concurrent requests can take beyond their limits, for every number of   *)
(* streams, every set of rules, limits, periods and retries.               *)
(***************************************************************************)
EXTENDS Gateway, TLAPS, FiniteSetTheorems

\* getWindowStart returns an instant of the past, and t lies in the period
\* that starts there.
LEMMA WindowHoldsTime ==
  ASSUME NEW t \in Nat, NEW p \in Nat \ {0}
  PROVE  /\ WindowStart(t, p) \in 0..t
         /\ t < WindowStart(t, p) + p
  BY DEF WindowStart

\* As the clock moves on, getWindowStart never goes back.
LEMMA WindowMonotone ==
  ASSUME NEW t \in Nat, NEW p \in Nat \ {0}
  PROVE  WindowStart(t, p) <= WindowStart(t + 1, p)
<1> DEFINE q == t \div p
           r == t % p
           d == (t + 1) \div p
           u == (t + 1) % p
<1>1. q \in Int /\ d \in Int /\ r \in 0..(p - 1) /\ u \in 0..(p - 1)
  OBVIOUS
<1>2. t = p * q + r /\ t + 1 = p * d + u
  OBVIOUS
<1>3. WindowStart(t, p) = t - r /\ WindowStart(t + 1, p) = t + 1 - u
  BY DEF WindowStart
<1> HIDE DEF q, r, d, u
<1>4. p * (d - q) = 1 + r - u
  BY <1>1, <1>2
<1>5. CASE d - q <= -1
  <2>1. p * (d - q) <= -p
    BY <1>1, <1>5
  <2> QED
    BY <2>1, <1>1, <1>4
<1>6. CASE d - q >= 0
  <2>1. p * (d - q) >= 0
    BY <1>1, <1>6
  <2> QED
    BY <2>1, <1>1, <1>3, <1>4
<1> QED
  BY <1>1, <1>5, <1>6

\* Applying an INCRBY of n to the counters a number of times leaves them
\* counters.
LEMMA IncrementedType ==
  ASSUME TypeOK,
         NEW rules \in SUBSET Rules, NEW t \in Times, NEW n \in Nat,
         NEW applied \in [rules -> Nat]
  PROVE  Incremented(rules, t, n, applied) \in [Rules -> [Times -> Nat]]
<1> SUFFICES ASSUME NEW r \in Rules, NEW w \in Times
             PROVE  Incremented(rules, t, n, applied)[r][w] \in Nat
  BY DEF Incremented
<1>1. count[r][w] \in Nat
  BY DEF TypeOK
<1>2. CASE r \in rules
  <2>1. applied[r] * n \in Nat
    BY <1>2
  <2> QED
    BY <1>1, <2>1 DEF Incremented
<1>3. CASE r \notin rules
  BY <1>1, <1>3 DEF Incremented
<1> QED
  BY <1>2, <1>3

\* A pipeline's commands take effect a natural number of times.
LEMMA AppliedType ==
  ASSUME NEW keys, NEW least \in {0, 1}, NEW f \in Applied(keys, least)
  PROVE  /\ f \in [keys -> Nat]
         /\ \A k \in keys : least <= f[k] /\ f[k] <= MaxApply
  BY ConstantsAssumption DEF Applied

\* What a successful pipeline does, a failed one may have done.
LEMMA SuccessIsApplied ==
  ASSUME NEW keys
  PROVE  Applied(keys, 1) \subseteq Applied(keys, 0)
  BY DEF Applied

\* IncrUsage leaves the quota counters natural numbers.
LEMMA ChargedType ==
  ASSUME TypeOK, NEW usage \in [CountTypes -> 0..MaxUsage],
         NEW applied \in [QuotaTypes -> Nat]
  PROVE  Charged(usage, applied) \in [QuotaTypes -> Nat]
<1> SUFFICES ASSUME NEW q \in QuotaTypes
             PROVE  quotaUsed[q] + applied[q] * usage[q] \in Nat
  BY DEF Charged
<1>1. q \in CountTypes
  BY ConstantsAssumption
<1>2. usage[q] \in Nat /\ applied[q] \in Nat /\ quotaUsed[q] \in Nat
  BY <1>1, ConstantsAssumption DEF TypeOK
<1>3. applied[q] * usage[q] \in Nat
  BY <1>2
<1> QED
  BY <1>2, <1>3

\* No usage is a usage report of nothing.
LEMMA NoReportType == NoReport \in [CountTypes -> 0..MaxUsage]
  BY ConstantsAssumption DEF NoReport

\* What TypeOK says of the streams, and of what they share.
StreamTypeOK ==
  /\ pc \in [Streams -> {"idle"} \cup Receiving \cup Handling]
  /\ at \in [Streams -> Times]
  /\ report \in [Streams -> [CountTypes -> 0..MaxUsage]]
  /\ reported \in [Streams -> 0..MaxReports]
SharedTypeOK ==
  /\ now \in Times
  /\ count \in [Rules -> [Times -> Nat]]
  /\ quotaUsed \in [QuotaTypes -> Nat]
  /\ quotaPresent \in BOOLEAN
  /\ forwarded \in [RequestRules -> [Times -> Nat]]
  /\ delivered \in [QuotaTypes -> Nat]

\* Moving a stream to another label, with its locals reset or with the count of
\* its reports kept, keeps the types of the streams.
LEMMA ContinueType ==
  ASSUME TypeOK, NEW s \in Streams,
         NEW label \in {"idle"} \cup Receiving \cup Handling,
         Continue(s, label) \/ (GoTo(s, label) /\ UNCHANGED reported)
  PROVE  StreamTypeOK'
<1>1. GoTo(s, label)
  BY DEF Continue
<1>2. /\ pc' \in [Streams -> {"idle"} \cup Receiving \cup Handling]
      /\ at' \in [Streams -> Times]
      /\ report' \in [Streams -> [CountTypes -> 0..MaxUsage]]
  BY <1>1, NoReportType, ConstantsAssumption DEF TypeOK, GoTo, Times
<1>3. reported' \in [Streams -> 0..MaxReports]
  <2>1. reported \in [Streams -> 0..MaxReports] /\ 0 \in 0..MaxReports
    BY ConstantsAssumption DEF TypeOK
  <2>2. reported' = reported \/ reported' = [reported EXCEPT ![s] = 0]
    BY DEF Continue
  <2> QED
    BY <2>1, <2>2
<1> QED
  BY <1>2, <1>3 DEF StreamTypeOK

\* So does ending the stream, or waiting for the next part of its response.
LEMMA AnswerType ==
  ASSUME TypeOK, NEW s \in Streams, Answer(s) \/ PassOn(s)
  PROVE  StreamTypeOK'
<1>1. CASE Answer(s)
  BY <1>1, ContinueType DEF Answer
<1>2. CASE PassOn(s)
  <2>1. "response" \in {"idle"} \cup Receiving \cup Handling
    BY DEF Receiving
  <2> QED
    BY <1>2, <2>1, ContinueType DEF PassOn
<1> QED
  BY <1>1, <1>2

\* So does starting a limiter call, for a check, a request or a report.
LEMMA StartLimiterCallType ==
  ASSUME TypeOK, NEW s \in Streams, NEW label \in Handling,
         NEW usage \in [CountTypes -> 0..MaxUsage],
         StartLimiterCall(s, label, usage),
         \/ UNCHANGED reported
         \/ /\ reported[s] < MaxReports
            /\ reported' = [reported EXCEPT ![s] = @ + 1]
  PROVE  StreamTypeOK'
<1>1. reported' \in [Streams -> 0..MaxReports]
  BY ConstantsAssumption DEF TypeOK
<1> QED
  BY <1>1 DEF TypeOK, StreamTypeOK, StartLimiterCall

\* Each step of a stream keeps the types of the streams.
LEMMA StreamTypeStep ==
  ASSUME TypeOK, NEW s \in Streams, Handle(s) \/ Receive(s)
  PROVE  StreamTypeOK'
<1>1. CASE \E label \in {"idle", "quota", "limit"} \cup Receiving : Continue(s, label)
  <2>1. PICK label \in {"idle"} \cup Receiving \cup Handling : Continue(s, label)
    BY <1>1 DEF Handling
  <2> QED
    BY <2>1, ContinueType
<1>2. CASE Answer(s) \/ PassOn(s)
  BY <1>2, AnswerType
<1>3. CASE StartCheckLimit(s)
  BY <1>3, StartLimiterCallType, NoReportType DEF StartCheckLimit, Handling
<1>4. CASE StartRequestLimit(s)
  BY <1>4, StartLimiterCallType, NoReportType DEF StartRequestLimit, Handling
<1>5. CASE HandleUsage(s)
  <2>1. PICK usage \in [CountTypes -> 0..MaxUsage] : StartLimiterCall(s, "tincr", usage)
    BY <1>5, ConstantsAssumption DEF HandleUsage
  <2>2. /\ "tincr" \in Handling
        /\ reported[s] < MaxReports
        /\ reported' = [reported EXCEPT ![s] = @ + 1]
    BY <1>5 DEF HandleUsage, Handling
  <2> QED
    BY <2>1, <2>2, StartLimiterCallType
<1>6. CASE DoTokenLimit(s) /\ HasQuota
  <2>1. pc' = [pc EXCEPT ![s] = "qcharge"] /\ at' = [at EXCEPT ![s] = 0]
    BY <1>6 DEF DoTokenLimit
  <2>2. UNCHANGED <<report, reported>>
    BY <1>6 DEF DoTokenLimit
  <2>3. 0 \in Times /\ "qcharge" \in Handling
    BY ConstantsAssumption DEF Times, Handling
  <2> QED
    BY <2>1, <2>2, <2>3 DEF TypeOK, StreamTypeOK
<1>7. CASE DoTokenLimit(s) /\ ~HasQuota
  BY <1>7, <1>2 DEF DoTokenLimit
<1>8. CASE Handle(s)
  <2>1. CASE AdmitRate(s) \/ AdmitQuota(s) \/ DoRequestLimit(s)
    BY <2>1, <1>1 DEF AdmitRate, AdmitQuota, DoRequestLimit, Receiving
  <2>2. CASE \/ RefuseRate(s) \/ RefuseQuota(s) \/ CheckFails(s) \/ DropRequest(s)
             \/ DoTokenLimitFails(s) \/ DoTokenQuotaLimit(s)
             \/ DoTokenQuotaLimitFails(s)
    BY <2>2, <1>2
    DEF RefuseRate, RefuseQuota, CheckFails, DropRequest, DoTokenLimitFails,
        DoTokenQuotaLimit, DoTokenQuotaLimitFails
  <2> QED
    BY <1>8, <1>4, <1>6, <1>7, <2>1, <2>2 DEF Handle
<1>9. CASE Receive(s)
  BY <1>9, <1>1, <1>2, <1>3, <1>5
  DEF Receive, Process, HandleRequestHeaders, RejectRequestBody,
      HandleResponseHeaders, ResponseErrorProcessing, EndResponse, Disconnect,
      Receiving
<1> QED
  BY <1>8, <1>9

\* Each step of a stream keeps the types of what the streams share.
LEMMA SharedTypeStep ==
  ASSUME TypeOK, NEW s \in Streams, Handle(s) \/ Receive(s)
  PROVE  SharedTypeOK'
<1> USE DEF limiterVars, quotaVars
<1>1. CASE SharedUnchanged
  BY <1>1 DEF TypeOK, SharedTypeOK, SharedUnchanged
<1>2. at[s] \in Times /\ report[s] \in [CountTypes -> 0..MaxUsage]
  BY DEF TypeOK
<1>3. report[s]["total"] \in Nat
  BY <1>2, ConstantsAssumption DEF CountTypes
<1>4. CASE DoRequestLimit(s) \/ DropRequest(s)
  <2>1. PICK applied \in Applied(RequestRules, 0) :
          count' = Incremented(RequestRules, at[s], 1, applied)
    BY <1>4, SuccessIsApplied DEF DoRequestLimit, DropRequest
  <2>2. applied \in [RequestRules -> Nat]
    BY AppliedType
  <2>3. count' \in [Rules -> [Times -> Nat]]
    BY <1>2, <2>1, <2>2, IncrementedType DEF Rules
  <2>4. forwarded' \in [RequestRules -> [Times -> Nat]]
    BY <1>4 DEF DoRequestLimit, DropRequest, TypeOK
  <2> QED
    BY <1>4, <2>3, <2>4 DEF DoRequestLimit, DropRequest, TypeOK, SharedTypeOK
<1>5. CASE DoTokenLimit(s) \/ DoTokenLimitFails(s)
  <2>1. PICK applied \in Applied(TokenRules, 0) :
          count' = Incremented(TokenRules, at[s], report[s]["total"], applied)
    BY <1>5, SuccessIsApplied DEF DoTokenLimit, DoTokenLimitFails
  <2>2. applied \in [TokenRules -> Nat]
    BY <2>1, AppliedType
  <2>3. count' \in [Rules -> [Times -> Nat]]
    BY <1>2, <1>3, <2>1, <2>2, IncrementedType DEF Rules
  <2> QED
    BY <1>5, <2>3 DEF DoTokenLimit, DoTokenLimitFails, TypeOK, SharedTypeOK
<1>6. CASE DoTokenQuotaLimit(s) \/ DoTokenQuotaLimitFails(s)
  <2>1. quotaUsed' \in [QuotaTypes -> Nat]
    <3>1. CASE \E applied \in Applied(QuotaTypes, 0) : quotaUsed' = Charged(report[s], applied)
      BY <1>2, <3>1, ChargedType, AppliedType
    <3>2. CASE quotaUsed' = quotaUsed
      BY <3>2 DEF TypeOK
    <3> QED
      BY <1>6, <3>1, <3>2, SuccessIsApplied DEF DoTokenQuotaLimit, DoTokenQuotaLimitFails
  <2>2. delivered' \in [QuotaTypes -> Nat]
    BY <1>2, <1>6, ConstantsAssumption
    DEF DoTokenQuotaLimit, DoTokenQuotaLimitFails, TypeOK
  <2> QED
    BY <1>6, <2>1, <2>2 DEF DoTokenQuotaLimit, DoTokenQuotaLimitFails, TypeOK, SharedTypeOK
<1>7. CASE Handle(s)
  BY <1>7, <1>1, <1>4, <1>5, <1>6
  DEF Handle, AdmitRate, RefuseRate, AdmitQuota, RefuseQuota, CheckFails,
      StartRequestLimit
<1>8. CASE Receive(s)
  BY <1>8, <1>1
  DEF Receive, Process, HandleRequestHeaders, RejectRequestBody,
      StartCheckLimit, HandleResponseHeaders, ResponseErrorProcessing,
      EndResponse, HandleUsage, Disconnect
<1> QED
  BY <1>7, <1>8

\* Every step of the gateway keeps the types of its state.
LEMMA TypeOKStep == TypeOK /\ [Next]_vars => TypeOK'
<1> SUFFICES ASSUME TypeOK, [Next]_vars
             PROVE  TypeOK'
  OBVIOUS
<1> USE DEF limiterVars, quotaVars, streamVars
<1>1. CASE UNCHANGED vars
  BY <1>1 DEF TypeOK, vars
<1>2. CASE Tick
  BY <1>2, ConstantsAssumption DEF TypeOK, Tick, Times
<1>3. CASE ToggleQuota
  BY <1>3 DEF TypeOK, ToggleQuota
<1>4. ASSUME NEW s \in Streams, Handle(s) \/ Receive(s)
      PROVE  TypeOK'
  <2>1. StreamTypeOK' /\ SharedTypeOK'
    BY <1>4, StreamTypeStep, SharedTypeStep
  <2> QED
    BY <2>1 DEF TypeOK, StreamTypeOK, SharedTypeOK
<1> QED
  BY <1>1, <1>2, <1>3, <1>4 DEF Next

\* Everything the gateway keeps for its streams, its limiter and its quota
\* stays of its type, whatever the requests, failures and retries.
THEOREM TypeCorrect == Spec => []TypeOK
<1>1. Init => TypeOK
  BY NoReportType, ConstantsAssumption DEF Init, TypeOK, Times
<1> QED
  BY <1>1, TypeOKStep, PTL DEF Spec

-----------------------------------------------------------------------------
(* The inductive invariant.                                                *)

\* A limiter call works in the current window or in an earlier one.
CallsAreNotAhead ==
  \A s \in Streams, r \in Rules : Window(r, at[s]) <= Window(r, now)

\* Windows that have not started have counted nothing.
FutureIsEmpty ==
  \A r \in Rules, w \in Times : w > Window(r, now) => count[r][w] = 0

\* The streams that may still be forwarded in window w of request rule r
\* without a check of that window before: those about to increment it, and,
\* until the window is over, those that have been admitted or that are
\* checking another window.
RequestThreat(r, w) ==
  {s \in Streams :
     \/ pc[s] = "incr" /\ Window(r, at[s]) = w
     \/ /\ Window(r, now) <= w
        /\ \/ pc[s] \in {"quota", "limit"}
           \/ pc[s] = "check" /\ Window(r, at[s]) # w}

\* The usage reports that the responses of all streams may bring.
Slots == Streams \X (1..MaxReports)

\* Where a stream is while its response reports usage, and whether its k-th report
\* is still to come: before the response all are.
Responding == {"response", "tincr", "qcharge"}
ToCome(s, k) == pc[s] \in Responding => k > reported[s]

\* The reports that may still be charged to window w of token rule r without a
\* check of that window before: the one a stream is charging to it, and, until the
\* window is over, those to come in a stream that has been admitted or that is
\* checking another window.
TokenThreat(r, w) ==
  {p \in Slots :
     \/ pc[p[1]] = "tincr" /\ p[2] = reported[p[1]] /\ Window(r, at[p[1]]) = w
     \/ /\ Window(r, now) <= w
        /\ ToCome(p[1], p[2])
        /\ \/ pc[p[1]] \in {"quota", "limit", "incr", "upstream"} \cup Responding
           \/ pc[p[1]] = "check" /\ Window(r, at[p[1]]) # w}

\* The reports of streams that have passed the quota check that are still to be
\* charged to the quota.
QuotaThreat ==
  {p \in Slots :
     \/ pc[p[1]] \in {"tincr", "qcharge"} /\ p[2] = reported[p[1]]
     \/ /\ ToCome(p[1], p[2])
        /\ pc[p[1]] \in {"limit", "incr", "upstream"} \cup Responding}

\* The report that is being charged has been counted.
ReportIsCounted ==
  \A s \in Streams : pc[s] \in {"tincr", "qcharge"} => reported[s] # 0

Charge == MaxApply * MaxUsage

RequestBudget ==
  \A r \in RequestRules, w \in Times :
    Limit[r] # 0 =>
      forwarded[r][w] + Cardinality(RequestThreat(r, w)) <= Limit[r] - 1 + N

\* A request rule with limit 0 lets no stream past the check.
ZeroAdmitsNone ==
  \A r \in RequestRules :
    Limit[r] = 0 =>
      /\ \A s \in Streams : pc[s] \notin {"quota", "limit", "incr"}
      /\ \A w \in Times : forwarded[r][w] = 0

TokenBudget ==
  \A r \in TokenRules, w \in Times :
    count[r][w] + Cardinality(TokenThreat(r, w)) * Charge
      <= Limit[r] + Cardinality(Slots) * Charge

QuotaBudget ==
  \A q \in QuotaTypes :
    quotaUsed[q] + Cardinality(QuotaThreat) * Charge
      <= QuotaLimit[q] + Cardinality(Slots) * Charge

CounterInv ==
  /\ TypeOK
  /\ CallsAreNotAhead /\ FutureIsEmpty /\ ForwardedIsCounted /\ ReportIsCounted
IInv ==
  /\ CounterInv
  /\ RequestBudget /\ ZeroAdmitsNone /\ TokenBudget /\ QuotaBudget
  /\ DeliveredIsCharged

-----------------------------------------------------------------------------
(* The budget argument, for a counter x that the members of a set T of     *)
(* streams, or of their reports, may still raise by k each.                *)

\* A bound x + |T| * k <= limit + |S| * k survives a step that leaves x alone
\* and adds nobody to T, one that finds x within the limit, and one in which
\* a member of T makes its charge and leaves.
LEMMA BudgetStep ==
  ASSUME NEW S, IsFiniteSet(S), NEW T \in SUBSET S, NEW U \in SUBSET S,
         NEW x \in Nat, NEW y \in Nat, NEW k \in Nat, NEW limit \in Int,
         x + Cardinality(T) * k <= limit + Cardinality(S) * k,
         \/ y = x /\ U \subseteq T
         \/ y <= limit
         \/ \E s \in T : y <= x + k /\ U \subseteq T \ {s}
  PROVE  y + Cardinality(U) * k <= limit + Cardinality(S) * k
<1> DEFINE cS == Cardinality(S)
           cT == Cardinality(T)
           cU == Cardinality(U)
<1>1. IsFiniteSet(T) /\ IsFiniteSet(U) /\ cU <= cS
  BY FS_Subset
<1>2. cS \in Nat /\ cT \in Nat /\ cU \in Nat
  BY <1>1, FS_CardinalityType
<1>3. \A a, b \in Nat : a <= b => a * k <= b * k
  OBVIOUS
<1>4. CASE y = x /\ U \subseteq T
  <2>1. cU <= cT
    BY <1>1, <1>4, FS_Subset
  <2> HIDE DEF cS, cT, cU
  <2>2. cU * k <= cT * k /\ cU * k \in Nat /\ cT * k \in Nat /\ cS * k \in Nat
    BY <1>2, <1>3, <2>1
  <2>3. x + cT * k <= limit + cS * k
    BY DEF cS, cT
  <2>4. y + cU * k <= limit + cS * k
    BY <1>4, <2>2, <2>3
  <2> QED
    BY <2>4 DEF cS, cU
<1>5. CASE y <= limit
  <2> HIDE DEF cS, cT, cU
  <2>1. cU * k <= cS * k /\ cU * k \in Nat /\ cS * k \in Nat
    BY <1>1, <1>2, <1>3
  <2>2. y + cU * k <= limit + cS * k
    BY <1>5, <2>1
  <2> QED
    BY <2>2 DEF cS, cU
<1>6. CASE \E s \in T : y <= x + k /\ U \subseteq T \ {s}
  <2>1. PICK s \in T : y <= x + k /\ U \subseteq T \ {s}
    BY <1>6
  <2>2. IsFiniteSet(T \ {s}) /\ Cardinality(T \ {s}) = cT - 1
    BY <1>1, FS_RemoveElement
  <2>3. cU <= cT - 1
    BY <2>1, <2>2, FS_Subset
  <2> HIDE DEF cS, cT, cU
  <2>4. (cU + 1) * k <= cT * k
    BY <1>2, <1>3, <2>3
  <2>5. (cU + 1) * k = cU * k + k
    BY <1>2
  <2>6. cU * k \in Nat /\ cT * k \in Nat /\ cS * k \in Nat
    BY <1>2
  <2>7. x + cT * k <= limit + cS * k
    BY DEF cS, cT
  <2>8. y + cU * k <= limit + cS * k
    BY <2>1, <2>4, <2>5, <2>6, <2>7
  <2> QED
    BY <2>8 DEF cS, cU
<1> QED
  BY <1>4, <1>5, <1>6

\* Every stream has MaxReports slots.
LEMMA SlotsFinite == IsFiniteSet(Slots) /\ Cardinality(Slots) = N * MaxReports
<1>1. /\ IsFiniteSet(1..MaxReports) /\ IsFiniteSet(Streams) /\ MaxReports \in Nat
      /\ Cardinality(1..MaxReports) = MaxReports
  BY ConstantsAssumption, FS_Interval
<1> QED
  BY <1>1, FS_Product DEF Slots, N

\* When a step moves stream s only, it is the slots of s that tell what becomes of
\* a set of slots.
LEMMA SlotsStep ==
  ASSUME NEW s \in Streams, NEW T \in SUBSET Slots, NEW U \in SUBSET Slots,
         \A x \in Streams \ {s}, k \in 1..MaxReports : <<x, k>> \in U => <<x, k>> \in T
  PROVE  /\ (\A k \in 1..MaxReports : <<s, k>> \in U => <<s, k>> \in T) => U \subseteq T
         /\ \A j \in 1..MaxReports :
              (\A k \in 1..MaxReports : <<s, k>> \in U => <<s, k>> \in T /\ k # j)
                => U \subseteq T \ {<<s, j>>}
<1>1. ASSUME NEW p \in U
      PROVE  \E x \in Streams, k \in 1..MaxReports : p = <<x, k>>
  BY DEF Slots
<1>2. ASSUME \A k \in 1..MaxReports : <<s, k>> \in U => <<s, k>> \in T
      PROVE  U \subseteq T
  BY <1>1, <1>2
<1>3. ASSUME NEW j \in 1..MaxReports,
             \A k \in 1..MaxReports : <<s, k>> \in U => <<s, k>> \in T /\ k # j
      PROVE  U \subseteq T \ {<<s, j>>}
  BY <1>1, <1>3
<1> QED
  BY <1>2, <1>3

-----------------------------------------------------------------------------
(* The counters.                                                           *)

\* Limits and instants are natural numbers.
LEMMA LimitType == \A r \in Rules : Limit[r] \in Nat
  BY ConstantsAssumption

LEMMA TimesType == \A t \in Times : t \in Nat
  BY ConstantsAssumption DEF Times

\* The window of an instant of the run is an instant of the run, not later.
LEMMA WindowType ==
  ASSUME NEW r \in Rules, NEW t \in Times
  PROVE  Window(r, t) \in Times /\ Window(r, t) <= t
<1>1. t \in Nat /\ Period[r] \in Nat \ {0} /\ MaxTime \in Nat /\ t <= MaxTime
  BY ConstantsAssumption DEF Times
<1>2. WindowStart(t, Period[r]) \in 0..t
  BY <1>1, WindowHoldsTime
<1> QED
  BY <1>1, <1>2 DEF Window, Times

\* The current window never goes back.
LEMMA TickMonotone ==
  ASSUME TypeOK, Tick, NEW r \in Rules
  PROVE  Window(r, now) <= Window(r, now')
<1>1. now \in Nat /\ Period[r] \in Nat \ {0} /\ now' = now + 1
  BY ConstantsAssumption DEF TypeOK, Times, Tick
<1> QED
  BY <1>1, WindowMonotone DEF Window

\* A stream's step moves that stream only, leaves the clock alone, and works
\* with the current time or ends its limiter call.
LEMMA StreamFrame ==
  ASSUME TypeOK, NEW s \in Streams, Handle(s) \/ Receive(s)
  PROVE  /\ now' = now
         /\ at'[s] \in {0, now}
         /\ \A x \in Streams \ {s} :
              pc'[x] = pc[x] /\ at'[x] = at[x] /\ reported'[x] = reported[x]
<1> USE DEF limiterVars, quotaVars, SharedUnchanged, Continue, GoTo, PassOn,
            Answer, StartLimiterCall, TypeOK
<1>1. CASE Handle(s)
  BY <1>1
  DEF Handle, AdmitRate, RefuseRate, AdmitQuota, RefuseQuota, CheckFails,
      StartRequestLimit, DoRequestLimit, DropRequest, DoTokenLimit,
      DoTokenLimitFails, DoTokenQuotaLimit, DoTokenQuotaLimitFails
<1>2. CASE StartCheckLimit(s)
  BY <1>2 DEF StartCheckLimit
<1>3. CASE HandleUsage(s)
  BY <1>3 DEF HandleUsage
<1>4. CASE \/ Process(s) \/ HandleRequestHeaders(s) \/ RejectRequestBody(s)
           \/ HandleResponseHeaders(s) \/ ResponseErrorProcessing(s)
           \/ EndResponse(s) \/ Disconnect(s)
  BY <1>4
  DEF Process, HandleRequestHeaders, RejectRequestBody, HandleResponseHeaders,
      ResponseErrorProcessing, EndResponse, Disconnect
<1> QED
  BY ZenonT(60), <1>1, <1>2, <1>3, <1>4 DEF Receive

\* The ways a stream gets on with its request; every other step sends it back
\* to where it has passed no check.
LEMMA PathStep ==
  ASSUME TypeOK, NEW s \in Streams, Handle(s) \/ Receive(s)
  PROVE  \/ StartCheckLimit(s) \/ AdmitRate(s) \/ AdmitQuota(s)
         \/ StartRequestLimit(s) \/ DoRequestLimit(s)
         \/ HandleResponseHeaders(s) \/ HandleUsage(s) \/ DoTokenLimit(s)
         \/ DoTokenQuotaLimit(s)
         \/ pc'[s] \in {"idle", "headers", "body"}
<1> USE DEF TypeOK, Continue, GoTo, Answer
<1>1. CASE Handle(s)
  BY <1>1
  DEF Handle, RefuseRate, RefuseQuota, CheckFails, DropRequest,
      DoTokenLimitFails, DoTokenQuotaLimitFails
<1>2. CASE Receive(s)
  BY <1>2
  DEF Receive, Process, HandleRequestHeaders, RejectRequestBody,
      ResponseErrorProcessing, EndResponse, Disconnect
<1> QED
  BY SMTT(60), <1>1, <1>2

\* A charge starts with a report, which is counted then.
LEMMA ReportStep == TypeOK /\ ReportIsCounted /\ [Next]_vars => ReportIsCounted'
<1> SUFFICES ASSUME TypeOK, ReportIsCounted, [Next]_vars
             PROVE  ReportIsCounted'
  OBVIOUS
<1>1. CASE UNCHANGED vars \/ ToggleQuota \/ Tick
  BY <1>1 DEF vars, ToggleQuota, Tick, streamVars, ReportIsCounted
<1>2. ASSUME NEW s \in Streams, Handle(s) \/ Receive(s)
      PROVE  ReportIsCounted'
  <2>1. \A x \in Streams \ {s} : pc'[x] = pc[x] /\ reported'[x] = reported[x]
    BY <1>2, StreamFrame
  <2>2. CASE HandleUsage(s)
    <3>1. reported'[s] = reported[s] + 1 /\ reported[s] \in Nat
      BY <2>2, ConstantsAssumption DEF HandleUsage, TypeOK
    <3> QED
      BY <2>1, <3>1 DEF ReportIsCounted
  <2>3. CASE DoTokenLimit(s)
    <3>1. pc[s] = "tincr" /\ reported' = reported
      BY <2>3 DEF DoTokenLimit, PassOn
    <3> QED
      BY <2>1, <3>1 DEF ReportIsCounted
  <2>4. CASE ~HandleUsage(s) /\ ~DoTokenLimit(s)
    <3>1. pc'[s] \notin {"tincr", "qcharge"}
      BY <1>2, <2>4, PathStep
      DEF StartCheckLimit, AdmitRate, AdmitQuota, StartRequestLimit,
          DoRequestLimit, HandleResponseHeaders, DoTokenQuotaLimit, Continue,
          GoTo, PassOn, StartLimiterCall, TypeOK
    <3> QED
      BY <2>1, <3>1 DEF ReportIsCounted
  <2> QED
    BY <2>2, <2>3, <2>4
<1> QED
  BY <1>1, <1>2 DEF Next

\* The counters of the limiter change only in the pipelines of DoLimit.
LEMMA CountStep ==
  ASSUME TypeOK, NEW s \in Streams, Handle(s) \/ Receive(s)
  PROVE  \/ count' = count
         \/ /\ pc[s] = "incr"
            /\ \E applied \in Applied(RequestRules, 0) :
                 count' = Incremented(RequestRules, at[s], 1, applied)
         \/ /\ pc[s] = "tincr"
            /\ \E applied \in Applied(TokenRules, 0) :
                 count' = Incremented(TokenRules, at[s],
                                      report[s]["total"], applied)
<1> USE DEF limiterVars, SharedUnchanged
<1>1. CASE DoRequestLimit(s) \/ DropRequest(s)
  BY ZenonT(60), <1>1, SuccessIsApplied DEF DoRequestLimit, DropRequest
<1>2. CASE DoTokenLimit(s) \/ DoTokenLimitFails(s)
  BY ZenonT(60), <1>2, SuccessIsApplied DEF DoTokenLimit, DoTokenLimitFails
<1>3. CASE \/ AdmitRate(s) \/ RefuseRate(s) \/ AdmitQuota(s) \/ RefuseQuota(s)
           \/ CheckFails(s) \/ StartRequestLimit(s) \/ DoTokenQuotaLimit(s)
           \/ DoTokenQuotaLimitFails(s)
  <2>1. count' = count
    BY <1>3
    DEF AdmitRate, RefuseRate, AdmitQuota, RefuseQuota, CheckFails,
        StartRequestLimit, DoTokenQuotaLimit, DoTokenQuotaLimitFails
  <2> QED
    BY ZenonT(60), <2>1
<1>4. CASE Receive(s)
  <2>1. count' = count
    BY <1>4
    DEF Receive, Process, HandleRequestHeaders, RejectRequestBody,
        StartCheckLimit, HandleResponseHeaders, ResponseErrorProcessing,
        EndResponse, HandleUsage, Disconnect
  <2> QED
    BY ZenonT(60), <2>1
<1> QED
  BY ZenonT(60), <1>1, <1>2, <1>3, <1>4 DEF Handle

\* DoLimit's pipeline only raises counters, and only those of its rules in the
\* window of the time it read.
LEMMA IncrementedFacts ==
  ASSUME TypeOK, NEW rules \in SUBSET Rules, NEW t \in Times, NEW n \in Nat,
         NEW applied \in Applied(rules, 0),
         NEW r \in Rules, NEW w \in Times
  PROVE  LET new == Incremented(rules, t, n, applied)[r][w] IN
         /\ new >= count[r][w]
         /\ r \notin rules \/ w # Window(r, t) => new = count[r][w]
         /\ r \in rules /\ w = Window(r, t) => new = count[r][w] + applied[r] * n
<1>1. count[r][w] \in Nat
  BY DEF TypeOK
<1>2. CASE r \in rules
  <2>1. applied[r] \in Nat
    BY <1>2, AppliedType
  <2>2. applied[r] * n \in Nat
    BY <2>1
  <2> QED
    BY <1>1, <2>2 DEF Incremented
<1>3. CASE r \notin rules
  BY <1>1, <1>3 DEF Incremented
<1> QED
  BY <1>2, <1>3

\* A DoLimit pipeline of a stream raises some counters of windows that have
\* started, and no other.
LEMMA CountGrows ==
  ASSUME CounterInv, NEW s \in Streams, Handle(s) \/ Receive(s),
         NEW r \in Rules, NEW w \in Times
  PROVE  /\ count'[r][w] >= count[r][w]
         /\ w > Window(r, now) => count'[r][w] = count[r][w]
<1>1. TypeOK /\ at[s] \in Times /\ now \in Times /\ count[r][w] \in Nat
  BY DEF CounterInv, TypeOK
<1>2. report[s]["total"] \in Nat
  BY ConstantsAssumption DEF CounterInv, TypeOK, CountTypes
<1>3. /\ Window(r, at[s]) <= Window(r, now)
      /\ Window(r, at[s]) \in Times /\ Window(r, now) \in Times
  BY <1>1, WindowType DEF CounterInv, CallsAreNotAhead
<1>4. w > Window(r, now) => w # Window(r, at[s])
  BY <1>3, ConstantsAssumption DEF Times
<1>5. CASE count' = count
  BY <1>1, <1>5
<1>6. CASE \E applied \in Applied(RequestRules, 0) :
             count' = Incremented(RequestRules, at[s], 1, applied)
  <2>1. PICK applied \in Applied(RequestRules, 0) :
          count' = Incremented(RequestRules, at[s], 1, applied)
    BY <1>6
  <2> DEFINE new == Incremented(RequestRules, at[s], 1, applied)[r][w]
  <2>2. RequestRules \in SUBSET Rules
    BY DEF Rules
  <2>3. new >= count[r][w] /\ (w # Window(r, at[s]) => new = count[r][w])
    BY <1>1, <2>2, IncrementedFacts
  <2>4. count'[r][w] = new
    BY <2>1
  <2> HIDE DEF new
  <2> QED
    BY <1>4, <2>3, <2>4
<1>7. CASE \E applied \in Applied(TokenRules, 0) :
             count' = Incremented(TokenRules, at[s], report[s]["total"], applied)
  <2>1. PICK applied \in Applied(TokenRules, 0) :
          count' = Incremented(TokenRules, at[s], report[s]["total"], applied)
    BY <1>7
  <2> DEFINE n == report[s]["total"]
             new == Incremented(TokenRules, at[s], n, applied)[r][w]
  <2>2. TokenRules \in SUBSET Rules /\ n \in Nat
    BY <1>2 DEF Rules
  <2> HIDE DEF n
  <2>3. new >= count[r][w] /\ (w # Window(r, at[s]) => new = count[r][w])
    BY <1>1, <2>2, IncrementedFacts
  <2>4. count'[r][w] = new
    BY <2>1 DEF n
  <2> HIDE DEF new
  <2> QED
    BY <1>4, <2>3, <2>4
<1> QED
  BY <1>1, <1>5, <1>6, <1>7, CountStep

\* A request is forwarded only by the step that counts it.
LEMMA ForwardedStep ==
  ASSUME TypeOK, NEW s \in Streams, Handle(s) \/ Receive(s)
  PROVE  forwarded' = forwarded \/ DoRequestLimit(s)
<1> USE DEF limiterVars, SharedUnchanged
<1>1. CASE Handle(s)
  BY <1>1
  DEF Handle, AdmitRate, RefuseRate, AdmitQuota, RefuseQuota, CheckFails,
      StartRequestLimit, DropRequest, DoTokenLimit,
      DoTokenLimitFails, DoTokenQuotaLimit, DoTokenQuotaLimitFails
<1>2. CASE Receive(s)
  BY <1>2
  DEF Receive, Process, HandleRequestHeaders, RejectRequestBody,
      StartCheckLimit, HandleResponseHeaders, ResponseErrorProcessing,
      EndResponse, HandleUsage, Disconnect
<1> QED
  BY <1>1, <1>2

\* What every step keeps of the counters: no call is ahead of the clock, no
\* window counts before it starts, every forwarded request is counted.
LEMMA CounterStep == CounterInv /\ [Next]_vars => CounterInv'
<1> SUFFICES ASSUME CounterInv, [Next]_vars
             PROVE  CounterInv'
  OBVIOUS
<1>1. TypeOK /\ TypeOK' /\ ReportIsCounted'
  BY SMTT(60), TypeOKStep, ReportStep DEF CounterInv
<1> USE DEF limiterVars, quotaVars, streamVars
<1>2. CASE UNCHANGED vars
  BY <1>1, <1>2
  DEF CounterInv, CallsAreNotAhead, FutureIsEmpty, ForwardedIsCounted, vars, Window
<1>3. CASE ToggleQuota
  BY <1>1, <1>3
  DEF CounterInv, CallsAreNotAhead, FutureIsEmpty, ForwardedIsCounted,
      ToggleQuota, Window
<1>4. CASE Tick
  <2>1. \A r \in Rules : Window(r, now) <= Window(r, now')
    BY <1>1, <1>4, TickMonotone
  <2>2. \A r \in Rules :
          /\ Window(r, now) \in Times /\ Window(r, now') \in Times
          /\ \A s \in Streams : Window(r, at[s]) \in Times
    BY <1>1, WindowType DEF TypeOK
  <2>3. UNCHANGED <<count, at, forwarded>>
    BY <1>4 DEF Tick
  <2>4. \A r \in Rules, s \in Streams : Window(r, at'[s]) <= Window(r, now')
    BY <2>1, <2>2, <2>3, ConstantsAssumption DEF CounterInv, CallsAreNotAhead, Times
  <2>5. FutureIsEmpty'
    <3> SUFFICES ASSUME NEW r \in Rules, NEW w \in Times, w > Window(r, now')
                 PROVE  count[r][w] = 0
      BY <2>3 DEF FutureIsEmpty, Window
    <3>1. w > Window(r, now)
      BY <2>1, <2>2, ConstantsAssumption DEF Times
    <3> QED
      BY <3>1 DEF CounterInv, FutureIsEmpty
  <2> QED
    BY <1>1, <2>3, <2>4, <2>5
    DEF CounterInv, CallsAreNotAhead, ForwardedIsCounted, Window
<1>5. ASSUME NEW s \in Streams, Handle(s) \/ Receive(s)
      PROVE  CounterInv'
  <2>1. now' = now /\ at'[s] \in {0, now}
        /\ \A x \in Streams \ {s} : at'[x] = at[x]
    BY <1>1, <1>5, StreamFrame
  <2>2. CallsAreNotAhead'
    <3> SUFFICES ASSUME NEW x \in Streams, NEW r \in Rules
                 PROVE  Window(r, at'[x]) <= Window(r, now)
      BY <2>1 DEF CallsAreNotAhead, Window
    <3>1. CASE x # s
      BY <2>1, <3>1 DEF CounterInv, CallsAreNotAhead
    <3>2. CASE x = s
      <4>1. 0 \in Times /\ now \in Times
        BY <1>1, ConstantsAssumption DEF TypeOK, Times
      <4>2. Window(r, 0) \in Times /\ Window(r, 0) <= 0 /\ Window(r, now) \in Times
        BY <4>1, WindowType
      <4> QED
        BY <2>1, <3>2, <4>2, ConstantsAssumption DEF Times
    <3> QED
      BY <3>1, <3>2
  <2>3. FutureIsEmpty'
    BY <1>5, <2>1, CountGrows DEF FutureIsEmpty, CounterInv, Window
  <2>4. CASE forwarded' = forwarded
    <3>1. ForwardedIsCounted'
      <4> SUFFICES ASSUME NEW r \in RequestRules, NEW w \in Times
                   PROVE  forwarded[r][w] <= count'[r][w]
        BY <2>4 DEF ForwardedIsCounted
      <4>1. count'[r][w] >= count[r][w] /\ r \in Rules
        BY <1>5, CountGrows DEF Rules
      <4>2. forwarded[r][w] \in Nat /\ count[r][w] \in Nat /\ count'[r][w] \in Nat
        BY <1>1, <4>1 DEF TypeOK
      <4> QED
        BY <4>1, <4>2 DEF CounterInv, ForwardedIsCounted
    <3> QED
      BY <1>1, <2>2, <2>3, <3>1 DEF CounterInv
  <2>5. CASE DoRequestLimit(s)
    <3>1. PICK applied \in Applied(RequestRules, 1) :
            count' = Incremented(RequestRules, at[s], 1, applied)
      BY <2>5 DEF DoRequestLimit
    <3>2. applied \in Applied(RequestRules, 0)
      BY SuccessIsApplied
    <3>3. ForwardedIsCounted'
      <4> SUFFICES ASSUME NEW r \in RequestRules, NEW w \in Times
                   PROVE  forwarded'[r][w] <= count'[r][w]
        BY DEF ForwardedIsCounted
      <4>1. forwarded[r][w] \in Nat /\ count[r][w] \in Nat /\ at[s] \in Times
            /\ r \in Rules /\ forwarded[r][w] <= count[r][w]
        BY <1>1 DEF TypeOK, Rules, CounterInv, ForwardedIsCounted
      <4>2. CASE w = Window(r, at[s])
        <5>1. applied[r] \in Nat /\ applied[r] >= 1
          BY AppliedType
        <5>2. count'[r][w] = count[r][w] + applied[r] * 1
          BY <3>1, <4>1, <4>2 DEF Incremented
        <5>3. forwarded'[r][w] = forwarded[r][w] + 1
          BY <2>5, <4>2 DEF DoRequestLimit
        <5> QED
          BY <4>1, <5>1, <5>2, <5>3
      <4>3. CASE w # Window(r, at[s])
        <5>1. count'[r][w] = count[r][w]
          <6>1. Incremented(RequestRules, at[s], 1, applied)[r][w] = count[r][w]
            BY <4>1, <4>3 DEF Incremented
          <6> QED
            BY <3>1, <6>1
        <5>2. forwarded'[r][w] = forwarded[r][w]
          BY <2>5, <4>3 DEF DoRequestLimit
        <5> QED
          BY <4>1, <5>1, <5>2
      <4> QED
        BY <4>2, <4>3
    <3> QED
      BY <1>1, <2>2, <2>3, <3>3 DEF CounterInv
  <2> QED
    BY <1>1, <1>5, <2>4, <2>5, ForwardedStep
<1> QED
  BY <1>2, <1>3, <1>4, <1>5 DEF Next

-----------------------------------------------------------------------------
(* The three budgets.                                                      *)

\* Each step keeps the budget of the request rules.
LEMMA RequestBudgetStep ==
  CounterInv /\ RequestBudget /\ [Next]_vars => RequestBudget'
<1> SUFFICES ASSUME CounterInv, RequestBudget, [Next]_vars,
                    NEW r \in RequestRules, NEW w \in Times, Limit[r] # 0
             PROVE  forwarded'[r][w] + Cardinality(RequestThreat(r, w)')
                      <= Limit[r] - 1 + N
  BY DEF RequestBudget, N
<1> DEFINE T == RequestThreat(r, w)
           U == RequestThreat(r, w)'
<1>1. TypeOK /\ r \in Rules /\ now \in Times
  BY DEF CounterInv, TypeOK, Rules
<1>next. TypeOK'
  BY <1>1, TypeOKStep
<1>nat. forwarded[r][w] \in Nat /\ forwarded'[r][w] \in Nat /\ count[r][w] \in Nat
  BY <1>1, <1>next DEF TypeOK
<1>2. Limit[r] \in Nat \ {0} /\ w \in Nat
  BY <1>1, LimitType, TimesType
<1>3. forwarded[r][w] <= count[r][w]
  BY DEF CounterInv, ForwardedIsCounted
<1>4. Window(r, now) \in Nat
  BY <1>1, WindowType DEF Times
<1>5. \A x \in Streams : Window(r, at[x]) \in Nat /\ Window(r, at[x]) <= Window(r, now)
  BY <1>1, WindowType DEF TypeOK, CounterInv, CallsAreNotAhead, Times
<1>6. SUFFICES \/ forwarded'[r][w] = forwarded[r][w] /\ U \subseteq T
               \/ forwarded'[r][w] <= Limit[r] - 1
               \/ \E s \in T : /\ forwarded'[r][w] <= forwarded[r][w] + 1
                              /\ U \subseteq T \ {s}
  <2>1. IsFiniteSet(Streams) /\ T \in SUBSET Streams /\ U \in SUBSET Streams
    BY ConstantsAssumption DEF RequestThreat
  <2>2. Cardinality(T) \in Nat /\ Cardinality(U) \in Nat /\ N \in Nat
    BY <2>1, FS_Subset, FS_CardinalityType DEF N
  <2>3. forwarded[r][w] + Cardinality(T) <= Limit[r] - 1 + N
    BY <1>2 DEF RequestBudget
  <2> HIDE DEF T, U
  <2>4. forwarded[r][w] + Cardinality(T) * 1 <= (Limit[r] - 1) + Cardinality(Streams) * 1
    BY <1>nat, <1>2, <2>2, <2>3 DEF N
  <2>5. forwarded'[r][w] + Cardinality(U) * 1 <= (Limit[r] - 1) + Cardinality(Streams) * 1
    <3> DEFINE x == forwarded[r][w]
               y == forwarded'[r][w]
               limit == Limit[r] - 1
               k == 1
    <3>1. x \in Nat /\ y \in Nat /\ limit \in Int /\ k \in Nat
      BY <1>nat, <1>2
    <3>2. x + Cardinality(T) * k <= limit + Cardinality(Streams) * k
      BY <2>4
    <3>3. \/ y = x /\ U \subseteq T
          \/ y <= limit
          \/ \E s \in T : y <= x + k /\ U \subseteq T \ {s}
      BY <1>6
    <3> HIDE DEF x, y, limit, k
    <3>4. y + Cardinality(U) * k <= limit + Cardinality(Streams) * k
      BY <2>1, <3>1, <3>2, <3>3, BudgetStep
    <3> QED
      BY <3>4 DEF x, y, limit, k
  <2>6. forwarded'[r][w] + Cardinality(U) <= Limit[r] - 1 + N
    <3> DEFINE y == forwarded'[r][w]
               limit == Limit[r]
               c == Cardinality(U)
    <3>1. y \in Nat /\ limit \in Nat /\ c \in Nat /\ N \in Nat
      BY <1>nat, <1>2, <2>2
    <3>2. y + c * 1 <= (limit - 1) + N * 1
      BY <2>5 DEF N
    <3> HIDE DEF y, limit, c
    <3>3. y + c <= limit - 1 + N
      BY <3>1, <3>2
    <3> QED
      BY <3>3 DEF y, limit, c
  <2> QED
    BY <2>6 DEF U
<1> USE DEF limiterVars, quotaVars, streamVars
<1>7. CASE UNCHANGED vars \/ ToggleQuota
  BY <1>7 DEF vars, ToggleQuota, RequestThreat, Window
<1>8. CASE Tick
  <2>1. Window(r, now) <= Window(r, now') /\ Window(r, now') \in Nat
    <3>1. now' \in Times
      BY <1>next DEF TypeOK
    <3> QED
      BY <1>1, <1>8, <3>1, TickMonotone, WindowType DEF Times
  <2>2. UNCHANGED <<pc, at, forwarded>>
    BY <1>8 DEF Tick
  <2>3. U \subseteq T
    BY <1>2, <1>4, <2>1, <2>2 DEF RequestThreat, Window
  <2> QED
    BY <2>2, <2>3
<1>9. ASSUME NEW s \in Streams, Handle(s) \/ Receive(s)
      PROVE  \/ forwarded'[r][w] = forwarded[r][w] /\ U \subseteq T
             \/ forwarded'[r][w] <= Limit[r] - 1
             \/ \E x \in T : /\ forwarded'[r][w] <= forwarded[r][w] + 1
                            /\ U \subseteq T \ {x}
  <2>1. /\ now' = now
        /\ \A x \in Streams \ {s} : pc'[x] = pc[x] /\ at'[x] = at[x]
    BY <1>1, <1>9, StreamFrame
  <2>2. U \subseteq T \cup {s}
    BY <2>1 DEF RequestThreat, Window
  <2>3. s \in U <=> \/ pc'[s] = "incr" /\ Window(r, at'[s]) = w
                    \/ /\ Window(r, now) <= w
                       /\ \/ pc'[s] \in {"quota", "limit"}
                          \/ pc'[s] = "check" /\ Window(r, at'[s]) # w
    BY <2>1 DEF RequestThreat, Window
  <2>4. s \in T <=> \/ pc[s] = "incr" /\ Window(r, at[s]) = w
                    \/ /\ Window(r, now) <= w
                       /\ \/ pc[s] \in {"quota", "limit"}
                          \/ pc[s] = "check" /\ Window(r, at[s]) # w
    BY DEF RequestThreat
  <2> HIDE DEF T, U
  <2>5. CASE DoRequestLimit(s)
    <3>1. pc'[s] = "upstream" /\ pc[s] = "incr"
      BY <1>1, <2>5 DEF DoRequestLimit, Continue, GoTo, TypeOK
    <3>2. s \notin U
      BY <2>3, <3>1
    <3>3. CASE w = Window(r, at[s])
      <4>1. s \in T
        BY <2>4, <3>1, <3>3
      <4>2. forwarded'[r][w] = forwarded[r][w] + 1
        BY <2>5, <3>3 DEF DoRequestLimit
      <4>3. forwarded'[r][w] <= forwarded[r][w] + 1
        BY <1>nat, <4>2
      <4>4. U \subseteq T \ {s}
        BY <2>2, <3>2
      <4> QED
        BY ZenonT(60), <4>1, <4>3, <4>4
    <3>4. CASE w # Window(r, at[s])
      <4>1. forwarded'[r][w] = forwarded[r][w]
        <5>1. forwarded' = [x \in RequestRules |-> [v \in Times |->
                IF v = Window(x, at[s]) THEN forwarded[x][v] + 1 ELSE forwarded[x][v]]]
          BY <2>5 DEF DoRequestLimit
        <5> QED
          BY <3>4, <5>1
      <4> QED
        BY <2>2, <3>2, <4>1
    <3> QED
      BY <3>3, <3>4
  <2>6. CASE ~DoRequestLimit(s)
    <3>1. forwarded'[r][w] = forwarded[r][w]
      BY <1>1, <1>9, <2>6, ForwardedStep
    <3>2. CASE StartCheckLimit(s)
      <4>1. pc'[s] = "check" /\ at'[s] = now
        BY <1>1, <3>2 DEF StartCheckLimit, StartLimiterCall, TypeOK
      <4>2. CASE w > Window(r, now)
        <5>1. count[r][w] = 0
          BY <1>1, <4>2 DEF CounterInv, FutureIsEmpty
        <5>2. forwarded'[r][w] <= Limit[r] - 1
          BY <1>nat, <1>2, <1>3, <3>1, <5>1
        <5> QED
          BY <5>2
      <4>3. CASE ~(w > Window(r, now))
        <5>1. s \notin U
          BY <1>2, <1>4, <2>3, <4>1, <4>3
        <5> QED
          BY <2>2, <3>1, <5>1
      <4> QED
        BY <4>2, <4>3
    <3>3. CASE AdmitRate(s)
      <4>1. pc[s] = "check" /\ pc'[s] \in {"quota", "limit"}
        BY SMTT(60), <1>1, <3>3 DEF AdmitRate, Continue, GoTo, TypeOK
      <4>2. CASE Window(r, at[s]) = w /\ Window(r, now) = w
        <5>1. PICK v \in Seen(r, at[s]) : ~OverLimit(r, v)
          BY <1>1, <3>3 DEF AdmitRate
        <5>2. v = count[r][w]
          BY <4>2, <5>1 DEF Seen
        <5>3. count[r][w] + 1 <= Limit[r]
          <6>1. ~(count[r][w] + 1 > Limit[r])
            BY <5>1, <5>2 DEF OverLimit, Cost
          <6> QED
            BY <1>nat, <1>2, <6>1
        <5>4. forwarded'[r][w] <= Limit[r] - 1
          BY <1>nat, <1>2, <1>3, <3>1, <5>3
        <5> QED
          BY <5>4
      <4>3. CASE ~(Window(r, at[s]) = w /\ Window(r, now) = w)
        <5>1. s \in U => Window(r, now) <= w
          BY <2>3, <4>1
        <5>2. Window(r, now) <= w => Window(r, at[s]) # w
          BY <1>2, <1>4, <1>5, <4>3
        <5>3. s \in U => s \in T
          BY <2>4, <4>1, <5>1, <5>2
        <5> QED
          BY <2>2, <3>1, <5>3
      <4> QED
        BY <4>2, <4>3
    <3>4. CASE AdmitQuota(s)
      <4>1. pc[s] = "quota" /\ pc'[s] = "limit"
        BY <1>1, <3>4 DEF AdmitQuota, Continue, GoTo, TypeOK
      <4>2. s \in U => s \in T
        BY <2>3, <2>4, <4>1
      <4> QED
        BY <2>2, <3>1, <4>2
    <3>5. CASE StartRequestLimit(s)
      <4>1. pc[s] = "limit" /\ pc'[s] = "incr" /\ at'[s] = now
        BY <1>1, <3>5 DEF StartRequestLimit, StartLimiterCall, TypeOK
      <4>2. s \in U => Window(r, now) = w \/ Window(r, now) <= w
        BY <2>3, <4>1
      <4>3. Window(r, now) = w => Window(r, now) <= w
        BY <1>4
      <4>4. s \in U => s \in T
        BY <2>4, <4>1, <4>2, <4>3
      <4> QED
        BY <2>2, <3>1, <4>4
    <3>6. CASE \/ HandleResponseHeaders(s) \/ HandleUsage(s) \/ DoTokenLimit(s)
               \/ DoTokenQuotaLimit(s) \/ pc'[s] \in {"idle", "headers", "body"}
      <4>1. pc'[s] \notin {"check", "quota", "limit", "incr"}
        BY <1>1, <3>6
        DEF HandleResponseHeaders, HandleUsage, DoTokenLimit, DoTokenQuotaLimit,
            Continue, GoTo, PassOn, StartLimiterCall, TypeOK
      <4> QED
        BY <2>2, <2>3, <3>1, <4>1
    <3> QED
      BY <1>1, <1>9, <2>6, <3>2, <3>3, <3>4, <3>5, <3>6, PathStep
  <2> QED
    BY <2>5, <2>6
<1> QED
  BY ZenonT(60), <1>7, <1>8, <1>9 DEF Next

LEMMA ChargeType == Charge \in Nat
  BY ConstantsAssumption DEF Charge

\* One charge of a stream raises a counter by at most Charge.
LEMMA ChargeBound ==
  ASSUME NEW a \in Nat, NEW n \in Nat, a <= MaxApply, n <= MaxUsage
  PROVE  a * n \in Nat /\ a * n <= Charge /\ Charge \in Nat
<1>1. MaxApply \in Nat /\ MaxUsage \in Nat
  BY ConstantsAssumption
<1>2. a * n <= MaxApply * n
  BY <1>1
<1>3. MaxApply * n <= MaxApply * MaxUsage
  BY <1>1
<1>4. a * n \in Nat /\ MaxApply * n \in Nat /\ MaxApply * MaxUsage \in Nat
  BY <1>1
<1> QED
  BY <1>2, <1>3, <1>4 DEF Charge

\* Each step keeps the budget of the token rules.
LEMMA TokenBudgetStep ==
  CounterInv /\ TokenBudget /\ [Next]_vars => TokenBudget'
<1> SUFFICES ASSUME CounterInv, TokenBudget, [Next]_vars,
                    NEW r \in TokenRules, NEW w \in Times
             PROVE  count'[r][w] + Cardinality(TokenThreat(r, w)') * Charge
                      <= Limit[r] + Cardinality(Slots) * Charge
  BY DEF TokenBudget, Charge, Slots
<1> DEFINE T == TokenThreat(r, w)
           U == TokenThreat(r, w)'
<1>1. TypeOK /\ r \in Rules /\ r \notin RequestRules /\ now \in Times
  BY ConstantsAssumption DEF CounterInv, TypeOK, Rules
<1>next. TypeOK'
  BY <1>1, TypeOKStep
<1>nat. count[r][w] \in Nat /\ count'[r][w] \in Nat
  BY <1>1, <1>next DEF TypeOK
<1>2. Limit[r] \in Nat /\ w \in Nat /\ Charge \in Nat
  BY <1>1, LimitType, TimesType, ChargeType
<1>3. Window(r, now) \in Nat
  BY <1>1, WindowType DEF Times
<1>4. \A x \in Streams : Window(r, at[x]) \in Nat /\ Window(r, at[x]) <= Window(r, now)
  BY SMTT(60), <1>1, WindowType DEF TypeOK, CounterInv, CallsAreNotAhead, Times
<1>5. SUFFICES \/ count'[r][w] = count[r][w] /\ U \subseteq T
               \/ count'[r][w] <= Limit[r]
               \/ \E p \in T : /\ count'[r][w] <= count[r][w] + Charge
                              /\ U \subseteq T \ {p}
  <2>1. IsFiniteSet(Slots) /\ T \in SUBSET Slots /\ U \in SUBSET Slots
    BY SlotsFinite DEF TokenThreat, Slots
  <2>2. count[r][w] + Cardinality(T) * Charge <= Limit[r] + Cardinality(Slots) * Charge
    BY DEF TokenBudget
  <2> DEFINE x == count[r][w]
             y == count'[r][w]
  <2>3. x \in Nat /\ y \in Nat /\ Limit[r] \in Int
    BY <1>nat, <1>2
  <2>4. \/ y = x /\ U \subseteq T
        \/ y <= Limit[r]
        \/ \E p \in T : y <= x + Charge /\ U \subseteq T \ {p}
    BY <1>5
  <2>5. x + Cardinality(T) * Charge <= Limit[r] + Cardinality(Slots) * Charge
    BY <2>2
  <2> HIDE DEF T, U, x, y
  <2>6. y + Cardinality(U) * Charge <= Limit[r] + Cardinality(Slots) * Charge
    BY <1>2, <2>1, <2>3, <2>4, <2>5, BudgetStep
  <2> QED
    BY ZenonT(60), <2>6 DEF y, U
<1> USE DEF limiterVars, quotaVars, streamVars
<1>6. CASE UNCHANGED vars \/ ToggleQuota
  BY ZenonT(60), <1>6 DEF vars, ToggleQuota, TokenThreat, ToCome, Slots, Window
<1>7. CASE Tick
  <2>1. Window(r, now) <= Window(r, now') /\ Window(r, now') \in Nat
    <3>1. now' \in Times
      BY <1>next DEF TypeOK
    <3> QED
      BY <1>1, <1>7, <3>1, TickMonotone, WindowType DEF Times
  <2>2. UNCHANGED <<pc, at, reported, count>>
    BY <1>7 DEF Tick
  <2>3. U \subseteq T
    <3>1. Window(r, now') <= w => Window(r, now) <= w
      BY <1>2, <1>3, <2>1
    <3> QED
      BY <2>2, <3>1 DEF TokenThreat, ToCome, Window
  <2> QED
    BY <2>2, <2>3
<1>8. ASSUME NEW s \in Streams, Handle(s) \/ Receive(s)
      PROVE  \/ count'[r][w] = count[r][w] /\ U \subseteq T
             \/ count'[r][w] <= Limit[r]
             \/ \E x \in T : /\ count'[r][w] <= count[r][w] + Charge
                            /\ U \subseteq T \ {x}
  <2>1. /\ now' = now
        /\ \A x \in Streams \ {s} :
             pc'[x] = pc[x] /\ at'[x] = at[x] /\ reported'[x] = reported[x]
    BY <1>1, <1>8, StreamFrame
  <2>2. /\ T \in SUBSET Slots /\ U \in SUBSET Slots
        /\ \A x \in Streams \ {s}, k \in 1..MaxReports : <<x, k>> \in U => <<x, k>> \in T
    BY <2>1 DEF TokenThreat, ToCome, Slots, Window
  <2>3. \A k \in 1..MaxReports :
          <<s, k>> \in U <=>
            \/ pc'[s] = "tincr" /\ k = reported'[s] /\ Window(r, at'[s]) = w
            \/ /\ Window(r, now) <= w
               /\ pc'[s] \in Responding => k > reported'[s]
               /\ \/ pc'[s] \in {"quota", "limit", "incr", "upstream"} \cup Responding
                  \/ pc'[s] = "check" /\ Window(r, at'[s]) # w
    BY <2>1 DEF TokenThreat, ToCome, Slots, Window
  <2>4. \A k \in 1..MaxReports :
          <<s, k>> \in T <=>
            \/ pc[s] = "tincr" /\ k = reported[s] /\ Window(r, at[s]) = w
            \/ /\ Window(r, now) <= w
               /\ pc[s] \in Responding => k > reported[s]
               /\ \/ pc[s] \in {"quota", "limit", "incr", "upstream"} \cup Responding
                  \/ pc[s] = "check" /\ Window(r, at[s]) # w
    BY DEF TokenThreat, ToCome, Slots
  <2> HIDE DEF T, U
  <2>slots. /\ (\A k \in 1..MaxReports : <<s, k>> \in U => <<s, k>> \in T) => U \subseteq T
        /\ \A j \in 1..MaxReports :
             (\A k \in 1..MaxReports : <<s, k>> \in U => <<s, k>> \in T /\ k # j)
               => U \subseteq T \ {<<s, j>>}
    BY <1>8, <2>2, SlotsStep
  <2>5. CASE pc[s] = "tincr"
    <3>1. DoTokenLimit(s) \/ DoTokenLimitFails(s)
      BY ZenonT(60), <1>8, <2>5
      DEF Handle, AdmitRate, RefuseRate, AdmitQuota, RefuseQuota, CheckFails,
          StartRequestLimit, DoRequestLimit, DropRequest, DoTokenQuotaLimit,
          DoTokenQuotaLimitFails, Receive, Process, HandleRequestHeaders,
          RejectRequestBody, StartCheckLimit, HandleResponseHeaders,
          ResponseErrorProcessing, EndResponse, HandleUsage, Disconnect, Receiving
    <3>2. \/ pc'[s] = "idle"
          \/ pc'[s] \in {"response", "qcharge"} /\ reported' = reported
      <4>1. CASE DoTokenLimitFails(s)
        BY <1>1, <4>1 DEF DoTokenLimitFails, Answer, Continue, GoTo, TypeOK
      <4>2. CASE DoTokenLimit(s) /\ HasQuota
        BY <1>1, <4>2 DEF DoTokenLimit, TypeOK
      <4>3. CASE DoTokenLimit(s) /\ ~HasQuota
        BY <1>1, <4>3 DEF DoTokenLimit, PassOn, GoTo, TypeOK
      <4> QED
        BY <3>1, <4>1, <4>2, <4>3
    <3>3. \A k \in 1..MaxReports :
            <<s, k>> \in U => <<s, k>> \in T /\ k # reported[s]
      <4> SUFFICES ASSUME NEW k \in 1..MaxReports, <<s, k>> \in U
                   PROVE  <<s, k>> \in T /\ k # reported[s]
        OBVIOUS
      <4>1. /\ pc'[s] \in {"response", "qcharge"} /\ reported'[s] = reported[s]
            /\ Window(r, now) <= w
        BY <2>3, <3>2 DEF Responding
      <4>2. k > reported[s]
        BY <2>3, <4>1 DEF Responding
      <4>3. <<s, k>> \in T
        BY <2>4, <2>5, <4>1, <4>2 DEF Responding
      <4>4. reported[s] \in Nat
        BY <1>1, ConstantsAssumption DEF TypeOK
      <4> QED
        BY <4>2, <4>3, <4>4
    <3>4. PICK applied \in Applied(TokenRules, 0) :
            count' = Incremented(TokenRules, at[s], report[s]["total"], applied)
      BY <3>1, SuccessIsApplied DEF DoTokenLimit, DoTokenLimitFails
    <3>5. /\ report[s]["total"] \in Nat /\ report[s]["total"] <= MaxUsage
          /\ at[s] \in Times
      BY <1>1, ConstantsAssumption DEF TypeOK, CountTypes
    <3>6. CASE w = Window(r, at[s])
      <4>0. reported[s] \in 1..MaxReports
        BY <1>1, <2>5 DEF CounterInv, ReportIsCounted, TypeOK
      <4>1. <<s, reported[s]>> \in T
        BY <2>4, <2>5, <3>6, <4>0
      <4>2. count'[r][w] = count[r][w] + applied[r] * report[s]["total"]
        <5>1. Incremented(TokenRules, at[s], report[s]["total"], applied)[r][w]
                = count[r][w] + applied[r] * report[s]["total"]
          BY <1>1, <3>6 DEF Incremented
        <5> QED
          BY <3>4, <5>1
      <4>3. applied[r] \in Nat /\ applied[r] <= MaxApply
        BY SMTT(60), AppliedType
      <4>4. /\ applied[r] * report[s]["total"] \in Nat
            /\ applied[r] * report[s]["total"] <= Charge
        BY <3>5, <4>3, ChargeBound
      <4>5. count'[r][w] <= count[r][w] + Charge
        BY <1>nat, <1>2, <4>2, <4>4
      <4> QED
        BY <2>slots, <3>3, <4>0, <4>1, <4>5
    <3>7. CASE w # Window(r, at[s])
      <4>1. count'[r][w] = count[r][w]
        <5>1. Incremented(TokenRules, at[s], report[s]["total"], applied)[r][w]
                = count[r][w]
          BY <1>1, <3>7 DEF Incremented
        <5> QED
          BY <3>4, <5>1
      <4> QED
        BY SMTT(60), <2>slots, <3>3, <4>1
    <3> QED
      BY <3>6, <3>7
  <2>6. CASE pc[s] # "tincr"
    <3>1. count'[r][w] = count[r][w]
      <4>1. CASE count' = count
        BY SMTT(60), <4>1
      <4>2. CASE \E applied \in Applied(RequestRules, 0) :
                   count' = Incremented(RequestRules, at[s], 1, applied)
        <5>1. PICK applied \in Applied(RequestRules, 0) :
                count' = Incremented(RequestRules, at[s], 1, applied)
          BY <4>2
        <5>2. Incremented(RequestRules, at[s], 1, applied)[r][w] = count[r][w]
          BY <1>1 DEF Incremented
        <5> QED
          BY <5>1, <5>2
      <4> QED
        BY ZenonT(60), <1>1, <1>8, <2>6, <4>1, <4>2, CountStep
    <3>2. CASE StartCheckLimit(s)
      <4>1. pc'[s] = "check" /\ at'[s] = now
        BY <1>1, <3>2 DEF StartCheckLimit, StartLimiterCall, TypeOK
      <4>2. CASE w > Window(r, now)
        <5>1. count[r][w] = 0
          BY <1>1, <4>2 DEF CounterInv, FutureIsEmpty
        <5>2. count'[r][w] <= Limit[r]
          <6>1. 0 <= Limit[r]
            BY <1>2
          <6> QED
            BY ZenonT(60), <3>1, <5>1, <6>1
        <5> QED
          BY <5>2
      <4>3. CASE ~(w > Window(r, now))
        <5>1. \A k \in 1..MaxReports : <<s, k>> \notin U
          <6>1. Window(r, now) <= w => Window(r, now) = w
            BY <1>2, <1>3, <4>3
          <6> QED
            BY <2>3, <4>1, <6>1 DEF Responding
        <5> QED
          BY <2>slots, <3>1, <5>1
      <4> QED
        BY <4>2, <4>3
    <3>3. CASE AdmitRate(s)
      <4>1. pc[s] = "check" /\ pc'[s] \in {"quota", "limit"}
        BY SMTT(60), <1>1, <3>3 DEF AdmitRate, Continue, GoTo, TypeOK
      <4>2. CASE Window(r, at[s]) = w /\ Window(r, now) = w
        <5>1. PICK v \in Seen(r, at[s]) : ~OverLimit(r, v)
          BY <1>1, <3>3 DEF AdmitRate
        <5>2. v = count[r][w]
          BY <4>2, <5>1 DEF Seen
        <5>3. count[r][w] <= Limit[r]
          <6>1. ~(count[r][w] + 0 > Limit[r])
            BY <1>1, <5>1, <5>2 DEF OverLimit, Cost
          <6> QED
            BY <1>nat, <1>2, <6>1
        <5>4. count'[r][w] <= Limit[r]
          BY <3>1, <5>3
        <5> QED
          BY <5>4
      <4>3. CASE ~(Window(r, at[s]) = w /\ Window(r, now) = w)
        <5>1. \A k \in 1..MaxReports : <<s, k>> \in U => Window(r, now) <= w
          BY <2>3, <4>1
        <5>2. Window(r, now) <= w => Window(r, at[s]) # w
          BY <1>2, <1>3, <1>4, <4>3
        <5>3. \A k \in 1..MaxReports : <<s, k>> \in U => <<s, k>> \in T
          BY <2>4, <4>1, <5>1, <5>2 DEF Responding
        <5> QED
          BY <2>slots, <3>1, <5>3
      <4> QED
        BY <4>2, <4>3
    <3>4. CASE AdmitQuota(s) \/ DoRequestLimit(s)
      <4>1. pc[s] \in {"quota", "incr"} /\ pc'[s] \in {"limit", "upstream"}
        <5>1. CASE AdmitQuota(s)
          BY <1>1, <5>1 DEF AdmitQuota, Continue, GoTo, TypeOK
        <5>2. CASE DoRequestLimit(s)
          BY <1>1, <5>2 DEF DoRequestLimit, Continue, GoTo, TypeOK
        <5> QED
          BY <3>4, <5>1, <5>2
      <4>2. \A k \in 1..MaxReports : <<s, k>> \in U => <<s, k>> \in T
        BY <2>3, <2>4, <4>1 DEF Responding
      <4> QED
        BY <2>slots, <3>1, <4>2
    <3>5. CASE StartRequestLimit(s)
      <4>1. pc[s] = "limit" /\ pc'[s] = "incr"
        BY <1>1, <3>5 DEF StartRequestLimit, StartLimiterCall, TypeOK
      <4>2. \A k \in 1..MaxReports : <<s, k>> \in U => <<s, k>> \in T
        BY <2>3, <2>4, <4>1 DEF Responding
      <4> QED
        BY <2>slots, <3>1, <4>2
    <3>6. CASE HandleUsage(s)
      <4>1. /\ pc[s] = "response" /\ pc'[s] = "tincr" /\ at'[s] = now
            /\ reported'[s] = reported[s] + 1 /\ reported[s] \in Nat
        BY <1>1, <3>6, ConstantsAssumption DEF HandleUsage, StartLimiterCall, TypeOK
      <4>2. \A k \in 1..MaxReports :
              <<s, k>> \in U => Window(r, now) <= w /\ k > reported[s]
        <5> SUFFICES ASSUME NEW k \in 1..MaxReports, <<s, k>> \in U
                     PROVE  Window(r, now) <= w /\ k > reported[s]
          OBVIOUS
        <5>0. reported'[s] = reported[s] + 1 /\ reported[s] \in Nat
          BY <4>1
        <5>1. CASE k = reported'[s] /\ Window(r, now) = w
          BY <1>3, <5>0, <5>1
        <5>2. CASE Window(r, now) <= w /\ k > reported'[s]
          BY <5>0, <5>2
        <5> QED
          BY <2>3, <4>1, <5>1, <5>2 DEF Responding
      <4>3. \A k \in 1..MaxReports : <<s, k>> \in U => <<s, k>> \in T
        BY <2>4, <4>1, <4>2 DEF Responding
      <4> QED
        BY <2>slots, <3>1, <4>3
    <3>7. CASE DoTokenQuotaLimit(s)
      <4>1. pc[s] = "qcharge" /\ pc'[s] = "response" /\ reported' = reported
        BY <1>1, <3>7 DEF DoTokenQuotaLimit, PassOn, GoTo, TypeOK
      <4>2. \A k \in 1..MaxReports : <<s, k>> \in U => <<s, k>> \in T
        BY <2>3, <2>4, <4>1 DEF Responding
      <4> QED
        BY <2>slots, <3>1, <4>2
    <3>8. CASE HandleResponseHeaders(s)
      <4>1. pc[s] = "upstream" /\ pc'[s] \in {"response", "error", "idle"}
        BY <1>1, <3>8 DEF HandleResponseHeaders, Continue, GoTo, TypeOK
      <4>2. \A k \in 1..MaxReports : <<s, k>> \in U => <<s, k>> \in T
        BY <2>3, <2>4, <4>1 DEF Responding
      <4> QED
        BY <2>slots, <3>1, <4>2
    <3>9. CASE pc'[s] \in {"idle", "headers", "body"}
      <4>1. \A k \in 1..MaxReports : <<s, k>> \notin U
        BY <2>3, <3>9 DEF Responding
      <4> QED
        BY <2>slots, <3>1, <4>1
    <3> QED
      BY ZenonT(60), <1>1, <1>8, <2>6, <3>2, <3>3, <3>4, <3>5, <3>6, <3>7, <3>8, <3>9, PathStep
      DEF DoTokenLimit
  <2> QED
    BY ZenonT(60), <2>5, <2>6
<1> QED
  BY <1>6, <1>7, <1>8 DEF Next

\* The quota counters change only when doTokenQuotaLimit charges a report.
LEMMA QuotaStep ==
  ASSUME TypeOK, NEW s \in Streams, Handle(s) \/ Receive(s)
  PROVE  \/ UNCHANGED <<quotaUsed, delivered>> /\ pc[s] # "qcharge"
         \/ DoTokenQuotaLimit(s)
         \/ DoTokenQuotaLimitFails(s)
<1> USE DEF quotaVars, SharedUnchanged
<1>1. CASE Handle(s)
  BY ZenonT(60), <1>1
  DEF Handle, AdmitRate, RefuseRate, AdmitQuota, RefuseQuota, CheckFails,
      StartRequestLimit, DoRequestLimit, DropRequest, DoTokenLimit,
      DoTokenLimitFails
<1>2. CASE Receive(s)
  BY <1>2
  DEF Receive, Process, HandleRequestHeaders, RejectRequestBody,
      StartCheckLimit, HandleResponseHeaders, ResponseErrorProcessing,
      EndResponse, HandleUsage, Disconnect, Receiving
<1> QED
  BY <1>1, <1>2

\* A charge of the quota applies each type's INCRBY at most MaxApply times, and
\* at least once if it is reported as done.
LEMMA QuotaCharge ==
  ASSUME TypeOK, NEW s \in Streams, NEW q \in QuotaTypes
  PROVE  /\ DoTokenQuotaLimit(s) =>
              /\ quotaUsed'[q] >= quotaUsed[q] + report[s][q]
              /\ quotaUsed'[q] <= quotaUsed[q] + Charge
         /\ DoTokenQuotaLimitFails(s) =>
              /\ quotaUsed'[q] >= quotaUsed[q]
              /\ quotaUsed'[q] <= quotaUsed[q] + Charge
<1>1. /\ q \in CountTypes /\ quotaUsed[q] \in Nat
      /\ report[s][q] \in Nat /\ report[s][q] <= MaxUsage
  BY SMTT(60), ConstantsAssumption DEF TypeOK
<1>2. ASSUME NEW least \in {0, 1}, NEW applied \in Applied(QuotaTypes, least)
      PROVE  LET d == applied[q] * report[s][q] IN
             d \in Nat /\ d <= Charge /\ Charge \in Nat /\ d >= least * report[s][q]
  <2>1. applied[q] \in Nat /\ least <= applied[q] /\ applied[q] <= MaxApply
    BY AppliedType
  <2>2. applied[q] * report[s][q] >= least * report[s][q]
    BY <1>1, <2>1
  <2> QED
    BY <1>1, <2>1, <2>2, ChargeBound
<1>3. CASE DoTokenQuotaLimit(s)
  <2>1. PICK applied \in Applied(QuotaTypes, 1) : quotaUsed' = Charged(report[s], applied)
    BY <1>3 DEF DoTokenQuotaLimit
  <2>2. quotaUsed'[q] = quotaUsed[q] + applied[q] * report[s][q]
    BY <2>1 DEF Charged
  <2> DEFINE d == applied[q] * report[s][q]
             u == report[s][q]
  <2>3. d \in Nat /\ u \in Nat /\ d <= Charge /\ Charge \in Nat /\ d >= 1 * u
    BY <1>1, <1>2
  <2>4. quotaUsed'[q] = quotaUsed[q] + d /\ quotaUsed[q] \in Nat
    BY <1>1, <2>2
  <2> HIDE DEF d, u
  <2>5. /\ quotaUsed'[q] >= quotaUsed[q] + u
        /\ quotaUsed'[q] <= quotaUsed[q] + Charge
        /\ quotaUsed'[q] >= quotaUsed[q]
    BY <2>3, <2>4
  <2> QED
    BY ZenonT(60), <2>5 DEF u
<1>4. CASE ~DoTokenQuotaLimit(s) /\ DoTokenQuotaLimitFails(s)
  <2>1. Charge \in Nat
    BY ChargeType
  <2>2. CASE quotaUsed' = quotaUsed
    <3>1. quotaUsed'[q] = quotaUsed[q] /\ quotaUsed[q] \in Nat
      BY <1>1, <2>2
    <3>2. quotaUsed'[q] >= quotaUsed[q] /\ quotaUsed'[q] <= quotaUsed[q] + Charge
      BY <2>1, <3>1
    <3> QED
      BY <1>4, <3>2
  <2>3. CASE \E applied \in Applied(QuotaTypes, 0) : quotaUsed' = Charged(report[s], applied)
    <3>1. PICK applied \in Applied(QuotaTypes, 0) : quotaUsed' = Charged(report[s], applied)
      BY <2>3
    <3>2. quotaUsed'[q] = quotaUsed[q] + applied[q] * report[s][q]
      BY <3>1 DEF Charged
    <3> DEFINE d == applied[q] * report[s][q]
    <3>3. d \in Nat /\ d <= Charge
      BY <1>2
    <3>4. quotaUsed'[q] = quotaUsed[q] + d /\ quotaUsed[q] \in Nat
      BY <1>1, <3>2
    <3> HIDE DEF d
    <3>5. quotaUsed'[q] >= quotaUsed[q] /\ quotaUsed'[q] <= quotaUsed[q] + Charge
      BY <2>1, <3>3, <3>4
    <3> QED
      BY <1>4, <3>5
  <2> QED
    BY ZenonT(60), <1>4, <2>2, <2>3 DEF DoTokenQuotaLimitFails
<1> QED
  BY ZenonT(60), <1>3, <1>4

\* Each step keeps the budget of the quota.
LEMMA QuotaBudgetStep ==
  TypeOK /\ ReportIsCounted /\ QuotaBudget /\ [Next]_vars => QuotaBudget'
<1> SUFFICES ASSUME TypeOK, ReportIsCounted, QuotaBudget, [Next]_vars, NEW q \in QuotaTypes
             PROVE  quotaUsed'[q] + Cardinality(QuotaThreat') * Charge
                      <= QuotaLimit[q] + Cardinality(Slots) * Charge
  BY DEF QuotaBudget, Charge, Slots
<1> DEFINE T == QuotaThreat
           U == QuotaThreat'
<1>1. /\ TypeOK' /\ quotaUsed[q] \in Nat /\ quotaUsed'[q] \in Nat
      /\ QuotaLimit[q] \in Nat /\ Charge \in Nat
  <2>1. TypeOK'
    BY TypeOKStep
  <2>2. quotaUsed[q] \in Nat /\ quotaUsed'[q] \in Nat
    BY <2>1 DEF TypeOK
  <2>3. QuotaLimit[q] \in Nat /\ Charge \in Nat
    BY ConstantsAssumption, ChargeType
  <2> QED
    BY <2>1, <2>2, <2>3
<1>2. SUFFICES \/ quotaUsed'[q] = quotaUsed[q] /\ U \subseteq T
               \/ quotaUsed'[q] <= QuotaLimit[q]
               \/ \E p \in T : /\ quotaUsed'[q] <= quotaUsed[q] + Charge
                              /\ U \subseteq T \ {p}
  <2>1. IsFiniteSet(Slots) /\ T \in SUBSET Slots /\ U \in SUBSET Slots
    BY SlotsFinite DEF QuotaThreat, Slots
  <2> DEFINE x == quotaUsed[q]
             y == quotaUsed'[q]
  <2>2. x \in Nat /\ y \in Nat /\ QuotaLimit[q] \in Int /\ Charge \in Nat
    BY <1>1
  <2>3. \/ y = x /\ U \subseteq T
        \/ y <= QuotaLimit[q]
        \/ \E p \in T : y <= x + Charge /\ U \subseteq T \ {p}
    BY <1>2
  <2>4. x + Cardinality(T) * Charge <= QuotaLimit[q] + Cardinality(Slots) * Charge
    BY DEF QuotaBudget
  <2> HIDE DEF T, U, x, y
  <2>5. y + Cardinality(U) * Charge <= QuotaLimit[q] + Cardinality(Slots) * Charge
    BY <2>1, <2>2, <2>3, <2>4, BudgetStep
  <2> QED
    BY <2>5 DEF y, U
<1>3. CASE UNCHANGED vars \/ ToggleQuota \/ Tick
  <2>1. UNCHANGED <<pc, reported, quotaUsed>>
    BY <1>3 DEF vars, ToggleQuota, Tick, quotaVars, streamVars
  <2> QED
    BY ZenonT(60), <2>1 DEF QuotaThreat, ToCome
<1>4. ASSUME NEW s \in Streams, Handle(s) \/ Receive(s)
      PROVE  \/ quotaUsed'[q] = quotaUsed[q] /\ U \subseteq T
             \/ quotaUsed'[q] <= QuotaLimit[q]
             \/ \E p \in T : /\ quotaUsed'[q] <= quotaUsed[q] + Charge
                            /\ U \subseteq T \ {p}
  <2>1. \A x \in Streams \ {s} : pc'[x] = pc[x] /\ reported'[x] = reported[x]
    BY <1>4, StreamFrame
  <2>2. /\ T \in SUBSET Slots /\ U \in SUBSET Slots
        /\ \A x \in Streams \ {s}, k \in 1..MaxReports : <<x, k>> \in U => <<x, k>> \in T
    BY <2>1 DEF QuotaThreat, ToCome, Slots
  <2>3. \A k \in 1..MaxReports :
          <<s, k>> \in U <=>
            \/ pc'[s] \in {"tincr", "qcharge"} /\ k = reported'[s]
            \/ /\ pc'[s] \in Responding => k > reported'[s]
               /\ pc'[s] \in {"limit", "incr", "upstream"} \cup Responding
    BY DEF QuotaThreat, ToCome, Slots
  <2>4. \A k \in 1..MaxReports :
          <<s, k>> \in T <=>
            \/ pc[s] \in {"tincr", "qcharge"} /\ k = reported[s]
            \/ /\ pc[s] \in Responding => k > reported[s]
               /\ pc[s] \in {"limit", "incr", "upstream"} \cup Responding
    BY DEF QuotaThreat, ToCome, Slots
  <2> HIDE DEF T, U
  <2>slots. /\ (\A k \in 1..MaxReports : <<s, k>> \in U => <<s, k>> \in T) => U \subseteq T
            /\ \A j \in 1..MaxReports :
                 (\A k \in 1..MaxReports : <<s, k>> \in U => <<s, k>> \in T /\ k # j)
                   => U \subseteq T \ {<<s, j>>}
    BY <1>4, <2>2, SlotsStep
  <2>5. CASE DoTokenQuotaLimit(s) \/ DoTokenQuotaLimitFails(s)
    <3>1. /\ pc[s] = "qcharge"
          /\ \/ pc'[s] = "idle"
             \/ pc'[s] = "response" /\ reported' = reported
      BY <2>5
      DEF DoTokenQuotaLimit, DoTokenQuotaLimitFails, Answer, Continue, PassOn,
          GoTo, TypeOK
    <3>2. \A k \in 1..MaxReports :
            <<s, k>> \in U => <<s, k>> \in T /\ k # reported[s]
      <4> SUFFICES ASSUME NEW k \in 1..MaxReports, <<s, k>> \in U
                   PROVE  <<s, k>> \in T /\ k # reported[s]
        OBVIOUS
      <4>1. pc'[s] = "response" /\ reported'[s] = reported[s]
        BY <2>3, <3>1 DEF Responding
      <4>2. k > reported[s]
        BY <2>3, <4>1 DEF Responding
      <4>3. <<s, k>> \in T
        BY <2>4, <3>1, <4>2 DEF Responding
      <4>4. reported[s] \in Nat
        BY ConstantsAssumption DEF TypeOK
      <4> QED
        BY <4>2, <4>3, <4>4
    <3>3. reported[s] \in 1..MaxReports
      BY <3>1 DEF ReportIsCounted, TypeOK
    <3>4. <<s, reported[s]>> \in T
      BY <2>4, <3>1, <3>3
    <3>5. quotaUsed'[q] <= quotaUsed[q] + Charge
      BY SMTT(60), <2>5, QuotaCharge
    <3> QED
      BY <2>slots, <3>2, <3>3, <3>4, <3>5
  <2>6. CASE UNCHANGED quotaUsed /\ pc[s] # "qcharge"
    <3>1. CASE AdmitQuota(s)
      BY <1>1, <2>6, <3>1, ConstantsAssumption DEF AdmitQuota, OverQuota
    <3>2. ASSUME ~AdmitQuota(s)
          PROVE  \A k \in 1..MaxReports : <<s, k>> \in U => <<s, k>> \in T
      <4>1. CASE AdmitRate(s)
        <5>1. pc'[s] = "quota"
          BY <4>1, ConstantsAssumption DEF AdmitRate, Continue, GoTo, TypeOK
        <5> QED
          BY <2>3, <5>1 DEF Responding
      <4>2. CASE StartCheckLimit(s)
        <5>1. pc'[s] = "check"
          BY <4>2 DEF StartCheckLimit, StartLimiterCall, TypeOK
        <5> QED
          BY <2>3, <5>1 DEF Responding
      <4>3. CASE StartRequestLimit(s) \/ DoRequestLimit(s) \/ HandleResponseHeaders(s)
        <5>1. pc[s] \in {"limit", "incr", "upstream"}
          BY <4>3 DEF StartRequestLimit, DoRequestLimit, HandleResponseHeaders
        <5> QED
          BY <2>4, <5>1 DEF Responding
      <4>4. CASE HandleUsage(s)
        <5>1. /\ pc[s] = "response" /\ pc'[s] = "tincr"
              /\ reported'[s] = reported[s] + 1 /\ reported[s] \in Nat
          BY <4>4, ConstantsAssumption DEF HandleUsage, StartLimiterCall, TypeOK
        <5> SUFFICES ASSUME NEW k \in 1..MaxReports, <<s, k>> \in U
                     PROVE  <<s, k>> \in T
          OBVIOUS
        <5>2. k = reported'[s] \/ k > reported'[s]
          BY <2>3, <5>1 DEF Responding
        <5>3. k > reported[s]
          BY <5>1, <5>2
        <5> QED
          BY <2>4, <5>1, <5>3 DEF Responding
      <4>5. CASE DoTokenLimit(s)
        <5>1. pc[s] = "tincr" /\ reported' = reported
          BY <4>5 DEF DoTokenLimit, PassOn
        <5>2. pc'[s] \in {"response", "qcharge"}
          BY <4>5 DEF DoTokenLimit, PassOn, GoTo, TypeOK
        <5> QED
          BY <2>3, <2>4, <5>1, <5>2 DEF Responding
      <4>6. CASE pc'[s] \in {"idle", "headers", "body"}
        BY <2>3, <4>6 DEF Responding
      <4> QED
        BY ZenonT(60), <1>4, <2>6, <3>2, <4>1, <4>2, <4>3, <4>4, <4>5, <4>6, PathStep
        DEF DoTokenQuotaLimit
    <3> QED
      BY <2>slots, <2>6, <3>1, <3>2
  <2> QED
    BY <1>4, <2>5, <2>6, QuotaStep
<1> QED
  BY <1>3, <1>4 DEF Next

\* A request rule with limit 0 never admits: the check adds 1 to a counter that
\* is at least 0.
LEMMA ZeroStep == TypeOK /\ ZeroAdmitsNone /\ [Next]_vars => ZeroAdmitsNone'
<1> SUFFICES ASSUME TypeOK, ZeroAdmitsNone, [Next]_vars,
                    NEW r \in RequestRules, Limit[r] = 0
             PROVE  /\ \A s \in Streams : pc'[s] \notin {"quota", "limit", "incr"}
                    /\ \A w \in Times : forwarded'[r][w] = 0
  BY DEF ZeroAdmitsNone
<1>1. /\ \A s \in Streams : pc[s] \notin {"quota", "limit", "incr"}
      /\ \A w \in Times : forwarded[r][w] = 0
  BY DEF ZeroAdmitsNone
<1>2. CASE UNCHANGED vars \/ ToggleQuota \/ Tick
  BY <1>1, <1>2 DEF vars, ToggleQuota, Tick, streamVars, limiterVars
<1>3. ASSUME NEW s \in Streams, Handle(s) \/ Receive(s)
      PROVE  /\ \A x \in Streams : pc'[x] \notin {"quota", "limit", "incr"}
             /\ \A w \in Times : forwarded'[r][w] = 0
  <2>1. ~AdmitRate(s)
    <3> SUFFICES ASSUME AdmitRate(s)
                 PROVE  FALSE
      OBVIOUS
    <3>1. PICK v \in Seen(r, at[s]) : ~OverLimit(r, v)
      BY DEF AdmitRate, Rules
    <3>2. r \in Rules /\ at[s] \in Times
      BY DEF Rules, TypeOK
    <3>3. count[r][Window(r, at[s])] \in Nat
      BY <3>2, WindowType DEF TypeOK
    <3>4. v \in Nat
      <4> DEFINE c == count[r][Window(r, at[s])]
      <4>1. v \in {c} \cup 0..c /\ c \in Nat
        BY <3>1, <3>3 DEF Seen
      <4> HIDE DEF c
      <4> QED
        BY <4>1
    <3> QED
      BY <3>1, <3>4 DEF OverLimit, Cost
  <2>2. ~AdmitQuota(s) /\ ~StartRequestLimit(s) /\ ~DoRequestLimit(s)
    BY ZenonT(60), <1>1 DEF AdmitQuota, StartRequestLimit, DoRequestLimit
  <2>3. pc'[s] \notin {"quota", "limit", "incr"}
    <3>1. CASE \/ StartCheckLimit(s) \/ HandleResponseHeaders(s)
               \/ HandleUsage(s) \/ DoTokenLimit(s) \/ DoTokenQuotaLimit(s)
      BY <3>1
      DEF StartCheckLimit, HandleResponseHeaders, HandleUsage, DoTokenLimit,
          DoTokenQuotaLimit, Continue, GoTo, PassOn, StartLimiterCall, TypeOK
    <3>2. CASE pc'[s] \in {"idle", "headers", "body"}
      BY <3>2
    <3> QED
      BY <1>3, <2>1, <2>2, <3>1, <3>2, PathStep
  <2>4. \A x \in Streams \ {s} : pc'[x] = pc[x]
    BY <1>3, StreamFrame
  <2>5. forwarded' = forwarded
    BY <1>3, <2>2, ForwardedStep
  <2> QED
    BY <1>1, <2>3, <2>4, <2>5
<1> QED
  BY <1>2, <1>3 DEF Next

\* The step that passes a report on is the step that charges it.
LEMMA DeliveredStep ==
  TypeOK /\ DeliveredIsCharged /\ [Next]_vars => DeliveredIsCharged'
<1> SUFFICES ASSUME TypeOK, DeliveredIsCharged, [Next]_vars, NEW q \in QuotaTypes
             PROVE  delivered'[q] <= quotaUsed'[q]
  BY DEF DeliveredIsCharged
<1>1. /\ delivered[q] \in Nat /\ quotaUsed[q] \in Nat /\ quotaUsed'[q] \in Nat
      /\ delivered[q] <= quotaUsed[q]
  <2>1. TypeOK'
    BY TypeOKStep
  <2> QED
    BY <2>1 DEF TypeOK, DeliveredIsCharged
<1>2. CASE UNCHANGED vars \/ ToggleQuota \/ Tick
  BY ZenonT(60), <1>1, <1>2 DEF vars, ToggleQuota, Tick, quotaVars
<1>3. ASSUME NEW s \in Streams, Handle(s) \/ Receive(s)
      PROVE  delivered'[q] <= quotaUsed'[q]
  <2>1. report[s][q] \in Nat
    BY ConstantsAssumption DEF TypeOK
  <2>2. CASE UNCHANGED <<quotaUsed, delivered>>
    BY <1>1, <2>2
  <2>3. CASE DoTokenQuotaLimit(s)
    <3>1. delivered'[q] = delivered[q] + report[s][q]
      BY <2>3 DEF DoTokenQuotaLimit
    <3>2. quotaUsed'[q] >= quotaUsed[q] + report[s][q]
      BY <2>3, QuotaCharge
    <3> QED
      BY <1>1, <2>1, <3>1, <3>2
  <2>4. CASE DoTokenQuotaLimitFails(s)
    <3>1. delivered' = delivered
      BY <2>4 DEF DoTokenQuotaLimitFails
    <3>2. quotaUsed'[q] >= quotaUsed[q]
      BY <2>4, QuotaCharge
    <3> QED
      BY SMTT(60), <1>1, <3>1, <3>2
  <2> QED
    BY <1>3, <2>2, <2>3, <2>4, QuotaStep
<1> QED
  BY <1>2, <1>3 DEF Next

-----------------------------------------------------------------------------
(* The theorems.                                                           *)

\* Nothing is counted or under way in the first state, so all streams together
\* have the whole budget.
LEMMA InitIInv == Init => IInv
<1> SUFFICES ASSUME Init
             PROVE  IInv
  OBVIOUS
<1>1. TypeOK
  <2>1. 0 \in Times /\ 0 \in 0..MaxReports /\ HasQuota \in BOOLEAN
    BY ConstantsAssumption DEF Times
  <2> QED
    BY <2>1, NoReportType DEF Init, TypeOK
<1>2. CallsAreNotAhead
  <2> SUFFICES ASSUME NEW s \in Streams, NEW r \in Rules
               PROVE  Window(r, at[s]) <= Window(r, now)
    BY DEF CallsAreNotAhead
  <2>1. at[s] = now /\ now \in Times
    BY <1>1 DEF Init, TypeOK
  <2>2. Window(r, now) \in Times
    BY <2>1, WindowType
  <2> QED
    BY <2>1, <2>2, ConstantsAssumption DEF Times
<1>3. /\ FutureIsEmpty /\ ForwardedIsCounted /\ ZeroAdmitsNone /\ DeliveredIsCharged
      /\ ReportIsCounted
  BY DEF Init, FutureIsEmpty, ForwardedIsCounted, ZeroAdmitsNone,
         DeliveredIsCharged, ReportIsCounted, Rules
<1>4. N \in Nat /\ Charge \in Nat /\ Cardinality(Slots) * Charge \in Nat
  <2>1. N \in Nat /\ Cardinality(Slots) \in Nat
    BY ConstantsAssumption, SlotsFinite, FS_CardinalityType DEF N
  <2>2. Charge \in Nat
    BY ConstantsAssumption DEF Charge
  <2> QED
    BY <2>1, <2>2
<1>5. /\ \A r \in RequestRules, w \in Times : Cardinality(RequestThreat(r, w)) = 0
      /\ \A r \in TokenRules, w \in Times : Cardinality(TokenThreat(r, w)) = 0
      /\ Cardinality(QuotaThreat) = 0
  BY FS_EmptySet DEF Init, RequestThreat, TokenThreat, QuotaThreat, Slots, Responding
<1>6. RequestBudget
  <2> SUFFICES ASSUME NEW r \in RequestRules, NEW w \in Times, Limit[r] # 0
               PROVE  0 <= Limit[r] - 1 + N
    BY <1>5 DEF Init, RequestBudget
  <2> QED
    BY <1>4, ConstantsAssumption DEF Rules
<1>7. TokenBudget
  <2> SUFFICES ASSUME NEW r \in TokenRules, NEW w \in Times
               PROVE  0 + 0 * Charge <= Limit[r] + Cardinality(Slots) * Charge
    BY <1>5 DEF Init, TokenBudget, Rules
  <2> QED
    BY <1>4, ConstantsAssumption DEF Rules
<1>8. QuotaBudget
  <2> SUFFICES ASSUME NEW q \in QuotaTypes
               PROVE  0 + 0 * Charge <= QuotaLimit[q] + Cardinality(Slots) * Charge
    BY <1>5 DEF Init, QuotaBudget
  <2> QED
    BY <1>4, ConstantsAssumption
<1> QED
  BY <1>1, <1>2, <1>3, <1>6, <1>7, <1>8 DEF IInv, CounterInv

\* The invariant holds in every state of the gateway.
THEOREM Invariance == Spec => []IInv
<1>1. IInv /\ [Next]_vars => IInv'
  BY CounterStep, RequestBudgetStep, ZeroStep, TokenBudgetStep,
     QuotaBudgetStep, DeliveredStep
  DEF IInv, CounterInv
<1> QED
  BY <1>1, InitIInv, PTL DEF Spec

\* However concurrent requests interleave, and whatever fails or is retried,
\* doRequestRateLimit never forwards more than the limit plus N - 1 requests of
\* one window, and every one of them is counted.
THEOREM RequestsBounded == Spec => [](RequestOvershootBounded /\ ForwardedIsCounted)
<1>1. IInv => RequestOvershootBounded /\ ForwardedIsCounted
  <2> SUFFICES ASSUME IInv, NEW r \in RequestRules, NEW w \in Times, Limit[r] # 0
               PROVE  forwarded[r][w] <= Limit[r] - 1 + N
    BY SMTT(60) DEF IInv, CounterInv, RequestOvershootBounded, ZeroAdmitsNone
  <2>1. Cardinality(RequestThreat(r, w)) \in Nat /\ N \in Nat
    BY ConstantsAssumption, FS_Subset, FS_CardinalityType DEF RequestThreat, N
  <2>2. forwarded[r][w] \in Nat /\ Limit[r] \in Nat
    BY SMTT(60), ConstantsAssumption DEF IInv, CounterInv, TypeOK, Rules
  <2> DEFINE c == Cardinality(RequestThreat(r, w))
  <2>3. forwarded[r][w] + c <= Limit[r] - 1 + N /\ c \in Nat
    BY <2>1 DEF IInv, RequestBudget
  <2> HIDE DEF c
  <2> QED
    BY <2>1, <2>2, <2>3
<1> QED
  BY <1>1, Invariance, PTL

\* The slots at stake are at most all of them.
LEMMA SlotsBound ==
  /\ Cardinality(Slots) * Charge = Overshoot /\ Overshoot \in Nat
  /\ \A T \in SUBSET Slots : Cardinality(T) * Charge \in Nat
<1>1. Charge \in Nat /\ Cardinality(Slots) \in Nat
  BY ConstantsAssumption, SlotsFinite, FS_CardinalityType DEF Charge
<1>2. \A T \in SUBSET Slots : Cardinality(T) \in Nat
  BY SlotsFinite, FS_Subset, FS_CardinalityType
<1>3. Overshoot = Cardinality(Slots) * Charge
  BY SlotsFinite DEF Overshoot, Charge
<1> QED
  BY <1>1, <1>2, <1>3

\* However long after its check a response is charged, and however often, the
\* counter of a token rule never exceeds the limit by more than the MaxReports
\* usage reports of one response of every stream, each charged MaxApply times.
THEOREM TokensBounded == Spec => []TokenOvershootBounded
<1>1. IInv => TokenOvershootBounded
  <2> SUFFICES ASSUME IInv, NEW r \in TokenRules, NEW w \in Times
               PROVE  count[r][w] <= Limit[r] + Overshoot
    BY DEF TokenOvershootBounded
  <2> DEFINE c == Cardinality(TokenThreat(r, w)) * Charge
  <2>1. c \in Nat
    BY SlotsBound DEF TokenThreat
  <2>2. count[r][w] \in Nat /\ Limit[r] \in Nat
    BY SMTT(60), ConstantsAssumption DEF IInv, CounterInv, TypeOK, Rules
  <2>3. count[r][w] + c <= Limit[r] + Overshoot
    BY SlotsBound DEF IInv, TokenBudget
  <2> HIDE DEF c
  <2> QED
    BY <2>1, <2>2, <2>3, SlotsBound
<1> QED
  BY <1>1, Invariance, PTL

\* The usage doTokenQuotaLimit records never exceeds the quota by more than the
\* MaxReports usage reports of one response of every stream, each charged MaxApply
\* times, and covers every report passed on.
THEOREM QuotaBounded == Spec => [](QuotaOvershootBounded /\ DeliveredIsCharged)
<1>1. IInv => QuotaOvershootBounded /\ DeliveredIsCharged
  <2> SUFFICES ASSUME IInv, NEW q \in QuotaTypes
               PROVE  quotaUsed[q] <= QuotaLimit[q] + Overshoot
    BY SMTT(60) DEF IInv, QuotaOvershootBounded
  <2> DEFINE c == Cardinality(QuotaThreat) * Charge
  <2>1. c \in Nat
    BY SlotsBound DEF QuotaThreat
  <2>2. quotaUsed[q] \in Nat /\ QuotaLimit[q] \in Nat
    BY ConstantsAssumption DEF IInv, CounterInv, TypeOK
  <2>3. quotaUsed[q] + c <= QuotaLimit[q] + Overshoot
    BY SlotsBound DEF IInv, QuotaBudget
  <2> HIDE DEF c
  <2> QED
    BY <2>1, <2>2, <2>3, SlotsBound
<1> QED
  BY <1>1, Invariance, PTL

\* Every request that HandleRequestBody lets through has been counted against each
\* of its request rules, whatever pipeline failed or was sent twice.
THEOREM ForwardedCounted == Spec => []ForwardedIsCounted
  BY RequestsBounded, PTL

\* Every usage report that HandleResponseBody passes on has been charged.
THEOREM DeliveredCharged == Spec => []DeliveredIsCharged
  BY QuotaBounded, PTL
=============================================================================

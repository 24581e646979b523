# Arks: a TLA+ model of the gateway and the operator

Arks serves language models on Kubernetes. Two programs make it up, and this
project models the parts of both in which concurrency, failures and retries
decide whether they are right:

* the **gateway** (`src/cmd/gateway`, `src/pkg/gateway`), an Envoy ext_proc
  server that authenticates requests, limits their rate, enforces token quotas
  with counters in Redis, and charges responses;
* the **operator** (`src/cmd/main.go`, `src/internal/controller`), Kubernetes
  controllers that download models, run applications and route to them.

They meet in the custom resources: the gateway reads `ArksToken`, `ArksQuota` and
`ArksEndpoint` from informer caches and writes the status of `ArksQuota`; the
operator writes the `HTTPRoute` by which Envoy routes what the gateway lets
through.

## Inventory

| Part | Source | State and what changes it | Modules |
|---|---|---|---|
| Request path | `gateway.go`, `handle_request.go`, `handle_response.go`, `check.go` | one goroutine per request (`Process`), counters shared in Redis; check, count, forward, charge | `Gateway` |
| Response body | `handle_response.go`, `metrics/collector.go` | process-wide maps `requestBuffers`, `processingTimes`; chunks, parse errors, charges, metrics | `ResponseStream` |
| Rate limiter | `ratelimiter/` | one Redis key per rule and window, with expiry; TTL, INCRBY, EXPIRE, re-sent pipelines | `RateLimiter`, `WindowCounter`, `Windows` |
| Quota service | `quota/` | one Redis counter per quota and type; GET, INCRBY, SET | `Gateway`, `QuotaSync` |
| Quota sync | `qosconfig/arks_impl.go` | status of the ArksQuota against the counters, by every gateway on a ticker | `QuotaSync` |
| Configuration provider | `qosconfig/` | lookups of token, model list and quota in informer caches | outcomes in `Gateway` |
| ArksModel controller | `arksmodel_controller.go` | finalizer, PVC, worker pod, phase and conditions | `ModelController`, `Lifecycle` |
| ArksApplication controller | `arksapplication_controller.go` | finalizer, LeaderWorkerSet (LWS), service, phase and replica counts | `ApplicationController`, `Lifecycle` |
| ArksEndpoint controller | `arksendpoint_controller.go` | finalizer, HTTPRoute, status; event filter over applications | `EndpointController`, `Lifecycle` |
| ArksDisaggregatedApplication controller | `arksdisaggregatedapplication_controller.go` | finalizer, two LWS, router Deployment with its RBAC objects, service, phase and replica counts | `DisaggregatedController`, `Lifecycle` |
| ArksToken, ArksQuota controllers | `arkstoken_controller.go`, `arksquota_controller.go` | none: `Reconcile` does nothing and is not registered | not modelled |
| Gateway shutdown | `cmd/gateway/main.go`, `gateway.go` | a signal, three servers stopped side by side, open streams and HTTP requests, the error channel | `ResponseStream` |
| Gateway start | `cmd/gateway/main.go` | flags, construction of clients and servers | not modelled |
| Model list over HTTP | `http_handler.go` | none | not modelled |
| Operator process, API types | `cmd/main.go`, `api/v1` | construction, flags, generated code | not modelled |

## The models

### Gateway: the request path

One process per ext_proc stream, all of one (namespace, user, model): requests
of other identities use other Redis keys. `pc[s]` says which message `Process`
waits for (`headers`, `body`, `upstream`, `response`, `error`) or which call of a
handler is next:

| `pc` | code |
|---|---|
| `check`, `quota` | `checkRateLimit`, `checkTokenQuotaLimit` |
| `limit`, `incr` | `doRequestRateLimit`: the clock is read, the pipeline runs |
| `tincr` | `doTokenRateLimit` of a usage report |
| `qcharge` | `doTokenQuotaLimit` of a usage report |

One step is one Redis pipeline, or the local work up to the next. A limiter call
reads the clock in the step before its pipeline, so a window may end in between.
A command takes effect up to `MaxApply` times, as go-redis re-sends a failed
pipeline, and a pipeline reported as failed may have applied any part of itself.
The history variables `forwarded` and `delivered` record what reached the
backend and the client.

A response may report usage more than once: OpenAI-compatible servers can put a
running usage into every chunk of a stream, and `HandleResponseBody` charges every
body message whose total is not 0. After a charge the message is passed on
(`PassOn`), and `Process` waits for the next one. `reported[s]` counts the reports of the
response that stream `s` is in; `MaxReports` bounds them. `HasQuota` says whether the token names a quota at all,
which is not the same as a quota that limits something: with a name and no types
the ArksQuota is still looked up, and its absence is an error.

Abstracted: a read of a counter whose window is over returns any value from 0 to
the last one (the key may have expired); the counter of the current window is
read exactly, which is what `RateLimiter` shows. The chunks between the reports
are those of `ResponseStream`. The token is not edited while its requests run. Gateway
and Redis clocks agree.

Assumed of Envoy: the messages of a stream come in the order of the protocol, and
every request has a body. A request without one is outside the streams of the model: it has no
model name, so no (namespace, user, model) to limit or charge; after the check of its
headers the code lets it through uncounted, and meets a nil `qos` when the
response comes (`gateway.go:118`, `:129`). The properties speak about requests whose body the gateway
sees.

### RateLimiter, WindowCounter, Windows: DoLimit command by command

`RateLimiter` has one step per Redis command of `DoLimit`: the TTL of every key,
then INCRBY and EXPIRE of the pipeline, with keys that Redis drops when their
expiry comes, errors at every command, and pipelines sent again. Rules of one
type are worked on in any order, since their keys differ. `WindowCounter` is what
the limiter promises: one counter per rule for the current window, that starts
at 0, only grows, and starts again when the window ends.
`ImplementsWindowCounter` maps the first to the second: the counter of a rule is
the value of the key of its current window. `Windows` defines the window of an
instant (`getWindowStart`), and is shared.

### QuotaSync: status against counters

Every gateway runs `syncQuotaUsage`: list from its informer cache, `GetUsage`, merge,
perhaps `SetUsage`, `Status().Update`. Each is a step of its own, interleaved with the
charges of the request path, with the syncs of other gateways, edits of the quota,
failures, restarts and a Redis that loses its data (the deployment runs it
without a volume). `versions` is the sequence of resource versions; a cache is an
index into it that only moves forward, and an update is accepted only from the
latest one. One ArksQuota whose types are not edited; the pipelines of `GetUsage` and
`SetUsage` take effect in one step, or `SetUsage` in part if it fails.

### ResponseStream: chunk by chunk

`HandleResponseBody` for streamed and for buffered bodies, with the early returns
in the order of the code: a chunk that does not parse, a charge that fails, a
buffered body that is not complete, a client that goes away. A chunk is
abstracted to the usage it reports and whether it parses.

Around the responses runs the shutdown. `main` gets a signal and calls
`GracefullyShutdown`, which starts one goroutine for each of the three servers (`servers`). The
HTTP and the metrics server stop when they have no request under way (`busy`: `Shutdown` waits for
active connections, and neither server has a timeout); they may fail to stop, and then put
an error into `errChan` (`errors`), which nobody reads before all three are done. The gRPC server is down once every
`Process` has returned (`open`). New streams and requests are refused from the moment their server is
stopping. The context that could end any of these waits is cancelled only when `main` returns, so those
branches of the code are never taken and have no action.

### The controllers

The four controller modules have the same form. `log` is the sequence of versions of
the object from the cached one to the latest one in the API server; a Reconcile
copies the cached one to `obj` and makes one API call per step (`pc`); `stale` says
that `obj` is not of the latest version, so that updates from it are refused.
controller-runtime runs one Reconcile of an object at a time, and queues the
object again (`queued`) when a watch event arrives, after an error, and where
Reconcile asks for it. Any call may fail, the operator may stop between any two,
and the resync of the cache may queue the object at any time (`Resync`; for the
endpoint only a restart does).

* `ModelController`: `reconcile` (finalizer, PVC, worker pod, phase) and `remove`.
  `claim` is the local `storagePvcName`; `dropped` records that `remove` has given up without
  returning an error. The user may delete the worker pod. That the API server
  refuses a pod with an empty claim name is external. A deleted pod is gone at once:
  in the cluster its deletion is graceful, so "no pod outlives the model" is to be read
  as "none that is not already being deleted".
* `ApplicationController`: `reconcile` (precheck, finalizer, model, LWS, service, status) and
  `remove`. The model, the LWS and the service change or disappear under it, and the
  runtime of the spec is edited, also to one that the generator of the LWS does
  not know. `generateLws` is abstracted to whether the LWS exists and whether its replicas
  are ready.
* `DisaggregatedController`: `reconcile` (precheck, finalizer, model, the LWS of prefill and
  decode, the router with `applyRouterRBAC`, the service, then the sync of all three workloads)
  and `remove`. `size` has the replicas of each workload, so that what creation and sync
  make of a count of 0 or of one that is left out can be told apart; `rbac` has the
  role, account and binding that exist. Errors that the code swallows (the lookup of
  the service, the update of an LWS) are actions of their own and leave a mark in `ignored`. The
  requeue that `reconcile` asks for is dropped, as `Reconcile` does.
* `EndpointController`: `reconcile` (list, route, status), `handleDelete`, and `filterApp`, which
  decides on an event of an application by looking at the endpoint in the cache.
  Endpoint, applications and route each have a cache of their own. Services are a set:
  their order, weights and the match rules are left out.

`Lifecycle` is what all four promise about a resource and the things that they make for it in the
cluster, without caches, versions and calls: things are made only while the resource has the
finalizer, it is released only when it has been deleted and none of them exists, and nothing is
made after that. `ImplementsLifecycle` in each controller maps it to the metadata of the latest version and to
what exists (`Owned`: the worker pod; LWS and service; the three workloads and the service; the
route, unless `handleDelete` has read an old one). It implies the invariants `NoOrphanPod`, `NoOrphans` and
`NoOrphanRoute`.

Abstracted in all four: one operator runs (no leader election), writes that change
only timestamps leave no trace, and of the specs only what is named above is
edited (the runtime, the replica counts of the disaggregated application; not the
`servedModelName` by which endpoints find their applications).

## Runs

| Run | Question | Result |
|---|---|---|
| `gateway_requests` | how far can concurrent requests overshoot a request rule? | at most limit + N - 1 forwarded in one window, none if the limit is 0; all are counted |
| `gateway_tokens` | how far can charges overshoot a token rule and a quota, is anything delivered uncharged, do handlers end? | at most the reports of one response of every stream over the limit; nothing; they do |
| `limiter_calls` | does DoLimit count exactly in the current window, whatever fails? | yes: it implements `WindowCounter`; without failures keys get their expiry and a call counts for all of its rules or none |
| `quota_sync` | do status and counters stay true to the charges, and meet? | yes, while Redis keeps its data |
| `quota_reset` | does the sync bring lost counters back? | **no**: `SetUsage` is called with zeros |
| `stream_chunks` | is anything passed on uncharged, does a buffer stay, does a shutdown at any point end, and end cleanly? | no; only those of clients that went away; it does unless a stream or an HTTP request stays open for good, and exits with none open |
| `model_safety` | does the controller keep `Lifecycle`, is there an early Ready, a lost end of the pod, does a deleted model go away? | it does; neither; terminal phases are final; it does unless deleting the pod has failed |
| `model_retry` | does a worker pod created later mount the storage? | **no**: the claim name is empty |
| `application_lifecycle` | does the controller keep `Lifecycle`, is there a workload before its model, does Failed have a reason and last, does the status follow, is a lost LWS restored, does a deleted application go away? | no workload comes early; yes to all else |
| `disagg_lifecycle` | does the controller keep `Lifecycle`, is there a router without its account, a Running application without its service, does Failed have a reason, is anything left undone when nothing is queued, does a deleted application go away? | yes; none of these, except what the swallowed errors leave (`ignored`); it does |
| `disagg_wait` | is an application that waits for its model looked at again? | **no**: the requeue is dropped and the model is not watched |
| `endpoint_routes` | do route and status follow the ready applications, does the controller keep `Lifecycle`, does deletion complete? | they do; it does, if the cached route is current; it does |

### Bounds, and why they are enough

* `gateway_requests`: three streams, limit 2, two windows of two instants, commands
  applied up to twice. All streams can pass the check before any counts, and
  a request can be checked in one window and counted in the next. Streams are symmetric.
* `gateway_tokens`: two streams, up to two usage reports in a response, windows of one
  instant, reports that differ in their types, a token rule with limit 0 and a quota with
  limits 0 and 1. A stream can be admitted, report in one window, and report again after
  the other stream has charged or in the next window; the bound is reached. No
  symmetry, since it checks liveness. The theorems cover every number of streams, rules,
  reports and limits.
* `limiter_calls`: two callers, two rules with periods 1 and 2 (a key outlives the
  window of the other rule), three calls, one cut-off pipeline, one retry. Three calls
  let two race over a key that a third has created.
* `quota_sync`: two gateways and two types, two tokens charged, one edit, one failure, one
  loss. Two gateways can overwrite each other; two types let one be ahead
  and one behind.
* `stream_chunks`: two requests (the maps are shared), three chunks with or without
  usage: usage can come before, in and after the middle chunk, and the signal
  before, during and after either response. Both HTTP servers may be busy or idle
  whenever the signal comes, and stay so.
* Controllers: caches up to two versions behind, so that a write can follow one
  that the cache has not seen. `model_safety`: three failures or restarts and two worker
  pods deleted by the user, so that a failure can hit the recovery from another;
  `model_retry` needs one failure. `application_lifecycle`: two failures and two outside changes.
  `disagg_lifecycle`, whose Reconcile has some twenty calls: one failure anywhere and
  one outside change, specs that ask for 1, for 0 and for an unset number of replicas
  (`MCWants`), a router under the account of the controller (`Named = FALSE`, the case in which
  RBAC objects are made), and readiness that comes and goes for one workload
  (`Varying`). `disagg_wait` needs neither failures nor changes. `endpoint_routes`: one failure, three
  changes of two applications, one of which is also a static service.
* The theorems below hold for every value of these bounds.

Deadlock is checked where the system never stops (the gateway, the sync). It is not
where bounded calls run out or where controllers rest when nothing changes.

### Fairness

* Gateway: weak fairness of the steps of a running handler only. A goroutine that
  has started a call to Redis gets its answer or an error, as the client has
  timeouts. Nothing is assumed of clients and backends.
* QuotaSync: weak fairness of each gateway's sync (a ticker) and of its watch.
* ResponseStream: weak fairness of the goroutines of the shutdown only. Nothing is
  assumed of Envoy, clients and backends: a stream or an HTTP request may stay open for
  good, and then the shutdown, which has no timeout, waits for it. `ShutdownCompletes` therefore
  has the premise that again and again no stream is open, and again and again no HTTP
  request is under way.
* Controllers: weak fairness of Reconcile (workers take what is queued, API calls
  return) and of watch events. Nothing is assumed of the resync, users, pods or other
  controllers, nor that a failed call succeeds, except through the bound on failures.

## What is proved

TLAPS proves, for every value of the constants that satisfies the named
assumptions of the modules (finitely many streams and callers, positive periods, natural
limits and bounds, disjoint rule sets):

| Module | Theorems |
|---|---|
| `GatewayProofs` | `TypeCorrect`, `RequestsBounded`, `TokensBounded`, `QuotaBounded`, `ForwardedCounted`, `DeliveredCharged` |
| `RateLimiterProofs` | `TypeCorrect`, `NoLostIncrement`, `KeysExpire`, `AllOrNothing`, and `Refinement`, that `RateLimiter` implements `WindowCounter` |
| `QuotaSyncProofs` | `TypeCorrect`, `StatusReal`, `NoChargeUndone`, `StatusGrows` |
| `ResponseStreamProofs` | `TypeCorrect`, `NothingPassedUncharged`, `BuffersAreReleased`, `RecordedInFull`, `CleanExit` |
| `ModelProofs` | `TypeCorrect`, `NoPodLeft`, `ReadyMeansDownloaded`, `TerminalLasts`, `NothingForgotten`, `DeletionPending`, and `Refinement`, that `ModelController` implements `Lifecycle` |
| `ApplicationProofs` | `TypeCorrect`, `NothingOutlives`, `ModelComesFirst`, `FailureHasReason`, `FailureIsFinal`, `NothingForgotten`, `DeletionPending`, `Refinement` |
| `DisaggregatedProofs` | the same eight, `RouterAccount`, `ServiceThere` |
| `EndpointProofs` | `TypeCorrect`, `NoRouteLeft`, `FinalizerFirst`, `NothingForgotten`, `DeletionPending`, `Refinement` |

**The argument for the bounds.** None of the three bounds is inductive: none
says how many streams have passed their check and may still charge. The inductive
invariant `IInv` has a budget for each counter,

    counter + |threat| * charge <= limit + |all| * charge

where the threat to a window is what may still raise its counter without having
compared that counter with the limit again. For a request rule it is a set of
streams (`RequestThreat`): those about to increment the counter, those that were admitted, and those whose check
reads another window; `all` are the streams. For a token rule and the quota one admitted request may
charge several times, so the threat is a set of `Slots`, pairs of a stream and the number
of a usage report (`TokenThreat`, `QuotaThreat`): the report being charged, and all that are still to come in a response that was
admitted (`ToCome`). There are `|streams| * MaxReports` slots, and a charge is at most `MaxApply * MaxUsage`, which makes
the bound `Overshoot`. `BudgetStep` is the arithmetic: a step that adds to the threat has found the counter within
the limit, a step that charges takes its stream or its slot out of the threat (`SlotsStep`), and every
other step leaves the counter alone and adds nothing. `PathStep` and `CountStep` say which step of the code is of which kind, and one lemma per
counter (`RequestBudgetStep`, `TokenBudgetStep`, `QuotaBudgetStep`) goes through them.
`CounterInv` adds what ties a call to its window: no call is ahead of the clock, no
window counts before it starts, and a report that is being charged has its number
(`ReportIsCounted`). A request rule is checked with the request
itself included, which makes its budget smaller by one; `ZeroAdmitsNone` is there for
rules with limit 0, which admit nothing.

**The argument for the limiter.** `KeyInv` says that a key with an expiry has one
that is not before the end of its window (`ExpiryInv`: the expiry is a full period from the increment, whose
call read a time in the window), that a key whose window is not over
therefore holds all that was added (`ExactInv`), and that windows that have not started
have no key (`FutureInv`). The refinement follows step by step: INCRBY for the current window
is `Increment`, the clock is `Tick`, everything else stutters.

`KeysExpire` says that while no pipeline is cut off every key of a current window
has an expiry, or a call is under way that found the key without one and will set it.

`AllOrNothing` is about totals: with no call running and no pipeline cut off, two rules
have counted the same. Its invariant `EvenInv` speaks about the steps between: what a rule
has counted over all windows, and what the running calls still owe it, have the same
sum for every rule. A call takes on its debt for all rules at once, INCRBY pays
it for one. The sums are folds over the finite sets of windows and callers, and the
lemmas `SumUpdate` and `SumZero` say what a sum becomes when one summand changes.
These rest on an induction over finite sets, made from a smallest counterexample
(`Smallest`, by the well-foundedness of strict inclusion among the subsets of a
finite set), since the induction theorems of the library cannot be applied.

**The argument for the quota sync.** `SyncInv` bounds everything that carries a used value
by what was charged: counters, all versions of the quota, and the status that a
sync is about to write. That alone does not make the status grow: `VersionsGrow` and `ObjectsGrow` say
that the versions do, and that a sync writes nothing smaller than the version it
listed; the API server refuses the update unless that version is the latest.
`NothingLost` says that before a loss the counters equal the charges, so no status is ahead of
them and no sync gets to `SetUsage`.

**The argument for the responses.** `PassedIsCharged` and `BuffersReleased` are inductive with `Passed` (no more
chunks passed on than received). `RecordedIsSeen` needs that no usage was seen while a response
is not completed (`SeenIsCompleted`), and that recording comes with the end (`RecordedAtEnd`). `ExitIsClean` needs the
order of the shutdown: a response that has begun keeps its `Process` open, the gRPC server
is down only with none open, an HTTP server only when it is not busy, and `main` has exited only when all are down
(`StoppedInOrder`).

**The argument for the controllers.** What makes lagging caches harmless is the same in
all four proofs. None of the safety properties is inductive, because a Reconcile
may still be running, or may still start, from an older version. So the invariant speaks about all
versions from the cached to the latest one (`Versions`), and the running copy:

* `CopyInv`: a Reconcile whose copy is not stale agrees with the latest version on
  finalizer and deletion; one that creates has a copy with the finalizer that is
  not being deleted; one that removes works on the only version in the log, or its
  updates are refused.
* `OwnedInv`: once the latest version is without the finalizer, nothing exists, no Reconcile is
  creating, and no version is left from which one would start to.
* `PastInv`: the conditions and the phase of every version say something true about the past
  (the PVC exists, the model was downloaded, the model was Ready, the checks passed, there was a
  reason to fail), and so does a workload that exists. `FinalInv` says that a Reconcile that may
  write over a terminal phase (Failed, for a model also Ready) is about to write the same one.

The disaggregated application adds how far `remove` has come (`RemoveInv`), how far
`applyRouterRBAC` has (`AccountInv`), and that a workload is missing after its creation only if it was
lost (`ExistInv`), which is what makes Failed during the sync have a reason. `EndpointProofs` adds to
`OwnedInv` that a `handleDelete` about to remove the finalizer has left no route unless it read an old one.

**The refinement of Lifecycle.** With these invariants it goes step by step. Most steps show nothing
(`HiddenStep`): calls that read, the queue, the cache, failures, and a status written from a copy
that agrees with the latest version on the metadata (`CopyInv`). A step that creates is `Make`, because a Reconcile that
creates runs only while the latest version has the finalizer (`OwnedInv`), and one that deletes, by whomever, is
`Lose`. AddFinalizer is `Adopt`, since its copy is not deleted and not stale (`AwaitInv`, below; for the endpoint `AdoptInv`), and
RemoveFinalizer is `Release`, since at that point `remove` has deleted everything and nothing has been made again
(`CopyInv`, `RemoveInv`, and for the model and the endpoint `OwnedInv`).

**Nothing is forgotten.** What the controllers promise in the end are liveness properties, and
those stay with TLC. What is proved for any constants is their safety half, that no wake-up
is lost: when nothing is left to do (`Quiet`: no Reconcile runs, nothing is queued, no watch
event is on its way) the state is what it should be (`NothingForgotten`, of which `Settled` is the
disaggregated one, and `DeletionPending`). Together with progress, which is the fairness of workers and
watches, this is convergence. `AwaitInv` is the invariant in all four proofs: unless the object is
awaited (`Awaited`: queued, or a newer version is on its way), an idle controller has dealt with the
latest version, and a running one works on the latest version and will either write what is right or
write a change, which brings it back. A stale copy is always awaited, an error queues,
a stored change is a watch event (`StoreAwaited`). What each controller adds:

* model: a worker pod at work is a wake-up still to come; the only deletion that is given up
  is that of `dropped`;
* application: a sync that finds no LWS takes Ready away, which is a change, since the copy said Ready
  as the latest version does;
* disaggregated application: what was scaled, and what the sync of each workload has compared so far
  (`SyncedBefore`), except after the swallowed errors in `ignored`;
* endpoint: applications have a cache and a filter of their own. `NotesInv` says that the changes waiting
  for `filterApp` are changes, and that the last one of an application ends in what the cache
  has. So when `filterApp` drops it, the status it looked at was right about the application, if it
  looked at the latest one (`FilterAppDrops`); if not, the endpoint is awaited.

Only model-checked is every liveness property (`HandlersFinish`, `StatusConverges`, `ShutdownCompletes`, `PodEndIsReported`, `StatusFollowsLws`, `LwsRestored`, `StatusFollowsApps`, `RouteFollowsApps`, `DeletionCompletes`),
out of the prover's reach as it does not reason about fairness and ENABLED. Only proved, not an invariant of a run:
the type invariants, `NoOrphanPod`, `NoOrphans` and `NoOrphanRoute` (the runs check `ImplementsLifecycle`, which implies
them), `RouteHasFinalizer`, `WorkloadHasModel` and `FailedIsFinal` of the disaggregated
application, and the theorems `NothingForgotten` (but `Settled`) and `DeletionPending`.

## Disagreements between the code and what it says

1. `qosconfig/arks_impl.go:286`: the counters are "outdated" and are set to 0, not to the
   recorded usage (`quota_reset`).
2. `arksmodel_controller.go:311`: the worker pod of a later Reconcile has no claim name
   (`model_retry`).
3. `arksdisaggregatedapplication_controller.go:251`: the requeue for an application that waits for its model
   is dropped at line 104 (`disagg_wait`).

Seen while modelling, without a run:

* `redis_impl.go:149`: EXPIRE is queued by a TTL read before the pipeline; a key that expires in
  between comes back without an expiry, and stays if its window is over.
* `arksmodel_controller.go:124`: a failed deletion of the worker pod is not returned, so the model is
  not looked at again (the `dropped` of `DeletionCompletes`).
* `api/v1/arksdisaggregatedapplication_types.go:64` says "Now support: vllm, sglang. Default vLLM."; the
  controller accepts SGLang only.
* An edit of `spec.replicas` of an ArksApplication is not applied to an LWS that exists.
* `generateLws` of the ArksApplication is reached with an unknown runtime ("never reach here") if the
  runtime is edited after the precheck.
* A router with 0 replicas is created with 0 and then scaled to 1 by the sync.
* A streamed response counts once per chunk in `gateway_requests_total`, and is missing from the
  token histogram if its usage comes before the last chunk.
* `handleDelete` of the endpoint leaves the route behind if the cache does not have it yet (the
  condition of `NoOrphanRoute` and of the endpoint's `Owned`).
* The index and the event filter of the endpoint know ArksApplications only.

## Not modelled, and plan

* The Kubernetes API server, Redis, Envoy and the LWS controller appear by what
  the code sees of them. Redis is a single node: in cluster mode `CheckLimit` may take a
  failed read for a missing key (`redis_impl.go:80`).
* Formatting of keys, messages and responses, JSON parsing, logging, flags.
* The index and the lists behind the configuration provider: the request path has
  their outcomes. The collectors of the metrics: a library.
* What `http_handler.go` answers (that its requests hold up a shutdown is in `ResponseStream`), the ArksToken and ArksQuota controllers, the construction of both programs: no
  state of their own, or none that changes.

Next, in this order:

1. A composition of model and application controllers over one set of resources, with the
   names of claims, in place of `ModelProgress`.
2. Disaggregated applications in `EndpointController` (index and filter).
3. `CheckLimit` in cluster mode, as a second reader of `RateLimiter`.

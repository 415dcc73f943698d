# Verification of financial-research-agent

TLA+ models of the parts of this service that are hard to test: a job queue
whose operations are several Redis commands, HTTP handlers and workers that
share records without locks, a circuit breaker around a pool of threads, and a
research loop that spends several budgets. TLC checks the models on small
instances; TLAPS proves the most important invariants for every instance.
Beside them stand smaller models of what those parts rest on: the rate limit
and the data tools.

Paths below are relative to the repository root.

## 1. The system

| Component | State | Operations | Interacts with |
|---|---|---|---|
| Job queue, `src/api/job_queue.py` | Redis: idempotency markers, ready list, in-flight list, envelopes, lease set, retry set, dead-letter list | `enqueue`, `claim` (= `recover_stale`, `_promote_due`, four commands), `renew`, `ack`, `retry`, `remove_dead_letter` | API (enqueue), workers (all others) |
| The same queue in memory, when Redis is not required | dictionaries and deques under one condition variable | the same operations, one section under the lock each; `claim` waits | one process: its clients and workers |
| Worker loop, `src/worker.py` (`Worker`) | one envelope, one heartbeat task | `run_once`, `_renew_lease`, `run`, `stop` | queue, processor |
| Processor, `src/worker.py` (`ResearchProcessor`) | copy of the status record | `__call__`, `reconcile_dead_letters` | stores, governance, graph, queue |
| HTTP API, `src/api/server.py` | none between requests; 2-8 replicas | submit, get, approve, reject | stores, governance, queue |
| Stores, `src/api/job_store.py` | status and result records in Redis | `get`, `set`, `set_if_absent`, `delete`, `values` | API, processor |
| Governance, `src/api/governance.py` | rate windows, slot counter per tenant, audit chain | rate limit, acquire and release of a slot, audit | API, processor |
| Circuit breaker, `src/resilience.py` | failures, opened_at, a lock | `call` | research agent |
| Tool calls, `src/agents/research_agent.py` | pool of four threads | `_invoke_tool_with_timeout` | breaker, tools |
| Research and analyst, `src/agents/`, `src/graph/workflow.py` | `AgentState` of one run | `validate_input`, `research_node`, `analyst_node`, routing | models, tools, processor |
| Tools, `src/tools/` | none | one provider request each | breaker |
| Identity, screening, settings, contracts | none | checks of input | API, research agent |

What is hard, and what makes each part correct:

* **Queue.** A Lua script is atomic, the sequence around it is not: recovery,
  retry and claim carry an envelope read earlier and write it back; a claim has
  no lease until its last command; nothing fences a worker that lost its lease.
  Correct means: a job has one place, is never lost, is not buried early, and
  ends. The memory backend has no partial steps, but waiters that must be woken
  and dictionaries whose lookups must not fail.
* **Lifecycle.** Handlers and workers read a record, act, and write the whole
  record. A submission has four steps any of which may fail; the slot counter
  is released by whoever settles the job, and expires by itself. Correct means:
  a report is withheld until it is approved, what awaits approval can be
  approved, the tenant's limit holds, leaked slots come back, an accepted job
  is settled.
* **Rate limit.** Two backends with windows of different kinds, one of them in a
  dictionary that grows. Correct means: windows do not add up beyond their edge,
  the dictionary stays bounded, nobody is denied for longer than a window.
* **Tool calls.** The breaker's lock is not held during the call, so calls
  overlap; a call out of time keeps its thread. Correct means: the breaker's
  two fields agree, nobody passes an open circuit, callers are always answered,
  a tool is blamed only for itself as long as the pool has threads left.
* **Data tools.** Several requests, each retried; missing keys, odd bodies and
  failures end in fallbacks. Correct means: nothing illustrative is passed off
  as data, the graph gets the shapes it expects.
* **Research run.** One budget is spent by rounds, fallbacks and the analyst;
  results of several shapes decide the route. Correct means: ceilings hold, a
  run ends with a report or an error, a report cites what was fetched.

The full list of hazards, each with its line and the properties that would
notice it, is in `PROJECT.json`.

## 2. Modules

| Module | Models | Composition |
|---|---|---|
| `ReliableQueue` | what the queue promises: places, moves, when a job may be finished or buried | abstract specification |
| `JobQueue` | the Redis backend and the worker loop, one action per command or script | implements `ReliableQueue` (`KeepsPromise`) |
| `MemoryQueue` | the memory backend and the worker loop, one action per section under the lock | implements `ReliableQueue` for each job (`KeepsPromise`) |
| `JobLifecycle` | API handlers on replicas, processor and reconciliation on workers, stores, slots and their expiry | uses the queue as `ReliableQueue` allows (`UsesPromise`) |
| `ToolCircuit` | breakers, pool, time limit | its outcomes are the tool results of `ResearchGraph` |
| `ResearchGraph` | validation, research loop, analyst, retry of the run | the step `Research` of `JobLifecycle` |
| `DataTools` | one call of any of the four tools | its answers are the `Result` of `ResearchGraph` (`FitsGraph`) |
| `RateLimit` | `enforce_rate_limit` in both backends | may refuse a `Submit` of `JobLifecycle` |
| `MC...` | one for each of the seven: symmetry sets | the module of every run |
| `...Proofs` | one for each of the seven: theorems | `SlotProofs` continues `JobLifecycleProofs` |

A definition with a longer name directly before another one
(`ScriptRearming`, `Script`) is a faulty version of it that no specification
uses. Putting it in place shows that a property notices the fault;
`PROJECT.json` lists one for each property.

### JobQueue

State: `known`, `ready`, `inflight`, `envelopes`, `leases`, `scheduled`, `dead`
are the seven Redis keys of `JobQueue.__init__`. A lease is `none`, `live` or
`expired`, a retry `none`, `waiting` or `due`: the score against the clock.
Each worker has a program counter, the snapshot it works through (`todo`,
`probe`), the job and the attempt of the envelope it holds, and the state of
its heartbeat task.

Actions follow `run_once` from top to bottom: `ScanLeases`, `ScanInflight`,
`ProbeLease`, `ReadStale`, `MoveStale` (`recover_stale`), `ReadDue`, `Promote`
(`_promote_due`), `Pop`, `ReadEnvelope`, `DropOrphan`, `WriteEnvelope`,
`TakeLease` (the four commands of `claim`), `Heartbeat`, `HeartbeatFails`,
`Succeed`, `Fail`, `Abandon`, `Ack`, `Retry`. `Enqueue` is called by the API,
`RemoveDead` by any worker's maintenance. `Crash` is a crash and restart, and
also a Redis error: both leave `run_once` at that step. `LeaseExpires`,
`LeaseLapses` and `RetryDue` are the clock; `LeaseLapses` is a lease that runs
out although its worker lives.

Left out: the marker's expiry after `job_retention_seconds`; the order in which
a snapshot is worked through (any order is allowed); probing a job that is
already known to be expired. `acked`, `drained` and `claims` are history.

### MemoryQueue

State: the six `_memory_...` collections, the deques as counts for each job, and
each worker's place in `claim` and `run_once`. `woken` are the waiters that
`Condition.notify` chose and that have not run since; whoever is waiting and not
woken is `Asleep`. `claim` is three sections (`RecoverStale`, `PromoteDue`, then
`Take`, or `Sleep` and `Wake`): other workers act between them. `Notify(n)`
stands for n calls of `notify`, each of which wakes some waiter. A waiter also
wakes by its timeout, so `Wake` needs no notification. `unannounced` is history:
how many promoted retries nobody was notified of and no worker that came by
itself has made up for (`LeftUnannounced`).

The queue dies with its process, so there is no crash of a single worker and
`renew` raises nothing: what remains is a lease that runs out under a live
worker (`LeaseLapses`), whose later `Ack` or `Retry` finds the job gone or in
another's hands. `KeepsPromise` states the refinement for each job, because one
section may move several jobs at once; a retry that came due may be promoted and
claimed in one section, which is why `ReliableQueue!Claim` starts from either
place. Left out: the expiry of the marker, and the order of the deques.

### JobLifecycle

State: `status`, `report` (of the status record), `result`, `slots` with its
time to live `ttl`; `place`
and `attempt` stand for the queue, in the abstract form `JobQueue` is shown to
implement, with `scheduled` merged into `ready`. `rpc`/`rjob` are the API
replicas, `wpc`/`wjob`/`watt`/`copy` the workers; `copy` is the report field of
the record a worker read before its run and writes back with it. `disturbed` is
history: it notes the failures that the slot counter does not survive, and only
those.

Actions are single store, counter and queue calls. Submission: `Submit`,
`Acquire`, `Create`, `GiveBack`, `ReturnRaced`, `Enqueue`, `AuditSubmit`,
`Undo`, and `SubmitAgain` for an existing record. `Decide` reads the status,
`Approve` and `Reject` save. Processing: `Claim`, `Load`, `Mark`, `Research`,
then `FailRelease`, `FailSet`, `Retry`, or `StoreResult`, `Finish`, `Free`,
`Ack`. Reconciliation: `LoadDead`, `SetDead`, `FreeDead`, `RemoveDead`.
`ReplicaCrash`, `ReplicaError`, `AcquireLost`, `UndoFails`, `WorkerCrash`,
`WorkerError` and `RecoverLapsed` are failures, each kind with a
budget (`UndoFails` is a replica error that lasts); `RecoverStale` is what the
queue does about them. An audit append changes nothing
a property looks at and appears as a point where an error can come. `SlotsAge`
and `SlotsExpire` are the two halves of `cache_ttl_seconds`, which begins again
with every acquired slot and with nothing else.

The failures `Disturb` names are: a crash of a handler that holds a slot no
record accounts for; an error after the record, the queue or a release has taken
over the slot, which releases it once more; an answer lost at the acquire or at
the release of a failed submission; a crash or error between settling a job and
releasing its slot, or between the release and what keeps the job from coming
back; two workers at one dead letter; a lease lost by a live worker; and a
counter that expires while slots are taken. After anything else, crashes and
errors included, `SlotsExact` holds.

Left out: several tenants (a counter belongs to one); record expiry, and with it
the branches for a missing record and for a job only the queue knows; roles,
rate limit and validation, which refuse a request before it changes anything;
reconciliation of a whole list from one snapshot (one dead letter at a time is
taken).

### ToolCircuit

State: `failures` and `opened` of each tool's breaker (`opened` is `cooled`
once `recovery_seconds` are over), each caller's step, the pool's `queue` and
the calls on its threads (`busy`). A call that ran out of time stays with the
owner `NoCaller`. `Call` and `Refuse`, `CountFailure`, `Succeed` are the three
sections of `CircuitBreaker.call` under its lock; `Submit`, `Start`, `Answer`,
`TimeOut`, `EndUnheard` the pool.

Time is kept by what it decides. `future.result(timeout=30)` counts from the
submission, so a call may run out of time in two cases (`MayTimeOut`): it runs
on a tool in `Hanging`, or it found no free thread when it was submitted
(`delayed`), whatever tool it is for and whether it has started by then. The
abandoned calls have no bound but the one on calls in the pool (`MaxTasks`);
nothing says that they ever end. Three variables are history: `blamed`, the
tools that failed or hung themselves; `crowded`, whether abandoned calls once
left fewer threads than callers; `overtaken`, the callers whose circuit opened
while their call was under way. A deployed worker has one caller; several stand
for the claim that graph and breaker may be used concurrently.
Content screening comes after the breaker and cannot reach it.

### ResearchGraph

State: the fields of `AgentState` that control depends on. `modelCalls` is
`model_calls`, `logged` the length of `tool_calls_log`, `todo` the tool calls
left of the answer at hand, `found` says that analyses or news are not empty,
`sources` the registry by tool. `spent`, `asked` and `fetched` are history.
`Run` is the processor's call of `run_research`, `Settle` its reaction.

Left out: token counts, messages, prompt text, formatting; the retries inside
the model clients, which the code does not count either.

### DataTools

One call of one tool: `settings` are the tool, whether its key is configured,
whether illustrative records are allowed, and whether the tool has some for the
ticker. `Receive` and `Raise` are the two ends of a request; the retry decorator
is `Attempts`. `Build...` makes the answer from the bodies, `Except`
is the clause around all of it, `FallBack` the illustrative records.

Left out: values, formatting, sentiment and relevance scores, `max_articles`
below one. Time is left out too: `httpx.Client(timeout=15)` limits each phase
and each read of a request, not the request, so the code itself gives no bound
on how long a call takes. The 30 seconds of its caller are in `ToolCircuit`.

### RateLimit

State: Redis' `count` and `ttl` for each principal; in memory the counts of this
minute and the last, how many older entries the dictionary holds, and whether it
was pruned (`plain`: the pruned copy is a plain dictionary). `Script` is the Lua
script, `RequestMemory` the section under the lock, `RequestUnknown` the lookup
that fails. `Observe` begins to count admitted requests at an arbitrary moment,
for a minute: `AtMostTwiceTheLimit` is about every minute, not the windows of
the code. `denied` is history: for how many ticks on end a principal's last
answer was a denial. Counts above the limit are not told apart.

## 3. Runs

Bounds are constants of the runs and named in the modules.

| Run | Instance | Shows |
|---|---|---|
| `QueueRaces` | 1 job, 3 workers, cap 2, 3 claims, 1 lapse, 1 fault | one token per job, nothing lost, no envelope missed, no early burial, and `JobQueue` implements `ReliableQueue`, in 1.6 million states |
| `QueueOneWorker` | 2 jobs, 1 worker, 2 lapses, 2 faults, fair | every job ends |
| `MemoryRaces` | 2 jobs, 3 workers, cap 2, 1 lapse, fair | envelopes live as long as their jobs, one place, exact while no lease ran out, no lost wake-up (a count of ready jobs against woken waiters), `MemoryQueue` implements `ReliableQueue`, every job ends |
| `LifecycleRuns` | 2 jobs, 1 replica, 2 workers with a crash and an error, 1 slot, no approval, fair | tenant limit; settled when done and no reopening; accepted jobs are settled; the tenant is never locked out for good |
| `LifecycleLapses` | 1 job, 2 + 2 processes, 2 slots, crashes and errors of both, two workers on one job, in 3.7 million states | slots exact; reports withheld; approvable jobs have results; queue used as promised |
| `CircuitShared` | 2 callers, 2 tools, 3 threads, 3 calls in the pool, threshold 2, hung calls never end, fair | fields agree, bounded overshoot, calls owned, only a call under way closes an open circuit, no blame for others before the pool is crowded, everyone is answered, in 770,000 states |
| `GraphRuns` | 2 models, 3 rounds, 5 model calls, 3 tool calls, fair | ceilings, report or error, evidence, citations, research pays per round, jobs end |
| `RateWindows` | 2 principals, limit 2, 2 ticks a minute, pruning beyond 5 entries, 1 lost answer, both backends | twice the limit in any minute, bounded dictionary, denied for a minute at most |
| `ToolAnswers` | 4 tools, all settings and outcomes | illustrative records only where allowed, data rests on the provider, shapes fit the graph |

The type invariants (`TypeOK` of every module) are theorems and not repeated in
the runs; so is `TokenHasEnvelope`.

Why the bounds suffice: two workers are needed for a stale copy and a third for
a bystander that recovers between their steps; a cap of two separates "retry"
from "bury"; three claims are one beyond the cap; one lapse or crash is enough
for two owners of one job. One slot with two jobs puts the counter at its limit;
two slots for two submissions of one job let both acquire, so that one has to
give its slot back. In memory the third worker is the one that sleeps while the
others race. A threshold of two separates "counted" from "open"; three threads
for two callers leave room for one abandoned call before the pool is crowded,
and three calls in the pool fill it, with abandoned calls and with waiting ones.
One tool may fail and hang, the other does neither: it is the one that could be
blamed without cause. Five
model calls for three rounds of two models may end within a round, between two
candidates, in the analyst's fallbacks, or not at all; three tool calls end
within the second answer of two. Two ticks let an observed minute lie across a
calendar minute's edge, and let a principal be denied on both sides of it; two
principals fill five entries in three minutes. `LifecycleRuns` has a single
replica, so the races of two replicas for one slot counter are
`LifecycleLapses`' (`SlotsExact`) and the theorems'. Every
property of these runs fails under the faulty definition listed for it.

Three more runs show that the code does not do what a doc says; `findings` in
`PROJECT.json` quotes the lines.

| Run | Shows |
|---|---|
| `LifecycleRejectRace` | an approval that read the status before overwrites a saved rejection |
| `LifecycleLostSubmit` | a failed enqueue leaves a pending record that is returned for ever |
| `QueueAttemptCap` | with the two workers of the reference deployment, and without any failure, a job is claimed more often than `JOB_MAX_ATTEMPTS`: one worker recovers what the other has popped and not leased yet (`job_queue.py:475`), and both read the same attempt |

Further configurations are kept beside them for reproduction and are not part of
the regular runs: TLC finds each violated, and each marks a limit of a property
above, a disagreement with a doc, or a decision worth knowing.

| Configuration | Property | Shows |
|---|---|---|
| `QueueAckResidue` | `AckRemovesEnvelope` | a claim in progress writes envelope (`job_queue.py:364`) or lease back after the ack |
| `QueueHealthySteal` | `HealthyClaimIsExclusive` | a claim between pop and lease is taken for an interrupted one (`job_queue.py:475`) though nothing failed; `HealthyQueueIsExact` shows that the memory backend does not |
| `RateOutage` | `StaysInService` | beyond 10000 entries the memory backend replaces its `defaultdict` (`governance.py:66`) by a plain one (`governance.py:106`): from then on line 103 raises `KeyError` for every first request of a minute, until a restart |
| `CircuitReported` | `RepeatedFailuresOpen` | tools catch what their provider raises (`macro_tool.py:147`), so repeated failures never open the circuit that `docs/architecture.md:39` counts on |
| `CircuitStarved` | `HealthyStaysClosed` | abandoned calls on every thread open another tool's circuit (`research_agent.py:65`) |
| `CircuitLateSuccess` | `OpenUntilCooled` | a late success closes an open circuit when there are two callers (`resilience.py:53`) |
| `GraphJobCeiling` | `JobCeilingHolds` | the ceiling on model calls is per attempt, not per job (`workflow.py:206`) |
| `GraphUntriedFallback` | `FallbackAttempted` | the fallback is not asked when the budget ends at the primary (`research_agent.py:203`) |
| `GraphDroppedCalls` | `EveryCallLogged` | tool calls beyond the budget are neither logged nor answered (`research_agent.py:235`) |
| `ToolDefaults` | `NoDefaultsAsData` | a market body without the expected fields becomes a record with price zero (`market_data_tool.py:104`) |
| `ToolDropped` | `KeepsWhatItGot` | what earlier requests of a call brought is dropped when a later one fails (`macro_tool.py:149`) |

Run one with `tlc -config <configuration>.cfg MC<module>.tla`.

Fairness. A worker's loop, begun HTTP handlers, threads and callers run on:
nothing in the code can hold them for ever, given that Redis calls and tool
calls have time limits. The clock advances, so leases without a live heartbeat
expire, retries become due, and a stale job is recovered by somebody's next
pass; every pass starts with the dead letters. Time also passes for the slot
counter (`SlotsAge`, `SlotsExpire`). No fairness is
assumed of clients, approvers, failures, lapses, or of hung tool calls:
`NeverLockedOut` holds while clients keep asking and being refused, since a
refused request does not begin the counter's hour again.

`CHECK_DEADLOCK FALSE` is set for the graph and the tools only: a job that
succeeded or failed, and a call that was answered, is over.

## 4. Proofs

The theorems hold for every value of the constants that satisfies the named
assumptions (`NoJobAssumption`, `BoundsAssumption`, `FinitenessAssumption`,
`LifecycleConstants`, `CircuitConstants`, `GraphConstants`, `RateConstants`):
that limits are positive, bounds natural, null values outside
their sets, and counted sets finite. TLC evaluates them in every run.

* `JobQueueProofs`. `QueueTypes`; `QueueKeepsJobs` (`OneToken`, `NothingLost`,
  `TokenHasEnvelope`, `MissingMeansFinished` for any number of jobs, workers
  and failures); `QueueBuriesLate`; `QueueImplementsPromise`. The four
  invariants are inductive only together, and with the facts that a snapshot, a
  popped job and a copied envelope belong to known jobs. For the burial, the
  strengthening is that no copy of an attempt, in Redis or with a worker,
  exceeds the number of claims written: a stale copy may lag, never lead.
  `OneCopyOfEachJob` and `DroppedClaimsAreFinished` state two of the four by
  themselves. Nothing is proved of the attempt cap from above: `QueueAttemptCap`
  shows that it does not hold. The
  refinement maps a job to the structure it is in (`Place`) and `claims` to
  `handed`; each action is one move of a job or a stutter.
* `MemoryQueueProofs`. `MemoryTypes`; `MemoryKeepsEnvelopes` and
  `MemoryKeepsJobs`, inductive together: a job has an envelope exactly while it
  has a place. They rest on the check of `_memory_inflight` in every section that
  drops or rewrites an envelope. `HealthyMemoryQueue` needs more: while no lease
  ran out, a job in flight has exactly one worker, whose attempt is the
  envelope's, and the envelope's attempt is the number of claims.
  `NobodySleepsThroughWork` counts, since a woken waiter may take a job that was
  promoted in silence and leave the one it was woken for: a call of `notify`
  beside a sleeper makes one more waiter woken for one more ready job; a waiter
  leaves `woken` only by taking a job or after it looked at a queue without one;
  a worker that was not woken and takes a job makes up for one that was
  promoted.
  `MemoryImplementsPromise` shows, for each job, that every section is one move
  of it or none; `RecoverStale`, `PromoteDue` and `Wake` move many jobs, each by
  at most one step.
* `JobLifecycleProofs`. `LifecycleTypes`, including that the slot counter stays
  within the tenant's limit; `ReportsAreWithheld`, with the strengthening that
  no worker's copy carries an unapproved report either; and
  `ApprovableJobsHaveResults`, with the strengthening that a worker past
  `StoreResult` has stored its result. `LifecycleUsesPromise` maps every step to
  a move of the abstract queue or a stutter: a replica at `Enqueue` is the only
  one for its job and the queue has not seen it, since the record comes first;
  and no copy of an attempt, in the envelope or with a worker, exceeds the number
  of deliveries, so a burial is never early. `DoneJobsAreSettled` assumes
  `MaxLapses = 0`: then a job in flight has one worker, a worker that processes a
  job has it in flight, one that reconciles has it dead or done, and past its
  last status each has written a settled one. With lapses a second worker may
  write "running" into the record of a finished job.
* `SlotProofs`. `SlotsAreCounted`, `TenantIsLimited` and `SettledStaySettled`,
  for any number of jobs, replicas and workers, as long as nothing happened that
  `Disturb` names. The inductive invariant (`SlotInv`) has two parts. `Orderly`
  relates status, queue and workers: whoever processes a job or writes the
  status of its dead letter is alone with it; how far that worker is tells
  whether the status is settled; a job in flight that is settled has its worker
  at the release or the ack, or no attempt left, so recovery never makes it
  ready again. `Counted` is `SlotsExact`. A step of a worker alone with its job
  (`AloneStep`), of workers beside each other at a dead letter (`BesideStep`),
  of a handler that touches no job (`ApartStep`) and of a record or a place
  alone (`ChangeKeepsCount`) are the four shapes every action but `Create` has;
  `Create` passes the slot from the handler to the record. The finite-set
  lemmas count.
  The tenant's limit follows because each waiting or running job is among those
  that owe a release, and the counter never exceeds the limit.
* `ToolCircuitProofs`. `CircuitTypes`; `CallsAreOwned`;
  `CircuitOpensAtThreshold`. `OnlyOvertakenCallsClose`: whoever is in a call of
  a tool whose circuit is open was in it when the circuit opened, because an open
  circuit admits nobody. `OpenCircuitStaysOpen` assumes a single caller, of which
  it follows that no call is under way while the circuit is open; no run checks
  it, and `CircuitLateSuccess` is the case of two callers. `OvershootIsBounded`
  adds to a count at the threshold the callers still in a call of that tool
  (`RoomToFail`). `ToolsAreIsolated`: while abandoned calls leave a thread for
  each caller, a caller that submits finds a free one (`SomeThreadLeft` counts
  the calls of the others), so none is delayed, and only a call that hangs runs
  out of time. It assumes nothing of the sizes; `CircuitStarved` is the case of
  a crowded pool.
* `ResearchGraphProofs`. `GraphTypes`, `CeilingsAreKept` (`CeilingsHold`),
  `RunsEndWithReportOrError`, `AnalystWorksOnEvidence`, `ReportsCiteEvidence`;
  `ResearchCharges`, from the bound
  modelCalls <= (iterations - 1) * Providers + tries while a round is open, and
  from it `AnalystAlwaysFunded`: a ceiling above MaxIterations * Providers
  leaves the analyst a call.
* `RateLimitProofs`. `RateTypes`; `MinutesAreLimited`: what an observer counted
  relates to the ticks left to watch and left in the window at hand: at most the
  limit for an earlier window plus what this one admitted, and an earlier window
  counts only while this one outlasts the observation. A lost answer only makes
  it less.
  `MemoryIsBounded` counts the entries of a dictionary with finite-set lemmas.
  `RefusalsEnd`: an open window has not been open for fewer ticks than a
  principal was denied, so ticks denied and ticks left are a minute together at
  most; with the next window comes an admission.
* `DataToolsProofs`. `ToolTypes`; `MockNeedsPermission`;
  `DataComesFromProvider`, by the number of bodies at each request;
  `AnswersFitGraph`, with the strengthening that a call not yet answered has
  neither shape nor origin.

Only model-checked: liveness (`EventuallyFinished` of both queues,
`AcceptedRuns`, `NeverLockedOut`, `AlwaysAnswered`, `Ends`), which is out of
reach of the prover. Every invariant, action property and refinement that a
passing run checks is a theorem, one of them under a hypothesis: `DoneIsSettled`
(no lapses), which holds of the constants of its run.

## 5. Not modelled

Redis itself beyond the atomicity of a command or script; the audit chain, which
is one atomic script whose hashes link by its shape; the request body limit, a
counter of one request; identity, CORS, headers, metrics, health checks,
settings parsing; recursive screening of tool results; retention, listing and
clearing of the stores; the providers; prompt text and formatting; the stop
signal, which ends a worker's loop between two passes. `PROJECT.json` gives the
reason for each component.

## 6. Plan

Done: the queue with its promise, the lifecycle, the tool circuit, the research
graph, in this order because the queue carries accepted work, the lifecycle
what clients see, and the others feed it; then the memory backend, the slot
counter's expiry and the failures it does not survive, the rate limit, and the
data tools.

Next, in this order:

1. Proofs: the reasons behind the liveness properties as invariants, such as
   that a job which is not finished always has an action ahead of it.
2. `Screening`: bounds on the size of a screened result, against a reference
   definition. `BodyLimit`: the body counter against declared and undeclared
   lengths.
3. Record expiry in `JobLifecycle`: the branches for a missing status record
   and for a job only the queue knows.

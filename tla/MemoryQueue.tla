---------------------------- MODULE MemoryQueue -----------------------------
(* The memory backend of src/api/job_queue.py, shared by the workers and    *)
(* clients of one process, driven by the loop of src/worker.py.  Every      *)
(* "with self._condition" section is one action.  The queue dies with its   *)
(* process, so no worker crashes alone; what goes wrong is a heartbeat that *)
(* comes too late.                                                          *)
(*                                                                          *)
(* The two deques are counts per job: any ready job may be the next one.    *)
(* (A definition with a longer name before another one is a faulty version  *)
(* of it, for showing that a property notices the fault.)                   *)
EXTENDS Integers, FiniteSets

CONSTANTS Jobs, Workers, NoJob,
          MaxAttempts,  \* settings.job_max_attempts
          MaxLapses     \* bound on leases that run out under a live worker

ASSUME NoJobAssumption == NoJob \notin Jobs
ASSUME FinitenessAssumption == IsFiniteSet(Jobs) /\ IsFiniteSet(Workers)
ASSUME BoundsAssumption == MaxAttempts \in Nat \ {0} /\ MaxLapses \in Nat

VARIABLES
    known, ready, inflight, envelopes, scheduled, dead,  \* self._memory_...
    pc, job, attempt, heartbeat,  \* each worker
    woken,                        \* waiters that were notified
    claims, acked, drained,       \* history, as in JobQueue
    unannounced,                  \* history: see LeftUnannounced
    lapses                        \* bound

queue   == <<known, ready, inflight, envelopes, scheduled, dead>>
local   == <<pc, job, attempt, heartbeat>>
history == <<claims, acked, drained, unannounced, lapses>>
vars    == <<queue, local, woken, history>>

NoEnvelope == -1
Steps == {"idle", "promote", "take", "wait", "work", "ack", "retry"}

Init ==
    /\ known = {}
    /\ ready     = [j \in Jobs |-> 0]
    /\ inflight  = [j \in Jobs |-> "none"]
    /\ envelopes = [j \in Jobs |-> NoEnvelope]
    /\ scheduled = [j \in Jobs |-> "none"]
    /\ dead      = [j \in Jobs |-> 0]
    /\ pc        = [w \in Workers |-> "idle"]
    /\ job       = [w \in Workers |-> NoJob]
    /\ attempt   = [w \in Workers |-> 0]
    /\ heartbeat = [w \in Workers |-> "off"]
    /\ woken = {}
    /\ claims    = [j \in Jobs |-> 0]
    /\ acked = {} /\ drained = {} /\ unannounced = 0 /\ lapses = 0

-----------------------------------------------------------------------------
Held(j) == inflight[j] # "none"
Exhausted(a) == a >= MaxAttempts
Goto(w, step) == pc' = [pc EXCEPT ![w] = step]
Rest(w) ==
    /\ Goto(w, "idle")
    /\ job'       = [job EXCEPT ![w] = NoJob]
    /\ attempt'   = [attempt EXCEPT ![w] = 0]
    /\ heartbeat' = [heartbeat EXCEPT ![w] = "off"]

\* Condition.notify, n times: each call wakes one waiter, if one is asleep.
Asleep == {w \in Workers : pc[w] = "wait"} \ woken
ReadyJobs == {j \in Jobs : ready[j] > 0}
Notify(n) == \E S \in SUBSET Asleep :
    /\ Cardinality(S) = n \/ (S = Asleep /\ Cardinality(S) < n)
    /\ woken' = woken \cup S

Accept(j) ==
    /\ j \notin known
    /\ known' = known \cup {j}
    /\ envelopes' = [envelopes EXCEPT ![j] = 0]
    /\ ready' = [ready EXCEPT ![j] = @ + 1]
    /\ UNCHANGED <<inflight, scheduled, dead, local, history>>
EnqueueSilently(j) == Accept(j) /\ UNCHANGED woken
Enqueue(j) == Accept(j) /\ Notify(1)

\* claim: recover_stale moves every expired lease under one lock.
Stale  == {j \in Jobs : inflight[j] = "expired"}
Buried == {j \in Stale : Exhausted(envelopes[j])}
Recover(w, stale, buried) ==
    /\ pc[w] = "idle"
    /\ inflight' = [j \in Jobs |-> IF j \in stale THEN "none" ELSE inflight[j]]
    /\ ready' = [j \in Jobs |-> IF j \in stale \ buried THEN ready[j] + 1 ELSE ready[j]]
    /\ dead'  = [j \in Jobs |-> IF j \in buried THEN dead[j] + 1 ELSE dead[j]]
    /\ Notify(Cardinality(stale \ buried))
    /\ Goto(w, "promote")
    /\ UNCHANGED <<known, envelopes, scheduled, job, attempt, heartbeat, history>>
RecoverHeld(w) == Recover(w, {j \in Jobs : Held(j)}, Buried)
RecoverStale(w) == Recover(w, Stale, Buried)

\* _promote_due_memory, which notifies nobody.
Due == {j \in Jobs : scheduled[j] = "due"}
PromotedNowhere == ready
Promoted == [j \in Jobs |-> IF j \in Due THEN ready[j] + 1 ELSE ready[j]]
Awakened == [j \in Jobs |-> IF j \in Due THEN "none" ELSE scheduled[j]]

PromoteDue(w) ==
    /\ pc[w] = "promote"
    /\ ready' = Promoted /\ scheduled' = Awakened
    /\ unannounced' = unannounced + Cardinality(Due)
    /\ Goto(w, "take")
    /\ UNCHANGED <<known, inflight, envelopes, dead, job, attempt, heartbeat,
                   woken, claims, acked, drained, lapses>>

-----------------------------------------------------------------------------
(* claim: popleft, or wait for it.                                          *)

\* The end of claim, given what is ready; run_once starts the heartbeat.
\* (EnvelopeWhileQueued says that the lookup of the envelope succeeds.)
ClaimFrom(w, j, supply) ==
    /\ supply[j] > 0
    /\ ready' = [supply EXCEPT ![j] = @ - 1]
    /\ envelopes' = [envelopes EXCEPT ![j] = @ + 1]
    /\ inflight' = [inflight EXCEPT ![j] = "live"]
    /\ Goto(w, "work")
    /\ job' = [job EXCEPT ![w] = j]
    /\ attempt' = [attempt EXCEPT ![w] = envelopes[j] + 1]
    /\ heartbeat' = [heartbeat EXCEPT ![w] = "on"]
    /\ claims' = [claims EXCEPT ![j] = @ + 1]
    /\ UNCHANGED <<known, dead, acked, drained, lapses>>

\* Retries are promoted without a notification.  How many ready jobs nobody
\* was notified of are left of n when w takes one: one less if w came unasked,
\* and never more than are ready.
LeftUnannounced(w, n) ==
    LET left == Cardinality(ReadyJobs') IN
    IF w \notin woken /\ n > 0 THEN n - 1 ELSE
    IF n > left THEN left ELSE n

Take(w) ==
    /\ pc[w] = "take"
    /\ \E j \in Jobs : ClaimFrom(w, j, ready)
    /\ unannounced' = LeftUnannounced(w, unannounced)
    /\ UNCHANGED <<scheduled, woken>>

Sleep(w) ==
    /\ pc[w] = "take" /\ \A j \in Jobs : ready[j] = 0
    /\ Goto(w, "wait")
    /\ UNCHANGED <<queue, job, attempt, heartbeat, woken, history>>

\* A waiter is notified or times out, promotes what is due and looks again:
\* it takes a job, returns None when its time is up, or goes on waiting.
Wake(w) ==
    /\ pc[w] = "wait" /\ woken' = woken \ {w}
    /\ scheduled' = Awakened
    /\ \/ /\ \E j \in Jobs : ClaimFrom(w, j, Promoted)
          /\ unannounced' = LeftUnannounced(w, unannounced + Cardinality(Due))
       \/ /\ \A j \in Jobs : Promoted[j] = 0
          /\ ready' = Promoted
          /\ Rest(w) \/ UNCHANGED local
          /\ UNCHANGED <<known, inflight, envelopes, dead,
                         claims, acked, drained, unannounced, lapses>>

-----------------------------------------------------------------------------
(* Worker.run_once while the processor runs, and how it ends.               *)

\* JobQueue.renew; renewing a live lease changes nothing.
HeartbeatUnchecked(w) ==
    /\ pc[w] = "work" /\ heartbeat[w] = "on" /\ inflight[job[w]] # "live"
    /\ inflight' = [inflight EXCEPT ![job[w]] = "live"]
    /\ UNCHANGED <<known, ready, envelopes, scheduled, dead, local, woken, history>>
Heartbeat(w) ==
    /\ pc[w] = "work" /\ heartbeat[w] = "on" /\ inflight[job[w]] # "live"
    /\ IF Held(job[w])
       THEN inflight' = [inflight EXCEPT ![job[w]] = "live"] /\ UNCHANGED heartbeat
       ELSE heartbeat' = [heartbeat EXCEPT ![w] = "lost"] /\ UNCHANGED inflight
    /\ UNCHANGED <<known, ready, envelopes, scheduled, dead,
                   pc, job, attempt, woken, history>>

ProcessorEnds(w, next) ==
    /\ pc[w] = "work"
    /\ Goto(w, next)
    /\ UNCHANGED <<queue, job, attempt, heartbeat, woken, history>>
Succeed(w) == ProcessorEnds(w, "ack")
Fail(w)    == ProcessorEnds(w, "retry")

AckUnchecked(w) ==
    /\ pc[w] = "ack"
    /\ inflight' = [inflight EXCEPT ![job[w]] = "none"]
    /\ envelopes' = [envelopes EXCEPT ![job[w]] = NoEnvelope]
    /\ acked' = acked \cup {job[w]}
    /\ Rest(w)
    /\ UNCHANGED <<known, ready, scheduled, dead, woken, claims, drained, unannounced, lapses>>
Ack(w) ==
    /\ pc[w] = "ack"
    /\ IF Held(job[w])
       THEN /\ inflight' = [inflight EXCEPT ![job[w]] = "none"]
            /\ envelopes' = [envelopes EXCEPT ![job[w]] = NoEnvelope]
            /\ acked' = acked \cup {job[w]}
       ELSE UNCHANGED <<inflight, envelopes, acked>>
    /\ Rest(w)
    /\ UNCHANGED <<known, ready, scheduled, dead, woken, claims, drained, unannounced, lapses>>

\* JobQueue.retry and _dead_letter, decided by the worker's own envelope.
RetryHeld(w) ==
    /\ inflight' = [inflight EXCEPT ![job[w]] = "none"]
    /\ envelopes' = [envelopes EXCEPT ![job[w]] = attempt[w]]
    /\ IF Exhausted(attempt[w])
       THEN /\ dead' = [dead EXCEPT ![job[w]] = @ + 1]
            /\ UNCHANGED <<scheduled, woken>>
       ELSE /\ scheduled' = [scheduled EXCEPT ![job[w]] = "waiting"]
            /\ Notify(1)
            /\ UNCHANGED dead
RetryUnchecked(w) ==
    /\ pc[w] = "retry"
    /\ RetryHeld(w)
    /\ Rest(w)
    /\ UNCHANGED <<known, ready, history>>
Retry(w) ==
    /\ pc[w] = "retry"
    /\ IF Held(job[w])
       THEN RetryHeld(w)
       ELSE UNCHANGED <<inflight, envelopes, scheduled, dead, woken>>
    /\ Rest(w)
    /\ UNCHANGED <<known, ready, history>>

\* remove_dead_letter, called by any worker's maintenance pass.
RemoveDead(j) ==
    /\ dead[j] > 0
    /\ dead' = [dead EXCEPT ![j] = @ - 1]
    /\ envelopes' = [envelopes EXCEPT ![j] = NoEnvelope]
    /\ drained' = drained \cup {j}
    /\ UNCHANGED <<known, ready, inflight, scheduled, local, woken,
                   claims, acked, unannounced, lapses>>

-----------------------------------------------------------------------------
(* The clock.  The worker that claimed a job last renews its lease until    *)
(* ack or retry, so a lease runs out only when that comes too late.         *)

LeaseLapses(j) ==
    /\ inflight[j] = "live" /\ lapses < MaxLapses
    /\ inflight' = [inflight EXCEPT ![j] = "expired"]
    /\ lapses' = lapses + 1
    /\ UNCHANGED <<known, ready, envelopes, scheduled, dead, local, woken,
                   claims, acked, drained, unannounced>>

RetryDue(j) ==
    /\ scheduled[j] = "waiting"
    /\ scheduled' = [scheduled EXCEPT ![j] = "due"]
    /\ UNCHANGED <<known, ready, inflight, envelopes, dead, local, woken, history>>

-----------------------------------------------------------------------------
Claim(w) == RecoverStale(w) \/ PromoteDue(w) \/ Take(w) \/ Sleep(w) \/ Wake(w)
Work(w) == Heartbeat(w) \/ Succeed(w) \/ Fail(w) \/ Ack(w) \/ Retry(w)

Next ==
    \/ \E w \in Workers : Claim(w) \/ Work(w)
    \/ \E j \in Jobs : Enqueue(j) \/ RemoveDead(j) \/ LeaseLapses(j) \/ RetryDue(j)

Spec == Init /\ [][Next]_vars

(* A worker loops for ever and waits at most its timeout; its processor is  *)
(* bounded by timeouts, and the clock advances.                             *)
FairSpec ==
    /\ Spec
    /\ \A w \in Workers : WF_vars(Claim(w) \/ Work(w))
    /\ \A j \in Jobs : WF_vars(RetryDue(j)) /\ WF_vars(RemoveDead(j))

-----------------------------------------------------------------------------
(* Properties.                                                              *)

\* The queue's dictionaries and the workers' own state have their types.
TypeOK ==
    /\ known \in SUBSET Jobs
    /\ ready \in [Jobs -> Nat] /\ dead \in [Jobs -> Nat]
    /\ inflight \in [Jobs -> {"none", "live", "expired"}]
    /\ envelopes \in [Jobs -> Nat \cup {NoEnvelope}]
    /\ scheduled \in [Jobs -> {"none", "waiting", "due"}]
    /\ pc \in [Workers -> Steps]
    /\ job \in [Workers -> Jobs \cup {NoJob}] /\ attempt \in [Workers -> Nat]
    /\ heartbeat \in [Workers -> {"off", "on", "lost"}]
    /\ woken \in SUBSET Workers
    /\ claims \in [Jobs -> Nat]
    /\ acked \in SUBSET Jobs /\ drained \in SUBSET Jobs
    /\ unannounced \in Nat /\ lapses \in Nat

Finished(j) == j \in acked \cup drained
HasToken(j) == ready[j] > 0 \/ Held(j) \/ scheduled[j] # "none" \/ dead[j] > 0
Working(w)  == pc[w] \in {"work", "ack", "retry"}

\* claim, recover_stale and dead_letters index the envelopes by the job they
\* find, and a KeyError there would lose the job: the envelope exists exactly
\* as long as the job is in the queue, however late the acknowledgements and
\* retries of lapsed workers arrive; a finished job leaves none behind.
EnvelopeWhileQueued == \A j \in Jobs : envelopes[j] # NoEnvelope <=> HasToken(j)

\* A job is in one of ready, inflight, scheduled and dead, once, from its
\* acceptance until it is finished.
OnePlaceUntilFinished == \A j \in Jobs :
    /\ ready[j] <= 1 /\ dead[j] <= 1
    /\ ready[j] > 0 => ~Held(j) /\ scheduled[j] = "none" /\ dead[j] = 0
    /\ Held(j) => scheduled[j] = "none" /\ dead[j] = 0
    /\ scheduled[j] # "none" => dead[j] = 0
    /\ HasToken(j) <=> j \in known /\ ~Finished(j)

\* While no lease ran out, whatever the processors do and however many workers
\* share the queue, a job has one worker, and the attempt cap is exact.
HealthyQueueIsExact ==
    lapses = 0 =>
        /\ \A v, w \in Workers :
               Working(v) /\ Working(w) /\ job[v] = job[w] => v = w
        /\ \A j \in Jobs : claims[j] <= MaxAttempts
        /\ \A j \in Jobs : dead[j] > 0 => claims[j] = MaxAttempts

\* No wake-up is lost: while somebody sleeps out the poll timeout, no more
\* jobs are ready than there are woken waiters on their way and retries that
\* were promoted without a notification and not yet made up for.  It counts:
\* a woken waiter may take a promoted job and leave the one it was woken for.
NoWakeUpLost ==
    Asleep # {} => Cardinality(ReadyJobs) <= Cardinality(woken) + unannounced

\* Every accepted job is in the end acknowledged or reconciled as dead.
EventuallyFinished == \A j \in Jobs : j \in known ~> Finished(j)

-----------------------------------------------------------------------------
(* The promise of the Redis backend, for each job: one section under the    *)
(* lock may move several.                                                   *)
Place == [j \in Jobs |->
    IF ready[j] > 0 THEN "ready" ELSE
    IF Held(j) THEN "inflight" ELSE
    IF scheduled[j] # "none" THEN "scheduled" ELSE
    IF dead[j] > 0 THEN "dead" ELSE
    IF j \in known THEN "done" ELSE "absent"]

Reliable(j) == INSTANCE ReliableQueue
    WITH Jobs <- {j}, place <- [i \in {j} |-> Place[i]],
         handed <- [i \in {j} |-> claims[i]]

\* Whatever its workers do, the memory backend keeps for every job the promise
\* that the Redis backend keeps.
KeepsPromise ==
    /\ \A j \in Jobs : Reliable(j)!Init
    /\ [][\A j \in Jobs : [Reliable(j)!Next]_(Reliable(j)!vars)]_vars
=============================================================================

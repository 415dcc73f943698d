------------------------------ MODULE JobQueue ------------------------------
(* The Redis backend of src/api/job_queue.py together with the loop of      *)
(* src/worker.py that drives it.  Redis runs one command or one Lua script  *)
(* at a time, so each of those is one action; between two of them any other *)
(* process may act.  A worker carries the values it read (a snapshot of     *)
(* stale jobs, an envelope's attempt) from one command to the next.         *)
EXTENDS Integers, Sequences

CONSTANTS Jobs, Workers, NoJob,
          MaxAttempts,  \* settings.job_max_attempts
          MaxClaims,    \* bound: a job claimed this often is not popped again
          MaxLapses,    \* bound on leases that run out under a live worker
          MaxFaults     \* bound on crashes and Redis errors

ASSUME NoJobAssumption == NoJob \notin Jobs
ASSUME BoundsAssumption ==
    /\ MaxAttempts \in Nat \ {0}
    /\ MaxClaims \in Nat /\ MaxLapses \in Nat /\ MaxFaults \in Nat

VARIABLES
    known,      \* jobs with an idempotency marker
    ready,      \* LPUSH at one end, BRPOPLPUSH from the other: a FIFO
    inflight,   \* how often each job is in the inflight list
    envelopes,  \* the attempt stored in each job's envelope
    leases,     \* the lease sorted set, its score against the clock
    scheduled,  \* the retry sorted set, its score against the clock
    dead,       \* how often each job is in the dead-letter list
    pc, todo, probe, job, attempt, heartbeat,     \* each worker's own state
    claims, acked, drained,  \* history: claims written, jobs acknowledged,
                             \* dead letters removed
    lapses, faults           \* used-up bounds

queue   == <<known, ready, inflight, envelopes, leases, scheduled, dead>>
local   == <<pc, todo, probe, job, attempt, heartbeat>>
history == <<claims, acked, drained, lapses, faults>>
vars    == <<queue, local, history>>

NoEnvelope == -1
Steps == {"idle", "list", "probe", "move", "promote",           \* maintenance
          "read", "drop", "write", "lease", "work", "ack", "retry"}

Init ==
    /\ known = {} /\ ready = <<>>
    /\ inflight  = [j \in Jobs |-> 0]
    /\ envelopes = [j \in Jobs |-> NoEnvelope]
    /\ leases    = [j \in Jobs |-> "none"]
    /\ scheduled = [j \in Jobs |-> "none"]
    /\ dead      = [j \in Jobs |-> 0]
    /\ pc        = [w \in Workers |-> "idle"]
    /\ todo      = [w \in Workers |-> {}]
    /\ probe     = [w \in Workers |-> {}]
    /\ job       = [w \in Workers |-> NoJob]
    /\ attempt   = [w \in Workers |-> 0]
    /\ heartbeat = [w \in Workers |-> "off"]
    /\ claims    = [j \in Jobs |-> 0]
    /\ acked = {} /\ drained = {} /\ lapses = 0 /\ faults = 0

-----------------------------------------------------------------------------
(* Parts of the scripts.  Every script first takes one copy of the job out  *)
(* of the list it moves from and does nothing when there is none.  (The     *)
(* variants with longer names are faulty versions of the definition after   *)
(* them, for showing that a property notices the fault.)                    *)

Held(j) == inflight[j] > 0

Unclaim(j) ==
    /\ inflight' = [inflight EXCEPT ![j] = @ - 1]
    /\ leases' = [leases EXCEPT ![j] = "none"]

ExhaustedEarly(a) == a + 1 >= MaxAttempts
Exhausted(a) == a >= MaxAttempts

UnknownByEnvelope(j) == envelopes[j] = NoEnvelope
Unknown(j) == j \notin known

AsleepUnchecked(j) == TRUE
Asleep(j) == scheduled[j] # "none"

Store(j, a) == envelopes' = [envelopes EXCEPT ![j] = a]
Push(j) == ready' = Append(ready, j)
Bury(j) == dead' = [dead EXCEPT ![j] = @ + 1]
Goto(w, step) == pc' = [pc EXCEPT ![w] = step]
Rest(w) ==  \* run_once is left, by return or by exception
    /\ Goto(w, "idle")
    /\ todo'  = [todo EXCEPT ![w] = {}]
    /\ probe' = [probe EXCEPT ![w] = {}]
    /\ job'   = [job EXCEPT ![w] = NoJob]
    /\ attempt'   = [attempt EXCEPT ![w] = 0]
    /\ heartbeat' = [heartbeat EXCEPT ![w] = "off"]

\* JobQueue.enqueue; a known job changes nothing.
Enqueue(j) ==
    /\ Unknown(j)
    /\ known' = known \cup {j}
    /\ Store(j, 0)
    /\ Push(j)
    /\ UNCHANGED <<inflight, leases, scheduled, dead, local, history>>

-----------------------------------------------------------------------------
(* claim, first part: recover_stale and _promote_due.                       *)

ScanLeases(w) ==
    /\ pc[w] = "idle"
    /\ todo' = [todo EXCEPT ![w] = {j \in Jobs : leases[j] = "expired"}]
    /\ Goto(w, "list")
    /\ UNCHANGED <<queue, probe, job, attempt, heartbeat, history>>

\* LRANGE; a job already found expired need not be probed.
ScanInflight(w) ==
    /\ pc[w] = "list"
    /\ probe' = [probe EXCEPT ![w] = {j \in Jobs : Held(j)} \ todo[w]]
    /\ Goto(w, "probe")
    /\ UNCHANGED <<queue, todo, job, attempt, heartbeat, history>>

ProbeLeaseInVain(w, j) ==
    /\ pc[w] = "probe" /\ j \in probe[w]
    /\ probe' = [probe EXCEPT ![w] = @ \ {j}]
    /\ UNCHANGED <<queue, pc, todo, job, attempt, heartbeat, history>>
ProbeLease(w, j) ==
    /\ pc[w] = "probe" /\ j \in probe[w]
    /\ probe' = [probe EXCEPT ![w] = @ \ {j}]
    /\ todo'  = [todo EXCEPT ![w] = IF leases[j] = "none" THEN @ \cup {j} ELSE @]
    /\ UNCHANGED <<queue, pc, job, attempt, heartbeat, history>>

ReadStale(w, j) ==
    /\ pc[w] = "probe" /\ probe[w] = {} /\ j \in todo[w]
    /\ todo' = [todo EXCEPT ![w] = @ \ {j}]
    /\ IF envelopes[j] = NoEnvelope
       THEN UNCHANGED <<pc, job, attempt>>
       ELSE /\ Goto(w, "move")
            /\ job' = [job EXCEPT ![w] = j]
            /\ attempt' = [attempt EXCEPT ![w] = envelopes[j]]
    /\ UNCHANGED <<queue, probe, heartbeat, history>>

\* _recover_one_redis: the script writes back the envelope that was read.
MoveStale(w) ==
    /\ pc[w] = "move"
    /\ IF Held(job[w])
       THEN /\ Unclaim(job[w])
            /\ Store(job[w], attempt[w])
            /\ IF Exhausted(attempt[w])
               THEN Bury(job[w]) /\ UNCHANGED ready
               ELSE Push(job[w]) /\ UNCHANGED dead
       ELSE UNCHANGED <<inflight, leases, envelopes, ready, dead>>
    /\ Goto(w, "probe")
    /\ job' = [job EXCEPT ![w] = NoJob]
    /\ attempt' = [attempt EXCEPT ![w] = 0]
    /\ UNCHANGED <<known, scheduled, todo, probe, heartbeat, history>>

ReadDue(w) ==
    /\ pc[w] = "probe" /\ probe[w] = {} /\ todo[w] = {}
    /\ todo' = [todo EXCEPT ![w] = {j \in Jobs : scheduled[j] = "due"}]
    /\ Goto(w, "promote")
    /\ UNCHANGED <<queue, probe, job, attempt, heartbeat, history>>

Promote(w, j) ==
    /\ pc[w] = "promote" /\ j \in todo[w]
    /\ todo' = [todo EXCEPT ![w] = @ \ {j}]
    /\ IF Asleep(j)
       THEN scheduled' = [scheduled EXCEPT ![j] = "none"] /\ Push(j)
       ELSE UNCHANGED <<scheduled, ready>>
    /\ UNCHANGED <<known, inflight, envelopes, leases, dead,
                   pc, probe, job, attempt, heartbeat, history>>

-----------------------------------------------------------------------------
(* claim, second part: BRPOPLPUSH, HGET, HSET, ZADD.                        *)

MayPop == ready # <<>> /\ claims[Head(ready)] < MaxClaims

Pop(w) ==
    /\ pc[w] = "promote" /\ todo[w] = {}
    /\ MayPop
    /\ job' = [job EXCEPT ![w] = Head(ready)]
    /\ inflight' = [inflight EXCEPT ![Head(ready)] = @ + 1]
    /\ ready' = Tail(ready)
    /\ Goto(w, "read")
    /\ UNCHANGED <<known, envelopes, leases, scheduled, dead,
                   todo, probe, attempt, heartbeat, history>>

PopTimeout(w) ==
    /\ pc[w] = "promote" /\ todo[w] = {}
    /\ ~MayPop
    /\ Rest(w)
    /\ UNCHANGED <<queue, history>>

ReadEnvelope(w) ==
    /\ pc[w] = "read"
    /\ IF envelopes[job[w]] = NoEnvelope
       THEN Goto(w, "drop") /\ UNCHANGED attempt
       ELSE /\ Goto(w, "write")
            /\ attempt' = [attempt EXCEPT ![w] = envelopes[job[w]] + 1]
    /\ UNCHANGED <<queue, todo, probe, job, heartbeat, history>>

\* LREM of a job whose envelope is missing; its lease entry is left alone.
DropOrphan(w) ==
    /\ pc[w] = "drop"
    /\ inflight' = [inflight EXCEPT ![job[w]] = IF Held(job[w]) THEN @ - 1 ELSE @]
    /\ Rest(w)
    /\ UNCHANGED <<known, ready, envelopes, leases, scheduled, dead, history>>

WriteEnvelope(w) ==
    /\ pc[w] = "write"
    /\ Store(job[w], attempt[w])
    /\ claims' = [claims EXCEPT ![job[w]] = @ + 1]
    /\ Goto(w, "lease")
    /\ UNCHANGED <<known, ready, inflight, leases, scheduled, dead, todo, probe,
                   job, attempt, heartbeat, acked, drained, lapses, faults>>

\* ZADD of the lease; claim returns and run_once starts the heartbeat task.
TakeLease(w) ==
    /\ pc[w] = "lease"
    /\ leases' = [leases EXCEPT ![job[w]] = "live"]
    /\ Goto(w, "work")
    /\ heartbeat' = [heartbeat EXCEPT ![w] = "on"]
    /\ UNCHANGED <<known, ready, inflight, envelopes, scheduled, dead,
                   todo, probe, job, attempt, history>>

-----------------------------------------------------------------------------
(* Worker.run_once while the processor runs, and its three ways to end.     *)

\* JobQueue.renew from _renew_lease; renewing a live lease changes nothing.
Heartbeat(w) ==
    /\ pc[w] = "work" /\ heartbeat[w] = "on" /\ leases[job[w]] # "live"
    /\ IF leases[job[w]] = "none"
       THEN heartbeat' = [heartbeat EXCEPT ![w] = "lost"] /\ UNCHANGED leases
       ELSE leases' = [leases EXCEPT ![job[w]] = "live"] /\ UNCHANGED heartbeat
    /\ UNCHANGED <<known, ready, inflight, envelopes, scheduled, dead,
                   pc, todo, probe, job, attempt, history>>

\* The renewal raises: the exception waits in the heartbeat task.
HeartbeatFails(w) ==
    /\ pc[w] = "work" /\ heartbeat[w] = "on" /\ faults < MaxFaults
    /\ heartbeat' = [heartbeat EXCEPT ![w] = "failed"]
    /\ faults' = faults + 1
    /\ UNCHANGED <<queue, pc, todo, probe, job, attempt,
                   claims, acked, drained, lapses>>

\* gather(heartbeat) re-raises a failed heartbeat before ack or retry is called.
ProcessorEnds(w, next) ==
    /\ pc[w] = "work" /\ heartbeat[w] # "failed"
    /\ Goto(w, next)
    /\ UNCHANGED <<queue, todo, probe, job, attempt, heartbeat, history>>
Succeed(w) == ProcessorEnds(w, "ack")
Fail(w)    == ProcessorEnds(w, "retry")
Abandon(w) ==
    /\ pc[w] = "work" /\ heartbeat[w] = "failed"
    /\ Rest(w)
    /\ UNCHANGED <<queue, history>>

AckDeletingFirst(w) ==
    /\ pc[w] = "ack"
    /\ Store(job[w], NoEnvelope)
    /\ IF Held(job[w])
       THEN Unclaim(job[w]) /\ acked' = acked \cup {job[w]}
       ELSE UNCHANGED <<inflight, leases, acked>>
    /\ Rest(w)
    /\ UNCHANGED <<known, ready, scheduled, dead, claims, drained, lapses, faults>>
Ack(w) ==
    /\ pc[w] = "ack"
    /\ IF Held(job[w])
       THEN Unclaim(job[w]) /\ Store(job[w], NoEnvelope) /\ acked' = acked \cup {job[w]}
       ELSE UNCHANGED <<inflight, leases, envelopes, acked>>
    /\ Rest(w)
    /\ UNCHANGED <<known, ready, scheduled, dead, claims, drained, lapses, faults>>

\* JobQueue.retry and _dead_letter, decided by the worker's own envelope.
Retry(w) ==
    /\ pc[w] = "retry"
    /\ IF Held(job[w])
       THEN /\ Unclaim(job[w])
            /\ Store(job[w], attempt[w])
            /\ IF Exhausted(attempt[w])
               THEN Bury(job[w]) /\ UNCHANGED scheduled
               ELSE /\ scheduled' = [scheduled EXCEPT ![job[w]] = "waiting"]
                    /\ UNCHANGED dead
       ELSE UNCHANGED <<inflight, leases, envelopes, scheduled, dead>>
    /\ Rest(w)
    /\ UNCHANGED <<known, ready, history>>

\* remove_dead_letter, called by any worker's maintenance pass.
RemoveDead(j) ==
    /\ dead[j] > 0
    /\ dead' = [dead EXCEPT ![j] = @ - 1]
    /\ Store(j, NoEnvelope)
    /\ drained' = drained \cup {j}
    /\ UNCHANGED <<known, ready, inflight, leases, scheduled, local,
                   claims, acked, lapses, faults>>

-----------------------------------------------------------------------------
(* The environment: crashes, Redis errors and the clock.                    *)

\* A crash and restart, or a Redis error: run_once raises and the loop goes on.
Crash(w) ==
    /\ pc[w] # "idle" /\ faults < MaxFaults
    /\ faults' = faults + 1
    /\ Rest(w)
    /\ UNCHANGED <<queue, claims, acked, drained, lapses>>

KeptAlive(j) == \E w \in Workers :
    /\ job[w] = j
    /\ pc[w] \in {"work", "ack", "retry"} /\ heartbeat[w] = "on"

Expire(j) ==
    /\ leases[j] = "live"
    /\ leases' = [leases EXCEPT ![j] = "expired"]
    /\ UNCHANGED <<known, ready, inflight, envelopes, scheduled, dead, local,
                   claims, acked, drained, faults>>

LeaseExpires(j) == ~KeptAlive(j) /\ Expire(j) /\ UNCHANGED lapses

\* The worker lives but its renewal comes too late.
LeaseLapses(j) ==
    /\ KeptAlive(j) /\ lapses < MaxLapses
    /\ Expire(j)
    /\ lapses' = lapses + 1

RetryDue(j) ==
    /\ scheduled[j] = "waiting"
    /\ scheduled' = [scheduled EXCEPT ![j] = "due"]
    /\ UNCHANGED <<known, ready, inflight, envelopes, leases, dead, local, history>>

-----------------------------------------------------------------------------
Claim(w) ==
    \/ ScanLeases(w) \/ ScanInflight(w) \/ ReadDue(w)
    \/ \E j \in Jobs : ProbeLease(w, j) \/ ReadStale(w, j) \/ Promote(w, j)
    \/ MoveStale(w) \/ Pop(w) \/ PopTimeout(w)
    \/ ReadEnvelope(w) \/ DropOrphan(w) \/ WriteEnvelope(w) \/ TakeLease(w)

Work(w) ==
    \/ Heartbeat(w) \/ Succeed(w) \/ Fail(w) \/ Abandon(w) \/ Ack(w) \/ Retry(w)

Clock(j) == LeaseExpires(j) \/ RetryDue(j)

Next ==
    \/ \E w \in Workers : Claim(w) \/ Work(w) \/ HeartbeatFails(w) \/ Crash(w)
    \/ \E j \in Jobs : Enqueue(j) \/ RemoveDead(j) \/ Clock(j) \/ LeaseLapses(j)

Spec == Init /\ [][Next]_vars

(* A worker loops for ever, its processor is bounded by timeouts, the clock *)
(* advances, and every pass of the loop starts with the dead letters.       *)
FairSpec ==
    /\ Spec
    /\ \A w \in Workers : WF_vars(Claim(w) \/ Work(w))
    /\ \A j \in Jobs : WF_vars(LeaseExpires(j)) /\ WF_vars(RetryDue(j))
                       /\ WF_vars(RemoveDead(j))

-----------------------------------------------------------------------------
(* Properties.                                                              *)

\* Redis structures and workers' local state have their types.
TypeOK ==
    /\ known \in SUBSET Jobs /\ ready \in Seq(Jobs)
    /\ inflight \in [Jobs -> Nat] /\ dead \in [Jobs -> Nat]
    /\ envelopes \in [Jobs -> Nat \cup {NoEnvelope}]
    /\ leases \in [Jobs -> {"none", "live", "expired"}]
    /\ scheduled \in [Jobs -> {"none", "waiting", "due"}]
    /\ pc \in [Workers -> Steps]
    /\ todo \in [Workers -> SUBSET Jobs] /\ probe \in [Workers -> SUBSET Jobs]
    /\ job \in [Workers -> Jobs \cup {NoJob}] /\ attempt \in [Workers -> Nat]
    /\ heartbeat \in [Workers -> {"off", "on", "lost", "failed"}]
    /\ claims \in [Jobs -> Nat]
    /\ acked \in SUBSET Jobs /\ drained \in SUBSET Jobs
    /\ lapses \in Nat /\ faults \in Nat

In(s, x)    == \E i \in DOMAIN s : s[i] = x
NoRepeat(s) == \A i, k \in DOMAIN s : s[i] = s[k] => i = k
Queued(j)   == In(ready, j)
Finished(j) == j \in acked \cup drained
HasToken(j) == Queued(j) \/ inflight[j] > 0 \/ scheduled[j] # "none" \/ dead[j] > 0

\* However claims, recoveries, retries and acknowledgements interleave, a job
\* is in at most one of ready, inflight, scheduled and dead, and only once.
OneToken ==
    /\ NoRepeat(ready)
    /\ \A j \in Jobs :
        /\ inflight[j] <= 1 /\ dead[j] <= 1
        /\ Queued(j) => inflight[j] = 0 /\ scheduled[j] = "none" /\ dead[j] = 0
        /\ inflight[j] > 0 => scheduled[j] = "none" /\ dead[j] = 0
        /\ scheduled[j] # "none" => dead[j] = 0

\* At-least-once delivery: an accepted job stays in the queue, through every
\* crash, lost lease and stale worker, until it is acknowledged or its dead
\* letter is removed, and no finished job comes back.
NothingLost == \A j \in Jobs : HasToken(j) <=> j \in known /\ ~Finished(j)

\* A job that some worker can still receive never has its envelope missing.
TokenHasEnvelope == \A j \in Jobs : HasToken(j) => envelopes[j] # NoEnvelope

\* The "Queue contains missing envelope" error, which drops the claim, meets
\* only jobs that another worker finished in the meantime.
MissingMeansFinished ==
    \A w \in Workers : pc[w] = "drop" => Finished(job[w])

\* No job is dead-lettered before MaxAttempts claims of it were written, by
\* retry or by recovery, from whatever stale copy of the attempt count.
NoEarlyDeadLetter == \A j \in Jobs : dead[j] > 0 => claims[j] >= MaxAttempts

\* "dead-letter work after JOB_MAX_ATTEMPTS" (docs/architecture.md): a job is
\* claimed at most so often.  Does not hold with several workers: a recovery
\* between a pop and its lease lets two of them claim with the same attempt.
AttemptCap == \A j \in Jobs : claims[j] <= MaxAttempts

\* An acknowledged job leaves neither an envelope nor a lease behind.  Does not
\* hold with several workers either.
AckRemovesEnvelope ==
    \A j \in acked : envelopes[j] = NoEnvelope /\ leases[j] = "none"

\* While no lease ran out and nothing failed, one worker processes a job.
HealthyClaimIsExclusive ==
    lapses = 0 /\ faults = 0 =>
        \A v, w \in Workers :
            pc[v] = "work" /\ pc[w] = "work" /\ job[v] = job[w] => v = w

\* Every accepted job is in the end acknowledged or reconciled as dead.
EventuallyFinished == \A j \in Jobs : j \in known ~> Finished(j)

-----------------------------------------------------------------------------
(* The refinement: where the abstract queue keeps a job.                    *)
Place == [j \in Jobs |->
    IF Queued(j) THEN "ready" ELSE
    IF inflight[j] > 0 THEN "inflight" ELSE
    IF scheduled[j] # "none" THEN "scheduled" ELSE
    IF dead[j] > 0 THEN "dead" ELSE
    IF j \in known THEN "done" ELSE "absent"]

Reliable == INSTANCE ReliableQueue WITH place <- Place, handed <- claims

\* The queue keeps the promise of ReliableQueue, whatever its workers do.
KeepsPromise == Reliable!Spec
=============================================================================

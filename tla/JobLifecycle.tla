---------------------------- MODULE JobLifecycle ----------------------------
(* One tenant's research jobs from submission to release: the handlers of   *)
(* src/api/server.py on several API replicas, ResearchProcessor of          *)
(* src/worker.py on several workers, the status and result stores, and the  *)
(* tenant's slot counter.  Every store, counter or queue call is an action; *)
(* between two of them any other process may act.  The queue is used through*)
(* what ReliableQueue promises: one call, one move of the job.              *)
(*                                                                          *)
(* A handler that fetched a status record writes the whole record back, so  *)
(* a worker carries the report field it read (copy).                        *)
(*                                                                          *)
(* A definition with a longer name just before another (ExhaustedEarly,     *)
(* Exhausted) is a faulty version of it, for showing that a property notices*)
(* the fault.                                                               *)
EXTENDS Integers, FiniteSets

CONSTANTS Jobs, Replicas, Workers, NoJob,
          MaxAttempts,         \* settings.job_max_attempts
          MaxSlots,            \* settings.max_concurrent_jobs_per_tenant
          RequireApproval,     \* settings.require_report_approval
          MaxReplicaCrashes, MaxReplicaErrors,  \* bounds on failures
          MaxWorkerCrashes, MaxWorkerErrors,
          MaxLapses            \* bound on leases lost by a live worker

ASSUME LifecycleConstants ==
    /\ NoJob \notin Jobs
    /\ MaxAttempts \in Nat \ {0} /\ MaxSlots \in Nat \ {0}
    /\ RequireApproval \in BOOLEAN
    /\ MaxReplicaCrashes \in Nat /\ MaxReplicaErrors \in Nat
    /\ MaxWorkerCrashes \in Nat /\ MaxWorkerErrors \in Nat
    /\ MaxLapses \in Nat
ASSUME FinitenessAssumption == IsFiniteSet(Jobs) /\ IsFiniteSet(Replicas)

VARIABLES
    status, report,      \* the status record: its status, and has it a report
    result,              \* the result store holds a state for the job
    slots, ttl,          \* governance:slots of the tenant, and its time to live
    place, attempt,      \* the queue: where the job is, attempt in its envelope
    rpc, rjob,           \* API replicas: next call of the handler, its job
    wpc, wjob, watt, copy,            \* workers: next call, job, attempt, report
    handed, accepted, approved, rejected,  \* history: deliveries, 202 answers,
                                           \* approvals and rejections saved
    budget,              \* failures still allowed
    disturbed            \* history: something the slot counter does not survive

tenant  == <<slots, ttl>>
store   == <<status, report, result, tenant>>
queue   == <<place, attempt, handed>>
replica == <<rpc, rjob>>
worker  == <<wpc, wjob, watt, copy>>
answers == <<accepted, approved, rejected>>
failures == <<budget, disturbed>>
vars    == <<store, queue, replica, worker, answers, failures>>

Unsettled == {"pending", "running", "retrying"}
Settled == {"completed", "awaiting_approval", "approved", "rejected", "failed"}
Statuses == {"absent"} \cup Unsettled \cup Settled
Handler == {"idle", "acquire", "create", "enqueue", "audit", "release", "raced",
            "undo", "approve", "reject"}
Processing == {"load", "mark", "run", "fail", "failset", "store", "finish",
               "free", "ack", "retry"}
Reconciling == {"rset", "rfree", "remove"}
Failures == {"replica crash", "replica error", "worker crash", "worker error", "lapse"}

Init ==
    /\ status = [j \in Jobs |-> "absent"]
    /\ report = [j \in Jobs |-> FALSE] /\ result = [j \in Jobs |-> FALSE]
    /\ slots = 0 /\ ttl = "none" /\ disturbed = FALSE
    /\ place = [j \in Jobs |-> "absent"] /\ attempt = [j \in Jobs |-> 0]
    /\ rpc = [r \in Replicas |-> "idle"] /\ rjob = [r \in Replicas |-> NoJob]
    /\ wpc = [w \in Workers |-> "idle"] /\ wjob = [w \in Workers |-> NoJob]
    /\ watt = [w \in Workers |-> 0] /\ copy = [w \in Workers |-> FALSE]
    /\ handed = [j \in Jobs |-> 0]
    /\ accepted = {} /\ approved = {} /\ rejected = {}
    /\ budget = [f \in Failures |->
            CASE f = "replica crash" -> MaxReplicaCrashes
              [] f = "replica error" -> MaxReplicaErrors
              [] f = "worker crash"  -> MaxWorkerCrashes
              [] f = "worker error"  -> MaxWorkerErrors
              [] f = "lapse"         -> MaxLapses]

-----------------------------------------------------------------------------
(* Shared parts.                                                            *)

SlotFree == slots < MaxSlots
AcquireSlot == slots' = slots + 1 /\ ttl' = "young"
\* The last release deletes the key, the others leave its time to live alone.
ReleaseSlot ==
    IF slots <= 1 THEN slots' = 0 /\ ttl' = "none"
                  ELSE slots' = slots - 1 /\ UNCHANGED ttl

\* The handler has a slot that no record accounts for yet.
HoldsSlot(r) == rpc[r] \in {"create", "release", "undo"}

SaveStatus(j, s, rep) ==
    /\ status' = [status EXCEPT ![j] = s]
    /\ report' = [report EXCEPT ![j] = rep]

Continue(r, step) == rpc' = [rpc EXCEPT ![r] = step] /\ UNCHANGED rjob
Answer(r) ==
    /\ rpc' = [rpc EXCEPT ![r] = "idle"]
    /\ rjob' = [rjob EXCEPT ![r] = NoJob]
Proceed(w, step) == wpc' = [wpc EXCEPT ![w] = step] /\ UNCHANGED <<wjob, watt, copy>>
Rest(w) ==
    /\ wpc'  = [wpc EXCEPT ![w] = "idle"]
    /\ wjob' = [wjob EXCEPT ![w] = NoJob]
    /\ watt' = [watt EXCEPT ![w] = 0]
    /\ copy' = [copy EXCEPT ![w] = FALSE]
Spend(f) == budget[f] > 0 /\ budget' = [budget EXCEPT ![f] = @ - 1]
Disturb(bad) == disturbed' = (disturbed \/ bad)

-----------------------------------------------------------------------------
(* submit_research.  A job stands for its Idempotency-Key: two requests for *)
(* one job are a retry, or a race of two replicas.                          *)

Begin(r, j, step) ==
    /\ rpc[r] = "idle"
    /\ rpc' = [rpc EXCEPT ![r] = step]
    /\ rjob' = [rjob EXCEPT ![r] = j]
    /\ UNCHANGED <<store, queue, worker, answers, failures>>

Submit(r, j) == status[j] = "absent" /\ Begin(r, j, "acquire")

\* The record exists: it is returned as it is.
SubmitAgain(r, j) ==
    /\ rpc[r] = "idle" /\ status[j] # "absent"
    /\ accepted' = accepted \cup {j}
    /\ UNCHANGED <<store, queue, replica, worker, approved, rejected, failures>>

AcquireRefreshing(r) ==
    /\ rpc[r] = "acquire"
    /\ IF SlotFree
       THEN AcquireSlot /\ Continue(r, "create")
       ELSE ttl' = "young" /\ UNCHANGED slots /\ Answer(r)
    /\ UNCHANGED <<status, report, result, queue, worker, answers, failures>>
Acquire(r) ==
    /\ rpc[r] = "acquire"
    /\ IF SlotFree
       THEN AcquireSlot /\ Continue(r, "create")
       ELSE UNCHANGED tenant /\ Answer(r)   \* 429
    /\ UNCHANGED <<status, report, result, queue, worker, answers, failures>>

\* set_if_absent.
Create(r) ==
    /\ rpc[r] = "create"
    /\ IF status[rjob[r]] = "absent"
       THEN SaveStatus(rjob[r], "pending", FALSE) /\ Continue(r, "enqueue")
       ELSE UNCHANGED <<status, report>> /\ Continue(r, "release")
    /\ UNCHANGED <<result, tenant, queue, worker, answers, failures>>

\* The loser of a race gives its slot back and returns the winner's record.
GiveBackForgetting(r) ==
    /\ rpc[r] = "release"
    /\ Continue(r, "raced")
    /\ UNCHANGED <<store, queue, worker, answers, failures>>
GiveBack(r) ==
    /\ rpc[r] = "release"
    /\ ReleaseSlot
    /\ Continue(r, "raced")
    /\ UNCHANGED <<status, report, result, queue, worker, answers, failures>>

Accept(r) ==
    /\ Answer(r)
    /\ accepted' = accepted \cup {rjob[r]}
    /\ UNCHANGED <<store, queue, worker, approved, rejected, failures>>

ReturnRaced(r) == rpc[r] = "raced" /\ Accept(r)

Enqueue(r) ==
    /\ rpc[r] = "enqueue"
    /\ place' = [place EXCEPT ![rjob[r]] = "ready"]
    /\ Continue(r, "audit")
    /\ UNCHANGED <<store, attempt, handed, worker, answers, failures>>

AuditSubmit(r) == rpc[r] = "audit" /\ Accept(r)

\* The handler's except clause: release the slot and raise.
Undo(r) ==
    /\ rpc[r] = "undo"
    /\ ReleaseSlot
    /\ Answer(r)
    /\ UNCHANGED <<status, report, result, queue, worker, answers, failures>>

-----------------------------------------------------------------------------
(* approve_research and reject_research.                                    *)

Decide(r, j) ==
    /\ status[j] = "awaiting_approval"
    /\ Begin(r, j, "approve") \/ Begin(r, j, "reject")

Approve(r) ==
    /\ rpc[r] = "approve"
    /\ IF result[rjob[r]]
       THEN SaveStatus(rjob[r], "approved", TRUE) /\ approved' = approved \cup {rjob[r]}
       ELSE UNCHANGED <<status, report, approved>>   \* 409
    /\ Answer(r)
    /\ UNCHANGED <<result, tenant, queue, worker, accepted, rejected, failures>>

Reject(r) ==
    /\ rpc[r] = "reject"
    /\ SaveStatus(rjob[r], "rejected", FALSE)
    /\ rejected' = rejected \cup {rjob[r]}
    /\ Answer(r)
    /\ UNCHANGED <<result, tenant, queue, worker, accepted, approved, failures>>

-----------------------------------------------------------------------------
(* ResearchProcessor.__call__ under Worker.run_once.                        *)

ExhaustedEarly(a) == a + 1 >= MaxAttempts
Exhausted(a) == a >= MaxAttempts

Claim(w, j) ==
    /\ wpc[w] = "idle" /\ place[j] = "ready"
    /\ place' = [place EXCEPT ![j] = "inflight"]
    /\ attempt' = [attempt EXCEPT ![j] = @ + 1]
    /\ handed' = [handed EXCEPT ![j] = @ + 1]
    /\ wpc' = [wpc EXCEPT ![w] = "load"]
    /\ wjob' = [wjob EXCEPT ![w] = j]
    /\ watt' = [watt EXCEPT ![w] = attempt[j] + 1]
    /\ UNCHANGED <<copy, store, replica, answers, failures>>

Load(w) ==
    /\ wpc[w] = "load"
    /\ copy' = [copy EXCEPT ![w] = report[wjob[w]]]
    /\ wpc' = [wpc EXCEPT ![w] = "mark"]
    /\ UNCHANGED <<wjob, watt, store, queue, replica, answers, failures>>

\* The record becomes "running", whatever it was when it was read.
Mark(w) ==
    /\ wpc[w] = "mark"
    /\ SaveStatus(wjob[w], "running", copy[w])
    /\ Proceed(w, "run")
    /\ UNCHANGED <<result, tenant, queue, replica, answers, failures>>

ResearchUnstored(w) ==
    /\ wpc[w] = "run"
    /\ Proceed(w, "finish") \/ Proceed(w, "fail")
    /\ UNCHANGED <<store, queue, replica, answers, failures>>
Research(w) ==
    /\ wpc[w] = "run"
    /\ Proceed(w, "store") \/ Proceed(w, "fail")
    /\ UNCHANGED <<store, queue, replica, answers, failures>>

\* A last attempt releases the slot before the status is written.
FailReleaseAlways(w) ==
    /\ wpc[w] = "fail"
    /\ ReleaseSlot
    /\ Proceed(w, "failset")
    /\ UNCHANGED <<status, report, result, queue, replica, answers, failures>>
FailRelease(w) ==
    /\ wpc[w] = "fail"
    /\ IF Exhausted(watt[w]) THEN ReleaseSlot ELSE UNCHANGED tenant
    /\ Proceed(w, "failset")
    /\ UNCHANGED <<status, report, result, queue, replica, answers, failures>>

FailSetForGood(w) ==
    /\ wpc[w] = "failset"
    /\ SaveStatus(wjob[w], "failed", copy[w])
    /\ Proceed(w, "retry")
    /\ UNCHANGED <<result, tenant, queue, replica, answers, failures>>
FailSet(w) ==
    /\ wpc[w] = "failset"
    /\ SaveStatus(wjob[w], IF Exhausted(watt[w]) THEN "failed" ELSE "retrying", copy[w])
    /\ Proceed(w, "retry")
    /\ UNCHANGED <<result, tenant, queue, replica, answers, failures>>

StoreResult(w) ==
    /\ wpc[w] = "store"
    /\ result' = [result EXCEPT ![wjob[w]] = TRUE]
    /\ Proceed(w, "finish")
    /\ UNCHANGED <<status, report, tenant, queue, replica, answers, failures>>

FinishWithReport(w) ==
    /\ wpc[w] = "finish"
    /\ SaveStatus(wjob[w], IF RequireApproval THEN "awaiting_approval" ELSE "completed", TRUE)
    /\ Proceed(w, "free")
    /\ UNCHANGED <<result, tenant, queue, replica, answers, failures>>
Finish(w) ==
    /\ wpc[w] = "finish"
    /\ SaveStatus(wjob[w], IF RequireApproval THEN "awaiting_approval" ELSE "completed",
                  ~RequireApproval)
    /\ Proceed(w, "free")
    /\ UNCHANGED <<result, tenant, queue, replica, answers, failures>>

Free(w) ==
    /\ wpc[w] = "free"
    /\ ReleaseSlot
    /\ Proceed(w, "ack")
    /\ UNCHANGED <<status, report, result, queue, replica, answers, failures>>

\* JobQueue.ack and JobQueue.retry act only on a job that is in flight, no
\* matter whose claim it is.
Ack(w) ==
    /\ wpc[w] = "ack"
    /\ IF place[wjob[w]] = "inflight"
       THEN place' = [place EXCEPT ![wjob[w]] = "done"]
       ELSE UNCHANGED place
    /\ Rest(w)
    /\ UNCHANGED <<attempt, handed, store, replica, answers, failures>>

Retry(w) ==
    /\ wpc[w] = "retry"
    /\ IF place[wjob[w]] = "inflight"
       THEN /\ place' = [place EXCEPT ![wjob[w]] =
                            IF Exhausted(watt[w]) THEN "dead" ELSE "ready"]
            /\ attempt' = [attempt EXCEPT ![wjob[w]] = watt[w]]
       ELSE UNCHANGED <<place, attempt>>
    /\ Rest(w)
    /\ UNCHANGED <<handed, store, replica, answers, failures>>

-----------------------------------------------------------------------------
(* reconcile_dead_letters, run by every worker before it claims.            *)

LoadDeadToRemove(w, j) ==
    /\ wpc[w] = "idle" /\ place[j] = "dead"
    /\ wjob' = [wjob EXCEPT ![w] = j]
    /\ wpc' = [wpc EXCEPT ![w] = "remove"]
    /\ UNCHANGED <<watt, copy, store, queue, replica, answers, failures>>
\* Two workers may find the same dead letter unsettled; both release its slot.
LoadDead(w, j) ==
    /\ wpc[w] = "idle" /\ place[j] = "dead"
    /\ wjob' = [wjob EXCEPT ![w] = j]
    /\ copy' = [copy EXCEPT ![w] = report[j]]
    /\ wpc' = [wpc EXCEPT ![w] = IF status[j] \in Settled THEN "remove" ELSE "rset"]
    /\ Disturb(\E v \in Workers : wjob[v] = j /\ wpc[v] = "rset")
    /\ UNCHANGED <<watt, store, queue, replica, answers, budget>>

SetDead(w) ==
    /\ wpc[w] = "rset"
    /\ SaveStatus(wjob[w], "failed", copy[w])
    /\ Proceed(w, "rfree")
    /\ UNCHANGED <<result, tenant, queue, replica, answers, failures>>

FreeDead(w) ==
    /\ wpc[w] = "rfree"
    /\ ReleaseSlot
    /\ Proceed(w, "remove")
    /\ UNCHANGED <<status, report, result, queue, replica, answers, failures>>

RemoveDead(w) ==
    /\ wpc[w] = "remove"
    /\ IF place[wjob[w]] = "dead"
       THEN place' = [place EXCEPT ![wjob[w]] = "done"]
       ELSE UNCHANGED place
    /\ Rest(w)
    /\ UNCHANGED <<attempt, handed, store, replica, answers, failures>>

-----------------------------------------------------------------------------
(* Failures.  Disturb notes those after which the slot counter is no longer *)
(* that of the jobs.  A Redis error may come before or after the command    *)
(* took effect; the latter is an error at the next call.                    *)

ReplicaCrash(r) ==
    /\ rpc[r] # "idle" /\ Spend("replica crash")
    /\ Answer(r)
    /\ Disturb(HoldsSlot(r))
    /\ UNCHANGED <<store, queue, worker, answers>>

\* The slot is given back, also when the record or the queue has the job by
\* now, or when it was given back before.
ReplicaError(r) ==
    /\ rpc[r] \in {"create", "enqueue", "audit", "release", "raced"}
    /\ Spend("replica error")
    /\ Continue(r, "undo")
    /\ Disturb(~HoldsSlot(r))
    /\ UNCHANGED <<store, queue, worker, answers>>

\* The slot is taken before the try block: an answer lost here undoes nothing.
AcquireLost(r) ==
    /\ rpc[r] = "acquire" /\ SlotFree /\ Spend("replica error")
    /\ AcquireSlot
    /\ Answer(r)
    /\ Disturb(TRUE)
    /\ UNCHANGED <<status, report, result, queue, worker, answers>>

\* The error may last: it took a replica error to get here.
UndoFails(r) ==
    /\ rpc[r] = "undo"
    /\ Answer(r)
    /\ Disturb(TRUE)
    /\ UNCHANGED <<store, queue, worker, answers, budget>>

\* Between the status that settles a job and its release, and between a release
\* and what keeps the job from coming back, the counter and the job disagree.
InSettling(w) ==
    \/ wpc[w] \in {"free", "ack", "rfree"}
    \/ wpc[w] = "failset" /\ Exhausted(watt[w])

\* Also an error in a reconciling call: run logs it and loops.
WorkerCrash(w) ==
    /\ wpc[w] # "idle" /\ Spend("worker crash")
    /\ Rest(w)
    /\ Disturb(InSettling(w))
    /\ UNCHANGED <<store, queue, replica, answers>>

\* In a store or audit call of the processor: run_once retries the job.  At
\* "run" it is the audit of the claim, at "ack" that of the completion.
WorkerError(w) ==
    /\ wpc[w] \in Processing \ {"retry"} /\ Spend("worker error")
    /\ Proceed(w, "retry")
    /\ Disturb(InSettling(w))
    /\ UNCHANGED <<store, queue, replica, answers>>

\* recover_stale of any worker's next claim.
Recover(j) ==
    /\ place[j] = "inflight"
    /\ place' = [place EXCEPT ![j] = IF Exhausted(attempt[j]) THEN "dead" ELSE "ready"]
    /\ UNCHANGED <<attempt, handed, store, replica, worker, answers>>

Owned(j) == \E w \in Workers : wjob[w] = j /\ wpc[w] \in Processing
RecoverStale(j) == ~Owned(j) /\ Recover(j) /\ UNCHANGED failures
RecoverLapsed(j) == Owned(j) /\ Spend("lapse") /\ Recover(j) /\ Disturb(TRUE)

-----------------------------------------------------------------------------
(* The slot counter's time to live, cache_ttl_seconds after the last        *)
(* acquire, in two halves.  A job may wait or run longer than that.         *)

SlotsAge ==
    /\ ttl = "young"
    /\ ttl' = "old"
    /\ UNCHANGED <<slots, status, report, result, queue, replica, worker, answers, failures>>

SlotsExpire ==
    /\ ttl = "old"
    /\ slots' = 0 /\ ttl' = "none"
    /\ Disturb(slots > 0)
    /\ UNCHANGED <<status, report, result, queue, replica, worker, answers, budget>>

-----------------------------------------------------------------------------
Handle(r) ==
    \/ Acquire(r) \/ Create(r) \/ GiveBack(r) \/ ReturnRaced(r) \/ Enqueue(r)
    \/ AuditSubmit(r) \/ Undo(r) \/ Approve(r) \/ Reject(r)

Process(w) ==
    \/ \E j \in Jobs : Claim(w, j) \/ LoadDead(w, j)
    \/ Load(w) \/ Mark(w) \/ Research(w) \/ FailRelease(w) \/ FailSet(w)
    \/ StoreResult(w) \/ Finish(w) \/ Free(w) \/ Ack(w) \/ Retry(w)
    \/ SetDead(w) \/ FreeDead(w) \/ RemoveDead(w)

Next ==
    \/ \E r \in Replicas : Handle(r) \/ ReplicaCrash(r) \/ ReplicaError(r)
                          \/ AcquireLost(r) \/ UndoFails(r)
    \/ \E r \in Replicas, j \in Jobs : Submit(r, j) \/ SubmitAgain(r, j) \/ Decide(r, j)
    \/ \E w \in Workers : Process(w) \/ WorkerCrash(w) \/ WorkerError(w)
    \/ \E j \in Jobs : RecoverStale(j) \/ RecoverLapsed(j)
    \/ SlotsAge \/ SlotsExpire

Spec == Init /\ [][Next]_vars

\* Handlers that were begun and workers' loops run on; clients need not act.
FairSpec ==
    /\ Spec
    /\ \A r \in Replicas : WF_vars(Handle(r))
    /\ \A w \in Workers : WF_vars(Process(w))
    /\ \A j \in Jobs : WF_vars(RecoverStale(j))
    /\ WF_vars(SlotsAge) /\ WF_vars(SlotsExpire)

-----------------------------------------------------------------------------
(* Properties.                                                              *)

\* The stores, the queue and the processes' local state have their types.
TypeOK ==
    /\ status \in [Jobs -> Statuses]
    /\ report \in [Jobs -> BOOLEAN] /\ result \in [Jobs -> BOOLEAN]
    /\ slots \in 0..MaxSlots /\ ttl \in {"none", "young", "old"}
    /\ place \in [Jobs -> {"absent", "ready", "inflight", "dead", "done"}]
    /\ attempt \in [Jobs -> Nat] /\ handed \in [Jobs -> Nat]
    /\ rpc \in [Replicas -> Handler] /\ rjob \in [Replicas -> Jobs \cup {NoJob}]
    /\ wpc \in [Workers -> {"idle"} \cup Processing \cup Reconciling]
    /\ wjob \in [Workers -> Jobs \cup {NoJob}]
    /\ watt \in [Workers -> Nat] /\ copy \in [Workers -> BOOLEAN]
    /\ accepted \subseteq Jobs /\ approved \subseteq Jobs /\ rejected \subseteq Jobs
    /\ budget \in [Failures -> Nat] /\ disturbed \in BOOLEAN

\* "Reports remain withheld until an approver releases them": whatever is
\* retried, redelivered or written from a stale copy, a record carries a report
\* only for a job an approver approved.
WithheldUntilApproved ==
    RequireApproval => \A j \in Jobs : report[j] => j \in approved

\* A job that can be approved, or was, has its result stored: the handler's
\* "Job report is unavailable" answers no job that awaits approval.
ApprovableHasResult ==
    \A j \in Jobs : status[j] \in {"awaiting_approval", "approved"} => result[j]

\* When the queue has let go of a job, by ack or by removing its dead letter,
\* its status record says how it ended, also after crashes and store errors.
DoneIsSettled == \A j \in Jobs : place[j] = "done" => status[j] \in Settled

\* The work a tenant has waiting or being researched is within its limit.
BeingResearched(j) ==
    \/ place[j] = "ready"
    \/ \E w \in Workers : wjob[w] = j
            /\ wpc[w] \in {"load", "mark", "run", "fail", "store", "finish", "free"}
TenantLimit ==
    ~disturbed => Cardinality({j \in Jobs : BeingResearched(j)}) <= MaxSlots

\* Whatever crashes or fails outside the calls that Disturb names, the counter
\* is exactly the number of submissions and jobs that owe a release.
OwesSlot(j) ==
    IF status[j] \in Unsettled
    THEN \A w \in Workers : wjob[w] = j /\ wpc[w] = "failset" => ~Exhausted(watt[w])
    ELSE \E w \in Workers : wjob[w] = j /\ wpc[w] \in {"free", "rfree"}
SlotsExact ==
    ~disturbed => slots = Cardinality({r \in Replicas : HoldsSlot(r)})
                        + Cardinality({j \in Jobs : OwesSlot(j)})

\* Slots that failures leaked do not lock the tenant out: again and again there
\* is a slot to be had, also while clients keep being refused.
NeverLockedOut == []<>SlotFree

\* A settled job never becomes unsettled again, unless it was delivered again
\* after it was settled.
NeverReopened ==
    [][~disturbed => \A j \in Jobs : status[j] \in Settled => status'[j] \in Settled]_vars

\* A rejection "keeps the report hidden".
RejectedStaysHidden == \A j \in rejected : ~report[j]

\* What a client was told is accepted is in the end settled.
AcceptedRuns == \A j \in Jobs : j \in accepted ~> status[j] \in Settled

\* The job moves through the queue as ReliableQueue allows.
Reliable == INSTANCE ReliableQueue
UsesPromise == Reliable!Spec
=============================================================================

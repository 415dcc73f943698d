------------------------ MODULE JobLifecycleProofs --------------------------
(* Proofs about JobLifecycle for any number of jobs, replicas and workers,  *)
(* any attempt cap, slot limit and failure budget.                          *)
EXTENDS JobLifecycle, TLAPS

-----------------------------------------------------------------------------
(* Types.  A process inside a handler carries a job.                        *)

CarriesJob ==
    /\ \A r \in Replicas : rpc[r] # "idle" => rjob[r] \in Jobs
    /\ \A w \in Workers : wpc[w] # "idle" => wjob[w] \in Jobs
TypeInv == TypeOK /\ CarriesJob

LEMMA TypeInit == Init => TypeInv
<1> SUFFICES ASSUME Init PROVE TypeInv
  OBVIOUS
<1>1. /\ budget \in [Failures -> Nat] /\ disturbed \in BOOLEAN
      /\ ttl \in {"none", "young", "old"}
  BY LifecycleConstants DEF Init, Failures
<1>2. slots \in 0..MaxSlots
  <2>1. slots = 0
    BY DEF Init
  <2>2. MaxSlots \in Nat
    BY LifecycleConstants
  <2> QED
    BY <2>1, <2>2
<1>3. /\ status \in [Jobs -> Statuses]
      /\ report \in [Jobs -> BOOLEAN] /\ result \in [Jobs -> BOOLEAN]
      /\ place \in [Jobs -> {"absent", "ready", "inflight", "dead", "done"}]
      /\ attempt \in [Jobs -> Nat] /\ handed \in [Jobs -> Nat]
  BY DEF Init, Statuses
<1>4. /\ rpc \in [Replicas -> Handler] /\ rjob \in [Replicas -> Jobs \cup {NoJob}]
      /\ wpc \in [Workers -> {"idle"} \cup Processing \cup Reconciling]
      /\ wjob \in [Workers -> Jobs \cup {NoJob}]
      /\ watt \in [Workers -> Nat] /\ copy \in [Workers -> BOOLEAN]
      /\ accepted \subseteq Jobs /\ approved \subseteq Jobs /\ rejected \subseteq Jobs
  BY DEF Init, Handler
<1>5. TypeOK
  BY <1>1, <1>2, <1>3, <1>4 DEF TypeOK
<1> QED
  BY <1>5 DEF Init, TypeInv, CarriesJob

LEMMA SpendType ==
    ASSUME budget \in [Failures -> Nat], NEW f \in Failures, Spend(f)
    PROVE  budget' \in [Failures -> Nat]
BY DEF Spend

LEMMA TypeStep == TypeInv /\ [Next]_vars => TypeInv'
<1> SUFFICES ASSUME TypeInv, [Next]_vars PROVE TypeInv'
  OBVIOUS
<1> USE LifecycleConstants
    DEF TypeInv, TypeOK, CarriesJob, Statuses, Settled, Unsettled, Handler,
        Processing, Reconciling, store, tenant, queue, replica, worker, answers,
        failures
<1>1. ASSUME NEW r \in Replicas, NEW j \in Jobs, Submit(r, j) PROVE TypeInv'
  <2>1. TypeOK'
    BY <1>1 DEF Submit, Begin
  <2>2. CarriesJob'
    BY <1>1 DEF Submit, Begin
  <2> QED
    BY <2>1, <2>2
<1>2. ASSUME NEW r \in Replicas, NEW j \in Jobs, SubmitAgain(r, j) PROVE TypeInv'
  <2>1. TypeOK'
    BY <1>2 DEF SubmitAgain
  <2>2. CarriesJob'
    BY <1>2 DEF SubmitAgain
  <2> QED
    BY <2>1, <2>2
<1>3. ASSUME NEW r \in Replicas, NEW j \in Jobs, Decide(r, j) PROVE TypeInv'
  <2>1. TypeOK'
    BY <1>3 DEF Decide, Begin
  <2>2. CarriesJob'
    BY <1>3 DEF Decide, Begin
  <2> QED
    BY <2>1, <2>2
<1>4. ASSUME NEW r \in Replicas, Acquire(r) PROVE TypeInv'
  <2>1. TypeOK'
    BY <1>4 DEF Acquire, SlotFree, AcquireSlot, Continue, Answer
  <2>2. CarriesJob'
    BY <1>4 DEF Acquire, SlotFree, AcquireSlot, Continue, Answer
  <2> QED
    BY <2>1, <2>2
<1>5. ASSUME NEW r \in Replicas, Create(r) PROVE TypeInv'
  <2>1. TypeOK'
    BY <1>5 DEF Create, SaveStatus, Continue
  <2>2. CarriesJob'
    BY <1>5 DEF Create, SaveStatus, Continue
  <2> QED
    BY <2>1, <2>2
<1>6. ASSUME NEW r \in Replicas, GiveBack(r) PROVE TypeInv'
  <2>1. TypeOK'
    BY <1>6 DEF GiveBack, ReleaseSlot, Continue
  <2>2. CarriesJob'
    BY <1>6 DEF GiveBack, ReleaseSlot, Continue
  <2> QED
    BY <2>1, <2>2
<1>7. ASSUME NEW r \in Replicas, ReturnRaced(r) PROVE TypeInv'
  <2>1. TypeOK'
    BY <1>7 DEF ReturnRaced, Accept, Answer
  <2>2. CarriesJob'
    BY <1>7 DEF ReturnRaced, Accept, Answer
  <2> QED
    BY <2>1, <2>2
<1>8. ASSUME NEW r \in Replicas, Enqueue(r) PROVE TypeInv'
  <2>1. TypeOK'
    BY <1>8 DEF Enqueue, Continue
  <2>2. CarriesJob'
    BY <1>8 DEF Enqueue, Continue
  <2> QED
    BY <2>1, <2>2
<1>9. ASSUME NEW r \in Replicas, AuditSubmit(r) PROVE TypeInv'
  <2>1. TypeOK'
    BY <1>9 DEF AuditSubmit, Accept, Answer
  <2>2. CarriesJob'
    BY <1>9 DEF AuditSubmit, Accept, Answer
  <2> QED
    BY <2>1, <2>2
<1>10. ASSUME NEW r \in Replicas, Undo(r) PROVE TypeInv'
  <2>1. TypeOK'
    BY <1>10 DEF Undo, ReleaseSlot, Answer
  <2>2. CarriesJob'
    BY <1>10 DEF Undo, ReleaseSlot, Answer
  <2> QED
    BY <2>1, <2>2
<1>11. ASSUME NEW r \in Replicas, Approve(r) PROVE TypeInv'
  <2>a. /\ status' \in [Jobs -> Statuses] /\ report' \in [Jobs -> BOOLEAN]
        /\ approved' \subseteq Jobs
    <3>1. CASE result[rjob[r]]
      <4>1. rjob[r] \in Jobs
        BY <1>11 DEF Approve
      <4>2. /\ SaveStatus(rjob[r], "approved", TRUE)
            /\ approved' = approved \cup {rjob[r]}
        BY <1>11, <3>1 DEF Approve
      <4> QED
        BY <4>1, <4>2 DEF SaveStatus
    <3>2. CASE ~result[rjob[r]]
      BY <1>11, <3>2 DEF Approve
    <3> QED
      BY <3>1, <3>2
  <2>1. TypeOK'
    BY <1>11, <2>a DEF Approve, Answer
  <2>2. CarriesJob'
    BY <1>11 DEF Approve, SaveStatus, Answer
  <2> QED
    BY <2>1, <2>2
<1>12. ASSUME NEW r \in Replicas, Reject(r) PROVE TypeInv'
  <2>1. TypeOK'
    BY <1>12 DEF Reject, SaveStatus, Answer
  <2>2. CarriesJob'
    BY <1>12 DEF Reject, SaveStatus, Answer
  <2> QED
    BY <2>1, <2>2
<1>13. ASSUME NEW r \in Replicas, ReplicaCrash(r) PROVE TypeInv'
  <2>a. budget' \in [Failures -> Nat] /\ disturbed' \in BOOLEAN
    BY <1>13, SpendType DEF ReplicaCrash, Failures, Disturb
  <2>1. TypeOK'
    BY <1>13, <2>a DEF ReplicaCrash, Answer
  <2>2. CarriesJob'
    BY <1>13 DEF ReplicaCrash, Spend, Answer
  <2> QED
    BY <2>1, <2>2
<1>14. ASSUME NEW r \in Replicas, ReplicaError(r) PROVE TypeInv'
  <2>a. budget' \in [Failures -> Nat] /\ disturbed' \in BOOLEAN
    BY <1>14, SpendType DEF ReplicaError, Failures, Disturb
  <2>1. TypeOK'
    BY <1>14, <2>a DEF ReplicaError, Continue
  <2>2. CarriesJob'
    BY <1>14 DEF ReplicaError, Spend, Continue
  <2> QED
    BY <2>1, <2>2
<1>15. ASSUME NEW w \in Workers, NEW j \in Jobs, Claim(w, j) PROVE TypeInv'
  <2>1. TypeOK'
    BY <1>15 DEF Claim
  <2>2. CarriesJob'
    BY <1>15 DEF Claim
  <2> QED
    BY <2>1, <2>2
<1>16. ASSUME NEW w \in Workers, NEW j \in Jobs, LoadDead(w, j) PROVE TypeInv'
  <2>1. TypeOK'
    BY <1>16 DEF LoadDead, Disturb
  <2>2. CarriesJob'
    BY <1>16 DEF LoadDead
  <2> QED
    BY <2>1, <2>2
<1>17. ASSUME NEW w \in Workers, Load(w) PROVE TypeInv'
  <2>1. TypeOK'
    BY <1>17 DEF Load
  <2>2. CarriesJob'
    BY <1>17 DEF Load
  <2> QED
    BY <2>1, <2>2
<1>18. ASSUME NEW w \in Workers, Mark(w) PROVE TypeInv'
  <2>1. TypeOK'
    BY <1>18 DEF Mark, SaveStatus, Proceed
  <2>2. CarriesJob'
    BY <1>18 DEF Mark, SaveStatus, Proceed
  <2> QED
    BY <2>1, <2>2
<1>19. ASSUME NEW w \in Workers, Research(w) PROVE TypeInv'
  <2>1. TypeOK'
    BY <1>19 DEF Research, Proceed
  <2>2. CarriesJob'
    BY <1>19 DEF Research, Proceed
  <2> QED
    BY <2>1, <2>2
<1>20. ASSUME NEW w \in Workers, FailRelease(w) PROVE TypeInv'
  <2>1. TypeOK'
    BY <1>20 DEF FailRelease, ReleaseSlot, Proceed
  <2>2. CarriesJob'
    BY <1>20 DEF FailRelease, ReleaseSlot, Proceed
  <2> QED
    BY <2>1, <2>2
<1>21. ASSUME NEW w \in Workers, FailSet(w) PROVE TypeInv'
  <2>1. TypeOK'
    BY <1>21 DEF FailSet, SaveStatus, Proceed
  <2>2. CarriesJob'
    BY <1>21 DEF FailSet, SaveStatus, Proceed
  <2> QED
    BY <2>1, <2>2
<1>22. ASSUME NEW w \in Workers, StoreResult(w) PROVE TypeInv'
  <2>1. TypeOK'
    BY <1>22 DEF StoreResult, Proceed
  <2>2. CarriesJob'
    BY <1>22 DEF StoreResult, Proceed
  <2> QED
    BY <2>1, <2>2
<1>23. ASSUME NEW w \in Workers, Finish(w) PROVE TypeInv'
  <2>1. TypeOK'
    BY <1>23 DEF Finish, SaveStatus, Proceed
  <2>2. CarriesJob'
    BY <1>23 DEF Finish, SaveStatus, Proceed
  <2> QED
    BY <2>1, <2>2
<1>24. ASSUME NEW w \in Workers, Free(w) PROVE TypeInv'
  <2>1. TypeOK'
    BY <1>24 DEF Free, ReleaseSlot, Proceed
  <2>2. CarriesJob'
    BY <1>24 DEF Free, ReleaseSlot, Proceed
  <2> QED
    BY <2>1, <2>2
<1>25. ASSUME NEW w \in Workers, Ack(w) PROVE TypeInv'
  <2>1. TypeOK'
    BY <1>25 DEF Ack, Rest
  <2>2. CarriesJob'
    BY <1>25 DEF Ack, Rest
  <2> QED
    BY <2>1, <2>2
<1>26. ASSUME NEW w \in Workers, Retry(w) PROVE TypeInv'
  <2>1. TypeOK'
    BY <1>26 DEF Retry, Rest
  <2>2. CarriesJob'
    BY <1>26 DEF Retry, Rest
  <2> QED
    BY <2>1, <2>2
<1>27. ASSUME NEW w \in Workers, SetDead(w) PROVE TypeInv'
  <2>1. TypeOK'
    BY <1>27 DEF SetDead, SaveStatus, Proceed
  <2>2. CarriesJob'
    BY <1>27 DEF SetDead, SaveStatus, Proceed
  <2> QED
    BY <2>1, <2>2
<1>28. ASSUME NEW w \in Workers, FreeDead(w) PROVE TypeInv'
  <2>1. TypeOK'
    BY <1>28 DEF FreeDead, ReleaseSlot, Proceed
  <2>2. CarriesJob'
    BY <1>28 DEF FreeDead, ReleaseSlot, Proceed
  <2> QED
    BY <2>1, <2>2
<1>29. ASSUME NEW w \in Workers, RemoveDead(w) PROVE TypeInv'
  <2>1. TypeOK'
    BY <1>29 DEF RemoveDead, Rest
  <2>2. CarriesJob'
    BY <1>29 DEF RemoveDead, Rest
  <2> QED
    BY <2>1, <2>2
<1>30. ASSUME NEW w \in Workers, WorkerCrash(w) PROVE TypeInv'
  <2>a. budget' \in [Failures -> Nat] /\ disturbed' \in BOOLEAN
    BY <1>30, SpendType DEF WorkerCrash, Failures, Disturb
  <2>1. TypeOK'
    BY <1>30, <2>a DEF WorkerCrash, Rest
  <2>2. CarriesJob'
    BY <1>30 DEF WorkerCrash, Spend, Rest
  <2> QED
    BY <2>1, <2>2
<1>31. ASSUME NEW w \in Workers, WorkerError(w) PROVE TypeInv'
  <2>a. budget' \in [Failures -> Nat] /\ disturbed' \in BOOLEAN
    BY <1>31, SpendType DEF WorkerError, Failures, Disturb
  <2>1. TypeOK'
    BY <1>31, <2>a DEF WorkerError, Proceed
  <2>2. CarriesJob'
    BY <1>31 DEF WorkerError, Spend, Proceed
  <2> QED
    BY <2>1, <2>2
<1>32. ASSUME NEW j \in Jobs, RecoverStale(j) PROVE TypeInv'
  <2>1. TypeOK'
    BY <1>32 DEF RecoverStale, Recover
  <2>2. CarriesJob'
    BY <1>32 DEF RecoverStale, Recover
  <2> QED
    BY <2>1, <2>2
<1>33. ASSUME NEW j \in Jobs, RecoverLapsed(j) PROVE TypeInv'
  <2>a. budget' \in [Failures -> Nat] /\ disturbed' \in BOOLEAN
    BY <1>33, SpendType DEF RecoverLapsed, Failures, Disturb
  <2>1. TypeOK'
    BY <1>33, <2>a DEF RecoverLapsed, Recover
  <2>2. CarriesJob'
    BY <1>33 DEF RecoverLapsed, Recover, Spend
  <2> QED
    BY <2>1, <2>2
<1>34. ASSUME NEW r \in Replicas, AcquireLost(r) PROVE TypeInv'
  <2>a. budget' \in [Failures -> Nat] /\ disturbed' \in BOOLEAN
    BY <1>34, SpendType DEF AcquireLost, Failures, Disturb
  <2>b. slots < MaxSlots /\ slots' = slots + 1 /\ ttl' = "young"
    BY <1>34 DEF AcquireLost, SlotFree, AcquireSlot
  <2>c. slots' \in 0..MaxSlots
    BY <2>b
  <2>1. TypeOK'
    BY <1>34, <2>a, <2>b, <2>c DEF AcquireLost, Answer
  <2>2. CarriesJob'
    BY <1>34 DEF AcquireLost, Answer
  <2> QED
    BY <2>1, <2>2
<1>35. ASSUME NEW r \in Replicas, UndoFails(r) PROVE TypeInv'
  <2>a. budget' \in [Failures -> Nat] /\ disturbed' \in BOOLEAN
    BY <1>35 DEF UndoFails, Failures, Disturb
  <2>1. TypeOK'
    BY <1>35, <2>a DEF UndoFails, Answer
  <2>2. CarriesJob'
    BY <1>35 DEF UndoFails, Answer
  <2> QED
    BY <2>1, <2>2
<1>36. ASSUME SlotsAge \/ SlotsExpire PROVE TypeInv'
  <2>a. disturbed' \in BOOLEAN
    BY <1>36 DEF SlotsAge, SlotsExpire, Disturb
  <2>b. slots' \in {slots, 0} /\ ttl' \in {"old", "none"}
    BY <1>36 DEF SlotsAge, SlotsExpire
  <2>c. slots' \in 0..MaxSlots
    BY <2>b
  <2>1. TypeOK'
    BY <1>36, <2>a, <2>b, <2>c DEF SlotsAge, SlotsExpire
  <2>2. CarriesJob'
    BY <1>36 DEF SlotsAge, SlotsExpire
  <2> QED
    BY <2>1, <2>2
<1>37. CASE UNCHANGED vars
  BY <1>37 DEF vars
<1> QED
  BY <1>1, <1>2, <1>3, <1>4, <1>5, <1>6, <1>7, <1>8, <1>9, <1>10, <1>11,
     <1>12, <1>13, <1>14, <1>15, <1>16, <1>17, <1>18, <1>19, <1>20, <1>21,
     <1>22, <1>23, <1>24, <1>25, <1>26, <1>27, <1>28, <1>29, <1>30, <1>31,
     <1>32, <1>33, <1>34, <1>35, <1>36, <1>37
  DEF Next, Handle, Process
-----------------------------------------------------------------------------
(* Withheld reports and stored results.  A worker writes back the report it *)
(* read, so the copies must be covered too; and the result is stored one    *)
(* call before the status that makes the job approvable.                    *)

CopiesWithheld == \A w \in Workers :
    copy[w] => wpc[w] # "idle" /\ (RequireApproval => wjob[w] \in approved)
ResultFirst ==
    /\ ApprovableHasResult
    /\ \A w \in Workers : wpc[w] = "finish" => result[wjob[w]]
ReportInv == TypeInv /\ WithheldUntilApproved /\ CopiesWithheld /\ ResultFirst

LEMMA ReportStep == ReportInv /\ [Next]_vars => ReportInv'
<1> SUFFICES ASSUME ReportInv, [Next]_vars
             PROVE  WithheldUntilApproved' /\ CopiesWithheld' /\ ResultFirst'
  BY TypeStep DEF ReportInv
<1> USE DEF ReportInv, TypeInv, TypeOK, CarriesJob, WithheldUntilApproved,
            CopiesWithheld, ResultFirst, ApprovableHasResult,
            store, tenant, queue, replica, worker, answers, failures
<1>1. ASSUME NEW r \in Replicas, NEW j \in Jobs,
            Submit(r, j) \/ SubmitAgain(r, j) \/ Decide(r, j)
      PROVE  WithheldUntilApproved' /\ CopiesWithheld' /\ ResultFirst'
  <2>1. WithheldUntilApproved'
    BY <1>1 DEF Submit, SubmitAgain, Decide, Begin
  <2>2. CopiesWithheld'
    BY <1>1 DEF Submit, SubmitAgain, Decide, Begin
  <2>3. ResultFirst'
    BY <1>1 DEF Submit, SubmitAgain, Decide, Begin
  <2> QED
    BY <2>1, <2>2, <2>3
<1>2. ASSUME NEW r \in Replicas,
            \/ Acquire(r) \/ GiveBack(r) \/ ReturnRaced(r) \/ Enqueue(r)
            \/ AuditSubmit(r) \/ Undo(r) \/ ReplicaCrash(r) \/ ReplicaError(r)
            \/ AcquireLost(r) \/ UndoFails(r)
      PROVE  WithheldUntilApproved' /\ CopiesWithheld' /\ ResultFirst'
  <2>1. WithheldUntilApproved'
    BY <1>2 DEF Acquire, GiveBack, ReturnRaced, Enqueue, AuditSubmit, Undo, Accept,
         ReplicaCrash, ReplicaError, AcquireLost, UndoFails
  <2>2. CopiesWithheld'
    BY <1>2 DEF Acquire, GiveBack, ReturnRaced, Enqueue, AuditSubmit, Undo, Accept,
         ReplicaCrash, ReplicaError, AcquireLost, UndoFails
  <2>3. ResultFirst'
    BY <1>2 DEF Acquire, GiveBack, ReturnRaced, Enqueue, AuditSubmit, Undo, Accept,
         ReplicaCrash, ReplicaError, AcquireLost, UndoFails
  <2> QED
    BY <2>1, <2>2, <2>3
<1>3. ASSUME NEW r \in Replicas,
            Create(r)
      PROVE  WithheldUntilApproved' /\ CopiesWithheld' /\ ResultFirst'
  <2>1. WithheldUntilApproved'
    BY <1>3 DEF Create, SaveStatus
  <2>2. CopiesWithheld'
    BY <1>3 DEF Create, SaveStatus
  <2>3. ResultFirst'
    BY <1>3 DEF Create, SaveStatus
  <2> QED
    BY <2>1, <2>2, <2>3
<1>4. ASSUME NEW r \in Replicas,
            Approve(r)
      PROVE  WithheldUntilApproved' /\ CopiesWithheld' /\ ResultFirst'
  <2>1. WithheldUntilApproved'
    BY <1>4 DEF Approve, SaveStatus
  <2>2. CopiesWithheld'
    BY <1>4 DEF Approve, SaveStatus
  <2>3. ResultFirst'
    BY <1>4 DEF Approve, SaveStatus
  <2> QED
    BY <2>1, <2>2, <2>3
<1>5. ASSUME NEW r \in Replicas,
            Reject(r)
      PROVE  WithheldUntilApproved' /\ CopiesWithheld' /\ ResultFirst'
  <2>1. WithheldUntilApproved'
    BY <1>5 DEF Reject, SaveStatus
  <2>2. CopiesWithheld'
    BY <1>5 DEF Reject, SaveStatus
  <2>3. ResultFirst'
    BY <1>5 DEF Reject, SaveStatus
  <2> QED
    BY <2>1, <2>2, <2>3
<1>6. ASSUME NEW w \in Workers, NEW j \in Jobs,
            Claim(w, j)
      PROVE  WithheldUntilApproved' /\ CopiesWithheld' /\ ResultFirst'
  <2>1. WithheldUntilApproved'
    BY <1>6 DEF Claim
  <2>2. CopiesWithheld'
    BY <1>6 DEF Claim
  <2>3. ResultFirst'
    BY <1>6 DEF Claim
  <2> QED
    BY <2>1, <2>2, <2>3
<1>7. ASSUME NEW w \in Workers, NEW j \in Jobs,
            LoadDead(w, j)
      PROVE  WithheldUntilApproved' /\ CopiesWithheld' /\ ResultFirst'
  <2>1. WithheldUntilApproved'
    BY <1>7 DEF LoadDead
  <2>2. CopiesWithheld'
    BY <1>7 DEF LoadDead
  <2>3. ResultFirst'
    BY <1>7 DEF LoadDead
  <2> QED
    BY <2>1, <2>2, <2>3
<1>8. ASSUME NEW w \in Workers,
            Load(w)
      PROVE  WithheldUntilApproved' /\ CopiesWithheld' /\ ResultFirst'
  <2>1. WithheldUntilApproved'
    BY <1>8 DEF Load
  <2>2. CopiesWithheld'
    BY <1>8 DEF Load
  <2>3. ResultFirst'
    BY <1>8 DEF Load
  <2> QED
    BY <2>1, <2>2, <2>3
<1>9. ASSUME NEW w \in Workers,
            Mark(w)
      PROVE  WithheldUntilApproved' /\ CopiesWithheld' /\ ResultFirst'
  <2>1. WithheldUntilApproved'
    BY <1>9 DEF Mark, SaveStatus, Proceed
  <2>2. CopiesWithheld'
    BY <1>9 DEF Mark, SaveStatus, Proceed
  <2>3. ResultFirst'
    BY <1>9 DEF Mark, SaveStatus, Proceed
  <2> QED
    BY <2>1, <2>2, <2>3
<1>10. ASSUME NEW w \in Workers,
            Research(w)
      PROVE  WithheldUntilApproved' /\ CopiesWithheld' /\ ResultFirst'
  <2>1. WithheldUntilApproved'
    BY <1>10 DEF Research, Proceed
  <2>2. CopiesWithheld'
    BY <1>10 DEF Research, Proceed
  <2>3. ResultFirst'
    BY <1>10 DEF Research, Proceed
  <2> QED
    BY <2>1, <2>2, <2>3
<1>11. ASSUME NEW w \in Workers,
              FailRelease(w) \/ Free(w) \/ FreeDead(w) \/ WorkerError(w)
      PROVE  WithheldUntilApproved' /\ CopiesWithheld' /\ ResultFirst'
  <2>1. /\ UNCHANGED <<status, report, result, wjob, copy, approved>>
        /\ \E step \in {"failset", "ack", "remove", "retry"} :
              wpc' = [wpc EXCEPT ![w] = step]
    BY <1>11 DEF FailRelease, Free, FreeDead, WorkerError, Proceed
  <2> QED
    BY <2>1
<1>12. ASSUME NEW w \in Workers,
            FailSet(w)
      PROVE  WithheldUntilApproved' /\ CopiesWithheld' /\ ResultFirst'
  <2>1. WithheldUntilApproved'
    BY <1>12 DEF FailSet, SaveStatus, Proceed
  <2>2. CopiesWithheld'
    BY <1>12 DEF FailSet, SaveStatus, Proceed
  <2>3. ResultFirst'
    BY <1>12 DEF FailSet, SaveStatus, Proceed
  <2> QED
    BY <2>1, <2>2, <2>3
<1>13. ASSUME NEW w \in Workers,
            SetDead(w)
      PROVE  WithheldUntilApproved' /\ CopiesWithheld' /\ ResultFirst'
  <2>1. WithheldUntilApproved'
    BY <1>13 DEF SetDead, SaveStatus, Proceed
  <2>2. CopiesWithheld'
    BY <1>13 DEF SetDead, SaveStatus, Proceed
  <2>3. ResultFirst'
    BY <1>13 DEF SetDead, SaveStatus, Proceed
  <2> QED
    BY <2>1, <2>2, <2>3
<1>14. ASSUME NEW w \in Workers,
            StoreResult(w)
      PROVE  WithheldUntilApproved' /\ CopiesWithheld' /\ ResultFirst'
  <2>1. WithheldUntilApproved'
    BY <1>14 DEF StoreResult, Proceed
  <2>2. CopiesWithheld'
    BY <1>14 DEF StoreResult, Proceed
  <2>3. ResultFirst'
    BY <1>14 DEF StoreResult, Proceed
  <2> QED
    BY <2>1, <2>2, <2>3
<1>15. ASSUME NEW w \in Workers,
            Finish(w)
      PROVE  WithheldUntilApproved' /\ CopiesWithheld' /\ ResultFirst'
  <2>1. WithheldUntilApproved'
    BY <1>15 DEF Finish, SaveStatus, Proceed
  <2>2. CopiesWithheld'
    BY <1>15 DEF Finish, SaveStatus, Proceed
  <2>3. ResultFirst'
    BY <1>15 DEF Finish, SaveStatus, Proceed
  <2> QED
    BY <2>1, <2>2, <2>3
<1>16. ASSUME NEW w \in Workers,
              Ack(w) \/ Retry(w) \/ RemoveDead(w) \/ WorkerCrash(w)
      PROVE  WithheldUntilApproved' /\ CopiesWithheld' /\ ResultFirst'
  <2>1. Rest(w) /\ UNCHANGED <<status, report, result, approved>>
    BY <1>16 DEF Ack, Retry, RemoveDead, WorkerCrash
  <2> QED
    BY <2>1 DEF Rest
<1>17. ASSUME NEW j \in Jobs,
            RecoverStale(j) \/ RecoverLapsed(j)
      PROVE  WithheldUntilApproved' /\ CopiesWithheld' /\ ResultFirst'
  <2>1. WithheldUntilApproved'
    BY <1>17 DEF RecoverStale, RecoverLapsed, Recover
  <2>2. CopiesWithheld'
    BY <1>17 DEF RecoverStale, RecoverLapsed, Recover
  <2>3. ResultFirst'
    BY <1>17 DEF RecoverStale, RecoverLapsed, Recover
  <2> QED
    BY <2>1, <2>2, <2>3
<1>18. ASSUME SlotsAge \/ SlotsExpire
       PROVE  WithheldUntilApproved' /\ CopiesWithheld' /\ ResultFirst'
  BY <1>18 DEF SlotsAge, SlotsExpire
<1>19. CASE UNCHANGED vars
  BY <1>19 DEF vars
<1> QED
  BY <1>1, <1>2, <1>3, <1>4, <1>5, <1>6, <1>7, <1>8, <1>9, <1>10,
     <1>11, <1>12, <1>13, <1>14, <1>15, <1>16, <1>17, <1>18, <1>19
  DEF Next, Handle, Process

LEMMA ReportInit == Init => ReportInv
BY TypeInit DEF Init, ReportInv, WithheldUntilApproved, CopiesWithheld, ResultFirst,
                ApprovableHasResult

\* The stores and the processes keep their types; in particular the slot
\* counter stays between 0 and the tenant's limit.
THEOREM LifecycleTypes == Spec => []TypeOK
<1>1. TypeInv => TypeOK
  BY DEF TypeInv
<1> QED
  BY TypeInit, TypeStep, <1>1, PTL DEF Spec

\* Whatever is retried, redelivered, lost or written from a stale copy: no
\* status record shows a report that no approver approved.
THEOREM ReportsAreWithheld == Spec => []WithheldUntilApproved
<1>1. ReportInv => WithheldUntilApproved
  BY DEF ReportInv
<1> QED
  BY ReportInit, ReportStep, <1>1, PTL DEF Spec

\* A job that awaits approval, or has it, has a stored result.
THEOREM ApprovableJobsHaveResults == Spec => []ApprovableHasResult
<1>1. ReportInv => ApprovableHasResult
  BY DEF ReportInv, ResultFirst
<1> QED
  BY ReportInit, ReportStep, <1>1, PTL DEF Spec
-----------------------------------------------------------------------------
(* The queue.  Only the replica that created a job's record enqueues it, and*)
(* no copy of an attempt exceeds the number of deliveries.                  *)

Unqueued == \A r \in Replicas : rpc[r] = "enqueue" =>
    place[rjob[r]] = "absent" /\ status[rjob[r]] # "absent"
OneEnqueue == \A q, r \in Replicas :
    rpc[q] = "enqueue" /\ rpc[r] = "enqueue" /\ rjob[q] = rjob[r] => q = r
RecordFirst == \A j \in Jobs : status[j] = "absent" => place[j] = "absent"
Delivered ==
    /\ \A j \in Jobs : attempt[j] <= handed[j]
    /\ \A j \in Jobs : place[j] \in {"inflight", "dead"} => handed[j] > 0
    /\ \A w \in Workers :
           IF wpc[w] = "idle" THEN watt[w] = 0
           ELSE watt[w] <= handed[wjob[w]] /\ place[wjob[w]] # "absent"
QueueInv == TypeInv /\ Unqueued /\ OneEnqueue /\ RecordFirst /\ Delivered

LEMMA QueueInit == Init => QueueInv
<1> SUFFICES ASSUME Init PROVE QueueInv
  OBVIOUS
<1>1. Unqueued /\ OneEnqueue /\ RecordFirst
  BY DEF Init, Unqueued, OneEnqueue, RecordFirst
<1>2. Delivered
  <2>1. \A j \in Jobs : attempt[j] = 0 /\ handed[j] = 0 /\ place[j] = "absent"
    BY DEF Init
  <2>2. \A w \in Workers : wpc[w] = "idle" /\ watt[w] = 0
    BY DEF Init
  <2> QED
    BY <2>1, <2>2 DEF Delivered
<1> QED
  BY TypeInit, <1>1, <1>2 DEF QueueInv

LEMMA QueueStep == QueueInv /\ [Next]_vars => QueueInv'
<1> SUFFICES ASSUME QueueInv, [Next]_vars PROVE QueueInv'
  OBVIOUS
<1>0. TypeInv'
  BY TypeStep DEF QueueInv
<1> SUFFICES Unqueued' /\ OneEnqueue' /\ RecordFirst' /\ Delivered'
  BY <1>0 DEF QueueInv
<1> USE DEF QueueInv, TypeInv, TypeOK, CarriesJob, Unqueued, OneEnqueue,
        RecordFirst, Delivered,
        store, tenant, queue, replica, worker, answers, failures, Continue,
        Answer, Statuses, Settled, Processing
<1>1. ASSUME NEW r \in Replicas, NEW j \in Jobs, Submit(r, j) \/ SubmitAgain(r,
             j) \/ Decide(r, j)
      PROVE  Unqueued' /\ OneEnqueue' /\ RecordFirst' /\ Delivered'
  <2>1. Unqueued'
    BY <1>1 DEF Submit, SubmitAgain, Decide, Begin
  <2>2. OneEnqueue'
    BY <1>1 DEF Submit, SubmitAgain, Decide, Begin
  <2>3. RecordFirst'
    BY <1>1 DEF Submit, SubmitAgain, Decide, Begin
  <2>4. Delivered'
    BY <1>1 DEF Submit, SubmitAgain, Decide, Begin
  <2> QED
    BY <2>1, <2>2, <2>3, <2>4
<1>2. ASSUME NEW r \in Replicas, Acquire(r) \/ GiveBack(r) \/ ReturnRaced(r) \/
             AuditSubmit(r) \/ Undo(r)
      PROVE  Unqueued' /\ OneEnqueue' /\ RecordFirst' /\ Delivered'
  <2>1. Unqueued'
    BY <1>2 DEF Acquire, GiveBack, ReturnRaced, AuditSubmit, Undo, Accept
  <2>2. OneEnqueue'
    BY <1>2 DEF Acquire, GiveBack, ReturnRaced, AuditSubmit, Undo, Accept
  <2>3. RecordFirst'
    BY <1>2 DEF Acquire, GiveBack, ReturnRaced, AuditSubmit, Undo, Accept
  <2>4. Delivered'
    BY <1>2 DEF Acquire, GiveBack, ReturnRaced, AuditSubmit, Undo, Accept
  <2> QED
    BY <2>1, <2>2, <2>3, <2>4
<1>3. ASSUME NEW r \in Replicas, ReplicaCrash(r)
      PROVE  Unqueued' /\ OneEnqueue' /\ RecordFirst' /\ Delivered'
  <2>1. Unqueued'
    BY <1>3 DEF ReplicaCrash, Spend
  <2>2. OneEnqueue'
    BY <1>3 DEF ReplicaCrash, Spend
  <2>3. RecordFirst'
    BY <1>3 DEF ReplicaCrash, Spend
  <2>4. Delivered'
    BY <1>3 DEF ReplicaCrash, Spend
  <2> QED
    BY <2>1, <2>2, <2>3, <2>4
<1>4. ASSUME NEW r \in Replicas, ReplicaError(r)
      PROVE  Unqueued' /\ OneEnqueue' /\ RecordFirst' /\ Delivered'
  <2>1. Unqueued'
    BY <1>4 DEF ReplicaError, Spend
  <2>2. OneEnqueue'
    BY <1>4 DEF ReplicaError, Spend
  <2>3. RecordFirst'
    BY <1>4 DEF ReplicaError, Spend
  <2>4. Delivered'
    BY <1>4 DEF ReplicaError, Spend
  <2> QED
    BY <2>1, <2>2, <2>3, <2>4
<1>5. ASSUME NEW r \in Replicas, AcquireLost(r)
      PROVE  Unqueued' /\ OneEnqueue' /\ RecordFirst' /\ Delivered'
  <2>1. Unqueued'
    BY <1>5 DEF AcquireLost, Spend
  <2>2. OneEnqueue'
    BY <1>5 DEF AcquireLost, Spend
  <2>3. RecordFirst'
    BY <1>5 DEF AcquireLost, Spend
  <2>4. Delivered'
    BY <1>5 DEF AcquireLost, Spend
  <2> QED
    BY <2>1, <2>2, <2>3, <2>4
<1>6. ASSUME NEW r \in Replicas, UndoFails(r)
      PROVE  Unqueued' /\ OneEnqueue' /\ RecordFirst' /\ Delivered'
  <2>1. Unqueued'
    BY <1>6 DEF UndoFails
  <2>2. OneEnqueue'
    BY <1>6 DEF UndoFails
  <2>3. RecordFirst'
    BY <1>6 DEF UndoFails
  <2>4. Delivered'
    BY <1>6 DEF UndoFails
  <2> QED
    BY <2>1, <2>2, <2>3, <2>4
<1>7. ASSUME NEW r \in Replicas, Create(r)
      PROVE  Unqueued' /\ OneEnqueue' /\ RecordFirst' /\ Delivered'
  <2>1. Unqueued'
    BY <1>7 DEF Create, SaveStatus
  <2>2. OneEnqueue'
    BY <1>7 DEF Create, SaveStatus
  <2>3. RecordFirst'
    BY <1>7 DEF Create, SaveStatus
  <2>4. Delivered'
    BY <1>7 DEF Create, SaveStatus
  <2> QED
    BY <2>1, <2>2, <2>3, <2>4
<1>8. ASSUME NEW r \in Replicas, Enqueue(r)
      PROVE  Unqueued' /\ OneEnqueue' /\ RecordFirst' /\ Delivered'
  <2>1. Unqueued'
    BY <1>8 DEF Enqueue
  <2>2. OneEnqueue'
    BY <1>8 DEF Enqueue
  <2>3. RecordFirst'
    BY <1>8 DEF Enqueue
  <2>4. Delivered'
    BY <1>8 DEF Enqueue
  <2> QED
    BY <2>1, <2>2, <2>3, <2>4
<1>9. ASSUME NEW r \in Replicas, Approve(r) \/ Reject(r)
      PROVE  Unqueued' /\ OneEnqueue' /\ RecordFirst' /\ Delivered'
  <2>1. Unqueued'
    BY <1>9 DEF Approve, Reject, SaveStatus
  <2>2. OneEnqueue'
    BY <1>9 DEF Approve, Reject, SaveStatus
  <2>3. RecordFirst'
    BY <1>9 DEF Approve, Reject, SaveStatus
  <2>4. Delivered'
    BY <1>9 DEF Approve, Reject, SaveStatus
  <2> QED
    BY <2>1, <2>2, <2>3, <2>4
<1>10. ASSUME NEW w \in Workers, NEW j \in Jobs, Claim(w, j)
      PROVE  Unqueued' /\ OneEnqueue' /\ RecordFirst' /\ Delivered'
  <2>1. Unqueued'
    BY <1>10 DEF Claim
  <2>2. OneEnqueue'
    BY <1>10 DEF Claim
  <2>3. RecordFirst'
    BY <1>10 DEF Claim
  <2>4. Delivered'
    BY <1>10 DEF Claim
  <2> QED
    BY <2>1, <2>2, <2>3, <2>4
<1>11. ASSUME NEW w \in Workers, NEW j \in Jobs, LoadDead(w, j)
      PROVE  Unqueued' /\ OneEnqueue' /\ RecordFirst' /\ Delivered'
  <2>1. Unqueued'
    BY <1>11 DEF LoadDead
  <2>2. OneEnqueue'
    BY <1>11 DEF LoadDead
  <2>3. RecordFirst'
    BY <1>11 DEF LoadDead
  <2>4. Delivered'
    BY <1>11 DEF LoadDead
  <2> QED
    BY <2>1, <2>2, <2>3, <2>4
<1>12. ASSUME NEW w \in Workers, Load(w) \/ Research(w) \/ FailRelease(w) \/
              StoreResult(w) \/ Free(w) \/ FreeDead(w)
      PROVE  Unqueued' /\ OneEnqueue' /\ RecordFirst' /\ Delivered'
  <2>1. Unqueued'
    BY <1>12 DEF Load, Research, FailRelease, StoreResult, Free, FreeDead, Proceed
  <2>2. OneEnqueue'
    BY <1>12 DEF Load, Research, FailRelease, StoreResult, Free, FreeDead, Proceed
  <2>3. RecordFirst'
    BY <1>12 DEF Load, Research, FailRelease, StoreResult, Free, FreeDead, Proceed
  <2>4. Delivered'
    BY <1>12 DEF Load, Research, FailRelease, StoreResult, Free, FreeDead, Proceed
  <2> QED
    BY <2>1, <2>2, <2>3, <2>4
<1>13. ASSUME NEW w \in Workers, Mark(w) \/ FailSet(w) \/ Finish(w) \/ SetDead(w)
      PROVE  Unqueued' /\ OneEnqueue' /\ RecordFirst' /\ Delivered'
  <2>1. Unqueued'
    BY <1>13 DEF Mark, FailSet, Finish, SetDead, SaveStatus, Proceed
  <2>2. OneEnqueue'
    BY <1>13 DEF Mark, FailSet, Finish, SetDead, SaveStatus, Proceed
  <2>3. RecordFirst'
    BY <1>13 DEF Mark, FailSet, Finish, SetDead, SaveStatus, Proceed
  <2>4. Delivered'
    BY <1>13 DEF Mark, FailSet, Finish, SetDead, SaveStatus, Proceed
  <2> QED
    BY <2>1, <2>2, <2>3, <2>4
<1>14. ASSUME NEW w \in Workers, WorkerError(w)
      PROVE  Unqueued' /\ OneEnqueue' /\ RecordFirst' /\ Delivered'
  <2>1. Unqueued'
    BY <1>14 DEF WorkerError, Proceed, Spend
  <2>2. OneEnqueue'
    BY <1>14 DEF WorkerError, Proceed, Spend
  <2>3. RecordFirst'
    BY <1>14 DEF WorkerError, Proceed, Spend
  <2>4. Delivered'
    BY <1>14 DEF WorkerError, Proceed, Spend
  <2> QED
    BY <2>1, <2>2, <2>3, <2>4
<1>15. ASSUME NEW w \in Workers, WorkerCrash(w)
      PROVE  Unqueued' /\ OneEnqueue' /\ RecordFirst' /\ Delivered'
  <2>1. Unqueued'
    BY <1>15 DEF WorkerCrash, Rest, Spend
  <2>2. OneEnqueue'
    BY <1>15 DEF WorkerCrash, Rest, Spend
  <2>3. RecordFirst'
    BY <1>15 DEF WorkerCrash, Rest, Spend
  <2>4. Delivered'
    BY <1>15 DEF WorkerCrash, Rest, Spend
  <2> QED
    BY <2>1, <2>2, <2>3, <2>4
<1>16. ASSUME NEW w \in Workers, Ack(w)
      PROVE  Unqueued' /\ OneEnqueue' /\ RecordFirst' /\ Delivered'
  <2>1. Unqueued'
    BY <1>16 DEF Ack, Rest
  <2>2. OneEnqueue'
    BY <1>16 DEF Ack, Rest
  <2>3. RecordFirst'
    BY <1>16 DEF Ack, Rest
  <2>4. Delivered'
    BY <1>16 DEF Ack, Rest
  <2> QED
    BY <2>1, <2>2, <2>3, <2>4
<1>17. ASSUME NEW w \in Workers, Retry(w)
      PROVE  Unqueued' /\ OneEnqueue' /\ RecordFirst' /\ Delivered'
  <2>1. Unqueued'
    BY <1>17 DEF Retry, Rest
  <2>2. OneEnqueue'
    BY <1>17 DEF Retry, Rest
  <2>3. RecordFirst'
    BY <1>17 DEF Retry, Rest
  <2>4. Delivered'
    BY <1>17 DEF Retry, Rest
  <2> QED
    BY <2>1, <2>2, <2>3, <2>4
<1>18. ASSUME NEW w \in Workers, RemoveDead(w)
      PROVE  Unqueued' /\ OneEnqueue' /\ RecordFirst' /\ Delivered'
  <2>1. Unqueued'
    BY <1>18 DEF RemoveDead, Rest
  <2>2. OneEnqueue'
    BY <1>18 DEF RemoveDead, Rest
  <2>3. RecordFirst'
    BY <1>18 DEF RemoveDead, Rest
  <2>4. Delivered'
    BY <1>18 DEF RemoveDead, Rest
  <2> QED
    BY <2>1, <2>2, <2>3, <2>4
<1>19. ASSUME NEW j \in Jobs, RecoverStale(j)
      PROVE  Unqueued' /\ OneEnqueue' /\ RecordFirst' /\ Delivered'
  <2>1. Unqueued'
    BY <1>19 DEF RecoverStale, Recover, Owned
  <2>2. OneEnqueue'
    BY <1>19 DEF RecoverStale, Recover, Owned
  <2>3. RecordFirst'
    BY <1>19 DEF RecoverStale, Recover, Owned
  <2>4. Delivered'
    BY <1>19 DEF RecoverStale, Recover, Owned
  <2> QED
    BY <2>1, <2>2, <2>3, <2>4
<1>20. ASSUME NEW j \in Jobs, RecoverLapsed(j)
      PROVE  Unqueued' /\ OneEnqueue' /\ RecordFirst' /\ Delivered'
  <2>1. Unqueued'
    BY <1>20 DEF RecoverLapsed, Recover, Spend
  <2>2. OneEnqueue'
    BY <1>20 DEF RecoverLapsed, Recover, Spend
  <2>3. RecordFirst'
    BY <1>20 DEF RecoverLapsed, Recover, Spend
  <2>4. Delivered'
    BY <1>20 DEF RecoverLapsed, Recover, Spend
  <2> QED
    BY <2>1, <2>2, <2>3, <2>4
<1>21. ASSUME SlotsAge \/ SlotsExpire
      PROVE  Unqueued' /\ OneEnqueue' /\ RecordFirst' /\ Delivered'
  <2>1. Unqueued'
    BY <1>21 DEF SlotsAge, SlotsExpire
  <2>2. OneEnqueue'
    BY <1>21 DEF SlotsAge, SlotsExpire
  <2>3. RecordFirst'
    BY <1>21 DEF SlotsAge, SlotsExpire
  <2>4. Delivered'
    BY <1>21 DEF SlotsAge, SlotsExpire
  <2> QED
    BY <2>1, <2>2, <2>3, <2>4
<1>22. CASE UNCHANGED vars
  BY <1>22 DEF vars
<1> QED
  BY <1>1, <1>2, <1>3, <1>4, <1>5, <1>6, <1>7, <1>8, <1>9, <1>10, <1>11, <1>12,
     <1>13, <1>14, <1>15, <1>16, <1>17, <1>18, <1>19, <1>20, <1>21, <1>22
  DEF Next, Handle, Process

LEMMA PromiseStep == QueueInv /\ [Next]_vars => [Reliable!Next]_(Reliable!vars)
<1> SUFFICES ASSUME QueueInv, [Next]_vars PROVE [Reliable!Next]_(Reliable!vars)
  OBVIOUS
<1> USE LifecycleConstants DEF QueueInv, TypeInv, TypeOK, CarriesJob,
        Processing, queue, Exhausted
<1>1. ASSUME NEW r \in Replicas, Enqueue(r) PROVE Reliable!Next
  <2>1. rjob[r] \in Jobs /\ Reliable!Accept(rjob[r])
    BY <1>1 DEF Enqueue, Unqueued, Reliable!Accept, Reliable!Move
  <2> QED
    BY <2>1 DEF Reliable!Next
<1>2. ASSUME NEW w \in Workers, NEW j \in Jobs, Claim(w, j) PROVE Reliable!Next
  <2>1. Reliable!Claim(j)
    BY <1>2 DEF Claim, Reliable!Claim
  <2> QED
    BY <2>1 DEF Reliable!Next
<1>3. ASSUME NEW w \in Workers, Ack(w) PROVE [Reliable!Next]_(Reliable!vars)
  <2>1. CASE place[wjob[w]] = "inflight"
    <3>1. wjob[w] \in Jobs /\ Reliable!Finish(wjob[w])
      BY <1>3, <2>1 DEF Ack, Delivered, Reliable!Finish, Reliable!Move
    <3> QED
      BY <3>1 DEF Reliable!Next
  <2>2. CASE place[wjob[w]] # "inflight"
    BY <1>3, <2>2 DEF Ack, Reliable!vars
  <2> QED
    BY <2>1, <2>2
<1>4. ASSUME NEW w \in Workers, Retry(w) PROVE [Reliable!Next]_(Reliable!vars)
  <2>1. CASE place[wjob[w]] = "inflight"
    <3>1. wjob[w] \in Jobs /\ UNCHANGED handed
      BY <1>4 DEF Retry
    <3>2. CASE watt[w] >= MaxAttempts
      <4>1. handed[wjob[w]] >= MaxAttempts
        BY <1>4, <3>1, <3>2 DEF Retry, Delivered
      <4>2. Reliable!Bury(wjob[w])
        BY <1>4, <2>1, <3>2, <4>1 DEF Retry, Reliable!Bury, Reliable!Move
      <4> QED
        BY <3>1, <4>2 DEF Reliable!Next
    <3>3. CASE ~(watt[w] >= MaxAttempts)
      <4>1. Reliable!GiveBack(wjob[w])
        BY <1>4, <2>1, <3>3 DEF Retry, Reliable!GiveBack, Reliable!Move
      <4> QED
        BY <3>1, <4>1 DEF Reliable!Next
    <3> QED
      BY <3>2, <3>3
  <2>2. CASE place[wjob[w]] # "inflight"
    BY <1>4, <2>2 DEF Retry, Reliable!vars
  <2> QED
    BY <2>1, <2>2
<1>5. ASSUME NEW w \in Workers, RemoveDead(w) PROVE [Reliable!Next]_(Reliable!vars)
  <2>1. CASE place[wjob[w]] = "dead"
    <3>1. wjob[w] \in Jobs /\ Reliable!Drain(wjob[w])
      BY <1>5, <2>1 DEF RemoveDead, Reliable!Drain, Reliable!Move
    <3> QED
      BY <3>1 DEF Reliable!Next
  <2>2. CASE place[wjob[w]] # "dead"
    BY <1>5, <2>2 DEF RemoveDead, Reliable!vars
  <2> QED
    BY <2>1, <2>2
<1>6. ASSUME NEW j \in Jobs, RecoverStale(j) \/ RecoverLapsed(j) PROVE Reliable!Next
  <2>1. Recover(j)
    BY <1>6 DEF RecoverStale, RecoverLapsed
  <2>2. CASE attempt[j] >= MaxAttempts
    <3>1. handed[j] >= MaxAttempts
      BY <2>2 DEF Delivered
    <3>2. Reliable!Bury(j)
      BY <2>1, <2>2, <3>1 DEF Recover, Reliable!Bury, Reliable!Move
    <3> QED
      BY <3>2 DEF Reliable!Next
  <2>3. CASE ~(attempt[j] >= MaxAttempts)
    <3>1. Reliable!GiveBack(j)
      BY <2>1, <2>3 DEF Recover, Reliable!GiveBack, Reliable!Move
    <3> QED
      BY <3>1 DEF Reliable!Next
  <2> QED
    BY <2>2, <2>3
<1>7. ASSUME NEW r \in Replicas, NEW j \in Jobs, Submit(r, j) \/ SubmitAgain(r,
             j) \/ Decide(r, j)
      PROVE  UNCHANGED <<place, handed>>
  BY <1>7 DEF Submit, SubmitAgain, Decide, Begin, store, failures
<1>8. ASSUME NEW r \in Replicas, Acquire(r) \/ GiveBack(r) \/ ReturnRaced(r) \/
             AuditSubmit(r) \/ Undo(r)
      PROVE  UNCHANGED <<place, handed>>
  BY <1>8 DEF Acquire, GiveBack, ReturnRaced, AuditSubmit, Undo, Accept, store,
     failures
<1>9. ASSUME NEW r \in Replicas, ReplicaCrash(r)
      PROVE  UNCHANGED <<place, handed>>
  BY <1>9 DEF ReplicaCrash, Spend, store, failures
<1>10. ASSUME NEW r \in Replicas, ReplicaError(r)
      PROVE  UNCHANGED <<place, handed>>
  BY <1>10 DEF ReplicaError, Spend, store, failures
<1>11. ASSUME NEW r \in Replicas, AcquireLost(r)
      PROVE  UNCHANGED <<place, handed>>
  BY <1>11 DEF AcquireLost, Spend, store, failures
<1>12. ASSUME NEW r \in Replicas, UndoFails(r)
      PROVE  UNCHANGED <<place, handed>>
  BY <1>12 DEF UndoFails, store, failures
<1>13. ASSUME NEW r \in Replicas, Create(r)
      PROVE  UNCHANGED <<place, handed>>
  BY <1>13 DEF Create, SaveStatus, store, failures
<1>14. ASSUME NEW r \in Replicas, Approve(r) \/ Reject(r)
      PROVE  UNCHANGED <<place, handed>>
  BY <1>14 DEF Approve, Reject, SaveStatus, store, failures
<1>15. ASSUME NEW w \in Workers, NEW j \in Jobs, LoadDead(w, j)
      PROVE  UNCHANGED <<place, handed>>
  BY <1>15 DEF LoadDead, store, failures
<1>16. ASSUME NEW w \in Workers, Load(w) \/ Research(w) \/ FailRelease(w) \/
              StoreResult(w) \/ Free(w) \/ FreeDead(w)
      PROVE  UNCHANGED <<place, handed>>
  BY <1>16 DEF Load, Research, FailRelease, StoreResult, Free, FreeDead,
     Proceed, store, failures
<1>17. ASSUME NEW w \in Workers, Mark(w) \/ FailSet(w) \/ Finish(w) \/ SetDead(w)
      PROVE  UNCHANGED <<place, handed>>
  BY <1>17 DEF Mark, FailSet, Finish, SetDead, SaveStatus, Proceed, store, failures
<1>18. ASSUME NEW w \in Workers, WorkerError(w)
      PROVE  UNCHANGED <<place, handed>>
  BY <1>18 DEF WorkerError, Proceed, Spend, store, failures
<1>19. ASSUME NEW w \in Workers, WorkerCrash(w)
      PROVE  UNCHANGED <<place, handed>>
  BY <1>19 DEF WorkerCrash, Rest, Spend, store, failures
<1>20. ASSUME SlotsAge \/ SlotsExpire
      PROVE  UNCHANGED <<place, handed>>
  BY <1>20 DEF SlotsAge, SlotsExpire, store, failures
<1>21. CASE UNCHANGED vars
  BY <1>21 DEF vars, Reliable!vars
<1> QED
  BY <1>1, <1>2, <1>3, <1>4, <1>5, <1>6, <1>7, <1>8, <1>9, <1>10, <1>11, <1>12,
     <1>13, <1>14, <1>15, <1>16, <1>17, <1>18, <1>19, <1>20, <1>21
  DEF Next, Handle, Process, Reliable!vars


\* The lifecycle uses the queue as ReliableQueue, and so either backend,
\* promises: every behaviour of it is one of the abstract queue.
THEOREM LifecycleUsesPromise == Spec => UsesPromise
<1>1. Init => Reliable!Init
  BY DEF Init, Reliable!Init
<1> QED
  BY QueueInit, QueueStep, PromiseStep, <1>1, PTL DEF Spec, UsesPromise,
     Reliable!Spec

-----------------------------------------------------------------------------
(* How jobs end, while no live worker loses its lease: a job in flight has  *)
(* one worker, so nobody writes an old status after the last one.           *)

OwnersHold == \A w \in Workers : wpc[w] \in Processing => place[wjob[w]] = "inflight"
OneOwner == \A v, w \in Workers :
    wpc[v] \in Processing /\ wpc[w] \in Processing /\ wjob[v] = wjob[w] => v = w
Mourners == \A w \in Workers :
    wpc[w] \in Reconciling => place[wjob[w]] \in {"dead", "done"}
Ended == \A w \in Workers :
    wpc[w] \in {"free", "ack", "rfree", "remove"} => status[wjob[w]] \in Settled
NoLapse == budget["lapse"] = 0
SettleInv ==
    /\ QueueInv /\ NoLapse
    /\ OwnersHold /\ OneOwner /\ Mourners /\ Ended /\ DoneIsSettled

LEMMA SettleInit == ASSUME MaxLapses = 0 PROVE Init => SettleInv
<1> SUFFICES ASSUME Init PROVE SettleInv
  OBVIOUS
<1>1. NoLapse
  BY DEF Init, Failures, NoLapse
<1>2. OwnersHold /\ OneOwner /\ Mourners /\ Ended /\ DoneIsSettled
  BY DEF Init, OwnersHold, OneOwner, Mourners, Ended, DoneIsSettled,
     Processing, Reconciling
<1> QED
  BY <1>1, <1>2, QueueInit DEF SettleInv

\* A failure that is used up stays so, and no step brings one back.
LEMMA NoLapseStep == TypeInv /\ NoLapse /\ [Next]_vars => NoLapse'
<1> SUFFICES ASSUME TypeInv, NoLapse, [Next]_vars PROVE NoLapse'
  OBVIOUS
<1>1. \/ budget' = budget
      \/ \E f \in Failures : budget[f] > 0 /\ budget' = [budget EXCEPT ![f] = @ - 1]
  <2> USE DEF failures, vars
  <2>1. ASSUME NEW r \in Replicas, Handle(r)
        PROVE  budget' = budget
    BY <2>1 DEF Handle, Acquire, Create, GiveBack, ReturnRaced, Accept,
       Enqueue, AuditSubmit, Undo, Approve, Reject
  <2>2. ASSUME NEW r \in Replicas, UndoFails(r)
        PROVE  budget' = budget
    BY <2>2 DEF UndoFails
  <2>3. ASSUME NEW r \in Replicas, ReplicaCrash(r) \/ ReplicaError(r) \/
               AcquireLost(r)
        PROVE  \/ budget' = budget
               \/ \E f \in Failures : budget[f] > 0 /\ budget' = [budget EXCEPT ![f] = @ - 1]
    BY <2>3 DEF ReplicaCrash, ReplicaError, AcquireLost, Spend, Failures
  <2>4. ASSUME NEW r \in Replicas, NEW j \in Jobs, Submit(r, j) \/
               SubmitAgain(r, j) \/ Decide(r, j)
        PROVE  budget' = budget
    BY <2>4 DEF Submit, SubmitAgain, Decide, Begin
  <2>5. ASSUME NEW w \in Workers, Process(w)
        PROVE  budget' = budget
    BY <2>5 DEF Process, Claim, LoadDead, Load, Mark, Research, FailRelease,
       FailSet, StoreResult, Finish, Free, Ack, Retry, SetDead, FreeDead, RemoveDead
  <2>6. ASSUME NEW w \in Workers, WorkerCrash(w) \/ WorkerError(w)
        PROVE  \/ budget' = budget
               \/ \E f \in Failures : budget[f] > 0 /\ budget' = [budget EXCEPT ![f] = @ - 1]
    BY <2>6 DEF WorkerCrash, WorkerError, Spend, Failures
  <2>7. ASSUME NEW j \in Jobs, RecoverStale(j)
        PROVE  budget' = budget
    BY <2>7 DEF RecoverStale
  <2>8. ASSUME NEW j \in Jobs, RecoverLapsed(j)
        PROVE  \/ budget' = budget
               \/ \E f \in Failures : budget[f] > 0 /\ budget' = [budget EXCEPT ![f] = @ - 1]
    BY <2>8 DEF RecoverLapsed, Spend, Failures
  <2>9. ASSUME SlotsAge \/ SlotsExpire
        PROVE  budget' = budget
    BY <2>9 DEF SlotsAge, SlotsExpire
  <2> QED
    BY <2>1, <2>2, <2>3, <2>4, <2>5, <2>6, <2>7, <2>8, <2>9 DEF Next
<1>2. budget \in [Failures -> Nat] /\ "lapse" \in Failures
  BY DEF TypeInv, TypeOK, Failures
<1> QED
  BY <1>1, <1>2 DEF NoLapse

LEMMA SettleStep == SettleInv /\ [Next]_vars => SettleInv'
<1> SUFFICES ASSUME SettleInv, [Next]_vars PROVE SettleInv'
  OBVIOUS
<1>0. /\ QueueInv' /\ NoLapse'
      /\ status \in [Jobs -> Statuses]
      /\ place \in [Jobs -> {"absent", "ready", "inflight", "dead", "done"}]
      /\ wpc \in [Workers -> {"idle"} \cup Processing \cup Reconciling]
      /\ wjob \in [Workers -> Jobs \cup {NoJob}]
      /\ \A w \in Workers : wpc[w] # "idle" => wjob[w] \in Jobs
      /\ \A r \in Replicas : rpc[r] # "idle" => rjob[r] \in Jobs
      /\ Unqueued /\ RecordFirst
      /\ \A w \in Workers : wpc[w] # "idle" => place[wjob[w]] # "absent"
  BY QueueStep, NoLapseStep DEF SettleInv, QueueInv, TypeInv, TypeOK,
     CarriesJob, Delivered
<1> SUFFICES OwnersHold' /\ OneOwner' /\ Mourners' /\ Ended' /\ DoneIsSettled'
  BY <1>0 DEF SettleInv
<1>1. OwnersHold /\ OneOwner /\ Mourners /\ Ended /\ DoneIsSettled /\ NoLapse
  BY DEF SettleInv
<1> USE DEF Statuses, Unsettled, Settled, Processing, Reconciling
<1>2. ASSUME NEW r \in Replicas, NEW j \in Jobs, Submit(r, j)
      PROVE  OwnersHold' /\ OneOwner' /\ Mourners' /\ Ended' /\ DoneIsSettled'
  <2>1. UNCHANGED <<wpc, wjob, status, place>>
    BY <1>2 DEF Submit, Begin, store, tenant, queue, replica, worker
  <2> QED
    BY <1>1, <2>1 DEF OwnersHold, OneOwner, Mourners, Ended, DoneIsSettled
<1>3. ASSUME NEW r \in Replicas, NEW j \in Jobs, SubmitAgain(r, j)
      PROVE  OwnersHold' /\ OneOwner' /\ Mourners' /\ Ended' /\ DoneIsSettled'
  <2>1. UNCHANGED <<wpc, wjob, status, place>>
    BY <1>3 DEF SubmitAgain, store, tenant, queue, replica, worker
  <2> QED
    BY <1>1, <2>1 DEF OwnersHold, OneOwner, Mourners, Ended, DoneIsSettled
<1>4. ASSUME NEW r \in Replicas, NEW j \in Jobs, Decide(r, j)
      PROVE  OwnersHold' /\ OneOwner' /\ Mourners' /\ Ended' /\ DoneIsSettled'
  <2>1. UNCHANGED <<wpc, wjob, status, place>>
    BY <1>4 DEF Decide, Begin, store, tenant, queue, replica, worker
  <2> QED
    BY <1>1, <2>1 DEF OwnersHold, OneOwner, Mourners, Ended, DoneIsSettled
<1>5. ASSUME NEW r \in Replicas, Acquire(r)
      PROVE  OwnersHold' /\ OneOwner' /\ Mourners' /\ Ended' /\ DoneIsSettled'
  <2>1. UNCHANGED <<wpc, wjob, status, place>>
    BY <1>5 DEF Acquire, Continue, Answer, store, tenant, queue, replica, worker
  <2> QED
    BY <1>1, <2>1 DEF OwnersHold, OneOwner, Mourners, Ended, DoneIsSettled
<1>6. ASSUME NEW r \in Replicas, GiveBack(r)
      PROVE  OwnersHold' /\ OneOwner' /\ Mourners' /\ Ended' /\ DoneIsSettled'
  <2>1. UNCHANGED <<wpc, wjob, status, place>>
    BY <1>6 DEF GiveBack, Continue, store, tenant, queue, replica, worker
  <2> QED
    BY <1>1, <2>1 DEF OwnersHold, OneOwner, Mourners, Ended, DoneIsSettled
<1>7. ASSUME NEW r \in Replicas, ReturnRaced(r)
      PROVE  OwnersHold' /\ OneOwner' /\ Mourners' /\ Ended' /\ DoneIsSettled'
  <2>1. UNCHANGED <<wpc, wjob, status, place>>
    BY <1>7 DEF ReturnRaced, Accept, Answer, store, tenant, queue, replica, worker
  <2> QED
    BY <1>1, <2>1 DEF OwnersHold, OneOwner, Mourners, Ended, DoneIsSettled
<1>8. ASSUME NEW r \in Replicas, AuditSubmit(r)
      PROVE  OwnersHold' /\ OneOwner' /\ Mourners' /\ Ended' /\ DoneIsSettled'
  <2>1. UNCHANGED <<wpc, wjob, status, place>>
    BY <1>8 DEF AuditSubmit, Accept, Answer, store, tenant, queue, replica, worker
  <2> QED
    BY <1>1, <2>1 DEF OwnersHold, OneOwner, Mourners, Ended, DoneIsSettled
<1>9. ASSUME NEW r \in Replicas, Undo(r)
      PROVE  OwnersHold' /\ OneOwner' /\ Mourners' /\ Ended' /\ DoneIsSettled'
  <2>1. UNCHANGED <<wpc, wjob, status, place>>
    BY <1>9 DEF Undo, Answer, store, tenant, queue, replica, worker
  <2> QED
    BY <1>1, <2>1 DEF OwnersHold, OneOwner, Mourners, Ended, DoneIsSettled
<1>10. ASSUME NEW r \in Replicas, Enqueue(r)
      PROVE  OwnersHold' /\ OneOwner' /\ Mourners' /\ Ended' /\ DoneIsSettled'
  <2>1. OwnersHold'
    BY <1>0, <1>1, <1>10 DEF Enqueue, Continue, store, tenant, queue, replica,
       worker, Unqueued, OwnersHold, OneOwner, Mourners
  <2>2. OneOwner'
    BY <1>0, <1>1, <1>10 DEF Enqueue, Continue, store, tenant, queue, replica,
       worker, Unqueued, OneOwner, OwnersHold
  <2>3. Mourners'
    BY <1>0, <1>1, <1>10 DEF Enqueue, Continue, store, tenant, queue, replica,
       worker, Unqueued, Mourners, OwnersHold
  <2>4. Ended'
    BY <1>0, <1>1, <1>10 DEF Enqueue, Continue, store, tenant, queue, replica,
       worker, Unqueued, Ended, OneOwner, OwnersHold, Mourners, RecordFirst
  <2>5. DoneIsSettled'
    BY <1>0, <1>1, <1>10 DEF Enqueue, Continue, store, tenant, queue, replica,
       worker, Unqueued, DoneIsSettled, Ended, OwnersHold, RecordFirst
  <2> QED
    BY <2>1, <2>2, <2>3, <2>4, <2>5
<1>11. ASSUME NEW r \in Replicas, Create(r)
      PROVE  OwnersHold' /\ OneOwner' /\ Mourners' /\ Ended' /\ DoneIsSettled'
  <2>1. OwnersHold'
    BY <1>0, <1>1, <1>11 DEF Create, Continue, SaveStatus, store, tenant,
       queue, replica, worker, OwnersHold, OneOwner, Mourners
  <2>2. OneOwner'
    BY <1>0, <1>1, <1>11 DEF Create, Continue, SaveStatus, store, tenant,
       queue, replica, worker, OneOwner, OwnersHold
  <2>3. Mourners'
    BY <1>0, <1>1, <1>11 DEF Create, Continue, SaveStatus, store, tenant,
       queue, replica, worker, Mourners, OwnersHold
  <2>4. Ended'
    BY <1>0, <1>1, <1>11 DEF Create, Continue, SaveStatus, store, tenant,
       queue, replica, worker, Ended, OneOwner, OwnersHold, Mourners, RecordFirst
  <2>5. DoneIsSettled'
    BY <1>0, <1>1, <1>11 DEF Create, Continue, SaveStatus, store, tenant,
       queue, replica, worker, DoneIsSettled, Ended, OwnersHold, RecordFirst
  <2> QED
    BY <2>1, <2>2, <2>3, <2>4, <2>5
<1>12. ASSUME NEW r \in Replicas, Approve(r)
      PROVE  OwnersHold' /\ OneOwner' /\ Mourners' /\ Ended' /\ DoneIsSettled'
  <2>1. OwnersHold'
    BY <1>0, <1>1, <1>12 DEF Approve, Answer, SaveStatus, store, tenant, queue,
       replica, worker, OwnersHold, OneOwner, Mourners
  <2>2. OneOwner'
    BY <1>0, <1>1, <1>12 DEF Approve, Answer, SaveStatus, store, tenant, queue,
       replica, worker, OneOwner, OwnersHold
  <2>3. Mourners'
    BY <1>0, <1>1, <1>12 DEF Approve, Answer, SaveStatus, store, tenant, queue,
       replica, worker, Mourners, OwnersHold
  <2>4. Ended'
    BY <1>0, <1>1, <1>12 DEF Approve, Answer, SaveStatus, store, tenant, queue,
       replica, worker, Ended, OneOwner, OwnersHold, Mourners, RecordFirst
  <2>5. DoneIsSettled'
    BY <1>0, <1>1, <1>12 DEF Approve, Answer, SaveStatus, store, tenant, queue,
       replica, worker, DoneIsSettled, Ended, OwnersHold, RecordFirst
  <2> QED
    BY <2>1, <2>2, <2>3, <2>4, <2>5
<1>13. ASSUME NEW r \in Replicas, Reject(r)
      PROVE  OwnersHold' /\ OneOwner' /\ Mourners' /\ Ended' /\ DoneIsSettled'
  <2>1. OwnersHold'
    BY <1>0, <1>1, <1>13 DEF Reject, Answer, SaveStatus, store, tenant, queue,
       replica, worker, OwnersHold, OneOwner, Mourners
  <2>2. OneOwner'
    BY <1>0, <1>1, <1>13 DEF Reject, Answer, SaveStatus, store, tenant, queue,
       replica, worker, OneOwner, OwnersHold
  <2>3. Mourners'
    BY <1>0, <1>1, <1>13 DEF Reject, Answer, SaveStatus, store, tenant, queue,
       replica, worker, Mourners, OwnersHold
  <2>4. Ended'
    BY <1>0, <1>1, <1>13 DEF Reject, Answer, SaveStatus, store, tenant, queue,
       replica, worker, Ended, OneOwner, OwnersHold, Mourners, RecordFirst
  <2>5. DoneIsSettled'
    BY <1>0, <1>1, <1>13 DEF Reject, Answer, SaveStatus, store, tenant, queue,
       replica, worker, DoneIsSettled, Ended, OwnersHold, RecordFirst
  <2> QED
    BY <2>1, <2>2, <2>3, <2>4, <2>5
<1>14. ASSUME NEW r \in Replicas, ReplicaCrash(r)
      PROVE  OwnersHold' /\ OneOwner' /\ Mourners' /\ Ended' /\ DoneIsSettled'
  <2>1. UNCHANGED <<wpc, wjob, status, place>>
    BY <1>14 DEF ReplicaCrash, Answer, store, tenant, queue, replica, worker
  <2> QED
    BY <1>1, <2>1 DEF OwnersHold, OneOwner, Mourners, Ended, DoneIsSettled
<1>15. ASSUME NEW r \in Replicas, ReplicaError(r)
      PROVE  OwnersHold' /\ OneOwner' /\ Mourners' /\ Ended' /\ DoneIsSettled'
  <2>1. UNCHANGED <<wpc, wjob, status, place>>
    BY <1>15 DEF ReplicaError, Continue, store, tenant, queue, replica, worker
  <2> QED
    BY <1>1, <2>1 DEF OwnersHold, OneOwner, Mourners, Ended, DoneIsSettled
<1>16. ASSUME NEW r \in Replicas, AcquireLost(r)
      PROVE  OwnersHold' /\ OneOwner' /\ Mourners' /\ Ended' /\ DoneIsSettled'
  <2>1. UNCHANGED <<wpc, wjob, status, place>>
    BY <1>16 DEF AcquireLost, Answer, store, tenant, queue, replica, worker
  <2> QED
    BY <1>1, <2>1 DEF OwnersHold, OneOwner, Mourners, Ended, DoneIsSettled
<1>17. ASSUME NEW r \in Replicas, UndoFails(r)
      PROVE  OwnersHold' /\ OneOwner' /\ Mourners' /\ Ended' /\ DoneIsSettled'
  <2>1. UNCHANGED <<wpc, wjob, status, place>>
    BY <1>17 DEF UndoFails, Answer, store, tenant, queue, replica, worker
  <2> QED
    BY <1>1, <2>1 DEF OwnersHold, OneOwner, Mourners, Ended, DoneIsSettled
<1>18. ASSUME NEW w \in Workers, NEW j \in Jobs, Claim(w, j)
      PROVE  OwnersHold' /\ OneOwner' /\ Mourners' /\ Ended' /\ DoneIsSettled'
  <2>1. OwnersHold'
    BY <1>0, <1>1, <1>18 DEF Claim, store, tenant, queue, replica, worker,
       OwnersHold, OneOwner, Mourners
  <2>2. OneOwner'
    BY <1>0, <1>1, <1>18 DEF Claim, store, tenant, queue, replica, worker,
       OneOwner, OwnersHold
  <2>3. Mourners'
    BY <1>0, <1>1, <1>18 DEF Claim, store, tenant, queue, replica, worker,
       Mourners, OwnersHold
  <2>4. Ended'
    BY <1>0, <1>1, <1>18 DEF Claim, store, tenant, queue, replica, worker,
       Ended, OneOwner, OwnersHold, Mourners, RecordFirst
  <2>5. DoneIsSettled'
    BY <1>0, <1>1, <1>18 DEF Claim, store, tenant, queue, replica, worker,
       DoneIsSettled, Ended, OwnersHold, RecordFirst
  <2> QED
    BY <2>1, <2>2, <2>3, <2>4, <2>5
<1>19. ASSUME NEW w \in Workers, NEW j \in Jobs, LoadDead(w, j)
      PROVE  OwnersHold' /\ OneOwner' /\ Mourners' /\ Ended' /\ DoneIsSettled'
  <2>1. OwnersHold'
    BY <1>0, <1>1, <1>19 DEF LoadDead, store, tenant, queue, replica, worker,
       OwnersHold, OneOwner, Mourners
  <2>2. OneOwner'
    BY <1>0, <1>1, <1>19 DEF LoadDead, store, tenant, queue, replica, worker,
       OneOwner, OwnersHold
  <2>3. Mourners'
    BY <1>0, <1>1, <1>19 DEF LoadDead, store, tenant, queue, replica, worker,
       Mourners, OwnersHold
  <2>4. Ended'
    BY <1>0, <1>1, <1>19 DEF LoadDead, store, tenant, queue, replica, worker,
       Ended, OneOwner, OwnersHold, Mourners, RecordFirst
  <2>5. DoneIsSettled'
    BY <1>0, <1>1, <1>19 DEF LoadDead, store, tenant, queue, replica, worker,
       DoneIsSettled, Ended, OwnersHold, RecordFirst
  <2> QED
    BY <2>1, <2>2, <2>3, <2>4, <2>5
<1>20. ASSUME NEW w \in Workers, Load(w)
      PROVE  OwnersHold' /\ OneOwner' /\ Mourners' /\ Ended' /\ DoneIsSettled'
  <2>1. OwnersHold'
    BY <1>0, <1>1, <1>20 DEF Load, store, tenant, queue, replica, worker,
       OwnersHold, OneOwner, Mourners
  <2>2. OneOwner'
    BY <1>0, <1>1, <1>20 DEF Load, store, tenant, queue, replica, worker,
       OneOwner, OwnersHold
  <2>3. Mourners'
    BY <1>0, <1>1, <1>20 DEF Load, store, tenant, queue, replica, worker,
       Mourners, OwnersHold
  <2>4. Ended'
    BY <1>0, <1>1, <1>20 DEF Load, store, tenant, queue, replica, worker,
       Ended, OneOwner, OwnersHold, Mourners, RecordFirst
  <2>5. DoneIsSettled'
    BY <1>0, <1>1, <1>20 DEF Load, store, tenant, queue, replica, worker,
       DoneIsSettled, Ended, OwnersHold, RecordFirst
  <2> QED
    BY <2>1, <2>2, <2>3, <2>4, <2>5
<1>21. ASSUME NEW w \in Workers, Mark(w)
      PROVE  OwnersHold' /\ OneOwner' /\ Mourners' /\ Ended' /\ DoneIsSettled'
  <2>1. OwnersHold'
    BY <1>0, <1>1, <1>21 DEF Mark, Proceed, SaveStatus, store, tenant, queue,
       replica, worker, OwnersHold, OneOwner, Mourners
  <2>2. OneOwner'
    BY <1>0, <1>1, <1>21 DEF Mark, Proceed, SaveStatus, store, tenant, queue,
       replica, worker, OneOwner, OwnersHold
  <2>3. Mourners'
    BY <1>0, <1>1, <1>21 DEF Mark, Proceed, SaveStatus, store, tenant, queue,
       replica, worker, Mourners, OwnersHold
  <2>4. Ended'
    BY <1>0, <1>1, <1>21 DEF Mark, Proceed, SaveStatus, store, tenant, queue,
       replica, worker, Ended, OneOwner, OwnersHold, Mourners, RecordFirst
  <2>5. DoneIsSettled'
    BY <1>0, <1>1, <1>21 DEF Mark, Proceed, SaveStatus, store, tenant, queue,
       replica, worker, DoneIsSettled, Ended, OwnersHold, RecordFirst
  <2> QED
    BY <2>1, <2>2, <2>3, <2>4, <2>5
<1>22. ASSUME NEW w \in Workers, Research(w)
      PROVE  OwnersHold' /\ OneOwner' /\ Mourners' /\ Ended' /\ DoneIsSettled'
  <2>1. OwnersHold'
    BY <1>0, <1>1, <1>22 DEF Research, Proceed, store, tenant, queue, replica,
       worker, OwnersHold, OneOwner, Mourners
  <2>2. OneOwner'
    BY <1>0, <1>1, <1>22 DEF Research, Proceed, store, tenant, queue, replica,
       worker, OneOwner, OwnersHold
  <2>3. Mourners'
    BY <1>0, <1>1, <1>22 DEF Research, Proceed, store, tenant, queue, replica,
       worker, Mourners, OwnersHold
  <2>4. Ended'
    BY <1>0, <1>1, <1>22 DEF Research, Proceed, store, tenant, queue, replica,
       worker, Ended, OneOwner, OwnersHold, Mourners, RecordFirst
  <2>5. DoneIsSettled'
    BY <1>0, <1>1, <1>22 DEF Research, Proceed, store, tenant, queue, replica,
       worker, DoneIsSettled, Ended, OwnersHold, RecordFirst
  <2> QED
    BY <2>1, <2>2, <2>3, <2>4, <2>5
<1>23. ASSUME NEW w \in Workers, FailRelease(w)
      PROVE  OwnersHold' /\ OneOwner' /\ Mourners' /\ Ended' /\ DoneIsSettled'
  <2>1. OwnersHold'
    BY <1>0, <1>1, <1>23 DEF FailRelease, Proceed, store, tenant, queue,
       replica, worker, OwnersHold, OneOwner, Mourners
  <2>2. OneOwner'
    BY <1>0, <1>1, <1>23 DEF FailRelease, Proceed, store, tenant, queue,
       replica, worker, OneOwner, OwnersHold
  <2>3. Mourners'
    BY <1>0, <1>1, <1>23 DEF FailRelease, Proceed, store, tenant, queue,
       replica, worker, Mourners, OwnersHold
  <2>4. Ended'
    BY <1>0, <1>1, <1>23 DEF FailRelease, Proceed, store, tenant, queue,
       replica, worker, Ended, OneOwner, OwnersHold, Mourners, RecordFirst
  <2>5. DoneIsSettled'
    BY <1>0, <1>1, <1>23 DEF FailRelease, Proceed, store, tenant, queue,
       replica, worker, DoneIsSettled, Ended, OwnersHold, RecordFirst
  <2> QED
    BY <2>1, <2>2, <2>3, <2>4, <2>5
<1>24. ASSUME NEW w \in Workers, FailSet(w)
      PROVE  OwnersHold' /\ OneOwner' /\ Mourners' /\ Ended' /\ DoneIsSettled'
  <2>1. OwnersHold'
    BY <1>0, <1>1, <1>24 DEF FailSet, Proceed, SaveStatus, Exhausted, store,
       tenant, queue, replica, worker, OwnersHold, OneOwner, Mourners
  <2>2. OneOwner'
    BY <1>0, <1>1, <1>24 DEF FailSet, Proceed, SaveStatus, Exhausted, store,
       tenant, queue, replica, worker, OneOwner, OwnersHold
  <2>3. Mourners'
    BY <1>0, <1>1, <1>24 DEF FailSet, Proceed, SaveStatus, Exhausted, store,
       tenant, queue, replica, worker, Mourners, OwnersHold
  <2>4. Ended'
    BY <1>0, <1>1, <1>24 DEF FailSet, Proceed, SaveStatus, Exhausted, store,
       tenant, queue, replica, worker, Ended, OneOwner, OwnersHold, Mourners,
       RecordFirst
  <2>5. DoneIsSettled'
    BY <1>0, <1>1, <1>24 DEF FailSet, Proceed, SaveStatus, Exhausted, store,
       tenant, queue, replica, worker, DoneIsSettled, Ended, OwnersHold, RecordFirst
  <2> QED
    BY <2>1, <2>2, <2>3, <2>4, <2>5
<1>25. ASSUME NEW w \in Workers, StoreResult(w)
      PROVE  OwnersHold' /\ OneOwner' /\ Mourners' /\ Ended' /\ DoneIsSettled'
  <2>1. OwnersHold'
    BY <1>0, <1>1, <1>25 DEF StoreResult, Proceed, store, tenant, queue,
       replica, worker, OwnersHold, OneOwner, Mourners
  <2>2. OneOwner'
    BY <1>0, <1>1, <1>25 DEF StoreResult, Proceed, store, tenant, queue,
       replica, worker, OneOwner, OwnersHold
  <2>3. Mourners'
    BY <1>0, <1>1, <1>25 DEF StoreResult, Proceed, store, tenant, queue,
       replica, worker, Mourners, OwnersHold
  <2>4. Ended'
    BY <1>0, <1>1, <1>25 DEF StoreResult, Proceed, store, tenant, queue,
       replica, worker, Ended, OneOwner, OwnersHold, Mourners, RecordFirst
  <2>5. DoneIsSettled'
    BY <1>0, <1>1, <1>25 DEF StoreResult, Proceed, store, tenant, queue,
       replica, worker, DoneIsSettled, Ended, OwnersHold, RecordFirst
  <2> QED
    BY <2>1, <2>2, <2>3, <2>4, <2>5
<1>26. ASSUME NEW w \in Workers, Finish(w)
      PROVE  OwnersHold' /\ OneOwner' /\ Mourners' /\ Ended' /\ DoneIsSettled'
  <2>1. OwnersHold'
    BY <1>0, <1>1, <1>26 DEF Finish, Proceed, SaveStatus, store, tenant, queue,
       replica, worker, OwnersHold, OneOwner, Mourners
  <2>2. OneOwner'
    BY <1>0, <1>1, <1>26 DEF Finish, Proceed, SaveStatus, store, tenant, queue,
       replica, worker, OneOwner, OwnersHold
  <2>3. Mourners'
    BY <1>0, <1>1, <1>26 DEF Finish, Proceed, SaveStatus, store, tenant, queue,
       replica, worker, Mourners, OwnersHold
  <2>4. Ended'
    BY <1>0, <1>1, <1>26 DEF Finish, Proceed, SaveStatus, store, tenant, queue,
       replica, worker, Ended, OneOwner, OwnersHold, Mourners, RecordFirst
  <2>5. DoneIsSettled'
    BY <1>0, <1>1, <1>26 DEF Finish, Proceed, SaveStatus, store, tenant, queue,
       replica, worker, DoneIsSettled, Ended, OwnersHold, RecordFirst
  <2> QED
    BY <2>1, <2>2, <2>3, <2>4, <2>5
<1>27. ASSUME NEW w \in Workers, Free(w)
      PROVE  OwnersHold' /\ OneOwner' /\ Mourners' /\ Ended' /\ DoneIsSettled'
  <2>1. OwnersHold'
    BY <1>0, <1>1, <1>27 DEF Free, Proceed, store, tenant, queue, replica,
       worker, OwnersHold, OneOwner, Mourners
  <2>2. OneOwner'
    BY <1>0, <1>1, <1>27 DEF Free, Proceed, store, tenant, queue, replica,
       worker, OneOwner, OwnersHold
  <2>3. Mourners'
    BY <1>0, <1>1, <1>27 DEF Free, Proceed, store, tenant, queue, replica,
       worker, Mourners, OwnersHold
  <2>4. Ended'
    BY <1>0, <1>1, <1>27 DEF Free, Proceed, store, tenant, queue, replica,
       worker, Ended, OneOwner, OwnersHold, Mourners, RecordFirst
  <2>5. DoneIsSettled'
    BY <1>0, <1>1, <1>27 DEF Free, Proceed, store, tenant, queue, replica,
       worker, DoneIsSettled, Ended, OwnersHold, RecordFirst
  <2> QED
    BY <2>1, <2>2, <2>3, <2>4, <2>5
<1>28. ASSUME NEW w \in Workers, Ack(w)
      PROVE  OwnersHold' /\ OneOwner' /\ Mourners' /\ Ended' /\ DoneIsSettled'
  <2>1. OwnersHold'
    BY <1>0, <1>1, <1>28 DEF Ack, Rest, store, tenant, queue, replica, worker,
       OwnersHold, OneOwner, Mourners
  <2>2. OneOwner'
    BY <1>0, <1>1, <1>28 DEF Ack, Rest, store, tenant, queue, replica, worker,
       OneOwner, OwnersHold
  <2>3. Mourners'
    BY <1>0, <1>1, <1>28 DEF Ack, Rest, store, tenant, queue, replica, worker,
       Mourners, OwnersHold
  <2>4. Ended'
    BY <1>0, <1>1, <1>28 DEF Ack, Rest, store, tenant, queue, replica, worker,
       Ended, OneOwner, OwnersHold, Mourners, RecordFirst
  <2>5. DoneIsSettled'
    BY <1>0, <1>1, <1>28 DEF Ack, Rest, store, tenant, queue, replica, worker,
       DoneIsSettled, Ended, OwnersHold, RecordFirst
  <2> QED
    BY <2>1, <2>2, <2>3, <2>4, <2>5
<1>29. ASSUME NEW w \in Workers, Retry(w)
      PROVE  OwnersHold' /\ OneOwner' /\ Mourners' /\ Ended' /\ DoneIsSettled'
  <2>1. OwnersHold'
    BY <1>0, <1>1, <1>29 DEF Retry, Rest, store, tenant, queue, replica,
       worker, OwnersHold, OneOwner, Mourners
  <2>2. OneOwner'
    BY <1>0, <1>1, <1>29 DEF Retry, Rest, store, tenant, queue, replica,
       worker, OneOwner, OwnersHold
  <2>3. Mourners'
    BY <1>0, <1>1, <1>29 DEF Retry, Rest, store, tenant, queue, replica,
       worker, Mourners, OwnersHold
  <2>4. Ended'
    BY <1>0, <1>1, <1>29 DEF Retry, Rest, store, tenant, queue, replica,
       worker, Ended, OneOwner, OwnersHold, Mourners, RecordFirst
  <2>5. DoneIsSettled'
    BY <1>0, <1>1, <1>29 DEF Retry, Rest, store, tenant, queue, replica,
       worker, DoneIsSettled, Ended, OwnersHold, RecordFirst
  <2> QED
    BY <2>1, <2>2, <2>3, <2>4, <2>5
<1>30. ASSUME NEW w \in Workers, SetDead(w)
      PROVE  OwnersHold' /\ OneOwner' /\ Mourners' /\ Ended' /\ DoneIsSettled'
  <2>1. OwnersHold'
    BY <1>0, <1>1, <1>30 DEF SetDead, Proceed, SaveStatus, store, tenant,
       queue, replica, worker, OwnersHold, OneOwner, Mourners
  <2>2. OneOwner'
    BY <1>0, <1>1, <1>30 DEF SetDead, Proceed, SaveStatus, store, tenant,
       queue, replica, worker, OneOwner, OwnersHold
  <2>3. Mourners'
    BY <1>0, <1>1, <1>30 DEF SetDead, Proceed, SaveStatus, store, tenant,
       queue, replica, worker, Mourners, OwnersHold
  <2>4. Ended'
    BY <1>0, <1>1, <1>30 DEF SetDead, Proceed, SaveStatus, store, tenant,
       queue, replica, worker, Ended, OneOwner, OwnersHold, Mourners, RecordFirst
  <2>5. DoneIsSettled'
    BY <1>0, <1>1, <1>30 DEF SetDead, Proceed, SaveStatus, store, tenant,
       queue, replica, worker, DoneIsSettled, Ended, OwnersHold, RecordFirst
  <2> QED
    BY <2>1, <2>2, <2>3, <2>4, <2>5
<1>31. ASSUME NEW w \in Workers, FreeDead(w)
      PROVE  OwnersHold' /\ OneOwner' /\ Mourners' /\ Ended' /\ DoneIsSettled'
  <2>1. OwnersHold'
    BY <1>0, <1>1, <1>31 DEF FreeDead, Proceed, store, tenant, queue, replica,
       worker, OwnersHold, OneOwner, Mourners
  <2>2. OneOwner'
    BY <1>0, <1>1, <1>31 DEF FreeDead, Proceed, store, tenant, queue, replica,
       worker, OneOwner, OwnersHold
  <2>3. Mourners'
    BY <1>0, <1>1, <1>31 DEF FreeDead, Proceed, store, tenant, queue, replica,
       worker, Mourners, OwnersHold
  <2>4. Ended'
    BY <1>0, <1>1, <1>31 DEF FreeDead, Proceed, store, tenant, queue, replica,
       worker, Ended, OneOwner, OwnersHold, Mourners, RecordFirst
  <2>5. DoneIsSettled'
    BY <1>0, <1>1, <1>31 DEF FreeDead, Proceed, store, tenant, queue, replica,
       worker, DoneIsSettled, Ended, OwnersHold, RecordFirst
  <2> QED
    BY <2>1, <2>2, <2>3, <2>4, <2>5
<1>32. ASSUME NEW w \in Workers, RemoveDead(w)
      PROVE  OwnersHold' /\ OneOwner' /\ Mourners' /\ Ended' /\ DoneIsSettled'
  <2>1. OwnersHold'
    BY <1>0, <1>1, <1>32 DEF RemoveDead, Rest, store, tenant, queue, replica,
       worker, OwnersHold, OneOwner, Mourners
  <2>2. OneOwner'
    BY <1>0, <1>1, <1>32 DEF RemoveDead, Rest, store, tenant, queue, replica,
       worker, OneOwner, OwnersHold
  <2>3. Mourners'
    BY <1>0, <1>1, <1>32 DEF RemoveDead, Rest, store, tenant, queue, replica,
       worker, Mourners, OwnersHold
  <2>4. Ended'
    BY <1>0, <1>1, <1>32 DEF RemoveDead, Rest, store, tenant, queue, replica,
       worker, Ended, OneOwner, OwnersHold, Mourners, RecordFirst
  <2>5. DoneIsSettled'
    BY <1>0, <1>1, <1>32 DEF RemoveDead, Rest, store, tenant, queue, replica,
       worker, DoneIsSettled, Ended, OwnersHold, RecordFirst
  <2> QED
    BY <2>1, <2>2, <2>3, <2>4, <2>5
<1>33. ASSUME NEW w \in Workers, WorkerCrash(w)
      PROVE  OwnersHold' /\ OneOwner' /\ Mourners' /\ Ended' /\ DoneIsSettled'
  <2>1. OwnersHold'
    BY <1>0, <1>1, <1>33 DEF WorkerCrash, Rest, store, tenant, queue, replica,
       worker, OwnersHold, OneOwner, Mourners
  <2>2. OneOwner'
    BY <1>0, <1>1, <1>33 DEF WorkerCrash, Rest, store, tenant, queue, replica,
       worker, OneOwner, OwnersHold
  <2>3. Mourners'
    BY <1>0, <1>1, <1>33 DEF WorkerCrash, Rest, store, tenant, queue, replica,
       worker, Mourners, OwnersHold
  <2>4. Ended'
    BY <1>0, <1>1, <1>33 DEF WorkerCrash, Rest, store, tenant, queue, replica,
       worker, Ended, OneOwner, OwnersHold, Mourners, RecordFirst
  <2>5. DoneIsSettled'
    BY <1>0, <1>1, <1>33 DEF WorkerCrash, Rest, store, tenant, queue, replica,
       worker, DoneIsSettled, Ended, OwnersHold, RecordFirst
  <2> QED
    BY <2>1, <2>2, <2>3, <2>4, <2>5
<1>34. ASSUME NEW w \in Workers, WorkerError(w)
      PROVE  OwnersHold' /\ OneOwner' /\ Mourners' /\ Ended' /\ DoneIsSettled'
  <2>1. OwnersHold'
    BY <1>0, <1>1, <1>34 DEF WorkerError, Proceed, store, tenant, queue,
       replica, worker, OwnersHold, OneOwner, Mourners
  <2>2. OneOwner'
    BY <1>0, <1>1, <1>34 DEF WorkerError, Proceed, store, tenant, queue,
       replica, worker, OneOwner, OwnersHold
  <2>3. Mourners'
    BY <1>0, <1>1, <1>34 DEF WorkerError, Proceed, store, tenant, queue,
       replica, worker, Mourners, OwnersHold
  <2>4. Ended'
    BY <1>0, <1>1, <1>34 DEF WorkerError, Proceed, store, tenant, queue,
       replica, worker, Ended, OneOwner, OwnersHold, Mourners, RecordFirst
  <2>5. DoneIsSettled'
    BY <1>0, <1>1, <1>34 DEF WorkerError, Proceed, store, tenant, queue,
       replica, worker, DoneIsSettled, Ended, OwnersHold, RecordFirst
  <2> QED
    BY <2>1, <2>2, <2>3, <2>4, <2>5
<1>35. ASSUME NEW j \in Jobs, RecoverStale(j)
      PROVE  OwnersHold' /\ OneOwner' /\ Mourners' /\ Ended' /\ DoneIsSettled'
  <2>1. OwnersHold'
    BY <1>0, <1>1, <1>35 DEF RecoverStale, Recover, Owned, store, tenant,
       queue, replica, worker, OwnersHold, OneOwner, Mourners
  <2>2. OneOwner'
    BY <1>0, <1>1, <1>35 DEF RecoverStale, Recover, Owned, store, tenant,
       queue, replica, worker, OneOwner, OwnersHold
  <2>3. Mourners'
    BY <1>0, <1>1, <1>35 DEF RecoverStale, Recover, Owned, store, tenant,
       queue, replica, worker, Mourners, OwnersHold
  <2>4. Ended'
    BY <1>0, <1>1, <1>35 DEF RecoverStale, Recover, Owned, store, tenant,
       queue, replica, worker, Ended, OneOwner, OwnersHold, Mourners, RecordFirst
  <2>5. DoneIsSettled'
    BY <1>0, <1>1, <1>35 DEF RecoverStale, Recover, Owned, store, tenant,
       queue, replica, worker, DoneIsSettled, Ended, OwnersHold, RecordFirst
  <2> QED
    BY <2>1, <2>2, <2>3, <2>4, <2>5
<1>36. ASSUME NEW j \in Jobs, RecoverLapsed(j) PROVE FALSE
  BY <1>1, <1>36 DEF RecoverLapsed, Spend, NoLapse
<1>37. ASSUME SlotsAge \/ SlotsExpire
      PROVE  OwnersHold' /\ OneOwner' /\ Mourners' /\ Ended' /\ DoneIsSettled'
  <2>1. UNCHANGED <<wpc, wjob, status, place>>
    BY <1>37 DEF SlotsAge, SlotsExpire, store, tenant, queue, replica, worker
  <2> QED
    BY <1>1, <2>1 DEF OwnersHold, OneOwner, Mourners, Ended, DoneIsSettled
<1>38. ASSUME UNCHANGED vars
      PROVE  OwnersHold' /\ OneOwner' /\ Mourners' /\ Ended' /\ DoneIsSettled'
  <2>1. UNCHANGED <<wpc, wjob, status, place>>
    BY <1>38 DEF vars, store, tenant, queue, replica, worker
  <2> QED
    BY <1>1, <2>1 DEF OwnersHold, OneOwner, Mourners, Ended, DoneIsSettled
<1> QED
  BY <1>2, <1>3, <1>4, <1>5, <1>6, <1>7, <1>8, <1>9, <1>10, <1>11, <1>12,
     <1>13, <1>14, <1>15, <1>16, <1>17, <1>18, <1>19, <1>20, <1>21, <1>22,
          <1>23, <1>24, <1>25, <1>26, <1>27, <1>28, <1>29, <1>30, <1>31, <1>32,
               <1>33, <1>34, <1>35, <1>36, <1>37, <1>38
  DEF Next, Handle, Process


\* Through any crashes and errors, while no live worker loses its lease: when
\* the queue has let go of a job, its status record says how it ended.
THEOREM DoneJobsAreSettled == ASSUME MaxLapses = 0 PROVE Spec => []DoneIsSettled
<1>1. SettleInv => DoneIsSettled
  BY DEF SettleInv
<1> QED
  BY SettleInit, SettleStep, <1>1, PTL DEF Spec
=============================================================================

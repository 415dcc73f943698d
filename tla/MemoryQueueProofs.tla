-------------------------- MODULE MemoryQueueProofs --------------------------
(* Proofs about MemoryQueue for every finite set of jobs and workers and    *)
(* every bound.                                                             *)
EXTENDS MemoryQueue, FiniteSetTheorems, TLAPS

\* What the invariants lean on: finished jobs and those of the workers are known
\* ones, and no attempt count, stored or carried, is ahead of the claims.
KnownJobs ==
    /\ acked \cup drained \subseteq known
    /\ \A w \in Workers : Working(w) => job[w] \in known
StoredBehind == \A j \in Jobs :
    /\ envelopes[j] <= claims[j]
    /\ Held(j) => claims[j] > 0
    /\ dead[j] > 0 => claims[j] >= MaxAttempts
CarriedBehind == \A w \in Workers : Working(w) => attempt[w] <= claims[job[w]]
Counted == StoredBehind /\ CarriedBehind
QueueInv ==
    TypeOK /\ KnownJobs /\ EnvelopeWhileQueued /\ OnePlaceUntilFinished /\ Counted

-----------------------------------------------------------------------------
LEMMA NotifyType == ASSUME TypeOK, NEW n, Notify(n) PROVE woken' \in SUBSET Workers
BY DEF TypeOK, Notify, Asleep

LEMMA DueIsFinite == Cardinality(Due) \in Nat
BY FinitenessAssumption, FS_Subset, FS_CardinalityType DEF Due

LEMMA LeftIsCount ==
    ASSUME NEW w, NEW n \in Nat
    PROVE  /\ LeftUnannounced(w, n) \in Nat
           /\ n <= LeftUnannounced(w, n) + 1 \/ Cardinality(ReadyJobs') <= LeftUnannounced(w, n)
           /\ w \in woken => \/ n = LeftUnannounced(w, n)
                             \/ Cardinality(ReadyJobs') = LeftUnannounced(w, n)
<1>1. ReadyJobs' \in SUBSET Jobs
  BY DEF ReadyJobs
<1>2. Cardinality(ReadyJobs') \in Nat
  BY <1>1, FinitenessAssumption, FS_Subset, FS_CardinalityType
<1> QED
  BY <1>2 DEF LeftUnannounced

LEMMA QueueInvInit == Init => QueueInv
<1> SUFFICES ASSUME Init PROVE QueueInv
  OBVIOUS
<1> USE DEF Init, Held, NoEnvelope
<1>1. TypeOK
  BY DEF TypeOK, Steps
<1>2. KnownJobs /\ Counted
  BY DEF KnownJobs, Counted, StoredBehind, CarriedBehind, Working
<1>3. EnvelopeWhileQueued /\ OnePlaceUntilFinished
  BY DEF EnvelopeWhileQueued, OnePlaceUntilFinished, HasToken, Finished
<1> QED
  BY <1>1, <1>2, <1>3 DEF QueueInv

\* Taking a job from a supply in which every job is where the invariant says:
\* the step that ends a claim, after promotion or without.
Supply(supply, rest) ==
    /\ supply \in [Jobs -> Nat] /\ rest \in [Jobs -> {"none", "waiting", "due"}]
    /\ \A j \in Jobs : \/ supply[j] = ready[j] /\ rest[j] = scheduled[j]
                       \/ /\ scheduled[j] # "none" /\ rest[j] = "none"
                          /\ ready[j] = 0 /\ supply[j] = 1

LEMMA PromotionSupplies == ASSUME QueueInv PROVE Supply(Promoted, Awakened)
BY DEF QueueInv, TypeOK, OnePlaceUntilFinished, Supply, Promoted, Awakened, Due

LEMMA NothingDueSupplies == ASSUME QueueInv PROVE Supply(ready, scheduled)
BY DEF QueueInv, TypeOK, Supply

LEMMA ClaimStep ==
    ASSUME QueueInv, NEW w \in Workers, NEW supply, NEW rest, Supply(supply, rest),
           NEW j \in Jobs, ClaimFrom(w, j, supply), scheduled' = rest,
           unannounced' \in Nat, woken' \in SUBSET Workers
    PROVE  QueueInv'
<1> USE DEF QueueInv, Supply, ClaimFrom, Goto, Held
<1>0. envelopes[j] # NoEnvelope /\ envelopes[j] \in Nat /\ j \in known
  BY DEF TypeOK, EnvelopeWhileQueued, OnePlaceUntilFinished, HasToken, NoEnvelope
<1>1. TypeOK'
  BY <1>0 DEF TypeOK, Steps
<1>2. KnownJobs'
  BY <1>0 DEF TypeOK, KnownJobs, Working
<1>3. EnvelopeWhileQueued'
  <2> SUFFICES ASSUME NEW i \in Jobs
               PROVE  envelopes'[i] # NoEnvelope <=> HasToken(i)'
    BY DEF EnvelopeWhileQueued
  <2>1. CASE i = j
    BY <1>0, <2>1 DEF TypeOK, HasToken, NoEnvelope
  <2>2. CASE i # j
    BY <2>2 DEF TypeOK, EnvelopeWhileQueued, HasToken
  <2> QED
    BY <2>1, <2>2
<1>4. OnePlaceUntilFinished'
  <2> SUFFICES ASSUME NEW i \in Jobs
               PROVE  /\ ready'[i] <= 1 /\ dead'[i] <= 1
                      /\ ready'[i] > 0 => /\ ~Held(i)' /\ scheduled'[i] = "none"
                                          /\ dead'[i] = 0
                      /\ Held(i)' => scheduled'[i] = "none" /\ dead'[i] = 0
                      /\ scheduled'[i] # "none" => dead'[i] = 0
                      /\ HasToken(i)' <=> i \in known' /\ ~Finished(i)'
    BY DEF OnePlaceUntilFinished
  <2>1. CASE i = j
    BY <1>0, <2>1 DEF TypeOK, OnePlaceUntilFinished, HasToken, Finished
  <2>2. CASE i # j
    BY <2>2 DEF TypeOK, OnePlaceUntilFinished, HasToken, Finished
  <2> QED
    BY <2>1, <2>2
<1>5. Counted'
  <2>1. \A i \in Jobs :
            /\ envelopes'[i] <= claims'[i]
            /\ Held(i)' => claims'[i] > 0
            /\ dead'[i] > 0 => claims'[i] >= MaxAttempts
    BY <1>0, BoundsAssumption DEF TypeOK, Counted, StoredBehind
  <2>2. ASSUME NEW v \in Workers, Working(v)' PROVE attempt'[v] <= claims'[job'[v]]
    <3>1. CASE v = w
      BY <1>0, <3>1 DEF TypeOK, Counted, StoredBehind
    <3>2. CASE v # w
      <4>1. Working(v) /\ job[v] \in Jobs /\ attempt'[v] = attempt[v] /\ job'[v] = job[v]
        BY <2>2, <3>2 DEF TypeOK, KnownJobs, Working
      <4>2. attempt[v] \in Nat /\ claims[job[v]] \in Nat /\ claims'[job[v]] >= claims[job[v]]
        BY <4>1 DEF TypeOK
      <4> QED
        BY <4>1, <4>2 DEF Counted, CarriedBehind
    <3> QED
      BY <3>1, <3>2
  <2>3. StoredBehind'
    BY <2>1 DEF StoredBehind
  <2>4. CarriedBehind'
    BY <2>2 DEF CarriedBehind
  <2> QED
    BY <2>3, <2>4 DEF Counted
<1> QED
  BY <1>1, <1>2, <1>3, <1>4, <1>5

-----------------------------------------------------------------------------
(* Every action keeps the invariant.                                        *)

LEMMA QueueInvStep == QueueInv /\ [Next]_vars => QueueInv'
<1> SUFFICES ASSUME QueueInv, [Next]_vars PROVE QueueInv'
  OBVIOUS
<1> USE DEF QueueInv, Held, Goto, Rest, queue, local, history
<1>1. ASSUME NEW j \in Jobs, Enqueue(j) PROVE QueueInv'
  <2>1. TypeOK'
    BY <1>1, NotifyType, BoundsAssumption DEF Enqueue, Accept, TypeOK, Steps, NoEnvelope, KnownJobs, Working
  <2>2. KnownJobs'
    BY <1>1 DEF Enqueue, Accept, TypeOK, KnownJobs, Working
  <2>3. EnvelopeWhileQueued'
    BY <1>1 DEF Enqueue, Accept, TypeOK, KnownJobs, Working, EnvelopeWhileQueued,
       OnePlaceUntilFinished, HasToken, NoEnvelope
  <2>4. OnePlaceUntilFinished'
    BY <1>1 DEF Enqueue, Accept, TypeOK, KnownJobs, Working, OnePlaceUntilFinished,
       HasToken, Finished
  <2>5. Counted'
    BY <1>1, BoundsAssumption DEF Enqueue, Accept, TypeOK, KnownJobs, Working, OnePlaceUntilFinished, Counted,
     StoredBehind, CarriedBehind, HasToken, NoEnvelope
  <2> QED
    BY <2>1, <2>2, <2>3, <2>4, <2>5
<1>2. ASSUME NEW w \in Workers, RecoverStale(w) PROVE QueueInv'
  <2>1. TypeOK'
    BY <1>2, NotifyType, BoundsAssumption DEF RecoverStale, Recover, Stale, Buried, Exhausted, TypeOK, Steps, NoEnvelope, KnownJobs, Working
  <2>2. KnownJobs'
    BY <1>2 DEF RecoverStale, Recover, Stale, Buried, Exhausted, TypeOK, KnownJobs, Working
  <2>3. EnvelopeWhileQueued'
    BY <1>2 DEF RecoverStale, Recover, Stale, Buried, Exhausted, TypeOK, KnownJobs, Working, EnvelopeWhileQueued,
       OnePlaceUntilFinished, HasToken, NoEnvelope
  <2>4. OnePlaceUntilFinished'
    BY <1>2 DEF RecoverStale, Recover, Stale, Buried, Exhausted, TypeOK, KnownJobs, Working, OnePlaceUntilFinished,
       HasToken, Finished
  <2>5. Counted'
    BY <1>2, BoundsAssumption DEF RecoverStale, Recover, Stale, Buried, Exhausted, TypeOK, KnownJobs, Working, OnePlaceUntilFinished, Counted,
     StoredBehind, CarriedBehind, HasToken, NoEnvelope
  <2> QED
    BY <2>1, <2>2, <2>3, <2>4, <2>5
<1>3. ASSUME NEW w \in Workers, PromoteDue(w) PROVE QueueInv'
  <2>1. TypeOK'
    BY <1>3, DueIsFinite, BoundsAssumption DEF PromoteDue, Promoted, Awakened, Due, TypeOK, Steps, NoEnvelope, KnownJobs, Working
  <2>2. KnownJobs'
    BY <1>3 DEF PromoteDue, Promoted, Awakened, Due, TypeOK, KnownJobs, Working
  <2>3. EnvelopeWhileQueued'
    BY <1>3 DEF PromoteDue, Promoted, Awakened, Due, TypeOK, KnownJobs, Working, EnvelopeWhileQueued,
       OnePlaceUntilFinished, HasToken, NoEnvelope
  <2>4. OnePlaceUntilFinished'
    BY <1>3 DEF PromoteDue, Promoted, Awakened, Due, TypeOK, KnownJobs, Working, OnePlaceUntilFinished,
       HasToken, Finished
  <2>5. Counted'
    BY <1>3, BoundsAssumption DEF PromoteDue, Promoted, Awakened, Due, TypeOK, KnownJobs, Working, OnePlaceUntilFinished, Counted,
     StoredBehind, CarriedBehind, HasToken, NoEnvelope
  <2> QED
    BY <2>1, <2>2, <2>3, <2>4, <2>5
<1>4. ASSUME NEW w \in Workers, Take(w) PROVE QueueInv'
  <2>1. PICK j \in Jobs : ClaimFrom(w, j, ready)
    BY <1>4 DEF Take
  <2>2. scheduled' = scheduled /\ unannounced' \in Nat /\ woken' \in SUBSET Workers
    BY <1>4, LeftIsCount DEF Take, TypeOK
  <2> QED
    BY <2>1, <2>2, NothingDueSupplies, ClaimStep
<1>5. ASSUME NEW w \in Workers, Sleep(w) PROVE QueueInv'
  <2>1. TypeOK'
    BY <1>5, BoundsAssumption DEF Sleep, TypeOK, Steps, NoEnvelope, KnownJobs, Working
  <2>2. KnownJobs'
    BY <1>5 DEF Sleep, TypeOK, KnownJobs, Working
  <2>3. EnvelopeWhileQueued'
    BY <1>5 DEF Sleep, TypeOK, KnownJobs, Working, EnvelopeWhileQueued,
       OnePlaceUntilFinished, HasToken, NoEnvelope
  <2>4. OnePlaceUntilFinished'
    BY <1>5 DEF Sleep, TypeOK, KnownJobs, Working, OnePlaceUntilFinished,
       HasToken, Finished
  <2>5. Counted'
    BY <1>5, BoundsAssumption DEF Sleep, TypeOK, KnownJobs, Working, OnePlaceUntilFinished, Counted,
     StoredBehind, CarriedBehind, HasToken, NoEnvelope
  <2> QED
    BY <2>1, <2>2, <2>3, <2>4, <2>5
<1>6. ASSUME NEW w \in Workers, Wake(w) PROVE QueueInv'
  <2>0. unannounced \in Nat /\ unannounced + Cardinality(Due) \in Nat
    BY DueIsFinite DEF TypeOK
  <2>1. /\ scheduled' = Awakened /\ unannounced' \in Nat
        /\ woken' \in SUBSET Workers
    BY <1>6, <2>0, LeftIsCount DEF Wake, TypeOK
  <2>2. CASE \E j \in Jobs : ClaimFrom(w, j, Promoted)
    BY <2>1, <2>2, PromotionSupplies, ClaimStep
  <2>3. CASE /\ \A j \in Jobs : Promoted[j] = 0
             /\ ready' = Promoted
             /\ Rest(w) \/ UNCHANGED local
             /\ UNCHANGED <<known, inflight, envelopes, dead,
                            claims, acked, drained, unannounced, lapses>>
    <3>0. \A j \in Jobs : scheduled'[j] = scheduled[j] /\ ready'[j] = ready[j]
      BY <2>1, <2>3 DEF TypeOK, Promoted, Awakened, Due
    <3>6. ready' \in [Jobs -> Nat] /\ scheduled' \in [Jobs -> {"none", "waiting", "due"}]
      BY <2>1, <2>3 DEF TypeOK, Promoted, Awakened, Due
    <3>1. TypeOK'
      BY <2>1, <2>3, <3>0, <3>6, BoundsAssumption DEF TypeOK, Steps, NoEnvelope, KnownJobs, Working
    <3>2. KnownJobs'
      BY <2>1, <2>3, <3>0, <3>6 DEF TypeOK, KnownJobs, Working
    <3>3. EnvelopeWhileQueued'
      BY <2>1, <2>3, <3>0, <3>6 DEF TypeOK, KnownJobs, Working, EnvelopeWhileQueued,
         OnePlaceUntilFinished, HasToken, NoEnvelope
    <3>4. OnePlaceUntilFinished'
      BY <2>1, <2>3, <3>0, <3>6 DEF TypeOK, KnownJobs, Working, OnePlaceUntilFinished,
         HasToken, Finished
    <3>5. Counted'
      BY <2>1, <2>3, <3>0, <3>6, BoundsAssumption DEF TypeOK, KnownJobs, Working, OnePlaceUntilFinished, Counted,
     StoredBehind, CarriedBehind, HasToken, NoEnvelope
    <3> QED
      BY <3>1, <3>2, <3>3, <3>4, <3>5
  <2> QED
    BY <1>6, <2>2, <2>3 DEF Wake
<1>7. ASSUME NEW w \in Workers, Heartbeat(w) PROVE QueueInv'
  <2>1. TypeOK'
    BY <1>7, BoundsAssumption DEF Heartbeat, TypeOK, Steps, NoEnvelope, KnownJobs, Working
  <2>2. KnownJobs'
    BY <1>7 DEF Heartbeat, TypeOK, KnownJobs, Working
  <2>3. EnvelopeWhileQueued'
    BY <1>7 DEF Heartbeat, TypeOK, KnownJobs, Working, EnvelopeWhileQueued,
       OnePlaceUntilFinished, HasToken, NoEnvelope
  <2>4. OnePlaceUntilFinished'
    BY <1>7 DEF Heartbeat, TypeOK, KnownJobs, Working, OnePlaceUntilFinished,
       HasToken, Finished
  <2>5. Counted'
    BY <1>7, BoundsAssumption DEF Heartbeat, TypeOK, KnownJobs, Working, OnePlaceUntilFinished, Counted,
     StoredBehind, CarriedBehind, HasToken, NoEnvelope
  <2> QED
    BY <2>1, <2>2, <2>3, <2>4, <2>5
<1>8. ASSUME NEW w \in Workers, Succeed(w) \/ Fail(w) PROVE QueueInv'
  <2>1. TypeOK'
    BY <1>8, BoundsAssumption DEF Succeed, Fail, ProcessorEnds, TypeOK, Steps, NoEnvelope, KnownJobs, Working
  <2>2. KnownJobs'
    BY <1>8 DEF Succeed, Fail, ProcessorEnds, TypeOK, KnownJobs, Working
  <2>3. EnvelopeWhileQueued'
    BY <1>8 DEF Succeed, Fail, ProcessorEnds, TypeOK, KnownJobs, Working, EnvelopeWhileQueued,
       OnePlaceUntilFinished, HasToken, NoEnvelope
  <2>4. OnePlaceUntilFinished'
    BY <1>8 DEF Succeed, Fail, ProcessorEnds, TypeOK, KnownJobs, Working, OnePlaceUntilFinished,
       HasToken, Finished
  <2>5. Counted'
    BY <1>8, BoundsAssumption DEF Succeed, Fail, ProcessorEnds, TypeOK, KnownJobs, Working, OnePlaceUntilFinished, Counted,
     StoredBehind, CarriedBehind, HasToken, NoEnvelope
  <2> QED
    BY <2>1, <2>2, <2>3, <2>4, <2>5
<1>9. ASSUME NEW w \in Workers, Ack(w) PROVE QueueInv'
  <2>1. TypeOK'
    BY <1>9, BoundsAssumption DEF Ack, TypeOK, Steps, NoEnvelope, KnownJobs, Working
  <2>2. KnownJobs'
    BY <1>9 DEF Ack, TypeOK, KnownJobs, Working
  <2>3. EnvelopeWhileQueued'
    BY <1>9 DEF Ack, TypeOK, KnownJobs, Working, EnvelopeWhileQueued,
       OnePlaceUntilFinished, HasToken, NoEnvelope
  <2>4. OnePlaceUntilFinished'
    BY <1>9 DEF Ack, TypeOK, KnownJobs, Working, OnePlaceUntilFinished,
       HasToken, Finished
  <2>5. Counted'
    BY <1>9, BoundsAssumption DEF Ack, TypeOK, KnownJobs, Working, OnePlaceUntilFinished, Counted,
     StoredBehind, CarriedBehind, HasToken, NoEnvelope
  <2> QED
    BY <2>1, <2>2, <2>3, <2>4, <2>5
<1>10. ASSUME NEW w \in Workers, Retry(w) PROVE QueueInv'
  <2>1. TypeOK'
    BY <1>10, NotifyType, BoundsAssumption DEF Retry, RetryHeld, Exhausted, TypeOK, Steps, NoEnvelope, KnownJobs, Working
  <2>2. KnownJobs'
    BY <1>10 DEF Retry, RetryHeld, Exhausted, TypeOK, KnownJobs, Working
  <2>3. EnvelopeWhileQueued'
    BY <1>10 DEF Retry, RetryHeld, Exhausted, TypeOK, KnownJobs, Working, EnvelopeWhileQueued,
       OnePlaceUntilFinished, HasToken, NoEnvelope
  <2>4. OnePlaceUntilFinished'
    BY <1>10 DEF Retry, RetryHeld, Exhausted, TypeOK, KnownJobs, Working, OnePlaceUntilFinished,
       HasToken, Finished
  <2>5. Counted'
    BY <1>10, BoundsAssumption DEF Retry, RetryHeld, Exhausted, TypeOK, KnownJobs, Working, OnePlaceUntilFinished, Counted,
     StoredBehind, CarriedBehind, HasToken, NoEnvelope
  <2> QED
    BY <2>1, <2>2, <2>3, <2>4, <2>5
<1>11. ASSUME NEW j \in Jobs, RemoveDead(j) PROVE QueueInv'
  <2>1. TypeOK'
    BY <1>11, BoundsAssumption DEF RemoveDead, TypeOK, Steps, NoEnvelope, KnownJobs, Working
  <2>2. KnownJobs'
    BY <1>11 DEF RemoveDead, TypeOK, KnownJobs, Working, OnePlaceUntilFinished,
       HasToken
  <2>3. EnvelopeWhileQueued'
    BY <1>11 DEF RemoveDead, TypeOK, KnownJobs, Working, EnvelopeWhileQueued,
       OnePlaceUntilFinished, HasToken, NoEnvelope
  <2>4. OnePlaceUntilFinished'
    BY <1>11 DEF RemoveDead, TypeOK, KnownJobs, Working, OnePlaceUntilFinished,
       HasToken, Finished
  <2>5. Counted'
    BY <1>11, BoundsAssumption DEF RemoveDead, TypeOK, KnownJobs, Working, OnePlaceUntilFinished, Counted,
     StoredBehind, CarriedBehind, HasToken, NoEnvelope
  <2> QED
    BY <2>1, <2>2, <2>3, <2>4, <2>5
<1>12. ASSUME NEW j \in Jobs, LeaseLapses(j) PROVE QueueInv'
  <2>1. TypeOK'
    BY <1>12, BoundsAssumption DEF LeaseLapses, TypeOK, Steps, NoEnvelope, KnownJobs, Working
  <2>2. KnownJobs'
    BY <1>12 DEF LeaseLapses, TypeOK, KnownJobs, Working
  <2>3. EnvelopeWhileQueued'
    BY <1>12 DEF LeaseLapses, TypeOK, KnownJobs, Working, EnvelopeWhileQueued,
       OnePlaceUntilFinished, HasToken, NoEnvelope
  <2>4. OnePlaceUntilFinished'
    BY <1>12 DEF LeaseLapses, TypeOK, KnownJobs, Working, OnePlaceUntilFinished,
       HasToken, Finished
  <2>5. Counted'
    BY <1>12, BoundsAssumption DEF LeaseLapses, TypeOK, KnownJobs, Working, OnePlaceUntilFinished, Counted,
     StoredBehind, CarriedBehind, HasToken, NoEnvelope
  <2> QED
    BY <2>1, <2>2, <2>3, <2>4, <2>5
<1>13. ASSUME NEW j \in Jobs, RetryDue(j) PROVE QueueInv'
  <2>1. TypeOK'
    BY <1>13, BoundsAssumption DEF RetryDue, TypeOK, Steps, NoEnvelope, KnownJobs, Working
  <2>2. KnownJobs'
    BY <1>13 DEF RetryDue, TypeOK, KnownJobs, Working
  <2>3. EnvelopeWhileQueued'
    BY <1>13 DEF RetryDue, TypeOK, KnownJobs, Working, EnvelopeWhileQueued,
       OnePlaceUntilFinished, HasToken, NoEnvelope
  <2>4. OnePlaceUntilFinished'
    BY <1>13 DEF RetryDue, TypeOK, KnownJobs, Working, OnePlaceUntilFinished,
       HasToken, Finished
  <2>5. Counted'
    BY <1>13, BoundsAssumption DEF RetryDue, TypeOK, KnownJobs, Working, OnePlaceUntilFinished, Counted,
     StoredBehind, CarriedBehind, HasToken, NoEnvelope
  <2> QED
    BY <2>1, <2>2, <2>3, <2>4, <2>5
<1>14. CASE UNCHANGED vars
  <2>1. TypeOK'
    BY <1>14, BoundsAssumption DEF vars, TypeOK, Steps, NoEnvelope, KnownJobs, Working
  <2>2. KnownJobs'
    BY <1>14 DEF vars, TypeOK, KnownJobs, Working
  <2>3. EnvelopeWhileQueued'
    BY <1>14 DEF vars, TypeOK, KnownJobs, Working, EnvelopeWhileQueued,
       OnePlaceUntilFinished, HasToken, NoEnvelope
  <2>4. OnePlaceUntilFinished'
    BY <1>14 DEF vars, TypeOK, KnownJobs, Working, OnePlaceUntilFinished,
       HasToken, Finished
  <2>5. Counted'
    BY <1>14, BoundsAssumption DEF vars, TypeOK, KnownJobs, Working, OnePlaceUntilFinished, Counted,
     StoredBehind, CarriedBehind, HasToken, NoEnvelope
  <2> QED
    BY <2>1, <2>2, <2>3, <2>4, <2>5
<1> QED
  BY <1>1, <1>2, <1>3, <1>4, <1>5, <1>6, <1>7, <1>8, <1>9, <1>10, <1>11, <1>12, <1>13, <1>14
  DEF Next, Claim, Work

\* The queue and its workers keep their types.
THEOREM MemoryTypes == Spec => []TypeOK
<1>1. QueueInv => TypeOK
  BY DEF QueueInv
<1> QED
  BY <1>1, QueueInvInit, QueueInvStep, PTL DEF Spec

\* Whatever the workers of the process do and however late they do it, a job
\* has an envelope exactly as long as it is in the queue.
THEOREM MemoryKeepsEnvelopes == Spec => []EnvelopeWhileQueued
<1>1. QueueInv => EnvelopeWhileQueued
  BY DEF QueueInv
<1> QED
  BY <1>1, QueueInvInit, QueueInvStep, PTL DEF Spec

\* A job is in one place, once, from its acceptance until it is finished: none
\* is lost, duplicated or revived.
THEOREM MemoryKeepsJobs == Spec => []OnePlaceUntilFinished
<1>1. QueueInv => OnePlaceUntilFinished
  BY DEF QueueInv
<1> QED
  BY <1>1, QueueInvInit, QueueInvStep, PTL DEF Spec

-----------------------------------------------------------------------------
(* The promise: every step makes at most one abstract move of each job.     *)

Edge(j, from, to) == Place[j] = from /\ Place'[j] = to /\ claims'[j] = claims[j]
AbstractMove(j) ==
    \/ Edge(j, "absent", "ready")
    \/ Edge(j, "inflight", "ready")
    \/ Edge(j, "inflight", "scheduled")
    \/ Edge(j, "scheduled", "ready")
    \/ Edge(j, "dead", "done")
    \/ claims[j] > 0 /\ Edge(j, "inflight", "done")
    \/ claims[j] >= MaxAttempts /\ Edge(j, "inflight", "dead")
    \/ /\ Place[j] \in {"ready", "scheduled"} /\ Place'[j] = "inflight"
       /\ claims'[j] = claims[j] + 1
    \/ Place'[j] = Place[j] /\ claims'[j] = claims[j]

LEMMA AbstractMoves ==
    ASSUME NEW j \in Jobs, AbstractMove(j)
    PROVE  [Reliable(j)!Next]_(Reliable(j)!vars)
BY DEF AbstractMove, Edge, Reliable!vars, Reliable!Next, Reliable!Accept,
       Reliable!GiveBack, Reliable!Delay, Reliable!Wake, Reliable!Drain,
       Reliable!Finish, Reliable!Bury, Reliable!Claim, Reliable!Move

LEMMA RefineStep ==
    ASSUME QueueInv, [Next]_vars, NEW j \in Jobs PROVE AbstractMove(j)
<1> USE DEF QueueInv, Held, Goto, Rest, queue, local, history
<1> DEFINE P == IF ready[j] > 0 THEN "ready" ELSE
                IF Held(j) THEN "inflight" ELSE
                IF scheduled[j] # "none" THEN "scheduled" ELSE
                IF dead[j] > 0 THEN "dead" ELSE
                IF j \in known THEN "done" ELSE "absent"
<1>0. Place[j] = P /\ Place'[j] = P'
  BY DEF Place
<1> HIDE DEF P
<1>1. ASSUME NEW i \in Jobs, Enqueue(i) PROVE AbstractMove(j)
  BY <1>0, <1>1, BoundsAssumption DEF Enqueue, Accept, P, TypeOK, Counted,
     StoredBehind, OnePlaceUntilFinished, HasToken, Finished, AbstractMove, Edge
<1>2. ASSUME NEW w \in Workers, RecoverStale(w) PROVE AbstractMove(j)
  <2>1. /\ inflight'[j] = IF j \in Stale THEN "none" ELSE inflight[j]
        /\ ready'[j] = IF j \in Stale \ Buried THEN ready[j] + 1 ELSE ready[j]
        /\ dead'[j] = IF j \in Buried THEN dead[j] + 1 ELSE dead[j]
        /\ scheduled' = scheduled /\ known' = known /\ claims' = claims
    BY <1>2 DEF RecoverStale, Recover
  <2>2. ready[j] \in Nat /\ dead[j] \in Nat /\ claims[j] \in Nat
        /\ envelopes[j] \in Int
    BY DEF TypeOK, NoEnvelope
  <2>3. CASE j \in Stale
    <3>1. Place[j] = "inflight" /\ ready[j] = 0 /\ dead[j] = 0
          /\ scheduled[j] = "none" /\ inflight[j] # "none"
      BY <1>0, <2>2, <2>3 DEF P, Stale, OnePlaceUntilFinished
    <3>2. CASE j \in Buried
      BY <1>0, <2>1, <2>2, <2>3, <3>1, <3>2, BoundsAssumption
      DEF P, Buried, Exhausted, Counted, StoredBehind, AbstractMove, Edge
    <3>3. CASE j \notin Buried
      BY <1>0, <2>1, <2>2, <2>3, <3>1, <3>3 DEF P, AbstractMove, Edge
    <3> QED
      BY <3>2, <3>3
  <2>4. CASE j \notin Stale
    <3>1. j \notin Buried
      BY <2>4 DEF Buried
    <3> QED
      BY <1>0, <2>1, <2>4, <3>1 DEF P, AbstractMove, Edge
  <2> QED
    BY <2>3, <2>4
<1>3. ASSUME NEW w \in Workers, PromoteDue(w) PROVE AbstractMove(j)
  BY <1>0, <1>3, BoundsAssumption DEF PromoteDue, Promoted, Awakened, Due, P, TypeOK, Counted,
     StoredBehind, OnePlaceUntilFinished, HasToken, Finished, AbstractMove, Edge
<1>4. ASSUME NEW w \in Workers, Take(w) PROVE AbstractMove(j)
  BY <1>0, <1>4, BoundsAssumption DEF Take, ClaimFrom, P, TypeOK, Counted,
     StoredBehind, OnePlaceUntilFinished, HasToken, Finished, AbstractMove, Edge
<1>5. ASSUME NEW w \in Workers, Sleep(w) PROVE AbstractMove(j)
  BY <1>0, <1>5, BoundsAssumption DEF Sleep, P, TypeOK, Counted,
     StoredBehind, OnePlaceUntilFinished, HasToken, Finished, AbstractMove, Edge
<1>6. ASSUME NEW w \in Workers, Wake(w) PROVE AbstractMove(j)
  <2>1. /\ scheduled'[j] = IF scheduled[j] = "due" THEN "none" ELSE scheduled[j]
        /\ Promoted[j] = IF scheduled[j] = "due" THEN ready[j] + 1 ELSE ready[j]
        /\ known' = known /\ dead' = dead
    BY <1>6 DEF Wake, ClaimFrom, Awakened, Promoted, Due
  <2>2. Promoted \in [Jobs -> Nat]
    BY DEF TypeOK, Promoted
  <2>3. CASE \E k \in Jobs : ClaimFrom(w, k, Promoted)
    <3>1. PICK k \in Jobs : ClaimFrom(w, k, Promoted)
      BY <2>3
    <3>2. CASE k = j
      BY <1>0, <2>1, <2>2, <3>1, <3>2
      DEF ClaimFrom, P, TypeOK, OnePlaceUntilFinished, AbstractMove, Edge
    <3>3. CASE k # j
      BY <1>0, <2>1, <2>2, <3>1, <3>3
      DEF ClaimFrom, P, TypeOK, OnePlaceUntilFinished, AbstractMove, Edge
    <3> QED
      BY <3>2, <3>3
  <2>4. CASE ready' = Promoted /\ inflight' = inflight /\ claims' = claims
    BY <1>0, <2>1, <2>4
    DEF P, TypeOK, OnePlaceUntilFinished, AbstractMove, Edge
  <2> QED
    BY <1>6, <2>3, <2>4 DEF Wake
<1>7. ASSUME NEW w \in Workers, Heartbeat(w) PROVE AbstractMove(j)
  BY <1>0, <1>7, BoundsAssumption DEF Heartbeat, P, TypeOK, Counted,
     StoredBehind, OnePlaceUntilFinished, HasToken, Finished, AbstractMove, Edge
<1>8. ASSUME NEW w \in Workers, Succeed(w) \/ Fail(w) PROVE AbstractMove(j)
  BY <1>0, <1>8, BoundsAssumption DEF Succeed, Fail, ProcessorEnds, P, TypeOK, Counted,
     StoredBehind, OnePlaceUntilFinished, HasToken, Finished, AbstractMove, Edge
<1>9. ASSUME NEW w \in Workers, Ack(w) PROVE AbstractMove(j)
  BY <1>0, <1>9, BoundsAssumption DEF Ack, KnownJobs, Working, P, TypeOK, Counted,
     StoredBehind, OnePlaceUntilFinished, HasToken, Finished, AbstractMove, Edge
<1>10. ASSUME NEW w \in Workers, Retry(w) PROVE AbstractMove(j)
  BY <1>0, <1>10, BoundsAssumption DEF Retry, RetryHeld, Exhausted, KnownJobs, Working, CarriedBehind, P, TypeOK, Counted,
     StoredBehind, OnePlaceUntilFinished, HasToken, Finished, AbstractMove, Edge
<1>11. ASSUME NEW i \in Jobs, RemoveDead(i) PROVE AbstractMove(j)
  BY <1>0, <1>11, BoundsAssumption DEF RemoveDead, P, TypeOK, Counted,
     StoredBehind, OnePlaceUntilFinished, HasToken, Finished, AbstractMove, Edge
<1>12. ASSUME NEW i \in Jobs, LeaseLapses(i) PROVE AbstractMove(j)
  BY <1>0, <1>12, BoundsAssumption DEF LeaseLapses, P, TypeOK, Counted,
     StoredBehind, OnePlaceUntilFinished, HasToken, Finished, AbstractMove, Edge
<1>13. ASSUME NEW i \in Jobs, RetryDue(i) PROVE AbstractMove(j)
  BY <1>0, <1>13, BoundsAssumption DEF RetryDue, P, TypeOK, Counted,
     StoredBehind, OnePlaceUntilFinished, HasToken, Finished, AbstractMove, Edge
<1>14. CASE UNCHANGED vars
  BY <1>0, <1>14 DEF vars, P, AbstractMove, Edge
<1> QED
  BY <1>1, <1>2, <1>3, <1>4, <1>5, <1>6, <1>7, <1>8, <1>9, <1>10, <1>11, <1>12, <1>13, <1>14
  DEF Next, Claim, Work

\* The memory backend implements the promise for each job: the places of
\* ReliableQueue are its dictionaries, and a claim is a job handed over.
THEOREM MemoryImplementsPromise == Spec => KeepsPromise
<1>1. Init => \A j \in Jobs : Reliable(j)!Init
  BY DEF Init, Reliable!Init, Place, Held
<1>2. QueueInv /\ [Next]_vars =>
          [\A j \in Jobs : [Reliable(j)!Next]_(Reliable(j)!vars)]_vars
  BY RefineStep, AbstractMoves
<1> QED
  BY <1>1, <1>2, QueueInvInit, QueueInvStep, PTL DEF Spec, KeepsPromise

-----------------------------------------------------------------------------
(* A queue in which no lease ran out: nothing is recovered, each claim has  *)
(* one worker, and every attempt count is the number of claims.             *)

OneWorker ==
    /\ \A j \in Jobs : inflight[j] # "expired"
    /\ \A w \in Workers : Working(w) =>
           inflight[job[w]] = "live" /\ attempt[w] = envelopes[job[w]]
    /\ \A v, w \in Workers :
           Working(v) /\ Working(w) /\ job[v] = job[w] => v = w
ExactCounts == \A j \in Jobs :
    /\ envelopes[j] # NoEnvelope => envelopes[j] = claims[j]
    /\ j \notin known => claims[j] = 0
    /\ claims[j] <= MaxAttempts
    /\ ready[j] > 0 \/ scheduled[j] # "none" => claims[j] < MaxAttempts
    /\ dead[j] > 0 => claims[j] = MaxAttempts
HealthyInv == lapses = 0 => OneWorker /\ ExactCounts

LEMMA HealthyInit == Init => HealthyInv
BY BoundsAssumption DEF Init, HealthyInv, OneWorker, ExactCounts, Working, NoEnvelope

LEMMA HealthyClaim ==
    ASSUME QueueInv, OneWorker, ExactCounts,
           NEW w \in Workers, NEW supply, NEW rest, Supply(supply, rest),
           NEW j \in Jobs, ClaimFrom(w, j, supply), scheduled' = rest, pc[w] \in {"take", "wait"}
    PROVE  OneWorker' /\ ExactCounts'
<1> USE DEF QueueInv, Supply, ClaimFrom, Goto, Held
<1>1. /\ envelopes[j] # NoEnvelope /\ envelopes[j] \in Nat /\ j \in known
      /\ inflight[j] = "none" /\ dead[j] = 0 /\ claims[j] < MaxAttempts
      /\ supply[j] = 1 /\ rest[j] = "none" /\ claims[j] \in Nat
  BY DEF TypeOK, EnvelopeWhileQueued, OnePlaceUntilFinished, HasToken, NoEnvelope, ExactCounts
<1>2. \A v \in Workers : Working(v) => job[v] # j
  BY <1>1 DEF OneWorker
<1>3. OneWorker'
  BY <1>1, <1>2 DEF TypeOK, KnownJobs, OneWorker, Working
<1>4. ExactCounts'
  <2> SUFFICES ASSUME NEW i \in Jobs
               PROVE  /\ envelopes'[i] # NoEnvelope => envelopes'[i] = claims'[i]
                      /\ i \notin known' => claims'[i] = 0
                      /\ claims'[i] <= MaxAttempts
                      /\ ready'[i] > 0 \/ scheduled'[i] # "none" => claims'[i] < MaxAttempts
                      /\ dead'[i] > 0 => claims'[i] = MaxAttempts
    BY DEF ExactCounts
  <2>1. CASE i = j
    BY <1>1, <2>1, BoundsAssumption DEF TypeOK, ExactCounts
  <2>2. CASE i # j
    BY <2>2 DEF TypeOK, ExactCounts
  <2> QED
    BY <2>1, <2>2
<1> QED
  BY <1>3, <1>4

LEMMA HealthyStep == QueueInv /\ HealthyInv /\ [Next]_vars => HealthyInv'
<1> SUFFICES ASSUME QueueInv, HealthyInv, [Next]_vars, lapses' = 0
             PROVE  OneWorker' /\ ExactCounts'
  BY DEF HealthyInv
<1> USE DEF QueueInv, Held, Goto, Rest, queue, local, history
<1>0. lapses = 0 /\ OneWorker /\ ExactCounts
  <2>1. lapses = 0
    BY DEF Next, Claim, Work, Enqueue, Accept, RecoverStale, Recover, PromoteDue,
       Take, ClaimFrom, Sleep, Wake, Heartbeat, Succeed, Fail, ProcessorEnds,
       Ack, Retry, RemoveDead, LeaseLapses, RetryDue, TypeOK, vars
  <2> QED
    BY <2>1 DEF HealthyInv
<1>1. ASSUME NEW j \in Jobs, Enqueue(j) PROVE OneWorker' /\ ExactCounts'
  <2>1. OneWorker'
    BY <1>0, <1>1 DEF Enqueue, Accept, TypeOK, KnownJobs, Working, OneWorker,
       OnePlaceUntilFinished
  <2>2. ExactCounts'
    BY <1>0, <1>1, BoundsAssumption DEF Enqueue, Accept, TypeOK, KnownJobs, Working,
       OneWorker, ExactCounts, OnePlaceUntilFinished, EnvelopeWhileQueued,
       HasToken, NoEnvelope
  <2> QED
    BY <2>1, <2>2
<1>2. ASSUME NEW w \in Workers, RecoverStale(w) PROVE OneWorker' /\ ExactCounts'
  <2>1. OneWorker'
    BY <1>0, <1>2 DEF RecoverStale, Recover, Stale, Buried, TypeOK, KnownJobs, Working, OneWorker,
       OnePlaceUntilFinished
  <2>2. ExactCounts'
    BY <1>0, <1>2, BoundsAssumption DEF RecoverStale, Recover, Stale, Buried, TypeOK, KnownJobs, Working,
       OneWorker, ExactCounts, OnePlaceUntilFinished, EnvelopeWhileQueued,
       HasToken, NoEnvelope
  <2> QED
    BY <2>1, <2>2
<1>3. ASSUME NEW w \in Workers, PromoteDue(w) PROVE OneWorker' /\ ExactCounts'
  <2>1. OneWorker'
    BY <1>0, <1>3 DEF PromoteDue, Promoted, Awakened, Due, TypeOK, KnownJobs, Working, OneWorker,
       OnePlaceUntilFinished
  <2>2. ExactCounts'
    BY <1>0, <1>3, BoundsAssumption DEF PromoteDue, Promoted, Awakened, Due, TypeOK, KnownJobs, Working,
       OneWorker, ExactCounts, OnePlaceUntilFinished, EnvelopeWhileQueued,
       HasToken, NoEnvelope
  <2> QED
    BY <2>1, <2>2
<1>4. ASSUME NEW w \in Workers, Take(w) PROVE OneWorker' /\ ExactCounts'
  <2>1. PICK j \in Jobs : ClaimFrom(w, j, ready)
    BY <1>4 DEF Take
  <2>2. scheduled' = scheduled /\ pc[w] = "take"
    BY <1>4 DEF Take
  <2> QED
    BY <1>0, <2>1, <2>2, NothingDueSupplies, HealthyClaim
<1>5. ASSUME NEW w \in Workers, Sleep(w) PROVE OneWorker' /\ ExactCounts'
  <2>1. OneWorker'
    BY <1>0, <1>5 DEF Sleep, TypeOK, KnownJobs, Working, OneWorker,
       OnePlaceUntilFinished
  <2>2. ExactCounts'
    BY <1>0, <1>5, BoundsAssumption DEF Sleep, TypeOK, KnownJobs, Working,
       OneWorker, ExactCounts, OnePlaceUntilFinished, EnvelopeWhileQueued,
       HasToken, NoEnvelope
  <2> QED
    BY <2>1, <2>2
<1>6. ASSUME NEW w \in Workers, Wake(w) PROVE OneWorker' /\ ExactCounts'
  <2>1. scheduled' = Awakened /\ pc[w] = "wait"
    BY <1>6 DEF Wake
  <2>2. CASE \E j \in Jobs : ClaimFrom(w, j, Promoted)
    BY <1>0, <2>1, <2>2, PromotionSupplies, HealthyClaim
  <2>3. CASE /\ \A j \in Jobs : Promoted[j] = 0
             /\ ready' = Promoted
             /\ Rest(w) \/ UNCHANGED local
             /\ UNCHANGED <<known, inflight, envelopes, dead,
                            claims, acked, drained, unannounced, lapses>>
    <3>3. \A j \in Jobs : scheduled'[j] = scheduled[j] /\ ready'[j] = ready[j]
      BY <2>1, <2>3 DEF TypeOK, Promoted, Awakened, Due
    <3>1. OneWorker'
      BY <1>0, <2>1, <2>3, <3>3 DEF local, TypeOK, KnownJobs, Working, OneWorker,
         OnePlaceUntilFinished
    <3>2. ExactCounts'
      BY <1>0, <2>1, <2>3, <3>3, BoundsAssumption DEF local, TypeOK, KnownJobs, Working,
         OneWorker, ExactCounts, OnePlaceUntilFinished, EnvelopeWhileQueued,
         HasToken, NoEnvelope
    <3> QED
      BY <3>1, <3>2
  <2> QED
    BY <1>6, <2>2, <2>3 DEF Wake
<1>7. ASSUME NEW w \in Workers, Heartbeat(w) PROVE OneWorker' /\ ExactCounts'
  <2>1. OneWorker'
    BY <1>0, <1>7 DEF Heartbeat, TypeOK, KnownJobs, Working, OneWorker,
       OnePlaceUntilFinished
  <2>2. ExactCounts'
    BY <1>0, <1>7, BoundsAssumption DEF Heartbeat, TypeOK, KnownJobs, Working,
       OneWorker, ExactCounts, OnePlaceUntilFinished, EnvelopeWhileQueued,
       HasToken, NoEnvelope
  <2> QED
    BY <2>1, <2>2
<1>8. ASSUME NEW w \in Workers, Succeed(w) \/ Fail(w) PROVE OneWorker' /\ ExactCounts'
  <2>1. OneWorker'
    BY <1>0, <1>8 DEF Succeed, Fail, ProcessorEnds, TypeOK, KnownJobs, Working, OneWorker,
       OnePlaceUntilFinished
  <2>2. ExactCounts'
    BY <1>0, <1>8, BoundsAssumption DEF Succeed, Fail, ProcessorEnds, TypeOK, KnownJobs, Working,
       OneWorker, ExactCounts, OnePlaceUntilFinished, EnvelopeWhileQueued,
       HasToken, NoEnvelope
  <2> QED
    BY <2>1, <2>2
<1>9. ASSUME NEW w \in Workers, Ack(w) PROVE OneWorker' /\ ExactCounts'
  <2>1. OneWorker'
    BY <1>0, <1>9 DEF Ack, TypeOK, KnownJobs, Working, OneWorker,
       OnePlaceUntilFinished
  <2>2. ExactCounts'
    BY <1>0, <1>9, BoundsAssumption DEF Ack, TypeOK, KnownJobs, Working,
       OneWorker, ExactCounts, OnePlaceUntilFinished, EnvelopeWhileQueued,
       HasToken, NoEnvelope
  <2> QED
    BY <2>1, <2>2
<1>10. ASSUME NEW w \in Workers, Retry(w) PROVE OneWorker' /\ ExactCounts'
  <2>1. OneWorker'
    BY <1>0, <1>10 DEF Retry, RetryHeld, Exhausted, TypeOK, KnownJobs, Working, OneWorker,
       OnePlaceUntilFinished
  <2>2. ExactCounts'
    <3>1. /\ job[w] \in Jobs /\ inflight[job[w]] = "live"
          /\ attempt[w] = envelopes[job[w]] /\ attempt[w] = claims[job[w]]
          /\ attempt[w] \in Nat /\ job[w] \in known
      BY <1>0, <1>10 DEF Retry, TypeOK, KnownJobs, Working, OneWorker, ExactCounts,
         NoEnvelope
    <3>2. RetryHeld(w) /\ UNCHANGED <<known, ready, history>>
      BY <1>10, <3>1 DEF Retry
    <3> SUFFICES ASSUME NEW i \in Jobs
                 PROVE  /\ envelopes'[i] # NoEnvelope => envelopes'[i] = claims'[i]
                        /\ i \notin known' => claims'[i] = 0
                        /\ claims'[i] <= MaxAttempts
                        /\ ready'[i] > 0 \/ scheduled'[i] # "none" => claims'[i] < MaxAttempts
                        /\ dead'[i] > 0 => claims'[i] = MaxAttempts
      BY DEF ExactCounts
    <3>3. CASE i # job[w]
      BY <1>0, <3>1, <3>2, <3>3 DEF RetryHeld, TypeOK, ExactCounts
    <3>4. CASE i = job[w]
      <4>1. /\ ready[i] = 0 /\ dead[i] = 0 /\ scheduled[i] = "none"
            /\ claims[i] <= MaxAttempts /\ claims[i] \in Nat
        BY <1>0, <3>1, <3>4 DEF TypeOK, OnePlaceUntilFinished, ExactCounts
      <4> QED
        BY <3>1, <3>2, <3>4, <4>1, BoundsAssumption DEF RetryHeld, Exhausted, TypeOK
    <3> QED
      BY <3>3, <3>4
  <2> QED
    BY <2>1, <2>2
<1>11. ASSUME NEW j \in Jobs, RemoveDead(j) PROVE OneWorker' /\ ExactCounts'
  <2>1. OneWorker'
    BY <1>0, <1>11 DEF RemoveDead, TypeOK, KnownJobs, Working, OneWorker,
       OnePlaceUntilFinished
  <2>2. ExactCounts'
    BY <1>0, <1>11, BoundsAssumption DEF RemoveDead, TypeOK, KnownJobs, Working,
       OneWorker, ExactCounts, OnePlaceUntilFinished, EnvelopeWhileQueued,
       HasToken, NoEnvelope
  <2> QED
    BY <2>1, <2>2
<1>12. ASSUME NEW j \in Jobs, RetryDue(j) PROVE OneWorker' /\ ExactCounts'
  <2>1. OneWorker'
    BY <1>0, <1>12 DEF RetryDue, TypeOK, KnownJobs, Working, OneWorker,
       OnePlaceUntilFinished
  <2>2. ExactCounts'
    BY <1>0, <1>12, BoundsAssumption DEF RetryDue, TypeOK, KnownJobs, Working,
       OneWorker, ExactCounts, OnePlaceUntilFinished, EnvelopeWhileQueued,
       HasToken, NoEnvelope
  <2> QED
    BY <2>1, <2>2
<1>13. CASE UNCHANGED vars
  <2>1. OneWorker'
    BY <1>0, <1>13 DEF vars, TypeOK, KnownJobs, Working, OneWorker,
       OnePlaceUntilFinished
  <2>2. ExactCounts'
    BY <1>0, <1>13, BoundsAssumption DEF vars, TypeOK, KnownJobs, Working,
       OneWorker, ExactCounts, OnePlaceUntilFinished, EnvelopeWhileQueued,
       HasToken, NoEnvelope
  <2> QED
    BY <2>1, <2>2
<1>14. ASSUME NEW j \in Jobs, LeaseLapses(j) PROVE FALSE
  BY <1>0, <1>14 DEF LeaseLapses
<1> QED
  BY <1>1, <1>2, <1>3, <1>4, <1>5, <1>6, <1>7, <1>8, <1>9, <1>10, <1>11, <1>12, <1>13, <1>14
  DEF Next, Claim, Work

\* While no lease ran out, a job has one worker and the attempt cap is exact,
\* for any number of workers of the process.
THEOREM HealthyMemoryQueue == Spec => []HealthyQueueIsExact
<1>1. HealthyInv => HealthyQueueIsExact
  BY DEF HealthyInv, HealthyQueueIsExact, OneWorker, ExactCounts
<1> QED
  BY <1>1, QueueInvInit, QueueInvStep, HealthyInit, HealthyStep, PTL DEF Spec
-----------------------------------------------------------------------------
(* Wake-ups.  A notification that finds a sleeper adds it to those woken; a *)
(* waiter that is done with waiting takes a job away, or saw none.          *)

LEMMA WakeCounts ==
    ASSUME TypeOK
    PROVE  /\ IsFiniteSet(ReadyJobs) /\ IsFiniteSet(woken) /\ IsFiniteSet(Asleep)
           /\ Cardinality(ReadyJobs) \in Nat /\ Cardinality(woken) \in Nat
           /\ unannounced \in Nat
BY FinitenessAssumption, FS_Subset, FS_CardinalityType DEF TypeOK, ReadyJobs, Asleep

\* While somebody still sleeps afterwards, every call of notify woke somebody.
LEMMA NotifyCounts ==
    ASSUME TypeOK, NEW n, Notify(n),
           \A v \in Workers : pc'[v] = "wait" => pc[v] = "wait", Asleep' # {}
    PROVE  Asleep # {} /\ Cardinality(woken') = Cardinality(woken) + n
<1>1. PICK S \in SUBSET Asleep :
          /\ Cardinality(S) = n \/ (S = Asleep /\ Cardinality(S) < n)
          /\ woken' = woken \cup S
  BY DEF Notify
<1>2. Asleep' \subseteq Asleep \ S
  BY <1>1 DEF Asleep
<1>3. Cardinality(S) = n
  BY <1>1, <1>2
<1>4. IsFiniteSet(S) /\ IsFiniteSet(woken) /\ woken \cap S = {}
  BY <1>1, WakeCounts, FS_Subset DEF Asleep
<1>5. Cardinality(woken \cup S) = Cardinality(woken) + Cardinality(S) - Cardinality(woken \cap S)
  BY <1>4, FS_Union
<1>6. Cardinality(woken \cap S) = 0 /\ Cardinality(woken) \in Nat /\ Cardinality(S) \in Nat
  BY <1>4, FS_EmptySet, FS_CardinalityType
<1> QED
  BY <1>1, <1>2, <1>3, <1>5, <1>6

\* The jobs that become ready are at most those that were supplied.
LEMMA SupplyCounts ==
    ASSUME TypeOK, NEW D, IsFiniteSet(D), ReadyJobs' \subseteq ReadyJobs \cup D
    PROVE  /\ Cardinality(ReadyJobs') \in Nat /\ Cardinality(D) \in Nat
           /\ Cardinality(ReadyJobs') <= Cardinality(ReadyJobs) + Cardinality(D)
           /\ \A j \in (ReadyJobs \cup D) \ ReadyJobs' :
                Cardinality(ReadyJobs') + 1 <= Cardinality(ReadyJobs) + Cardinality(D)
<1> DEFINE U == ReadyJobs \cup D
<1>1. IsFiniteSet(ReadyJobs) /\ IsFiniteSet(U) /\ IsFiniteSet(ReadyJobs')
  BY WakeCounts, FS_Union, FS_Subset
<1>2. /\ Cardinality(ReadyJobs) \in Nat /\ Cardinality(D) \in Nat
      /\ Cardinality(U) \in Nat /\ Cardinality(ReadyJobs') \in Nat
      /\ Cardinality(ReadyJobs \cap D) \in Nat
  BY <1>1, FS_CardinalityType, FS_Subset, ReadyJobs \cap D \subseteq D
<1>3. Cardinality(U) = Cardinality(ReadyJobs) + Cardinality(D) - Cardinality(ReadyJobs \cap D)
  BY <1>1, FS_Union
<1>4. Cardinality(ReadyJobs') <= Cardinality(U)
  BY <1>1, FS_Subset
<1>5. ASSUME NEW j \in U \ ReadyJobs'
      PROVE  Cardinality(ReadyJobs') + 1 <= Cardinality(U)
  <2>1. ReadyJobs' \subseteq U \ {j} /\ IsFiniteSet(U \ {j})
    BY <1>1, <1>5, FS_Subset
  <2>2. Cardinality(ReadyJobs') <= Cardinality(U \ {j})
    BY <2>1, FS_Subset
  <2>3. Cardinality(U \ {j}) = Cardinality(U) - 1
    BY <1>1, <1>5, FS_RemoveElement
  <2> QED
    BY <1>2, <2>2, <2>3
<1> QED
  BY <1>2, <1>3, <1>4, <1>5

\* One job fewer, and at most one promotion made up for.
LEMMA TakenUnasked ==
    ASSUME NEW r \in Nat, NEW q \in Nat, NEW m \in Nat, NEW u \in Nat, NEW v \in Nat,
           r + 1 <= q, q <= m + u, u <= v + 1
    PROVE  r <= m + v
OBVIOUS

LEMMA SleepStep ==
    ASSUME TypeOK, TypeOK', OnePlaceUntilFinished, NoWakeUpLost, [Next]_vars
    PROVE  NoWakeUpLost'
<1> SUFFICES ASSUME Asleep' # {}
             PROVE  Cardinality(ReadyJobs') <= Cardinality(woken') + unannounced'
  BY DEF NoWakeUpLost, ReadyJobs
<1>0. /\ Cardinality(ReadyJobs) \in Nat /\ Cardinality(woken) \in Nat /\ unannounced \in Nat
      /\ Cardinality(woken') \in Nat /\ unannounced' \in Nat
      /\ Asleep # {} => Cardinality(ReadyJobs) <= Cardinality(woken) + unannounced
  <2>1. IsFiniteSet(woken') /\ unannounced' \in Nat
    BY FinitenessAssumption, FS_Subset DEF TypeOK
  <2> QED
    BY <2>1, WakeCounts, FS_CardinalityType DEF NoWakeUpLost, ReadyJobs
<1> USE <1>0
\* Nothing becomes ready.
<1>1. ASSUME Asleep # {}, ready' = ready, woken \subseteq woken', unannounced' = unannounced
      PROVE  Cardinality(ReadyJobs') <= Cardinality(woken') + unannounced'
  <2>1. ReadyJobs' = ReadyJobs
    BY <1>1 DEF ReadyJobs
  <2>2. Cardinality(woken) <= Cardinality(woken')
    BY <1>1, FinitenessAssumption, FS_Subset DEF TypeOK
  <2> QED
    BY <1>1, <2>1, <2>2
<1>2. ASSUME NEW j \in Jobs, Enqueue(j)
      PROVE  Cardinality(ReadyJobs') <= Cardinality(woken') + unannounced'
  <2>1. ReadyJobs' \subseteq ReadyJobs \cup {j} /\ unannounced' = unannounced
    BY <1>2 DEF Enqueue, Accept, ReadyJobs, TypeOK, history
  <2>2. Asleep # {} /\ Cardinality(woken') = Cardinality(woken) + 1
    BY <1>2, NotifyCounts DEF Enqueue, Accept, local
  <2>3. IsFiniteSet({j}) /\ Cardinality({j}) = 1
    BY FS_Singleton
  <2>4. Cardinality(ReadyJobs') \in Nat /\ Cardinality(ReadyJobs') <= Cardinality(ReadyJobs) + 1
    BY <2>1, <2>3, SupplyCounts
  <2> QED
    BY <2>1, <2>2, <2>4
<1>3. ASSUME NEW w \in Workers, RecoverStale(w)
      PROVE  Cardinality(ReadyJobs') <= Cardinality(woken') + unannounced'
  <2> DEFINE D == Stale \ Buried
  <2>1. ReadyJobs' \subseteq ReadyJobs \cup D /\ unannounced' = unannounced /\ Notify(Cardinality(D))
    BY <1>3 DEF RecoverStale, Recover, ReadyJobs, TypeOK, history
  <2>2. Asleep # {} /\ Cardinality(woken') = Cardinality(woken) + Cardinality(D)
    BY <1>3, <2>1, NotifyCounts DEF RecoverStale, Recover, Goto, TypeOK
  <2>3. IsFiniteSet(D)
    BY FinitenessAssumption, FS_Subset DEF Stale
  <2>4. /\ Cardinality(ReadyJobs') \in Nat /\ Cardinality(D) \in Nat
        /\ Cardinality(ReadyJobs') <= Cardinality(ReadyJobs) + Cardinality(D)
    BY <2>1, <2>3, SupplyCounts
  <2> QED
    BY <2>1, <2>2, <2>4
<1>4. ASSUME NEW w \in Workers, PromoteDue(w)
      PROVE  Cardinality(ReadyJobs') <= Cardinality(woken') + unannounced'
  <2>1. /\ ReadyJobs' \subseteq ReadyJobs \cup Due /\ woken' = woken
        /\ unannounced' = unannounced + Cardinality(Due)
    BY <1>4 DEF PromoteDue, Promoted, ReadyJobs, TypeOK
  <2>2. Asleep # {}
    BY <1>4, <2>1 DEF PromoteDue, Goto, TypeOK, Asleep
  <2>3. IsFiniteSet(Due)
    BY FinitenessAssumption, FS_Subset DEF Due
  <2>4. /\ Cardinality(ReadyJobs') \in Nat /\ Cardinality(Due) \in Nat
        /\ Cardinality(ReadyJobs') <= Cardinality(ReadyJobs) + Cardinality(Due)
    BY <2>1, <2>3, SupplyCounts
  <2> QED
    BY <2>1, <2>2, <2>4
\* A worker that comes unasked takes a job and makes up for one promotion; a
\* woken one takes a job and is no longer woken.
<1>5. ASSUME NEW w \in Workers, Take(w)
      PROVE  Cardinality(ReadyJobs') <= Cardinality(woken') + unannounced'
  <2>1. PICK j \in Jobs : ClaimFrom(w, j, ready)
    BY <1>5 DEF Take
  <2>2. /\ ReadyJobs' \subseteq ReadyJobs \cup {} /\ woken' = woken
        /\ j \in (ReadyJobs \cup {}) \ ReadyJobs'
    BY <1>5, <2>1 DEF Take, ClaimFrom, ReadyJobs, TypeOK, OnePlaceUntilFinished
  <2>3. Asleep # {}
    BY <1>5, <2>1, <2>2 DEF Take, ClaimFrom, Goto, TypeOK, Asleep
  <2>4. IsFiniteSet({}) /\ Cardinality({}) = 0
    BY FS_EmptySet
  <2>5. Cardinality(ReadyJobs') \in Nat /\ Cardinality(ReadyJobs') + 1 <= Cardinality(ReadyJobs)
    BY <2>2, <2>4, SupplyCounts
  <2>6. unannounced' = LeftUnannounced(w, unannounced)
    BY <1>5 DEF Take
  <2>7. unannounced <= unannounced' + 1 \/ Cardinality(ReadyJobs') <= unannounced'
    BY <2>6, LeftIsCount
  <2>8. Cardinality(woken') = Cardinality(woken)
    BY <2>2
  <2>9. Cardinality(ReadyJobs) <= Cardinality(woken) + unannounced
    BY <2>3
  <2>10. CASE Cardinality(ReadyJobs') <= unannounced'
    BY <2>5, <2>10
  <2>11. CASE unannounced <= unannounced' + 1
    BY <2>5, <2>8, <2>9, <2>11, TakenUnasked
  <2> QED
    BY <2>7, <2>10, <2>11
\* A worker goes to sleep, or on sleeping, only when it finds nothing ready.
<1>6. ASSUME ReadyJobs' = {}
      PROVE  Cardinality(ReadyJobs') <= Cardinality(woken') + unannounced'
  BY <1>6, FS_EmptySet
<1>7. ASSUME NEW w \in Workers, Sleep(w)
      PROVE  Cardinality(ReadyJobs') <= Cardinality(woken') + unannounced'
  BY <1>6, <1>7 DEF Sleep, ReadyJobs, queue
<1>8. ASSUME NEW w \in Workers, Wake(w)
      PROVE  Cardinality(ReadyJobs') <= Cardinality(woken') + unannounced'
  <2>1. CASE ready' = Promoted /\ \A j \in Jobs : Promoted[j] = 0
    BY <1>6, <2>1 DEF ReadyJobs
  <2>2. CASE \E j \in Jobs : ClaimFrom(w, j, Promoted)
    <3>1. PICK j \in Jobs : ClaimFrom(w, j, Promoted)
      BY <2>2
    <3>2. /\ ReadyJobs' \subseteq ReadyJobs \cup Due
          /\ woken' = woken \ {w}
      BY <1>8, <3>1 DEF Wake, ClaimFrom, Promoted, ReadyJobs, TypeOK
    <3>3. Asleep # {}
      BY <3>1, <3>2 DEF ClaimFrom, Goto, TypeOK, Asleep
    <3>4. IsFiniteSet(Due)
      BY FinitenessAssumption, FS_Subset DEF Due
    <3>5. /\ w \notin woken => woken' = woken
          /\ w \in woken => Cardinality(woken) = Cardinality(woken') + 1
      <4>1. IsFiniteSet(woken)
        BY WakeCounts
      <4>2. w \in woken => Cardinality(woken \ {w}) = Cardinality(woken) - 1
        BY <4>1, FS_RemoveElement
      <4> QED
        BY <3>2, <4>2
    <3>6. j \in ReadyJobs \cup Due /\ j \notin ReadyJobs'
      BY <3>1 DEF ClaimFrom, Promoted, ReadyJobs, TypeOK, OnePlaceUntilFinished, Due
    <3>7. /\ Cardinality(ReadyJobs') \in Nat /\ Cardinality(Due) \in Nat
          /\ Cardinality(ReadyJobs') + 1 <= Cardinality(ReadyJobs) + Cardinality(Due)
      BY <3>2, <3>4, <3>6, SupplyCounts
    <3>8. CASE unannounced' = LeftUnannounced(w, unannounced + Cardinality(Due))
      <4>1. PICK n \in Nat : n = unannounced + Cardinality(Due)
        BY <3>7
      <4>2. n <= unannounced' + 1 \/ Cardinality(ReadyJobs') <= unannounced'
        BY <3>8, <4>1, LeftIsCount
      <4>3. w \in woken => n = unannounced' \/ Cardinality(ReadyJobs') = unannounced'
        BY <3>8, <4>1, LeftIsCount
      <4> QED
        BY <3>3, <3>5, <3>7, <4>1, <4>2, <4>3
    <3>9. CASE \A i \in Jobs : Promoted[i] = 0
      BY <3>1, <3>9 DEF ClaimFrom
    <3> QED
      BY <1>8, <3>8, <3>9 DEF Wake
  <2> QED
    BY <1>8, <2>1, <2>2 DEF Wake
<1>9. ASSUME NEW w \in Workers,
             Heartbeat(w) \/ Succeed(w) \/ Fail(w) \/ Ack(w) \/ Retry(w)
      PROVE  Cardinality(ReadyJobs') <= Cardinality(woken') + unannounced'
  <2>1. ready' = ready /\ woken \subseteq woken' /\ unannounced' = unannounced
    BY <1>9 DEF Heartbeat, Succeed, Fail, ProcessorEnds, Ack, Retry, RetryHeld, Notify,
                queue, history
  <2>2. \A v \in Workers : pc'[v] = "wait" => pc[v] = "wait"
    BY <1>9 DEF Heartbeat, Succeed, Fail, ProcessorEnds, Ack, Retry, Rest, Goto, TypeOK
  <2>3. Asleep # {}
    BY <2>1, <2>2 DEF Asleep
  <2> QED
    BY <1>1, <2>1, <2>3
<1>10. ASSUME NEW j \in Jobs, RemoveDead(j) \/ LeaseLapses(j) \/ RetryDue(j)
       PROVE  Cardinality(ReadyJobs') <= Cardinality(woken') + unannounced'
  BY <1>1, <1>10 DEF RemoveDead, LeaseLapses, RetryDue, local, history, Asleep
<1>11. CASE UNCHANGED vars
  BY <1>1, <1>11 DEF vars, queue, local, history, Asleep
<1> QED
  BY <1>2, <1>3, <1>4, <1>5, <1>7, <1>8, <1>9, <1>10, <1>11 DEF Next, Claim, Work

\* No wake-up is lost, for any number of jobs and workers: while somebody
\* sleeps, the ready jobs number at most the woken waiters and the promotions
\* that nobody was notified of and nobody has made up for.
THEOREM NobodySleepsThroughWork == Spec => []NoWakeUpLost
<1>1. Init => QueueInv /\ NoWakeUpLost
  <2>1. Init => Asleep = {}
    BY DEF Init, Asleep
  <2> QED
    BY <2>1, QueueInvInit DEF NoWakeUpLost
<1>2. QueueInv /\ NoWakeUpLost /\ [Next]_vars => (QueueInv /\ NoWakeUpLost)'
  BY QueueInvStep, SleepStep DEF QueueInv
<1> QED
  BY <1>1, <1>2, PTL DEF Spec
=============================================================================

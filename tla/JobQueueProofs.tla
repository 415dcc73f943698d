--------------------------- MODULE JobQueueProofs ---------------------------
(* Proofs about JobQueue for every set of jobs and workers and every bound. *)
(* The invariant is built in three layers: types; where the copies of a job *)
(* are (TokenInv); and what the stored and the carried attempt counts say   *)
(* (CountInv).                                                              *)
EXTENDS JobQueue, TLAPS

-----------------------------------------------------------------------------
(* The ready list.                                                          *)

\* LPUSH of a job that is not in the list.
LEMMA PushLemma ==
    ASSUME NEW S, NEW s \in Seq(S), NEW x \in S, NoRepeat(s), ~In(s, x)
    PROVE  /\ Append(s, x) \in Seq(S)
           /\ NoRepeat(Append(s, x))
           /\ \A y : In(Append(s, x), y) <=> In(s, y) \/ y = x
<1> DEFINE t == Append(s, x)
<1>1. /\ t \in Seq(S) /\ DOMAIN t = 1..(Len(s) + 1) /\ DOMAIN s = 1..Len(s)
      /\ Len(s) \in Nat
      /\ \A i \in 1..Len(s) : t[i] = s[i]
      /\ t[Len(s) + 1] = x
  OBVIOUS
<1>2. NoRepeat(t)
  BY <1>1 DEF NoRepeat, In
<1>3. \A y : In(t, y) <=> In(s, y) \/ y = x
  BY <1>1 DEF In
<1> QED
  BY <1>1, <1>2, <1>3

\* BRPOPLPUSH takes the oldest entry away and leaves the others.
LEMMA PopLemma ==
    ASSUME NEW S, NEW s \in Seq(S), s # <<>>, NoRepeat(s)
    PROVE  /\ Head(s) \in S /\ In(s, Head(s))
           /\ Tail(s) \in Seq(S)
           /\ NoRepeat(Tail(s))
           /\ \A y : In(Tail(s), y) <=> In(s, y) /\ y # Head(s)
<1> DEFINE t == Tail(s)
<1>1. /\ t \in Seq(S) /\ DOMAIN t = 1..(Len(s) - 1) /\ DOMAIN s = 1..Len(s)
      /\ Len(s) \in Nat \ {0}
      /\ \A i \in 1..(Len(s) - 1) : t[i] = s[i + 1]
      /\ Head(s) = s[1] /\ Head(s) \in S
  OBVIOUS
<1>2. NoRepeat(t)
  BY <1>1 DEF NoRepeat
<1>3. ASSUME NEW y PROVE In(t, y) <=> In(s, y) /\ y # Head(s)
  <2>1. ASSUME In(t, y) PROVE In(s, y) /\ y # Head(s)
    <3>1. PICK i \in 1..(Len(s) - 1) : s[i + 1] = y
      BY <1>1, <2>1 DEF In
    <3>2. i + 1 \in DOMAIN s /\ 1 \in DOMAIN s /\ i + 1 # 1
      BY <1>1, <3>1
    <3> QED
      BY <1>1, <3>1, <3>2 DEF In, NoRepeat
  <2>2. ASSUME In(s, y), y # Head(s) PROVE In(t, y)
    <3>1. PICK k \in 1..Len(s) : s[k] = y
      BY <1>1, <2>2 DEF In
    <3>2. k - 1 \in 1..(Len(s) - 1) /\ t[k - 1] = y
      BY <1>1, <2>2, <3>1
    <3> QED
      BY <1>1, <3>2 DEF In
  <2> QED
    BY <2>1, <2>2
<1>4. In(s, Head(s))
  BY <1>1 DEF In
<1> QED
  BY <1>1, <1>2, <1>3, <1>4
-----------------------------------------------------------------------------
(* Types.  LocalOK is what the type invariant leans on: past BRPOPLPUSH or  *)
(* HGET a worker carries the job it works on.                               *)

Carrying == {"move", "read", "drop", "write", "lease", "work", "ack", "retry"}
LocalOK == \A w \in Workers : pc[w] \in Carrying => job[w] \in Jobs
TypeInv == TypeOK /\ LocalOK

\* The parts of the scripts keep the types of what they write.
LEMMA PartTypes ==
    ASSUME TypeOK, NEW j \in Jobs
    PROVE  /\ Held(j) /\ Unclaim(j) =>
                /\ inflight' \in [Jobs -> Nat]
                /\ leases' \in [Jobs -> {"none", "live", "expired"}]
           /\ Push(j) => ready' \in Seq(Jobs)
           /\ Bury(j) => dead' \in [Jobs -> Nat]
           /\ \A a \in Nat \cup {NoEnvelope} :
                Store(j, a) => envelopes' \in [Jobs -> Nat \cup {NoEnvelope}]
<1>1. Held(j) /\ Unclaim(j) => inflight' \in [Jobs -> Nat]
  BY DEF TypeOK, Held, Unclaim
<1>2. Unclaim(j) => leases' \in [Jobs -> {"none", "live", "expired"}]
  BY DEF TypeOK, Unclaim
<1>3. Push(j) => ready' \in Seq(Jobs)
  BY DEF TypeOK, Push
<1>4. Bury(j) => dead' \in [Jobs -> Nat]
  BY DEF TypeOK, Bury
<1>5. \A a \in Nat \cup {NoEnvelope} :
            Store(j, a) => envelopes' \in [Jobs -> Nat \cup {NoEnvelope}]
  BY DEF TypeOK, Store
<1> QED
  BY <1>1, <1>2, <1>3, <1>4, <1>5

LEMMA TypeInit == Init => TypeInv
BY BoundsAssumption DEF Init, TypeInv, TypeOK, LocalOK, Steps, NoEnvelope, Carrying

LEMMA TypeStep == TypeInv /\ [Next]_vars => TypeInv'
<1> SUFFICES ASSUME TypeInv, [Next]_vars PROVE TypeInv'
  OBVIOUS
<1> USE DEF TypeInv, TypeOK, LocalOK, Steps, Carrying, NoEnvelope, Goto,
            queue, local, history
<1>1. ASSUME NEW j \in Jobs, Enqueue(j) PROVE TypeInv'
  <2>1. TypeOK'
    BY <1>1 DEF Enqueue, Unknown, Store, Push
  <2>2. LocalOK'
    BY <1>1 DEF Enqueue, Unknown, Store, Push
  <2> QED
    BY <2>1, <2>2
<1>2. ASSUME NEW j \in Jobs, RemoveDead(j) PROVE TypeInv'
  <2>1. TypeOK'
    BY <1>2 DEF RemoveDead, Store
  <2>2. LocalOK'
    BY <1>2 DEF RemoveDead, Store
  <2> QED
    BY <2>1, <2>2
<1>3. ASSUME NEW j \in Jobs, LeaseExpires(j) PROVE TypeInv'
  <2>1. TypeOK'
    BY <1>3 DEF LeaseExpires, Expire
  <2>2. LocalOK'
    BY <1>3 DEF LeaseExpires, Expire
  <2> QED
    BY <2>1, <2>2
<1>4. ASSUME NEW j \in Jobs, LeaseLapses(j) PROVE TypeInv'
  <2>1. TypeOK'
    BY <1>4 DEF LeaseLapses, Expire
  <2>2. LocalOK'
    BY <1>4 DEF LeaseLapses, Expire
  <2> QED
    BY <2>1, <2>2
<1>5. ASSUME NEW j \in Jobs, RetryDue(j) PROVE TypeInv'
  <2>1. TypeOK'
    BY <1>5 DEF RetryDue
  <2>2. LocalOK'
    BY <1>5 DEF RetryDue
  <2> QED
    BY <2>1, <2>2
<1>6. ASSUME NEW w \in Workers, ScanLeases(w) PROVE TypeInv'
  <2>1. TypeOK'
    BY <1>6 DEF ScanLeases
  <2>2. LocalOK'
    BY <1>6 DEF ScanLeases
  <2> QED
    BY <2>1, <2>2
<1>7. ASSUME NEW w \in Workers, ScanInflight(w) PROVE TypeInv'
  <2>1. TypeOK'
    BY <1>7 DEF ScanInflight
  <2>2. LocalOK'
    BY <1>7 DEF ScanInflight
  <2> QED
    BY <2>1, <2>2
<1>8. ASSUME NEW w \in Workers, ReadDue(w) PROVE TypeInv'
  <2>1. TypeOK'
    BY <1>8 DEF ReadDue
  <2>2. LocalOK'
    BY <1>8 DEF ReadDue
  <2> QED
    BY <2>1, <2>2
<1>9. ASSUME NEW w \in Workers, NEW j \in Jobs, ProbeLease(w, j) PROVE TypeInv'
  <2>1. TypeOK'
    BY <1>9 DEF ProbeLease
  <2>2. LocalOK'
    BY <1>9 DEF ProbeLease
  <2> QED
    BY <2>1, <2>2
<1>10. ASSUME NEW w \in Workers, NEW j \in Jobs, ReadStale(w, j) PROVE TypeInv'
  <2>1. TypeOK'
    BY <1>10 DEF ReadStale
  <2>2. LocalOK'
    BY <1>10 DEF ReadStale
  <2> QED
    BY <2>1, <2>2
<1>11. ASSUME NEW w \in Workers, NEW j \in Jobs, Promote(w, j) PROVE TypeInv'
  <2>1. TypeOK'
    <3>1. Push(j) => ready' \in Seq(Jobs)
      BY PartTypes
    <3>2. ready' \in Seq(Jobs)
      BY <1>11, <3>1 DEF Promote
    <3>3. scheduled' \in [Jobs -> {"none", "waiting", "due"}]
      BY <1>11 DEF Promote
    <3> QED
      BY <1>11, <3>2, <3>3 DEF Promote
  <2>2. LocalOK'
    BY <1>11 DEF Promote, Push
  <2> QED
    BY <2>1, <2>2
<1>12. ASSUME NEW w \in Workers, MoveStale(w) PROVE TypeInv'
  <2>a. job[w] \in Jobs /\ attempt[w] \in Nat
    BY <1>12 DEF MoveStale
  <2>b. /\ inflight' \in [Jobs -> Nat]
        /\ leases' \in [Jobs -> {"none", "live", "expired"}]
        /\ envelopes' \in [Jobs -> Nat \cup {NoEnvelope}]
        /\ ready' \in Seq(Jobs) /\ dead' \in [Jobs -> Nat]
    <3> HIDE DEF TypeInv, TypeOK, LocalOK, Steps, Carrying, NoEnvelope
    <3>1. TypeOK /\ NoEnvelope \in Nat \cup {NoEnvelope}
      BY DEF TypeInv
    <3>2. CASE Held(job[w])
      BY <1>12, <2>a, <3>1, <3>2, PartTypes DEF MoveStale, TypeOK
    <3>3. CASE ~Held(job[w])
      BY <1>12, <3>1, <3>3 DEF MoveStale, TypeOK
    <3> QED
      BY <3>2, <3>3
  <2>1. TypeOK'
    BY <1>12, <2>a, <2>b DEF MoveStale
  <2>2. LocalOK'
    BY <1>12 DEF MoveStale, Unclaim, Held, Store, Push, Bury
  <2> QED
    BY <2>1, <2>2
<1>13. ASSUME NEW w \in Workers, Pop(w) PROVE TypeInv'
  <2>a. Head(ready) \in Jobs /\ Tail(ready) \in Seq(Jobs)
    BY <1>13 DEF Pop, MayPop
  <2>1. TypeOK'
    BY <1>13, <2>a DEF Pop
  <2>2. LocalOK'
    BY <1>13 DEF Pop, MayPop
  <2> QED
    BY <2>1, <2>2
<1>14. ASSUME NEW w \in Workers, PopTimeout(w) PROVE TypeInv'
  <2>1. TypeOK'
    BY <1>14 DEF PopTimeout, Rest
  <2>2. LocalOK'
    BY <1>14 DEF PopTimeout, Rest
  <2> QED
    BY <2>1, <2>2
<1>15. ASSUME NEW w \in Workers, Abandon(w) PROVE TypeInv'
  <2>1. TypeOK'
    BY <1>15 DEF Abandon, Rest
  <2>2. LocalOK'
    BY <1>15 DEF Abandon, Rest
  <2> QED
    BY <2>1, <2>2
<1>16. ASSUME NEW w \in Workers, Crash(w) PROVE TypeInv'
  <2>1. TypeOK'
    BY <1>16 DEF Crash, Rest
  <2>2. LocalOK'
    BY <1>16 DEF Crash, Rest
  <2> QED
    BY <2>1, <2>2
<1>17. ASSUME NEW w \in Workers, ReadEnvelope(w) PROVE TypeInv'
  <2>a. ASSUME envelopes[job[w]] = NoEnvelope PROVE TypeOK'
    BY <1>17, <2>a DEF ReadEnvelope
  <2>b. ASSUME envelopes[job[w]] # NoEnvelope PROVE TypeOK'
    <3>1. job[w] \in Jobs /\ envelopes[job[w]] + 1 \in Nat
      BY <1>17, <2>b DEF ReadEnvelope
    <3> QED
      BY <1>17, <2>b, <3>1 DEF ReadEnvelope
  <2>1. TypeOK'
    BY <2>a, <2>b
  <2>2. LocalOK'
    BY <1>17 DEF ReadEnvelope
  <2> QED
    BY <2>1, <2>2
<1>18. ASSUME NEW w \in Workers, DropOrphan(w) PROVE TypeInv'
  <2>1. TypeOK'
    BY <1>18 DEF DropOrphan, Rest, Held
  <2>2. LocalOK'
    BY <1>18 DEF DropOrphan, Rest, Held
  <2> QED
    BY <2>1, <2>2
<1>19. ASSUME NEW w \in Workers, WriteEnvelope(w) PROVE TypeInv'
  <2>1. TypeOK'
    BY <1>19 DEF WriteEnvelope, Store
  <2>2. LocalOK'
    BY <1>19 DEF WriteEnvelope, Store
  <2> QED
    BY <2>1, <2>2
<1>20. ASSUME NEW w \in Workers, TakeLease(w) PROVE TypeInv'
  <2>1. TypeOK'
    BY <1>20 DEF TakeLease
  <2>2. LocalOK'
    BY <1>20 DEF TakeLease
  <2> QED
    BY <2>1, <2>2
<1>21. ASSUME NEW w \in Workers, Heartbeat(w) PROVE TypeInv'
  <2>1. TypeOK'
    BY <1>21 DEF Heartbeat
  <2>2. LocalOK'
    BY <1>21 DEF Heartbeat
  <2> QED
    BY <2>1, <2>2
<1>22. ASSUME NEW w \in Workers, HeartbeatFails(w) PROVE TypeInv'
  <2>1. TypeOK'
    BY <1>22 DEF HeartbeatFails
  <2>2. LocalOK'
    BY <1>22 DEF HeartbeatFails
  <2> QED
    BY <2>1, <2>2
<1>23. ASSUME NEW w \in Workers, Succeed(w) PROVE TypeInv'
  <2>1. TypeOK'
    BY <1>23 DEF Succeed, ProcessorEnds
  <2>2. LocalOK'
    BY <1>23 DEF Succeed, ProcessorEnds
  <2> QED
    BY <2>1, <2>2
<1>24. ASSUME NEW w \in Workers, Fail(w) PROVE TypeInv'
  <2>1. TypeOK'
    BY <1>24 DEF Fail, ProcessorEnds
  <2>2. LocalOK'
    BY <1>24 DEF Fail, ProcessorEnds
  <2> QED
    BY <2>1, <2>2
<1>25. ASSUME NEW w \in Workers, Ack(w) PROVE TypeInv'
  <2>a. job[w] \in Jobs /\ attempt[w] \in Nat
    BY <1>25 DEF Ack
  <2>b. /\ inflight' \in [Jobs -> Nat]
        /\ leases' \in [Jobs -> {"none", "live", "expired"}]
        /\ envelopes' \in [Jobs -> Nat \cup {NoEnvelope}]
        /\ acked' \in SUBSET Jobs
    <3> HIDE DEF TypeInv, TypeOK, LocalOK, Steps, Carrying, NoEnvelope
    <3>1. TypeOK /\ NoEnvelope \in Nat \cup {NoEnvelope}
      BY DEF TypeInv
    <3>2. CASE Held(job[w])
      BY <1>25, <2>a, <3>1, <3>2, PartTypes DEF Ack, TypeOK
    <3>3. CASE ~Held(job[w])
      BY <1>25, <3>1, <3>3 DEF Ack, TypeOK
    <3> QED
      BY <3>2, <3>3
  <2>1. TypeOK'
    BY <1>25, <2>a, <2>b DEF Ack, Rest
  <2>2. LocalOK'
    BY <1>25 DEF Ack, Unclaim, Held, Store, Rest
  <2> QED
    BY <2>1, <2>2
<1>26. ASSUME NEW w \in Workers, Retry(w) PROVE TypeInv'
  <2>a. job[w] \in Jobs /\ attempt[w] \in Nat
    BY <1>26 DEF Retry
  <2>b. /\ inflight' \in [Jobs -> Nat]
        /\ leases' \in [Jobs -> {"none", "live", "expired"}]
        /\ envelopes' \in [Jobs -> Nat \cup {NoEnvelope}]
        /\ dead' \in [Jobs -> Nat]
        /\ scheduled' \in [Jobs -> {"none", "waiting", "due"}]
    <3> HIDE DEF TypeInv, TypeOK, LocalOK, Steps, Carrying, NoEnvelope
    <3>1. TypeOK /\ NoEnvelope \in Nat \cup {NoEnvelope}
      BY DEF TypeInv
    <3>2. CASE Held(job[w])
      BY <1>26, <2>a, <3>1, <3>2, PartTypes DEF Retry, TypeOK
    <3>3. CASE ~Held(job[w])
      BY <1>26, <3>1, <3>3 DEF Retry, TypeOK
    <3> QED
      BY <3>2, <3>3
  <2>1. TypeOK'
    BY <1>26, <2>a, <2>b DEF Retry, Rest
  <2>2. LocalOK'
    BY <1>26 DEF Retry, Unclaim, Held, Store, Bury, Rest
  <2> QED
    BY <2>1, <2>2
<1>27. CASE UNCHANGED vars
  BY <1>27 DEF vars
<1> QED
  BY <1>1, <1>2, <1>3, <1>4, <1>5, <1>6, <1>7, <1>8, <1>9, <1>10, <1>11, <1>12, <1>13, <1>14, <1>15, <1>16, <1>17, <1>18, <1>19, <1>20, <1>21, <1>22, <1>23, <1>24, <1>25, <1>26, <1>27 DEF Next, Claim, Work, Clock

\* The Redis structures and the workers keep their types in every behaviour.
THEOREM QueueTypes == Spec => []TypeOK
<1>1. Spec => []TypeInv
  BY TypeInit, TypeStep, PTL DEF Spec
<1>2. TypeInv => TypeOK
  BY DEF TypeInv
<1> QED
  BY <1>1, <1>2, PTL
-----------------------------------------------------------------------------
(* Where the copies of a job are.                                           *)
(* TokenInv alone is not inductive: DropOrphan removes a copy from the      *)
(* inflight list, and only MissingMeansFinished says that there is none; it *)
(* needs TokenHasEnvelope, which needs OneToken when a script deletes the   *)
(* envelope together with the copy it took.                                 *)

TokenInv == OneToken /\ NothingLost /\ acked \cup drained \subseteq known
EnvelopeInv ==
    /\ TokenHasEnvelope
    /\ \A j \in Jobs : envelopes[j] # NoEnvelope => j \in known
    /\ \A w \in Workers : pc[w] \in Carrying => job[w] \in known
QueueInv == TypeInv /\ TokenInv /\ EnvelopeInv /\ MissingMeansFinished

tokens == <<known, ready, inflight, scheduled, dead, acked, drained>>

LEMMA QueueInvInit == Init => QueueInv
<1> SUFFICES ASSUME Init PROVE QueueInv
  OBVIOUS
<1>1. TypeInv
  BY TypeInit
<1>2. \A j : ~In(<<>>, j)
  BY DEF In
<1>3. NoRepeat(<<>>)
  BY DEF NoRepeat
<1>4. TokenInv
  BY <1>2, <1>3 DEF Init, TokenInv, OneToken, NothingLost, HasToken, Queued
<1>5. EnvelopeInv /\ MissingMeansFinished
  BY <1>2 DEF Init, EnvelopeInv, TokenHasEnvelope, HasToken, Queued, Carrying,
              MissingMeansFinished, NoEnvelope
<1> QED
  BY <1>1, <1>4, <1>5 DEF QueueInv

\* Pushing a job without a copy in the ready list, and popping the oldest one.
LEMMA PushReady ==
    ASSUME TypeOK, OneToken, NEW j \in Jobs, ~Queued(j), Push(j)
    PROVE  /\ NoRepeat(ready)'
           /\ \A k \in Jobs : Queued(k)' <=> Queued(k) \/ k = j
BY PushLemma, ready \in Seq(Jobs) DEF TypeOK, OneToken, Queued, Push

LEMMA PopReady ==
    ASSUME TypeOK, OneToken, ready # <<>>, ready' = Tail(ready)
    PROVE  /\ Head(ready) \in Jobs /\ Queued(Head(ready))
           /\ NoRepeat(ready)'
           /\ \A k \in Jobs : Queued(k)' <=> Queued(k) /\ k # Head(ready)
BY PopLemma, ready \in Seq(Jobs) DEF TypeOK, OneToken, Queued

\* Steps that move no copy keep TokenInv.
LEMMA TokenFrame == TokenInv /\ UNCHANGED tokens => TokenInv'
BY DEF TokenInv, tokens, OneToken, NothingLost, HasToken, Queued, Finished

\* Every step keeps the copies consistent.
LEMMA TokenStep == QueueInv /\ [Next]_vars => TokenInv'
<1> SUFFICES ASSUME QueueInv, [Next]_vars PROVE TokenInv'
  OBVIOUS
<1> USE DEF QueueInv, TypeInv
<1>f. ASSUME UNCHANGED tokens PROVE TokenInv'
  BY <1>f, TokenFrame
<1> DEFINE Free(j) == /\ ~Queued(j) /\ inflight[j] = 0
                      /\ scheduled[j] = "none" /\ dead[j] = 0
<1>1. ASSUME NEW j \in Jobs, Enqueue(j) PROVE TokenInv'
  <2>1. Free(j) /\ j \notin acked \cup drained
    BY <1>1 DEF Enqueue, Unknown, TokenInv, NothingLost, HasToken, TypeOK
  <2>2. NoRepeat(ready)' /\ \A k \in Jobs : Queued(k)' <=> Queued(k) \/ k = j
    BY <1>1, <2>1, PushReady DEF Enqueue, TokenInv
  <2> QED
    BY <1>1, <2>1, <2>2
    DEF Enqueue, history, TokenInv, OneToken, NothingLost, HasToken, Finished
<1>2. ASSUME NEW w \in Workers, NEW j \in Jobs, Promote(w, j) PROVE TokenInv'
  <2>1. CASE ~Asleep(j)
    BY <1>2, <2>1, <1>f DEF Promote, tokens, history
  <2>2. CASE Asleep(j)
    <3>1. ~Queued(j) /\ Push(j)
      BY <1>2, <2>2 DEF Promote, Asleep, TokenInv, OneToken
    <3>2. NoRepeat(ready)' /\ \A k \in Jobs : Queued(k)' <=> Queued(k) \/ k = j
      BY <3>1, PushReady DEF TokenInv
    <3> QED
      BY <1>2, <2>2, <3>2 DEF Promote, Asleep, history, TypeOK, TokenInv,
                              OneToken, NothingLost, HasToken, Finished
  <2> QED
    BY <2>1, <2>2
<1>3. ASSUME NEW w \in Workers, MoveStale(w) PROVE TokenInv'
  <2> DEFINE j == job[w]
  <2>1. j \in Jobs
    BY <1>3 DEF MoveStale, LocalOK, Carrying
  <2>2. CASE ~Held(j)
    BY <1>3, <2>2, <1>f DEF MoveStale, tokens, history
  <2>3. CASE Held(j) /\ Exhausted(attempt[w])
    <3>1. /\ inflight' = [inflight EXCEPT ![j] = @ - 1]
          /\ dead' = [dead EXCEPT ![j] = @ + 1]
          /\ UNCHANGED <<known, ready, scheduled, acked, drained>>
      BY <1>3, <2>3 DEF MoveStale, Unclaim, Bury, history
    <3>2. inflight[j] = 1 /\ dead[j] = 0 /\ inflight'[j] = 0 /\ dead'[j] = 1
      BY <2>1, <2>3, <3>1 DEF Held, TypeOK, TokenInv, OneToken
    <3>3. \A k \in Jobs \ {j} : inflight'[k] = inflight[k] /\ dead'[k] = dead[k]
      BY <3>1 DEF TypeOK
    <3>4. \A k \in Jobs : Queued(k)' <=> Queued(k)
      BY <3>1 DEF Queued
    <3>5. OneToken'
      BY <2>1, <3>1, <3>2, <3>3, <3>4 DEF TokenInv, OneToken
    <3>6. NothingLost'
      BY <2>1, <3>1, <3>2, <3>3, <3>4 DEF TokenInv, NothingLost, HasToken, Finished
    <3> QED
      BY <3>1, <3>5, <3>6 DEF TokenInv
  <2>4. CASE Held(j) /\ ~Exhausted(attempt[w])
    <3>1. ~Queued(j) /\ Push(j)
      BY <1>3, <2>1, <2>4 DEF MoveStale, Held, TokenInv, OneToken
    <3>2. NoRepeat(ready)' /\ \A k \in Jobs : Queued(k)' <=> Queued(k) \/ k = j
      BY <2>1, <3>1, PushReady DEF TokenInv
    <3> QED
      BY <1>3, <2>1, <2>4, <3>2
      DEF MoveStale, Held, Unclaim, history, TypeOK, TokenInv, OneToken,
          NothingLost, HasToken, Finished
  <2> QED
    BY <2>2, <2>3, <2>4
<1>4. ASSUME NEW w \in Workers, Pop(w) PROVE TokenInv'
  <2>1. /\ Head(ready) \in Jobs /\ Queued(Head(ready))
        /\ NoRepeat(ready)'
        /\ \A k \in Jobs : Queued(k)' <=> Queued(k) /\ k # Head(ready)
    BY <1>4, PopReady DEF Pop, MayPop, TokenInv
  <2> QED
    BY <1>4, <2>1 DEF Pop, history, TypeOK, TokenInv, OneToken, NothingLost,
                      HasToken, Finished
<1>5. ASSUME NEW w \in Workers, DropOrphan(w) PROVE TokenInv'
  <2>1. job[w] \in Jobs /\ ~Held(job[w])
    BY <1>5 DEF DropOrphan, LocalOK, Carrying, MissingMeansFinished, TokenInv,
                NothingLost, HasToken, Held, TypeOK
  <2>2. inflight' = inflight
    BY <1>5, <2>1 DEF DropOrphan, TypeOK
  <2> QED
    BY <1>5, <2>2, <1>f DEF DropOrphan, tokens, history
<1>6. ASSUME NEW w \in Workers, Ack(w) PROVE TokenInv'
  <2>1. job[w] \in Jobs /\ job[w] \in known
    BY <1>6 DEF Ack, LocalOK, Carrying, EnvelopeInv
  <2>2. CASE ~Held(job[w])
    BY <1>6, <2>2, <1>f DEF Ack, tokens
  <2>3. CASE Held(job[w])
    BY <1>6, <2>1, <2>3 DEF Ack, Held, Unclaim, TypeOK, TokenInv, OneToken,
                            NothingLost, HasToken, Finished, Queued
  <2> QED
    BY <2>2, <2>3
<1>7. ASSUME NEW w \in Workers, Retry(w) PROVE TokenInv'
  <2>1. job[w] \in Jobs
    BY <1>7 DEF Retry, LocalOK, Carrying
  <2>2. CASE ~Held(job[w])
    BY <1>7, <2>2, <1>f DEF Retry, tokens, history
  <2>3. CASE Held(job[w]) /\ Exhausted(attempt[w])
    <3>1. /\ inflight' = [inflight EXCEPT ![job[w]] = @ - 1]
          /\ dead' = [dead EXCEPT ![job[w]] = @ + 1]
          /\ UNCHANGED <<known, ready, scheduled, acked, drained>>
      BY <1>7, <2>3 DEF Retry, Unclaim, Bury, history
    <3>2. inflight[job[w]] = 1 /\ dead[job[w]] = 0 /\ inflight'[job[w]] = 0 /\ dead'[job[w]] = 1
      BY <2>1, <2>3, <3>1 DEF Held, TypeOK, TokenInv, OneToken
    <3>3. \A k \in Jobs \ {job[w]} : inflight'[k] = inflight[k] /\ dead'[k] = dead[k]
      BY <3>1 DEF TypeOK
    <3>4. \A k \in Jobs : Queued(k)' <=> Queued(k)
      BY <3>1 DEF Queued
    <3>5. OneToken'
      BY <2>1, <3>1, <3>2, <3>3, <3>4 DEF TokenInv, OneToken
    <3>6. NothingLost'
      BY <2>1, <3>1, <3>2, <3>3, <3>4 DEF TokenInv, NothingLost, HasToken, Finished
    <3> QED
      BY <3>1, <3>5, <3>6 DEF TokenInv
  <2>4. CASE Held(job[w]) /\ ~Exhausted(attempt[w])
    <3>1. /\ inflight' = [inflight EXCEPT ![job[w]] = @ - 1]
          /\ scheduled' = [scheduled EXCEPT ![job[w]] = "waiting"]
          /\ UNCHANGED <<known, ready, dead, acked, drained>>
      BY <1>7, <2>4 DEF Retry, Unclaim, history
    <3>2. inflight[job[w]] = 1 /\ inflight'[job[w]] = 0 /\ scheduled'[job[w]] = "waiting"
      BY <2>1, <2>4, <3>1 DEF Held, TypeOK, TokenInv, OneToken
    <3>3. \A k \in Jobs \ {job[w]} :
              inflight'[k] = inflight[k] /\ scheduled'[k] = scheduled[k]
      BY <3>1 DEF TypeOK
    <3>4. \A k \in Jobs : Queued(k)' <=> Queued(k)
      BY <3>1 DEF Queued
    <3>5. OneToken'
      BY <2>1, <3>1, <3>2, <3>3, <3>4 DEF TokenInv, OneToken
    <3>6. NothingLost'
      BY <2>1, <3>1, <3>2, <3>3, <3>4 DEF TokenInv, NothingLost, HasToken, Finished
    <3> QED
      BY <3>1, <3>5, <3>6 DEF TokenInv
  <2> QED
    BY <2>2, <2>3, <2>4
<1>8. ASSUME NEW j \in Jobs, RemoveDead(j) PROVE TokenInv'
  <2>1. j \in known
    BY <1>8 DEF RemoveDead, TokenInv, NothingLost, HasToken
  <2> QED
    BY <1>8, <2>1 DEF RemoveDead, TypeOK, TokenInv, OneToken, NothingLost,
                      HasToken, Finished, Queued
<1>9. ASSUME NEW j \in Jobs, RetryDue(j) PROVE TokenInv'
  BY <1>9 DEF RetryDue, history, TypeOK, TokenInv, OneToken, NothingLost,
              HasToken, Finished, Queued
<1>10. ASSUME NEW w \in Workers,
              \/ ScanLeases(w) \/ ScanInflight(w) \/ ReadDue(w)
              \/ \E j \in Jobs : ProbeLease(w, j) \/ ReadStale(w, j)
              \/ PopTimeout(w) \/ ReadEnvelope(w) \/ WriteEnvelope(w)
              \/ TakeLease(w) \/ Heartbeat(w) \/ HeartbeatFails(w)
              \/ Succeed(w) \/ Fail(w) \/ Abandon(w) \/ Crash(w)
       PROVE TokenInv'
  BY <1>10, <1>f
  DEF ScanLeases, ScanInflight, ReadDue, ProbeLease, ReadStale, PopTimeout,
      ReadEnvelope, WriteEnvelope, TakeLease, Heartbeat, HeartbeatFails, Succeed,
      Fail, ProcessorEnds, Abandon, Crash, tokens, queue, history
<1>11. ASSUME NEW j \in Jobs, LeaseExpires(j) \/ LeaseLapses(j) PROVE TokenInv'
  BY <1>11, <1>f DEF LeaseExpires, LeaseLapses, Expire, tokens
<1>12. CASE UNCHANGED vars
  BY <1>12, <1>f DEF vars, tokens, queue, history
<1> QED
  BY <1>1, <1>2, <1>3, <1>4, <1>5, <1>6, <1>7, <1>8, <1>9, <1>10, <1>11, <1>12
  DEF Next, Claim, Work, Clock
\* With NothingLost, the envelopes to be kept are those of unfinished jobs.
LEMMA UnfinishedHasEnvelope ==
    QueueInv => \A j \in known : ~Finished(j) => envelopes[j] # NoEnvelope
BY DEF QueueInv, TypeInv, TypeOK, TokenInv, NothingLost, EnvelopeInv, TokenHasEnvelope

\* Every step keeps the envelopes of unfinished jobs and drops no known job.
LEMMA EnvelopeStep == QueueInv /\ [Next]_vars => EnvelopeInv'
<1> SUFFICES ASSUME QueueInv, [Next]_vars PROVE EnvelopeInv'
  OBVIOUS
<1>t. TypeInv' /\ TokenInv'
  BY TypeStep, TokenStep DEF QueueInv
<1> DEFINE Kept == \A j \in known : ~Finished(j) => envelopes[j] # NoEnvelope
           Accepted == \A j \in Jobs : envelopes[j] # NoEnvelope => j \in known
           Carried == \A w \in Workers : pc[w] \in Carrying => job[w] \in known
<1>k. Kept /\ Accepted /\ Carried
  BY UnfinishedHasEnvelope DEF QueueInv, EnvelopeInv
<1>s. ASSUME Kept', Accepted', Carried' PROVE EnvelopeInv'
  BY <1>s, <1>t DEF EnvelopeInv, TokenHasEnvelope, TokenInv, NothingLost
<1> USE <1>k DEF QueueInv, TypeInv, TypeOK, LocalOK, Goto, NoEnvelope, Finished,
                 Carrying, queue, local, history
<1>1. ASSUME NEW j \in Jobs, Enqueue(j) PROVE EnvelopeInv'
  BY <1>1, <1>s DEF Enqueue, Store
<1>2. ASSUME NEW j \in Jobs, RemoveDead(j) PROVE EnvelopeInv'
  BY <1>2, <1>s DEF RemoveDead, Store
<1>3. ASSUME NEW j \in Jobs, LeaseExpires(j) \/ LeaseLapses(j) \/ RetryDue(j)
      PROVE EnvelopeInv'
  BY <1>3, <1>s DEF LeaseExpires, LeaseLapses, RetryDue, Expire
<1>4. ASSUME NEW w \in Workers,
             \/ ScanLeases(w) \/ ScanInflight(w) \/ ReadDue(w)
             \/ \E j \in Jobs : ProbeLease(w, j) \/ Promote(w, j)
      PROVE EnvelopeInv'
  BY <1>4, <1>s DEF ScanLeases, ScanInflight, ReadDue, ProbeLease, Promote
<1>5. ASSUME NEW w \in Workers, NEW j \in Jobs, ReadStale(w, j) PROVE EnvelopeInv'
  BY <1>5, <1>s DEF ReadStale
<1>6. ASSUME NEW w \in Workers, MoveStale(w) PROVE EnvelopeInv'
  <2>1. job[w] \in Jobs /\ job[w] \in known /\ attempt[w] \in Nat
    BY <1>6 DEF MoveStale
  <2>2. envelopes' \in {envelopes, [envelopes EXCEPT ![job[w]] = attempt[w]]}
    BY <1>6 DEF MoveStale, Store
  <2>3. Carried' /\ UNCHANGED <<known, acked, drained>>
    BY <1>6 DEF MoveStale
  <2> QED
    BY <2>1, <2>2, <2>3, <1>s
<1>7. ASSUME NEW w \in Workers, Pop(w) PROVE EnvelopeInv'
  <2>1. Head(ready) \in known
    BY <1>7, PopReady DEF Pop, MayPop, TokenInv, NothingLost, HasToken
  <2> QED
    BY <1>7, <2>1, <1>s DEF Pop
<1>8. ASSUME NEW w \in Workers,
             PopTimeout(w) \/ Abandon(w) \/ Crash(w) \/ DropOrphan(w)
      PROVE EnvelopeInv'
  <2>1. Rest(w) /\ UNCHANGED <<known, envelopes, acked, drained>>
    BY <1>8 DEF PopTimeout, Abandon, Crash, DropOrphan
  <2>2. Carried'
    BY <2>1 DEF Rest
  <2> QED
    BY <2>1, <2>2, <1>s
<1>9. ASSUME NEW w \in Workers, ReadEnvelope(w) \/ TakeLease(w) PROVE EnvelopeInv'
  BY <1>9, <1>s DEF ReadEnvelope, TakeLease
<1>10. ASSUME NEW w \in Workers, WriteEnvelope(w) PROVE EnvelopeInv'
  BY <1>10, <1>s DEF WriteEnvelope, Store
<1>11. ASSUME NEW w \in Workers,
              Heartbeat(w) \/ HeartbeatFails(w) \/ Succeed(w) \/ Fail(w)
       PROVE EnvelopeInv'
  BY <1>11, <1>s DEF Heartbeat, HeartbeatFails, Succeed, Fail, ProcessorEnds
<1>12. ASSUME NEW w \in Workers, Ack(w) PROVE EnvelopeInv'
  <2>1. job[w] \in Jobs
    BY <1>12 DEF Ack
  <2>2. \/ UNCHANGED <<envelopes, acked>>
        \/ /\ envelopes' = [envelopes EXCEPT ![job[w]] = -1]
           /\ acked' = acked \cup {job[w]}
    BY <1>12 DEF Ack, Store
  <2>3. Carried' /\ UNCHANGED <<known, drained>>
    BY <1>12 DEF Ack, Rest
  <2> QED
    BY <2>1, <2>2, <2>3, <1>s
<1>13. ASSUME NEW w \in Workers, Retry(w) PROVE EnvelopeInv'
  <2>1. job[w] \in Jobs /\ job[w] \in known /\ attempt[w] \in Nat
    BY <1>13 DEF Retry
  <2>2. envelopes' \in {envelopes, [envelopes EXCEPT ![job[w]] = attempt[w]]}
    BY <1>13 DEF Retry, Store
  <2>3. Carried' /\ UNCHANGED <<known, acked, drained>>
    BY <1>13 DEF Retry, Rest
  <2> QED
    BY <2>1, <2>2, <2>3, <1>s
<1>14. CASE UNCHANGED vars
  BY <1>14, <1>s DEF vars
<1> QED
  BY <1>1, <1>2, <1>3, <1>4, <1>5, <1>6, <1>7, <1>8, <1>9, <1>10, <1>11, <1>12,
     <1>13, <1>14 DEF Next, Claim, Work, Clock

\* A worker that finds no envelope is looking at a finished job.
LEMMA MissingStep == QueueInv /\ [Next]_vars => MissingMeansFinished'
<1> SUFFICES ASSUME QueueInv, [Next]_vars, NEW v \in Workers, pc'[v] = "drop"
             PROVE Finished(job[v])'
  BY DEF MissingMeansFinished
<1> USE DEF QueueInv, TypeInv, TypeOK, LocalOK, Goto, Carrying, queue, local, history
<1>1. acked \subseteq acked' /\ drained \subseteq drained'
  BY DEF Next, Claim, Work, Clock, vars, Enqueue, RemoveDead, LeaseExpires,
         LeaseLapses, RetryDue, Expire, ScanLeases, ScanInflight, ReadDue,
         ProbeLease, ReadStale, Promote, MoveStale, Pop, PopTimeout, ReadEnvelope,
         DropOrphan, WriteEnvelope, TakeLease, Heartbeat, HeartbeatFails, Succeed,
         Fail, ProcessorEnds, Abandon, Ack, Retry, Crash
<1>2. CASE pc[v] = "drop" /\ pc'[v] = pc[v] /\ job'[v] = job[v]
  BY <1>1, <1>2 DEF MissingMeansFinished, Finished
<1>3. CASE ReadEnvelope(v)
  <2>1. envelopes[job[v]] = NoEnvelope /\ job'[v] = job[v] /\ job[v] \in known
    BY <1>3 DEF ReadEnvelope, EnvelopeInv
  <2> QED
    BY <2>1, <1>1, UnfinishedHasEnvelope DEF Finished
<1>4. \/ pc[v] = "drop" /\ pc'[v] = pc[v] /\ job'[v] = job[v]
      \/ ReadEnvelope(v)
  <2>1. CASE \E j \in Jobs : Enqueue(j) \/ RemoveDead(j) \/ LeaseExpires(j)
                               \/ LeaseLapses(j) \/ RetryDue(j)
    BY <2>1 DEF Enqueue, RemoveDead, LeaseExpires, LeaseLapses, RetryDue, Expire
  <2>2. CASE UNCHANGED vars
    BY <2>2 DEF vars
  <2>3. ASSUME NEW w \in Workers, Claim(w)
        PROVE  \/ pc[v] = "drop" /\ pc'[v] = pc[v] /\ job'[v] = job[v]
               \/ ReadEnvelope(v)
    BY <2>3 DEF Claim, ScanLeases, ScanInflight, ReadDue, ProbeLease, ReadStale,
                Promote, MoveStale, Pop, PopTimeout, ReadEnvelope, DropOrphan,
                WriteEnvelope, TakeLease, Rest
  <2>4. ASSUME NEW w \in Workers, Work(w) \/ HeartbeatFails(w) \/ Crash(w)
        PROVE  pc[v] = "drop" /\ pc'[v] = pc[v] /\ job'[v] = job[v]
    BY <2>4 DEF Work, Heartbeat, HeartbeatFails, Succeed, Fail, ProcessorEnds,
                Abandon, Ack, Retry, Crash, Rest
  <2> QED
    BY <2>1, <2>2, <2>3, <2>4 DEF Next, Clock
<1> QED
  BY <1>2, <1>3, <1>4

\* However the workers interleave, crash and lose their leases: a job has one
\* copy in the queue until it is finished and none afterwards, that copy has an
\* envelope, and the missing-envelope error drops nothing that is unfinished.
THEOREM QueueKeepsJobs ==
    Spec => [](OneToken /\ NothingLost /\ TokenHasEnvelope /\ MissingMeansFinished)
<1>1. QueueInv /\ [Next]_vars => QueueInv'
  BY TypeStep, TokenStep, EnvelopeStep, MissingStep DEF QueueInv
<1>2. QueueInv => OneToken /\ NothingLost /\ TokenHasEnvelope /\ MissingMeansFinished
  BY DEF QueueInv, TokenInv, EnvelopeInv
<1> QED
  BY QueueInvInit, <1>1, <1>2, PTL DEF Spec

\* However workers race, a job is in one place of the queue and only once.
THEOREM OneCopyOfEachJob == Spec => []OneToken
BY QueueKeepsJobs, PTL

\* A claim is dropped for its missing envelope only when the job is finished.
THEOREM DroppedClaimsAreFinished == Spec => []MissingMeansFinished
BY QueueKeepsJobs, PTL
-----------------------------------------------------------------------------
(* Attempts.  Counts are read, carried and written back late, so they say   *)
(* nothing about the claims that were made after the reading; but no copy   *)
(* of a count, stored or carried, is ever ahead of the claims written.      *)

CountInv ==
    /\ NoEarlyDeadLetter
    /\ \A j \in Jobs : envelopes[j] <= claims[j]
    /\ \A w \in Workers :
        /\ pc[w] = "move" => attempt[w] <= claims[job[w]]
        /\ pc[w] = "write" => attempt[w] <= claims[job[w]] + 1
        /\ pc[w] \in {"lease", "work", "ack", "retry"} =>
              attempt[w] <= claims[job[w]] /\ claims[job[w]] > 0

\* Burying at the cap, and storing a count, keep what CountInv says of them.
LEMMA BuryLate ==
    ASSUME TypeOK, NoEarlyDeadLetter, NEW j \in Jobs, NEW a \in Nat, a <= claims[j],
           UNCHANGED claims,
           UNCHANGED dead \/ (Exhausted(a) /\ Bury(j))
    PROVE  NoEarlyDeadLetter'
<1>1. CASE UNCHANGED dead
  BY <1>1 DEF NoEarlyDeadLetter
<1>2. CASE Exhausted(a) /\ Bury(j)
  <2>1. claims[j] >= MaxAttempts
    BY <1>2, BoundsAssumption DEF Exhausted, TypeOK
  <2>2. \A k \in Jobs : k # j => dead'[k] = dead[k]
    BY <1>2 DEF Bury, TypeOK
  <2> QED
    BY <2>1, <2>2 DEF NoEarlyDeadLetter
<1> QED
  BY <1>1, <1>2

LEMMA StoreBehind ==
    ASSUME TypeOK, \A k \in Jobs : envelopes[k] <= claims[k], UNCHANGED claims,
           NEW j \in Jobs, NEW a \in Nat \cup {NoEnvelope}, a <= claims[j],
           UNCHANGED envelopes \/ Store(j, a)
    PROVE  \A k \in Jobs : (envelopes[k] <= claims[k])'
BY DEF TypeOK, Store

LEMMA CountStep == TypeInv /\ CountInv /\ [Next]_vars => CountInv'
<1> SUFFICES ASSUME TypeInv, CountInv, [Next]_vars PROVE CountInv'
  OBVIOUS
<1> USE DEF TypeInv, TypeOK, LocalOK, CountInv, NoEarlyDeadLetter, Goto, Carrying,
            NoEnvelope, queue, local, history
<1>1. ASSUME NEW j \in Jobs, Enqueue(j) PROVE CountInv'
  BY <1>1 DEF Enqueue, Store
<1>2. ASSUME NEW j \in Jobs, RemoveDead(j) PROVE CountInv'
  BY <1>2 DEF RemoveDead, Store
<1>3. ASSUME NEW j \in Jobs, LeaseExpires(j) \/ LeaseLapses(j) \/ RetryDue(j)
      PROVE CountInv'
  BY <1>3 DEF LeaseExpires, LeaseLapses, RetryDue, Expire
<1>4. ASSUME NEW w \in Workers,
             \/ ScanLeases(w) \/ ScanInflight(w) \/ ReadDue(w)
             \/ \E j \in Jobs : ProbeLease(w, j) \/ Promote(w, j)
      PROVE CountInv'
  BY <1>4 DEF ScanLeases, ScanInflight, ReadDue, ProbeLease, Promote
<1>5. ASSUME NEW w \in Workers, NEW j \in Jobs, ReadStale(w, j) PROVE CountInv'
  BY <1>5 DEF ReadStale
<1>6. ASSUME NEW w \in Workers, MoveStale(w) PROVE CountInv'
  <2>1. job[w] \in Jobs /\ attempt[w] <= claims[job[w]] /\ UNCHANGED claims
    BY <1>6 DEF MoveStale
  <2>2. UNCHANGED envelopes \/ Store(job[w], attempt[w])
    BY <1>6 DEF MoveStale
  <2>3. UNCHANGED dead \/ (Exhausted(attempt[w]) /\ Bury(job[w]))
    BY <1>6 DEF MoveStale
  <2>4. \A v \in Workers : pc'[v] # "probe" =>
            pc'[v] = pc[v] /\ job'[v] = job[v] /\ attempt'[v] = attempt[v]
    BY <1>6 DEF MoveStale
  <2>5. NoEarlyDeadLetter'
    BY <2>1, <2>3, BuryLate
  <2>6. \A j \in Jobs : (envelopes[j] <= claims[j])'
    BY <2>1, <2>2, StoreBehind
  <2> QED
    BY <2>1, <2>4, <2>5, <2>6
<1>7. ASSUME NEW w \in Workers, Pop(w) PROVE CountInv'
  BY <1>7 DEF Pop
<1>8. ASSUME NEW w \in Workers,
             PopTimeout(w) \/ Abandon(w) \/ Crash(w) \/ DropOrphan(w)
      PROVE CountInv'
  <2>1. Rest(w) /\ UNCHANGED <<envelopes, claims, dead>>
    BY <1>8 DEF PopTimeout, Abandon, Crash, DropOrphan
  <2>2. \A v \in Workers : pc'[v] # "idle" =>
            pc'[v] = pc[v] /\ job'[v] = job[v] /\ attempt'[v] = attempt[v]
    BY <2>1 DEF Rest
  <2> QED
    BY <2>1, <2>2
<1>9. ASSUME NEW w \in Workers, ReadEnvelope(w) PROVE CountInv'
  BY <1>9 DEF ReadEnvelope
<1>10. ASSUME NEW w \in Workers, WriteEnvelope(w) PROVE CountInv'
  <2>1. /\ job[w] \in Jobs /\ attempt[w] <= claims[job[w]] + 1
        /\ envelopes' = [envelopes EXCEPT ![job[w]] = attempt[w]]
        /\ claims' = [claims EXCEPT ![job[w]] = @ + 1]
        /\ pc' = [pc EXCEPT ![w] = "lease"]
        /\ UNCHANGED <<job, attempt, dead>>
    BY <1>10 DEF WriteEnvelope, Store
  <2>2. \A j \in Jobs : claims'[j] >= claims[j] /\ claims'[j] \in Nat
    BY <2>1
  <2>3. claims'[job[w]] = claims[job[w]] + 1
    BY <2>1
  <2>4. NoEarlyDeadLetter'
    BY <2>1, <2>2, BoundsAssumption
  <2>5. \A j \in Jobs : (envelopes[j] <= claims[j])'
    BY <2>1, <2>2, <2>3
  <2>6. \A v \in Workers \ {w} : pc'[v] = pc[v]
    BY <2>1
  <2>7. \A v \in Workers : pc[v] \in Carrying => claims'[job[v]] >= claims[job[v]]
    BY <2>2
  <2> QED
    BY <2>1, <2>2, <2>3, <2>4, <2>5, <2>6, <2>7
<1>11. ASSUME NEW w \in Workers, TakeLease(w) PROVE CountInv'
  BY <1>11 DEF TakeLease
<1>12. ASSUME NEW w \in Workers, Heartbeat(w) \/ HeartbeatFails(w) PROVE CountInv'
  BY <1>12 DEF Heartbeat, HeartbeatFails
<1>13. ASSUME NEW w \in Workers, Succeed(w) \/ Fail(w) PROVE CountInv'
  BY <1>13 DEF Succeed, Fail, ProcessorEnds
<1>14. ASSUME NEW w \in Workers, Ack(w) \/ Retry(w) PROVE CountInv'
  <2>1. /\ job[w] \in Jobs /\ attempt[w] <= claims[job[w]]
        /\ Rest(w) /\ UNCHANGED claims
    BY <1>14 DEF Ack, Retry
  <2>2. \E a \in {attempt[w], NoEnvelope} : UNCHANGED envelopes \/ Store(job[w], a)
    BY <1>14 DEF Ack, Retry
  <2>3. UNCHANGED dead \/ (Exhausted(attempt[w]) /\ Bury(job[w]))
    BY <1>14 DEF Ack, Retry
  <2>4. \A v \in Workers : pc'[v] # "idle" =>
            pc'[v] = pc[v] /\ job'[v] = job[v] /\ attempt'[v] = attempt[v]
    BY <2>1 DEF Rest
  <2>5. NoEarlyDeadLetter'
    BY <2>1, <2>3, BuryLate
  <2>6. \A j \in Jobs : (envelopes[j] <= claims[j])'
    BY <2>1, <2>2, StoreBehind
  <2> QED
    BY <2>1, <2>4, <2>5, <2>6
<1>15. CASE UNCHANGED vars
  BY <1>15 DEF vars
<1> QED
  BY <1>1, <1>2, <1>3, <1>4, <1>5, <1>6, <1>7, <1>8, <1>9, <1>10, <1>11, <1>12,
     <1>13, <1>14, <1>15 DEF Next, Claim, Work, Clock

\* A job is dead-lettered only after MaxAttempts claims of it.
THEOREM QueueBuriesLate == Spec => []NoEarlyDeadLetter
<1>1. Init => TypeInv /\ CountInv
  BY TypeInit DEF Init, CountInv, NoEarlyDeadLetter, NoEnvelope
<1>2. TypeInv /\ CountInv /\ [Next]_vars => (TypeInv /\ CountInv)'
  BY TypeStep, CountStep
<1>3. CountInv => NoEarlyDeadLetter
  BY DEF CountInv
<1> QED
  BY <1>1, <1>2, <1>3, PTL DEF Spec

-----------------------------------------------------------------------------
(* The refinement: every step is a step of ReliableQueue or changes neither *)
(* Place nor claims.                                                        *)

SameSpot(k) ==
    /\ Queued(k)' <=> Queued(k)
    /\ inflight'[k] = inflight[k] /\ dead'[k] = dead[k]
    /\ scheduled'[k] = "none" <=> scheduled[k] = "none"
    /\ k \in known' <=> k \in known

LEMMA PlaceStays == (\A k \in Jobs : SameSpot(k)) => Place' = Place
BY DEF SameSpot, Place

LEMMA PlaceMoves ==
    ASSUME NEW j \in Jobs, \A k \in Jobs \ {j} : SameSpot(k)
    PROVE  Place' = [Place EXCEPT ![j] = Place'[j]]
BY DEF SameSpot, Place

LEMMA Refinement ==
    QueueInv /\ CountInv /\ [Next]_vars => [Reliable!Next]_(Reliable!vars)
<1> SUFFICES ASSUME QueueInv, CountInv, [Next]_vars
             PROVE  [Reliable!Next]_(Reliable!vars)
  OBVIOUS
<1> DEFINE Moves(j, from, to) ==
        /\ Place[j] = from /\ Place'[j] = to
        /\ \A k \in Jobs \ {j} : SameSpot(k)
        /\ UNCHANGED claims
<1>m. ASSUME NEW j \in Jobs, NEW from, NEW to, Moves(j, from, to)
      PROVE  Reliable!Move(j, from, to)
  BY <1>m, PlaceMoves DEF Reliable!Move
<1>s. ASSUME UNCHANGED <<known, ready, inflight, scheduled, dead, claims>>
      PROVE  UNCHANGED Reliable!vars
  BY <1>s, PlaceStays DEF SameSpot, Queued, Reliable!vars
<1> HIDE DEF Moves
<1>o. OneToken /\ NothingLost /\ TypeOK
  BY DEF QueueInv, TokenInv, TypeInv
<1>1. ASSUME NEW j \in Jobs, Enqueue(j) PROVE Reliable!Accept(j)
  <2>1. j \notin known /\ ~Queued(j) /\ inflight[j] = 0 /\ scheduled[j] = "none"
        /\ dead[j] = 0
    BY <1>1, <1>o DEF Enqueue, Unknown, NothingLost, HasToken, TypeOK
  <2>2. \A k \in Jobs : Queued(k)' <=> Queued(k) \/ k = j
    BY <1>1, <1>o, <2>1, PushReady DEF Enqueue
  <2>3. Moves(j, "absent", "ready")
    BY <1>1, <2>1, <2>2 DEF Moves, Enqueue, Place, SameSpot, history
  <2> QED
    BY <2>3, <1>m DEF Reliable!Accept
<1>2. ASSUME NEW w \in Workers, NEW j \in Jobs, Promote(w, j)
      PROVE  Reliable!Wake(j) \/ UNCHANGED Reliable!vars
  <2>1. CASE ~Asleep(j)
    BY <1>2, <2>1, <1>s DEF Promote, history
  <2>2. CASE Asleep(j)
    <3>1. scheduled[j] # "none" /\ ~Queued(j) /\ inflight[j] = 0 /\ Push(j)
      BY <1>2, <1>o, <2>2 DEF Promote, Asleep, OneToken, TypeOK
    <3>2. \A k \in Jobs : Queued(k)' <=> Queued(k) \/ k = j
      BY <1>o, <3>1, PushReady
    <3>3. Moves(j, "scheduled", "ready")
      BY <1>2, <1>o, <2>2, <3>1, <3>2
      DEF Moves, Promote, Place, SameSpot, history, TypeOK
    <3> QED
      BY <3>3, <1>m DEF Reliable!Wake
  <2> QED
    BY <2>1, <2>2
\* A script that takes the inflight copy of a job and puts it at "to".
<1>u. ASSUME NEW j \in Jobs, Held(j), Unclaim(j), UNCHANGED <<known, claims>>,
             NEW to \in {"ready", "scheduled", "dead", "done"},
             Queued(j)' <=> to = "ready",
             scheduled'[j] # "none" <=> to = "scheduled",
             dead'[j] > 0 <=> to = "dead",
             \A k \in Jobs \ {j} : /\ Queued(k)' <=> Queued(k)
                                   /\ scheduled'[k] = scheduled[k]
                                   /\ dead'[k] = dead[k]
      PROVE  Moves(j, "inflight", to)
  <2>1. inflight[j] = 1 /\ ~Queued(j) /\ scheduled[j] = "none" /\ dead[j] = 0
    BY <1>u, <1>o DEF Held, OneToken, TypeOK
  <2>2. /\ inflight'[j] = 0
        /\ \A k \in Jobs \ {j} : inflight'[k] = inflight[k]
    BY <1>u, <1>o, <2>1 DEF Unclaim, TypeOK
  <2>3. j \in known
    BY <1>o, <2>1 DEF NothingLost, HasToken
  <2>4. Place[j] = "inflight"
    BY <2>1 DEF Place
  <2>5. Place'[j] = to
    BY <1>u, <2>2, <2>3 DEF Place
  <2> QED
    BY <1>u, <2>2, <2>4, <2>5 DEF Moves, SameSpot
<1>3. ASSUME NEW w \in Workers, MoveStale(w)
      PROVE  \E j \in Jobs : \/ Reliable!GiveBack(j) \/ Reliable!Bury(j)
                             \/ UNCHANGED Reliable!vars
  <2> DEFINE j == job[w]
  <2>1. j \in Jobs /\ attempt[w] <= claims[j] /\ attempt[w] \in Nat
    BY <1>3 DEF MoveStale, QueueInv, TypeInv, TypeOK, LocalOK, Carrying, CountInv
  <2>2. CASE ~Held(j)
    BY <1>3, <2>1, <2>2, <1>s DEF MoveStale, history
  <2>3. CASE Held(j)
    <3>1. /\ inflight[j] > 0 /\ ~Queued(j) /\ scheduled[j] = "none" /\ dead[j] = 0
          /\ Unclaim(j) /\ UNCHANGED <<known, claims, scheduled>>
      BY <1>3, <1>o, <2>1, <2>3 DEF MoveStale, Held, OneToken, history
    <3>2. CASE Exhausted(attempt[w])
      <4>1. Bury(j) /\ UNCHANGED ready
        BY <1>3, <2>3, <3>2 DEF MoveStale
      <4>2. /\ dead'[j] = 1 /\ \A k \in Jobs \ {j} : dead'[k] = dead[k]
            /\ \A k \in Jobs : Queued(k)' <=> Queued(k)
        BY <1>o, <2>1, <3>1, <4>1 DEF Bury, TypeOK, Queued
      <4>3. Moves(j, "inflight", "dead")
        BY <2>1, <2>3, <3>1, <4>2, <1>u
      <4>4. claims[j] >= MaxAttempts
        BY <1>o, <2>1, <3>2, BoundsAssumption DEF Exhausted, TypeOK
      <4> QED
        BY <2>1, <4>3, <4>4, <1>m DEF Reliable!Bury
    <3>3. CASE ~Exhausted(attempt[w])
      <4>1. Push(j) /\ UNCHANGED dead
        BY <1>3, <2>3, <3>3 DEF MoveStale
      <4>2. \A k \in Jobs : Queued(k)' <=> Queued(k) \/ k = j
        BY <1>o, <2>1, <3>1, <4>1, PushReady
      <4>3. Moves(j, "inflight", "ready")
        BY <2>1, <2>3, <3>1, <4>1, <4>2, <1>u
      <4> QED
        BY <2>1, <4>3, <1>m DEF Reliable!GiveBack
    <3> QED
      BY <3>2, <3>3
  <2> QED
    BY <2>1, <2>2, <2>3
<1>4. ASSUME NEW w \in Workers, Pop(w) PROVE \E j \in Jobs : Reliable!Take(j)
  <2> DEFINE j == Head(ready)
  <2>1. /\ j \in Jobs /\ Queued(j)
        /\ \A k \in Jobs : Queued(k)' <=> Queued(k) /\ k # j
    BY <1>4, <1>o, PopReady DEF Pop, MayPop
  <2>2. /\ inflight'[j] = inflight[j] + 1
        /\ \A k \in Jobs \ {j} : inflight'[k] = inflight[k]
    BY <1>4, <1>o, <2>1 DEF Pop, TypeOK
  <2>3. inflight'[j] > 0
    BY <1>o, <2>1, <2>2 DEF TypeOK
  <2>4. Moves(j, "ready", "inflight")
    BY <1>4, <2>1, <2>2, <2>3 DEF Moves, Pop, Place, SameSpot, history
  <2> QED
    BY <2>1, <2>4, <1>m DEF Reliable!Take
<1>5. ASSUME NEW w \in Workers, DropOrphan(w) PROVE UNCHANGED Reliable!vars
  <2>1. job[w] \in Jobs /\ ~Held(job[w])
    BY <1>5, <1>o DEF DropOrphan, QueueInv, TypeInv, LocalOK, Carrying,
                      MissingMeansFinished, NothingLost, HasToken, Held
  <2>2. inflight' = inflight
    BY <1>5, <1>o, <2>1 DEF DropOrphan, TypeOK
  <2> QED
    BY <1>5, <2>2, <1>s DEF DropOrphan, history
<1>6. ASSUME NEW w \in Workers, Ack(w)
      PROVE  \E j \in Jobs : Reliable!Finish(j) \/ UNCHANGED Reliable!vars
  <2> DEFINE j == job[w]
  <2>1. j \in Jobs /\ claims[j] > 0
    BY <1>6 DEF Ack, QueueInv, TypeInv, LocalOK, Carrying, CountInv
  <2>2. CASE ~Held(j)
    BY <1>6, <2>1, <2>2, <1>s DEF Ack
  <2>3. CASE Held(j)
    <3>1. /\ ~Queued(j) /\ scheduled[j] = "none" /\ dead[j] = 0
          /\ Unclaim(j) /\ UNCHANGED <<known, claims, scheduled, dead, ready>>
      BY <1>6, <1>o, <2>1, <2>3 DEF Ack, Held, OneToken
    <3>2. \A k \in Jobs : Queued(k)' <=> Queued(k)
      BY <3>1 DEF Queued
    <3>3. Moves(j, "inflight", "done")
      BY <2>1, <2>3, <3>1, <3>2, <1>u
    <3> QED
      BY <2>1, <3>3, <1>m DEF Reliable!Finish
  <2> QED
    BY <2>1, <2>2, <2>3
<1>7. ASSUME NEW w \in Workers, Retry(w)
      PROVE  \E j \in Jobs : \/ Reliable!Delay(j) \/ Reliable!Bury(j)
                             \/ UNCHANGED Reliable!vars
  <2> DEFINE j == job[w]
  <2>1. j \in Jobs /\ attempt[w] <= claims[j] /\ attempt[w] \in Nat
    BY <1>7 DEF Retry, QueueInv, TypeInv, TypeOK, LocalOK, Carrying, CountInv
  <2>2. CASE ~Held(j)
    BY <1>7, <2>1, <2>2, <1>s DEF Retry, history
  <2>3. CASE Held(j)
    <3>1. /\ ~Queued(j) /\ scheduled[j] = "none" /\ dead[j] = 0
          /\ Unclaim(j) /\ UNCHANGED <<known, claims, ready>>
      BY <1>7, <1>o, <2>1, <2>3 DEF Retry, Held, OneToken, history
    <3>q. \A k \in Jobs : Queued(k)' <=> Queued(k)
      BY <3>1 DEF Queued
    <3>2. CASE Exhausted(attempt[w])
      <4>1. Bury(j) /\ UNCHANGED scheduled
        BY <1>7, <2>3, <3>2 DEF Retry
      <4>2. dead'[j] = 1 /\ \A k \in Jobs \ {j} : dead'[k] = dead[k]
        BY <1>o, <2>1, <3>1, <4>1 DEF Bury, TypeOK
      <4>3. Moves(j, "inflight", "dead")
        BY <2>1, <2>3, <3>1, <3>q, <4>1, <4>2, <1>u
      <4>4. claims[j] >= MaxAttempts
        BY <1>o, <2>1, <3>2, BoundsAssumption DEF Exhausted, TypeOK
      <4> QED
        BY <2>1, <4>3, <4>4, <1>m DEF Reliable!Bury
    <3>3. CASE ~Exhausted(attempt[w])
      <4>1. /\ scheduled'[j] = "waiting" /\ UNCHANGED dead
            /\ \A k \in Jobs \ {j} : scheduled'[k] = scheduled[k]
        BY <1>7, <1>o, <2>1, <2>3, <3>3 DEF Retry, TypeOK
      <4>2. Moves(j, "inflight", "scheduled")
        BY <2>1, <2>3, <3>1, <3>q, <4>1, <1>u
      <4> QED
        BY <2>1, <4>2, <1>m DEF Reliable!Delay
    <3> QED
      BY <3>2, <3>3
  <2> QED
    BY <2>1, <2>2, <2>3
<1>8. ASSUME NEW j \in Jobs, RemoveDead(j) PROVE Reliable!Drain(j)
  <2>1. /\ dead[j] = 1 /\ ~Queued(j) /\ inflight[j] = 0 /\ scheduled[j] = "none"
        /\ j \in known
    BY <1>8, <1>o DEF RemoveDead, OneToken, NothingLost, HasToken, TypeOK
  <2>2. /\ dead'[j] = 0 /\ \A k \in Jobs \ {j} : dead'[k] = dead[k]
        /\ UNCHANGED <<known, ready, inflight, scheduled, claims>>
    BY <1>8, <1>o, <2>1 DEF RemoveDead, TypeOK
  <2>3. \A k \in Jobs : Queued(k)' <=> Queued(k)
    BY <2>2 DEF Queued
  <2>4. Moves(j, "dead", "done")
    BY <2>1, <2>2, <2>3 DEF Moves, Place, SameSpot
  <2> QED
    BY <2>4, <1>m DEF Reliable!Drain
<1>9. ASSUME NEW w \in Workers, WriteEnvelope(w) PROVE \E j \in Jobs : Reliable!Hand(j)
  <2>1. job[w] \in Jobs /\ job[w] \in known
    BY <1>9 DEF WriteEnvelope, QueueInv, TypeInv, LocalOK, Carrying, EnvelopeInv
  <2>2. Place' = Place
    BY <1>9, PlaceStays DEF WriteEnvelope, SameSpot, Queued
  <2>3. Place[job[w]] # "absent"
    BY <2>1 DEF Place
  <2> QED
    BY <1>9, <2>1, <2>2, <2>3 DEF WriteEnvelope, Reliable!Hand
<1>10. ASSUME NEW j \in Jobs, RetryDue(j) PROVE UNCHANGED Reliable!vars
  BY <1>10, <1>o, PlaceStays
  DEF RetryDue, SameSpot, Queued, Reliable!vars, history, TypeOK
<1>11. ASSUME NEW w \in Workers,
              \/ ScanLeases(w) \/ ScanInflight(w) \/ ReadDue(w)
              \/ \E j \in Jobs : ProbeLease(w, j) \/ ReadStale(w, j)
              \/ PopTimeout(w) \/ ReadEnvelope(w)
              \/ TakeLease(w) \/ Heartbeat(w) \/ HeartbeatFails(w)
              \/ Succeed(w) \/ Fail(w) \/ Abandon(w) \/ Crash(w)
       PROVE UNCHANGED Reliable!vars
  BY <1>11, <1>s
  DEF ScanLeases, ScanInflight, ReadDue, ProbeLease, ReadStale, PopTimeout,
      ReadEnvelope, TakeLease, Heartbeat, HeartbeatFails, Succeed, Fail,
      ProcessorEnds, Abandon, Crash, queue, history
<1>12. ASSUME NEW j \in Jobs, LeaseExpires(j) \/ LeaseLapses(j)
       PROVE UNCHANGED Reliable!vars
  BY <1>12, <1>s DEF LeaseExpires, LeaseLapses, Expire
<1>13. CASE UNCHANGED vars
  BY <1>13, <1>s DEF vars, queue, history
<1> QED
  BY <1>1, <1>2, <1>3, <1>4, <1>5, <1>6, <1>7, <1>8, <1>9, <1>10, <1>11, <1>12,
     <1>13 DEF Next, Claim, Work, Clock, Reliable!Next

\* The Redis queue and its workers implement the abstract promise.
THEOREM QueueImplementsPromise == Spec => KeepsPromise
<1>1. Init => QueueInv /\ CountInv
  BY QueueInvInit DEF Init, CountInv, NoEarlyDeadLetter, NoEnvelope
<1>2. QueueInv /\ CountInv /\ [Next]_vars => (QueueInv /\ CountInv)'
  BY TypeStep, TokenStep, EnvelopeStep, MissingStep, CountStep DEF QueueInv
<1>3. Init => Reliable!Init
  <2>1. \A j : ~In(<<>>, j)
    BY DEF In
  <2> QED
    BY <2>1 DEF Init, Reliable!Init, Place, Queued
<1> QED
  BY <1>1, <1>2, <1>3, Refinement, PTL DEF Spec, KeepsPromise, Reliable!Spec
=============================================================================

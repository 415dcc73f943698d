-------------------------- MODULE ToolCircuitProofs --------------------------
(* Theorems about ToolCircuit, for any number of callers, tools and threads.*)
EXTENDS ToolCircuit, FiniteSetTheorems, TLAPS

\* A caller inside circuit.call knows its tool.
Named == \A c \in Callers : pc[c] \in InCall => tool[c] \in Tools

TypeInv == TypeOK /\ Named
PoolInv == TypeInv /\ OwnsOneCall

\* The parts of a step of a caller that leave the pool alone: it does not wait
\* before the step and does not wait after it.
OwnStep(c) ==
    /\ pc[c] # "waiting"
    /\ \E s \in Step \ {"waiting"} : pc' = [pc EXCEPT ![c] = s]
    /\ \E t \in Tools \cup {NoTool} : tool' = [tool EXCEPT ![c] = t]
    /\ UNCHANGED pool

-----------------------------------------------------------------------------

LEMMA PoolInit == Init => PoolInv
<1>1. ASSUME Init PROVE crowded \in BOOLEAN
  <2>1. crowded = Crowding
    BY <1>1 DEF Init
  <2>2. Crowding \in BOOLEAN
    BY DEF Crowding
  <2> QED BY <2>1, <2>2
<1> QED
  BY <1>1, CircuitConstants, SMT
  DEF Init, PoolInv, TypeInv, TypeOK, Named, OwnsOneCall, QueueAwaited, ThreadsAwaited,
      OnceQueued, OnceRunning, NotBoth, WaitsForCall, Awaited, Circuit, Step, Task, Free,
      InCall

\* Who owns the calls in the pool, and for which tool.
LEMMA Owners ==
  ASSUME TypeOK
  PROVE  /\ Len(queue) \in Nat /\ DOMAIN queue = 1..Len(queue)
         /\ \A i \in DOMAIN queue : /\ queue[i] \in Task /\ queue[i].tool \in Tools
                                    /\ queue[i].by \in Callers \cup {NoCaller}
         /\ \A h \in Threads : /\ busy[h].by \in Callers \cup {NoCaller}
                               /\ busy[h].tool \in Tools \cup {NoTool}
                               /\ busy[h].by # NoCaller => busy[h].tool \in Tools
<1>1. Len(queue) \in Nat /\ DOMAIN queue = 1..Len(queue)
  BY DEF TypeOK
<1>2. \A i \in DOMAIN queue : queue[i] \in Task
  BY <1>1 DEF TypeOK
<1>3. \A task \in Task : task.tool \in Tools /\ task.by \in Callers \cup {NoCaller}
  BY DEF Task
<1>4. Free.by = NoCaller /\ Free.tool = NoTool
  BY DEF Free
<1>5. \A h \in Threads : busy[h] \in Task \/ busy[h] = Free
  BY DEF TypeOK
<1>6. \A i \in DOMAIN queue : /\ queue[i].tool \in Tools
                              /\ queue[i].by \in Callers \cup {NoCaller}
  BY <1>2, <1>3
<1>7. \A h \in Threads : /\ busy[h].by \in Callers \cup {NoCaller}
                         /\ busy[h].tool \in Tools \cup {NoTool}
                         /\ busy[h].by # NoCaller => busy[h].tool \in Tools
  BY <1>3, <1>4, <1>5
<1> QED BY <1>1, <1>2, <1>6, <1>7

LEMMA TypeStep ==
  ASSUME PoolInv, [Next]_vars
  PROVE  TypeInv'
<1>a. failures \in [Tools -> Nat] /\ opened \in [Tools -> Circuit]
  BY DEF PoolInv, TypeInv, TypeOK
<1>b. /\ pc \in [Callers -> Step] /\ tool \in [Callers -> Tools \cup {NoTool}]
      /\ \A c \in Callers : pc[c] \in InCall => tool[c] \in Tools
  BY DEF PoolInv, TypeInv, TypeOK, Named
<1>c. /\ queue \in Seq(Task) /\ busy \in [Threads -> Task \cup {Free}]
      /\ delayed \subseteq Callers
  BY DEF PoolInv, TypeInv, TypeOK
<1>d. /\ streak \in [Tools -> 0..Threshold] /\ blamed \subseteq Tools
      /\ crowded \in BOOLEAN /\ overtaken \subseteq Callers
  BY DEF PoolInv, TypeInv, TypeOK
<1>e. \A h \in Threads : busy[h].by # NoCaller =>
         /\ busy[h].by \in Callers /\ busy[h].tool \in Tools
         /\ pc[busy[h].by] = "waiting" /\ tool[busy[h].by] = busy[h].tool
  BY Owners DEF PoolInv, TypeInv, OwnsOneCall, ThreadsAwaited, Awaited
<1>f. \A t \in Tools : /\ Longer(t) \in [Tools -> 0..Threshold]
                       /\ [streak EXCEPT ![t] = 0] \in [Tools -> 0..Threshold]
  BY <1>d, CircuitConstants, SMT DEF Longer
<1> DEFINE BreakerTypes == failures \in [Tools -> Nat] /\ opened \in [Tools -> Circuit]
           CallerTypes  == /\ pc \in [Callers -> Step]
                           /\ tool \in [Callers -> Tools \cup {NoTool}]
                           /\ \A c \in Callers : pc[c] \in InCall => tool[c] \in Tools
           PoolTypes    == /\ queue \in Seq(Task) /\ busy \in [Threads -> Task \cup {Free}]
                           /\ delayed \subseteq Callers
           PastTypes    == /\ streak \in [Tools -> 0..Threshold] /\ blamed \subseteq Tools
                           /\ crowded \in BOOLEAN /\ overtaken \subseteq Callers
<1>g. BreakerTypes' /\ CallerTypes' /\ PoolTypes' /\ PastTypes' => TypeInv'
  BY DEF TypeInv, TypeOK, Named
\* What the shared parts of the actions keep.
<1>h. ASSUME NEW t \in Tools, Reset(t) PROVE BreakerTypes'
  BY <1>h, <1>a, SMT DEF Reset, Circuit
<1>i. ASSUME NEW c \in Callers, NEW s \in Step, Goto(c, s), tool[c] \in Tools
      PROVE  CallerTypes'
  BY <1>i, <1>b, SMT DEF Goto
<1>j. ASSUME NEW c \in Callers, Return(c) PROVE CallerTypes'
  BY <1>j, <1>b, SMT DEF Return, Step, InCall
<1>k. ASSUME NEW c \in Callers, NEW t \in Tools, NEW s \in Step,
             pc' = [pc EXCEPT ![c] = s], tool' = [tool EXCEPT ![c] = t]
      PROVE  CallerTypes'
  BY <1>k, <1>b, SMT
<1>l. /\ UNCHANGED circuit => BreakerTypes'
      /\ UNCHANGED caller => CallerTypes'
      /\ UNCHANGED pool => PoolTypes'
      /\ UNCHANGED history => PastTypes'
  BY <1>a, <1>b, <1>c, <1>d DEF circuit, caller, pool, history
<1> HIDE DEF BreakerTypes, CallerTypes, PoolTypes, PastTypes
<1>1. ASSUME NEW c \in Callers, NEW t \in Tools, Call(c, t) PROVE TypeInv'
  <2>1. CallerTypes'
    <3>1. "admitted" \in Step /\ "refused" \in Step
      BY DEF Step
    <3> QED BY <1>1, <1>k, <3>1 DEF Call, Ask, Admit
  <2>2. BreakerTypes' /\ streak' \in [Tools -> 0..Threshold]
    <3>1. CASE UNCHANGED <<circuit, streak>>
      BY <3>1, <1>l, <1>d
    <3>2. CASE Retried(t)
      BY <3>2, <1>f, <1>h DEF Retried
    <3> QED BY <1>1, <3>1, <3>2 DEF Call, Closed
  <2>3. PoolTypes' /\ blamed' \subseteq Tools /\ crowded' \in BOOLEAN /\ overtaken' \subseteq Callers
    BY <1>1, <1>l, <1>d DEF Call, Ask
  <2> QED BY <2>1, <2>2, <2>3, <1>g DEF PastTypes
<1>2. ASSUME NEW c \in Callers, Refuse(c) PROVE TypeInv'
  BY <1>2, <1>g, <1>j, <1>l DEF Refuse
<1>3. ASSUME NEW c \in Callers, Submit(c) PROVE TypeInv'
  <2>1. tool[c] \in Tools /\ "waiting" \in Step
    BY <1>3, <1>b DEF Submit, InCall, Step
  <2>2. [by |-> c, tool |-> tool[c]] \in Task
    BY <2>1 DEF Task
  <2>3. PoolTypes'
    BY <1>3, <2>2, <1>c, SMT DEF Submit, PoolTypes
  <2> QED BY <1>3, <2>1, <2>3, <1>g, <1>i, <1>l DEF Submit
<1>4. ASSUME NEW c \in Callers, CountFailure(c) PROVE TypeInv'
  <2>1. tool[c] \in Tools
    BY <1>4, <1>b DEF CountFailure, InCall
  <2>2. failures' \in [Tools -> Nat]
    BY <1>4, <2>1, <1>a, SMT DEF CountFailure
  <2>3. opened' \in [Tools -> Circuit]
    BY <1>4, <2>1, <1>a, SMT DEF CountFailure, Circuit
  <2>4. BreakerTypes'
    BY <2>2, <2>3 DEF BreakerTypes
  <2>5. overtaken' \subseteq Callers
    BY <1>4, <1>d DEF CountFailure, InFlight
  <2>6. PastTypes'
    BY <1>4, <2>5, <1>d DEF CountFailure, PastTypes
  <2> QED BY <1>4, <2>4, <2>6, <1>g, <1>j, <1>l DEF CountFailure
<1>5. ASSUME NEW c \in Callers, Succeed(c) PROVE TypeInv'
  <2>1. tool[c] \in Tools
    BY <1>5, <1>b DEF Succeed, InCall
  <2>2. PastTypes'
    BY <1>5, <1>d DEF Succeed, Leave, PastTypes
  <2> QED BY <1>5, <2>1, <2>2, <1>g, <1>h, <1>j, <1>l DEF Succeed
<1>6. ASSUME NEW c \in Callers, TimeOut(c) PROVE TypeInv'
  <2>1. tool[c] \in Tools /\ "raised" \in Step
    BY <1>6, <1>b DEF TimeOut, InCall, Step
  <2>2. \A task \in Task : Disown(c, task) \in Task
    BY SMT DEF Disown, Task
  <2>3. Disown(c, Free) = Free
    BY SMT DEF Disown, Free
  <2>4. queue' \in Seq(Task)
    <3>1. DOMAIN queue = 1..Len(queue) /\ Len(queue) \in Nat
          /\ \A i \in 1..Len(queue) : queue[i] \in Task
      BY <1>c
    <3>2. queue' = [i \in 1..Len(queue) |-> Disown(c, queue[i])]
      BY <1>6, <3>1 DEF TimeOut
    <3> QED BY <3>1, <3>2, <2>2, SMT
  <2>5. busy' \in [Threads -> Task \cup {Free}]
    <3>1. \A h \in Threads : Disown(c, busy[h]) \in Task \cup {Free}
      BY <1>c, <2>2, <2>3
    <3> QED BY <1>6, <3>1 DEF TimeOut
  <2>6. PastTypes'
    <3>1. crowded' \in BOOLEAN
      BY <1>6 DEF TimeOut
    <3>2. blamed' \subseteq Tools
      BY <1>6, <2>1, <1>d DEF TimeOut
    <3> QED BY <1>6, <2>1, <3>1, <3>2, <1>d, <1>f DEF TimeOut, PastTypes
  <2>7. delayed' \subseteq Callers
    BY <1>6, <1>c DEF TimeOut
  <2> QED BY <1>6, <2>1, <2>4, <2>5, <2>6, <2>7, <1>g, <1>i, <1>l DEF TimeOut, PoolTypes
<1>7. ASSUME NEW h \in Threads, Start(h) PROVE TypeInv'
  <2>1. Head(queue) \in Task /\ Tail(queue) \in Seq(Task)
    BY <1>7, <1>c, SMT DEF Start
  <2>2. PoolTypes'
    BY <1>7, <1>c, <2>1, SMT DEF Start, PoolTypes
  <2> QED BY <1>7, <2>2, <1>g, <1>l DEF Start
<1>8. ASSUME NEW h \in Threads, Answer(h) PROVE TypeInv'
  <2>1. /\ busy[h].by \in Callers /\ busy[h].tool \in Tools /\ tool[busy[h].by] \in Tools
        /\ "answered" \in Step /\ "raised" \in Step
    BY <1>8, <1>e DEF Answer, Step
  <2>2. PastTypes'
    <3>1. \/ streak' = [streak EXCEPT ![busy[h].tool] = 0]
          \/ streak' = Longer(busy[h].tool)
      BY <1>8 DEF Answer
    <3>2. blamed' = blamed \/ blamed' = blamed \cup {busy[h].tool}
      BY <1>8 DEF Answer
    <3>3. crowded' = crowded /\ overtaken' = overtaken
      BY <1>8 DEF Answer
    <3> QED BY <2>1, <3>1, <3>2, <3>3, <1>d, <1>f DEF PastTypes
  <2>3. CallerTypes'
    BY <1>8, <2>1, <1>i DEF Answer
  <2>4. PoolTypes'
    BY <1>8, <1>c DEF Answer, PoolTypes
  <2> QED BY <1>8, <2>2, <2>3, <2>4, <1>g, <1>l DEF Answer
<1>9. ASSUME NEW h \in Threads, EndUnheard(h) PROVE TypeInv'
  <2>1. PoolTypes'
    BY <1>9, <1>c DEF EndUnheard, PoolTypes
  <2> QED BY <1>9, <2>1, <1>g, <1>l DEF EndUnheard
<1>10. ASSUME NEW t \in Tools, Cool(t) PROVE TypeInv'
  <2>1. BreakerTypes'
    BY <1>10, <1>a, SMT DEF Cool, BreakerTypes, Circuit
  <2> QED BY <1>10, <2>1, <1>g, <1>l DEF Cool
<1>11. CASE UNCHANGED vars
  BY <1>11, <1>g, <1>l DEF vars
<1> QED BY <1>1, <1>2, <1>3, <1>4, <1>5, <1>6, <1>7, <1>8, <1>9, <1>10, <1>11 DEF Next

\* A caller that is not waiting may take steps of its own: it owns nothing.
LEMMA OwnStepKeepsPool ==
  ASSUME PoolInv, NEW c \in Callers, OwnStep(c)
  PROVE  OwnsOneCall'
<1> USE DEF PoolInv, TypeInv, TypeOK, OwnsOneCall, pool
<1>1. /\ \A i \in DOMAIN queue : queue[i].by # c
      /\ \A h \in Threads : busy[h].by # c
  <2>1. pc[c] # "waiting" /\ c # NoCaller
    BY CircuitConstants DEF OwnStep
  <2> QED BY <2>1 DEF QueueAwaited, ThreadsAwaited, Awaited
<1>2. /\ pc'[c] # "waiting"
      /\ \A d \in Callers \ {c} : pc'[d] = pc[d] /\ tool'[d] = tool[d]
  BY SMT DEF OwnStep
<1>3. /\ \A i \in DOMAIN queue : queue[i].by \in (Callers \ {c}) \cup {NoCaller}
      /\ \A h \in Threads : busy[h].by \in (Callers \ {c}) \cup {NoCaller}
  BY <1>1, Owners
<1>4. QueueAwaited' /\ ThreadsAwaited'
  BY <1>2, <1>3, SMT DEF OwnStep, QueueAwaited, ThreadsAwaited, Awaited
<1>5. OnceQueued' /\ OnceRunning' /\ NotBoth'
  BY SMT DEF OwnStep, OnceQueued, OnceRunning, NotBoth
<1>6. WaitsForCall'
  BY <1>2 DEF OwnStep, WaitsForCall, Running
<1> QED BY <1>4, <1>5, <1>6

LEMMA PoolStep ==
  ASSUME PoolInv, [Next]_vars
  PROVE  OwnsOneCall'
<1> DEFINE n == Len(queue)
<1>a. /\ n \in Nat /\ DOMAIN queue = 1..n
      /\ \A i \in 1..n : queue[i].by \in Callers \cup {NoCaller}
      /\ \A h \in Threads : busy[h].by \in Callers \cup {NoCaller}
  BY Owners DEF PoolInv, TypeInv
<1>b. pc \in [Callers -> Step] /\ tool \in [Callers -> Tools \cup {NoTool}]
  BY DEF PoolInv, TypeInv, TypeOK
<1>c. queue \in Seq(Task) /\ busy \in [Threads -> Task \cup {Free}]
  BY DEF PoolInv, TypeInv, TypeOK
<1>d. /\ \A i \in 1..n : Awaited(queue[i])
      /\ \A h \in Threads : Awaited(busy[h])
  BY <1>a DEF PoolInv, OwnsOneCall, QueueAwaited, ThreadsAwaited
<1>e. /\ \A i, k \in 1..n : queue[i].by = queue[k].by => i = k \/ queue[i].by = NoCaller
      /\ \A h, k \in Threads : busy[h].by = busy[k].by => h = k \/ busy[h].by = NoCaller
      /\ \A i \in 1..n, h \in Threads :
            queue[i].by = busy[h].by => queue[i].by = NoCaller
  BY <1>a DEF PoolInv, OwnsOneCall, OnceQueued, OnceRunning, NotBoth
<1>f. \A c \in Callers : pc[c] = "waiting" =>
          \/ \E h \in Threads : busy[h].by = c
          \/ \E i \in 1..n : queue[i].by = c
  BY <1>a DEF PoolInv, OwnsOneCall, WaitsForCall, Running
<1>g. Free.by = NoCaller /\ NoCaller \notin Callers
  BY CircuitConstants DEF Free
<1>1. ASSUME NEW c \in Callers, NEW t \in Tools, Call(c, t) PROVE OwnsOneCall'
  <2>1. /\ "admitted" \in Step \ {"waiting"} /\ "refused" \in Step \ {"waiting"}
        /\ t \in Tools \cup {NoTool}
    BY DEF Step
  <2>2. /\ pc[c] # "waiting" /\ UNCHANGED pool /\ tool' = [tool EXCEPT ![c] = t]
        /\ \/ pc' = [pc EXCEPT ![c] = "admitted"]
           \/ pc' = [pc EXCEPT ![c] = "refused"]
    BY <1>1 DEF Call, Ask, Admit
  <2>3. OwnStep(c)
    BY <2>1, <2>2 DEF OwnStep
  <2> QED BY <2>3, OwnStepKeepsPool
<1>2. ASSUME NEW c \in Callers, Refuse(c) \/ CountFailure(c) \/ Succeed(c)
      PROVE OwnsOneCall'
  <2>1. OwnStep(c)
    BY <1>2, SMT DEF Refuse, CountFailure, Succeed, Return, OwnStep, Step
  <2> QED BY <2>1, OwnStepKeepsPool
<1>3. ASSUME NEW c \in Callers, Submit(c) PROVE OwnsOneCall'
  <2> DEFINE call == [by |-> c, tool |-> tool[c]]
  <2>1. call.by = c /\ call.tool = tool[c]
    OBVIOUS
  <2>2. /\ DOMAIN queue' = 1..(n + 1)
        /\ \A i \in 1..n : queue'[i] = queue[i]
        /\ queue'[n + 1] = call
    BY <1>3, <1>c, SMT DEF Submit
  <2>3. /\ pc'[c] = "waiting" /\ busy' = busy /\ tool' = tool
        /\ pc[c] # "waiting"
        /\ \A d \in Callers \ {c} : pc'[d] = pc[d]
    BY <1>3, <1>b DEF Submit, Goto
  <2>4. /\ \A i \in 1..n : queue[i].by # c
        /\ \A h \in Threads : busy[h].by # c
    BY <1>d, <1>g, <2>3 DEF Awaited
  <2>5. \A i \in 1..(n + 1) : i \in 1..n \/ i = n + 1
    BY <1>a, SMT
  <2>6. QueueAwaited'
    <3>1. \A i \in 1..n : Awaited(queue[i])'
      BY <1>a, <1>d, <2>2, <2>3, <2>4 DEF Awaited
    <3>2. \A i \in 1..(n + 1) : i = n + 1 => Awaited(queue[i])'
      BY <2>1, <2>2, <2>3 DEF Awaited
    <3> QED BY <3>1, <3>2, <2>2, <2>5 DEF QueueAwaited
  <2>7. ThreadsAwaited'
    BY <1>a, <1>d, <2>3, <2>4 DEF ThreadsAwaited, Awaited
  <2>8. OnceQueued'
    BY <1>e, <2>1, <2>2, <2>4, <2>5 DEF OnceQueued
  <2>9. OnceRunning'
    BY <1>e, <2>3 DEF OnceRunning
  <2>10. NotBoth'
    BY <1>e, <2>1, <2>2, <2>3, <2>4, <2>5 DEF NotBoth
  <2>11. WaitsForCall'
    <3>1. n + 1 \in DOMAIN queue' /\ \A i \in 1..n : i \in DOMAIN queue'
      BY <1>a, <2>2, SMT
    <3> QED BY <1>f, <2>1, <2>2, <2>3, <3>1 DEF WaitsForCall, Running
  <2> QED BY <2>6, <2>7, <2>8, <2>9, <2>10, <2>11 DEF OwnsOneCall
<1>4. ASSUME NEW h \in Threads, Start(h) PROVE OwnsOneCall'
  <2>1. /\ n # 0 /\ DOMAIN queue' = 1..(n - 1)
        /\ \A i \in 1..(n - 1) : queue'[i] = queue[i + 1]
        /\ busy' = [busy EXCEPT ![h] = queue[1]]
    BY <1>4, <1>c, SMT DEF Start
  <2>2. /\ busy[h].by = NoCaller /\ busy'[h] = queue[1]
        /\ \A k \in Threads \ {h} : busy'[k] = busy[k]
    BY <1>4, <1>c, <1>g, <2>1 DEF Start
  <2>3. pc' = pc /\ tool' = tool
    BY <1>4 DEF Start, caller
  <2>4. 1 \in 1..n /\ \A i \in 1..(n - 1) : i + 1 \in 1..n /\ i + 1 # 1
    BY <1>a, <2>1, SMT
  <2>5. \A i, k \in 1..(n - 1) : i + 1 = k + 1 => i = k
    BY <1>a, SMT
  <2>6. QueueAwaited'
    BY <1>d, <2>1, <2>3, <2>4 DEF QueueAwaited, Awaited
  <2>7. ThreadsAwaited'
    BY <1>d, <2>2, <2>3, <2>4 DEF ThreadsAwaited, Awaited
  <2>8. OnceQueued'
    BY <1>e, <2>1, <2>4, <2>5 DEF OnceQueued
  <2>9. OnceRunning'
    BY <1>e, <2>2, <2>4 DEF OnceRunning
  <2>10. NotBoth'
    BY <1>e, <2>1, <2>2, <2>4 DEF NotBoth
  <2>11. WaitsForCall'
    <3> SUFFICES ASSUME NEW c \in Callers, pc[c] = "waiting"
                 PROVE  \/ \E k \in Threads : busy'[k].by = c
                        \/ \E i \in DOMAIN queue' : queue'[i].by = c
      BY <2>3 DEF WaitsForCall, Running
    <3>1. CASE \E k \in Threads : busy[k].by = c
      BY <3>1, <2>2, <1>g
    <3>2. CASE \E i \in 1..n : queue[i].by = c
      <4>1. PICK i \in 1..n : queue[i].by = c
        BY <3>2
      <4>2. CASE i = 1
        BY <4>1, <4>2, <2>2
      <4>3. CASE i # 1
        <5>1. i - 1 \in 1..(n - 1) /\ (i - 1) + 1 = i
          BY <4>3, <1>a, SMT
        <5>2. queue'[i - 1] = queue[i]
          BY <5>1, <2>1
        <5> QED BY <5>1, <5>2, <4>1, <2>1
      <4> QED BY <4>2, <4>3
    <3> QED BY <3>1, <3>2, <1>f
  <2> QED BY <2>6, <2>7, <2>8, <2>9, <2>10, <2>11 DEF OwnsOneCall
<1>5. ASSUME NEW h \in Threads, Answer(h) \/ EndUnheard(h) PROVE OwnsOneCall'
  <2> DEFINE c == busy[h].by
  <2>1. /\ queue' = queue /\ tool' = tool /\ busy'[h] = Free
        /\ \A k \in Threads \ {h} : busy'[k] = busy[k]
    BY <1>5, <1>c DEF Answer, EndUnheard, Goto, caller
  <2>2. /\ c = NoCaller => pc' = pc
        /\ c # NoCaller => \/ pc' = [pc EXCEPT ![c] = "answered"]
                           \/ pc' = [pc EXCEPT ![c] = "raised"]
    BY <1>5 DEF Answer, EndUnheard, Goto, caller
  <2>3. \A d \in Callers : d # c => pc'[d] = pc[d]
    BY <1>b, <2>2
  <2>4. c # NoCaller => pc'[c] # "waiting"
    BY <1>a, <1>b, <2>2
  <2>5. /\ \A i \in 1..n : queue[i].by = c => c = NoCaller
        /\ \A k \in Threads \ {h} : busy[k].by = c => c = NoCaller
    BY <1>e
  <2>6. QueueAwaited'
    BY <1>a, <1>d, <2>1, <2>3, <2>5 DEF QueueAwaited, Awaited
  <2>7. ThreadsAwaited'
    <3>1. Awaited(busy[h])'
      BY <2>1, <1>g DEF Awaited, Free
    <3>2. \A k \in Threads \ {h} : Awaited(busy[k])'
      BY <1>a, <1>d, <2>1, <2>3, <2>5 DEF Awaited
    <3> QED BY <3>1, <3>2 DEF ThreadsAwaited
  <2>8. OnceQueued'
    BY <1>a, <1>e, <2>1 DEF OnceQueued
  <2>9. OnceRunning'
    <3>1. busy'[h].by = NoCaller
      BY <2>1, <1>g
    <3> QED BY <1>e, <2>1, <3>1 DEF OnceRunning
  <2>10. NotBoth'
    <3>1. busy'[h].by = NoCaller
      BY <2>1, <1>g
    <3> QED BY <1>a, <1>e, <2>1, <3>1 DEF NotBoth
  <2>11. WaitsForCall'
    <3> SUFFICES ASSUME NEW d \in Callers, pc'[d] = "waiting"
                 PROVE  \/ \E k \in Threads : busy'[k].by = d
                        \/ \E i \in DOMAIN queue' : queue'[i].by = d
      BY DEF WaitsForCall, Running
    <3>1. d # c /\ pc[d] = "waiting"
      BY <1>g, <2>3, <2>4
    <3> QED BY <1>a, <1>f, <2>1, <3>1
  <2> QED BY <2>6, <2>7, <2>8, <2>9, <2>10, <2>11 DEF OwnsOneCall
<1>6. ASSUME NEW c \in Callers, TimeOut(c) PROVE OwnsOneCall'
  <2>1. /\ tool' = tool /\ pc'[c] # "waiting"
        /\ \A d \in Callers \ {c} : pc'[d] = pc[d]
    BY <1>6, <1>b DEF TimeOut, Goto
  <2>2. \A task : /\ Disown(c, task).tool = task.tool
                  /\ Disown(c, task).by = IF task.by = c THEN NoCaller ELSE task.by
    BY DEF Disown
  <2>3. /\ DOMAIN queue' = 1..n
        /\ \A i \in 1..n :
              /\ queue'[i].tool = queue[i].tool
              /\ queue'[i].by = IF queue[i].by = c THEN NoCaller ELSE queue[i].by
    BY <1>6, <1>a, <2>2 DEF TimeOut
  <2>4. \A h \in Threads :
              /\ busy'[h].tool = busy[h].tool
              /\ busy'[h].by = IF busy[h].by = c THEN NoCaller ELSE busy[h].by
    BY <1>6, <2>2 DEF TimeOut
  <2>5. QueueAwaited'
    BY <1>a, <1>d, <2>1, <2>3 DEF QueueAwaited, Awaited
  <2>6. ThreadsAwaited'
    BY <1>a, <1>d, <2>1, <2>4 DEF ThreadsAwaited, Awaited
  <2>7. OnceQueued'
    BY <1>e, <2>3 DEF OnceQueued
  <2>8. OnceRunning'
    BY <1>e, <2>4 DEF OnceRunning
  <2>9. NotBoth'
    BY <1>e, <2>3, <2>4 DEF NotBoth
  <2>10. WaitsForCall'
    <3> SUFFICES ASSUME NEW d \in Callers, pc'[d] = "waiting"
                 PROVE  \/ \E k \in Threads : busy'[k].by = d
                        \/ \E i \in DOMAIN queue' : queue'[i].by = d
      BY DEF WaitsForCall, Running
    <3>1. d # c /\ pc[d] = "waiting"
      BY <2>1
    <3> QED BY <1>f, <2>3, <2>4, <3>1
  <2> QED BY <2>5, <2>6, <2>7, <2>8, <2>9, <2>10 DEF OwnsOneCall
<1>7. ASSUME UNCHANGED <<caller, pool>> PROVE OwnsOneCall'
  BY <1>7 DEF PoolInv, caller, pool, OwnsOneCall, QueueAwaited, ThreadsAwaited, OnceQueued,
              OnceRunning, NotBoth, WaitsForCall, Running, Awaited
<1>8. ASSUME NEW t \in Tools, Cool(t) PROVE OwnsOneCall'
  BY <1>8, <1>7 DEF Cool
<1>9. CASE UNCHANGED vars
  BY <1>9, <1>7 DEF vars
<1> QED BY <1>1, <1>2, <1>3, <1>4, <1>5, <1>6, <1>8, <1>9 DEF Next

LEMMA PoolAlways == Spec => []PoolInv
<1>1. PoolInv /\ [Next]_vars => PoolInv'
  BY TypeStep, PoolStep DEF PoolInv
<1> QED BY <1>1, PoolInit, PTL DEF Spec

\* Every variable of the breaker, its callers and the pool keeps its type.
THEOREM CircuitTypes == Spec => []TypeOK
<1>1. PoolInv => TypeOK
  BY DEF PoolInv, TypeInv
<1> QED BY <1>1, PoolAlways, PTL

\* A waiting caller has exactly one call in the pool: an abandoned call can
\* never answer for a later one of the same caller.
THEOREM CallsAreOwned == Spec => []OwnsOneCall
<1>1. PoolInv => OwnsOneCall
  BY DEF PoolInv
<1> QED BY <1>1, PoolAlways, PTL

-----------------------------------------------------------------------------
(* The circuit state.                                                       *)

LEMMA ThresholdStep ==
  ASSUME PoolInv, OpenAtThreshold, [Next]_vars
  PROVE  OpenAtThreshold'
<1> USE CircuitConstants DEF PoolInv, TypeInv, TypeOK, OpenAtThreshold
<1>1. ASSUME UNCHANGED circuit PROVE OpenAtThreshold'
  BY <1>1 DEF circuit
<1>2. ASSUME NEW t \in Tools, Reset(t) PROVE OpenAtThreshold'
  BY <1>2, SMT DEF Reset
<1>3. ASSUME NEW c \in Callers, NEW t \in Tools, Call(c, t) PROVE OpenAtThreshold'
  BY <1>3, <1>1, <1>2 DEF Call, Closed, Retried
<1>4. ASSUME NEW c \in Callers, Succeed(c) PROVE OpenAtThreshold'
  <2>1. tool[c] \in Tools
    BY <1>4 DEF Succeed, Named, InCall
  <2> QED BY <1>4, <2>1, <1>2 DEF Succeed
<1>5. ASSUME NEW c \in Callers, CountFailure(c) PROVE OpenAtThreshold'
  <2>1. tool[c] \in Tools
    BY <1>5 DEF CountFailure, Named, InCall
  <2> QED BY <1>5, <2>1, SMT DEF CountFailure, Opens, Circuit
<1>6. ASSUME NEW t \in Tools, Cool(t) PROVE OpenAtThreshold'
  BY <1>6, SMT DEF Cool
<1>7. ASSUME NEW c \in Callers, Refuse(c) \/ Submit(c) \/ TimeOut(c) PROVE UNCHANGED circuit
  BY <1>7 DEF Refuse, Submit, TimeOut
<1>8. ASSUME NEW h \in Threads, Start(h) \/ Answer(h) \/ EndUnheard(h) PROVE UNCHANGED circuit
  BY <1>8 DEF Start, Answer, EndUnheard
<1>9. CASE UNCHANGED vars
  BY <1>9, <1>1 DEF vars
<1> QED BY <1>1, <1>3, <1>4, <1>5, <1>6, <1>7, <1>8, <1>9 DEF Next

\* However many callers share the breaker, its two fields agree at all times.
THEOREM CircuitOpensAtThreshold == Spec => []OpenAtThreshold
<1>1. Init => OpenAtThreshold
  BY CircuitConstants, SMT DEF Init, OpenAtThreshold
<1>2. PoolInv /\ OpenAtThreshold /\ [Next]_vars => OpenAtThreshold'
  BY ThresholdStep
<1> QED BY <1>1, <1>2, PoolAlways, PTL DEF Spec

-----------------------------------------------------------------------------
(* One caller, which is how src/worker.py uses the breaker.                 *)

\* While its call is under way the circuit it called through is closed.
CalledIsClosed == \A c \in Callers : pc[c] \in InCall => opened[tool[c]] = "closed"

LEMMA CalledIsClosedStep ==
  ASSUME \A c, d \in Callers : c = d, PoolInv, CalledIsClosed, [Next]_vars
  PROVE  CalledIsClosed'
<1> USE CircuitConstants DEF PoolInv, TypeInv, TypeOK, CalledIsClosed, InCall, Named, Step
<1>1. ASSUME NEW c \in Callers, NEW t \in Tools, Call(c, t) PROVE CalledIsClosed'
  BY <1>1, SMT DEF Call, Ask, Admit, Closed, Retried, Reset, circuit
<1>2. ASSUME NEW c \in Callers, Refuse(c) \/ CountFailure(c) \/ Succeed(c)
      PROVE  CalledIsClosed'
  <2>1. pc'[c] = "idle"
    BY <1>2, SMT DEF Refuse, CountFailure, Succeed, Return
  <2> QED BY <2>1, SMT
<1>3. ASSUME NEW c \in Callers, Submit(c) \/ TimeOut(c) PROVE CalledIsClosed'
  BY <1>3, SMT DEF Submit, TimeOut, Goto, circuit
<1>4. ASSUME NEW h \in Threads, Answer(h) PROVE CalledIsClosed'
  <2>1. busy[h].by \in Callers /\ pc[busy[h].by] = "waiting"
    BY <1>4, SMT DEF Answer, OwnsOneCall, ThreadsAwaited, Awaited, Task, Free
  <2> QED BY <1>4, <2>1, SMT DEF Answer, Goto, circuit
<1>5. ASSUME NEW h \in Threads, Start(h) \/ EndUnheard(h) PROVE CalledIsClosed'
  BY <1>5 DEF Start, EndUnheard, circuit, caller
<1>6. ASSUME NEW t \in Tools, Cool(t) PROVE CalledIsClosed'
  BY <1>6, SMT DEF Cool, caller
<1>7. CASE UNCHANGED vars
  BY <1>7 DEF vars, circuit, caller
<1> QED BY <1>1, <1>2, <1>3, <1>4, <1>5, <1>6, <1>7 DEF Next

LEMMA OpenStaysStep ==
  ASSUME PoolInv, CalledIsClosed, [Next]_vars,
         NEW t \in Tools, opened[t] = "open"
  PROVE  opened'[t] \in {"open", "cooled"}
<1> USE CircuitConstants DEF PoolInv, TypeInv, TypeOK
<1>1. ASSUME UNCHANGED circuit PROVE opened'[t] \in {"open", "cooled"}
  BY <1>1 DEF circuit
<1>2. ASSUME NEW c \in Callers, NEW u \in Tools, Call(c, u)
      PROVE  opened'[t] \in {"open", "cooled"}
  BY <1>2, SMT DEF Call, Closed, Retried, Reset, circuit
<1>3. ASSUME NEW c \in Callers, Succeed(c) PROVE opened'[t] \in {"open", "cooled"}
  BY <1>3, SMT DEF Succeed, Reset, CalledIsClosed, InCall
<1>4. ASSUME NEW c \in Callers, CountFailure(c) PROVE opened'[t] \in {"open", "cooled"}
  BY <1>4, SMT DEF CountFailure
<1>5. ASSUME NEW u \in Tools, Cool(u) PROVE opened'[t] \in {"open", "cooled"}
  BY <1>5, SMT DEF Cool
<1>6. ASSUME NEW c \in Callers, Refuse(c) \/ Submit(c) \/ TimeOut(c) PROVE UNCHANGED circuit
  BY <1>6 DEF Refuse, Submit, TimeOut
<1>7. ASSUME NEW h \in Threads, Start(h) \/ Answer(h) \/ EndUnheard(h) PROVE UNCHANGED circuit
  BY <1>7 DEF Start, Answer, EndUnheard
<1>8. CASE UNCHANGED vars
  BY <1>8, <1>1 DEF vars
<1> QED BY <1>1, <1>2, <1>3, <1>4, <1>5, <1>6, <1>7, <1>8 DEF Next

\* With one caller an open circuit stays open until the recovery time is over,
\* whatever its abandoned calls do.  With two it does not (CircuitLateSuccess).
THEOREM OpenCircuitStaysOpen ==
  ASSUME \A c, d \in Callers : c = d
  PROVE  Spec => OpenUntilCooled
<1>1. Init => CalledIsClosed
  BY SMT DEF Init, CalledIsClosed, InCall
<1>2. PoolInv /\ CalledIsClosed /\ [Next]_vars => CalledIsClosed'
  BY CalledIsClosedStep
<1>3. PoolInv /\ CalledIsClosed /\ [Next]_vars =>
        [\A t \in Tools : opened[t] = "open" => opened'[t] \in {"open", "cooled"}]_opened
  BY OpenStaysStep
<1> QED BY <1>1, <1>2, <1>3, PoolAlways, PTL DEF Spec, OpenUntilCooled

-----------------------------------------------------------------------------
(* How far the count of failures may run past the threshold.  A caller that *)
(* was admitted may still add its failure; an open circuit admits nobody.   *)

RoomToFail == \A t \in Tools : failures[t] >= Threshold =>
    failures[t] + Cardinality(InFlight(t)) < Threshold + Cardinality(Callers)

LEMMA InFlightCount ==
  ASSUME NEW t \in Tools
  PROVE  /\ IsFiniteSet(InFlight(t)) /\ Cardinality(InFlight(t)) \in Nat
         /\ Cardinality(Callers) \in Nat
         /\ Cardinality(InFlight(t)) <= Cardinality(Callers)
BY FinitenessAssumption, FS_Subset, FS_CardinalityType DEF InFlight

LEMMA RoomStep ==
  ASSUME PoolInv, OpenAtThreshold, RoomToFail, [Next]_vars
  PROVE  RoomToFail'
<1>0. PoolInv' /\ OpenAtThreshold'
  BY TypeStep, PoolStep, ThresholdStep DEF PoolInv
<1>a. /\ failures \in [Tools -> Nat] /\ failures' \in [Tools -> Nat]
      /\ pc \in [Callers -> Step] /\ tool \in [Callers -> Tools \cup {NoTool}]
      /\ \A c \in Callers : pc[c] \in InCall => tool[c] \in Tools
      /\ Threshold \in Nat
  BY <1>0, CircuitConstants DEF PoolInv, TypeInv, TypeOK, Named
\* No room is needed where fewer are in flight, or the circuit is closed.
<1>b. ASSUME NEW t \in Tools, failures'[t] = failures[t], InFlight(t)' \subseteq InFlight(t)
      PROVE  failures'[t] >= Threshold =>
                 failures'[t] + Cardinality(InFlight(t)') < Threshold + Cardinality(Callers)
  <2>1. Cardinality(InFlight(t)') <= Cardinality(InFlight(t)) /\ Cardinality(InFlight(t)') \in Nat
    BY <1>b, InFlightCount, FS_Subset, FS_CardinalityType
  <2> QED BY <2>1, <1>a, <1>b, InFlightCount DEF RoomToFail
<1>c. ASSUME NEW t \in Tools, opened'[t] = "closed"
      PROVE  ~(failures'[t] >= Threshold)
  BY <1>0, <1>c DEF OpenAtThreshold
<1>d. ASSUME failures' = failures, \A t \in Tools : InFlight(t)' \subseteq InFlight(t)
      PROVE  RoomToFail'
  BY <1>b, <1>d DEF RoomToFail
<1>1. ASSUME NEW c \in Callers, NEW u \in Tools, Call(c, u) PROVE RoomToFail'
  <2>1. tool' = [tool EXCEPT ![c] = u] /\ pc[c] = "idle"
    BY <1>1 DEF Call, Ask
  <2>2. CASE Admit(c)
    <3> SUFFICES ASSUME NEW t \in Tools
                 PROVE  failures'[t] >= Threshold =>
                 failures'[t] + Cardinality(InFlight(t)') < Threshold + Cardinality(Callers)
      BY DEF RoomToFail
    <3>1. CASE t = u
      <4>1. opened'[u] = "closed" \/ pc' = [pc EXCEPT ![c] = "refused"]
        BY <1>1 DEF Call, Closed, Retried, Reset, circuit, PoolInv, TypeInv, TypeOK
      <4>2. pc'[c] = "admitted" /\ [pc EXCEPT ![c] = "refused"][c] = "refused"
        BY <2>2, <1>a DEF Admit
      <4> QED BY <3>1, <4>1, <4>2, <1>c
    <3>2. CASE t # u
      <4>1. failures'[t] = failures[t]
        BY <1>1, <1>a, <3>2 DEF Call, Closed, Retried, Reset, circuit
      <4>2. InFlight(t)' \subseteq InFlight(t)
        BY <1>a, <2>1, <2>2, <3>2 DEF Admit, InFlight
      <4> QED BY <4>1, <4>2, <1>b
    <3> QED BY <3>1, <3>2
  <2>3. CASE pc' = [pc EXCEPT ![c] = "refused"] /\ UNCHANGED circuit
    <3>1. \A t \in Tools : InFlight(t)' \subseteq InFlight(t)
      BY <1>a, <2>1, <2>3 DEF InFlight, InCall
    <3> QED BY <3>1, <2>3, <1>d DEF circuit
  <2> QED BY <1>1, <2>2, <2>3 DEF Call
<1>2. ASSUME NEW c \in Callers, Refuse(c) PROVE RoomToFail'
  <2>1. \A t \in Tools : InFlight(t)' \subseteq InFlight(t)
    BY <1>a, <1>2 DEF Refuse, Return, InFlight, InCall
  <2> QED BY <2>1, <1>2, <1>d DEF Refuse, circuit
<1>3. ASSUME NEW c \in Callers, Submit(c) \/ TimeOut(c) PROVE RoomToFail'
  <2>1. pc[c] \in InCall /\ UNCHANGED tool /\ UNCHANGED circuit
        /\ (pc' = [pc EXCEPT ![c] = "waiting"] \/ pc' = [pc EXCEPT ![c] = "raised"])
    BY <1>3 DEF Submit, TimeOut, Goto, InCall
  <2>2. \A t \in Tools : InFlight(t)' \subseteq InFlight(t)
    BY <1>a, <2>1 DEF InFlight
  <2> QED BY <2>1, <2>2, <1>d DEF circuit
<1>4. ASSUME NEW c \in Callers, CountFailure(c) PROVE RoomToFail'
  <2>1. /\ tool[c] \in Tools /\ pc'[c] = "idle" /\ c \in InFlight(tool[c])
        /\ \A d \in Callers \ {c} : pc'[d] = pc[d] /\ tool'[d] = tool[d]
        /\ failures' = [failures EXCEPT ![tool[c]] = @ + 1]
    BY <1>a, <1>4 DEF CountFailure, Return, InFlight, InCall
  <2>2. \A t \in Tools : InFlight(t)' = InFlight(t) \ {c}
    BY <2>1 DEF InFlight, InCall
  <2> SUFFICES ASSUME NEW t \in Tools
               PROVE  failures'[t] >= Threshold =>
               failures'[t] + Cardinality(InFlight(t)') < Threshold + Cardinality(Callers)
    BY DEF RoomToFail
  <2>3. CASE t = tool[c]
    <3>1. Cardinality(InFlight(t)') = Cardinality(InFlight(t)) - 1
      BY <2>1, <2>2, <2>3, InFlightCount, FS_RemoveElement
    <3>2. failures'[t] = failures[t] + 1
      BY <1>a, <2>1, <2>3
    <3> QED BY <3>1, <3>2, <1>a, InFlightCount DEF RoomToFail
  <2>4. CASE t # tool[c]
    BY <1>a, <1>b, <2>1, <2>2, <2>4
  <2> QED BY <2>3, <2>4
<1>5. ASSUME NEW c \in Callers, Succeed(c) PROVE RoomToFail'
  <2>1. /\ tool[c] \in Tools /\ pc'[c] = "idle"
        /\ \A d \in Callers \ {c} : pc'[d] = pc[d] /\ tool'[d] = tool[d]
        /\ failures' = [failures EXCEPT ![tool[c]] = 0]
    BY <1>a, <1>5 DEF Succeed, Reset, Return, InCall
  <2>2. \A t \in Tools : InFlight(t)' \subseteq InFlight(t)
    BY <2>1 DEF InFlight, InCall
  <2> SUFFICES ASSUME NEW t \in Tools
               PROVE  failures'[t] >= Threshold =>
               failures'[t] + Cardinality(InFlight(t)') < Threshold + Cardinality(Callers)
    BY DEF RoomToFail
  <2>3. CASE t = tool[c]
    BY <1>a, <2>1, <2>3, CircuitConstants
  <2>4. CASE t # tool[c]
    BY <1>a, <1>b, <2>1, <2>2, <2>4
  <2> QED BY <2>3, <2>4
<1>6. ASSUME NEW h \in Threads, Answer(h) PROVE RoomToFail'
  <2>1. busy[h].by \in Callers /\ pc[busy[h].by] \in InCall
    BY <1>6, Owners DEF Answer, PoolInv, TypeInv, OwnsOneCall, ThreadsAwaited, Awaited, InCall
  <2>2. UNCHANGED tool /\ UNCHANGED circuit
        /\ \E s \in Step : pc' = [pc EXCEPT ![busy[h].by] = s]
    BY <1>6 DEF Answer, Goto, Step
  <2>3. \A t \in Tools : InFlight(t)' \subseteq InFlight(t)
    BY <1>a, <2>1, <2>2 DEF InFlight
  <2> QED BY <2>2, <2>3, <1>d DEF circuit
<1>7. ASSUME UNCHANGED caller, failures' = failures PROVE RoomToFail'
  BY <1>7, <1>d DEF caller, InFlight
<1>8. ASSUME NEW h \in Threads, Start(h) \/ EndUnheard(h) PROVE RoomToFail'
  BY <1>7, <1>8 DEF Start, EndUnheard, circuit
<1>9. ASSUME NEW t \in Tools, Cool(t) PROVE RoomToFail'
  BY <1>7, <1>9 DEF Cool
<1>10. CASE UNCHANGED vars
  BY <1>7, <1>10 DEF vars, circuit
<1> QED BY <1>1, <1>2, <1>3, <1>4, <1>5, <1>6, <1>8, <1>9, <1>10 DEF Next

\* Whatever callers overlap, a circuit counts at most one failure beyond the
\* threshold for each caller but the one whose failure opened it.
THEOREM OvershootIsBounded == Spec => []OvershootBounded
<1>1. Init => OpenAtThreshold
  BY CircuitConstants, SMT DEF Init, OpenAtThreshold
<1>2. Init => RoomToFail
  BY CircuitConstants DEF Init, RoomToFail
<1>3. PoolInv /\ OpenAtThreshold /\ [Next]_vars => OpenAtThreshold'
  BY ThresholdStep
<1>4. PoolInv /\ OpenAtThreshold /\ RoomToFail /\ [Next]_vars => RoomToFail'
  BY RoomStep
<1>5. PoolInv /\ RoomToFail => OvershootBounded
  <2> SUFFICES ASSUME PoolInv, RoomToFail, NEW t \in Tools
               PROVE  failures[t] < Threshold + Cardinality(Callers)
    BY DEF OvershootBounded
  <2>1. failures[t] \in Nat /\ Threshold \in Nat
    BY CircuitConstants DEF PoolInv, TypeInv, TypeOK
  <2> QED BY <2>1, InFlightCount DEF RoomToFail
<1> QED BY <1>1, <1>2, <1>3, <1>4, <1>5, PoolAlways, PTL DEF Spec

-----------------------------------------------------------------------------
(* Who may close an open circuit.                                           *)

\* Whoever is in a call through a circuit that is not closed was in it when
\* the circuit opened: an open circuit admits nobody, a cooled one is closed
\* by the caller it admits.
OpenOvertakes ==
    \A c \in Callers : pc[c] \in InCall /\ opened[tool[c]] # "closed" => c \in overtaken

LEMMA OvertakesStep ==
  ASSUME PoolInv, OpenOvertakes, [Next]_vars
  PROVE  OpenOvertakes'
<1>a. /\ opened \in [Tools -> Circuit] /\ pc \in [Callers -> Step]
      /\ tool \in [Callers -> Tools \cup {NoTool}]
      /\ \A c \in Callers : pc[c] \in InCall => tool[c] \in Tools
  BY DEF PoolInv, TypeInv, TypeOK, Named
\* A step that opens nothing and begins no call.
<1>b. ASSUME opened' = opened, overtaken' = overtaken, tool' = tool,
             \A c \in Callers : pc'[c] \in InCall => pc[c] \in InCall
      PROVE  OpenOvertakes'
  BY <1>b DEF OpenOvertakes
<1>1. ASSUME NEW c \in Callers, NEW t \in Tools, Call(c, t) PROVE OpenOvertakes'
  <2>1. /\ overtaken' = overtaken /\ tool'[c] = t
        /\ \A d \in Callers \ {c} : pc'[d] = pc[d] /\ tool'[d] = tool[d]
        /\ \/ pc'[c] = "admitted" /\ opened'[t] = "closed"
           \/ pc'[c] = "refused"
    BY <1>1, <1>a DEF Call, Ask, Admit, Closed, Retried, Reset, circuit
  <2>2. \A u \in Tools : opened'[u] = opened[u] \/ opened'[u] = "closed"
    BY <1>1, <1>a DEF Call, Closed, Retried, Reset, circuit
  <2>3. "refused" \notin InCall
    BY DEF InCall
  <2> QED BY <1>a, <2>1, <2>2, <2>3 DEF OpenOvertakes
<1>2. ASSUME NEW c \in Callers, Refuse(c) PROVE OpenOvertakes'
  <2>1. /\ pc'[c] \notin InCall /\ opened' = opened /\ overtaken' = overtaken
        /\ \A d \in Callers \ {c} : pc'[d] = pc[d] /\ tool'[d] = tool[d]
    BY <1>2, <1>a DEF Refuse, Return, InCall, circuit, history
  <2> QED BY <2>1 DEF OpenOvertakes
<1>3. ASSUME NEW c \in Callers, Submit(c) \/ TimeOut(c) PROVE OpenOvertakes'
  <2>1. /\ pc[c] \in InCall /\ tool' = tool /\ opened' = opened /\ overtaken' = overtaken
        /\ \A d \in Callers \ {c} : pc'[d] = pc[d]
    BY <1>3, <1>a DEF Submit, TimeOut, Goto, InCall, circuit, history
  <2> QED BY <2>1, <1>b
<1>4. ASSUME NEW c \in Callers, CountFailure(c) PROVE OpenOvertakes'
  <2>1. /\ pc'[c] \notin InCall /\ tool[c] \in Tools
        /\ \A d \in Callers \ {c} : pc'[d] = pc[d] /\ tool'[d] = tool[d]
    BY <1>4, <1>a DEF CountFailure, Return, InCall
  <2>2. \A d \in Callers \ {c} : d \in overtaken => d \in overtaken'
    BY <1>4 DEF CountFailure
  <2>3. \A u \in Tools \ {tool[c]} : opened'[u] = opened[u]
    BY <1>4, <1>a, <2>1 DEF CountFailure
  <2>4. CASE Opens(failures[tool[c]] + 1)
    <3>1. \A d \in Callers \ {c} : tool[d] = tool[c] /\ pc[d] \in InCall => d \in overtaken'
      BY <1>4, <2>4 DEF CountFailure, InFlight
    <3> QED BY <1>a, <2>1, <2>2, <2>3, <3>1 DEF OpenOvertakes
  <2>5. CASE ~Opens(failures[tool[c]] + 1)
    <3>1. opened' = opened
      BY <1>4, <1>a, <2>1, <2>5 DEF CountFailure
    <3> QED BY <1>a, <2>1, <2>2, <3>1 DEF OpenOvertakes
  <2> QED BY <2>4, <2>5
<1>5. ASSUME NEW c \in Callers, Succeed(c) PROVE OpenOvertakes'
  <2>1. /\ pc'[c] \notin InCall /\ tool[c] \in Tools
        /\ \A d \in Callers \ {c} : pc'[d] = pc[d] /\ tool'[d] = tool[d]
        /\ \A d \in Callers \ {c} : d \in overtaken => d \in overtaken'
        /\ \A u \in Tools : opened'[u] = opened[u] \/ opened'[u] = "closed"
    BY <1>5, <1>a DEF Succeed, Reset, Return, Leave, InCall
  <2> QED BY <1>a, <2>1 DEF OpenOvertakes
<1>6. ASSUME NEW h \in Threads, Answer(h) PROVE OpenOvertakes'
  <2>1. pc[busy[h].by] \in InCall
    BY <1>6, Owners DEF Answer, PoolInv, TypeInv, OwnsOneCall, ThreadsAwaited, Awaited, InCall
  <2>2. /\ tool' = tool /\ opened' = opened /\ overtaken' = overtaken
        /\ \E s \in Step : pc' = [pc EXCEPT ![busy[h].by] = s]
    BY <1>6 DEF Answer, Goto, circuit, Step
  <2> QED BY <1>a, <1>b, <2>1, <2>2
<1>7. ASSUME NEW h \in Threads, Start(h) \/ EndUnheard(h) PROVE OpenOvertakes'
  BY <1>7, <1>b DEF Start, EndUnheard, circuit, caller, history
<1>8. ASSUME NEW t \in Tools, Cool(t) PROVE OpenOvertakes'
  <2>1. /\ UNCHANGED <<pc, tool, overtaken>>
        /\ \A u \in Tools : opened'[u] = "closed" <=> opened[u] = "closed"
    BY <1>8, <1>a DEF Cool, caller, history
  <2> QED BY <1>a, <2>1 DEF OpenOvertakes
<1>9. CASE UNCHANGED vars
  BY <1>9, <1>b DEF vars, circuit, caller, history
<1> QED BY <1>1, <1>2, <1>3, <1>4, <1>5, <1>6, <1>7, <1>8, <1>9 DEF Next

ClosesLate(t) == opened[t] = "open" /\ opened'[t] = "closed" =>
                     \E c \in overtaken : tool[c] = t /\ pc[c] = "answered" /\ pc'[c] = "idle"

LEMMA ClosingStep ==
  ASSUME PoolInv, OpenOvertakes, [Next]_vars, NEW t \in Tools
  PROVE  ClosesLate(t)
<1>a. /\ opened \in [Tools -> Circuit] /\ pc \in [Callers -> Step]
      /\ \A c \in Callers : pc[c] \in InCall => tool[c] \in Tools
  BY DEF PoolInv, TypeInv, TypeOK, Named
<1>b. ASSUME opened[t] = "open" => opened'[t] # "closed" PROVE ClosesLate(t)
  BY <1>b DEF ClosesLate
<1>1. ASSUME NEW c \in Callers, NEW u \in Tools, Call(c, u) PROVE ClosesLate(t)
  BY <1>1, <1>a, <1>b DEF Call, Closed, Retried, Reset, circuit
<1>2. ASSUME NEW c \in Callers, Succeed(c) PROVE ClosesLate(t)
  <2>1. /\ pc[c] = "answered" /\ pc'[c] = "idle" /\ tool[c] \in Tools /\ pc[c] \in InCall
        /\ opened' = [opened EXCEPT ![tool[c]] = "closed"]
    BY <1>2, <1>a DEF Succeed, Reset, Return, InCall
  <2>2. CASE t # tool[c]
    BY <2>1, <2>2, <1>a, <1>b
  <2>3. CASE t = tool[c] /\ opened[t] = "open"
    <3>1. c \in overtaken
      BY <2>1, <2>3 DEF OpenOvertakes
    <3> QED BY <2>1, <2>3, <3>1 DEF ClosesLate
  <2> QED BY <2>2, <2>3, <1>b
<1>3. ASSUME NEW c \in Callers, CountFailure(c) PROVE ClosesLate(t)
  BY <1>3, <1>a, <1>b DEF CountFailure, InCall
<1>4. ASSUME NEW u \in Tools, Cool(u) PROVE ClosesLate(t)
  BY <1>4, <1>a, <1>b DEF Cool
<1>5. ASSUME UNCHANGED circuit PROVE ClosesLate(t)
  BY <1>5, <1>b DEF circuit
<1>6. ASSUME NEW c \in Callers, Refuse(c) \/ Submit(c) \/ TimeOut(c) PROVE UNCHANGED circuit
  BY <1>6 DEF Refuse, Submit, TimeOut
<1>7. ASSUME NEW h \in Threads, Start(h) \/ Answer(h) \/ EndUnheard(h) PROVE UNCHANGED circuit
  BY <1>7 DEF Start, Answer, EndUnheard
<1>8. CASE UNCHANGED vars
  BY <1>8, <1>5 DEF vars
<1> QED BY <1>1, <1>2, <1>3, <1>4, <1>5, <1>6, <1>7, <1>8 DEF Next

\* However many callers overlap, an open circuit closes before its recovery
\* time only by a call that was under way when it opened.
THEOREM OnlyOvertakenCallsClose == Spec => OnlyOvertakenClose
<1>1. Init => OpenOvertakes
  BY DEF Init, OpenOvertakes, InCall
<1>2. PoolInv /\ OpenOvertakes /\ [Next]_vars => OpenOvertakes'
  BY OvertakesStep
<1>3. PoolInv /\ OpenOvertakes /\ [Next]_vars => \A t \in Tools : ClosesLate(t)
  BY ClosingStep
<1>4. (\A t \in Tools : ClosesLate(t)) =>
        [\A t \in Tools : opened[t] = "open" /\ opened'[t] = "closed" =>
           \E c \in overtaken : tool[c] = t /\ pc[c] = "answered" /\ pc'[c] = "idle"]_vars
  BY DEF ClosesLate
<1> QED BY <1>1, <1>2, <1>3, <1>4, PoolAlways, PTL DEF Spec, OnlyOvertakenClose

-----------------------------------------------------------------------------
(* Isolation of the tools.  A call that finds no free thread may run out of *)
(* time through the fault of other tools.  While the abandoned calls leave a*)
(* thread for each caller that does not happen: nobody is delayed, no call  *)
(* is abandoned in the queue, and a caller that failed has its own tool to  *)
(* blame.                                                                   *)

NoneAbandonedWaiting == \A i \in DOMAIN queue : queue[i].by # NoCaller
RaisedIsBlamed == \A c \in Callers : pc[c] = "raised" => tool[c] \in blamed
Roomy == Cardinality(Abandoned) + Cardinality(Callers) <= Cardinality(Threads)
Isolated ==
    Roomy /\ delayed = {} /\ NoneAbandonedWaiting /\ RaisedIsBlamed /\ HealthyStaysClosed
IsolationInv == ~crowded => Isolated

LEMMA AbandonedCount ==
  /\ IsFiniteSet(Abandoned) /\ Cardinality(Abandoned) \in Nat
  /\ Cardinality(Callers) \in Nat /\ Cardinality(Threads) \in Nat
<1>1. Abandoned \in SUBSET Threads
  BY DEF Abandoned, BusyThreads
<1> QED BY <1>1, FinitenessAssumption, FS_Subset, FS_CardinalityType

\* A caller about to submit owns no call in the pool: with a thread for each
\* caller beside the abandoned calls it finds one free.
LEMMA SomeThreadLeft ==
  ASSUME PoolInv, Roomy, NoneAbandonedWaiting, NEW c \in Callers, pc[c] = "admitted"
  PROVE  ~NoThreadLeft
<1> DEFINE n        == Len(queue)
           Owned    == {h \in Threads : busy[h].by # NoCaller}
           Waiters  == {queue[i].by : i \in 1..n}
           Runners  == {busy[h].by : h \in Owned}
           Rest     == Callers \ {c}
           queuedBy == [i \in 1..n |-> queue[i].by]
           runBy    == [h \in Owned |-> busy[h].by]
<1>1. /\ n \in Nat /\ DOMAIN queue = 1..n
      /\ \A i \in 1..n : queue[i].by \in Callers /\ queue[i].by # c
      /\ \A h \in Owned : busy[h].by \in Callers /\ busy[h].by # c
  <2>1. c # NoCaller
    BY CircuitConstants
  <2> QED BY <2>1, Owners DEF PoolInv, TypeInv, NoneAbandonedWaiting,
                              OwnsOneCall, QueueAwaited, ThreadsAwaited, Awaited
<1>2. Waiters \subseteq Rest /\ Runners \subseteq Rest
  BY <1>1
<1>3. Waiters \cap Runners = {}
  BY <1>1 DEF PoolInv, OwnsOneCall, NotBoth
<1>4. queuedBy \in Injection(1..n, Waiters)
  <2>1. \A i, k \in 1..n : queue[i].by = queue[k].by => i = k
    BY <1>1 DEF PoolInv, OwnsOneCall, OnceQueued, NoneAbandonedWaiting
  <2> QED BY <2>1 DEF Injection, IsInjective
<1>5. runBy \in Injection(Owned, Runners)
  <2>1. \A h, k \in Owned : busy[h].by = busy[k].by => h = k
    BY DEF PoolInv, OwnsOneCall, OnceRunning
  <2> QED BY <2>1 DEF Injection, IsInjective
<1>6. IsFiniteSet(Rest) /\ Cardinality(Rest) = Cardinality(Callers) - 1
  BY FinitenessAssumption, FS_RemoveElement
<1>7. IsFiniteSet(Waiters) /\ IsFiniteSet(Runners)
  BY <1>2, <1>6, FS_Subset
<1>8. Cardinality(Waiters) \in Nat /\ Cardinality(Runners) \in Nat
  BY <1>7, FS_CardinalityType
<1>9. n <= Cardinality(Waiters)
  <2>1. Cardinality(1..n) <= Cardinality(Waiters)
    BY <1>4, <1>7, FS_Injection
  <2>2. Cardinality(1..n) = n
    <3>1. 1 \in Int /\ n \in Int /\ n \in Nat
      BY <1>1
    <3>2. Cardinality(1..n) = IF 1 > n THEN 0 ELSE n - 1 + 1
      BY <3>1, FS_Interval
    <3> HIDE DEF n
    <3> QED BY <3>1, <3>2
  <2> QED BY <2>1, <2>2
<1>10. IsFiniteSet(Owned) /\ Cardinality(Owned) <= Cardinality(Runners)
  BY <1>5, <1>7, FS_Injection
<1>11. Cardinality(Waiters) + Cardinality(Runners) <= Cardinality(Callers) - 1
  <2>1. /\ Waiters \cup Runners \subseteq Rest
        /\ Cardinality(Waiters \cap Runners) = 0
    BY <1>2, <1>3, FS_EmptySet
  <2>2. Cardinality(Waiters \cup Runners) <= Cardinality(Rest)
    BY <2>1, <1>6, FS_Subset
  <2>3. Cardinality(Waiters \cup Runners) =
            Cardinality(Waiters) + Cardinality(Runners) - Cardinality(Waiters \cap Runners)
    BY <1>7, FS_Union
  <2> HIDE DEF Waiters, Runners, Rest
  <2> QED BY <2>1, <2>2, <2>3, <1>6, <1>8
<1>12. Cardinality(Owned) \in Nat
  BY <1>10, FS_CardinalityType
<1>13. Cardinality(BusyThreads) = Cardinality(Abandoned) + Cardinality(Owned)
  <2>1. Free.by = NoCaller
    BY DEF Free
  <2>2. BusyThreads = Abandoned \cup Owned /\ Abandoned \cap Owned = {}
    BY <2>1 DEF Abandoned, BusyThreads
  <2>3. Cardinality(Abandoned \cap Owned) = 0
    BY <2>2, FS_EmptySet
  <2>4. Cardinality(Abandoned \cup Owned) =
            Cardinality(Abandoned) + Cardinality(Owned) - Cardinality(Abandoned \cap Owned)
    BY <1>10, AbandonedCount, FS_Union
  <2> HIDE DEF Owned
  <2> QED BY <2>2, <2>3, <2>4, <1>12, AbandonedCount
<1> HIDE DEF n, Owned, Waiters, Runners
<1>14. n + Cardinality(BusyThreads) < Cardinality(Threads)
  BY <1>1, <1>8, <1>9, <1>10, <1>11, <1>12, <1>13, AbandonedCount DEF Roomy
<1>15. Cardinality(BusyThreads) \in Nat
  BY <1>12, <1>13, AbandonedCount
<1> QED BY <1>1, <1>14, <1>15, AbandonedCount DEF NoThreadLeft, n

LEMMA IsolationStep ==
  ASSUME PoolInv, Isolated, [Next]_vars, ~crowded'
  PROVE  Isolated'
<1>a. /\ failures \in [Tools -> Nat] /\ busy \in [Threads -> Task \cup {Free}]
      /\ pc \in [Callers -> Step] /\ tool \in [Callers -> Tools \cup {NoTool}]
      /\ \A c \in Callers : pc[c] \in InCall => tool[c] \in Tools
      /\ queue \in Seq(Task) /\ blamed \subseteq Tools
  BY DEF PoolInv, TypeInv, TypeOK, Named
<1>b. NoCaller \notin Callers /\ Free.by = NoCaller
  BY CircuitConstants DEF Free
<1>c. ASSUME Abandoned' \subseteq Abandoned PROVE Roomy'
  <2>1. Cardinality(Abandoned') <= Cardinality(Abandoned) /\ Cardinality(Abandoned') \in Nat
    BY <1>c, AbandonedCount, FS_Subset, FS_CardinalityType
  <2> QED BY <2>1, AbandonedCount DEF Isolated, Roomy
\* A step of a caller that leaves the pool alone and does not raise.
<1>d. ASSUME UNCHANGED pool PROVE NoneAbandonedWaiting' /\ Roomy' /\ delayed' = {}
  BY <1>d DEF pool, Isolated, NoneAbandonedWaiting, Roomy, Abandoned, BusyThreads
<1>e. ASSUME UNCHANGED <<circuit, blamed>> PROVE HealthyStaysClosed'
  BY <1>e DEF circuit, Isolated, HealthyStaysClosed
<1>1. ASSUME NEW c \in Callers, NEW t \in Tools, Call(c, t) PROVE Isolated'
  <2>1. UNCHANGED <<pool, blamed>> /\ tool' = [tool EXCEPT ![c] = t]
        /\ (pc' = [pc EXCEPT ![c] = "admitted"] \/ pc' = [pc EXCEPT ![c] = "refused"])
    BY <1>1 DEF Call, Ask, Admit
  <2>2. RaisedIsBlamed'
    BY <2>1, <1>a DEF Isolated, RaisedIsBlamed
  <2>3. failures' = failures \/ failures' = [failures EXCEPT ![t] = 0]
    BY <1>1 DEF Call, Closed, Retried, Reset, circuit
  <2>4. HealthyStaysClosed'
    BY <2>1, <2>3, <1>a DEF Isolated, HealthyStaysClosed
  <2> QED BY <2>1, <2>2, <2>4, <1>d DEF Isolated
<1>2. ASSUME NEW c \in Callers, Refuse(c) PROVE Isolated'
  <2>1. RaisedIsBlamed'
    BY <1>2, <1>a DEF Refuse, Return, history, Isolated, RaisedIsBlamed
  <2> QED BY <2>1, <1>2, <1>d, <1>e DEF Refuse, history, Isolated
<1>3. ASSUME NEW c \in Callers, Submit(c) PROVE Isolated'
  <2>1. RaisedIsBlamed'
    BY <1>3, <1>a DEF Submit, Goto, history, Isolated, RaisedIsBlamed
  <2>2. Roomy'
    BY <1>3, <1>c DEF Submit, Abandoned, BusyThreads
  <2>3. NoneAbandonedWaiting'
    <3> DEFINE n == Len(queue)
               call == [by |-> c, tool |-> tool[c]]
    <3>1. call.by = c /\ c # NoCaller
      BY <1>b
    <3>2. /\ DOMAIN queue' = 1..(n + 1) /\ DOMAIN queue = 1..n /\ n \in Nat
          /\ \A i \in 1..n : queue'[i] = queue[i]
          /\ queue'[n + 1] = call
      BY <1>3, <1>a DEF Submit
    <3>3. \A i \in 1..(n + 1) : i \in 1..n \/ i = n + 1
      BY <3>2
    <3>4. \A i \in 1..n : queue[i].by # NoCaller
      BY <3>2 DEF Isolated, NoneAbandonedWaiting
    <3> HIDE DEF n, call
    <3> QED BY <3>1, <3>2, <3>3, <3>4, Zenon DEF NoneAbandonedWaiting
  <2>4. delayed' = {}
    BY <1>3, SomeThreadLeft DEF Submit, Isolated
  <2> QED BY <2>1, <2>2, <2>3, <2>4, <1>3, <1>e DEF Submit, history, Isolated
<1>4. ASSUME NEW c \in Callers, CountFailure(c) PROVE Isolated'
  <2>1. /\ tool[c] \in Tools /\ tool[c] \in blamed /\ UNCHANGED <<pool, blamed>>
        /\ failures' = [failures EXCEPT ![tool[c]] = @ + 1]
    BY <1>4, <1>a DEF CountFailure, InCall, Isolated, RaisedIsBlamed
  <2>2. HealthyStaysClosed'
    BY <2>1, <1>a DEF Isolated, HealthyStaysClosed
  <2>3. RaisedIsBlamed'
    BY <1>4, <2>1, <1>a DEF CountFailure, Return, Isolated, RaisedIsBlamed
  <2> QED BY <2>1, <2>2, <2>3, <1>d DEF Isolated
<1>5. ASSUME NEW c \in Callers, Succeed(c) PROVE Isolated'
  <2>1. HealthyStaysClosed'
    BY <1>5, <1>a DEF Succeed, Reset, InCall, Isolated, HealthyStaysClosed
  <2>2. RaisedIsBlamed'
    BY <1>5, <1>a DEF Succeed, Return, Isolated, RaisedIsBlamed
  <2> QED BY <2>1, <2>2, <1>5, <1>d DEF Succeed, Isolated
<1>6. ASSUME NEW c \in Callers, TimeOut(c) PROVE Isolated'
  <2>1. Running(c) /\ Outlasts(c)
    BY <1>6 DEF TimeOut, MayTimeOut, Outlasts, Isolated
  <2>2. /\ pc' = [pc EXCEPT ![c] = "raised"] /\ tool' = tool /\ delayed' = {}
        /\ blamed' = blamed \cup {tool[c]} /\ UNCHANGED circuit
    BY <1>6, <2>1 DEF TimeOut, Goto, Isolated
  <2>3. PICK h \in Threads : busy[h].by = c
    BY <2>1 DEF Running
  <2>4. \A task : Disown(c, task).by = IF task.by = c THEN NoCaller ELSE task.by
    BY DEF Disown
  <2>5. NoneAbandonedWaiting'
    <3>1. \A i \in DOMAIN queue : queue[i].by # c
      BY <2>3, <1>b DEF PoolInv, OwnsOneCall, NotBoth
    <3>2. \A i \in DOMAIN queue : Disown(c, queue[i]).by # NoCaller
      BY <3>1, <2>4 DEF Isolated, NoneAbandonedWaiting
    <3> QED BY <3>2, <1>6 DEF TimeOut, NoneAbandonedWaiting
  <2>6. Roomy'
    <3>1. ~Crowding'
      BY <1>6 DEF TimeOut
    <3>2. Abandoned' \in SUBSET Threads
      BY DEF Abandoned, BusyThreads
    <3>3. Cardinality(Abandoned') \in Nat
      BY <3>2, FinitenessAssumption, FS_Subset, FS_CardinalityType
    <3> QED BY <3>1, <3>3, AbandonedCount DEF Crowding, Roomy
  <2>8. RaisedIsBlamed'
    BY <2>2, <1>a DEF Isolated, RaisedIsBlamed
  <2>9. HealthyStaysClosed'
    BY <2>2 DEF circuit, Isolated, HealthyStaysClosed
  <2> QED BY <2>2, <2>5, <2>6, <2>8, <2>9 DEF Isolated
<1>7. ASSUME NEW h \in Threads, Start(h) PROVE Isolated'
  <2>1. /\ Len(queue) \in Nat \ {0} /\ DOMAIN queue' = 1..(Len(queue) - 1)
        /\ \A i \in 1..(Len(queue) - 1) : queue'[i] = queue[i + 1] /\ i + 1 \in DOMAIN queue
        /\ 1 \in DOMAIN queue /\ busy' = [busy EXCEPT ![h] = queue[1]]
    BY <1>7, <1>a DEF Start
  <2>2. NoneAbandonedWaiting'
    BY <2>1 DEF Isolated, NoneAbandonedWaiting
  <2>3. queue[1].by # NoCaller
    BY <2>1 DEF Isolated, NoneAbandonedWaiting
  <2>4. Abandoned' \subseteq Abandoned
    BY <2>1, <2>3, <1>a DEF Abandoned, BusyThreads
  <2>5. RaisedIsBlamed'
    BY <1>7 DEF Start, caller, history, Isolated, RaisedIsBlamed
  <2> QED BY <1>7, <2>2, <2>4, <2>5, <1>c, <1>e DEF Start, history, Isolated
<1>8. ASSUME NEW h \in Threads, Answer(h) PROVE Isolated'
  <2> DEFINE c == busy[h].by
  <2>1. c \in Callers /\ pc[c] = "waiting" /\ tool[c] = busy[h].tool
    BY <1>8, Owners DEF Answer, PoolInv, TypeInv, OwnsOneCall, ThreadsAwaited, Awaited
  <2>2. /\ UNCHANGED <<circuit, queue, tool>> /\ busy' = [busy EXCEPT ![h] = Free]
        /\ blamed \subseteq blamed'
        /\ \/ pc' = [pc EXCEPT ![c] = "answered"]
           \/ pc' = [pc EXCEPT ![c] = "raised"] /\ busy[h].tool \in blamed'
    BY <1>8 DEF Answer, Goto
  <2>3. RaisedIsBlamed'
    BY <2>1, <2>2, <1>a DEF Isolated, RaisedIsBlamed
  <2>4. Abandoned' \subseteq Abandoned
    BY <2>2, <1>a DEF Abandoned, BusyThreads
  <2>5. NoneAbandonedWaiting' /\ HealthyStaysClosed'
    BY <2>2 DEF circuit, Isolated, NoneAbandonedWaiting, HealthyStaysClosed
  <2>6. delayed' = {}
    BY <1>8 DEF Answer, Isolated
  <2> QED BY <2>3, <2>4, <2>5, <2>6, <1>c DEF Isolated
<1>9. ASSUME NEW h \in Threads, EndUnheard(h) PROVE Isolated'
  <2>1. Abandoned' \subseteq Abandoned
    BY <1>9, <1>a DEF EndUnheard, Abandoned, BusyThreads
  <2>2. NoneAbandonedWaiting' /\ RaisedIsBlamed'
    BY <1>9 DEF EndUnheard, caller, history, Isolated, NoneAbandonedWaiting, RaisedIsBlamed
  <2> QED BY <1>9, <2>1, <2>2, <1>c, <1>e DEF EndUnheard, history, Isolated
<1>10. ASSUME NEW t \in Tools, Cool(t) PROVE Isolated'
  <2>1. RaisedIsBlamed' /\ HealthyStaysClosed'
    BY <1>10 DEF Cool, caller, history, Isolated, RaisedIsBlamed, HealthyStaysClosed
  <2> QED BY <1>10, <2>1, <1>d DEF Cool, Isolated
<1>11. CASE UNCHANGED vars
  <2>1. RaisedIsBlamed'
    BY <1>11 DEF vars, caller, history, Isolated, RaisedIsBlamed
  <2> QED BY <1>11, <2>1, <1>d, <1>e DEF vars, history, Isolated
<1> QED BY <1>1, <1>2, <1>3, <1>4, <1>5, <1>6, <1>7, <1>8, <1>9, <1>10, <1>11 DEF Next

\* As long as the abandoned calls left a thread for each caller, no circuit
\* counts a failure of another tool, for any number of tools, callers and
\* threads.  When they do not, one does (CircuitStarved).
THEOREM ToolsAreIsolated == Spec => []IsolatedUntilCrowded
<1>1. Init => IsolationInv
  <2> SUFFICES ASSUME Init, ~crowded PROVE Isolated
    BY DEF IsolationInv
  <2>1. Roomy
    <3>1. ~Crowding
      BY DEF Init
    <3> QED BY <3>1, AbandonedCount DEF Crowding, Roomy
  <2> QED
    BY <2>1 DEF Init, Isolated, NoneAbandonedWaiting, RaisedIsBlamed, HealthyStaysClosed
<1>2. PoolInv /\ IsolationInv /\ [Next]_vars => IsolationInv'
  <2> SUFFICES ASSUME PoolInv, IsolationInv, [Next]_vars, ~crowded' PROVE Isolated'
    BY DEF IsolationInv
  <2>1. ~crowded
    BY DEF Next, vars, history, Call, Ask, Refuse, Submit, TimeOut, CountFailure, Succeed,
           Start, Answer, EndUnheard, Cool
  <2> QED BY <2>1, IsolationStep DEF IsolationInv
<1>3. IsolationInv => IsolatedUntilCrowded
  BY DEF IsolationInv, Isolated, HealthyStaysClosed, IsolatedUntilCrowded
<1> QED BY <1>1, <1>2, <1>3, PoolAlways, PTL DEF Spec
=============================================================================

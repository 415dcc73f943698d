---------------------------- MODULE ToolCircuit ----------------------------
(* How a research run calls a tool: the circuit breaker kept per tool       *)
(* (src/resilience.py), the shared pool of four threads the tool runs on,   *)
(* and the 30 second limit on its answer (_invoke_tool_with_timeout of      *)
(* src/agents/research_agent.py).  A call that runs out of time is abandoned*)
(* by its caller but keeps its place in the pool.                           *)
(*                                                                          *)
(* Time is kept by what it decides: an open circuit has cooled once the     *)
(* recovery time is over.  The 30 seconds count from the submission, so a   *)
(* call runs out of time on a tool in Hanging, or, on any tool, when it     *)
(* found no free thread.                                                    *)
(*                                                                          *)
(* A definition with a longer name before another (DisownNothing, Disown)   *)
(* is a faulty version of it, for showing that a property notices the fault.*)
EXTENDS Integers, Sequences, FiniteSets

CONSTANTS Callers, Tools, Threads,
          NoCaller, NoTool,
          Threshold,    \* settings.circuit_breaker_failure_threshold
          Hanging,      \* tools whose calls may outlast the 30 seconds
          Faulty,       \* tools whose provider may fail
          MaxTasks      \* bound on the calls in the pool

ASSUME CircuitConstants ==
    /\ NoCaller \notin Callers /\ NoTool \notin Tools
    /\ Threshold \in Nat \ {0} /\ MaxTasks \in Nat
    /\ Hanging \subseteq Tools /\ Faulty \subseteq Tools
ASSUME FinitenessAssumption == IsFiniteSet(Callers) /\ IsFiniteSet(Threads)

VARIABLES
    failures, opened,   \* _CircuitState of each tool; opened: see Circuit
    pc, tool,           \* callers: step of circuit.call, the tool called
    queue, busy,        \* the pool: calls waiting for a thread, and on one
    delayed,            \* callers whose call found no free thread
    streak,    \* history: calls in a row that got no data, up to Threshold
    blamed,    \* history: tools that failed or hung themselves
    crowded,   \* history: abandoned calls once left too few threads
    overtaken  \* history: callers whose circuit opened during their call

circuit == <<failures, opened>>
caller  == <<pc, tool>>
pool    == <<queue, busy, delayed>>
history == <<streak, blamed, crowded, overtaken>>
vars    == <<circuit, caller, pool, history>>

Circuit == {"closed", "open", "cooled"}
Step    == {"idle", "refused", "admitted", "waiting", "answered", "raised"}
InCall  == {"admitted", "waiting", "answered", "raised"}
Task    == [by : Callers \cup {NoCaller}, tool : Tools]
Free    == [by |-> NoCaller, tool |-> NoTool]

BusyThreads == {h \in Threads : busy[h] # Free}
Abandoned   == {h \in BusyThreads : busy[h].by = NoCaller}
Crowding    == Cardinality(Abandoned) + Cardinality(Callers) > Cardinality(Threads)

Init ==
    /\ failures = [t \in Tools |-> 0]
    /\ opened = [t \in Tools |-> "closed"]
    /\ pc = [c \in Callers |-> "idle"] /\ tool = [c \in Callers |-> NoTool]
    /\ queue = <<>> /\ busy = [h \in Threads |-> Free] /\ delayed = {}
    /\ streak = [t \in Tools |-> 0] /\ blamed = {}
    /\ crowded = Crowding /\ overtaken = {}

-----------------------------------------------------------------------------
(* CircuitBreaker.call.                                                     *)

Goto(c, step) == pc' = [pc EXCEPT ![c] = step] /\ UNCHANGED tool
Return(c) ==
    /\ pc'   = [pc EXCEPT ![c] = "idle"]
    /\ tool' = [tool EXCEPT ![c] = NoTool]

ResetForgettingCount(t) ==
    /\ opened' = [opened EXCEPT ![t] = "closed"] /\ UNCHANGED failures
Reset(t) ==
    /\ failures' = [failures EXCEPT ![t] = 0]
    /\ opened'   = [opened EXCEPT ![t] = "closed"]

Ask(c, t) ==
    /\ pc[c] = "idle" /\ Len(queue) + Cardinality(BusyThreads) < MaxTasks
    /\ tool' = [tool EXCEPT ![c] = t]
    /\ UNCHANGED <<pool, blamed, crowded, overtaken>>
Admit(c) == pc' = [pc EXCEPT ![c] = "admitted"]
Closed(t) == opened[t] = "closed" /\ UNCHANGED <<circuit, streak>>
Retried(t) == Reset(t) /\ streak' = [streak EXCEPT ![t] = 0]

\* The first section under the lock: refuse, admit, or reset and admit.
CallUnchecked(c, t) == Ask(c, t) /\ Admit(c) /\ UNCHANGED <<circuit, streak>>
CallWhileOpen(c, t) ==
    Ask(c, t) /\ Admit(c) /\ IF opened[t] = "closed" THEN Closed(t) ELSE Retried(t)
Call(c, t) ==
    /\ Ask(c, t)
    /\ \/ Admit(c) /\ Closed(t)
       \/ Admit(c) /\ opened[t] = "cooled" /\ Retried(t)
       \/ /\ opened[t] = "open"
          /\ pc' = [pc EXCEPT ![c] = "refused"]
          /\ UNCHANGED <<circuit, streak>>

\* CircuitOpenError becomes the tool's result.
Refuse(c) ==
    /\ pc[c] = "refused"
    /\ Return(c)
    /\ UNCHANGED <<circuit, pool, history>>

Opens(n) == n >= Threshold
InFlight(t) == {c \in Callers : tool[c] = t /\ pc[c] \in InCall}
Leave(c) == overtaken' = overtaken \ {c}

\* The operation raised: counted under the lock, then raised again.
CountFailureForAll(c) ==
    /\ pc[c] = "raised"
    /\ failures' = [t \in Tools |-> failures[t] + 1]
    /\ opened' = [t \in Tools |-> IF Opens(failures[t] + 1) THEN "open" ELSE opened[t]]
    /\ Return(c) /\ Leave(c)
    /\ UNCHANGED <<pool, streak, blamed, crowded>>
CountFailure(c) ==
    LET t == tool[c] IN
    /\ pc[c] = "raised"
    /\ failures' = [failures EXCEPT ![t] = @ + 1]
    /\ opened' = [opened EXCEPT ![t] = IF Opens(failures[t] + 1) THEN "open" ELSE @]
    /\ overtaken' = (overtaken \cup IF Opens(failures[t] + 1) THEN InFlight(t) ELSE {}) \ {c}
    /\ Return(c)
    /\ UNCHANGED <<pool, streak, blamed, crowded>>

\* The operation returned: any return closes the circuit.
Succeed(c) ==
    /\ pc[c] = "answered"
    /\ Reset(tool[c])
    /\ Return(c) /\ Leave(c)
    /\ UNCHANGED <<pool, streak, blamed, crowded>>

-----------------------------------------------------------------------------
(* _invoke_tool_with_timeout and the pool.                                  *)

NoThreadLeft == Len(queue) + Cardinality(BusyThreads) >= Cardinality(Threads)

Submit(c) ==
    /\ pc[c] = "admitted"
    /\ queue' = Append(queue, [by |-> c, tool |-> tool[c]])
    /\ delayed' = IF NoThreadLeft THEN delayed \cup {c} ELSE delayed
    /\ Goto(c, "waiting")
    /\ UNCHANGED <<circuit, busy, history>>

Start(h) ==
    /\ busy[h] = Free /\ queue # <<>>
    /\ busy' = [busy EXCEPT ![h] = Head(queue)]
    /\ queue' = Tail(queue)
    /\ UNCHANGED <<circuit, caller, delayed, history>>

Longer(t) == [streak EXCEPT ![t] = IF @ < Threshold THEN @ + 1 ELSE @]

\* The tool function ends while its caller still waits.  A tool catches what
\* its provider raises and returns an error record or an empty list; what it
\* does raise is a call it rejects.
Answer(h) ==
    LET c == busy[h].by
        t == busy[h].tool
    IN
    /\ c # NoCaller
    /\ busy' = [busy EXCEPT ![h] = Free]
    /\ delayed' = delayed \ {c}
    /\ \/ Goto(c, "answered")
          /\ streak' = [streak EXCEPT ![t] = 0]
          /\ UNCHANGED blamed
       \/ t \in Faulty
          /\ Goto(c, "answered")
          /\ streak' = Longer(t)
          /\ blamed' = blamed \cup {t}
       \/ t \in Faulty
          /\ Goto(c, "raised")
          /\ streak' = Longer(t)
          /\ blamed' = blamed \cup {t}
    /\ UNCHANGED <<circuit, queue, crowded, overtaken>>

\* An abandoned call ends: nobody reads its result.
EndUnheard(h) ==
    /\ busy[h] # Free /\ busy[h].by = NoCaller
    /\ busy' = [busy EXCEPT ![h] = Free]
    /\ UNCHANGED <<circuit, caller, queue, delayed, history>>

DisownNothing(c, task) == task
Disown(c, task) == [by |-> IF task.by = c THEN NoCaller ELSE task.by, tool |-> task.tool]

Running(c)  == \E h \in Threads : busy[h].by = c
Outlasts(c) == Running(c) /\ tool[c] \in Hanging
MayTimeOutRunning(c) == Outlasts(c)
MayTimeOut(c) == Outlasts(c) \/ c \in delayed

\* future.result gives up; the call is not cancelled.
TimeOut(c) ==
    /\ pc[c] = "waiting" /\ MayTimeOut(c)
    /\ queue' = [i \in DOMAIN queue |-> Disown(c, queue[i])]
    /\ busy'  = [h \in Threads |-> Disown(c, busy[h])]
    /\ Goto(c, "raised")
    /\ streak' = Longer(tool[c])
    /\ blamed' = IF Outlasts(c) THEN blamed \cup {tool[c]} ELSE blamed
    /\ delayed' = delayed \ {c}
    /\ crowded' = (crowded \/ Crowding')
    /\ UNCHANGED <<circuit, overtaken>>

-----------------------------------------------------------------------------
(* The clock passes opened_at + recovery_seconds.                           *)

Cool(t) ==
    /\ opened[t] = "open"
    /\ opened' = [opened EXCEPT ![t] = "cooled"]
    /\ UNCHANGED <<failures, caller, pool, history>>

Next ==
    \/ \E c \in Callers : \/ \E t \in Tools : Call(c, t)
                          \/ Refuse(c) \/ Submit(c) \/ TimeOut(c)
                          \/ CountFailure(c) \/ Succeed(c)
    \/ \E h \in Threads : Start(h) \/ Answer(h) \/ EndUnheard(h)
    \/ \E t \in Tools : Cool(t)

Spec == Init /\ [][Next]_vars

\* Threads and callers that can run do run, and a tool that does not hang
\* ends.  Nothing says that a hung call ever ends.
FairSpec ==
    /\ Spec
    /\ \A c \in Callers : WF_vars(Refuse(c) \/ Submit(c) \/ CountFailure(c) \/ Succeed(c))
    /\ \A c \in Callers : WF_vars(TimeOut(c))
    /\ \A h \in Threads : WF_vars(Start(h))
    /\ \A h \in Threads : WF_vars(busy[h].tool \notin Hanging
                                    /\ (Answer(h) \/ EndUnheard(h)))

-----------------------------------------------------------------------------
(* Properties.                                                              *)

\* Every variable keeps its type; the count of failures may pass Threshold.
TypeOK ==
    /\ failures \in [Tools -> Nat] /\ opened \in [Tools -> Circuit]
    /\ pc \in [Callers -> Step] /\ tool \in [Callers -> Tools \cup {NoTool}]
    /\ queue \in Seq(Task) /\ busy \in [Threads -> Task \cup {Free}]
    /\ delayed \subseteq Callers
    /\ streak \in [Tools -> 0..Threshold] /\ blamed \subseteq Tools
    /\ crowded \in BOOLEAN /\ overtaken \subseteq Callers

\* The two fields of _CircuitState agree, whatever calls overlap: opened_at is
\* set exactly when the failures have reached the threshold (resilience.py
\* sets them in one section under the lock and resets them in two others).
OpenAtThreshold ==
    \A t \in Tools : opened[t] # "closed" <=> failures[t] >= Threshold

\* However many callers overlap, a circuit counts at most one failure beyond
\* the threshold for each other caller: calls already admitted when it opens.
OvershootBounded ==
    \A t \in Tools : failures[t] < Threshold + Cardinality(Callers)

Awaited(task) == task.by # NoCaller =>
                     pc[task.by] = "waiting" /\ tool[task.by] = task.tool
QueueAwaited   == \A i \in DOMAIN queue : Awaited(queue[i])
ThreadsAwaited == \A h \in Threads : Awaited(busy[h])
OnceQueued     == \A i, k \in DOMAIN queue :
                      queue[i].by = queue[k].by => i = k \/ queue[i].by = NoCaller
OnceRunning    == \A h, k \in Threads :
                      busy[h].by = busy[k].by => h = k \/ busy[h].by = NoCaller
NotBoth        == \A i \in DOMAIN queue, h \in Threads :
                      queue[i].by = busy[h].by => queue[i].by = NoCaller
WaitsForCall   == \A c \in Callers : pc[c] = "waiting" =>
                      Running(c) \/ \E i \in DOMAIN queue : queue[i].by = c

\* A caller that waits has its call in the pool exactly once, and no other
\* caller has a call there: a call that ran out of time can never answer for
\* a later one.
OwnsOneCall ==
    /\ QueueAwaited /\ ThreadsAwaited
    /\ OnceQueued /\ OnceRunning /\ NotBoth
    /\ WaitsForCall

\* An open circuit closes before its recovery time only by the success of a
\* call that was under way when it opened: whatever callers overlap, nobody
\* gets to a provider past an open circuit (the lock is free during a call).
OnlyOvertakenClose ==
    [][\A t \in Tools : opened[t] = "open" /\ opened'[t] = "closed" =>
           \E c \in overtaken : tool[c] = t /\ pc[c] = "answered" /\ pc'[c] = "idle"]_vars

\* An open circuit stays open until the recovery time is over.  True of a
\* single caller, also when calls abandoned before it opened answer after all.
OpenUntilCooled ==
    [][\A t \in Tools : opened[t] = "open" => opened'[t] \in {"open", "cooled"}]_opened

\* As long as the abandoned calls have always left a thread for each caller, a
\* circuit counts failures only of a tool that failed or hung itself: also
\* with hung calls in the pool, one tool's trouble is not held against another.
IsolatedUntilCrowded ==
    ~crowded => \A t \in Tools : failures[t] > 0 => t \in blamed

\* The same without the condition: hung calls fill the pool, and then a call
\* runs out of time that waited behind them.
HealthyStaysClosed ==
    \A t \in Tools : failures[t] > 0 => t \in blamed

\* Once Threshold calls in a row got no data from the provider the circuit is
\* open ("tool circuit breakers isolate repeated failures").
RepeatedFailuresOpen ==
    \A t \in Tools : streak[t] = Threshold =>
        \/ opened[t] # "closed"
        \/ \E c \in Callers : tool[c] = t /\ pc[c] \in {"raised", "answered"}

\* A caller always gets its answer, also while every thread hangs.
AlwaysAnswered ==
    \A c \in Callers : pc[c] = "waiting" ~> pc[c] = "idle"
=============================================================================

------------------------------ MODULE RateLimit ------------------------------
(* enforce_rate_limit of src/api/governance.py: how many requests a         *)
(* principal may make in a window, in both backends.  In Redis a principal's*)
(* window begins with its first request and lasts a minute; in memory the   *)
(* window is the calendar minute, and the counts of past minutes stay in a  *)
(* dictionary until a request finds it too large.                           *)
(*                                                                          *)
(* A minute is MinuteTicks ticks of the clock.  Counts above the limit are  *)
(* not told apart.                                                          *)
(*                                                                          *)
(* A definition with a longer name just before another (OverLimitLate,      *)
(* OverLimit) is a faulty version of it, for showing that a property notices*)
(* the fault.                                                               *)
EXTENDS Integers, FiniteSets

CONSTANTS Principals,
          RateLimit,     \* settings.rate_limit_requests_per_minute
          MinuteTicks,   \* clock ticks in a minute
          MaxEntries,    \* entries of the dictionary before it is pruned
          MaxLost        \* bound on answers of Redis that are lost

ASSUME RateConstants ==
    /\ IsFiniteSet(Principals)
    /\ RateLimit \in Nat \ {0} /\ MinuteTicks \in Nat \ {0}
    /\ MaxEntries \in Nat /\ MaxLost \in Nat

VARIABLES
    backend,            \* "redis" or "memory", for the life of the process
    count, ttl,         \* Redis: a principal's count, ticks its key has to live
    phase,              \* memory: ticks of the calendar minute that are over
    current, previous,  \* memory: counts of this minute and of the one before
    older,              \* memory: entries of minutes before these two
    plain,              \* memory: the dictionary was pruned, and is no longer a
                        \* defaultdict
    answer,             \* a principal's last answer in this tick
    lost,               \* answers lost so far
    watch, seen,        \* history: ticks left of some minute an observer chose,
                        \* and the requests admitted in it
    denied              \* history: ticks on end, up to the present one, at whose
                        \* end a principal's last answer was a denial

redis  == <<count, ttl>>
memory == <<phase, current, previous, older, plain>>
span   == <<watch, seen>>
vars   == <<backend, redis, memory, answer, lost, span, denied>>

Denials == {"refused", "KeyError"}
Answers == {"none", "admitted", "lost"} \cup Denials
Counts == 0..(RateLimit + 1)

Init ==
    /\ backend \in {"redis", "memory"}
    /\ count = [p \in Principals |-> 0] /\ ttl = [p \in Principals |-> 0]
    /\ phase = 0 /\ older = 0 /\ plain = FALSE
    /\ current = [p \in Principals |-> 0] /\ previous = [p \in Principals |-> 0]
    /\ answer = [p \in Principals |-> "none"]
    /\ lost = 0
    /\ watch = 0 /\ seen = [p \in Principals |-> 0]
    /\ denied = [p \in Principals |-> 0]

-----------------------------------------------------------------------------
Increment(n) == IF n > RateLimit THEN n ELSE n + 1
OverLimitLate(n) == n > RateLimit + 1
OverLimit(n) == n > RateLimit

\* The answer to a request that is the n-th of its window.
Decide(p, n) ==
    /\ answer' = [answer EXCEPT ![p] = IF OverLimit(n) THEN "refused" ELSE "admitted"]
    /\ seen' = IF watch > 0 /\ ~OverLimit(n) THEN [seen EXCEPT ![p] = @ + 1] ELSE seen
    /\ denied' = IF OverLimit(n) THEN denied ELSE [denied EXCEPT ![p] = 0]
    /\ UNCHANGED watch

\* _RATE_LIMIT_LUA: the key's time to live is set by the first request only.
ScriptRearming(p) ==
    /\ count' = [count EXCEPT ![p] = Increment(@)]
    /\ ttl' = [ttl EXCEPT ![p] = MinuteTicks]
Script(p) ==
    /\ count' = [count EXCEPT ![p] = Increment(@)]
    /\ ttl' = IF count[p] = 0 THEN [ttl EXCEPT ![p] = MinuteTicks] ELSE ttl

RequestRedis(p) ==
    /\ backend = "redis"
    /\ Script(p)
    /\ Decide(p, count'[p])
    /\ UNCHANGED <<backend, memory, lost>>

\* The script ran, its answer did not come: 503, but the request counts.  (An
\* error before the script changes nothing.)
RequestLost(p) ==
    /\ backend = "redis" /\ lost < MaxLost
    /\ Script(p)
    /\ answer' = [answer EXCEPT ![p] = "lost"]
    /\ denied' = [denied EXCEPT ![p] = 0]
    /\ lost' = lost + 1
    /\ UNCHANGED <<backend, memory, span>>

-----------------------------------------------------------------------------
Used(f) == Cardinality({p \in Principals : f[p] > 0})
Entries == Used(current) + Used(previous) + older

\* What is left of a dictionary that grew too large: this minute and the last.
Prune(cur) == older' = 0 /\ plain' = TRUE /\ current' = cur /\ UNCHANGED previous
TooLargeNever(cur) == FALSE
TooLarge(cur) == Used(cur) + Used(previous) + older > MaxEntries

RequestMemory(p) ==
    LET counted == [current EXCEPT ![p] = Increment(@)] IN
    /\ backend = "memory"
    /\ plain => current[p] > 0
    /\ IF TooLarge(counted) THEN Prune(counted)
       ELSE current' = counted /\ UNCHANGED <<previous, older, plain>>
    /\ Decide(p, counted[p])
    /\ UNCHANGED <<backend, phase, redis, lost>>

\* A pruned dictionary has no default for a principal's first request of a
\* minute; the exception leaves it as it is.
RequestUnknown(p) ==
    /\ backend = "memory" /\ plain /\ current[p] = 0
    /\ answer' = [answer EXCEPT ![p] = "KeyError"]
    /\ UNCHANGED <<backend, redis, memory, lost, span, denied>>

Request(p) ==
    RequestRedis(p) \/ RequestLost(p) \/ RequestMemory(p) \/ RequestUnknown(p)

-----------------------------------------------------------------------------
\* Time passes: keys expire, and a new calendar minute begins.
ExpireKeys ==
    /\ ttl' = [p \in Principals |-> IF ttl[p] > 0 THEN ttl[p] - 1 ELSE 0]
    /\ count' = [p \in Principals |-> IF ttl[p] <= 1 THEN 0 ELSE count[p]]
TurnMinute ==
    IF phase + 1 < MinuteTicks
    THEN phase' = phase + 1 /\ UNCHANGED <<current, previous, older, plain>>
    ELSE /\ phase' = 0
         /\ current' = [p \in Principals |-> 0] /\ previous' = current
         /\ older' = older + Used(previous)
         /\ UNCHANGED plain

\* A principal that was not denied at the end of a tick, or did not ask in it,
\* begins anew.  More than a minute and a tick is not told apart.
DeniedLonger(p) ==
    IF answer[p] \notin Denials THEN 0
    ELSE IF denied[p] > MinuteTicks THEN denied[p] ELSE denied[p] + 1

Tick ==
    /\ ExpireKeys /\ TurnMinute
    /\ denied' = [p \in Principals |-> DeniedLonger(p)]
    /\ answer' = [p \in Principals |-> "none"]
    /\ watch' = IF watch > 0 THEN watch - 1 ELSE 0
    /\ UNCHANGED <<backend, lost, seen>>

\* An observer begins to count for a minute.
Observe ==
    /\ watch = 0
    /\ watch' = MinuteTicks
    /\ seen' = [p \in Principals |-> 0]
    /\ UNCHANGED <<backend, redis, memory, answer, lost, denied>>

Next == Tick \/ Observe \/ \E p \in Principals : Request(p)

Spec == Init /\ [][Next]_vars

\* Time passes; nobody has to send requests.
FairSpec == Spec /\ WF_vars(Tick)

-----------------------------------------------------------------------------
(* Properties.                                                              *)

\* The windows and counts have their types.
TypeOK ==
    /\ backend \in {"redis", "memory"}
    /\ count \in [Principals -> Counts] /\ ttl \in [Principals -> 0..MinuteTicks]
    /\ phase \in 0..(MinuteTicks - 1)
    /\ current \in [Principals -> Counts] /\ previous \in [Principals -> Counts]
    /\ older \in Nat /\ plain \in BOOLEAN
    /\ answer \in [Principals -> Answers]
    /\ lost \in 0..MaxLost
    /\ watch \in 0..MinuteTicks /\ seen \in [Principals -> Nat]
    /\ denied \in [Principals -> 0..(MinuteTicks + 1)]

\* In no minute, wherever it begins, are more than twice the configured
\* requests of one principal admitted: windows do not add up any further, in
\* either backend, whatever answers are lost.
AtMostTwiceTheLimit == \A p \in Principals : seen[p] <= 2 * RateLimit

\* The dictionary stays within its bound, or within two entries for each
\* principal if that is more.
DictionaryBounded ==
    \/ Entries <= MaxEntries
    \/ Entries <= 2 * Cardinality(Principals)

\* A principal that asks in every tick is denied for a minute at most before a
\* request of it is admitted or counts without an answer: refused requests do
\* not prolong its window.  In memory this holds until the dictionary is pruned.
DeniedAMinuteAtMost == ~plain => \A p \in Principals : denied[p] <= MinuteTicks

\* A principal that keeps asking is admitted again and again.
Asking(p) == answer[p] # "none"
StaysInService ==
    \A p \in Principals : []<>Asking(p) => []<>(answer[p] = "admitted")
=============================================================================

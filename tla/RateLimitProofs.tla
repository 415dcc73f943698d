--------------------------- MODULE RateLimitProofs ---------------------------
(* Proofs about RateLimit for any number of principals, any limit, any      *)
(* resolution of the clock and any bound of the dictionary.                 *)
EXTENDS RateLimit, FiniteSetTheorems, TLAPS

-----------------------------------------------------------------------------
(* Types.                                                                   *)

\* How many principals have a count is a number, and at most all of them.
LEMMA UsedNat == ASSUME NEW f PROVE /\ Used(f) \in Nat
                                    /\ Used(f) <= Cardinality(Principals)
<1> DEFINE U == {p \in Principals : f[p] > 0}
<1>1. U \in SUBSET Principals /\ IsFiniteSet(Principals)
  BY RateConstants
<1>2. IsFiniteSet(U) /\ Cardinality(U) <= Cardinality(Principals)
  BY <1>1, FS_Subset
<1>3. Cardinality(U) \in Nat
  BY <1>2, FS_CardinalityType
<1> QED
  BY <1>2, <1>3 DEF Used

LEMMA IncrementType == ASSUME NEW n \in Counts PROVE Increment(n) \in Counts
BY RateConstants DEF Increment, Counts

LEMMA DecideType ==
    ASSUME TypeOK, NEW p \in Principals, NEW n \in Counts, Decide(p, n)
    PROVE  /\ answer' \in [Principals -> Answers]
           /\ watch' \in 0..MinuteTicks /\ seen' \in [Principals -> Nat]
           /\ denied' \in [Principals -> 0..(MinuteTicks + 1)]
<1>1. answer' \in [Principals -> Answers]
  BY DEF TypeOK, Decide, Answers, Denials
<1>2. seen' \in [Principals -> Nat]
  BY DEF TypeOK, Decide
<1>3. denied' \in [Principals -> 0..(MinuteTicks + 1)]
  BY RateConstants DEF TypeOK, Decide
<1> QED
  BY <1>1, <1>2, <1>3 DEF TypeOK, Decide

LEMMA ScriptType ==
    ASSUME TypeOK, NEW p \in Principals, Script(p)
    PROVE  /\ count' \in [Principals -> Counts] /\ ttl' \in [Principals -> 0..MinuteTicks]
           /\ count'[p] = Increment(count[p])
<1>1. count[p] \in Counts
  BY DEF TypeOK
<1>2. Increment(count[p]) \in Counts
  BY <1>1, IncrementType
<1>3. MinuteTicks \in 0..MinuteTicks
  BY RateConstants
<1> QED
  BY <1>2, <1>3 DEF TypeOK, Script

LEMMA TypeStep == TypeOK /\ [Next]_vars => TypeOK'
<1> SUFFICES ASSUME TypeOK, [Next]_vars PROVE TypeOK'
  OBVIOUS
<1> USE RateConstants DEF redis, memory, span
<1>1. ASSUME NEW p \in Principals, RequestRedis(p) PROVE TypeOK'
  <2>1. /\ count' \in [Principals -> Counts] /\ ttl' \in [Principals -> 0..MinuteTicks]
        /\ count'[p] \in Counts
    BY <1>1, ScriptType DEF RequestRedis
  <2>2. /\ answer' \in [Principals -> Answers]
        /\ watch' \in 0..MinuteTicks /\ seen' \in [Principals -> Nat]
        /\ denied' \in [Principals -> 0..(MinuteTicks + 1)]
    BY <1>1, <2>1, DecideType DEF RequestRedis
  <2> QED
    BY <1>1, <2>1, <2>2 DEF RequestRedis, TypeOK
<1>2. ASSUME NEW p \in Principals, RequestLost(p) PROVE TypeOK'
  <2>1. /\ count' \in [Principals -> Counts] /\ ttl' \in [Principals -> 0..MinuteTicks]
    BY <1>2, ScriptType DEF RequestLost
  <2>2. /\ answer' \in [Principals -> Answers]
        /\ denied' \in [Principals -> 0..(MinuteTicks + 1)]
    BY <1>2 DEF RequestLost, TypeOK, Answers
  <2>3. lost' \in 0..MaxLost
    BY <1>2 DEF RequestLost, TypeOK
  <2> QED
    BY <1>2, <2>1, <2>2, <2>3 DEF RequestLost, TypeOK
<1>3. ASSUME NEW p \in Principals, RequestMemory(p) PROVE TypeOK'
  <2> DEFINE counted == [current EXCEPT ![p] = Increment(@)]
  <2>1. counted \in [Principals -> Counts] /\ counted[p] \in Counts
    BY IncrementType DEF TypeOK
  <2>2. /\ current' = counted /\ previous' = previous
        /\ \/ older' = 0 /\ plain' = TRUE
           \/ older' = older /\ plain' = plain
    <3>1. CASE TooLarge(counted)
      BY <1>3, <3>1 DEF RequestMemory, Prune
    <3>2. CASE ~TooLarge(counted)
      BY <1>3, <3>2 DEF RequestMemory
    <3> QED
      BY <3>1, <3>2
  <2>3. Decide(p, counted[p])
    BY <1>3 DEF RequestMemory
  <2>4. /\ answer' \in [Principals -> Answers]
        /\ watch' \in 0..MinuteTicks /\ seen' \in [Principals -> Nat]
        /\ denied' \in [Principals -> 0..(MinuteTicks + 1)]
    BY <2>1, <2>3, DecideType
  <2>5. /\ current' \in [Principals -> Counts] /\ previous' \in [Principals -> Counts]
    BY <2>1, <2>2 DEF TypeOK
  <2>7. plain' \in BOOLEAN
    <3>1. plain \in BOOLEAN /\ plain' \in {plain, TRUE}
      BY <2>2, Zenon DEF TypeOK
    <3> QED
      BY <3>1, Zenon
  <2>8. older' \in Nat
    <3>1. older \in Nat /\ older' \in {older, 0}
      BY <2>2, Zenon DEF TypeOK
    <3> QED
      BY <3>1
  <2>6. UNCHANGED <<backend, phase, count, ttl, lost>>
    BY <1>3 DEF RequestMemory
  <2> QED
    BY <2>4, <2>5, <2>6, <2>7, <2>8 DEF TypeOK
<1>4. ASSUME NEW p \in Principals, RequestUnknown(p) PROVE TypeOK'
  BY <1>4 DEF RequestUnknown, TypeOK, Answers, Denials
<1>5. CASE Tick
  <2>1. /\ count' \in [Principals -> Counts] /\ ttl' \in [Principals -> 0..MinuteTicks]
    BY <1>5 DEF Tick, ExpireKeys, TypeOK, Counts
  <2>2. Used(previous) \in Nat
    BY UsedNat
  <2>3. /\ phase' \in 0..(MinuteTicks - 1) /\ older' \in Nat /\ plain' \in BOOLEAN
        /\ current' \in [Principals -> Counts] /\ previous' \in [Principals -> Counts]
    BY <1>5, <2>2 DEF Tick, TurnMinute, TypeOK, Counts
  <2>4. /\ answer' \in [Principals -> Answers] /\ watch' \in 0..MinuteTicks
    BY <1>5 DEF Tick, TypeOK, Answers
  <2>5. denied' \in [Principals -> 0..(MinuteTicks + 1)]
    BY <1>5 DEF Tick, DeniedLonger, TypeOK
  <2> QED
    BY <1>5, <2>1, <2>3, <2>4, <2>5 DEF Tick, TypeOK
<1>6. CASE Observe
  BY <1>6 DEF Observe, TypeOK
<1>7. CASE UNCHANGED vars
  BY <1>7 DEF vars, TypeOK
<1> QED
  BY <1>1, <1>2, <1>3, <1>4, <1>5, <1>6, <1>7 DEF Next, Request

LEMMA TypeInit == Init => TypeOK
<1> SUFFICES ASSUME Init PROVE TypeOK
  OBVIOUS
<1>1. 0 \in Counts /\ 0 \in 0..MinuteTicks /\ 0 \in 0..(MinuteTicks - 1) /\ 0 \in 0..MaxLost
      /\ 0 \in 0..(MinuteTicks + 1)
  BY RateConstants DEF Counts
<1> QED
  BY <1>1 DEF Init, TypeOK, Answers

-----------------------------------------------------------------------------
(* The limit.  A window that began before the observed minute has admitted  *)
(* what was seen; one that began within it outlasts it, so that at most one *)
(* other window lies before it.                                             *)

Left(p) == IF backend = "redis" THEN ttl[p] ELSE MinuteTicks - phase
Counted(p) == IF backend = "redis" THEN count[p] ELSE current[p]
Admitted(n) == IF n > RateLimit THEN RateLimit ELSE n

\* Requests seen (s) with w ticks to watch, in a window that has l ticks left
\* and counted c.
Fits(s, w, l, c) ==
    /\ s <= 2 * RateLimit
    /\ w > 0 => IF l > w THEN s <= RateLimit + Admitted(c)
                ELSE IF l > 0 THEN s <= Admitted(c)
                ELSE s <= RateLimit /\ (w = MinuteTicks => s = 0)
KeyLives == \A p \in Principals : ttl[p] = 0 <=> count[p] = 0
SeenFits == \A p \in Principals : Fits(seen[p], watch, Left(p), Counted(p))
WindowInv == TypeOK /\ KeyLives /\ SeenFits

\* One more request, in a window that is open or opens with it.
LEMMA FitsRequest ==
    ASSUME NEW s \in Nat, NEW w \in 0..MinuteTicks, NEW l \in 0..MinuteTicks,
           NEW c \in Counts, l = 0 => c = 0, Fits(s, w, l, c)
    PROVE  Fits(IF w > 0 /\ ~OverLimit(Increment(c)) THEN s + 1 ELSE s,
                w, IF l = 0 THEN MinuteTicks ELSE l, Increment(c))
BY RateConstants DEF Fits, Admitted, Increment, OverLimit, Counts

\* A request that counts but is not admitted.
LEMMA FitsLost ==
    ASSUME NEW s \in Nat, NEW w \in 0..MinuteTicks, NEW l \in 0..MinuteTicks,
           NEW c \in Counts, l = 0 => c = 0, Fits(s, w, l, c)
    PROVE  Fits(s, w, IF l = 0 THEN MinuteTicks ELSE l, Increment(c))
BY RateConstants DEF Fits, Admitted, Increment, Counts

\* A tick, after which the window goes on, has ended, or the next one began.
LEMMA FitsTick ==
    ASSUME NEW s \in Nat, NEW w \in 0..MinuteTicks, NEW l \in 0..MinuteTicks,
           NEW c \in Counts, l = 0 => c = 0, Fits(s, w, l, c)
    PROVE  LET v == IF w > 0 THEN w - 1 ELSE 0 IN
           /\ l > 1 => Fits(s, v, l - 1, c)
           /\ l <= 1 => Fits(s, v, 0, 0)
           /\ l = 1 => Fits(s, v, MinuteTicks, 0)
BY RateConstants DEF Fits, Admitted, Counts

LEMMA WindowInit == Init => WindowInv
<1> SUFFICES ASSUME Init PROVE KeyLives /\ SeenFits
  BY TypeInit DEF WindowInv
<1> QED
  BY RateConstants DEF Init, KeyLives, SeenFits, Fits

LEMMA LivesStep == TypeOK /\ KeyLives /\ [Next]_vars => KeyLives'
<1> SUFFICES ASSUME TypeOK, KeyLives, [Next]_vars PROVE KeyLives'
  OBVIOUS
<1>0. \A q \in Principals : count[q] \in Counts /\ ttl[q] \in 0..MinuteTicks
  BY DEF TypeOK
<1>1. ASSUME NEW p \in Principals, Script(p) PROVE KeyLives'
  <2>1. /\ count'[p] = Increment(count[p])
        /\ ttl'[p] = IF ttl[p] = 0 THEN MinuteTicks ELSE ttl[p]
        /\ \A q \in Principals \ {p} : count'[q] = count[q] /\ ttl'[q] = ttl[q]
    BY <1>1 DEF Script, TypeOK, KeyLives
  <2>2. Increment(count[p]) # 0 /\ ttl'[p] # 0
    BY <1>0, <2>1, RateConstants DEF Increment, Counts
  <2> QED
    BY <2>1, <2>2 DEF KeyLives
<1>2. CASE Tick
  BY <1>0, <1>2 DEF Tick, ExpireKeys, KeyLives
<1>3. ASSUME UNCHANGED redis PROVE KeyLives'
  BY <1>3 DEF redis, KeyLives
<1>4. \/ Tick \/ UNCHANGED redis \/ \E p \in Principals : Script(p)
  BY DEF Next, Request, RequestRedis, RequestLost, RequestMemory, RequestUnknown,
         Observe, vars
<1> QED
  BY <1>1, <1>2, <1>3, <1>4

LEMMA WindowStep == WindowInv /\ [Next]_vars => WindowInv'
<1> SUFFICES ASSUME TypeOK, KeyLives, SeenFits, [Next]_vars PROVE SeenFits'
  BY TypeStep, LivesStep DEF WindowInv
<1>0. /\ MinuteTicks \in Nat \ {0} /\ RateLimit \in Nat \ {0}
      /\ watch \in 0..MinuteTicks /\ phase \in 0..(MinuteTicks - 1)
      /\ \A q \in Principals :
            /\ seen[q] \in Nat /\ count[q] \in Counts /\ current[q] \in Counts
            /\ ttl[q] \in 0..MinuteTicks
  BY RateConstants DEF TypeOK
<1>1. ASSUME NEW p \in Principals, RequestRedis(p) \/ RequestLost(p)
      PROVE  SeenFits'
  <2>1. /\ Script(p) /\ backend = "redis" /\ backend' = "redis" /\ watch' = watch
        /\ \/ seen' = seen
           \/ seen' = IF watch > 0 /\ ~OverLimit(count'[p])
                       THEN [seen EXCEPT ![p] = @ + 1] ELSE seen
    BY <1>1 DEF RequestRedis, RequestLost, Decide, span
  <2>2. /\ count'[p] = Increment(count[p])
        /\ ttl'[p] = IF ttl[p] = 0 THEN MinuteTicks ELSE ttl[p]
        /\ \A q \in Principals \ {p} : count'[q] = count[q] /\ ttl'[q] = ttl[q]
    BY <2>1 DEF Script, TypeOK, KeyLives
  <2>3. /\ \/ seen'[p] = seen[p]
           \/ seen'[p] = IF watch > 0 /\ ~OverLimit(count'[p]) THEN seen[p] + 1 ELSE seen[p]
        /\ \A q \in Principals \ {p} : seen'[q] = seen[q]
    BY <2>1 DEF TypeOK
  <2>4. Fits(seen[p], watch, ttl[p], count[p]) /\ (ttl[p] = 0 => count[p] = 0)
    BY <2>1 DEF SeenFits, Left, Counted, KeyLives
  <2>5. Fits(seen'[p], watch, ttl'[p], count'[p])
    BY <1>0, <2>2, <2>3, <2>4, FitsRequest, FitsLost
  <2> QED
    BY <2>1, <2>2, <2>3, <2>5 DEF SeenFits, Left, Counted
<1>2. ASSUME NEW p \in Principals, RequestMemory(p) PROVE SeenFits'
  <2> DEFINE counted == [current EXCEPT ![p] = Increment(@)]
  <2>1. current' = counted
    BY <1>2 DEF RequestMemory, Prune
  <2>2. /\ backend = "memory" /\ backend' = "memory" /\ watch' = watch
        /\ UNCHANGED <<phase, count, ttl>>
        /\ seen' = IF watch > 0 /\ ~OverLimit(counted[p])
                    THEN [seen EXCEPT ![p] = @ + 1] ELSE seen
    BY <1>2 DEF RequestMemory, Decide, redis
  <2>3. /\ current'[p] = Increment(current[p])
        /\ \A q \in Principals \ {p} : current'[q] = current[q]
    BY <2>1 DEF TypeOK
  <2>4. /\ seen'[p] = IF watch > 0 /\ ~OverLimit(Increment(current[p]))
                      THEN seen[p] + 1 ELSE seen[p]
        /\ \A q \in Principals \ {p} : seen'[q] = seen[q]
    BY <2>2 DEF TypeOK
  <2> DEFINE l == MinuteTicks - phase
  <2>5. l \in 0..MinuteTicks /\ l # 0
    BY <1>0
  <2>6. Fits(seen[p], watch, l, current[p])
    BY <2>2 DEF SeenFits, Left, Counted
  <2>7. Fits(seen'[p], watch, l, current'[p])
    BY <1>0, <2>3, <2>4, <2>5, <2>6, FitsRequest
  <2> QED
    BY <2>2, <2>3, <2>4, <2>7 DEF SeenFits, Left, Counted
<1>3. ASSUME NEW p \in Principals, RequestUnknown(p) PROVE SeenFits'
  BY <1>3 DEF RequestUnknown, redis, memory, span, KeyLives, SeenFits, Left, Counted
<1>4. CASE Tick
  <2>1. ASSUME NEW p \in Principals
        PROVE  Fits(seen'[p], watch', Left(p)', Counted(p)')
    <3>1. /\ seen'[p] = seen[p] /\ backend' = backend
          /\ watch' = IF watch > 0 THEN watch - 1 ELSE 0
      BY <1>4 DEF Tick
    <3>2. Fits(seen[p], watch, Left(p), Counted(p))
      BY DEF SeenFits
    <3>3. CASE backend = "redis"
      <4>1. /\ ttl'[p] = IF ttl[p] > 0 THEN ttl[p] - 1 ELSE 0
            /\ count'[p] = IF ttl[p] <= 1 THEN 0 ELSE count[p]
        BY <1>4 DEF Tick, ExpireKeys
      <4>2. ttl[p] = 0 => count[p] = 0
        BY DEF KeyLives
      <4>3. /\ ttl[p] > 1 => Fits(seen[p], watch', ttl[p] - 1, count[p])
            /\ ttl[p] <= 1 => Fits(seen[p], watch', 0, 0)
        BY <1>0, <3>1, <3>2, <3>3, <4>2, FitsTick DEF Left, Counted
      <4>4. ttl[p] \in Nat
        BY <1>0
      <4>5. CASE ttl[p] > 1
        BY <3>1, <3>3, <4>1, <4>3, <4>4, <4>5 DEF Left, Counted
      <4>6. CASE ttl[p] <= 1
        <5>1. ttl'[p] = 0 /\ count'[p] = 0
          BY <4>1, <4>4, <4>6
        <5> QED
          BY <3>1, <3>3, <4>3, <4>6, <5>1 DEF Left, Counted
      <4> QED
        BY <4>4, <4>5, <4>6
    <3>4. CASE backend # "redis"
      <4> DEFINE l == MinuteTicks - phase
      <4>1. l \in 0..MinuteTicks /\ l # 0
        BY <1>0
      <4>2. /\ l > 1 => Fits(seen[p], watch', l - 1, current[p])
            /\ l = 1 => Fits(seen[p], watch', MinuteTicks, 0)
        BY <1>0, <3>1, <3>2, <3>4, <4>1, FitsTick DEF Left, Counted
      <4>3. CASE phase + 1 < MinuteTicks
        <5>1. phase' = phase + 1 /\ current' = current
          BY <1>4, <4>3 DEF Tick, TurnMinute
        <5>2. MinuteTicks - phase' = l - 1 /\ l > 1
          BY <1>0, <4>3, <5>1
        <5> QED
          BY <3>1, <3>4, <4>2, <5>1, <5>2 DEF Left, Counted
      <4>4. CASE ~(phase + 1 < MinuteTicks)
        <5>1. phase' = 0 /\ current'[p] = 0
          BY <1>4, <4>4 DEF Tick, TurnMinute
        <5>2. MinuteTicks - phase' = MinuteTicks /\ l = 1
          BY <1>0, <4>4, <5>1
        <5> QED
          BY <3>1, <3>4, <4>2, <5>1, <5>2 DEF Left, Counted
      <4> QED
        BY <4>3, <4>4
    <3> QED
      BY <3>3, <3>4
  <2> QED
    BY <2>1 DEF SeenFits
<1>5. CASE Observe
  <2>1. \A p \in Principals : Fits(0, MinuteTicks, Left(p), Counted(p))
    <3> TAKE p \in Principals
    <3>1. Left(p) \in 0..MinuteTicks /\ Counted(p) \in Counts
      BY <1>0 DEF Left, Counted
    <3> QED
      BY <1>0, <3>1 DEF Fits, Admitted, Counts
  <2> QED
    BY <1>5, <2>1 DEF Observe, redis, memory, KeyLives, SeenFits, Left, Counted
<1>6. CASE UNCHANGED vars
  BY <1>6 DEF vars, redis, memory, span, KeyLives, SeenFits, Left, Counted
<1> QED
  BY <1>1, <1>2, <1>3, <1>4, <1>5, <1>6 DEF Next, Request

-----------------------------------------------------------------------------
(* The dictionary.  The turn of a minute moves entries, a request that adds *)
(* one too many is the request that prunes.                                 *)

LEMMA DictionaryInit == Init => DictionaryBounded
<1> SUFFICES ASSUME Init PROVE Entries <= MaxEntries
  BY DEF DictionaryBounded
<1>1. {p \in Principals : [q \in Principals |-> 0][p] > 0} = {}
  OBVIOUS
<1>2. Used(current) = 0 /\ Used(previous) = 0
  BY <1>1, FS_EmptySet DEF Init, Used
<1> QED
  BY <1>2, RateConstants DEF Init, Entries

LEMMA DictionaryStep ==
    TypeOK /\ DictionaryBounded /\ [Next]_vars => DictionaryBounded'
<1> SUFFICES ASSUME TypeOK, DictionaryBounded, [Next]_vars PROVE DictionaryBounded'
  OBVIOUS
<1>0. /\ Used(current) \in Nat /\ Used(previous) \in Nat /\ older \in Nat
      /\ Cardinality(Principals) \in Nat /\ MaxEntries \in Nat
  BY UsedNat, RateConstants, FS_CardinalityType DEF TypeOK
<1>1. ASSUME NEW p \in Principals, RequestMemory(p) PROVE DictionaryBounded'
  <2> DEFINE counted == [current EXCEPT ![p] = Increment(@)]
  <2>1. Used(counted) \in Nat /\ Used(counted) <= Cardinality(Principals)
    BY UsedNat
  <2>2. Used(previous) <= Cardinality(Principals)
    BY UsedNat
  <2>3. CASE TooLarge(counted)
    <3>1. current' = counted /\ previous' = previous /\ older' = 0
      BY <1>1, <2>3 DEF RequestMemory, Prune
    <3>2. Entries' = Used(counted) + Used(previous)
      BY <1>0, <2>1, <3>1 DEF Entries, Used
    <3> QED
      BY <1>0, <2>1, <2>2, <3>2 DEF DictionaryBounded
  <2>4. CASE ~TooLarge(counted)
    <3>1. current' = counted /\ previous' = previous /\ older' = older
      BY <1>1, <2>4 DEF RequestMemory
    <3>2. Entries' = Used(counted) + Used(previous) + older
      BY <3>1 DEF Entries, Used
    <3>3. ~(Used(counted) + Used(previous) + older > MaxEntries)
      BY <2>4 DEF TooLarge
    <3> QED
      BY <1>0, <2>1, <3>2, <3>3 DEF DictionaryBounded
  <2> QED
    BY <2>3, <2>4
<1>2. CASE Tick
  <2>1. CASE phase + 1 < MinuteTicks
    BY <1>2, <2>1 DEF Tick, TurnMinute, DictionaryBounded, Entries, Used
  <2>2. CASE ~(phase + 1 < MinuteTicks)
    <3>1. /\ current' = [p \in Principals |-> 0] /\ previous' = current
          /\ older' = older + Used(previous)
      BY <1>2, <2>2 DEF Tick, TurnMinute
    <3>2. {p \in Principals : current'[p] > 0} = {}
      BY <3>1
    <3>3. Used(current') = 0
      BY <3>2, FS_EmptySet DEF Used
    <3>4. Entries' = Entries
      BY <1>0, <3>1, <3>3 DEF Entries, Used
    <3> QED
      BY <3>4 DEF DictionaryBounded
  <2> QED
    BY <2>1, <2>2
<1>3. ASSUME UNCHANGED <<current, previous, older>> PROVE DictionaryBounded'
  BY <1>3 DEF DictionaryBounded, Entries, Used
<1>4. ASSUME NEW p \in Principals,
             RequestRedis(p) \/ RequestLost(p) \/ RequestUnknown(p)
      PROVE  UNCHANGED <<current, previous, older>>
  BY <1>4 DEF RequestRedis, RequestLost, RequestUnknown, memory
<1>5. ASSUME Observe \/ UNCHANGED vars
      PROVE  UNCHANGED <<current, previous, older>>
  BY <1>5 DEF Observe, vars, memory
<1> QED
  BY <1>1, <1>2, <1>3, <1>4, <1>5 DEF Next, Request

-----------------------------------------------------------------------------
(* Denials.  A window that is open began with a request that counted, and   *)
(* has not been open for fewer ticks than a principal was denied; when none *)
(* is open, nobody has been denied in this tick yet.                        *)

\* Denied for d ticks on end, the last answer a, in a window that has l ticks
\* left (0 when none is open) and counted c.
Bears(d, a, l, c) ==
    /\ d <= MinuteTicks
    /\ c > 0 => d + l <= MinuteTicks
    /\ c = 0 => a \notin Denials
DenialsFit == \A p \in Principals : Bears(denied[p], answer[p], Left(p), Counted(p))
DenialInv == TypeOK /\ KeyLives /\ (~plain => DenialsFit)

LEMMA WindowTypes ==
    TypeOK => \A p \in Principals : /\ Left(p) \in 0..MinuteTicks /\ Counted(p) \in Counts
                                   /\ denied[p] \in 0..(MinuteTicks + 1)
BY RateConstants DEF TypeOK, Left, Counted

LEMMA DenialInit == Init => DenialInv
<1> SUFFICES ASSUME Init PROVE KeyLives /\ DenialsFit
  BY TypeInit DEF DenialInv
<1> QED
  BY RateConstants DEF Init, KeyLives, DenialsFit, Bears, Left, Counted, Denials

\* A request in an open window, or the one that opens it.
LEMMA BearsRequest ==
    ASSUME NEW d \in 0..(MinuteTicks + 1), NEW l \in 0..MinuteTicks, NEW c \in Counts,
           NEW a, NEW b, Bears(d, a, l, c)
    PROVE  Bears(IF OverLimit(Increment(c)) THEN d ELSE 0, b,
                 IF c = 0 THEN MinuteTicks ELSE l, Increment(c))
BY RateConstants DEF Bears, OverLimit, Increment, Counts

LEMMA DenialStep == DenialInv /\ [Next]_vars => DenialInv'
<1> SUFFICES ASSUME TypeOK, KeyLives, ~plain => DenialsFit, [Next]_vars, ~plain'
             PROVE  DenialsFit'
  BY TypeStep, LivesStep DEF DenialInv
<1>0. /\ ~plain /\ DenialsFit
      /\ MinuteTicks \in Nat \ {0} /\ phase \in 0..(MinuteTicks - 1)
      /\ \A q \in Principals :
            /\ count[q] \in Counts /\ current[q] \in Counts
            /\ ttl[q] \in 0..MinuteTicks /\ denied[q] \in 0..(MinuteTicks + 1)
  <2>1. ~plain
    BY DEF Next, Request, RequestRedis, RequestLost, RequestMemory, RequestUnknown,
           Prune, Tick, TurnMinute, Observe, vars, memory
  <2> QED
    BY <2>1, RateConstants DEF TypeOK
<1> DEFINE Kept(q) == /\ denied'[q] = denied[q] /\ answer'[q] = answer[q]
                      /\ Left(q)' = Left(q) /\ Counted(q)' = Counted(q)
<1>1. ASSUME NEW p \in Principals, RequestRedis(p) \/ RequestLost(p)
      PROVE  DenialsFit'
  <2>1. backend = "redis" /\ backend' = "redis" /\ Script(p)
    BY <1>1 DEF RequestRedis, RequestLost
  <2>2. /\ count'[p] = Increment(count[p])
        /\ ttl'[p] = IF count[p] = 0 THEN MinuteTicks ELSE ttl[p]
        /\ \A q \in Principals \ {p} : count'[q] = count[q] /\ ttl'[q] = ttl[q]
    BY <2>1 DEF Script, TypeOK
  <2>3. /\ denied'[p] = 0 \/ denied'[p] = IF OverLimit(Increment(count[p]))
                                            THEN denied[p] ELSE 0
        /\ \A q \in Principals \ {p} : denied'[q] = denied[q] /\ answer'[q] = answer[q]
    BY <1>1, <2>2 DEF RequestRedis, RequestLost, Decide, TypeOK
  <2>4. Bears(denied[p], answer[p], ttl[p], count[p])
    BY <1>0, <2>1 DEF DenialsFit, Left, Counted
  <2>5. Bears(IF OverLimit(Increment(count[p])) THEN denied[p] ELSE 0, answer'[p],
              ttl'[p], count'[p])
    <3>1. /\ denied[p] \in 0..(MinuteTicks + 1) /\ ttl[p] \in 0..MinuteTicks
          /\ count[p] \in Counts
      BY <1>0
    <3>2. Bears(IF OverLimit(Increment(count[p])) THEN denied[p] ELSE 0, answer'[p],
                IF count[p] = 0 THEN MinuteTicks ELSE ttl[p], Increment(count[p]))
      BY <2>4, <3>1, BearsRequest
    <3> QED
      BY <2>2, <3>2
  <2>6. Bears(denied'[p], answer'[p], ttl'[p], count'[p])
    BY <1>0, <2>2, <2>3, <2>5 DEF Bears, Increment, Counts
  <2> QED
    BY <1>0, <2>1, <2>2, <2>3, <2>6 DEF DenialsFit, Left, Counted
<1>2. ASSUME NEW p \in Principals, RequestMemory(p) PROVE DenialsFit'
  <2> DEFINE counted == [current EXCEPT ![p] = Increment(@)]
  <2>1. current' = counted /\ Decide(p, counted[p])
    BY <1>2 DEF RequestMemory, Prune
  <2>2. backend = "memory" /\ backend' = "memory" /\ phase' = phase
    BY <1>2 DEF RequestMemory
  <2>3. /\ current'[p] = Increment(current[p])
        /\ \A q \in Principals \ {p} : current'[q] = current[q]
    BY <2>1 DEF TypeOK
  <2>4. /\ denied'[p] = IF OverLimit(Increment(current[p])) THEN denied[p] ELSE 0
        /\ \A q \in Principals \ {p} : denied'[q] = denied[q] /\ answer'[q] = answer[q]
    BY <2>1, <2>3 DEF Decide, TypeOK
  <2> DEFINE l == MinuteTicks - phase
  <2>5. l \in 0..MinuteTicks
    BY <1>0
  <2>6. Bears(denied[p], answer[p], l, current[p])
    BY <1>0, <2>2 DEF DenialsFit, Left, Counted
  <2>7. Bears(denied'[p], answer'[p], l, current'[p])
    <3>1. CASE current[p] > 0
      <4>1. Bears(IF OverLimit(Increment(current[p])) THEN denied[p] ELSE 0, answer'[p],
                  IF current[p] = 0 THEN MinuteTicks ELSE l, Increment(current[p]))
        BY <1>0, <2>5, <2>6, BearsRequest
      <4> QED
        BY <1>0, <2>3, <2>4, <3>1, <4>1
    <3>2. CASE current[p] = 0
      <4>1. ~OverLimit(Increment(current[p])) /\ Increment(current[p]) = 1
        BY <3>2, RateConstants DEF OverLimit, Increment
      <4> QED
        BY <1>0, <2>3, <2>4, <2>5, <4>1 DEF Bears
    <3> QED
      BY <1>0, <3>1, <3>2 DEF Counts
  <2> QED
    BY <1>0, <2>2, <2>3, <2>4, <2>7 DEF DenialsFit, Left, Counted
<1>3. ASSUME NEW p \in Principals, RequestUnknown(p) PROVE FALSE
  BY <1>0, <1>3 DEF RequestUnknown
<1>4. CASE Tick
  <2>1. ASSUME NEW p \in Principals
        PROVE  Bears(denied'[p], answer'[p], Left(p)', Counted(p)')
    <3>1. /\ denied'[p] = DeniedLonger(p) /\ answer'[p] = "none" /\ backend' = backend
      BY <1>4 DEF Tick
    <3>2. Bears(denied[p], answer[p], Left(p), Counted(p))
      BY <1>0 DEF DenialsFit
    <3>3. answer'[p] \notin Denials
      BY <3>1 DEF Denials
    <3>4. Left(p) \in 0..MinuteTicks /\ Counted(p) \in Counts /\ denied[p] \in 0..(MinuteTicks + 1)
      BY WindowTypes
    <3>5. /\ denied'[p] \in Nat
          /\ Left(p) > 0 \/ Counted(p) = 0 => denied'[p] <= MinuteTicks
          /\ Left(p) > 0 /\ Counted(p) > 0 => denied'[p] + (Left(p) - 1) <= MinuteTicks
          /\ Counted(p) = 0 => denied'[p] = 0
      BY <1>0, <3>1, <3>2, <3>4 DEF Bears, DeniedLonger, Counts
    <3>6. \/ Counted(p)' = 0
          \/ /\ Counted(p)' = Counted(p) /\ Left(p)' = Left(p) - 1 /\ Left(p) > 0
      <4>1. CASE backend = "redis"
        BY <1>0, <1>4, <3>1, <4>1 DEF Tick, ExpireKeys, Left, Counted
      <4>2. CASE backend # "redis"
        BY <1>0, <1>4, <3>1, <4>2 DEF Tick, TurnMinute, Left, Counted
      <4> QED
        BY <4>1, <4>2
    <3>7. Left(p) > 0 \/ Counted(p) = 0
      BY <1>0, <3>4 DEF Left, Counted, KeyLives
    <3> QED
      BY <1>0, <3>3, <3>4, <3>5, <3>6, <3>7 DEF Bears, Counts
  <2> QED
    BY <2>1 DEF DenialsFit
<1>5. CASE Observe
  BY <1>0, <1>5 DEF Observe, redis, memory, DenialsFit, Left, Counted
<1>6. CASE UNCHANGED vars
  BY <1>0, <1>6 DEF vars, redis, memory, DenialsFit, Left, Counted
<1> QED
  BY <1>1, <1>2, <1>3, <1>4, <1>5, <1>6 DEF Next, Request

-----------------------------------------------------------------------------
\* The windows and counts keep their types.
THEOREM RateTypes == Spec => []TypeOK
BY TypeInit, TypeStep, PTL DEF Spec

\* Whatever backend, principals and limit: no minute sees more than twice the
\* limit of one principal's requests admitted.
THEOREM MinutesAreLimited == Spec => []AtMostTwiceTheLimit
<1>1. WindowInv => AtMostTwiceTheLimit
  BY DEF WindowInv, SeenFits, Fits, AtMostTwiceTheLimit
<1> QED
  BY WindowInit, WindowStep, <1>1, PTL DEF Spec

\* Whatever backend, principals and limit: a principal that asks in every tick
\* is denied for a minute at most, until the dictionary is pruned.
THEOREM RefusalsEnd == Spec => []DeniedAMinuteAtMost
<1>1. DenialInv => DeniedAMinuteAtMost
  BY DEF DenialInv, DenialsFit, Bears, DeniedAMinuteAtMost
<1> QED
  BY DenialInit, DenialStep, <1>1, PTL DEF Spec

\* The dictionary of the memory backend stays within its bound, or within two
\* entries for each principal, whatever the traffic.
THEOREM MemoryIsBounded == Spec => []DictionaryBounded
BY TypeInit, TypeStep, DictionaryInit, DictionaryStep, PTL DEF Spec
=============================================================================

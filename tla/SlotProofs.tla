----------------------------- MODULE SlotProofs ------------------------------
(* Proofs about JobLifecycle while nothing happened that the slot counter   *)
(* does not survive (Disturb): jobs then pass their statuses in order, and  *)
(* the tenant's counter is the number of those that owe a release.          *)
EXTENDS JobLifecycleProofs, FiniteSetTheorems

-----------------------------------------------------------------------------
(* The order.  A worker that processes a job is alone with it, and so is    *)
(* the one that writes the status of its dead letter; what the queue says   *)
(* of the job, what its record says and how far that worker is fit.         *)

Early == {"load", "mark", "run", "fail", "failset", "store", "finish"}
Off(j, w) == \A v \in Workers \ {w} : wpc[v] = "idle" \/ wjob[v] # j

\* st, pl, at: status, place and attempt of a job; p, a: a worker's call and attempt.
WorkerFits(st, pl, at, p, a) ==
    /\ p \in Processing => pl = "inflight" /\ at = a
    /\ p \in Reconciling => pl \in {"dead", "done"}
    /\ p \in Early \cup {"rset"} => st \in Unsettled
    /\ p \in {"free", "ack", "rfree", "remove"} => st \in Settled
    /\ p = "retry" => st \in Unsettled \/ Exhausted(a)
JobFits(st, pl) ==
    /\ pl = "absent" => st \in {"absent", "pending"}
    /\ pl = "ready" => st \in Unsettled
    /\ pl = "done" => st \in Settled

WorkerOrder(w) ==
    /\ wpc[w] # "idle" =>
           WorkerFits(status[wjob[w]], place[wjob[w]], attempt[wjob[w]], wpc[w], watt[w])
    /\ wpc[w] \in Processing \cup {"rset"} => Off(wjob[w], w)
    /\ \A v \in Workers : wpc[v] = "rfree" /\ wpc[w] = "rfree" /\ wjob[v] = wjob[w] => v = w
JobOrder(j) ==
    /\ JobFits(status[j], place[j])
    /\ place[j] = "inflight" /\ status[j] \in Settled =>
           \/ Exhausted(attempt[j])
           \/ \E w \in Workers : wjob[w] = j /\ wpc[w] \in {"free", "ack"}
ReplicaOrder(r) == rpc[r] \in {"approve", "reject"} => status[rjob[r]] \in Settled
Orderly ==
    /\ \A w \in Workers : WorkerOrder(w)
    /\ \A j \in Jobs : JobOrder(j)
    /\ \A r \in Replicas : ReplicaOrder(r)

Holding == {r \in Replicas : HoldsSlot(r)}
Owing == {j \in Jobs : OwesSlot(j)}
Counted == slots = Cardinality(Holding) + Cardinality(Owing)
SlotInv == QueueInv /\ (~disturbed => Orderly /\ Counted)

-----------------------------------------------------------------------------
(* Counting.                                                                *)

LEMMA SlotSets ==
    /\ IsFiniteSet(Holding) /\ IsFiniteSet(Owing)
    /\ Cardinality(Holding) \in Nat /\ Cardinality(Owing) \in Nat
    /\ IsFiniteSet(Holding') /\ IsFiniteSet(Owing')
    /\ Cardinality(Holding') \in Nat /\ Cardinality(Owing') \in Nat
<1>1. /\ Holding \subseteq Replicas /\ Owing \subseteq Jobs
      /\ Holding' \subseteq Replicas /\ Owing' \subseteq Jobs
  BY DEF Holding, Owing
<1> QED
  BY <1>1, FinitenessAssumption, FS_Subset, FS_CardinalityType

\* A release by one that is counted takes exactly its slot away.
LEMMA ReleaseCounts ==
    ASSUME NEW A, NEW B, IsFiniteSet(A), IsFiniteSet(B), NEW x \in A,
           slots = Cardinality(A) + Cardinality(B), ReleaseSlot
    PROVE  slots' = Cardinality(A \ {x}) + Cardinality(B)
<1>1. /\ Cardinality(A \ {x}) = Cardinality(A) - 1 /\ IsFiniteSet(A \ {x})
      /\ Cardinality(A) \in Nat /\ Cardinality(B) \in Nat
  BY FS_RemoveElement, FS_CardinalityType
<1>2. Cardinality(A \ {x}) \in Nat
  BY <1>1, FS_CardinalityType
<1>3. slots >= 1 /\ slots \in Nat
  BY <1>1, <1>2
<1>4. slots' = slots - 1
  BY <1>3 DEF ReleaseSlot
<1> QED
  BY <1>1, <1>4

\* A step that concerns job j and worker w only.
Only(w, j) ==
    /\ \A v \in Workers \ {w} : wpc'[v] = wpc[v] /\ wjob'[v] = wjob[v] /\ watt'[v] = watt[v]
    /\ \A k \in Jobs \ {j} :
           status'[k] = status[k] /\ place'[k] = place[k] /\ attempt'[k] = attempt[k]
    /\ wpc[w] = "idle" \/ wjob[w] = j
    /\ wpc'[w] = "idle" \/ wjob'[w] = j
    /\ UNCHANGED <<rpc, rjob>>

\* Whether a job owes a slot, told from its status and its only worker.
Owes(st, p, a) ==
    IF st \in Unsettled THEN ~(p = "failset" /\ Exhausted(a)) ELSE p \in {"free", "rfree"}

LEMMA OwesElsewhere ==
    ASSUME NEW w \in Workers, NEW j \in Jobs, Only(w, j)
    PROVE  /\ Holding' = Holding
           /\ \A k \in Jobs \ {j} : OwesSlot(k)' <=> OwesSlot(k)
<1>1. Holding' = Holding
  BY DEF Only, Holding, HoldsSlot
<1>2. ASSUME NEW k \in Jobs \ {j} PROVE OwesSlot(k)' <=> OwesSlot(k)
  BY <1>2 DEF Only, OwesSlot
<1> QED
  BY <1>1, <1>2

LEMMA OwesAlone ==
    ASSUME NEW w \in Workers, NEW j \in Jobs, Only(w, j), Off(j, w)
    PROVE  /\ OwesSlot(j) <=> Owes(status[j], wpc[w], watt[w])
           /\ OwesSlot(j)' <=> Owes(status'[j], wpc'[w], watt'[w])
<1>1. OwesSlot(j) <=> Owes(status[j], wpc[w], watt[w])
  BY DEF Only, Off, OwesSlot, Owes
<1>2. OwesSlot(j)' <=> Owes(status'[j], wpc'[w], watt'[w])
  BY DEF Only, Off, OwesSlot, Owes
<1> QED
  BY <1>1, <1>2

\* A job and the worker that is alone with it take a step.
LEMMA AloneStep ==
    ASSUME TypeInv, Orderly, Counted, NEW w \in Workers, NEW j \in Jobs,
           Only(w, j), Off(j, w),
           wpc'[w] # "idle" =>
               WorkerFits(status'[j], place'[j], attempt'[j], wpc'[w], watt'[w]),
           JobFits(status'[j], place'[j]),
           place'[j] = "inflight" /\ status'[j] \in Settled =>
               Exhausted(attempt'[j]) \/ wpc'[w] \in {"free", "ack"},
           status[j] \in Settled => status'[j] \in Settled,
           \/ /\ slots' = slots
              /\ Owes(status'[j], wpc'[w], watt'[w]) <=> Owes(status[j], wpc[w], watt[w])
           \/ /\ ReleaseSlot
              /\ Owes(status[j], wpc[w], watt[w]) /\ ~Owes(status'[j], wpc'[w], watt'[w])
    PROVE  Orderly' /\ Counted'
<1>t. /\ \A v \in Workers : wpc[v] # "idle" => wjob[v] \in Jobs
      /\ \A r \in Replicas : rpc[r] # "idle" => rjob[r] \in Jobs
      /\ "idle" \notin Processing /\ "idle" \notin Reconciling /\ "rset" \in Reconciling
  BY DEF TypeInv, CarriesJob, Processing, Reconciling
<1>1. ASSUME NEW v \in Workers PROVE WorkerOrder(v)'
  <2>1. CASE v = w
    <3>1. CASE wpc'[w] = "idle"
      BY <1>t, <2>1, <3>1 DEF WorkerOrder
    <3>2. CASE wpc'[w] # "idle"
      <4>1. wjob'[w] = j
        BY <3>2 DEF Only
      <4>2. \A u \in Workers \ {w} : wpc'[u] = "idle" \/ wjob'[u] # j
        BY DEF Only, Off
      <4> QED
        BY <2>1, <3>2, <4>1, <4>2 DEF WorkerOrder, Off
    <3> QED
      BY <3>1, <3>2
  <2>2. CASE v # w /\ wpc[v] = "idle"
    <3>1. wpc'[v] = "idle"
      BY <2>2 DEF Only
    <3> QED
      BY <1>t, <3>1 DEF WorkerOrder
  <2>3. CASE v # w /\ wpc[v] # "idle"
    <3>1. /\ wpc'[v] = wpc[v] /\ wjob'[v] = wjob[v] /\ watt'[v] = watt[v]
          /\ wjob[v] \in Jobs \ {j}
      BY <1>t, <2>3 DEF Only, Off
    <3>2. /\ status'[wjob[v]] = status[wjob[v]] /\ place'[wjob[v]] = place[wjob[v]]
          /\ attempt'[wjob[v]] = attempt[wjob[v]]
      BY <3>1 DEF Only
    <3>3. ASSUME NEW u \in Workers PROVE
              \/ wpc'[u] = wpc[u] /\ wjob'[u] = wjob[u]
              \/ wpc'[u] = "idle" \/ wjob'[u] # wjob[v]
      BY <3>1 DEF Only
    <3>4. WorkerOrder(v)
      BY DEF Orderly
    <3>5. wpc'[v] # "idle" =>
            WorkerFits(status[wjob[v]], place[wjob[v]], attempt[wjob[v]], wpc[v], watt[v])
      BY <3>1, <3>4 DEF WorkerOrder
    <3>6. wpc[v] \in Processing \cup {"rset"} =>
            \A u \in Workers \ {v} : wpc'[u] = "idle" \/ wjob'[u] # wjob[v]
      BY <3>3, <3>4 DEF WorkerOrder, Off
    <3>7. \A u \in Workers :
            wpc'[u] = "rfree" /\ wpc[v] = "rfree" /\ wjob'[u] = wjob[v] => u = v
      BY <3>3, <3>4 DEF WorkerOrder
    <3> QED
      BY <3>1, <3>2, <3>5, <3>6, <3>7 DEF WorkerOrder, Off
  <2> QED
    BY <2>1, <2>2, <2>3
<1>2. ASSUME NEW k \in Jobs PROVE JobOrder(k)'
  <2>1. CASE k = j
    <3>1. wpc'[w] \in {"free", "ack"} => wjob'[w] = j
      BY DEF Only
    <3> QED
      BY <2>1, <3>1 DEF JobOrder
  <2>2. CASE k # j
    <3>1. \A u \in Workers : wjob[u] = k /\ wpc[u] \in {"free", "ack"} =>
                             wjob'[u] = k /\ wpc'[u] \in {"free", "ack"}
      BY <2>2 DEF Only
    <3>2. status'[k] = status[k] /\ place'[k] = place[k] /\ attempt'[k] = attempt[k]
      BY <2>2 DEF Only
    <3> QED
      BY <3>1, <3>2 DEF Orderly, JobOrder
  <2> QED
    BY <2>1, <2>2
<1>3. ASSUME NEW r \in Replicas PROVE ReplicaOrder(r)'
  <2>1. rpc[r] # "idle" => rjob[r] \in Jobs
    BY <1>t
  <2>2. ReplicaOrder(r) /\ rpc'[r] = rpc[r] /\ rjob'[r] = rjob[r]
    BY DEF Orderly, Only
  <2> QED
    BY <2>1, <2>2 DEF ReplicaOrder, Only
<1>4. Counted'
  <2>1. /\ Holding' = Holding
        /\ \A k \in Jobs \ {j} : OwesSlot(k)' <=> OwesSlot(k)
        /\ OwesSlot(j) <=> Owes(status[j], wpc[w], watt[w])
        /\ OwesSlot(j)' <=> Owes(status'[j], wpc'[w], watt'[w])
    BY OwesElsewhere, OwesAlone
  <2>2. CASE slots' = slots /\ (OwesSlot(j)' <=> OwesSlot(j))
    <3>1. Owing' = Owing
      BY <2>1, <2>2 DEF Owing
    <3> QED
      BY <2>1, <2>2, <3>1 DEF Counted
  <2>3. CASE ReleaseSlot /\ OwesSlot(j) /\ ~OwesSlot(j)'
    <3>1. Owing' = Owing \ {j} /\ j \in Owing
      BY <2>1, <2>3 DEF Owing
    <3>2. slots = Cardinality(Owing) + Cardinality(Holding)
      BY SlotSets DEF Counted
    <3>3. slots' = Cardinality(Owing \ {j}) + Cardinality(Holding)
      BY <2>3, <3>1, <3>2, SlotSets, ReleaseCounts
    <3> QED
      BY <2>1, <3>1, <3>3, SlotSets DEF Counted
  <2> QED
    BY <2>1, <2>2, <2>3
<1> QED
  BY <1>1, <1>2, <1>3, <1>4 DEF Orderly

\* What the order says of a worker that is alone with its job.
LEMMA AloneBefore ==
    ASSUME TypeInv, Orderly, NEW w \in Workers, wpc[w] \in Processing \cup {"rset"}
    PROVE  \E j \in Jobs :
              /\ j = wjob[w] /\ Off(j, w)
              /\ WorkerFits(status[j], place[j], attempt[j], wpc[w], watt[w])
BY DEF TypeInv, CarriesJob, Orderly, WorkerOrder, Processing

-----------------------------------------------------------------------------
(* Workers on a dead letter beside each other: one writes its status, any   *)
(* number remove it.                                                        *)

Beside(w, j) ==
    /\ Only(w, j) /\ UNCHANGED <<status, attempt>>
    /\ place[j] \in {"dead", "done"} /\ place'[j] \in {place[j], "done"}
    /\ place'[j] = "done" => status[j] \in Settled
    /\ wpc[w] \in {"idle", "rfree", "remove"}
    /\ wpc'[w] \in {"idle", "remove", "rset"}
    /\ wpc'[w] = "remove" => status[j] \in Settled
    /\ wpc'[w] = "rset" => /\ status[j] \in Unsettled
                           /\ \A v \in Workers \ {w} : wpc[v] = "rset" => wjob[v] # j

LEMMA BesideStep ==
    ASSUME TypeInv, Orderly, Counted, NEW w \in Workers, NEW j \in Jobs, Beside(w, j),
           IF wpc[w] = "rfree" THEN ReleaseSlot ELSE slots' = slots
    PROVE  Orderly' /\ Counted'
<1>t. /\ \A v \in Workers : wpc[v] # "idle" => wjob[v] \in Jobs
      /\ \A v \in Workers : wpc[v] \in {"idle"} \cup Processing \cup Reconciling
      /\ \A r \in Replicas : rpc[r] # "idle" => rjob[r] \in Jobs
  BY DEF TypeInv, TypeOK, CarriesJob
<1>b. /\ \A v \in Workers \ {w} : wpc'[v] = wpc[v] /\ wjob'[v] = wjob[v] /\ watt'[v] = watt[v]
      /\ \A k \in Jobs \ {j} : place'[k] = place[k]
      /\ wpc[w] # "idle" => wjob[w] = j
      /\ wpc'[w] # "idle" => wjob'[w] = j
      /\ UNCHANGED <<rpc, rjob, status, attempt>>
  BY DEF Beside, Only
<1>p. \A v \in Workers : wpc[v] \in Processing => wjob[v] # j
  BY DEF Orderly, WorkerOrder, WorkerFits, Beside, Processing
<1> USE DEF Processing, Reconciling, Early
<1>1. ASSUME NEW v \in Workers PROVE WorkerOrder(v)'
  <2>w. CASE v = w
    <3>1. CASE wpc'[w] = "idle"
      BY <2>w, <3>1 DEF WorkerOrder
    <3>2. CASE wpc'[w] = "remove"
      <4>1. WorkerFits(status[j], place'[j], attempt[j], "remove", watt'[w])
        BY <3>2 DEF Beside, WorkerFits
      <4> QED
        BY <1>b, <2>w, <3>2, <4>1 DEF WorkerOrder
    <3>3. CASE wpc'[w] = "rset"
      <4>1. WorkerFits(status[j], place'[j], attempt[j], "rset", watt'[w])
        BY <3>3 DEF Beside, WorkerFits
      <4>2. ASSUME NEW u \in Workers \ {w}, wpc[u] # "idle" PROVE wjob[u] # j
        <5>1. status[j] \notin Settled
          BY <3>3 DEF Beside, Unsettled, Settled
        <5>2. wpc[u] \in {"rfree", "remove"} => wjob[u] # j
          BY <4>2, <5>1 DEF Orderly, WorkerOrder, WorkerFits
        <5>3. wpc[u] \in Processing \cup {"rset"} => wjob[u] # j
          BY <1>p, <3>3 DEF Beside
        <5> QED
          BY <1>t, <4>2, <5>2, <5>3
      <4>3. \A u \in Workers \ {w} : wpc'[u] = "idle" \/ wjob'[u] # j
        BY <1>b, <4>2
      <4> QED
        BY <1>b, <2>w, <3>3, <4>1, <4>3 DEF WorkerOrder, Off
    <3> QED
      BY <3>1, <3>2, <3>3 DEF Beside
  <2>v. CASE v # w
    <3>1. /\ WorkerOrder(v)
          /\ wpc'[v] = wpc[v] /\ wjob'[v] = wjob[v] /\ watt'[v] = watt[v]
      BY <1>b, <2>v DEF Orderly
    <3>2. CASE wpc[v] = "idle"
      BY <3>1, <3>2 DEF WorkerOrder
    <3>3. CASE wpc[v] # "idle"
      <4>1. WorkerFits(status[wjob[v]], place'[wjob[v]], attempt[wjob[v]], wpc[v], watt[v])
        <5>1. WorkerFits(status[wjob[v]], place[wjob[v]], attempt[wjob[v]], wpc[v], watt[v])
          BY <3>1, <3>3 DEF WorkerOrder
        <5>2. CASE wjob[v] = j
          BY <1>p, <5>1, <5>2 DEF WorkerFits, Beside
        <5>3. CASE wjob[v] # j
          BY <1>b, <1>t, <3>3, <5>1, <5>3
        <5> QED
          BY <5>2, <5>3
      <4>2. wpc[v] \in Processing \cup {"rset"} => wpc'[w] = "idle" \/ wjob'[w] # wjob[v]
        <5>1. CASE wjob[v] # j
          BY <1>b, <5>1
        <5>2. CASE wjob[v] = j /\ wpc[v] = "rset"
          <6>1. status[j] \notin Settled
            BY <3>1, <5>2 DEF WorkerOrder, WorkerFits, Unsettled, Settled
          <6> QED
            BY <2>v, <5>2, <6>1 DEF Beside
        <5> QED
          BY <1>p, <5>1, <5>2
      <4>3. wpc[v] \in Processing \cup {"rset"} => Off(wjob[v], v)'
        BY <1>b, <2>v, <3>1, <4>2 DEF WorkerOrder, Off
      <4>4. \A u \in Workers :
              wpc'[u] = "rfree" /\ wpc[v] = "rfree" /\ wjob'[u] = wjob[v] => u = v
        BY <1>b, <3>1 DEF WorkerOrder, Beside
      <4> QED
        BY <1>b, <3>1, <4>1, <4>3, <4>4 DEF WorkerOrder, Off
    <3> QED
      BY <3>2, <3>3
  <2> QED
    BY <2>w, <2>v
<1>2. ASSUME NEW k \in Jobs PROVE JobOrder(k)'
  <2>1. CASE k = j
    BY <2>1 DEF Beside, JobOrder, JobFits
  <2>2. CASE k # j
    <3>1. \A u \in Workers : wpc[u] \in {"free", "ack"} => wpc'[u] = wpc[u] /\ wjob'[u] = wjob[u]
      BY <1>b DEF Beside
    <3>2. place'[k] = place[k] /\ JobOrder(k)
      BY <1>b, <2>2 DEF Orderly
    <3> QED
      BY <1>b, <3>1, <3>2 DEF JobOrder
  <2> QED
    BY <2>1, <2>2
<1>3. ASSUME NEW r \in Replicas PROVE ReplicaOrder(r)'
  BY <1>b DEF Orderly, ReplicaOrder
<1>4. Counted'
  <2>1. Holding' = Holding /\ \A k \in Jobs \ {j} : OwesSlot(k)' <=> OwesSlot(k)
    BY OwesElsewhere DEF Beside
  <2>2. CASE wpc[w] # "rfree"
    <3>1. OwesSlot(j)' <=> OwesSlot(j)
      BY <1>b, <2>2 DEF OwesSlot, Beside
    <3>2. Owing' = Owing
      BY <2>1, <3>1 DEF Owing
    <3> QED
      BY <2>1, <2>2, <3>2 DEF Counted
  <2>3. CASE wpc[w] = "rfree"
    <3>1. status[j] \in Settled /\ status[j] \notin Unsettled /\ WorkerOrder(w)
      BY <1>b, <2>3 DEF Orderly, WorkerOrder, WorkerFits, Settled, Unsettled
    <3>2. OwesSlot(j)
      BY <1>b, <2>3, <3>1 DEF OwesSlot
    <3>3. ASSUME NEW v \in Workers, wjob'[v] = j PROVE wpc'[v] \notin {"free", "rfree"}
      <4>1. CASE v = w
        BY <4>1 DEF Beside
      <4>2. CASE v # w
        BY <1>b, <1>p, <2>3, <3>1, <3>3, <4>2 DEF WorkerOrder
      <4> QED
        BY <4>1, <4>2
    <3>4. ~OwesSlot(j)'
      BY <1>b, <3>1, <3>3 DEF OwesSlot
    <3>5. Owing' = Owing \ {j} /\ j \in Owing
      BY <2>1, <3>2, <3>4 DEF Owing
    <3>6. slots = Cardinality(Owing) + Cardinality(Holding)
      BY SlotSets DEF Counted
    <3>7. slots' = Cardinality(Owing \ {j}) + Cardinality(Holding)
      BY <2>3, <3>5, <3>6, SlotSets, ReleaseCounts
    <3> QED
      BY <2>1, <3>5, <3>7, SlotSets DEF Counted
  <2> QED
    BY <2>2, <2>3
<1> QED
  BY <1>1, <1>2, <1>3, <1>4 DEF Orderly

-----------------------------------------------------------------------------
(* Replicas.                                                                *)

\* A handler's call that touches no job.
Apart(r) ==
    /\ UNCHANGED <<status, place, attempt, wpc, wjob, watt>>
    /\ \A q \in Replicas \ {r} : rpc'[q] = rpc[q] /\ rjob'[q] = rjob[q]

LEMMA ApartStep ==
    ASSUME TypeInv, Orderly, Counted, NEW r \in Replicas, Apart(r), ReplicaOrder(r)',
           \/ slots' = slots /\ (HoldsSlot(r)' <=> HoldsSlot(r))
           \/ slots' = slots + 1 /\ HoldsSlot(r)' /\ ~HoldsSlot(r)
           \/ ReleaseSlot /\ ~HoldsSlot(r)' /\ HoldsSlot(r)
    PROVE  Orderly' /\ Counted'
<1>1. Orderly'
  <2>1. \A w \in Workers : WorkerOrder(w)'
    BY DEF Apart, Orderly, WorkerOrder, Off
  <2>2. \A j \in Jobs : JobOrder(j)'
    BY DEF Apart, Orderly, JobOrder
  <2>3. \A q \in Replicas : ReplicaOrder(q)'
    BY DEF Apart, Orderly, ReplicaOrder
  <2> QED
    BY <2>1, <2>2, <2>3 DEF Orderly
<1>2. Owing' = Owing
  BY DEF Apart, Owing, OwesSlot
<1>3. \A q \in Replicas \ {r} : HoldsSlot(q)' <=> HoldsSlot(q)
  BY DEF Apart, HoldsSlot
<1>4. CASE slots' = slots /\ (HoldsSlot(r)' <=> HoldsSlot(r))
  <2>1. Holding' = Holding
    BY <1>3, <1>4 DEF Holding
  <2> QED
    BY <1>1, <1>2, <1>4, <2>1 DEF Counted
<1>5. CASE slots' = slots + 1 /\ HoldsSlot(r)' /\ ~HoldsSlot(r)
  <2>1. Holding' = Holding \cup {r} /\ r \notin Holding
    BY <1>3, <1>5 DEF Holding
  <2>2. Cardinality(Holding') = Cardinality(Holding) + 1
    BY <2>1, SlotSets, FS_AddElement
  <2> QED
    BY <1>1, <1>2, <1>5, <2>2, SlotSets DEF Counted
<1>6. CASE ReleaseSlot /\ ~HoldsSlot(r)' /\ HoldsSlot(r)
  <2>1. Holding' = Holding \ {r} /\ r \in Holding
    BY <1>3, <1>6 DEF Holding
  <2>2. slots' = Cardinality(Holding \ {r}) + Cardinality(Owing)
    BY <1>6, <2>1, SlotSets, ReleaseCounts DEF Counted
  <2> QED
    BY <1>1, <1>2, <2>1, <2>2 DEF Counted
<1> QED
  BY <1>4, <1>5, <1>6

-----------------------------------------------------------------------------
(* Steps of a worker that is alone with its job.                            *)

LEMMA AloneMoves ==
    ASSUME TypeInv, Orderly, Counted, NEW w \in Workers,
           wpc[w] \in Processing \cup {"rset"},
           \/ Load(w) \/ Mark(w) \/ Research(w) \/ FailRelease(w) \/ FailSet(w)
           \/ StoreResult(w) \/ Finish(w) \/ Free(w) \/ Ack(w) \/ Retry(w) \/ SetDead(w)
           \/ WorkerError(w) /\ ~InSettling(w)
           \/ WorkerCrash(w) /\ ~InSettling(w)
    PROVE  Orderly' /\ Counted'
<1>j. PICK j \in Jobs :
          /\ j = wjob[w] /\ Off(j, w)
          /\ WorkerFits(status[j], place[j], attempt[j], wpc[w], watt[w])
  BY AloneBefore
<1>k. /\ JobFits(status[j], place[j])
      /\ place[j] = "inflight" /\ status[j] \in Settled =>
             Exhausted(attempt[j]) \/ wpc[w] \in {"free", "ack"}
  BY <1>j DEF Orderly, JobOrder, Off
<1>t. /\ status \in [Jobs -> Statuses] /\ attempt \in [Jobs -> Nat]
      /\ place \in [Jobs -> {"absent", "ready", "inflight", "dead", "done"}]
      /\ wpc \in [Workers -> {"idle"} \cup Processing \cup Reconciling]
      /\ wjob \in [Workers -> Jobs \cup {NoJob}] /\ watt \in [Workers -> Nat]
  BY DEF TypeInv, TypeOK
<1> USE DEF store, tenant, queue, replica, worker, answers, failures,
            Only, SaveStatus, Proceed, Rest,
            WorkerFits, JobFits, Owes, Unsettled, Settled, Processing, Reconciling, Early
<1>1. CASE Load(w)
  <2>1. Only(w, j) /\ UNCHANGED <<status, place, attempt, slots>>
    BY <1>j, <1>t, <1>1 DEF Load
  <2>2. wpc[w] = "load" /\ wpc'[w] = "mark" /\ watt'[w] = watt[w]
    BY <1>t, <1>1 DEF Load
  <2> QED
    BY <1>j, <1>k, <2>1, <2>2, AloneStep
<1>2. CASE Mark(w)
  <2>1. Only(w, j) /\ UNCHANGED <<place, attempt, slots>>
    BY <1>j, <1>t, <1>2 DEF Mark
  <2>2. wpc[w] = "mark" /\ wpc'[w] = "run" /\ watt'[w] = watt[w] /\ status'[j] = "running"
    BY <1>j, <1>t, <1>2 DEF Mark
  <2> QED
    BY <1>j, <1>k, <2>1, <2>2, AloneStep
<1>3. CASE Research(w)
  <2>1. Only(w, j) /\ UNCHANGED <<status, place, attempt, slots>>
    BY <1>j, <1>t, <1>3 DEF Research
  <2>2. wpc[w] = "run" /\ wpc'[w] \in {"store", "fail"} /\ watt'[w] = watt[w]
    BY <1>t, <1>3 DEF Research
  <2> QED
    BY <1>j, <1>k, <2>1, <2>2, AloneStep
<1>4. CASE FailRelease(w)
  <2>1. Only(w, j) /\ UNCHANGED <<status, place, attempt>>
    BY <1>j, <1>t, <1>4 DEF FailRelease
  <2>2. wpc[w] = "fail" /\ wpc'[w] = "failset" /\ watt'[w] = watt[w]
    BY <1>t, <1>4 DEF FailRelease
  <2>3. IF Exhausted(watt[w]) THEN ReleaseSlot ELSE slots' = slots
    BY <1>4 DEF FailRelease
  <2> QED
    BY <1>j, <1>k, <2>1, <2>2, <2>3, AloneStep
<1>5. CASE FailSet(w)
  <2>1. Only(w, j) /\ UNCHANGED <<place, attempt, slots>>
    BY <1>j, <1>t, <1>5 DEF FailSet
  <2>2. /\ wpc[w] = "failset" /\ wpc'[w] = "retry" /\ watt'[w] = watt[w]
        /\ status'[j] = IF Exhausted(watt[w]) THEN "failed" ELSE "retrying"
    BY <1>j, <1>t, <1>5 DEF FailSet
  <2> QED
    BY <1>j, <1>k, <2>1, <2>2, AloneStep
<1>6. CASE StoreResult(w)
  <2>1. Only(w, j) /\ UNCHANGED <<status, place, attempt, slots>>
    BY <1>j, <1>t, <1>6 DEF StoreResult
  <2>2. wpc[w] = "store" /\ wpc'[w] = "finish" /\ watt'[w] = watt[w]
    BY <1>t, <1>6 DEF StoreResult
  <2> QED
    BY <1>j, <1>k, <2>1, <2>2, AloneStep
<1>7. CASE Finish(w)
  <2>1. Only(w, j) /\ UNCHANGED <<place, attempt, slots>>
    BY <1>j, <1>t, <1>7 DEF Finish
  <2>2. /\ wpc[w] = "finish" /\ wpc'[w] = "free" /\ watt'[w] = watt[w]
        /\ status'[j] \in {"awaiting_approval", "completed"}
    BY <1>j, <1>t, <1>7 DEF Finish
  <2> QED
    BY <1>j, <1>k, <2>1, <2>2, AloneStep
<1>8. CASE Free(w)
  <2>1. Only(w, j) /\ UNCHANGED <<status, place, attempt>> /\ ReleaseSlot
    BY <1>j, <1>t, <1>8 DEF Free
  <2>2. wpc[w] = "free" /\ wpc'[w] = "ack" /\ watt'[w] = watt[w]
    BY <1>t, <1>8 DEF Free
  <2> QED
    BY <1>j, <1>k, <2>1, <2>2, AloneStep
<1>9. CASE Ack(w)
  <2>1. Only(w, j) /\ UNCHANGED <<status, attempt, slots>>
    BY <1>j, <1>t, <1>9 DEF Ack
  <2>2. wpc[w] = "ack" /\ wpc'[w] = "idle" /\ place'[j] = "done"
    BY <1>j, <1>t, <1>9 DEF Ack
  <2> QED
    BY <1>j, <1>k, <2>1, <2>2, AloneStep
<1>10. CASE Retry(w)
  <2>1. Only(w, j) /\ UNCHANGED <<status, slots>>
    BY <1>j, <1>t, <1>10 DEF Retry
  <2>2. /\ wpc[w] = "retry" /\ wpc'[w] = "idle" /\ attempt'[j] = watt[w]
        /\ place'[j] = IF Exhausted(watt[w]) THEN "dead" ELSE "ready"
    BY <1>j, <1>t, <1>10 DEF Retry
  <2> QED
    BY <1>j, <1>k, <1>t, <2>1, <2>2, AloneStep DEF Statuses
<1>11. CASE SetDead(w)
  <2>1. Only(w, j) /\ UNCHANGED <<place, attempt, slots>>
    BY <1>j, <1>t, <1>11 DEF SetDead
  <2>2. /\ wpc[w] = "rset" /\ wpc'[w] = "rfree" /\ watt'[w] = watt[w]
        /\ status'[j] = "failed"
    BY <1>j, <1>t, <1>11 DEF SetDead
  <2> QED
    BY <1>j, <1>k, <2>1, <2>2, AloneStep
<1>12. CASE WorkerError(w) /\ ~InSettling(w)
  <2>1. Only(w, j) /\ UNCHANGED <<status, place, attempt, slots>>
    BY <1>j, <1>t, <1>12 DEF WorkerError
  <2>2. /\ wpc[w] \in Early /\ (wpc[w] = "failset" => ~Exhausted(watt[w]))
        /\ wpc'[w] = "retry" /\ watt'[w] = watt[w]
    BY <1>t, <1>12 DEF WorkerError, InSettling
  <2> QED
    BY <1>j, <1>k, <2>1, <2>2, AloneStep
<1>13. CASE WorkerCrash(w) /\ ~InSettling(w)
  <2>1. Only(w, j) /\ UNCHANGED <<status, place, attempt, slots>>
    BY <1>j, <1>t, <1>13 DEF WorkerCrash
  <2>2. /\ wpc[w] \in Early \cup {"retry", "rset"}
        /\ wpc[w] = "failset" => ~Exhausted(watt[w])
        /\ wpc'[w] = "idle"
    BY <1>t, <1>13 DEF WorkerCrash, InSettling
  <2> QED
    BY <1>j, <1>k, <1>t, <2>1, <2>2, AloneStep DEF Statuses
<1> QED
  BY <1>1, <1>2, <1>3, <1>4, <1>5, <1>6, <1>7, <1>8, <1>9, <1>10, <1>11, <1>12, <1>13

LEMMA ClaimMove ==
    ASSUME TypeInv, Orderly, Counted, NEW w \in Workers, NEW j \in Jobs, Claim(w, j)
    PROVE  Orderly' /\ Counted'
<1>t. /\ status \in [Jobs -> Statuses] /\ attempt \in [Jobs -> Nat]
      /\ place \in [Jobs -> {"absent", "ready", "inflight", "dead", "done"}]
      /\ wpc \in [Workers -> {"idle"} \cup Processing \cup Reconciling]
      /\ wjob \in [Workers -> Jobs \cup {NoJob}] /\ watt \in [Workers -> Nat]
  BY DEF TypeInv, TypeOK
<1>1. Only(w, j) /\ UNCHANGED <<status, slots>>
  BY <1>t DEF Claim, Only, store, tenant, replica
<1>2. /\ wpc[w] = "idle" /\ wpc'[w] = "load" /\ watt'[w] = attempt'[j]
      /\ place[j] = "ready" /\ place'[j] = "inflight"
  BY <1>t DEF Claim
<1>3. Off(j, w)
  BY <1>t, <1>2 DEF Off, Orderly, WorkerOrder, WorkerFits
<1>4. status[j] \in Unsettled
  BY <1>2 DEF Orderly, JobOrder, JobFits
<1> QED
  BY <1>1, <1>2, <1>3, <1>4, AloneStep
  DEF WorkerFits, JobFits, Owes, Unsettled, Settled, Processing, Reconciling, Early

-----------------------------------------------------------------------------
(* Steps of workers that meet at a dead letter.                             *)

LEMMA BesideMoves ==
    ASSUME QueueInv, Orderly, Counted, NEW w \in Workers, ~disturbed',
           \/ \E j \in Jobs : LoadDead(w, j)
           \/ FreeDead(w) \/ RemoveDead(w)
           \/ WorkerCrash(w) /\ wpc[w] = "remove"
    PROVE  Orderly' /\ Counted'
<1>i. TypeInv
  BY DEF QueueInv
<1>t. /\ status \in [Jobs -> Statuses]
      /\ place \in [Jobs -> {"absent", "ready", "inflight", "dead", "done"}]
      /\ wpc \in [Workers -> {"idle"} \cup Processing \cup Reconciling]
      /\ wjob \in [Workers -> Jobs \cup {NoJob}] /\ watt \in [Workers -> Nat]
  BY <1>i DEF TypeInv, TypeOK
<1> USE DEF store, tenant, queue, replica, worker, answers, failures,
            Only, Beside, Proceed, Rest
<1>a. ASSUME NEW j \in Jobs, LoadDead(w, j) PROVE Orderly' /\ Counted'
  <2>1. Only(w, j) /\ UNCHANGED <<status, attempt, place, slots>>
    BY <1>t, <1>a DEF LoadDead
  <2>2. /\ wpc[w] = "idle" /\ place[j] = "dead"
        /\ wpc'[w] = IF status[j] \in Settled THEN "remove" ELSE "rset"
        /\ \A v \in Workers : wpc[v] = "rset" => wjob[v] # j
    BY <1>t, <1>a DEF LoadDead, Disturb
  <2>3. status[j] # "absent"
    BY <2>2 DEF QueueInv, RecordFirst
  <2>4. status[j] \in Settled \/ status[j] \in Unsettled
    BY <1>t, <2>3 DEF Statuses
  <2>5. Beside(w, j)
    BY <2>1, <2>2, <2>4
  <2> QED
    BY <1>i, <2>1, <2>2, <2>5, BesideStep
<1>b. ASSUME wpc[w] \in {"rfree", "remove"}, FreeDead(w) \/ RemoveDead(w) \/ WorkerCrash(w)
      PROVE  Orderly' /\ Counted'
  <2>j. PICK j \in Jobs : /\ j = wjob[w] /\ status[j] \in Settled
                          /\ place[j] \in {"dead", "done"}
    BY <1>i, <1>b DEF Orderly, WorkerOrder, WorkerFits, TypeInv, CarriesJob, Reconciling
  <2>1. Only(w, j) /\ UNCHANGED <<status, attempt>>
    BY <1>t, <1>b, <2>j DEF FreeDead, RemoveDead, WorkerCrash
  <2>2. place'[j] \in {place[j], "done"} /\ wpc'[w] \in {"idle", "remove"}
    BY <1>t, <1>b, <2>j DEF FreeDead, RemoveDead, WorkerCrash
  <2>3. Beside(w, j)
    BY <1>b, <2>j, <2>1, <2>2
  <2>4. IF wpc[w] = "rfree" THEN ReleaseSlot ELSE slots' = slots
    BY <1>b DEF FreeDead, RemoveDead, WorkerCrash, Disturb, InSettling
  <2> QED
    BY <1>i, <2>3, <2>4, BesideStep
<1> QED
  BY <1>a, <1>b DEF FreeDead, RemoveDead

-----------------------------------------------------------------------------
(* Steps of the handlers and of the queue.                                  *)

LEMMA ApartMoves ==
    ASSUME TypeInv, Orderly, Counted, NEW r \in Replicas, ~disturbed',
           \/ \E j \in Jobs : Submit(r, j) \/ Decide(r, j)
           \/ Acquire(r) \/ GiveBack(r) \/ ReturnRaced(r) \/ AuditSubmit(r) \/ Undo(r)
           \/ ReplicaCrash(r) \/ ReplicaError(r)
           \/ Create(r) /\ status[rjob[r]] # "absent"
    PROVE  Orderly' /\ Counted'
<1>t. rpc \in [Replicas -> Handler] /\ rjob \in [Replicas -> Jobs \cup {NoJob}]
  BY DEF TypeInv, TypeOK
<1> USE DEF store, tenant, queue, replica, worker, answers, failures,
            Apart, HoldsSlot, Begin, Continue, Answer, Accept, Disturb
<1>1. ASSUME NEW j \in Jobs, Submit(r, j) \/ Decide(r, j) PROVE Orderly' /\ Counted'
  <2>1. Apart(r) /\ slots' = slots /\ rpc[r] = "idle" /\ rjob'[r] = j
    BY <1>t, <1>1 DEF Submit, Decide
  <2>2. \/ rpc'[r] = "acquire"
        \/ rpc'[r] \in {"approve", "reject"} /\ status[j] = "awaiting_approval"
    BY <1>t, <1>1 DEF Submit, Decide
  <2>3. ReplicaOrder(r)'
    BY <2>1, <2>2 DEF ReplicaOrder, Settled
  <2> QED
    BY <2>1, <2>2, <2>3, ApartStep
<1>2. CASE Acquire(r)
  <2>1. Apart(r) /\ rpc[r] = "acquire"
    BY <1>t, <1>2 DEF Acquire
  <2>2. \/ slots' = slots /\ rpc'[r] = "idle"
        \/ slots' = slots + 1 /\ rpc'[r] = "create"
    BY <1>t, <1>2 DEF Acquire, AcquireSlot
  <2> QED
    BY <2>1, <2>2, ApartStep DEF ReplicaOrder
<1>3. CASE GiveBack(r) \/ Undo(r)
  <2>1. /\ Apart(r) /\ ReleaseSlot /\ rpc[r] \in {"release", "undo"}
        /\ rpc'[r] \in {"raced", "idle"}
    BY <1>t, <1>3 DEF GiveBack, Undo
  <2> QED
    BY <2>1, ApartStep DEF ReplicaOrder
<1>4. CASE ReturnRaced(r) \/ AuditSubmit(r)
  <2>1. /\ Apart(r) /\ slots' = slots /\ rpc[r] \in {"raced", "audit"}
        /\ rpc'[r] = "idle"
    BY <1>t, <1>4 DEF ReturnRaced, AuditSubmit
  <2> QED
    BY <2>1, ApartStep DEF ReplicaOrder
<1>5. CASE ReplicaCrash(r)
  <2>1. Apart(r) /\ slots' = slots /\ ~HoldsSlot(r) /\ rpc'[r] = "idle"
    BY <1>t, <1>5 DEF ReplicaCrash
  <2> QED
    BY <2>1, ApartStep DEF ReplicaOrder
<1>6. CASE ReplicaError(r)
  <2>1. Apart(r) /\ slots' = slots /\ HoldsSlot(r) /\ rpc'[r] = "undo"
    BY <1>t, <1>6 DEF ReplicaError
  <2> QED
    BY <2>1, ApartStep DEF ReplicaOrder
<1>7. CASE Create(r) /\ status[rjob[r]] # "absent"
  <2>1. /\ Apart(r) /\ slots' = slots /\ rpc[r] = "create"
        /\ rpc'[r] = "release"
    BY <1>t, <1>7 DEF Create
  <2> QED
    BY <2>1, ApartStep DEF ReplicaOrder
<1> QED
  BY <1>1, <1>2, <1>3, <1>4, <1>5, <1>6, <1>7

\* The record or the place of one job changes while its workers rest or can
\* live with it.
Change(j) ==
    /\ UNCHANGED <<attempt, wpc, wjob, watt>>
    /\ \A k \in Jobs \ {j} : status'[k] = status[k] /\ place'[k] = place[k]
    /\ \A v \in Workers : wpc[v] # "idle" /\ wjob[v] = j =>
           WorkerFits(status'[j], place'[j], attempt[j], wpc[v], watt[v])
    /\ JobFits(status'[j], place'[j])
    /\ place'[j] = "inflight" /\ status'[j] \in Settled =>
           place[j] = "inflight" /\ status[j] \in Settled
    /\ status[j] \in Settled => status'[j] \in Settled
    /\ \A r \in Replicas : rpc'[r] \in {"approve", "reject"} =>
           rpc'[r] = rpc[r] /\ rjob'[r] = rjob[r]

LEMMA ChangeKeepsOrder ==
    ASSUME TypeInv, Orderly, NEW j \in Jobs, Change(j)
    PROVE  Orderly' /\ \A k \in Jobs \ {j} : OwesSlot(k)' <=> OwesSlot(k)
<1>t. /\ \A v \in Workers : wpc[v] # "idle" => wjob[v] \in Jobs
      /\ \A r \in Replicas : rpc[r] # "idle" => rjob[r] \in Jobs
  BY DEF TypeInv, CarriesJob
<1>1. ASSUME NEW v \in Workers PROVE WorkerOrder(v)'
  <2>1. WorkerOrder(v) /\ UNCHANGED <<attempt, wpc, wjob, watt>>
    BY DEF Orderly, Change
  <2>2. ASSUME wpc[v] # "idle" PROVE
            WorkerFits(status'[wjob[v]], place'[wjob[v]], attempt[wjob[v]], wpc[v], watt[v])
    <3>1. CASE wjob[v] = j
      BY <2>2, <3>1 DEF Change
    <3>2. CASE wjob[v] # j
      BY <1>t, <2>1, <2>2, <3>2 DEF Change, WorkerOrder
    <3> QED
      BY <3>1, <3>2
  <2> QED
    BY <2>1, <2>2 DEF WorkerOrder, Off
<1>2. ASSUME NEW k \in Jobs PROVE JobOrder(k)'
  <2>1. JobOrder(k) /\ JobOrder(j) /\ UNCHANGED <<attempt, wpc, wjob>>
    BY DEF Orderly, Change
  <2>2. CASE k = j
    BY <2>1, <2>2 DEF Change, JobOrder
  <2>3. CASE k # j
    BY <2>1, <2>3 DEF Change, JobOrder
  <2> QED
    BY <2>2, <2>3
<1>3. ASSUME NEW r \in Replicas PROVE ReplicaOrder(r)'
  <2>1. ASSUME rpc'[r] \in {"approve", "reject"} PROVE status'[rjob'[r]] \in Settled
    <3>1. /\ rpc[r] \in {"approve", "reject"} /\ rjob'[r] = rjob[r] /\ rjob[r] \in Jobs
          /\ status[rjob[r]] \in Settled
      BY <1>t, <2>1 DEF Change, Orderly, ReplicaOrder
    <3> QED
      BY <3>1 DEF Change
  <2> QED
    BY <2>1 DEF ReplicaOrder
<1>4. \A k \in Jobs \ {j} : OwesSlot(k)' <=> OwesSlot(k)
  BY DEF Change, OwesSlot
<1> QED
  BY <1>1, <1>2, <1>3, <1>4 DEF Orderly

\* Nobody works on a job that is not in the queue or that waits there.
LEMMA NobodyOn ==
    ASSUME Orderly, TypeInv, NEW j \in Jobs, place[j] \in {"absent", "ready"}
    PROVE  \A w \in Workers : wpc[w] # "idle" => wjob[w] # j
BY DEF Orderly, WorkerOrder, WorkerFits, TypeInv, TypeOK

\* The slot passes from the handler to the record it creates.
LEMMA CreateMove ==
    ASSUME QueueInv, Orderly, Counted, NEW r \in Replicas, Create(r),
           status[rjob[r]] = "absent"
    PROVE  Orderly' /\ Counted'
<1>i. TypeInv
  BY DEF QueueInv
<1>t. /\ rpc \in [Replicas -> Handler] /\ rjob \in [Replicas -> Jobs \cup {NoJob}]
      /\ status \in [Jobs -> Statuses]
  BY <1>i DEF TypeInv, TypeOK
<1>j. PICK j \in Jobs : j = rjob[r]
  BY <1>i DEF Create, TypeInv, CarriesJob
<1>1. /\ status[j] = "absent" /\ status' = [status EXCEPT ![j] = "pending"]
      /\ rpc[r] = "create" /\ rpc' = [rpc EXCEPT ![r] = "enqueue"]
      /\ UNCHANGED <<rjob, place, attempt, wpc, wjob, watt, slots>>
  BY <1>j DEF Create, SaveStatus, Continue, queue, worker, tenant
<1>2. place[j] = "absent"
  BY <1>1 DEF QueueInv, RecordFirst
<1>3. \A w \in Workers : wpc[w] # "idle" => wjob[w] # j
  BY <1>i, <1>2, NobodyOn
<1>4. Change(j)
  BY <1>t, <1>1, <1>2, <1>3 DEF Change, JobFits, Settled
<1>5. Orderly' /\ \A k \in Jobs \ {j} : OwesSlot(k)' <=> OwesSlot(k)
  BY <1>i, <1>4, ChangeKeepsOrder
<1>6. ~OwesSlot(j) /\ OwesSlot(j)'
  BY <1>t, <1>1, <1>3 DEF OwesSlot, Unsettled
<1>7. Owing' = Owing \cup {j} /\ j \notin Owing
  BY <1>5, <1>6 DEF Owing
<1>8. Holding' = Holding \ {r} /\ r \in Holding
  BY <1>t, <1>1 DEF Holding, HoldsSlot
<1>9. Cardinality(Owing') = Cardinality(Owing) + 1
  BY <1>7, SlotSets, FS_AddElement
<1>10. Cardinality(Holding') = Cardinality(Holding) - 1
  BY <1>8, SlotSets, FS_RemoveElement
<1> QED
  BY <1>1, <1>5, <1>9, <1>10, SlotSets DEF Counted

\* A change that leaves the slot where it is.
LEMMA ChangeKeepsCount ==
    ASSUME TypeInv, Orderly, Counted, NEW j \in Jobs, Change(j), Holding' = Holding,
           OwesSlot(j)' <=> OwesSlot(j), slots' = slots
    PROVE  Orderly' /\ Counted'
<1>1. Orderly' /\ \A k \in Jobs \ {j} : OwesSlot(k)' <=> OwesSlot(k)
  BY ChangeKeepsOrder
<1>2. Owing' = Owing
  BY <1>1 DEF Owing
<1> QED
  BY <1>1, <1>2 DEF Counted

LEMMA ChangeMoves ==
    ASSUME QueueInv, Orderly, Counted,
           \/ \E r \in Replicas : Enqueue(r) \/ Approve(r) \/ Reject(r)
           \/ \E j \in Jobs : RecoverStale(j)
    PROVE  Orderly' /\ Counted'
<1>i. TypeInv
  BY DEF QueueInv
<1>t. /\ rpc \in [Replicas -> Handler] /\ rjob \in [Replicas -> Jobs \cup {NoJob}]
      /\ status \in [Jobs -> Statuses]
      /\ place \in [Jobs -> {"absent", "ready", "inflight", "dead", "done"}]
      /\ wpc \in [Workers -> {"idle"} \cup Processing \cup Reconciling]
  BY <1>i DEF TypeInv, TypeOK
<1>1. ASSUME NEW r \in Replicas, Enqueue(r) PROVE Orderly' /\ Counted'
  <2>j. PICK j \in Jobs : j = rjob[r]
    BY <1>i, <1>1 DEF Enqueue, TypeInv, CarriesJob
  <2>1. /\ rpc[r] = "enqueue" /\ rpc' = [rpc EXCEPT ![r] = "audit"]
        /\ place' = [place EXCEPT ![j] = "ready"]
        /\ UNCHANGED <<rjob, status, attempt, wpc, wjob, watt, slots>>
    BY <1>1, <2>j DEF Enqueue, Continue, store, tenant, worker
  <2>2. place[j] = "absent" /\ status[j] # "absent"
    BY <2>j, <2>1 DEF QueueInv, Unqueued
  <2>3. status[j] \in Unsettled
    BY <2>2 DEF Orderly, JobOrder, JobFits, Unsettled
  <2>4. \A w \in Workers : wpc[w] # "idle" => wjob[w] # j
    BY <1>i, <2>2, NobodyOn
  <2>5. Change(j)
    BY <1>t, <2>1, <2>3, <2>4 DEF Change, JobFits
  <2>6. Holding' = Holding
    BY <1>t, <2>1 DEF Holding, HoldsSlot
  <2>7. OwesSlot(j)' <=> OwesSlot(j)
    BY <2>1 DEF OwesSlot
  <2> QED
    BY <1>i, <2>1, <2>5, <2>6, <2>7, ChangeKeepsCount
<1>2. ASSUME NEW r \in Replicas, Approve(r) \/ Reject(r) PROVE Orderly' /\ Counted'
  <2>j. PICK j \in Jobs : j = rjob[r]
    BY <1>i, <1>2 DEF Approve, Reject, TypeInv, CarriesJob
  <2>1. /\ rpc[r] \in {"approve", "reject"}
        /\ rpc' = [rpc EXCEPT ![r] = "idle"] /\ rjob' = [rjob EXCEPT ![r] = NoJob]
        /\ UNCHANGED <<place, attempt, wpc, wjob, watt, slots>>
    BY <1>2 DEF Approve, Reject, Answer, tenant, queue, worker
  <2>2. /\ status'[j] \in {status[j], "approved", "rejected"}
        /\ \A k \in Jobs \ {j} : status'[k] = status[k]
    BY <1>t, <1>2, <2>j DEF Approve, Reject, SaveStatus
  <2>3. status[j] \in Settled
    BY <2>1, <2>j DEF Orderly, ReplicaOrder
  <2>4. /\ status'[j] \in Settled
        /\ status[j] \notin Unsettled /\ status'[j] \notin Unsettled
    BY <2>2, <2>3 DEF Settled, Unsettled
  <2>5. ASSUME NEW v \in Workers, wpc[v] # "idle", wjob[v] = j PROVE
            WorkerFits(status'[j], place[j], attempt[j], wpc[v], watt[v])
    BY <2>4, <2>5 DEF Orderly, WorkerOrder, WorkerFits
  <2>6. JobFits(status'[j], place[j])
    BY <2>3, <2>4 DEF Orderly, JobOrder, JobFits, Settled
  <2>7. Change(j)
    BY <1>t, <2>1, <2>2, <2>3, <2>4, <2>5, <2>6 DEF Change
  <2>8. Holding' = Holding
    BY <1>t, <2>1 DEF Holding, HoldsSlot
  <2>9. OwesSlot(j)' <=> OwesSlot(j)
    BY <2>1, <2>4 DEF OwesSlot
  <2> QED
    BY <1>i, <2>1, <2>7, <2>8, <2>9, ChangeKeepsCount
<1>3. ASSUME NEW j \in Jobs, RecoverStale(j) PROVE Orderly' /\ Counted'
  <2>1. /\ place[j] = "inflight" /\ ~Owned(j)
        /\ place' = [place EXCEPT ![j] = IF Exhausted(attempt[j]) THEN "dead" ELSE "ready"]
        /\ UNCHANGED <<rpc, rjob, status, attempt, wpc, wjob, watt, slots>>
    BY <1>3 DEF RecoverStale, Recover, store, tenant, replica, worker
  <2>2. \A w \in Workers : wpc[w] # "idle" => wjob[w] # j
    BY <1>t, <2>1 DEF Owned, Orderly, WorkerOrder, WorkerFits
  <2>3. status[j] \in Settled => Exhausted(attempt[j])
    BY <2>1 DEF Owned, Orderly, JobOrder, Processing
  <2>4. status[j] \in Settled \/ status[j] \in Unsettled
    BY <1>t, <2>1 DEF QueueInv, RecordFirst, Statuses
  <2>5. Change(j)
    BY <1>t, <2>1, <2>2, <2>3, <2>4 DEF Change, JobFits
  <2>6. Holding' = Holding
    BY <2>1 DEF Holding, HoldsSlot
  <2>7. OwesSlot(j)' <=> OwesSlot(j)
    BY <2>1 DEF OwesSlot
  <2> QED
    BY <1>i, <2>1, <2>5, <2>6, <2>7, ChangeKeepsCount
<1> QED
  BY <1>1, <1>2, <1>3

-----------------------------------------------------------------------------
(* All steps.                                                               *)

LEMMA StaysDisturbed == TypeInv /\ [Next]_vars /\ ~disturbed' => ~disturbed
<1> SUFFICES ASSUME TypeInv, [Next]_vars, disturbed PROVE disturbed'
  BY DEF TypeInv, TypeOK
<1> USE DEF failures, Disturb, vars
<1>1. ASSUME NEW r \in Replicas,
             \/ Handle(r) \/ ReplicaCrash(r) \/ ReplicaError(r)
             \/ AcquireLost(r) \/ UndoFails(r)
      PROVE  disturbed'
  BY <1>1 DEF Handle, Acquire, Create, GiveBack, ReturnRaced, Accept, Enqueue,
     AuditSubmit, Undo, Approve, Reject, ReplicaCrash, ReplicaError, AcquireLost, UndoFails
<1>2. ASSUME NEW r \in Replicas, NEW j \in Jobs,
             Submit(r, j) \/ SubmitAgain(r, j) \/ Decide(r, j)
      PROVE  disturbed'
  BY <1>2 DEF Submit, SubmitAgain, Decide, Begin
<1>3. ASSUME NEW w \in Workers, Process(w) \/ WorkerCrash(w) \/ WorkerError(w)
      PROVE  disturbed'
  BY <1>3 DEF Process, Claim, LoadDead, Load, Mark, Research, FailRelease, FailSet,
     StoreResult, Finish, Free, Ack, Retry, SetDead, FreeDead, RemoveDead,
     WorkerCrash, WorkerError
<1>4. ASSUME NEW j \in Jobs, RecoverStale(j) \/ RecoverLapsed(j) PROVE disturbed'
  BY <1>4 DEF RecoverStale, RecoverLapsed
<1>5. CASE SlotsAge \/ SlotsExpire \/ UNCHANGED vars
  BY <1>5 DEF SlotsAge, SlotsExpire
<1> QED
  BY <1>1, <1>2, <1>3, <1>4, <1>5 DEF Next

LEMMA StillStep ==
    ASSUME Orderly, Counted, slots' = slots,
           UNCHANGED <<status, place, attempt, rpc, rjob, wpc, wjob, watt>>
    PROVE  Orderly' /\ Counted'
<1>1. Orderly'
  BY DEF Orderly, WorkerOrder, Off, JobOrder, ReplicaOrder
<1>2. Holding' = Holding /\ Owing' = Owing
  BY DEF Holding, HoldsSlot, Owing, OwesSlot
<1> QED
  BY <1>1, <1>2 DEF Counted

LEMMA SlotStep == SlotInv /\ [Next]_vars => SlotInv'
<1> SUFFICES ASSUME SlotInv, [Next]_vars, ~disturbed' PROVE Orderly' /\ Counted'
  BY QueueStep DEF SlotInv
<1>i. /\ QueueInv /\ TypeInv /\ Orderly /\ Counted
      /\ \A w \in Workers : wpc[w] \in {"idle"} \cup Processing \cup Reconciling
  BY StaysDisturbed DEF SlotInv, QueueInv, TypeInv, TypeOK
<1>1. ASSUME NEW r \in Replicas,
             Handle(r) \/ ReplicaCrash(r) \/ ReplicaError(r) \/ AcquireLost(r) \/ UndoFails(r)
      PROVE  Orderly' /\ Counted'
  <2>1. ~AcquireLost(r) /\ ~UndoFails(r)
    BY DEF AcquireLost, UndoFails, Disturb
  <2>2. CASE Enqueue(r) \/ Approve(r) \/ Reject(r)
    BY <1>i, <2>2, ChangeMoves
  <2>3. CASE Create(r) /\ status[rjob[r]] = "absent"
    BY <1>i, <2>3, CreateMove
  <2> QED
    BY <1>i, <1>1, <2>1, <2>2, <2>3, ApartMoves DEF Handle
<1>2. ASSUME NEW r \in Replicas, NEW j \in Jobs, Submit(r, j) \/ Decide(r, j)
      PROVE  Orderly' /\ Counted'
  BY <1>i, <1>2, ApartMoves
<1>3. ASSUME NEW w \in Workers, Process(w) PROVE Orderly' /\ Counted'
  <2>1. ASSUME NEW j \in Jobs, Claim(w, j) PROVE Orderly' /\ Counted'
    BY <1>i, <2>1, ClaimMove
  <2>2. CASE (\E j \in Jobs : LoadDead(w, j)) \/ FreeDead(w) \/ RemoveDead(w)
    BY <1>i, <2>2, BesideMoves
  <2>3. CASE \/ Load(w) \/ Mark(w) \/ Research(w) \/ FailRelease(w) \/ FailSet(w)
             \/ StoreResult(w) \/ Finish(w) \/ Free(w) \/ Ack(w) \/ Retry(w) \/ SetDead(w)
    <3>1. wpc[w] \in Processing \cup {"rset"}
      BY <2>3 DEF Load, Mark, Research, FailRelease, FailSet, StoreResult, Finish,
         Free, Ack, Retry, SetDead, Processing
    <3> QED
      BY <1>i, <2>3, <3>1, AloneMoves
  <2> QED
    BY <1>3, <2>1, <2>2, <2>3 DEF Process
<1>4. ASSUME NEW w \in Workers, WorkerCrash(w) \/ WorkerError(w) PROVE Orderly' /\ Counted'
  <2>1. ~InSettling(w) /\ wpc[w] # "idle"
    BY <1>4 DEF WorkerCrash, WorkerError, Disturb, Processing
  <2>2. CASE wpc[w] \in Processing \cup {"rset"}
    BY <1>i, <1>4, <2>1, <2>2, AloneMoves
  <2>3. CASE wpc[w] = "remove"
    <3>1. WorkerCrash(w)
      BY <1>4, <2>3 DEF WorkerError, Processing
    <3> QED
      BY <1>i, <2>3, <3>1, BesideMoves
  <2> QED
    BY <1>i, <2>1, <2>2, <2>3 DEF InSettling, Reconciling
<1>5. ASSUME NEW j \in Jobs, RecoverStale(j) \/ RecoverLapsed(j) PROVE Orderly' /\ Counted'
  <2>1. ~RecoverLapsed(j)
    BY DEF RecoverLapsed, Disturb
  <2> QED
    BY <1>i, <1>5, <2>1, ChangeMoves
<1>6. CASE \/ SlotsAge \/ SlotsExpire \/ UNCHANGED vars
           \/ \E r \in Replicas, j \in Jobs : SubmitAgain(r, j)
  <2>1. slots' = slots
    <3>1. CASE SlotsExpire
      <4>1. ~(slots > 0) /\ slots' = 0
        BY <3>1 DEF SlotsExpire, Disturb
      <4>2. slots \in Nat
        BY <1>i, LifecycleConstants DEF TypeInv, TypeOK
      <4> QED
        BY <4>1, <4>2
    <3> QED
      BY <1>6, <3>1 DEF SlotsAge, SubmitAgain, vars, store, tenant
  <2>2. UNCHANGED <<status, place, attempt, rpc, rjob, wpc, wjob, watt>>
    BY <1>6 DEF SlotsAge, SlotsExpire, SubmitAgain, vars, store, queue, replica, worker
  <2> QED
    BY <1>i, <2>1, <2>2, StillStep
<1> QED
  BY <1>1, <1>2, <1>3, <1>4, <1>5, <1>6 DEF Next

LEMMA SlotInit == Init => SlotInv
<1> SUFFICES ASSUME Init PROVE Orderly /\ Counted
  BY QueueInit DEF SlotInv
<1>1. /\ \A w \in Workers : wpc[w] = "idle"
      /\ \A r \in Replicas : rpc[r] = "idle"
      /\ \A j \in Jobs : status[j] = "absent" /\ place[j] = "absent"
      /\ slots = 0
  BY DEF Init
<1>2. Orderly
  <2>1. \A w \in Workers : WorkerOrder(w)
    BY <1>1 DEF WorkerOrder, Processing
  <2>2. \A j \in Jobs : JobOrder(j)
    BY <1>1 DEF JobOrder, JobFits
  <2> QED
    BY <1>1, <2>1, <2>2 DEF Orderly, ReplicaOrder
<1>3. Holding = {} /\ Owing = {}
  <2>1. \A j \in Jobs : ~OwesSlot(j)
    BY <1>1 DEF OwesSlot, Unsettled
  <2> QED
    BY <1>1, <2>1 DEF Holding, HoldsSlot, Owing
<1> QED
  BY <1>1, <1>2, <1>3, FS_EmptySet DEF Counted

\* Whatever crashes or fails outside the calls that Disturb names, and however
\* many processes race: the tenant's counter is the number of submissions and
\* jobs that owe a release, so no slot is leaked and none is released twice.
THEOREM SlotsAreCounted == Spec => []SlotsExact
<1>1. SlotInv => SlotsExact
  BY DEF SlotInv, Counted, Holding, Owing, SlotsExact
<1> QED
  BY SlotInit, SlotStep, <1>1, PTL DEF Spec

\* And the tenant's waiting and running jobs are within its limit, for each of
\* them holds a slot of its own.
THEOREM TenantIsLimited == Spec => []TenantLimit
<1>1. SlotInv => TenantLimit
  <2> SUFFICES ASSUME SlotInv, ~disturbed
               PROVE  Cardinality({j \in Jobs : BeingResearched(j)}) <= MaxSlots
    BY DEF TenantLimit
  <2>1. Orderly /\ Counted /\ slots <= MaxSlots
    BY LifecycleConstants DEF SlotInv, QueueInv, TypeInv, TypeOK
  <2>2. ASSUME NEW j \in Jobs, BeingResearched(j) PROVE OwesSlot(j)
    <3>1. CASE place[j] = "ready"
      <4>1. \A w \in Workers : wpc[w] # "idle" => wjob[w] # j
        BY <2>1, <3>1, NobodyOn DEF SlotInv, QueueInv
      <4>2. status[j] \in Unsettled
        BY <2>1, <3>1 DEF Orderly, JobOrder, JobFits
      <4> QED
        BY <4>1, <4>2 DEF OwesSlot
    <3>2. CASE place[j] # "ready"
      <4>1. PICK w \in Workers : /\ wjob[w] = j
              /\ wpc[w] \in {"load", "mark", "run", "fail", "store", "finish", "free"}
        BY <2>2, <3>2 DEF BeingResearched
      <4>2. Off(j, w) /\ WorkerFits(status[j], place[j], attempt[j], wpc[w], watt[w])
        BY <2>1, <4>1 DEF Orderly, WorkerOrder, Processing
      <4>3. CASE wpc[w] = "free"
        BY <4>1, <4>2, <4>3 DEF OwesSlot, WorkerFits, Settled, Unsettled
      <4>4. CASE wpc[w] # "free"
        <5>1. status[j] \in Unsettled
          BY <4>1, <4>2, <4>4 DEF WorkerFits, Early
        <5> QED
          BY <4>1, <4>2, <4>4, <5>1 DEF OwesSlot, Off
      <4> QED
        BY <4>3, <4>4
    <3> QED
      BY <3>1, <3>2
  <2>3. {j \in Jobs : BeingResearched(j)} \subseteq Owing
    BY <2>2 DEF Owing
  <2>4. /\ Cardinality({j \in Jobs : BeingResearched(j)}) <= Cardinality(Owing)
        /\ Cardinality({j \in Jobs : BeingResearched(j)}) \in Nat
    BY <2>3, SlotSets, FS_Subset, FS_CardinalityType
  <2>5. slots \in Nat /\ MaxSlots \in Nat
    BY LifecycleConstants DEF SlotInv, QueueInv, TypeInv, TypeOK
  <2> QED
    BY <2>1, <2>4, <2>5, SlotSets DEF Counted
<1> QED
  BY SlotInit, SlotStep, <1>1, PTL DEF Spec

\* Statuses go one way: no worker, replica or reconciler that acts on what it
\* read earlier makes a settled job unsettled again.
THEOREM SettledStaySettled == Spec => NeverReopened
<1>1. SlotInv /\ [Next]_vars =>
        [~disturbed => \A j \in Jobs : status[j] \in Settled => status'[j] \in Settled]_vars
  <2> SUFFICES ASSUME SlotInv, [Next]_vars, ~disturbed, NEW k \in Jobs, status[k] \in Settled
               PROVE  status'[k] \in Settled
    OBVIOUS
  <2>i. /\ Orderly /\ status \in [Jobs -> Statuses]
        /\ \A w \in Workers : wpc[w] # "idle" => wjob[w] \in Jobs
        /\ \A r \in Replicas : rpc[r] # "idle" => rjob[r] \in Jobs
    BY DEF SlotInv, QueueInv, TypeInv, TypeOK, CarriesJob
  <2>k. status[k] \notin Unsettled /\ status[k] # "absent"
    BY DEF Settled, Unsettled
  <2> USE DEF vars, store, failures
  <2>1. ASSUME NEW r \in Replicas,
               Handle(r) \/ ReplicaCrash(r) \/ ReplicaError(r) \/ AcquireLost(r) \/ UndoFails(r)
        PROVE  status'[k] \in Settled
    <3>1. CASE Create(r) \/ Approve(r) \/ Reject(r)
      BY <2>i, <2>k, <3>1 DEF Create, Approve, Reject, SaveStatus, Settled
    <3>2. CASE ~(Create(r) \/ Approve(r) \/ Reject(r))
      BY <2>1, <3>2 DEF Handle, Acquire, GiveBack, ReturnRaced, Accept, Enqueue,
         AuditSubmit, Undo, ReplicaCrash, ReplicaError, AcquireLost, UndoFails
    <3> QED
      BY <3>1, <3>2
  <2>2. ASSUME NEW r \in Replicas, NEW j \in Jobs,
               Submit(r, j) \/ SubmitAgain(r, j) \/ Decide(r, j)
        PROVE  status'[k] \in Settled
    BY <2>2 DEF Submit, SubmitAgain, Decide, Begin
  <2>3. ASSUME NEW w \in Workers, Process(w) \/ WorkerCrash(w) \/ WorkerError(w)
        PROVE  status'[k] \in Settled
    <3>1. CASE Mark(w) \/ FailSet(w)
      <4>1. wpc[w] \in {"mark", "failset"} /\ status[wjob[w]] \in Unsettled
        BY <2>i, <3>1 DEF Mark, FailSet, Orderly, WorkerOrder, WorkerFits, Early
      <4>2. wjob[w] # k
        BY <2>k, <4>1
      <4> QED
        BY <2>i, <3>1, <4>2 DEF Mark, FailSet, SaveStatus
    <3>2. CASE Finish(w) \/ SetDead(w)
      BY <2>i, <3>2 DEF Finish, SetDead, SaveStatus, Settled
    <3>3. CASE ~(Mark(w) \/ FailSet(w) \/ Finish(w) \/ SetDead(w))
      BY <2>3, <3>3 DEF Process, Claim, LoadDead, Load, Research, FailRelease,
         StoreResult, Free, Ack, Retry, FreeDead, RemoveDead, WorkerCrash, WorkerError
    <3> QED
      BY <3>1, <3>2, <3>3
  <2>4. ASSUME NEW j \in Jobs, RecoverStale(j) \/ RecoverLapsed(j)
        PROVE  status'[k] \in Settled
    BY <2>4 DEF RecoverStale, RecoverLapsed, Recover
  <2>5. CASE SlotsAge \/ SlotsExpire \/ UNCHANGED vars
    BY <2>5 DEF SlotsAge, SlotsExpire
  <2> QED
    BY <2>1, <2>2, <2>3, <2>4, <2>5 DEF Next
<1> QED
  BY SlotInit, SlotStep, <1>1, PTL DEF Spec, NeverReopened
=============================================================================

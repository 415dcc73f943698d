--------------------------- MODULE ReliableQueue ----------------------------
(* What the job queue promises to its callers, without any of its Redis     *)
(* structures: every accepted job is in exactly one place, moves only along *)
(* the edges below, is finished only after it was handed to a worker, and   *)
(* is buried only after it was handed over MaxAttempts times.               *)
EXTENDS Integers

CONSTANTS Jobs, MaxAttempts

VARIABLES place,   \* where the queue keeps each job
          handed   \* how often each job was handed to a worker

vars == <<place, handed>>

Places == {"absent", "ready", "inflight", "scheduled", "dead", "done"}

Init ==
    /\ place = [j \in Jobs |-> "absent"]
    /\ handed = [j \in Jobs |-> 0]

Move(j, from, to) ==
    /\ place[j] = from
    /\ place' = [place EXCEPT ![j] = to]
    /\ UNCHANGED handed

Accept(j)   == Move(j, "absent", "ready")
Take(j)     == Move(j, "ready", "inflight")
GiveBack(j) == Move(j, "inflight", "ready")
Delay(j)    == Move(j, "inflight", "scheduled")
Wake(j)     == Move(j, "scheduled", "ready")
Drain(j)    == Move(j, "dead", "done")
Finish(j)   == handed[j] > 0 /\ Move(j, "inflight", "done")
Bury(j)     == handed[j] >= MaxAttempts /\ Move(j, "inflight", "dead")

\* A worker that lost its claim may still be handed the job, even a done one.
Hand(j) ==
    /\ place[j] # "absent"
    /\ handed' = [handed EXCEPT ![j] = @ + 1]
    /\ UNCHANGED place

\* Taking a job, or a retry that just came due, and handing it over at once.
Claim(j) ==
    /\ place[j] \in {"ready", "scheduled"}
    /\ place' = [place EXCEPT ![j] = "inflight"]
    /\ handed' = [handed EXCEPT ![j] = @ + 1]

Next == \E j \in Jobs :
    \/ Accept(j) \/ Take(j) \/ GiveBack(j) \/ Delay(j) \/ Wake(j)
    \/ Drain(j) \/ Finish(j) \/ Bury(j) \/ Hand(j) \/ Claim(j)

Spec == Init /\ [][Next]_vars
=============================================================================

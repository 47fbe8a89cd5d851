-------------------------- MODULE DeliveryPromise --------------------------
(***************************************************************************)
(* What outbound delivery promises about one enqueued job, whoever runs    *)
(* the queue: an owed job may reach the remote inbox any number of times,  *)
(* is marked delivered only after the remote accepted it, may be abandoned,*)
(* and once delivered or abandoned is never sent or revived again.         *)
(***************************************************************************)
EXTENDS Naturals

CONSTANTS Jobs,      \* delivery_jobs rows that may exist
          SeenCap    \* bound: copies received are counted up to SeenCap

VARIABLES promise,   \* promise[j]: what the instance still owes for job j
          seen       \* seen[j]: copies of j the remote inbox accepted

vars == <<promise, seen>>

Owed(j) == promise[j] = "owed"

CountCopy(n) == IF n < SeenCap THEN n + 1 ELSE n

Init ==
  /\ promise = [j \in Jobs |-> "none"]
  /\ seen = [j \in Jobs |-> 0]

Owe(j) ==
  /\ promise[j] = "none"
  /\ promise' = [promise EXCEPT ![j] = "owed"]
  /\ UNCHANGED seen

Arrive(j) ==
  /\ Owed(j)
  /\ seen' = [seen EXCEPT ![j] = CountCopy(@)]
  /\ UNCHANGED promise

Deliver(j) ==
  /\ Owed(j)
  /\ seen[j] > 0
  /\ promise' = [promise EXCEPT ![j] = "delivered"]
  /\ UNCHANGED seen

Abandon(j) ==
  /\ Owed(j)
  /\ promise' = [promise EXCEPT ![j] = "abandoned"]
  /\ UNCHANGED seen

Next == \E j \in Jobs : Owe(j) \/ Arrive(j) \/ Deliver(j) \/ Abandon(j)

Spec == Init /\ [][Next]_vars
=============================================================================

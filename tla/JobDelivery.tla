----------------------------- MODULE JobDelivery -----------------------------
(***************************************************************************)
(* What the worker plane promises its producers, without lists, workers or *)
(* acknowledgements: each submitted copy of a job is completed once, except*)
(* that every fault may lose one copy that is still owed, or make a copy   *)
(* of a completed job owed again.  WorkQueue implements it.                *)
(***************************************************************************)
EXTENDS Naturals

CONSTANTS Jobs, MaxEnqueue, MaxFaults

VARIABLES
  submitted,  \* copies submitted so far
  owed,       \* copies that will still be given to a handler
  done,       \* completions
  faults      \* faults so far

vars == <<submitted, owed, done, faults>>

Init ==
  /\ submitted = [j \in Jobs |-> 0]
  /\ owed = [j \in Jobs |-> 0]
  /\ done = [j \in Jobs |-> 0]
  /\ faults = 0

Submit(j) ==
  /\ submitted[j] < MaxEnqueue
  /\ submitted' = [submitted EXCEPT ![j] = @ + 1]
  /\ owed' = [owed EXCEPT ![j] = @ + 1]
  /\ UNCHANGED <<done, faults>>

Complete(j) ==
  /\ owed[j] > 0
  /\ owed' = [owed EXCEPT ![j] = @ - 1]
  /\ done' = [done EXCEPT ![j] = @ + 1]
  /\ UNCHANGED <<submitted, faults>>

Fault == faults < MaxFaults /\ faults' = faults + 1

\* A fault without consequence for any job.
Survive == Fault /\ UNCHANGED <<submitted, owed, done>>

Lose(j) ==
  /\ Fault
  /\ owed[j] > 0
  /\ owed' = [owed EXCEPT ![j] = @ - 1]
  /\ UNCHANGED <<submitted, done>>

Redeliver(j) ==
  /\ Fault
  /\ done[j] > 0
  /\ owed' = [owed EXCEPT ![j] = @ + 1]
  /\ UNCHANGED <<submitted, done>>

Next ==
  \/ \E j \in Jobs : Submit(j) \/ Complete(j) \/ Lose(j) \/ Redeliver(j)
  \/ Survive

Spec == Init /\ [][Next]_vars
=============================================================================

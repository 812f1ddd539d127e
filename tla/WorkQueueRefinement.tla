------------------------- MODULE WorkQueueRefinement -------------------------
(* WorkQueue implements JobDelivery, for any payloads, any finite set of   *)
(* workers and any bounds: every step of the lists and workers is a step   *)
(* of the delivery service, or changes nothing a producer can tell.        *)
EXTENDS WorkQueueProofs

owedNow == [k \in Jobs |-> Owed(k)]

Active == {"handling", "nacking", "requeueing"}

LEMMA OwedType ==
  ASSUME TypeOK, TypeOK', NEW k \in Jobs
  PROVE  /\ Owed(k) \in Nat /\ Owed(k)' \in Nat
         /\ Queued(k) \in Nat /\ Queued(k)' \in Nat
<1>1. Queued(k) \in Nat /\ Queued(k)' \in Nat
  BY OccurrencesType DEF TypeOK, Queued
<1>. QED  BY <1>1, CountType DEF Owed

(* A step of one worker changes what is owed by what it does to the queue  *)
(* and by whether that worker stops or starts to owe a completion.         *)
LEMMA OwedStep ==
  ASSUME TypeOK, TypeOK', NEW w \in Workers, NEW k \in Jobs,
         \A v \in Workers \ {w} : pc'[v] = pc[v] /\ job'[v] = job[v]
  PROVE  /\ Owed(k)' + Bit(pc[w] \in Active /\ job[w] = k) + Queued(k)
              = Owed(k) + Bit(pc'[w] \in Active /\ job'[w] = k) + Queued(k)'
         /\ pc[w] \in Active /\ job[w] = k => Owed(k) > 0
<1>1. /\ Queued(k) \in Nat /\ Queued(k)' \in Nat
      /\ Pending(k) \in Nat /\ Pending(k)' \in Nat
  BY OwedType, CountsTyped
<1>2. Owed(k) = Queued(k) + Pending(k) /\ Owed(k)' = Queued(k)' + Pending(k)'
  BY DEF Owed, Pending
<1>3. Pending(k)' + Bit(pc[w] \in Active /\ job[w] = k)
        = Pending(k) + Bit(pc'[w] \in Active /\ job'[w] = k)
  BY Deltas DEF Moved, Bit, Active
<1>4. pc[w] \in Active /\ job[w] = k => Pending(k) > 0
  <2>1. SUFFICES ASSUME pc[w] \in Active, job[w] = k
                 PROVE  Cardinality({v \in Workers : pc[v] \in Active /\ job[v] = k}) # 0
    BY <1>1 DEF Pending, Count, Active
  <2>. DEFINE A == {v \in Workers : pc[v] \in Active /\ job[v] = k}
  <2>2. IsFiniteSet(A) /\ w \in A
    BY <2>1, FS_Subset, WorkQueueAssumption
  <2>. QED  BY <2>2, FS_EmptySet
<1>. QED  BY <1>1, <1>2, <1>3, <1>4 DEF Bit

(* From the change of each payload's debt to the change of the function.   *)
LEMMA OwedFunction ==
  ASSUME TypeOK, TypeOK', NEW j \in Jobs
  PROVE  /\ owedNow[j] = Owed(j)
         /\ (\A k \in Jobs : Owed(k)' = Owed(k)) => owedNow' = owedNow
         /\ (\A k \in Jobs : Owed(k)' = Owed(k) + Bit(k = j))
              => owedNow' = [owedNow EXCEPT ![j] = @ + 1]
         /\ (\A k \in Jobs : Owed(k) = Owed(k)' + Bit(k = j))
              => owedNow' = [owedNow EXCEPT ![j] = @ - 1]
<1>. DEFINE f == [k \in Jobs |-> Owed(k)]
            g == [k \in Jobs |-> Owed(k)']
<1>1. owedNow = f /\ owedNow' = g
  BY DEF owedNow
<1>2. \A k \in Jobs : f[k] = Owed(k) /\ g[k] = Owed(k)' /\ Owed(k) \in Nat /\ Owed(k)' \in Nat
  BY OwedType
<1>3. (\A k \in Jobs : Owed(k)' = Owed(k)) => g = f
  OBVIOUS
<1>4. ASSUME \A k \in Jobs : Owed(k)' = Owed(k) + Bit(k = j)
      PROVE  g = [f EXCEPT ![j] = @ + 1]
  <2>1. \A k \in Jobs : g[k] = IF k = j THEN f[k] + 1 ELSE f[k]
    BY <1>2, <1>4 DEF Bit
  <2>. QED  BY <2>1
<1>5. ASSUME \A k \in Jobs : Owed(k) = Owed(k)' + Bit(k = j)
      PROVE  g = [f EXCEPT ![j] = @ - 1]
  <2>1. \A k \in Jobs : g[k] = IF k = j THEN f[k] - 1 ELSE f[k]
    BY <1>2, <1>5 DEF Bit
  <2>. QED  BY <2>1
<1>. QED  BY <1>1, <1>2, <1>3, <1>4, <1>5

LEMMA OwedSame ==
  ASSUME \A k \in Jobs : Owed(k)' = Owed(k)
  PROVE  owedNow' = owedNow
  BY DEF owedNow

(* A worker that stays in, or out of, the states that owe a completion.    *)
LEMMA StaysSo ==
  ASSUME TypeOK, TypeOK', NEW w \in Workers, UNCHANGED queue,
         \A v \in Workers \ {w} : pc'[v] = pc[v] /\ job'[v] = job[v],
         \/ pc[w] \notin Active /\ pc'[w] \notin Active
         \/ pc[w] \in Active /\ pc'[w] \in Active /\ job'[w] = job[w]
  PROVE  \A k \in Jobs : Owed(k)' = Owed(k)
<1>. SUFFICES ASSUME NEW k \in Jobs PROVE Owed(k)' = Owed(k)
  OBVIOUS
<1>1. Queued(k)' = Queued(k)
  BY DEF Queued
<1>2. Owed(k)' + Bit(pc[w] \in Active /\ job[w] = k) + Queued(k)
        = Owed(k) + Bit(pc'[w] \in Active /\ job'[w] = k) + Queued(k)'
  BY OwedStep DEF Bit
<1>. QED  BY <1>1, <1>2, OwedType DEF Bit

(* A worker that leaves them, the queue unchanged: one completion less.    *)
LEMMA LeavesActive ==
  ASSUME TypeOK, TypeOK', NEW w \in Workers, UNCHANGED queue,
         \A v \in Workers \ {w} : pc'[v] = pc[v] /\ job'[v] = job[v],
         pc[w] \in Active, pc'[w] \notin Active
  PROVE  \A k \in Jobs : Owed(k) = Owed(k)' + Bit(k = job[w])
<1>. SUFFICES ASSUME NEW k \in Jobs PROVE Owed(k) = Owed(k)' + Bit(k = job[w])
  OBVIOUS
<1>1. Queued(k)' = Queued(k)
  BY DEF Queued
<1>2. Owed(k)' + Bit(k = job[w]) + Queued(k) = Owed(k) + 0 + Queued(k)'
  BY OwedStep DEF Bit
<1>. QED  BY <1>1, <1>2, OwedType DEF Bit

(* A worker that leaves them and pushes its payload back.                  *)
LEMMA PushesBack ==
  ASSUME TypeOK, TypeOK', NEW w \in Workers, job[w] \in Jobs, RPush(job[w]),
         \A v \in Workers \ {w} : pc'[v] = pc[v] /\ job'[v] = job[v],
         pc[w] \in Active, pc'[w] \notin Active
  PROVE  \A k \in Jobs : Owed(k)' = Owed(k)
<1>. SUFFICES ASSUME NEW k \in Jobs PROVE Owed(k)' = Owed(k)
  OBVIOUS
<1>1. Queued(k)' = Queued(k) + Bit(job[w] = k)
  BY ListDeltas DEF Bit
<1>2. Owed(k)' + Bit(job[w] = k) + Queued(k) = Owed(k) + 0 + Queued(k)'
  BY OwedStep DEF Bit
<1>. QED  BY <1>1, <1>2, OwedType DEF Bit

LEMMA InitRefines == Init => Delivery!Init
<1>. SUFFICES ASSUME Init PROVE Delivery!Init
  OBVIOUS
<1>1. ASSUME NEW j \in Jobs PROVE Owed(j) = 0
  <2>1. {i \in 1..Len(queue) : queue[i] = j} = {}
    BY DEF Init
  <2>2. {w \in Workers : pc[w] \in {"handling", "nacking", "requeueing"} /\ job[w] = j} = {}
    BY DEF Init
  <2>3. Queued(j) = 0
    BY <2>1, FS_EmptySet DEF Queued, Occurrences
  <2>4. Count({"handling", "nacking", "requeueing"}, j) = 0
    BY <2>2, FS_EmptySet DEF Count
  <2>. QED  BY <2>3, <2>4 DEF Owed
<1>. QED  BY <1>1 DEF Init, Delivery!Init

LEMMA StepRefines ==
  ASSUME WorkQueueInv, WorkQueueInv', [Next]_vars
  PROVE  [Delivery!Next]_Delivery!vars
<1>0. /\ TypeOK /\ TypeOK' /\ WorkersTyped
      /\ \A j \in Jobs : Count({"acking"}, j) <= done[j]
  BY DEF WorkQueueInv, TypeOK, WorkersTyped, JobInv
<1>. DEFINE Stutter == owedNow' = owedNow /\ UNCHANGED <<submitted, done, faults>>
            Refined == [Delivery!Next]_Delivery!vars
            Others(w) == \A v \in Workers \ {w} : pc'[v] = pc[v] /\ job'[v] = job[v]
<1>a. Stutter => Refined
  BY DEF owedNow, Delivery!vars
<1>b. ASSUME owedNow' = owedNow, Fault, UNCHANGED <<submitted, done>>
      PROVE  Refined
  BY <1>b DEF owedNow, Fault, Delivery!Next, Delivery!Survive, Delivery!Fault
<1>c. ASSUME NEW j \in Jobs, \A k \in Jobs : Owed(k) = Owed(k)' + Bit(k = j), Owed(j) > 0,
             Fault, UNCHANGED <<submitted, done>>
      PROVE  Refined
  <2>1. owedNow' = [owedNow EXCEPT ![j] = @ - 1] /\ owedNow[j] > 0
    BY <1>0, <1>c, OwedFunction DEF Bit
  <2>2. Delivery!Lose(j)
    BY <1>c, <2>1 DEF owedNow, Fault, Delivery!Lose, Delivery!Fault
  <2>. QED  BY <2>2 DEF Delivery!Next
<1>1. ASSUME NEW j \in Jobs, Enqueue(j)
      PROVE  Refined
  <2>1. \A k \in Jobs : Owed(k)' = Owed(k) + Bit(k = j)
    <3>. SUFFICES ASSUME NEW k \in Jobs PROVE Owed(k)' = Owed(k) + Bit(k = j)
      OBVIOUS
    <3>1. Queued(k)' = Queued(k) + Bit(j = k)
      BY <1>0, <1>1, ListDeltas DEF Enqueue, Bit
    <3>2. Pending(k)' = Pending(k)
      BY <1>1 DEF Enqueue, Pending, Count
    <3>3. Queued(k) \in Nat /\ Pending(k) \in Nat
      BY <1>0, OwedType, CountsTyped
    <3>. QED  BY <3>1, <3>2, <3>3 DEF Owed, Pending, Bit
  <2>2. owedNow' = [owedNow EXCEPT ![j] = @ + 1]
    BY <1>0, <2>1, OwedFunction DEF Bit
  <2>3. Delivery!Submit(j)
    BY <1>1, <2>2 DEF owedNow, Enqueue, Plus1, Delivery!Submit
  <2>. QED  BY <2>3 DEF Delivery!Next
<1>2. ASSUME NEW w \in Workers, Dequeue(w)
      PROVE  Refined
  <2>1. /\ pc[w] = "idle" /\ pc'[w] = "handling" /\ Others(w)
        /\ job'[w] = queue[Len(queue)] /\ PopTail
        /\ UNCHANGED <<submitted, done, faults>>
    BY <1>2, <1>0 DEF Dequeue, Goto, WorkersTyped
  <2>2. ASSUME NEW k \in Jobs PROVE Owed(k)' = Owed(k)
    <3>. DEFINE b == Bit(job'[w] = k)
    <3>1. Queued(k) = Queued(k)' + b /\ b \in Nat
      BY <1>0, <2>1, ListDeltas DEF Bit
    <3>2. Owed(k)' + 0 + Queued(k) = Owed(k) + b + Queued(k)'
      BY <1>0, <2>1, OwedStep DEF Active, Bit
    <3>. HIDE DEF b
    <3>. QED  BY <1>0, <3>1, <3>2, OwedType
  <2>. QED  BY <1>0, <1>a, <2>1, <2>2, OwedSame
<1>3. ASSUME NEW w \in Workers, DequeueRaises(w)
      PROVE  Refined
  <2>1. /\ pc[w] = "idle" /\ pc'[w] = "stopped" /\ Others(w)
        /\ Fault /\ UNCHANGED <<submitted, done>>
        /\ PopTail \/ UNCHANGED <<queue, processing>>
    BY <1>3, <1>0 DEF DequeueRaises, Stop, WorkersTyped
  <2>2. ASSUME NEW k \in Jobs PROVE Owed(k)' + Queued(k) = Owed(k) + Queued(k)'
    <3>1. Owed(k)' + 0 + Queued(k) = Owed(k) + 0 + Queued(k)'
      BY <1>0, <2>1, OwedStep DEF Active, Bit
    <3>. QED  BY <1>0, <3>1, OwedType
  <2>3. CASE PopTail
    <3>1. PICK x \in Jobs : \A k \in Jobs : Queued(k) = Queued(k)' + Bit(x = k)
      <4>1. queue[Len(queue)] \in Jobs
        BY <1>0, <2>3, PopTailTyped
      <4>2. \A k \in Jobs : Queued(k) = Queued(k)' + Bit(queue[Len(queue)] = k)
        BY <1>0, <2>3, ListDeltas DEF Bit
      <4>. QED  BY <4>1, <4>2
    <3>2. ASSUME NEW k \in Jobs PROVE Owed(k) = Owed(k)' + Bit(k = x)
      BY <1>0, <2>2, <3>1, OwedType DEF Bit
    <3>3. Owed(x) > 0
      BY <1>0, <3>2, OwedType DEF Bit
    <3>. QED  BY <1>c, <2>1, <3>2, <3>3 DEF Bit
  <2>4. CASE UNCHANGED <<queue, processing>>
    <3>1. ASSUME NEW k \in Jobs PROVE Owed(k)' = Owed(k)
      <4>1. Queued(k)' = Queued(k)
        BY <2>4 DEF Queued
      <4>. QED  BY <1>0, <2>2, <4>1, OwedType
    <3>. QED  BY <1>0, <1>b, <2>1, <3>1, OwedSame
  <2>. QED  BY <2>1, <2>3, <2>4
<1>4. ASSUME NEW w \in Workers, HandlerSucceeds(w)
      PROVE  Refined
  <2>1. /\ pc[w] = "handling" /\ pc'[w] = "acking" /\ Others(w) /\ job[w] \in Jobs
        /\ done' = Plus1(done, job[w]) /\ UNCHANGED <<queue, submitted, faults>>
    BY <1>4, <1>0, BusyHasJob DEF HandlerSucceeds, Goto, WorkersTyped, Busy
  <2>2. ASSUME NEW k \in Jobs PROVE Owed(k) = Owed(k)' + Bit(k = job[w])
    BY <1>0, <2>1, LeavesActive DEF Bit, Active
  <2>3. owedNow' = [owedNow EXCEPT ![job[w]] = @ - 1]
    BY <1>0, <2>1, <2>2, OwedFunction DEF Bit
  <2>4. owedNow[job[w]] > 0
    BY <1>0, <2>1, OwedStep, OwedFunction DEF Active
  <2>5. Delivery!Complete(job[w])
    BY <2>1, <2>3, <2>4 DEF owedNow, Plus1, Delivery!Complete
  <2>. QED  BY <2>1, <2>5 DEF Delivery!Next
<1>5. ASSUME NEW w \in Workers, HandlerRaises(w)
      PROVE  Refined
  <2>1. /\ pc[w] = "handling" /\ pc'[w] = "nacking" /\ job'[w] = job[w] /\ Others(w)
        /\ Fault /\ UNCHANGED <<queue, submitted, done>>
    BY <1>5, <1>0 DEF HandlerRaises, Goto, WorkersTyped
  <2>. QED  BY <1>0, <1>b, <2>1, OwedSame, StaysSo DEF Active
<1>6. ASSUME NEW w \in Workers, Ack(w)
      PROVE  Refined
  <2>1. /\ pc[w] = "acking" /\ pc'[w] = "idle" /\ Others(w)
        /\ UNCHANGED <<queue, submitted, done, faults>>
    BY <1>6, <1>0 DEF Ack, Goto, WorkersTyped
  <2>. QED  BY <1>0, <1>a, <2>1, OwedSame, StaysSo DEF Active
<1>7. ASSUME NEW w \in Workers, AckRaises(w)
      PROVE  Refined
  <2>1. /\ pc[w] = "acking" /\ pc'[w] = "nacking" /\ Others(w)
        /\ job[w] \in Jobs /\ job'[w] = job[w]
        /\ Fault /\ UNCHANGED <<queue, submitted, done>>
    BY <1>7, <1>0, BusyHasJob DEF AckRaises, Goto, WorkersTyped, Busy
  <2>2. ASSUME NEW k \in Jobs PROVE Owed(k)' = Owed(k) + Bit(k = job[w])
    <3>1. Queued(k)' = Queued(k)
      BY <2>1 DEF Queued
    <3>2. Owed(k)' + 0 + Queued(k) = Owed(k) + Bit(k = job[w]) + Queued(k)'
      BY <1>0, <2>1, OwedStep DEF Active, Bit
    <3>. QED  BY <1>0, <3>1, <3>2, OwedType DEF Bit
  <2>3. owedNow' = [owedNow EXCEPT ![job[w]] = @ + 1]
    BY <1>0, <2>1, <2>2, OwedFunction DEF Bit
  <2>4. done[job[w]] > 0
    <3>. DEFINE A == {v \in Workers : pc[v] \in {"acking"} /\ job[v] = job[w]}
    <3>1. IsFiniteSet(A) /\ w \in A
      BY <2>1, FS_Subset, WorkQueueAssumption
    <3>2. Cardinality(A) # 0
      BY <3>1, FS_EmptySet
    <3>3. Count({"acking"}, job[w]) # 0
      BY <3>2 DEF Count
    <3>4. Count({"acking"}, job[w]) \in Nat /\ done[job[w]] \in Nat
      BY <1>0, <2>1, CountType DEF TypeOK
    <3>. QED  BY <1>0, <2>1, <3>3, <3>4
  <2>5. Delivery!Redeliver(job[w])
    BY <2>1, <2>3, <2>4 DEF owedNow, Fault, Delivery!Redeliver, Delivery!Fault
  <2>. QED  BY <2>1, <2>5 DEF Delivery!Next
<1>8. ASSUME NEW w \in Workers, NackRemove(w)
      PROVE  Refined
  <2>1. /\ pc[w] = "nacking" /\ pc'[w] = "requeueing" /\ job'[w] = job[w] /\ Others(w)
        /\ UNCHANGED <<queue, submitted, done, faults>>
    BY <1>8, <1>0 DEF NackRemove, Goto, WorkersTyped
  <2>. QED  BY <1>0, <1>a, <2>1, OwedSame, StaysSo DEF Active
<1>9. ASSUME NEW w \in Workers, NackRemoveRaises(w)
      PROVE  Refined
  <2>1. /\ pc[w] = "nacking" /\ pc'[w] = "stopped" /\ Others(w) /\ job[w] \in Jobs
        /\ Fault /\ UNCHANGED <<queue, submitted, done>>
    BY <1>9, <1>0, BusyHasJob DEF NackRemoveRaises, Stop, WorkersTyped, Busy
  <2>2. ASSUME NEW k \in Jobs PROVE Owed(k) = Owed(k)' + Bit(k = job[w])
    BY <1>0, <2>1, LeavesActive DEF Bit, Active
  <2>. QED  BY <1>0, <1>c, <2>1, <2>2, OwedStep DEF Active, Bit
<1>10. ASSUME NEW w \in Workers, Requeue(w)
       PROVE  Refined
  <2>1. /\ pc[w] = "requeueing" /\ pc'[w] = "stopped" /\ Others(w) /\ job[w] \in Jobs
        /\ RPush(job[w]) /\ UNCHANGED <<submitted, done, faults>>
    BY <1>10, <1>0, BusyHasJob DEF Requeue, Stop, WorkersTyped, Busy
  <2>. QED  BY <1>0, <1>a, <2>1, OwedSame, PushesBack DEF Active
<1>11. ASSUME NEW w \in Workers, RequeueRaises(w)
       PROVE  Refined
  <2>1. /\ pc[w] = "requeueing" /\ pc'[w] = "stopped" /\ Others(w) /\ job[w] \in Jobs
        /\ Fault /\ UNCHANGED <<submitted, done>>
        /\ RPush(job[w]) \/ UNCHANGED queue
    BY <1>11, <1>0, BusyHasJob DEF RequeueRaises, Stop, WorkersTyped, Busy
  <2>2. CASE RPush(job[w])
    BY <1>0, <1>b, <2>1, <2>2, OwedSame, PushesBack DEF Active
  <2>3. CASE UNCHANGED queue
    <3>1. ASSUME NEW k \in Jobs PROVE Owed(k) = Owed(k)' + Bit(k = job[w])
      BY <1>0, <2>1, <2>3, LeavesActive DEF Bit, Active
    <3>. QED  BY <1>0, <1>c, <2>1, <3>1, OwedStep DEF Active, Bit
  <2>. QED  BY <2>1, <2>2, <2>3
<1>12. ASSUME NEW w \in Workers, Interrupt(w)
       PROVE  Refined
  <2>1. /\ pc'[w] = "stopped" /\ Others(w)
        /\ Fault /\ UNCHANGED <<queue, submitted, done>>
    BY <1>12, <1>0 DEF Interrupt, Stop, WorkersTyped
  <2>2. CASE pc[w] \in Active
    <3>1. job[w] \in Jobs
      BY <1>0, <2>2, BusyHasJob DEF Active, Busy
    <3>2. ASSUME NEW k \in Jobs PROVE Owed(k) = Owed(k)' + Bit(k = job[w])
      BY <1>0, <2>1, <2>2, LeavesActive DEF Bit, Active
    <3>. QED  BY <1>0, <1>c, <2>1, <2>2, <3>1, <3>2, OwedStep DEF Bit
  <2>3. CASE pc[w] \notin Active
    BY <1>0, <1>b, <2>1, <2>3, OwedSame, StaysSo DEF Active
  <2>. QED  BY <2>2, <2>3
<1>13. ASSUME NEW w \in Workers, Start(w)
       PROVE  Refined
  <2>1. /\ pc[w] = "stopped" /\ pc'[w] = "idle" /\ Others(w)
        /\ UNCHANGED <<queue, submitted, done, faults>>
    BY <1>13, <1>0 DEF Start, Goto, WorkersTyped
  <2>. QED  BY <1>0, <1>a, <2>1, OwedSame, StaysSo DEF Active
<1>14. ASSUME UNCHANGED vars
       PROVE  Refined
  BY <1>a, <1>14 DEF vars, owedNow, Owed, Queued, Count
<1>. HIDE DEF Refined
<1>15. Refined
  BY <1>1, <1>2, <1>3, <1>4, <1>5, <1>6, <1>7, <1>8, <1>9, <1>10, <1>11,
     <1>12, <1>13, <1>14 DEF Next, Proceed, GoWrong, DequeueEmpty
<1>. QED  BY <1>15 DEF Refined

(* The lists, acknowledgements and workers deliver what JobDelivery says:  *)
(* each copy is completed once, and each fault loses or repeats at most    *)
(* one.                                                                    *)
THEOREM Refinement == Spec => DeliverySpec
<1>. QED  BY Invariance, InitRefines, StepRefines, PTL DEF Spec, DeliverySpec, Delivery!Spec
=============================================================================

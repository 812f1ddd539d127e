--------------------------- MODULE WorkQueueProofs ---------------------------
(* Theorems about WorkQueue, for any payloads, any finite set of workers   *)
(* and any bounds.                                                         *)
EXTENDS WorkQueue, FiniteSetTheorems, SequenceTheorems, TLAPS

Bit(b) == IF b THEN 1 ELSE 0

(* Two sets that differ at most in w differ in size by what w contributes. *)
LEMMA FlipCardinality ==
  ASSUME NEW S, IsFiniteSet(S), NEW A \in SUBSET S, NEW B \in SUBSET S, NEW w \in S,
         A \ {w} = B \ {w}
  PROVE  /\ Cardinality(A) \in Nat
         /\ Cardinality(B) \in Nat
         /\ Cardinality(B) + Bit(w \in A) = Cardinality(A) + Bit(w \in B)
<1>1. IsFiniteSet(A) /\ IsFiniteSet(B)
  BY FS_Subset
<1>2. Cardinality(A) \in Nat /\ Cardinality(B) \in Nat
  BY <1>1, FS_CardinalityType
<1>3. CASE w \in A <=> w \in B
  <2>1. A = B
    BY <1>3
  <2>. QED  BY <1>2, <1>3, <2>1 DEF Bit
<1>4. CASE w \in A /\ w \notin B
  <2>1. B = A \ {w}
    BY <1>4
  <2>2. Cardinality(B) = Cardinality(A) - 1
    BY <1>1, <1>4, <2>1, FS_RemoveElement
  <2>. QED  BY <1>2, <1>4, <2>2 DEF Bit
<1>5. CASE w \notin A /\ w \in B
  <2>1. A = B \ {w}
    BY <1>5
  <2>2. Cardinality(A) = Cardinality(B) - 1
    BY <1>1, <1>5, <2>1, FS_RemoveElement
  <2>. QED  BY <1>2, <1>5, <2>2 DEF Bit
<1>. QED  BY <1>3, <1>4, <1>5

(* Occurrences is a natural number, 0 in the empty list.                   *)
LEMMA OccurrencesType ==
  ASSUME NEW T, NEW q \in Seq(T), NEW j
  PROVE  Occurrences(q, j) \in Nat
<1>1. IsFiniteSet(1..Len(q))
  BY FS_Interval
<1>2. IsFiniteSet({i \in 1..Len(q) : q[i] = j})
  BY <1>1, FS_Subset
<1>. QED  BY <1>2, FS_CardinalityType DEF Occurrences

(* RPUSH adds one occurrence of what it pushes.                            *)
LEMMA OccurrencesAppend ==
  ASSUME NEW T, NEW q \in Seq(T), NEW x \in T, NEW j
  PROVE  Occurrences(Append(q, x), j) = Occurrences(q, j) + Bit(x = j)
<1>. DEFINE A == {i \in 1..Len(q) : q[i] = j}
            B == {i \in 1..Len(Append(q, x)) : Append(q, x)[i] = j}
            n == Len(q) + 1
<1>1. A \ {n} = B \ {n} /\ (n \in B <=> x = j) /\ n \notin A
  OBVIOUS
<1>. DEFINE S == 1..n
<1>2. A \in SUBSET S /\ B \in SUBSET S /\ IsFiniteSet(S) /\ n \in S
  BY FS_Interval
<1>. HIDE DEF A, B, n, S
<1>3. Cardinality(B) + Bit(n \in A) = Cardinality(A) + Bit(n \in B)
      /\ Cardinality(A) \in Nat /\ Cardinality(B) \in Nat
  BY <1>1, <1>2, FlipCardinality DEF Bit
<1>4. Occurrences(q, j) = Cardinality(A) /\ Occurrences(Append(q, x), j) = Cardinality(B)
  BY DEF Occurrences, A, B
<1>. QED  BY <1>1, <1>3, <1>4 DEF Bit

(* A list is what precedes its tail, followed by its tail.                 *)
LEMMA FrontAndTail ==
  ASSUME NEW T, NEW q \in Seq(T), NEW k \in Nat, Len(q) = k + 1
  PROVE  /\ q[k + 1] \in T
         /\ SubSeq(q, 1, k) \in Seq(T)
         /\ q = Append(SubSeq(q, 1, k), q[k + 1])
<1>1. /\ q[k + 1] \in T
      /\ SubSeq(q, 1, k) \in Seq(T)
      /\ Len(SubSeq(q, 1, k)) = k
      /\ \A i \in 1..k : SubSeq(q, 1, k)[i] = q[i]
  OBVIOUS
<1>. QED  BY <1>1

(* BRPOPLPUSH removes one occurrence of what stands at the tail.           *)
LEMMA OccurrencesPop ==
  ASSUME NEW T, NEW q \in Seq(T), q # <<>>, NEW j
  PROVE  /\ q[Len(q)] \in T
         /\ SubSeq(q, 1, Len(q) - 1) \in Seq(T)
         /\ Occurrences(q, j)
              = Occurrences(SubSeq(q, 1, Len(q) - 1), j) + Bit(q[Len(q)] = j)
<1>1. PICK k \in Nat : Len(q) = k + 1
  <2>1. Len(q) - 1 \in Nat /\ Len(q) = (Len(q) - 1) + 1
    OBVIOUS
  <2>. QED  BY <2>1
<1>2. Len(q) - 1 = k
  BY <1>1
<1>. DEFINE r == SubSeq(q, 1, k)
            x == q[k + 1]
<1>3. r \in Seq(T) /\ x \in T /\ q = Append(r, x)
  BY <1>1, FrontAndTail
<1>. HIDE DEF r, x
<1>4. Occurrences(Append(r, x), j) = Occurrences(r, j) + Bit(x = j)
  BY <1>3, OccurrencesAppend DEF Bit
<1>. QED  BY <1>1, <1>2, <1>3, <1>4 DEF r, x

-----------------------------------------------------------------------------
(* The workers' states, counted.                                           *)

LEMMA CountType ==
  ASSUME NEW j
  PROVE  /\ \A S : Count(S, j) \in Nat /\ Count(S, j) <= Held(j)
         /\ \A S : Count(S, j)' \in Nat /\ Count(S, j)' <= Held(j)'
         /\ Held(j) \in Nat /\ Held(j)' \in Nat
<1>1. \A A, B : A \subseteq B /\ B \subseteq Workers =>
        Cardinality(A) \in Nat /\ Cardinality(B) \in Nat /\ Cardinality(A) <= Cardinality(B)
  BY FS_Subset, FS_CardinalityType, WorkQueueAssumption
<1>. QED  BY <1>1 DEF Count, Held

(* A step of one worker changes each count by what that worker contributes *)
(* before and after.                                                       *)
LEMMA CountStep ==
  ASSUME NEW w \in Workers, NEW j, NEW S,
         \A v \in Workers \ {w} : pc'[v] = pc[v] /\ job'[v] = job[v]
  PROVE  /\ Count(S, j)' + Bit(pc[w] \in S /\ job[w] = j)
              = Count(S, j) + Bit(pc'[w] \in S /\ job'[w] = j)
         /\ Held(j)' + Bit(job[w] = j) = Held(j) + Bit(job'[w] = j)
<1>. DEFINE A == {v \in Workers : pc[v] \in S /\ job[v] = j}
            B == {v \in Workers : pc'[v] \in S /\ job'[v] = j}
            C == {v \in Workers : job[v] = j}
            D == {v \in Workers : job'[v] = j}
<1>1. /\ A \in SUBSET Workers /\ B \in SUBSET Workers /\ A \ {w} = B \ {w}
      /\ C \in SUBSET Workers /\ D \in SUBSET Workers /\ C \ {w} = D \ {w}
      /\ w \in A <=> pc[w] \in S /\ job[w] = j
      /\ w \in B <=> pc'[w] \in S /\ job'[w] = j
      /\ w \in C <=> job[w] = j
      /\ w \in D <=> job'[w] = j
  OBVIOUS
<1>2. /\ Count(S, j) = Cardinality(A) /\ Count(S, j)' = Cardinality(B)
      /\ Held(j) = Cardinality(C) /\ Held(j)' = Cardinality(D)
  BY DEF Count, Held
<1>. HIDE DEF A, B, C, D
<1>3. Cardinality(B) + Bit(w \in A) = Cardinality(A) + Bit(w \in B)
  BY <1>1, FlipCardinality, WorkQueueAssumption DEF Bit
<1>4. Cardinality(D) + Bit(w \in C) = Cardinality(C) + Bit(w \in D)
  BY <1>1, FlipCardinality, WorkQueueAssumption DEF Bit
<1>. QED  BY <1>1, <1>2, <1>3, <1>4 DEF Bit

-----------------------------------------------------------------------------
(* Type correctness.                                                       *)

LEMMA InitTyped == Init => TypeOK /\ JobHeld
  BY WorkQueueAssumption DEF Init, TypeOK, JobHeld, PCs

LEMMA PopTailTyped ==
  ASSUME TypeOK, PopTail
  PROVE  /\ queue' \in Seq(Jobs) /\ queue[Len(queue)] \in Jobs
         /\ processing' \in [Jobs -> Nat]
  BY OccurrencesPop DEF TypeOK, PopTail, Plus1

LEMMA UpdatesTyped ==
  ASSUME TypeOK, NEW k \in Jobs
  PROVE  /\ RPush(k) => queue' \in Seq(Jobs)
         /\ LRem(k) => processing' \in [Jobs -> Nat]
         /\ Plus1(done, k) \in [Jobs -> Nat]
         /\ Plus1(dropped, k) \in [Jobs -> Nat]
         /\ Fault => faults' \in 0..MaxFaults
<1>1. RPush(k) => queue' \in Seq(Jobs)
  BY AppendProperties DEF TypeOK, RPush
<1>2. LRem(k) => processing' \in [Jobs -> Nat]
  <2>1. (IF processing[k] > 0 THEN processing[k] - 1 ELSE 0) \in Nat
    BY DEF TypeOK
  <2>. QED  BY <2>1 DEF TypeOK, LRem
<1>3. Plus1(done, k) \in [Jobs -> Nat] /\ Plus1(dropped, k) \in [Jobs -> Nat]
  BY DEF TypeOK, Plus1
<1>4. Fault => faults' \in 0..MaxFaults
  BY WorkQueueAssumption DEF TypeOK, Fault
<1>. QED  BY <1>1, <1>2, <1>3, <1>4

Busy == {"handling", "acking", "nacking", "requeueing"}

WorkersTyped ==
  /\ pc \in [Workers -> PCs]
  /\ job \in [Workers -> Jobs \cup {NoJob}]
  /\ JobHeld

LEMMA BusyHasJob ==
  ASSUME WorkersTyped, NEW w \in Workers, pc[w] \in Busy
  PROVE  job[w] \in Jobs
  BY DEF WorkersTyped, JobHeld, Busy

LEMMA StopTyped ==
  ASSUME WorkersTyped, NEW w \in Workers, Stop(w)
  PROVE  WorkersTyped'
<1>1. /\ pc' \in [Workers -> PCs] /\ job' \in [Workers -> Jobs \cup {NoJob}]
      /\ pc'[w] = "stopped" /\ job'[w] = NoJob
      /\ \A v \in Workers \ {w} : pc'[v] = pc[v] /\ job'[v] = job[v]
  BY DEF WorkersTyped, Stop, PCs
<1>. QED  BY <1>1 DEF WorkersTyped, JobHeld

LEMMA GotoTyped ==
  ASSUME WorkersTyped, NEW w \in Workers, NEW from \in Busy, NEW to \in Busy,
         Goto(w, from, to), job' = job
  PROVE  WorkersTyped'
<1>1. /\ pc' \in [Workers -> PCs] /\ pc[w] = from /\ pc'[w] = to
      /\ \A v \in Workers \ {w} : pc'[v] = pc[v]
  BY DEF WorkersTyped, Goto, PCs, Busy
<1>. QED  BY <1>1 DEF WorkersTyped, JobHeld, Busy

(* Each step keeps the types and keeps a worker's job and its place in     *)
(* process_one consistent.                                                 *)
LEMMA StepTyped ==
  ASSUME TypeOK, JobHeld, [Next]_vars
  PROVE  TypeOK' /\ JobHeld'
<1>. DEFINE Data == /\ queue \in Seq(Jobs)
                    /\ processing \in [Jobs -> Nat]
                    /\ submitted \in [Jobs -> 0..MaxEnqueue]
                    /\ done \in [Jobs -> Nat]
                    /\ dropped \in [Jobs -> Nat]
                    /\ faults \in 0..MaxFaults
<1>0. WorkersTyped /\ Data
  BY DEF TypeOK, WorkersTyped
<1>1. ASSUME NEW j \in Jobs, Enqueue(j)
      PROVE  WorkersTyped' /\ Data'
  <2>1. submitted' \in [Jobs -> 0..MaxEnqueue]
    BY <1>0, <1>1, WorkQueueAssumption DEF Enqueue, Plus1
  <2>. QED  BY <1>0, <1>1, <2>1, UpdatesTyped DEF Enqueue, WorkersTyped, JobHeld
<1>2. ASSUME NEW w \in Workers, Dequeue(w)
      PROVE  WorkersTyped' /\ Data'
  <2>1. Data' /\ queue[Len(queue)] \in Jobs
    BY <1>0, <1>2, PopTailTyped DEF Dequeue
  <2>2. /\ pc' \in [Workers -> PCs] /\ job' \in [Workers -> Jobs \cup {NoJob}]
        /\ pc'[w] = "handling" /\ job'[w] # NoJob
        /\ \A v \in Workers \ {w} : pc'[v] = pc[v] /\ job'[v] = job[v]
    BY <1>0, <1>2, <2>1, WorkQueueAssumption DEF Dequeue, Goto, PCs, WorkersTyped
  <2>. QED  BY <1>0, <2>1, <2>2 DEF WorkersTyped, JobHeld
<1>3. ASSUME NEW w \in Workers, HandlerSucceeds(w)
      PROVE  WorkersTyped' /\ Data'
  <2>1. job[w] \in Jobs /\ WorkersTyped'
    BY <1>0, <1>3, BusyHasJob, GotoTyped DEF HandlerSucceeds, Goto, Busy
  <2>. QED  BY <1>0, <1>3, <2>1, UpdatesTyped DEF HandlerSucceeds
<1>4. ASSUME NEW w \in Workers, Ack(w)
      PROVE  WorkersTyped' /\ Data'
  <2>1. job[w] \in Jobs
    BY <1>0, <1>4, BusyHasJob DEF Ack, Goto, Busy
  <2>2. /\ pc' \in [Workers -> PCs] /\ job' \in [Workers -> Jobs \cup {NoJob}]
        /\ pc'[w] = "idle" /\ job'[w] = NoJob
        /\ \A v \in Workers \ {w} : pc'[v] = pc[v] /\ job'[v] = job[v]
    BY <1>0, <1>4 DEF Ack, Goto, PCs, WorkersTyped
  <2>3. WorkersTyped'
    BY <1>0, <2>2 DEF WorkersTyped, JobHeld
  <2>. QED  BY <1>0, <1>4, <2>1, <2>3, UpdatesTyped DEF Ack
<1>5. ASSUME NEW w \in Workers, NackRemove(w)
      PROVE  WorkersTyped' /\ Data'
  <2>1. job[w] \in Jobs /\ WorkersTyped'
    BY <1>0, <1>5, BusyHasJob, GotoTyped DEF NackRemove, Goto, Busy
  <2>. QED  BY <1>0, <1>5, <2>1, UpdatesTyped DEF NackRemove
<1>6. ASSUME NEW w \in Workers, Requeue(w)
      PROVE  WorkersTyped' /\ Data'
  <2>1. job[w] \in Jobs /\ WorkersTyped'
    BY <1>0, <1>6, BusyHasJob, StopTyped DEF Requeue, Busy
  <2>. QED  BY <1>0, <1>6, <2>1, UpdatesTyped DEF Requeue
<1>7. ASSUME NEW w \in Workers, DequeueRaises(w)
      PROVE  WorkersTyped' /\ Data'
  <2>1. WorkersTyped'
    BY <1>0, <1>7, StopTyped DEF DequeueRaises
  <2>2. queue' \in Seq(Jobs) /\ processing' \in [Jobs -> Nat]
    BY <1>0, <1>7, PopTailTyped DEF DequeueRaises
  <2>3. faults' \in 0..MaxFaults
    BY <1>0, <1>7, WorkQueueAssumption DEF DequeueRaises, Fault
  <2>. QED  BY <1>0, <1>7, <2>1, <2>2, <2>3 DEF DequeueRaises
<1>8. ASSUME NEW w \in Workers, HandlerRaises(w)
      PROVE  WorkersTyped' /\ Data'
  <2>1. job[w] \in Jobs /\ WorkersTyped'
    BY <1>0, <1>8, BusyHasJob, GotoTyped DEF HandlerRaises, Goto, Busy
  <2>. QED  BY <1>0, <1>8, <2>1, UpdatesTyped DEF HandlerRaises
<1>9. ASSUME NEW w \in Workers, AckRaises(w)
      PROVE  WorkersTyped' /\ Data'
  <2>1. job[w] \in Jobs /\ WorkersTyped'
    BY <1>0, <1>9, BusyHasJob, GotoTyped DEF AckRaises, Goto, Busy
  <2>. QED  BY <1>0, <1>9, <2>1, UpdatesTyped DEF AckRaises
<1>10. ASSUME NEW w \in Workers, NackRemoveRaises(w)
       PROVE  WorkersTyped' /\ Data'
  <2>1. job[w] \in Jobs /\ WorkersTyped'
    BY <1>0, <1>10, BusyHasJob, StopTyped DEF NackRemoveRaises, Busy
  <2>. QED  BY <1>0, <1>10, <2>1, UpdatesTyped DEF NackRemoveRaises
<1>11. ASSUME NEW w \in Workers, RequeueRaises(w)
       PROVE  WorkersTyped' /\ Data'
  <2>1. job[w] \in Jobs /\ WorkersTyped'
    BY <1>0, <1>11, BusyHasJob, StopTyped DEF RequeueRaises, Busy
  <2>. QED  BY <1>0, <1>11, <2>1, UpdatesTyped DEF RequeueRaises
<1>12. ASSUME NEW w \in Workers, Interrupt(w)
       PROVE  WorkersTyped' /\ Data'
  <2>1. WorkersTyped' /\ (pc[w] = "requeueing" => job[w] \in Jobs)
    BY <1>0, <1>12, BusyHasJob, StopTyped DEF Interrupt, Busy
  <2>2. faults' \in 0..MaxFaults
    BY <1>0, <1>12, WorkQueueAssumption DEF Interrupt, Fault
  <2>3. dropped' \in [Jobs -> Nat]
    BY <1>0, <1>12, <2>1, UpdatesTyped DEF Interrupt
  <2>. QED  BY <1>0, <1>12, <2>1, <2>2, <2>3 DEF Interrupt
<1>13. ASSUME NEW w \in Workers, Start(w)
       PROVE  WorkersTyped' /\ Data'
  <2>1. /\ pc' \in [Workers -> PCs] /\ pc[w] = "stopped" /\ pc'[w] = "idle"
        /\ job' = job
        /\ \A v \in Workers \ {w} : pc'[v] = pc[v]
    BY <1>0, <1>13 DEF Start, Goto, PCs, WorkersTyped
  <2>. QED  BY <1>0, <1>13, <2>1 DEF Start, WorkersTyped, JobHeld
<1>14. ASSUME UNCHANGED vars
       PROVE  WorkersTyped' /\ Data'
  BY <1>0, <1>14 DEF vars, WorkersTyped, JobHeld
<1>. HIDE DEF Data
<1>15. WorkersTyped' /\ Data'
  BY <1>1, <1>2, <1>3, <1>4, <1>5, <1>6, <1>7, <1>8, <1>9, <1>10, <1>11,
     <1>12, <1>13, <1>14 DEF Next, Proceed, GoWrong, DequeueEmpty
<1>. QED
  BY <1>15 DEF WorkersTyped, TypeOK, Data

(* The variables keep their types, whatever fails.                         *)
THEOREM TypeCorrect == Spec => []TypeOK
<1>. QED  BY InitTyped, StepTyped, PTL DEF Spec

-----------------------------------------------------------------------------
(* The inductive invariant.                                                *)

Acking(j) == Count({"acking"}, j)
Requeueing(j) == Count({"requeueing"}, j)
Pending(j) == Count({"handling", "nacking", "requeueing"}, j)

LEMMA CountsTyped ==
  ASSUME NEW j
  PROVE  /\ Acking(j) \in Nat /\ Acking(j)' \in Nat
         /\ Requeueing(j) \in Nat /\ Requeueing(j)' \in Nat
         /\ Pending(j) \in Nat /\ Pending(j)' \in Nat
         /\ Held(j) \in Nat /\ Held(j)' \in Nat
         /\ Requeueing(j) <= Held(j) /\ Requeueing(j)' <= Held(j)'
  BY CountType DEF Acking, Requeueing, Pending

Moved(w, j) ==
  /\ Acking(j)' + Bit(pc[w] = "acking" /\ job[w] = j)
       = Acking(j) + Bit(pc'[w] = "acking" /\ job'[w] = j)
  /\ Requeueing(j)' + Bit(pc[w] = "requeueing" /\ job[w] = j)
       = Requeueing(j) + Bit(pc'[w] = "requeueing" /\ job'[w] = j)
  /\ Pending(j)' + Bit(pc[w] \in {"handling", "nacking", "requeueing"} /\ job[w] = j)
       = Pending(j) + Bit(pc'[w] \in {"handling", "nacking", "requeueing"} /\ job'[w] = j)
  /\ Held(j)' + Bit(job[w] = j) = Held(j) + Bit(job'[w] = j)

LEMMA Deltas ==
  ASSUME NEW w \in Workers, NEW j,
         \A v \in Workers \ {w} : pc'[v] = pc[v] /\ job'[v] = job[v]
  PROVE  Moved(w, j)
<1>1. \A S : Count(S, j)' + Bit(pc[w] \in S /\ job[w] = j)
               = Count(S, j) + Bit(pc'[w] \in S /\ job'[w] = j)
  BY CountStep DEF Bit
<1>2. Held(j)' + Bit(job[w] = j) = Held(j) + Bit(job'[w] = j)
  BY CountStep DEF Bit
<1>. QED  BY <1>1, <1>2 DEF Moved, Acking, Requeueing, Pending, Bit

(* What a worker's step does to the lists' sizes.                          *)
LEMMA ListDeltas ==
  ASSUME TypeOK, NEW j \in Jobs
  PROVE  /\ Queued(j) \in Nat
         /\ \A k \in Jobs : RPush(k) => Queued(j)' = Queued(j) + Bit(k = j)
         /\ PopTail => /\ queue[Len(queue)] \in Jobs
                       /\ Queued(j)' \in Nat
                       /\ Queued(j) = Queued(j)' + Bit(queue[Len(queue)] = j)
                       /\ processing'[j] = processing[j] + Bit(queue[Len(queue)] = j)
         /\ \A k \in Jobs :
              LRem(k) => processing'[j] = IF k = j /\ processing[j] > 0
                                            THEN processing[j] - 1 ELSE processing[j]
<1>1. Queued(j) \in Nat
  BY OccurrencesType DEF TypeOK, Queued
<1>2. ASSUME NEW k \in Jobs, RPush(k)
      PROVE  Queued(j)' = Queued(j) + Bit(k = j)
  BY <1>2, OccurrencesAppend DEF TypeOK, RPush, Queued, Bit
<1>3. ASSUME PopTail
      PROVE  /\ queue[Len(queue)] \in Jobs
             /\ Queued(j)' \in Nat
             /\ Queued(j) = Queued(j)' + Bit(queue[Len(queue)] = j)
             /\ processing'[j] = processing[j] + Bit(queue[Len(queue)] = j)
  <2>1. queue \in Seq(Jobs) /\ queue # <<>> /\ queue' = SubSeq(queue, 1, Len(queue) - 1)
    BY <1>3 DEF TypeOK, PopTail
  <2>2. /\ queue[Len(queue)] \in Jobs
        /\ queue' \in Seq(Jobs)
        /\ Occurrences(queue, j) = Occurrences(queue', j) + Bit(queue[Len(queue)] = j)
    BY <2>1, OccurrencesPop DEF Bit
  <2>3. Occurrences(queue', j) \in Nat
    BY <2>2, OccurrencesType
  <2>4. processing'[j] = processing[j] + Bit(queue[Len(queue)] = j)
    BY <1>3, <2>2 DEF TypeOK, PopTail, Plus1, Bit
  <2>. QED  BY <2>2, <2>3, <2>4 DEF Queued
<1>4. ASSUME NEW k \in Jobs, LRem(k)
      PROVE  processing'[j] = IF k = j /\ processing[j] > 0
                                THEN processing[j] - 1 ELSE processing[j]
  BY <1>4 DEF TypeOK, LRem
<1>. QED  BY <1>1, <1>2, <1>3, <1>4

LEMMA InitInv == Init => WorkQueueInv
<1>. SUFFICES ASSUME Init PROVE WorkQueueInv
  OBVIOUS
<1>1. TypeOK /\ JobHeld
  BY InitTyped
<1>2. ASSUME NEW j \in Jobs PROVE JobInv(j)
  <2>1. Queued(j) = 0
    <3>1. {i \in 1..Len(queue) : queue[i] = j} = {}
      BY DEF Init
    <3>. QED  BY <3>1, FS_EmptySet DEF Queued, Occurrences
  <2>2. Held(j) = 0
    <3>1. {w \in Workers : job[w] = j} = {}
      BY WorkQueueAssumption DEF Init
    <3>. QED  BY <3>1, FS_EmptySet DEF Held
  <2>3. \A S : Count(S, j) = 0
    BY <2>2, CountType
  <2>. QED  BY <2>1, <2>2, <2>3 DEF Init, JobInv, Owed
<1>. QED  BY <1>1, <1>2 DEF WorkQueueInv

LEMMA StepInv ==
  ASSUME WorkQueueInv, [Next]_vars
  PROVE  WorkQueueInv'
<1>0. TypeOK /\ JobHeld /\ TypeOK' /\ JobHeld'
  BY StepTyped DEF WorkQueueInv
<1>. SUFFICES ASSUME NEW j \in Jobs PROVE JobInv(j)'
  BY <1>0 DEF WorkQueueInv
<1>. DEFINE Before == /\ submitted[j] \in Nat /\ done[j] \in Nat /\ dropped[j] \in Nat
                      /\ faults \in Nat /\ processing[j] \in Nat
                      /\ Queued(j) \in Nat /\ Acking(j) \in Nat /\ Requeueing(j) \in Nat
                      /\ Pending(j) \in Nat /\ Held(j) \in Nat
            Ledger == /\ submitted[j] + Acking(j)
                           <= done[j] + Queued(j) + processing[j] + Requeueing(j) + dropped[j]
                      /\ done[j] + (Queued(j) + Pending(j)) <= submitted[j] + faults
                      /\ processing[j] + dropped[j] + Requeueing(j) <= faults + Held(j)
                      /\ dropped[j] <= faults
                      /\ Acking(j) <= done[j]
<1>a. Before /\ Ledger
  <2>1. /\ submitted[j] \in Nat /\ done[j] \in Nat /\ dropped[j] \in Nat
        /\ faults \in Nat /\ processing[j] \in Nat
    BY <1>0, WorkQueueAssumption DEF TypeOK
  <2>2. JobInv(j)
    BY DEF WorkQueueInv
  <2>3. Ledger
    BY <2>2 DEF JobInv, Owed, Acking, Requeueing, Pending
  <2>. QED  BY <1>0, <2>1, <2>3, CountsTyped, ListDeltas
<1>b. /\ Acking(j)' \in Nat /\ Requeueing(j)' \in Nat /\ Pending(j)' \in Nat
      /\ Held(j)' \in Nat /\ Requeueing(j)' <= Held(j)'
  BY CountsTyped
<1>c. WorkersTyped
  BY <1>0 DEF TypeOK, WorkersTyped
<1>1. ASSUME NEW k \in Jobs, Enqueue(k)
      PROVE  Ledger'
  <2>1. pc' = pc /\ job' = job
    BY <1>1 DEF Enqueue
  <2>2. /\ Acking(j)' = Acking(j) /\ Requeueing(j)' = Requeueing(j)
        /\ Pending(j)' = Pending(j) /\ Held(j)' = Held(j)
    BY <2>1 DEF Acking, Requeueing, Pending, Held, Count
  <2>3. Queued(j)' = Queued(j) + Bit(k = j)
    BY <1>0, <1>1, ListDeltas DEF Enqueue
  <2>4. /\ submitted'[j] = submitted[j] + Bit(k = j)
        /\ UNCHANGED <<processing, done, dropped, faults>>
    BY <1>0, <1>1 DEF Enqueue, Plus1, TypeOK, Bit
  <2>. QED  BY <1>a, <2>2, <2>3, <2>4 DEF Bit
<1>2. ASSUME NEW w \in Workers, Dequeue(w)
      PROVE  Ledger'
  <2>1. /\ pc[w] = "idle" /\ pc'[w] = "handling" /\ job[w] = NoJob
        /\ job'[w] = queue[Len(queue)] /\ PopTail
        /\ UNCHANGED <<submitted, done, dropped, faults>>
        /\ \A v \in Workers \ {w} : pc'[v] = pc[v] /\ job'[v] = job[v]
    BY <1>2, <1>c DEF Dequeue, Goto, WorkersTyped, JobHeld
  <2>m. Moved(w, j)
    BY <2>1, Deltas
  <2>2. job[w] # j
    BY <2>1, WorkQueueAssumption
  <2>3. PICK x \in Jobs : /\ job'[w] = x /\ Queued(j)' \in Nat
                          /\ Queued(j) = Queued(j)' + Bit(x = j)
                          /\ processing'[j] = processing[j] + Bit(x = j)
    BY <1>0, <2>1, ListDeltas DEF Bit
  <2>4. /\ Acking(j)' = Acking(j) /\ Requeueing(j)' = Requeueing(j)
        /\ Pending(j)' = Pending(j) + Bit(x = j) /\ Held(j)' = Held(j) + Bit(x = j)
    <3>1. pc[w] = "idle" /\ pc'[w] = "handling"
      BY <2>1
    <3>. QED  BY <1>a, <1>b, <2>m, <2>2, <2>3, <3>1 DEF Bit, Moved
  <2>5. UNCHANGED <<submitted, done, dropped, faults>>
    BY <2>1
  <2>. QED  BY <1>a, <2>3, <2>4, <2>5 DEF Bit
<1>3. ASSUME NEW w \in Workers, HandlerSucceeds(w)
      PROVE  Ledger'
  <2>1. /\ pc[w] = "handling" /\ pc'[w] = "acking" /\ job'[w] = job[w]
        /\ done'[j] = done[j] + Bit(job[w] = j)
        /\ UNCHANGED <<queue, processing, submitted, dropped, faults>>
        /\ \A v \in Workers \ {w} : pc'[v] = pc[v] /\ job'[v] = job[v]
    BY <1>0, <1>3, <1>c DEF HandlerSucceeds, Goto, WorkersTyped, Plus1, TypeOK, Bit
  <2>m. Moved(w, j)
    BY <2>1, Deltas
  <2>2. Queued(j)' = Queued(j)
    BY <2>1 DEF Queued
  <2>. QED  BY <1>a, <1>b, <2>1, <2>m, <2>2 DEF Bit, Moved
<1>4. ASSUME NEW w \in Workers, Ack(w)
      PROVE  Ledger'
  <2>1. /\ pc[w] = "acking" /\ pc'[w] = "idle" /\ job'[w] = NoJob
        /\ LRem(job[w])
        /\ UNCHANGED <<queue, submitted, done, dropped, faults>>
        /\ \A v \in Workers \ {w} : pc'[v] = pc[v] /\ job'[v] = job[v]
    BY <1>4, <1>c DEF Ack, Goto, WorkersTyped
  <2>m. Moved(w, j)
    BY <2>1, Deltas
  <2>2. job[w] \in Jobs /\ NoJob # j
    BY <1>c, <2>1, BusyHasJob, WorkQueueAssumption DEF Busy
  <2>3. Queued(j)' = Queued(j)
    BY <2>1 DEF Queued
  <2>4. processing'[j] = IF job[w] = j /\ processing[j] > 0
                              THEN processing[j] - 1 ELSE processing[j]
    BY <1>0, <2>1, <2>2, ListDeltas
  <2>. QED  BY <1>a, <1>b, <2>1, <2>m, <2>2, <2>3, <2>4 DEF Bit, Moved
<1>5. ASSUME NEW w \in Workers, NackRemove(w)
      PROVE  Ledger'
  <2>1. /\ pc[w] = "nacking" /\ pc'[w] = "requeueing" /\ job'[w] = job[w]
        /\ LRem(job[w])
        /\ UNCHANGED <<queue, submitted, done, dropped, faults>>
        /\ \A v \in Workers \ {w} : pc'[v] = pc[v] /\ job'[v] = job[v]
    BY <1>5, <1>c DEF NackRemove, Goto, WorkersTyped
  <2>m. Moved(w, j)
    BY <2>1, Deltas
  <2>2. job[w] \in Jobs
    BY <1>c, <2>1, BusyHasJob DEF Busy
  <2>3. Queued(j)' = Queued(j)
    BY <2>1 DEF Queued
  <2>4. processing'[j] = IF job[w] = j /\ processing[j] > 0
                              THEN processing[j] - 1 ELSE processing[j]
    BY <1>0, <2>1, <2>2, ListDeltas
  <2>. QED  BY <1>a, <1>b, <2>1, <2>m, <2>2, <2>3, <2>4 DEF Bit, Moved
<1>6. ASSUME NEW w \in Workers, Requeue(w)
      PROVE  Ledger'
  <2>1. /\ pc[w] = "requeueing" /\ pc'[w] = "stopped" /\ job'[w] = NoJob
        /\ RPush(job[w])
        /\ UNCHANGED <<processing, submitted, done, dropped, faults>>
        /\ \A v \in Workers \ {w} : pc'[v] = pc[v] /\ job'[v] = job[v]
    BY <1>6, <1>c DEF Requeue, Stop, WorkersTyped
  <2>m. Moved(w, j)
    BY <2>1, Deltas
  <2>2. job[w] \in Jobs /\ NoJob # j
    BY <1>c, <2>1, BusyHasJob, WorkQueueAssumption DEF Busy
  <2>3. Queued(j)' = Queued(j) + Bit(job[w] = j)
    BY <1>0, <2>1, <2>2, ListDeltas DEF Bit
  <2>. QED  BY <1>a, <1>b, <2>1, <2>m, <2>2, <2>3 DEF Bit, Moved
<1>7. ASSUME NEW w \in Workers, DequeueRaises(w)
      PROVE  Ledger'
  <2>1. /\ pc[w] = "idle" /\ pc'[w] = "stopped" /\ job[w] = NoJob /\ job'[w] = NoJob
        /\ PopTail \/ UNCHANGED <<queue, processing>>
        /\ faults' = faults + 1
        /\ UNCHANGED <<submitted, done, dropped>>
        /\ \A v \in Workers \ {w} : pc'[v] = pc[v] /\ job'[v] = job[v]
    BY <1>7, <1>c DEF DequeueRaises, Fault, Stop, WorkersTyped, JobHeld
  <2>m. Moved(w, j)
    BY <2>1, Deltas
  <2>2. NoJob # j
    BY WorkQueueAssumption
  <2>3. CASE PopTail
    <3>1. PICK x \in Jobs : /\ Queued(j)' \in Nat
                            /\ Queued(j) = Queued(j)' + Bit(x = j)
                            /\ processing'[j] = processing[j] + Bit(x = j)
      BY <1>0, <2>3, ListDeltas DEF Bit
    <3>2. /\ Acking(j)' = Acking(j) /\ Requeueing(j)' = Requeueing(j)
          /\ Pending(j)' = Pending(j) /\ Held(j)' = Held(j)
      <4>1. /\ pc[w] = "idle" /\ pc'[w] = "stopped" /\ job[w] # j /\ job'[w] # j
        BY <2>1, <2>2
      <4>. QED  BY <1>a, <1>b, <2>m, <4>1 DEF Bit, Moved
    <3>3. faults' = faults + 1 /\ UNCHANGED <<submitted, done, dropped>>
      BY <2>1
    <3>. QED  BY <1>a, <3>1, <3>2, <3>3 DEF Bit
  <2>4. CASE UNCHANGED <<queue, processing>>
    <3>1. Queued(j)' = Queued(j)
      BY <2>4 DEF Queued
    <3>. QED  BY <1>a, <1>b, <2>1, <2>m, <2>2, <2>4, <3>1 DEF Bit, Moved
  <2>. QED  BY <2>1, <2>3, <2>4
<1>8. ASSUME NEW w \in Workers, HandlerRaises(w)
      PROVE  Ledger'
  <2>1. /\ pc[w] = "handling" /\ pc'[w] = "nacking" /\ job'[w] = job[w]
        /\ faults' = faults + 1
        /\ UNCHANGED <<queue, processing, submitted, done, dropped>>
        /\ \A v \in Workers \ {w} : pc'[v] = pc[v] /\ job'[v] = job[v]
    BY <1>8, <1>c DEF HandlerRaises, Fault, Goto, WorkersTyped
  <2>m. Moved(w, j)
    BY <2>1, Deltas
  <2>2. Queued(j)' = Queued(j)
    BY <2>1 DEF Queued
  <2>. QED  BY <1>a, <1>b, <2>1, <2>m, <2>2 DEF Bit, Moved
<1>9. ASSUME NEW w \in Workers, AckRaises(w)
      PROVE  Ledger'
  <2>1. /\ pc[w] = "acking" /\ pc'[w] = "nacking" /\ job'[w] = job[w]
        /\ faults' = faults + 1
        /\ LRem(job[w]) \/ UNCHANGED processing
        /\ UNCHANGED <<queue, submitted, done, dropped>>
        /\ \A v \in Workers \ {w} : pc'[v] = pc[v] /\ job'[v] = job[v]
    BY <1>9, <1>c DEF AckRaises, Fault, Goto, WorkersTyped
  <2>m. Moved(w, j)
    BY <2>1, Deltas
  <2>2. job[w] \in Jobs
    BY <1>c, <2>1, BusyHasJob DEF Busy
  <2>3. Queued(j)' = Queued(j)
    BY <2>1 DEF Queued
  <2>4. \/ processing'[j] = IF job[w] = j /\ processing[j] > 0
                                 THEN processing[j] - 1 ELSE processing[j]
        \/ processing'[j] = processing[j]
    BY <1>0, <2>1, <2>2, ListDeltas
  <2>. QED  BY <1>a, <1>b, <2>1, <2>m, <2>2, <2>3, <2>4 DEF Bit, Moved
<1>10. ASSUME NEW w \in Workers, NackRemoveRaises(w)
       PROVE  Ledger'
  <2>1. /\ pc[w] = "nacking" /\ pc'[w] = "stopped" /\ job'[w] = NoJob
        /\ faults' = faults + 1
        /\ UNCHANGED <<queue, submitted, done>>
        /\ \A v \in Workers \ {w} : pc'[v] = pc[v] /\ job'[v] = job[v]
    BY <1>10, <1>c DEF NackRemoveRaises, Fault, Stop, WorkersTyped
  <2>m. Moved(w, j)
    BY <2>1, Deltas
  <2>2. job[w] \in Jobs /\ NoJob # j
    BY <1>c, <2>1, BusyHasJob, WorkQueueAssumption DEF Busy
  <2>3. Queued(j)' = Queued(j)
    BY <2>1 DEF Queued
  <2>4. CASE LRem(job[w]) /\ dropped' = Plus1(dropped, job[w])
    <3>1. dropped'[j] = dropped[j] + Bit(job[w] = j)
      BY <1>0, <2>4 DEF TypeOK, Plus1, Bit
    <3>2. processing'[j] = IF job[w] = j /\ processing[j] > 0
                                THEN processing[j] - 1 ELSE processing[j]
      BY <1>0, <2>2, <2>4, ListDeltas
    <3>. QED  BY <1>a, <1>b, <2>1, <2>m, <2>2, <2>3, <3>1, <3>2 DEF Bit, Moved
  <2>5. CASE UNCHANGED <<processing, dropped>>
    BY <1>0, <1>a, <1>b, <2>1, <2>m, <2>2, <2>3, <2>5 DEF Bit, Moved
  <2>. QED  BY <1>10, <2>4, <2>5 DEF NackRemoveRaises
<1>11. ASSUME NEW w \in Workers, RequeueRaises(w)
       PROVE  Ledger'
  <2>1. /\ pc[w] = "requeueing" /\ pc'[w] = "stopped" /\ job'[w] = NoJob
        /\ faults' = faults + 1
        /\ UNCHANGED <<processing, submitted, done>>
        /\ \A v \in Workers \ {w} : pc'[v] = pc[v] /\ job'[v] = job[v]
    BY <1>11, <1>c DEF RequeueRaises, Fault, Stop, WorkersTyped
  <2>m. Moved(w, j)
    BY <2>1, Deltas
  <2>2. job[w] \in Jobs /\ NoJob # j
    BY <1>c, <2>1, BusyHasJob, WorkQueueAssumption DEF Busy
  <2>3. CASE RPush(job[w]) /\ UNCHANGED dropped
    <3>1. Queued(j)' = Queued(j) + Bit(job[w] = j)
      BY <1>0, <2>2, <2>3, ListDeltas DEF Bit
    <3>. QED  BY <1>a, <1>b, <2>1, <2>m, <2>2, <2>3, <3>1 DEF Bit, Moved
  <2>4. CASE dropped' = Plus1(dropped, job[w]) /\ UNCHANGED queue
    <3>1. dropped'[j] = dropped[j] + Bit(job[w] = j) /\ Queued(j)' = Queued(j)
      BY <1>0, <2>4 DEF TypeOK, Plus1, Bit, Queued
    <3>. QED  BY <1>a, <1>b, <2>1, <2>m, <2>2, <3>1 DEF Bit, Moved
  <2>. QED  BY <1>11, <2>3, <2>4 DEF RequeueRaises
<1>12. ASSUME NEW w \in Workers, Interrupt(w)
       PROVE  Ledger'
  <2>1. /\ pc[w] # "stopped" /\ pc'[w] = "stopped" /\ job'[w] = NoJob
        /\ faults' = faults + 1
        /\ UNCHANGED <<queue, processing, submitted, done>>
        /\ \A v \in Workers \ {w} : pc'[v] = pc[v] /\ job'[v] = job[v]
    BY <1>12, <1>c DEF Interrupt, Fault, Stop, WorkersTyped
  <2>m. Moved(w, j)
    BY <2>1, Deltas
  <2>2. Queued(j)' = Queued(j) /\ NoJob # j
    BY <2>1, WorkQueueAssumption DEF Queued
  <2>3. dropped'[j] = dropped[j] + Bit(pc[w] = "requeueing" /\ job[w] = j)
    BY <1>0, <1>12 DEF Interrupt, TypeOK, Plus1, Bit
  <2>. QED  BY <1>a, <1>b, <2>1, <2>m, <2>2, <2>3 DEF Bit, Moved
<1>13. ASSUME NEW w \in Workers, Start(w)
       PROVE  Ledger'
  <2>1. /\ pc[w] = "stopped" /\ pc'[w] = "idle" /\ job'[w] = job[w]
        /\ UNCHANGED <<queue, processing, submitted, done, dropped, faults>>
        /\ \A v \in Workers \ {w} : pc'[v] = pc[v] /\ job'[v] = job[v]
    BY <1>13, <1>c DEF Start, Goto, WorkersTyped
  <2>m. Moved(w, j)
    BY <2>1, Deltas
  <2>2. Queued(j)' = Queued(j)
    BY <2>1 DEF Queued
  <2>. QED  BY <1>a, <1>b, <2>1, <2>m, <2>2 DEF Bit, Moved
<1>14. ASSUME UNCHANGED vars
       PROVE  Ledger'
  BY <1>a, <1>14 DEF vars, Queued, Acking, Requeueing, Pending, Held, Count
<1>15. JobInv(j)' <=> Ledger'
  BY DEF JobInv, Owed, Acking, Requeueing, Pending
<1>. HIDE DEF Ledger
<1>. QED
  BY <1>1, <1>2, <1>3, <1>4, <1>5, <1>6, <1>7, <1>8, <1>9, <1>10, <1>11,
     <1>12, <1>13, <1>14, <1>15 DEF Next, Proceed, GoWrong, DequeueEmpty


(* The invariant holds, whatever fails.                                    *)
THEOREM Invariance == Spec => []WorkQueueInv
<1>. QED  BY InitInv, StepInv, PTL DEF Spec

(* What the invariant says of every payload, in the properties' own terms. *)
LEMMA InvImplies ==
  ASSUME WorkQueueInv
  PROVE  NothingLost /\ RedeliveryNeedsFault /\ LossPerFault
<1>1. ASSUME NEW j \in Jobs
      PROVE  /\ submitted[j] <= done[j] + Queued(j) + processing[j]
                                  + Count({"requeueing"}, j) + dropped[j]
             /\ done[j] <= submitted[j] + faults
             /\ Stranded(j) + dropped[j] <= faults
  <2>1. /\ submitted[j] \in Nat /\ done[j] \in Nat /\ dropped[j] \in Nat
        /\ faults \in Nat /\ processing[j] \in Nat
    BY WorkQueueAssumption DEF TypeOK, WorkQueueInv
  <2>2. /\ Count({"acking"}, j) \in Nat /\ Count({"requeueing"}, j) \in Nat
        /\ Count({"handling", "nacking", "requeueing"}, j) \in Nat /\ Held(j) \in Nat
    BY CountType
  <2>3. Queued(j) \in Nat
    BY ListDeltas DEF WorkQueueInv
  <2>4. JobInv(j)
    BY DEF WorkQueueInv
  <2>. QED  BY <2>1, <2>2, <2>3, <2>4 DEF JobInv, Owed, Stranded
<1>. QED  BY <1>1 DEF NothingLost, RedeliveryNeedsFault, LossPerFault

(* No copy of a payload disappears unaccounted for, with any number of     *)
(* workers, payloads and faults.                                           *)
THEOREM NothingLostHolds == Spec => []NothingLost
<1>. QED  BY Invariance, InvImplies, PTL

(* A payload is handled more often than pushed only after as many faults.  *)
THEOREM RedeliveryNeedsFaultHolds == Spec => []RedeliveryNeedsFault
<1>. QED  BY Invariance, InvImplies, PTL

(* Each fault strands or drops at most one copy of a payload.              *)
THEOREM LossPerFaultHolds == Spec => []LossPerFault
<1>. QED  BY Invariance, InvImplies, PTL
=============================================================================

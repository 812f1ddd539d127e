------------------------------ MODULE WorkQueue ------------------------------
(***************************************************************************)
(* One Redis-backed work queue of the worker plane and the worker          *)
(* processes that serve it: workers/queue_client.py and the process_one /  *)
(* run_loop of workers/embedding_worker.py (llm_worker.py and              *)
(* validation_worker.py differ only in the queue's name and the handler).  *)
(*                                                                         *)
(* A job is its serialized payload: serialize_payload sorts the keys, so   *)
(* two enqueues of one payload are the same string and LREM cannot tell    *)
(* their copies apart.  Every Redis call is one atomic step; a call that   *)
(* raises may or may not have been applied by the server before the reply  *)
(* was lost.                                                               *)
(***************************************************************************)
EXTENDS Naturals, Sequences, FiniteSets

CONSTANTS
  Jobs,        \* serialized payloads
  NoJob,       \* the value of a worker's local variable `job' when it has none
  Workers,     \* worker processes serving this queue
  MaxEnqueue,  \* bound: how often producers push each payload
  MaxFaults    \* bound: handler exceptions, Redis errors and interrupts together

ASSUME WorkQueueAssumption ==
  /\ IsFiniteSet(Workers)
  /\ NoJob \notin Jobs
  /\ MaxEnqueue \in Nat
  /\ MaxFaults \in Nat

VARIABLES
  queue,       \* the Redis list rg:queue:<name>; the last element is the tail
  processing,  \* the list rg:queue:<name>:processing, as copies of each payload
  pc,          \* where each worker stands in process_one
  job,         \* the payload each worker has dequeued
  submitted,   \* history: copies pushed by producers
  done,        \* history: times the handler completed a payload
  dropped,     \* history: copies given up between nack's LREM and its RPUSH
  faults       \* history: faults so far

vars == <<queue, processing, pc, job, submitted, done, dropped, faults>>

PCs == {"idle", "handling", "acking", "nacking", "requeueing", "stopped"}

Init ==
  /\ queue = <<>>
  /\ processing = [j \in Jobs |-> 0]
  /\ pc = [w \in Workers |-> "idle"]
  /\ job = [w \in Workers |-> NoJob]
  /\ submitted = [j \in Jobs |-> 0]
  /\ done = [j \in Jobs |-> 0]
  /\ dropped = [j \in Jobs |-> 0]
  /\ faults = 0

-----------------------------------------------------------------------------
(* Redis commands and process control.                                     *)

Plus1(f, j) == [f EXCEPT ![j] = @ + 1]

RPush(j) == queue' = Append(queue, j)

\* Plausible slips of a list operation, for the mutation runs: an LREM with
\* count 0, a pop that only peeks, and one that keeps no processing list.
LRemAll(j) == processing' = [processing EXCEPT ![j] = 0]
Peek ==
  /\ queue # <<>>
  /\ UNCHANGED queue
  /\ processing' = Plus1(processing, queue[Len(queue)])
PopOnly ==
  /\ queue # <<>>
  /\ queue' = SubSeq(queue, 1, Len(queue) - 1)
  /\ UNCHANGED processing

\* LREM key 1 raw: removes one copy, or nothing when there is none.
LRem(j) == processing' = [processing EXCEPT ![j] = IF @ > 0 THEN @ - 1 ELSE 0]

Fault == faults < MaxFaults /\ faults' = faults + 1

Goto(w, from, to) == pc[w] = from /\ pc' = [pc EXCEPT ![w] = to]

\* The process ends and its local variables with it.
Stop(w) ==
  /\ pc' = [pc EXCEPT ![w] = "stopped"]
  /\ job' = [job EXCEPT ![w] = NoJob]

\* Plausible slips of a worker: an ack that forgets LREM, a loop that ends
\* after one job, a nack that leaves out the RPUSH.
AckForgets(w) ==
  /\ Goto(w, "acking", "idle")
  /\ job' = [job EXCEPT ![w] = NoJob]
  /\ UNCHANGED <<queue, processing, submitted, done, dropped, faults>>
AckThenExit(w) ==
  /\ pc[w] = "acking"
  /\ LRem(job[w])
  /\ Stop(w)
  /\ UNCHANGED <<queue, submitted, done, dropped, faults>>
NackOnly(w) ==
  /\ pc[w] = "requeueing"
  /\ Stop(w)
  /\ UNCHANGED <<queue, processing, submitted, done, dropped, faults>>

-----------------------------------------------------------------------------
Enqueue(j) ==
  /\ submitted[j] < MaxEnqueue
  /\ RPush(j)
  /\ submitted' = Plus1(submitted, j)
  /\ UNCHANGED <<processing, pc, job, done, dropped, faults>>

\* BRPOPLPUSH takes the element RPUSH put last.
PopTail ==
  /\ queue # <<>>
  /\ queue' = SubSeq(queue, 1, Len(queue) - 1)
  /\ processing' = Plus1(processing, queue[Len(queue)])

Dequeue(w) ==
  /\ Goto(w, "idle", "handling")
  /\ PopTail
  /\ job' = [job EXCEPT ![w] = queue[Len(queue)]]
  /\ UNCHANGED <<submitted, done, dropped, faults>>

\* The 5 s timeout expires: process_one returns False, run_loop calls it again.
DequeueEmpty(w) == pc[w] = "idle" /\ queue = <<>> /\ UNCHANGED vars

\* dequeue is called outside process_one's try: nothing is nacked.
DequeueRaises(w) ==
  /\ pc[w] = "idle" /\ Fault
  /\ PopTail \/ UNCHANGED <<queue, processing>>
  /\ Stop(w)
  /\ UNCHANGED <<submitted, done, dropped>>

HandlerSucceeds(w) ==
  /\ Goto(w, "handling", "acking")
  /\ done' = Plus1(done, job[w])
  /\ UNCHANGED <<queue, processing, job, submitted, dropped, faults>>

HandlerRaises(w) ==
  /\ Goto(w, "handling", "nacking") /\ Fault
  /\ UNCHANGED <<queue, processing, job, submitted, done, dropped>>

Ack(w) ==
  /\ Goto(w, "acking", "idle")
  /\ LRem(job[w])
  /\ job' = [job EXCEPT ![w] = NoJob]
  /\ UNCHANGED <<queue, submitted, done, dropped, faults>>

\* ack is called inside the try: its exception nacks a job that was handled.
AckRaises(w) ==
  /\ Goto(w, "acking", "nacking") /\ Fault
  /\ LRem(job[w]) \/ UNCHANGED processing
  /\ UNCHANGED <<queue, job, submitted, done, dropped>>

NackRemove(w) ==
  /\ Goto(w, "nacking", "requeueing")
  /\ LRem(job[w])
  /\ UNCHANGED <<queue, job, submitted, done, dropped, faults>>

NackRemoveRaises(w) ==
  /\ pc[w] = "nacking" /\ Fault
  /\ \/ LRem(job[w]) /\ dropped' = Plus1(dropped, job[w])
     \/ UNCHANGED <<processing, dropped>>
  /\ Stop(w)
  /\ UNCHANGED <<queue, submitted, done>>

\* nack returns and process_one re-raises; run_loop does not catch it.
Requeue(w) ==
  /\ pc[w] = "requeueing"
  /\ RPush(job[w])
  /\ Stop(w)
  /\ UNCHANGED <<processing, submitted, done, dropped, faults>>

RequeueRaises(w) ==
  /\ pc[w] = "requeueing" /\ Fault
  /\ \/ RPush(job[w]) /\ UNCHANGED dropped
     \/ dropped' = Plus1(dropped, job[w]) /\ UNCHANGED queue
  /\ Stop(w)
  /\ UNCHANGED <<processing, submitted, done>>

\* KeyboardInterrupt (which `except Exception' lets through) or a kill, anywhere.
Interrupt(w) ==
  /\ pc[w] # "stopped" /\ Fault
  /\ dropped' = IF pc[w] = "requeueing" THEN Plus1(dropped, job[w]) ELSE dropped
  /\ Stop(w)
  /\ UNCHANGED <<queue, processing, submitted, done>>

\* An operator runs `python -m workers.run_worker' again.
Start(w) ==
  /\ Goto(w, "stopped", "idle")
  /\ UNCHANGED <<queue, processing, job, submitted, done, dropped, faults>>

-----------------------------------------------------------------------------
\* What a running worker does by itself when nothing goes wrong.
Proceed(w) ==
  Dequeue(w) \/ HandlerSucceeds(w) \/ Ack(w) \/ NackRemove(w) \/ Requeue(w)

GoWrong(w) ==
  \/ DequeueRaises(w) \/ HandlerRaises(w) \/ AckRaises(w)
  \/ NackRemoveRaises(w) \/ RequeueRaises(w) \/ Interrupt(w)

Next ==
  \/ \E j \in Jobs : Enqueue(j)
  \/ \E w \in Workers : Proceed(w) \/ DequeueEmpty(w) \/ GoWrong(w) \/ Start(w)

Spec == Init /\ [][Next]_vars

\* A worker process keeps running; nothing restarts one that has stopped.
FairSpec == Spec /\ \A w \in Workers : WF_vars(Proceed(w))

-----------------------------------------------------------------------------
\* The lists hold payloads, and no counter leaves its range.
TypeOK ==
  /\ queue \in Seq(Jobs)
  /\ processing \in [Jobs -> Nat]
  /\ pc \in [Workers -> PCs]
  /\ job \in [Workers -> Jobs \cup {NoJob}]
  /\ submitted \in [Jobs -> 0..MaxEnqueue]
  /\ done \in [Jobs -> Nat]
  /\ dropped \in [Jobs -> Nat]
  /\ faults \in 0..MaxFaults

\* A worker has a job exactly while it is inside process_one's try or handler.
JobHeld == \A w \in Workers : job[w] = NoJob <=> pc[w] \in {"idle", "stopped"}

Occurrences(q, j) == Cardinality({i \in 1..Len(q) : q[i] = j})
Queued(j) == Occurrences(queue, j)
Count(states, j) == Cardinality({w \in Workers : pc[w] \in states /\ job[w] = j})
Held(j) == Cardinality({w \in Workers : job[w] = j})

\* Copies of j that a handler will still be given, unless a fault intervenes.
Owed(j) == Queued(j) + Count({"handling", "nacking", "requeueing"}, j)

(* At-least-once delivery (queue_client's ack / nack pattern): every copy   *)
(* a producer pushed has been handled, or is still in one of the two lists, *)
(* or is between a nack's LREM and RPUSH, or was given up exactly there.    *)
(* Holds although an ack whose reply was lost makes nack's LREM remove the  *)
(* entry of another worker that handles an equal payload.                   *)
NothingLost ==
  \A j \in Jobs :
    submitted[j] <= done[j] + Queued(j) + processing[j]
                      + Count({"requeueing"}, j) + dropped[j]

(* Redelivery has a cause: a payload is handled more often than it was      *)
(* pushed only when something failed, at most once more per fault.          *)
RedeliveryNeedsFault == \A j \in Jobs : done[j] <= submitted[j] + faults

\* The part of processing[j] that no live worker accounts for.
Stranded(j) == IF processing[j] > Held(j) THEN processing[j] - Held(j) ELSE 0

(* A failure costs little: the copies of a payload that are stranded in the *)
(* processing list (nothing ever reads it back) or dropped in the nack      *)
(* window number at most one per fault.                                     *)
LossPerFault == \A j \in Jobs : Stranded(j) + dropped[j] <= faults

(* The inductive invariant behind the three, and behind the refinement: a   *)
(* copy being acked is counted by done already, so its entry in processing  *)
(* must be covered a second time; a redelivery is paid for when it becomes  *)
(* possible; a worker past LREM has no entry of its own any more.           *)
JobInv(j) ==
  /\ submitted[j] + Count({"acking"}, j)
       <= done[j] + Queued(j) + processing[j] + Count({"requeueing"}, j) + dropped[j]
  /\ done[j] + Owed(j) <= submitted[j] + faults
  /\ processing[j] + dropped[j] + Count({"requeueing"}, j) <= faults + Held(j)
  /\ dropped[j] <= faults
  /\ Count({"acking"}, j) <= done[j]

WorkQueueInv == TypeOK /\ JobHeld /\ \A j \in Jobs : JobInv(j)

\* The queue and its workers implement the abstract delivery service.
Delivery == INSTANCE JobDelivery WITH owed <- [j \in Jobs |-> Owed(j)]
DeliverySpec == Delivery!Spec

Outlived == faults >= Cardinality(Workers)

(* While fewer faults happen than there are workers, every payload pushed   *)
(* is eventually taken off the queue (producers are bounded by MaxEnqueue). *)
QueueDrains == <>[](queue = <<>> \/ Outlived)

(* ... and eventually every pushed copy is handled, stranded or dropped.    *)
EverythingSettles ==
  <>[](Outlived \/ \A j \in Jobs : submitted[j] <= done[j] + Stranded(j) + dropped[j])

(* embedding_worker.py's run_loop says "Continuously process embed jobs      *)
(* until interrupted.": as long as Redis answers, only an interrupt stops   *)
(* a worker.                                                                *)
StopsOnlyWhenInterrupted ==
  [][\A w \in Workers :
       pc[w] # "stopped" /\ pc'[w] = "stopped" =>
         Interrupt(w) \/ DequeueRaises(w) \/ NackRemoveRaises(w) \/ RequeueRaises(w)]_vars
=============================================================================

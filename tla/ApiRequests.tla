----------------------------- MODULE ApiRequests -----------------------------
(***************************************************************************)
(* Requests in the API process: each handler awaits the database and the   *)
(* sockets, and others run meanwhile.  get_db gives every request a        *)
(* session of its own (services/api/database.py); nothing is locked but    *)
(* the rows an open transaction has changed.  A request that is refused    *)
(* before its first write (404, 422) changes nothing and is left out.      *)
(***************************************************************************)
EXTENDS Integers, FiniteSets

CONSTANTS
  Handlers,     \* requests that can be under way at once
  MaxRequests,  \* bound: requests received
  MaxFaults     \* bound: commits that raise

ASSUME RequestAssumption ==
  IsFiniteSet(Handlers) /\ MaxRequests \in Nat /\ MaxFaults \in Nat

VARIABLES
  pc,        \* the await at which each handler stands
  req,       \* the locals of each handler
  requests,  \* history: requests received, which also numbers them
  faults     \* history: commits that raised

requestVars == <<pc, req, requests, faults>>

Nothing == [n |-> 0]

InitRequests ==
  /\ pc = [h \in Handlers |-> "idle"]
  /\ req = [h \in Handlers |-> Nothing]
  /\ requests = 0
  /\ faults = 0

\* db.commit(): a commit that raises may have been applied all the same.
Commits == {c \in [applied : BOOLEAN, ok : BOOLEAN] : c.ok => c.applied}

Counted(c) ==
  /\ c.ok \/ faults < MaxFaults
  /\ faults' = IF c.ok THEN faults ELSE faults + 1

At(h, label) == pc[h] = label

Goto(h, label, locals) ==
  /\ pc' = [pc EXCEPT ![h] = label]
  /\ req' = [req EXCEPT ![h] = locals]

\* A request reaches its first await.
Receive(h, label, locals) ==
  /\ At(h, "idle")
  /\ requests < MaxRequests
  /\ requests' = requests + 1
  /\ Goto(h, label, locals)

\* The response, or the 500 of an exception.
Answer(h) == Goto(h, "idle", Nothing)

\* A commit, and what follows it unless it raised.
CommitThen(h, c, label, locals) ==
  /\ Counted(c)
  /\ IF c.ok THEN Goto(h, label, locals) ELSE Answer(h)
  /\ UNCHANGED requests

\* INSERT ... RETURNING id
Insert(table, id, row) ==
  [i \in DOMAIN table \cup {id} |-> IF i = id THEN row ELSE table[i]]

Delete(table, ids) == [i \in DOMAIN table \ ids |-> table[i]]
=============================================================================

------------------------------ MODULE ApiServer ------------------------------
(***************************************************************************)
(* The API process: filings, review desk and web sockets over one database,*)
(* with the administrator's reset (services/api/routers/admin.py), which   *)
(* deletes queue items and obligations under all of them.                  *)
(***************************************************************************)
EXTENDS Filings, ReviewDesk, RealtimeChannel

vars == <<requestVars, obligationVars, filingVars, deskVars, channelVars>>

Init ==
  InitRequests /\ InitObligations /\ InitFilings /\ InitDesk /\ InitChannel

-----------------------------------------------------------------------------
(* POST /admin/reset-demo: one transaction of two deletes that matter here. *)

ResetDemo(h) ==
  /\ HeldItems = {}
  /\ Receive(h, "reset_rows", [items |-> DOMAIN queue])
  /\ UNCHANGED <<faults, obligationVars, deskVars>>

\* A queue item that came after the first delete refers to an obligation: the
\* second delete raises, and the transaction is rolled back.
Referenced(items) == \E i \in DOMAIN queue \ items : queue[i].obligation # None

ResetRows(h) ==
  /\ At(h, "reset_rows")
  /\ HeldRows = {}
  /\ IF Referenced(req[h].items) THEN Answer(h)
     ELSE Goto(h, "reset_commit", [items |-> req[h].items, rows |-> DOMAIN obligations])
  /\ UNCHANGED <<requests, faults, obligationVars, deskVars>>

ResetCommit(h) ==
  LET r == req[h] IN
  /\ At(h, "reset_commit")
  /\ \E c \in Commits :
       /\ CommitThen(h, c, "announce", Nothing)
       /\ IF c.applied
          THEN /\ queue' = Delete(queue, r.items)
               /\ goneItems' = goneItems \cup r.items
               /\ obligations' = Delete(obligations, r.rows)
               /\ goneRows' = goneRows \cup r.rows
               /\ changes' = changes + 1
          ELSE UNCHANGED <<queue, goneItems, obligations, goneRows, changes>>
  /\ UNCHANGED <<made, queued, ledger, answered, signed>>

ResetStep(h) == ResetDemo(h) \/ ResetRows(h) \/ ResetCommit(h)

-----------------------------------------------------------------------------

Next ==
  \/ \E h \in Handlers :
       \/ ObligationStep(h) /\ UNCHANGED <<filingVars, deskVars, channelVars>>
       \/ FilingStep(h) /\ UNCHANGED <<obligationVars, deskVars, channelVars>>
       \/ DeskStep(h) /\ UNCHANGED <<obligationVars, filingVars, channelVars>>
       \/ ResetStep(h) /\ UNCHANGED <<filingVars, channelVars>>
       \/ ChannelStep(h) /\ UNCHANGED <<obligationVars, filingVars, deskVars>>
  \/ \E s \in Sockets :
       SocketStep(s) /\ UNCHANGED <<requestVars, obligationVars, filingVars, deskVars>>
  \/ MonthPasses /\ UNCHANGED <<requestVars, obligationVars, deskVars, channelVars>>

Spec == Init /\ [][Next]_vars

-----------------------------------------------------------------------------
(* What a finished reset deleted stays deleted: an update, a resolution or *)
(* an insert that was under way meanwhile raises or finds nothing, and no  *)
(* queue item is left that refers to a deleted obligation.                 *)
ResetStands ==
  /\ goneRows \cap DOMAIN obligations = {}
  /\ goneItems \cap DOMAIN queue = {}
  /\ \A i \in DOMAIN queue : queue[i].obligation \notin goneRows
-----------------------------------------------------------------------------

Labels ==
  {"idle", "update", "dues", "score", "checklist", "file", "escalate", "refresh", "evidence",
   "resolve", "test", "created", "announce", "reset_rows", "reset_commit", "send"}
Decisions == {"approved", "rejected"}
Items == [business : Businesses, obligation : Nat, chat : Nat, status : Decisions \cup {"pending"},
          resolution : [by : Nat, decision : Decisions \cup {"none"}]]
Evaluations == [n : Nat, business : Businesses, item : Nat, asked : Nat, stamp : Nat,
                verdict : [agreement : BOOLEAN, diverged : BOOLEAN]]
Resolutions == [n : Nat, item : Nat, loaded : Decisions \cup {"pending"}, decision : Decisions]

TypeOK ==
  /\ pc \in [Handlers -> Labels] /\ DOMAIN req = Handlers /\ requests \in Nat
  /\ made \in Nat /\ DOMAIN obligations \cup goneRows \subseteq 1..made
  /\ queued \in Nat /\ DOMAIN queue \cup goneItems \subseteq 1..queued
  /\ queue \in [DOMAIN queue -> Items]
  /\ month \in Months /\ payroll \in [Businesses \X Months -> Nat]
  /\ active \in Seq(Sockets)

\* What a handler holds across its awaits is still true of the tables.
Holding(h) ==
  LET r == req[h] IN
  /\ pc[h] = "dues" => r.key \in Businesses \X Months
  /\ pc[h] = "resolve" => r \in Resolutions
  /\ pc[h] \in {"escalate", "refresh", "evidence"} => r \in Evaluations
  /\ pc[h] = "refresh" \/ (pc[h] = "evidence" /\ r.verdict.diverged)
       => r.item \in DOMAIN queue \cup goneItems
  /\ pc[h] = "test" => r.business \in Businesses /\ r.obligation \in Nat
  /\ pc[h] \in {"reset_rows", "reset_commit"} => r.items \subseteq 1..queued
  /\ pc[h] = "reset_commit" => /\ r.rows \subseteq 1..made
                              /\ \A i \in DOMAIN queue \ r.items :
                                   queue[i].obligation \notin r.rows
  /\ pc[h] = "send" => /\ r.copy \in Seq(Sockets) /\ r.sent \in Nat
                      /\ \A i \in DOMAIN r.copy : i <= r.sent => r.copy[i] \in r.served

\* Payroll requests that found no row and will insert one.
Inserting(k) == {h \in Handlers : pc[h] = "dues" /\ req[h].key = k /\ ~ req[h].found}

\* Once there is a row, each further one is of a request that was under way.
PayrollBound ==
  \A k \in Businesses \X Months :
    payroll[k] = 0 \/ payroll[k] + Cardinality(Inserting(k)) <= Cardinality(Handlers)

(* What each request has read stays true until it writes, whatever the     *)
(* others and the reset do in between, and the properties that follow:     *)
(* inductive.                                                              *)
ApiInv ==
  /\ TypeOK
  /\ \A h \in Handlers : Holding(h)
  /\ PayrollBound
  /\ ResetStands
  /\ DivergenceReviewed
  /\ NobodyPassedOver
-----------------------------------------------------------------------------

\* A filing request, from the start of its transaction to its row.
Begun(r) == r.stamp \in 1..clock /\ r.began \in Nat /\ r.began <= changes
Scored(r) == r.readAt \in Nat /\ r.began <= r.readAt /\ r.readAt <= changes
Explained(r) == r.readAt = r.listedAt => ((r.score = 100) <=> ~ r.missing)

FilingAt == {"score", "checklist", "file"}
Filing(h) ==
  /\ pc[h] \in FilingAt => Begun(req[h])
  /\ pc[h] \in {"checklist", "file"} => Scored(req[h])
  /\ pc[h] = "checklist" /\ req[h].readAt = changes
       => req[h].score = ReadinessScore(req[h].business, req[h].period)
  /\ pc[h] = "file" => Explained(req[h])

\* The order of the time stamps is that in which the transactions began.
Stamped == filings \cup {req[h] : h \in {g \in Handlers : pc[g] \in FilingAt}}
StampOrder == \A x, y \in Stamped : x.stamp <= y.stamp => x.began <= y.began

(* The readiness checker (services/api/routers/gst.py): a row explains its *)
(* score, and a later time stamp means no older obligations.               *)
FilingInv ==
  /\ changes \in Nat /\ clock \in Nat
  /\ \A h \in Handlers : Filing(h)
  /\ \A f \in filings : Begun(f) /\ Scored(f) /\ Explained(f)
  /\ StampOrder

-----------------------------------------------------------------------------

Resolvers(i) == {h \in Handlers : pc[h] = "resolve" /\ req[h].item = i}

\* What the rows, and the sessions that loaded them, show of the resolutions so far.
Settled(i) ==
  /\ SignedFor(i) = {} =>
       /\ queue[i].status = "pending"
       /\ \A h \in Resolvers(i) : req[h].loaded = "pending"
  /\ (\E s \in signed : SignedFor(i) = {s}) =>
       /\ queue[i].status = queue[i].resolution.decision
       /\ \A h \in Resolvers(i) : req[h].loaded \in {"pending", queue[i].status}
  /\ (\E s, t \in signed : SignedFor(i) = {s, t}) =>
       queue[i].status = queue[i].resolution.decision

\* Resolutions are told apart by the number of their request.
OwnNumber(h) ==
  pc[h] = "resolve" =>
    /\ req[h].n \in 1..requests /\ req[h].item \in 1..queued
    /\ \A s \in signed : s.by # req[h].n
    /\ \A g \in Handlers \ {h} : pc[g] = "resolve" => req[g].n # req[h].n

(* hitl.py: what every approver has loaded is what the resolutions before  *)
(* it left, or what was there before any.                                  *)
ResolutionInv ==
  /\ IsFiniteSet(signed)
  /\ signed \subseteq [item : 1..queued, by : 1..requests]
  /\ \A h \in Handlers : OwnNumber(h)
  /\ \A i \in DOMAIN queue : Settled(i)

-----------------------------------------------------------------------------

\* The item of an evaluation is the one that its chat escalated.
EvaluationAt == {"refresh", "evidence"}
OwnItem(h) ==
  pc[h] \in EvaluationAt =>
    /\ req[h].item <= queued
    /\ req[h].item \in DOMAIN queue => queue[req[h].item].chat = req[h].n

\* An entry's time is not before that of the question.
Evaluating == {"escalate", "refresh", "evidence"}
Timely(h) ==
  pc[h] \in Evaluating => req[h].asked <= req[h].stamp /\ req[h].stamp <= month

InLedger(a) ==
  \E e \in ledger : /\ e.chat = a.chat /\ e.business = a.business
                    /\ e.time \in Nat /\ a.asked <= e.time

(* drca, caal: an answer has its entry, and an escalation lacks one only   *)
(* after a commit that raised.                                             *)
EvidenceInv ==
  /\ faults \in Nat
  /\ IsFiniteSet(ledger)
  /\ answered \subseteq [chat : Nat, business : Businesses, asked : Nat]
  /\ \A a \in answered : InLedger(a)
  /\ \A h \in Handlers : OwnItem(h) /\ Timely(h)
  /\ Cardinality(Unevidenced) <= faults
=============================================================================

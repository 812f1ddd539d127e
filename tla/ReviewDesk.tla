------------------------------ MODULE ReviewDesk ------------------------------
(***************************************************************************)
(* The dual-rail review: a chat question is answered by the language model *)
(* (rail A) and the rule engine (rail B), their divergence is escalated to *)
(* hitl_queue, and each evaluation is written to caal_ledger               *)
(* (services/agents/drca, hitl, caal; services/api/routers/assistant.py,   *)
(* hitl.py).  Approvers resolve items through the API.  Times are months.  *)
(* A chat of a business that is not there stores nothing, and is left out. *)
(***************************************************************************)
EXTENDS Filings

CONSTANT AuditMonths   \* the audit packet goes back 90 days, here whole months

ASSUME ReviewAssumption == AuditMonths \in Nat

None == 0                                   \* no obligation, no chat, no item
Unresolved == [by |-> 0, decision |-> "none"]

VARIABLES
  queue,      \* the hitl_queue rows by id
  queued,     \* rows inserted so far
  ledger,     \* the caal_ledger entries
  answered,   \* history: chats answered, with their business and when they were asked
  signed,     \* history: resolutions committed
  goneItems   \* history: items that a finished reset deleted

deskVars == <<queue, queued, ledger, answered, signed, goneItems>>

InitDesk ==
  /\ queue = <<>>
  /\ queued = 0
  /\ ledger = {}
  /\ answered = {}
  /\ signed = {}
  /\ goneItems = {}

\* Items an open reset-demo has deleted; whoever writes one waits for it.
HeldItems ==
  UNION {req[h].items : h \in {g \in Handlers : pc[g] \in {"reset_rows", "reset_commit"}}}

Item(business, obligation, chat) ==
  [business |-> business, obligation |-> obligation, chat |-> chat,
   status |-> "pending", resolution |-> Unresolved]

\* db.add(item); commit
InsertItem(c, item) ==
  IF c.applied
  THEN queued' = queued + 1 /\ queue' = Insert(queue, queued + 1, item)
  ELSE UNCHANGED <<queue, queued>>

-----------------------------------------------------------------------------
(* Chat: both rails, then the escalation, then the ledger entry.           *)

\* What rail A's text says of the rule engine's result.  When the model cannot
\* be reached the text is an apology, which says nothing of it.
Answers == {"rule", "other", "apology"}

\* Rail B computes due dates, rates and thresholds, and abstains otherwise.
Deterministic == BOOLEAN

\* compare_rails, for a result of rail B that is deterministic or not.
CompareRails(deterministic, answer) ==
  [agreement |-> deterministic /\ answer = "rule",
   diverged |-> deterministic /\ answer # "rule"]

\* Mutant: the ledger entry comes without an escalation.
LedgerFirst(verdict) == "evidence"

\* The first commit of an evaluation.
FirstCommit(verdict) == IF verdict.diverged THEN "escalate" ELSE "evidence"

Chat(h) ==
  /\ \E b \in Businesses, deterministic \in Deterministic, answer \in Answers :
       LET verdict == CompareRails(deterministic, answer) IN
       Receive(h, FirstCommit(verdict),
               [n |-> requests + 1, business |-> b, verdict |-> verdict, item |-> None,
                asked |-> month, stamp |-> month])
  /\ UNCHANGED <<faults, deskVars>>

Escalate(h) ==
  /\ At(h, "escalate")
  /\ \E c \in Commits :
       /\ CommitThen(h, c, "refresh", [req[h] EXCEPT !.item = queued + 1])
       /\ InsertItem(c, Item(req[h].business, None, req[h].n))
  /\ UNCHANGED <<ledger, answered, signed, goneItems>>

\* Mutant: an escalated chat returns before its ledger entry.
RefreshAndReturn(h) ==
  /\ At(h, "refresh")
  /\ Answer(h)
  /\ UNCHANGED <<requests, faults, deskVars>>

\* db.refresh(item) raises when a reset has deleted it meanwhile.
RefreshItem(h) ==
  /\ At(h, "refresh")
  /\ IF req[h].item \in DOMAIN queue
     THEN Goto(h, "evidence", [req[h] EXCEPT !.stamp = month])
     ELSE Answer(h)
  /\ UNCHANGED <<requests, faults, deskVars>>

\* The entry of an evaluation, with the time at which its writing began.
Entry(r) == [chat |-> r.n, business |-> r.business, agreement |-> r.verdict.agreement,
             diverged |-> r.verdict.diverged, item |-> r.item, time |-> r.stamp]

Answered(r) == [chat |-> r.n, business |-> r.business, asked |-> r.asked]

WriteEntry(h) ==
  /\ At(h, "evidence")
  /\ \E c \in Commits :
       /\ CommitThen(h, c, "idle", Nothing)
       /\ ledger' = IF c.applied THEN ledger \cup {Entry(req[h])} ELSE ledger
       /\ answered' = IF c.ok THEN answered \cup {Answered(req[h])} ELSE answered
  /\ UNCHANGED <<queue, queued, signed, goneItems>>

-----------------------------------------------------------------------------
(* Resolution: the item is loaded, changed and committed; a column whose   *)
(* value is the loaded one is not written.  The notes carry the decision.  *)

LoadItem(h) ==
  /\ \E i \in DOMAIN queue, d \in {"approved", "rejected"} :
       Receive(h, "resolve", [n |-> requests + 1, item |-> i,
                              loaded |-> queue[i].status, decision |-> d])
  /\ UNCHANGED <<faults, deskVars>>

\* Mutant: the status is kept once it is not pending, the rest is written.
ResolvedIfPending(item, r) ==
  [item EXCEPT !.status = IF item.status = "pending" THEN r.decision ELSE item.status,
               !.resolution = [by |-> r.n, decision |-> r.decision]]

Resolved(item, r) ==
  [item EXCEPT !.status = IF r.decision = r.loaded THEN item.status ELSE r.decision,
               !.resolution = [by |-> r.n, decision |-> r.decision]]

SaveResolution(h) ==
  LET r == req[h] IN
  /\ At(h, "resolve")
  /\ r.item \in DOMAIN queue \ HeldItems
  /\ \E c \in Commits :
       /\ CommitThen(h, c, "idle", Nothing)
       /\ IF c.applied
          THEN /\ queue' = [queue EXCEPT ![r.item] = Resolved(@, r)]
               /\ signed' = signed \cup {[item |-> r.item, by |-> r.n]}
          ELSE UNCHANGED <<queue, signed>>
  /\ UNCHANGED <<queued, ledger, answered, goneItems>>

ResolutionRaises(h) ==
  /\ At(h, "resolve")
  /\ req[h].item \notin DOMAIN queue
  /\ Answer(h)
  /\ UNCHANGED <<requests, faults, deskVars>>

-----------------------------------------------------------------------------
(* POST /hitl/queue/test-create: an item for any obligation of a business. *)

TestCreate(h) ==
  /\ \E b \in Businesses :
       \E o \in IF RowsOf(b) = {} THEN {None} ELSE RowsOf(b) :
         Receive(h, "test", [business |-> b, obligation |-> o])
  /\ UNCHANGED <<faults, deskVars>>

InsertTest(h) ==
  LET o == req[h].obligation IN
  /\ At(h, "test")
  /\ o = None \/ o \in DOMAIN obligations \ HeldRows
  /\ \E c \in Commits :
       /\ CommitThen(h, c, "created", [item |-> queued + 1])
       /\ InsertItem(c, Item(req[h].business, o, None))
  /\ UNCHANGED <<ledger, answered, signed, goneItems>>

\* The foreign key: the obligation has been deleted since it was read.
InsertTestRaises(h) ==
  /\ At(h, "test")
  /\ req[h].obligation \notin DOMAIN obligations \cup {None}
  /\ Answer(h)
  /\ UNCHANGED <<requests, faults, deskVars>>

RefreshTest(h) ==
  /\ At(h, "created")
  /\ IF req[h].item \in DOMAIN queue THEN Goto(h, "announce", Nothing) ELSE Answer(h)
  /\ UNCHANGED <<requests, faults, deskVars>>

\* SchedulerJobs.hitl_reminder: items pending for an hour are announced.
Remind(h) ==
  /\ \E i \in DOMAIN queue : queue[i].status = "pending"
  /\ Receive(h, "announce", Nothing)
  /\ UNCHANGED <<faults, deskVars>>

DeskStep(h) ==
  \/ Chat(h) \/ Escalate(h) \/ RefreshItem(h) \/ WriteEntry(h)
  \/ LoadItem(h) \/ SaveResolution(h) \/ ResolutionRaises(h)
  \/ TestCreate(h) \/ InsertTest(h) \/ InsertTestRaises(h) \/ RefreshTest(h)
  \/ Remind(h)

\* The entries of AuditPacketGenerator.generate_packet, which it counts: those
\* before the cutoff are left out.
Cutoff == month - AuditMonths
Packet(b) == {e \in ledger : e.business = b /\ e.time >= Cutoff}

-----------------------------------------------------------------------------
(* An entry that records a divergence names an item that approvers saw:    *)
(* the escalation is committed before the entry.                           *)
DivergenceReviewed ==
  \A e \in ledger : e.diverged => e.item \in DOMAIN queue \cup goneItems

\* Escalated items whose evaluation is in no entry, and not on its way.
Unevidenced ==
  {i \in DOMAIN queue : /\ queue[i].chat # None
                        /\ \A e \in ledger : e.chat # queue[i].chat
                        /\ \A h \in Handlers :
                             pc[h] \in {"refresh", "evidence"} => req[h].item # i}

(* Each chat that was asked within the months of the audit, and answered, *)
(* is in the packet of its business, though its entry is stamped before it *)
(* is committed; and an item that was escalated without evidence has cost  *)
(* a failed commit.                                                        *)
Evidenced ==
  /\ \A a \in answered :
       a.asked >= Cutoff => \E e \in Packet(a.business) : e.chat = a.chat
  /\ Cardinality(Unevidenced) <= faults

SignedFor(i) == {s \in signed : s.item = i}

(* Two approvers of one item, in any order, leave a row that is all of one *)
(* of them: its status is the decision of the resolution it names.  (With  *)
(* three it may be a mixture: see the README.)                             *)
CoherentDecision ==
  \A i \in DOMAIN queue :
    Cardinality(SignedFor(i)) \in 1..2 => queue[i].status = queue[i].resolution.decision
=============================================================================

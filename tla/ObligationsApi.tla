---------------------------- MODULE ObligationsApi ----------------------------
(***************************************************************************)
(* The obligations table and the requests that write it                    *)
(* (services/api/routers/obligations.py).                                  *)
(*                                                                         *)
(* SQLAlchemy's UPDATE names only the columns whose value differs from     *)
(* what the session loaded, and raises when the row is gone.               *)
(***************************************************************************)
EXTENDS ApiRequests, Sequences

CONSTANTS
  Businesses,
  Payloads,   \* bodies of POST /obligations: business, domain, due month, status
  Statuses,   \* what PUT may set; the endpoint takes any string
  Seeded      \* the rows the table starts with

ASSUME ObligationAssumption ==
  /\ Seeded \in Seq(Payloads)
  /\ \A p \in Payloads : p.business \in Businesses

VARIABLES
  obligations,  \* the rows by id
  made,         \* rows inserted so far; ids are never given twice
  changes,      \* history: commits that changed the table
  goneRows      \* history: rows that a finished reset deleted

obligationVars == <<obligations, made, changes, goneRows>>

AsRow(p) == [business |-> p.business, domain |-> p.domain, due |-> p.due,
             status |-> p.status, version |-> 1]

InitObligations ==
  /\ obligations = [i \in DOMAIN Seeded |-> AsRow(Seeded[i])]
  /\ made = Len(Seeded)
  /\ changes = 0
  /\ goneRows = {}

RowsOf(b) == {i \in DOMAIN obligations : obligations[i].business = b}

\* Rows a reset-demo has deleted in a transaction that is still open: a
\* statement that writes one of them waits for its commit.
HeldRows == UNION {req[h].rows : h \in {g \in Handlers : At(g, "reset_commit")}}

-----------------------------------------------------------------------------

CreateObligation(h) ==
  /\ At(h, "idle") /\ requests < MaxRequests
  /\ requests' = requests + 1
  /\ \E p \in Payloads, c \in Commits :
       /\ Counted(c)
       /\ IF c.applied
          THEN /\ made' = made + 1
               /\ obligations' = Insert(obligations, made + 1, AsRow(p))
               /\ changes' = changes + 1
          ELSE UNCHANGED <<obligations, made, changes>>
  /\ UNCHANGED <<pc, req, goneRows>>

LoadRow(h, status) ==
  /\ \E i \in DOMAIN obligations :
       Receive(h, "update", [id |-> i, loaded |-> obligations[i], status |-> status])
  /\ UNCHANGED <<faults, obligations, made, changes, goneRows>>

UpdateStatus(h) == \E s \in Statuses : LoadRow(h, s)
SoftDelete(h) == LoadRow(h, "waived")

\* item.status = status; item.version += 1; commit
Written(row, loaded, status) ==
  [row EXCEPT !.status = IF status = loaded.status THEN row.status ELSE status,
              !.version = loaded.version + 1]

\* What a commit of the session leaves of the table: UPDATE ... WHERE id.
Flush(table, r) == [table EXCEPT ![r.id] = Written(@, r.loaded, r.status)]

FlushRow(h) ==
  /\ At(h, "update")
  /\ req[h].id \in DOMAIN obligations \ HeldRows
  /\ \E c \in Commits :
       /\ CommitThen(h, c, "idle", Nothing)
       /\ IF c.applied
          THEN obligations' = Flush(obligations, req[h]) /\ changes' = changes + 1
          ELSE UNCHANGED <<obligations, changes>>
  /\ UNCHANGED <<made, goneRows>>

\* Mutant: the session merges its object into the table instead.
FlushMerges(h) ==
  /\ At(h, "update")
  /\ req[h].id \notin DOMAIN obligations
  /\ obligations' = Insert(obligations, req[h].id, req[h].loaded)
  /\ Answer(h)
  /\ UNCHANGED <<requests, faults, made, changes, goneRows>>

\* StaleDataError: the UPDATE matched no row.
FlushRaises(h) ==
  /\ At(h, "update")
  /\ req[h].id \notin DOMAIN obligations
  /\ Answer(h)
  /\ UNCHANGED <<requests, faults, obligations, made, changes, goneRows>>

ObligationStep(h) ==
  \/ CreateObligation(h) \/ UpdateStatus(h) \/ SoftDelete(h)
  \/ FlushRow(h) \/ FlushRaises(h)
=============================================================================

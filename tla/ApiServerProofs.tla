--------------------------- MODULE ApiServerProofs ---------------------------
(***************************************************************************)
(* ApiInv is an invariant of ApiServer, and with it the properties it       *)
(* contains, for any number of requests at once, businesses and sockets.   *)
(* On it rest FilingInv, ResolutionInv and EvidenceInv, one for each part  *)
(* of the state whose properties count or compare what requests left.      *)
(***************************************************************************)
EXTENDS ApiServer, FiniteSums, SequenceTheorems, TLAPS

USE RequestAssumption, ObligationAssumption, FilingAssumption

(***************************************************************************)
(* What a step of h leaves to the other handlers.                           *)
(***************************************************************************)
HandlerStep(h) ==
  /\ pc' \in [Handlers -> Labels] /\ DOMAIN req' = Handlers /\ requests' \in Nat
  /\ \A g \in Handlers \ {h} : pc'[g] = pc[g] /\ req'[g] = req[g]

TablesOK ==
  /\ made \in Nat /\ DOMAIN obligations \cup goneRows \subseteq 1..made
  /\ queued \in Nat /\ DOMAIN queue \cup goneItems \subseteq 1..queued
  /\ queue \in [DOMAIN queue -> Items]

TablesGrow ==
  /\ made <= made' /\ queued <= queued'
  /\ DOMAIN queue \cup goneItems \subseteq (DOMAIN queue \cup goneItems)'
  /\ \A i \in DOMAIN queue' :
       \/ i \in DOMAIN queue /\ queue'[i].obligation = queue[i].obligation
       \/ queue'[i].obligation \notin HeldRows

LEMMA OthersHold ==
  ASSUME TypeOK, NEW h \in Handlers, HandlerStep(h), TablesOK', TablesGrow,
         NEW g \in Handlers, g # h, Holding(g)
  PROVE  Holding(g)'
<1>1. pc'[g] = pc[g] /\ req'[g] = req[g]
  BY DEF HandlerStep
<1>2. pc[g] = "reset_commit" => req[g].rows \subseteq HeldRows
  BY DEF HeldRows, At
<1>3. 1..queued \subseteq 1..queued' /\ 1..made \subseteq 1..made'
  BY DEF TypeOK, TablesOK, TablesGrow
<1>4. ASSUME pc[g] = "reset_commit"
      PROVE  /\ req[g].rows \subseteq 1..made'
             /\ \A i \in DOMAIN queue' \ req[g].items : queue'[i].obligation \notin req[g].rows
  BY <1>2, <1>3, <1>4 DEF Holding, TablesGrow
<1>5. ASSUME pc[g] \in {"reset_rows", "reset_commit"}
      PROVE  req[g].items \subseteq 1..queued'
  BY <1>3, <1>5 DEF Holding
<1>6. ASSUME pc[g] = "refresh" \/ (pc[g] = "evidence" /\ req[g].verdict.diverged)
      PROVE  req[g].item \in DOMAIN queue' \cup goneItems'
  BY <1>6 DEF Holding, TablesGrow
<1> QED
  BY <1>1, <1>4, <1>5, <1>6 DEF Holding

LEMMA PayrollKept ==
  ASSUME PayrollBound, NEW h \in Handlers, HandlerStep(h), pc[h] # "dues", pc'[h] # "dues",
         UNCHANGED payroll
  PROVE  PayrollBound'
<1>1. \A k : Inserting(k)' = Inserting(k)
  BY DEF Inserting, HandlerStep
<1> QED
  BY <1>1 DEF PayrollBound

\* A step of h that leaves payroll and sockets alone.
LEMMA TableStep ==
  ASSUME ApiInv, NEW h \in Handlers, HandlerStep(h), Holding(h)',
         pc[h] # "dues", pc'[h] # "dues", UNCHANGED <<payroll, month, active, missed>>,
         TablesOK', TablesGrow, ResetStands',
         \A e \in ledger' : e \in ledger \/ (e.diverged => e.item \in (DOMAIN queue \cup goneItems)')
  PROVE  ApiInv'
<1>1. TypeOK'
  BY DEF ApiInv, TypeOK, HandlerStep, TablesOK
<1>2. \A g \in Handlers : Holding(g)'
  BY OthersHold DEF ApiInv
<1>3. PayrollBound'
  BY PayrollKept DEF ApiInv
<1>4. DivergenceReviewed'
  BY DEF ApiInv, DivergenceReviewed, TablesGrow
<1> QED
  BY <1>1, <1>2, <1>3, <1>4 DEF ApiInv, NobodyPassedOver

LEMMA QuietStep ==
  ASSUME ApiInv, NEW h \in Handlers, HandlerStep(h), Holding(h)',
         pc[h] # "dues", pc'[h] # "dues",
         UNCHANGED <<payroll, month, active, missed, queue, queued, goneItems, ledger,
                     made, goneRows>>,
         DOMAIN obligations' = DOMAIN obligations
  PROVE  ApiInv'
<1>1. TablesOK' /\ TablesGrow
  BY DEF ApiInv, TypeOK, TablesOK, TablesGrow
<1>2. ResetStands'
  BY DEF ApiInv, ResetStands
<1> QED
  BY <1>1, <1>2, TableStep

-----------------------------------------------------------------------------
(***************************************************************************)
(* The three ways a handler goes on.                                        *)
(***************************************************************************)
LEMMA GotoMoves ==
  ASSUME TypeOK, NEW h \in Handlers, NEW l \in Labels, NEW x, Goto(h, l, x), requests' \in Nat
  PROVE  HandlerStep(h) /\ pc'[h] = l /\ req'[h] = x
BY DEF TypeOK, Goto, HandlerStep

LEMMA AnswerMoves ==
  ASSUME TypeOK, NEW h \in Handlers, Answer(h), UNCHANGED requests
  PROVE  HandlerStep(h) /\ pc'[h] = "idle"
BY GotoMoves DEF TypeOK, Answer, Labels

LEMMA ReceiveMoves ==
  ASSUME TypeOK, NEW h \in Handlers, NEW l \in Labels, NEW x, Receive(h, l, x)
  PROVE  HandlerStep(h) /\ pc[h] = "idle" /\ pc'[h] = l /\ req'[h] = x
<1>1. requests' \in Nat
  BY DEF TypeOK, Receive
<1> QED
  BY <1>1, GotoMoves DEF Receive, At

LEMMA CommitMoves ==
  ASSUME TypeOK, NEW h \in Handlers, NEW c \in Commits, NEW l \in Labels, NEW x,
         CommitThen(h, c, l, x)
  PROVE  /\ HandlerStep(h)
         /\ pc'[h] = "idle" \/ (c.applied /\ pc'[h] = l /\ req'[h] = x)
<1>1. requests' = requests /\ requests' \in Nat
  BY DEF TypeOK, CommitThen
<1>2. CASE c.ok
  BY <1>1, <1>2, GotoMoves DEF CommitThen, Commits
<1>3. CASE ~ c.ok
  BY <1>1, <1>3, AnswerMoves DEF CommitThen
<1> QED
  BY <1>2, <1>3

\* Places at which a handler holds nothing that others can make untrue.
Free == {"idle", "update", "score", "checklist", "file", "created", "announce"}

LEMMA FreeHolds ==
  ASSUME NEW h \in Handlers, pc'[h] \in Free
  PROVE  Holding(h)' /\ pc'[h] # "dues"
BY DEF Free, Holding

-----------------------------------------------------------------------------
(***************************************************************************)
(* Obligations.                                                            *)
(***************************************************************************)
LEMMA LoadRowStep ==
  ASSUME ApiInv, NEW h \in Handlers, NEW s, LoadRow(h, s),
         UNCHANGED <<filingVars, deskVars, channelVars>>
  PROVE  ApiInv'
<1>1. TypeOK /\ UNCHANGED <<obligations, made, goneRows>>
  BY DEF ApiInv, LoadRow
<1>2. PICK i \in DOMAIN obligations :
        Receive(h, "update", [id |-> i, loaded |-> obligations[i], status |-> s])
  BY DEF LoadRow
<1>3. HandlerStep(h) /\ pc[h] = "idle" /\ pc'[h] = "update"
  BY <1>1, <1>2, ReceiveMoves DEF Labels
<1>4. Holding(h)' /\ pc'[h] # "dues"
  BY <1>3, FreeHolds DEF Free
<1> QED
  BY <1>1, <1>3, <1>4, QuietStep DEF filingVars, deskVars, channelVars

LEMMA FlushRowStep ==
  ASSUME ApiInv, NEW h \in Handlers, FlushRow(h),
         UNCHANGED <<filingVars, deskVars, channelVars>>
  PROVE  ApiInv'
<1>1. TypeOK /\ pc[h] = "update" /\ UNCHANGED <<made, goneRows>>
  BY DEF ApiInv, FlushRow, At
<1>2. PICK c \in Commits :
        /\ CommitThen(h, c, "idle", Nothing)
        /\ IF c.applied THEN obligations' = Flush(obligations, req[h]) /\ changes' = changes + 1
                        ELSE UNCHANGED <<obligations, changes>>
  BY DEF FlushRow
<1>3. HandlerStep(h) /\ pc'[h] = "idle"
  BY <1>1, <1>2, CommitMoves DEF Labels
<1>4. DOMAIN obligations' = DOMAIN obligations
  BY <1>2 DEF Flush
<1>5. Holding(h)' /\ pc'[h] # "dues"
  BY <1>3, FreeHolds DEF Free
<1> QED
  BY <1>1, <1>3, <1>4, <1>5, QuietStep DEF filingVars, deskVars, channelVars

LEMMA CreateObligationStep ==
  ASSUME ApiInv, NEW h \in Handlers, CreateObligation(h),
         UNCHANGED <<filingVars, deskVars, channelVars>>
  PROVE  ApiInv'
<1>1. TypeOK /\ pc[h] = "idle" /\ UNCHANGED <<pc, req, goneRows>> /\ requests' = requests + 1
  BY DEF ApiInv, CreateObligation, At
<1>2. /\ UNCHANGED <<payroll, month, active, missed, queue, queued, goneItems, ledger>>
  BY DEF filingVars, deskVars, channelVars
<1>3. HandlerStep(h)
  BY <1>1 DEF TypeOK, HandlerStep
<1>4. Holding(h)' /\ pc'[h] # "dues"
  BY <1>1, FreeHolds DEF Free
<1>5. \/ UNCHANGED <<obligations, made>>
      \/ made' = made + 1 /\ DOMAIN obligations' = DOMAIN obligations \cup {made + 1}
  BY DEF CreateObligation, Insert
<1>6. made' \in Nat /\ made <= made' /\ DOMAIN obligations' \cup goneRows' \subseteq 1..made'
  BY <1>1, <1>5 DEF TypeOK
<1>7. TablesOK' /\ TablesGrow
  BY <1>1, <1>2, <1>6 DEF TypeOK, TablesOK, TablesGrow
<1>8. ResetStands'
  BY <1>1, <1>2, <1>5 DEF ApiInv, ResetStands, TypeOK
<1> QED
  BY <1>1, <1>2, <1>3, <1>4, <1>7, <1>8, TableStep

LEMMA ObligationKeeps ==
  ASSUME ApiInv, NEW h \in Handlers, ObligationStep(h), UNCHANGED <<filingVars, deskVars, channelVars>>
  PROVE  ApiInv'
<1>1. CASE FlushRaises(h)
  <2>1. /\ TypeOK /\ Answer(h) /\ pc[h] = "update"
        /\ UNCHANGED <<requests, obligations, made, goneRows>>
    BY <1>1 DEF FlushRaises, At, ApiInv
  <2>2. HandlerStep(h) /\ Holding(h)' /\ pc'[h] # "dues"
    BY <2>1, AnswerMoves, FreeHolds DEF Free
  <2> QED
    BY <2>1, <2>2, QuietStep DEF filingVars, deskVars, channelVars
<1> QED
  BY <1>1, LoadRowStep, FlushRowStep, CreateObligationStep
     DEF ObligationStep, UpdateStatus, SoftDelete

-----------------------------------------------------------------------------
(***************************************************************************)
(* Filings.                                                                *)
(***************************************************************************)
LEMMA ComputePayrollStep ==
  ASSUME ApiInv, NEW h \in Handlers, ComputePayroll(h),
         UNCHANGED <<obligationVars, deskVars, channelVars>>
  PROVE  ApiInv'
<1>1. PICK b \in Businesses :
        Receive(h, "dues", [key |-> <<b, month>>, found |-> Exists(<<b, month>>)])
  BY DEF ComputePayroll
<1>2. TypeOK /\ UNCHANGED <<month, payroll>>
  BY DEF ApiInv, ComputePayroll
<1> DEFINE key == <<b, month>>
<1>3. /\ HandlerStep(h) /\ pc[h] = "idle" /\ pc'[h] = "dues"
      /\ req'[h] = [key |-> key, found |-> Exists(key)]
  BY <1>1, <1>2, ReceiveMoves DEF Labels
<1>4. key \in Businesses \X Months
  BY <1>2 DEF TypeOK
<1>5. Holding(h)'
  BY <1>3, <1>4 DEF Holding
<1>6. TablesOK' /\ TablesGrow /\ ResetStands' /\ UNCHANGED <<active, missed, ledger, queue, goneItems>>
  BY <1>2 DEF ApiInv, TypeOK, TablesOK, TablesGrow, ResetStands, obligationVars, deskVars, channelVars
<1>7. TypeOK'
  BY <1>2, <1>3, <1>6 DEF TypeOK, HandlerStep, TablesOK
<1>8. \A g \in Handlers : Holding(g)'
  BY <1>2, <1>3, <1>5, <1>6, OthersHold DEF ApiInv
<1>9. PayrollBound'
  <2> SUFFICES ASSUME NEW k \in Businesses \X Months, payroll[k] # 0
               PROVE  payroll[k] + Cardinality(Inserting(k)') <= Cardinality(Handlers)
    BY <1>2 DEF PayrollBound
  <2>1. payroll[k] > 0
    BY <1>2 DEF TypeOK
  <2>2. req'[h].key = k => req'[h].found
    <3>1. req'[h].key = key /\ req'[h].found = Exists(key)
      BY <1>3
    <3> QED
      BY <2>1, <3>1 DEF Exists
  <2>3. Inserting(k)' = Inserting(k)
    BY <1>3, <2>2 DEF Inserting, HandlerStep
  <2> QED
    BY <2>3 DEF ApiInv, PayrollBound
<1> QED
  BY <1>6, <1>7, <1>8, <1>9 DEF ApiInv, DivergenceReviewed, NobodyPassedOver

LEMMA SaveDuesStep ==
  ASSUME ApiInv, NEW h \in Handlers, SaveDues(h),
         UNCHANGED <<obligationVars, deskVars, channelVars>>
  PROVE  ApiInv'
<1>1. PICK c \in Commits :
        /\ CommitThen(h, c, "idle", Nothing)
        /\ payroll' = IF c.applied /\ ~ req[h].found THEN [payroll EXCEPT ![req[h].key] = @ + 1]
                                                      ELSE payroll
  BY DEF SaveDues
<1>2. TypeOK /\ pc[h] = "dues" /\ UNCHANGED month
  BY DEF ApiInv, SaveDues, At
<1> DEFINE key == req[h].key
<1>3. HandlerStep(h) /\ pc'[h] = "idle" /\ key \in Businesses \X Months
  BY <1>1, <1>2, CommitMoves DEF ApiInv, Holding, Labels
<1>4. Holding(h)'
  BY <1>3, FreeHolds DEF Free
<1>5. TablesOK' /\ TablesGrow /\ ResetStands' /\ UNCHANGED <<active, missed, ledger, queue, goneItems>>
  BY <1>2 DEF ApiInv, TypeOK, TablesOK, TablesGrow, ResetStands, obligationVars, deskVars, channelVars
<1>6. \A g \in Handlers : Holding(g)'
  BY <1>2, <1>3, <1>4, <1>5, OthersHold DEF ApiInv
<1>7. payroll' \in [Businesses \X Months -> Nat]
  BY <1>1, <1>2, <1>3 DEF TypeOK
<1>8. TypeOK'
  BY <1>2, <1>3, <1>5, <1>7 DEF TypeOK, HandlerStep, TablesOK
<1>9. PayrollBound'
  <2> SUFFICES ASSUME NEW k \in Businesses \X Months
               PROVE  payroll'[k] = 0 \/ payroll'[k] + Cardinality(Inserting(k)') <= Cardinality(Handlers)
    BY <1>2 DEF PayrollBound
  <2>1. Inserting(k)' = Inserting(k) \ {h}
    BY <1>3 DEF Inserting, HandlerStep
  <2>2. Inserting(k) \in SUBSET Handlers /\ Inserting(k) \ {h} \in SUBSET (Handlers \ {h})
    BY DEF Inserting
  <2>3. /\ IsFiniteSet(Inserting(k)) /\ Cardinality(Inserting(k)) \in Nat
        /\ Cardinality(Handlers) \in Nat /\ Cardinality(Handlers \ {h}) = Cardinality(Handlers) - 1
        /\ IsFiniteSet(Handlers \ {h})
    BY <2>2, FS_Subset, FS_CardinalityType, FS_RemoveElement
  <2>4. /\ Cardinality(Inserting(k) \ {h}) <= Cardinality(Handlers) - 1
        /\ Cardinality(Inserting(k) \ {h}) \in Nat
    BY <2>2, <2>3, FS_Subset, FS_CardinalityType
  <2>5. Cardinality(Inserting(k) \ {h}) = IF h \in Inserting(k) THEN Cardinality(Inserting(k)) - 1
                                                                ELSE Cardinality(Inserting(k))
    BY <2>3, FS_RemoveElement
  <2>6. payroll[k] \in Nat /\ (payroll[k] = 0 \/ payroll[k] + Cardinality(Inserting(k)) <= Cardinality(Handlers))
    BY <1>2 DEF ApiInv, PayrollBound, TypeOK
  <2>7. CASE payroll'[k] = payroll[k]
    BY <2>1, <2>3, <2>4, <2>5, <2>6, <2>7
  <2>8. CASE payroll'[k] # payroll[k]
    <3>1. key = k /\ ~ req[h].found /\ payroll'[k] = payroll[k] + 1
      BY <1>1, <1>2, <1>3, <2>8 DEF TypeOK
    <3>2. h \in Inserting(k)
      BY <1>2, <3>1 DEF Inserting
    <3> QED
      BY <2>1, <2>3, <2>4, <2>5, <2>6, <3>1, <3>2
  <2> QED
    BY <2>7, <2>8
<1> QED
  BY <1>5, <1>6, <1>8, <1>9 DEF ApiInv, DivergenceReviewed, NobodyPassedOver

LEMMA FilingKeeps ==
  ASSUME ApiInv, NEW h \in Handlers, FilingStep(h), UNCHANGED <<obligationVars, deskVars, channelVars>>
  PROVE  ApiInv'
<1>1. CASE StartFiling(h) \/ ReadScore(h) \/ ReadChecklist(h) \/ FileStatus(h)
  <2>1. TypeOK /\ UNCHANGED <<month, payroll>>
    BY <1>1 DEF ApiInv, StartFiling, ReadScore, ReadChecklist, FileStatus
  <2>2. HandlerStep(h) /\ pc[h] # "dues" /\ pc'[h] \in Free
    <3>1. CASE StartFiling(h)
      BY <2>1, <3>1, ReceiveMoves DEF StartFiling, Free, Labels
    <3>2. CASE ReadScore(h)
      BY <2>1, <3>2, GotoMoves DEF ReadScore, Free, Labels, At, TypeOK
    <3>3. CASE ReadChecklist(h)
      BY <2>1, <3>3, GotoMoves DEF ReadChecklist, Free, Labels, At, TypeOK
    <3>4. CASE FileStatus(h)
      BY <2>1, <3>4, CommitMoves DEF FileStatus, Free, Labels, At
    <3> QED
      BY <1>1, <3>1, <3>2, <3>3, <3>4
  <2> QED
    BY <2>1, <2>2, FreeHolds, QuietStep DEF obligationVars, deskVars, channelVars
<1> QED
  BY <1>1, ComputePayrollStep, SaveDuesStep DEF FilingStep

-----------------------------------------------------------------------------
(***************************************************************************)
(* The review desk.                                                        *)
(***************************************************************************)
LEMMA DeskQuiet ==
  ASSUME ApiInv, NEW h \in Handlers, HandlerStep(h), Holding(h)', pc[h] # "dues", pc'[h] # "dues",
         UNCHANGED <<deskVars, obligationVars, filingVars, channelVars>>
  PROVE  ApiInv'
BY QuietStep DEF deskVars, obligationVars, filingVars, channelVars

\* An item more in the queue, for an obligation that no open reset deletes.
LEMMA InsertKeeps ==
  ASSUME TypeOK, ResetStands, NEW c \in Commits, NEW item \in Items, InsertItem(c, item),
         item.obligation \notin HeldRows, item.obligation \notin goneRows,
         UNCHANGED <<goneItems, obligationVars>>
  PROVE  /\ TablesOK' /\ TablesGrow /\ ResetStands'
         /\ c.applied => queued + 1 \in DOMAIN queue'
<1>1. CASE c.applied
  <2>1. /\ queued' = queued + 1
        /\ queue' = [i \in DOMAIN queue \cup {queued + 1} |-> IF i = queued + 1 THEN item ELSE queue[i]]
    BY <1>1 DEF InsertItem, Insert
  <2>2. DOMAIN queue' = DOMAIN queue \cup {queued + 1} /\ queued + 1 \notin DOMAIN queue \cup goneItems
    BY <2>1 DEF TypeOK
  <2>3. queue'[queued + 1] = item /\ \A i \in DOMAIN queue : queue'[i] = queue[i]
    BY <2>1, <2>2
  <2>4. queue' \in [DOMAIN queue' -> Items]
    BY <2>1, <2>2 DEF TypeOK
  <2>5. TablesOK'
    BY <2>1, <2>2, <2>4 DEF TypeOK, TablesOK, obligationVars
  <2>6. TablesGrow
    BY <2>1, <2>2, <2>3 DEF TypeOK, TablesGrow, obligationVars
  <2>7. ResetStands'
    BY <2>2, <2>3 DEF ResetStands, obligationVars
  <2> QED
    BY <2>2, <2>5, <2>6, <2>7
<1>2. CASE ~ c.applied
  BY <1>2 DEF InsertItem, TypeOK, TablesOK, TablesGrow, ResetStands, obligationVars
<1> QED
  BY <1>1, <1>2

\* No open reset has a row that nobody was given.
LEMMA NoneIsFree ==
  ASSUME ApiInv
  PROVE  None \notin HeldRows /\ None \notin goneRows
BY DEF ApiInv, TypeOK, Holding, HeldRows, At, None

LEMMA ChatStep ==
  ASSUME ApiInv, NEW h \in Handlers, Chat(h),
         UNCHANGED <<obligationVars, filingVars, channelVars>>
  PROVE  ApiInv'
<1>1. PICK b \in Businesses, deterministic \in BOOLEAN, answer \in Answers :
        LET verdict == CompareRails(deterministic, answer) IN
        Receive(h, FirstCommit(verdict),
                [n |-> requests + 1, business |-> b, verdict |-> verdict, item |-> None,
                 asked |-> month, stamp |-> month])
  BY DEF Chat, Deterministic
<1> DEFINE verdict == CompareRails(deterministic, answer)
           x == [n |-> requests + 1, business |-> b, verdict |-> verdict, item |-> None,
                 asked |-> month, stamp |-> month]
<1>2. verdict \in [agreement : BOOLEAN, diverged : BOOLEAN]
  BY DEF CompareRails
<1> HIDE DEF verdict
<1>3. FirstCommit(verdict) \in {"escalate", "evidence"}
      /\ (FirstCommit(verdict) = "evidence" => ~ verdict.diverged)
  BY DEF FirstCommit
<1>4. TypeOK /\ Receive(h, FirstCommit(verdict), x) /\ UNCHANGED deskVars
  BY <1>1 DEF ApiInv, Chat, verdict
<1>5. x \in Evaluations /\ x.verdict = verdict
  BY <1>2, <1>4 DEF Evaluations, None, TypeOK, Months
<1> HIDE DEF x
<1>6. HandlerStep(h) /\ pc[h] = "idle" /\ pc'[h] = FirstCommit(verdict) /\ req'[h] = x
  BY <1>3, <1>4, ReceiveMoves DEF Labels
<1>7. Holding(h)'
  BY <1>3, <1>5, <1>6 DEF Holding
<1> QED
  BY <1>3, <1>4, <1>6, <1>7, DeskQuiet

LEMMA EscalateStep ==
  ASSUME ApiInv, NEW h \in Handlers, Escalate(h),
         UNCHANGED <<obligationVars, filingVars, channelVars>>
  PROVE  ApiInv'
<1>0. /\ TypeOK /\ ResetStands /\ pc[h] = "escalate" /\ req[h] \in Evaluations
      /\ UNCHANGED <<ledger, goneItems>>
  BY DEF ApiInv, Holding, Escalate, At
<1> DEFINE x == [req[h] EXCEPT !.item = queued + 1]
           item == Item(req[h].business, None, req[h].n)
<1>1. PICK c \in Commits : CommitThen(h, c, "refresh", x) /\ InsertItem(c, item)
  BY DEF Escalate
<1>2. item \in Items /\ item.obligation = None
  BY <1>0 DEF Item, Items, Evaluations, None, Unresolved
<1>3. queued + 1 \in Nat
  BY <1>0 DEF TypeOK
<1>4. x \in Evaluations /\ x.item = queued + 1
  BY <1>0, <1>3 DEF Evaluations
<1> HIDE DEF item, x
<1>5. TablesOK' /\ TablesGrow /\ ResetStands' /\ (c.applied => queued + 1 \in DOMAIN queue')
  BY <1>0, <1>1, <1>2, NoneIsFree, InsertKeeps
<1>6. HandlerStep(h) /\ (pc'[h] = "idle" \/ (c.applied /\ pc'[h] = "refresh" /\ req'[h] = x))
  BY <1>0, <1>1, CommitMoves DEF Labels
<1>7. Holding(h)' /\ pc'[h] # "dues"
  BY <1>4, <1>5, <1>6 DEF Holding
<1> QED
  BY <1>0, <1>5, <1>6, <1>7, TableStep DEF filingVars, channelVars

LEMMA RefreshItemStep ==
  ASSUME ApiInv, NEW h \in Handlers, RefreshItem(h),
         UNCHANGED <<obligationVars, filingVars, channelVars>>
  PROVE  ApiInv'
<1>1. /\ TypeOK /\ Holding(h) /\ pc[h] = "refresh" /\ UNCHANGED <<requests, deskVars>>
      /\ requests' \in Nat
  BY DEF ApiInv, TypeOK, RefreshItem, At
<1> DEFINE x == [req[h] EXCEPT !.stamp = month]
<1>0. req[h] \in Evaluations /\ month \in Nat
  BY <1>1 DEF Holding, TypeOK, Months
<1>4. x \in Evaluations /\ x.item = req[h].item /\ x.verdict = req[h].verdict
  BY <1>0 DEF Evaluations
<1> HIDE DEF x
<1>2. CASE Goto(h, "evidence", x)
  <2>1. HandlerStep(h) /\ pc'[h] = "evidence" /\ req'[h] = x
    BY <1>1, <1>2, GotoMoves DEF Labels
  <2>2. Holding(h)'
    BY <1>1, <1>4, <2>1 DEF Holding, deskVars
  <2> QED
    BY <1>1, <2>1, <2>2, DeskQuiet
<1>3. CASE Answer(h)
  <2>1. HandlerStep(h) /\ Holding(h)' /\ pc'[h] # "dues"
    BY <1>1, <1>3, AnswerMoves, FreeHolds DEF Free
  <2> QED
    BY <1>1, <2>1, DeskQuiet
<1> QED
  BY <1>2, <1>3 DEF RefreshItem, x

LEMMA WriteEntryStep ==
  ASSUME ApiInv, NEW h \in Handlers, WriteEntry(h),
         UNCHANGED <<obligationVars, filingVars, channelVars>>
  PROVE  ApiInv'
<1>0. TypeOK /\ Holding(h) /\ pc[h] = "evidence" /\ UNCHANGED <<queue, queued, goneItems>>
  BY DEF ApiInv, WriteEntry, At
<1>1. PICK c \in Commits :
        /\ CommitThen(h, c, "idle", Nothing)
        /\ ledger' = IF c.applied THEN ledger \cup {Entry(req[h])} ELSE ledger
  BY DEF WriteEntry
<1>2. HandlerStep(h) /\ pc'[h] = "idle"
  BY <1>0, <1>1, CommitMoves DEF Labels
<1>3. Holding(h)' /\ pc'[h] # "dues"
  BY <1>2, FreeHolds DEF Free
<1>4. TablesOK' /\ TablesGrow /\ ResetStands'
  BY <1>0 DEF ApiInv, TypeOK, TablesOK, TablesGrow, ResetStands, obligationVars
<1>5. Entry(req[h]).diverged => Entry(req[h]).item \in DOMAIN queue \cup goneItems
  BY <1>0 DEF Entry, Holding
<1> QED
  BY <1>0, <1>1, <1>2, <1>3, <1>4, <1>5, TableStep DEF filingVars, channelVars

LEMMA LoadItemStep ==
  ASSUME ApiInv, NEW h \in Handlers, LoadItem(h),
         UNCHANGED <<obligationVars, filingVars, channelVars>>
  PROVE  ApiInv'
<1>0. TypeOK /\ UNCHANGED deskVars
  BY DEF ApiInv, LoadItem
<1>1. PICK i \in DOMAIN queue, d \in Decisions :
        Receive(h, "resolve", [n |-> requests + 1, item |-> i, loaded |-> queue[i].status, decision |-> d])
  BY DEF LoadItem, Decisions
<1> DEFINE x == [n |-> requests + 1, item |-> i, loaded |-> queue[i].status, decision |-> d]
<1>2. queue[i] \in Items /\ i \in Nat /\ requests + 1 \in Nat
  BY <1>0 DEF TypeOK
<1>3. x \in Resolutions
  BY <1>2 DEF Items, Resolutions
<1> HIDE DEF x
<1>4. HandlerStep(h) /\ pc[h] = "idle" /\ pc'[h] = "resolve" /\ req'[h] = x
  BY <1>0, <1>1, ReceiveMoves DEF Labels, x
<1>5. Holding(h)'
  BY <1>3, <1>4 DEF Holding
<1> QED
  BY <1>0, <1>4, <1>5, DeskQuiet

LEMMA SaveResolutionStep ==
  ASSUME ApiInv, NEW h \in Handlers, SaveResolution(h),
         UNCHANGED <<obligationVars, filingVars, channelVars>>
  PROVE  ApiInv'
<1> DEFINE r == req[h]
<1>0. /\ TypeOK /\ ResetStands /\ pc[h] = "resolve" /\ r \in Resolutions /\ r.item \in DOMAIN queue
      /\ UNCHANGED <<queued, ledger, goneItems>>
  BY DEF ApiInv, Holding, SaveResolution, At
<1>1. PICK c \in Commits :
        /\ CommitThen(h, c, "idle", Nothing)
        /\ queue' = queue \/ queue' = [queue EXCEPT ![r.item] = Resolved(queue[r.item], r)]
  BY <1>0 DEF SaveResolution, TypeOK
<1>2. HandlerStep(h) /\ pc'[h] = "idle"
  BY <1>0, <1>1, CommitMoves DEF Labels
<1>3. Holding(h)' /\ pc'[h] # "dues"
  BY <1>2, FreeHolds DEF Free
<1>4. /\ Resolved(queue[r.item], r) \in Items
      /\ Resolved(queue[r.item], r).obligation = queue[r.item].obligation
  <2>1. queue[r.item] \in Items
    BY <1>0 DEF TypeOK
  <2> QED
    BY <1>0, <2>1 DEF Items, Resolutions, Resolved
<1>5. /\ DOMAIN queue' = DOMAIN queue /\ queue' \in [DOMAIN queue' -> Items]
      /\ \A i \in DOMAIN queue : queue'[i].obligation = queue[i].obligation
  BY <1>0, <1>1, <1>4 DEF TypeOK
<1>6. TablesOK' /\ TablesGrow
  BY <1>0, <1>5 DEF TypeOK, TablesOK, TablesGrow, obligationVars
<1>7. ResetStands'
  BY <1>0, <1>5 DEF ResetStands, obligationVars
<1> QED
  BY <1>0, <1>2, <1>3, <1>6, <1>7, TableStep DEF filingVars, channelVars

LEMMA TestCreateStep ==
  ASSUME ApiInv, NEW h \in Handlers, TestCreate(h),
         UNCHANGED <<obligationVars, filingVars, channelVars>>
  PROVE  ApiInv'
<1>0. TypeOK /\ UNCHANGED deskVars
  BY DEF ApiInv, TestCreate
<1>1. PICK b \in Businesses :
        \E o \in IF RowsOf(b) = {} THEN {None} ELSE RowsOf(b) :
          Receive(h, "test", [business |-> b, obligation |-> o])
  BY DEF TestCreate
<1>4. PICK o \in IF RowsOf(b) = {} THEN {None} ELSE RowsOf(b) :
        Receive(h, "test", [business |-> b, obligation |-> o])
  BY <1>1
<1>5. o \in Nat
  BY <1>0 DEF None, TypeOK, RowsOf
<1>2. /\ HandlerStep(h) /\ pc[h] = "idle" /\ pc'[h] = "test"
      /\ req'[h] = [business |-> b, obligation |-> o]
  BY <1>0, <1>4, ReceiveMoves DEF Labels
<1>3. Holding(h)'
  BY <1>2, <1>5 DEF Holding
<1> QED
  BY <1>0, <1>2, <1>3, DeskQuiet

LEMMA InsertTestStep ==
  ASSUME ApiInv, NEW h \in Handlers, InsertTest(h),
         UNCHANGED <<obligationVars, filingVars, channelVars>>
  PROVE  ApiInv'
<1> DEFINE o == req[h].obligation
           item == Item(req[h].business, o, None)
<1>0. /\ TypeOK /\ ResetStands /\ pc[h] = "test" /\ req[h].business \in Businesses /\ o \in Nat
      /\ o = None \/ o \in DOMAIN obligations \ HeldRows
      /\ UNCHANGED <<ledger, goneItems>>
  BY DEF ApiInv, Holding, InsertTest, At
<1>1. PICK c \in Commits : CommitThen(h, c, "created", [item |-> queued + 1]) /\ InsertItem(c, item)
  BY DEF InsertTest
<1>2. item \in Items /\ item.obligation = o
  BY <1>0 DEF Item, Items, None, Unresolved
<1>3. o \notin HeldRows /\ o \notin goneRows
  BY <1>0, NoneIsFree DEF ResetStands
<1> HIDE DEF item
<1>4. TablesOK' /\ TablesGrow /\ ResetStands'
  BY <1>0, <1>1, <1>2, <1>3, InsertKeeps
<1>5. HandlerStep(h) /\ pc'[h] \in {"idle", "created"}
  BY <1>0, <1>1, CommitMoves DEF Labels
<1>6. Holding(h)' /\ pc'[h] # "dues"
  BY <1>5, FreeHolds DEF Free
<1> QED
  BY <1>0, <1>4, <1>5, <1>6, TableStep DEF filingVars, channelVars

LEMMA DeskKeeps ==
  ASSUME ApiInv, NEW h \in Handlers, DeskStep(h),
         UNCHANGED <<obligationVars, filingVars, channelVars>>
  PROVE  ApiInv'
<1>1. TypeOK
  BY DEF ApiInv
<1>2. CASE ResolutionRaises(h) \/ InsertTestRaises(h)
  <2>1. Answer(h) /\ pc[h] # "dues" /\ UNCHANGED <<requests, deskVars>>
    BY <1>2 DEF ResolutionRaises, InsertTestRaises, At
  <2>2. HandlerStep(h) /\ Holding(h)' /\ pc'[h] # "dues"
    BY <1>1, <2>1, AnswerMoves, FreeHolds DEF Free
  <2> QED
    BY <2>1, <2>2, DeskQuiet
<1>3. CASE RefreshTest(h)
  <2>1. pc[h] = "created" /\ UNCHANGED <<requests, deskVars>> /\ requests' \in Nat
    BY <1>1, <1>3 DEF RefreshTest, At, TypeOK
  <2>2. Goto(h, "announce", Nothing) \/ Answer(h)
    BY <1>3 DEF RefreshTest
  <2>3. HandlerStep(h) /\ pc'[h] \in Free
    BY <1>1, <2>1, <2>2, GotoMoves, AnswerMoves DEF Free, Labels
  <2> QED
    BY <2>1, <2>3, FreeHolds, DeskQuiet
<1>4. CASE Remind(h)
  <2>1. HandlerStep(h) /\ pc[h] = "idle" /\ pc'[h] = "announce" /\ UNCHANGED deskVars
    BY <1>1, <1>4, ReceiveMoves DEF Remind, Labels
  <2> QED
    BY <2>1, FreeHolds, DeskQuiet DEF Free
<1> QED
  BY <1>2, <1>3, <1>4, ChatStep, EscalateStep, RefreshItemStep, WriteEntryStep, LoadItemStep,
     SaveResolutionStep, TestCreateStep, InsertTestStep DEF DeskStep

-----------------------------------------------------------------------------
(***************************************************************************)
(* The reset.                                                              *)
(***************************************************************************)
LEMMA ResetDemoStep ==
  ASSUME ApiInv, NEW h \in Handlers, ResetDemo(h),
         UNCHANGED <<filingVars, channelVars>>
  PROVE  ApiInv'
<1>1. TypeOK /\ Receive(h, "reset_rows", [items |-> DOMAIN queue]) /\ UNCHANGED <<obligationVars, deskVars>>
  BY DEF ApiInv, ResetDemo
<1>2. HandlerStep(h) /\ pc[h] = "idle" /\ pc'[h] = "reset_rows" /\ req'[h] = [items |-> DOMAIN queue]
  BY <1>1, ReceiveMoves DEF Labels
<1>3. Holding(h)'
  BY <1>1, <1>2 DEF Holding, TypeOK, deskVars
<1> QED
  BY <1>1, <1>2, <1>3, DeskQuiet

LEMMA ResetRowsStep ==
  ASSUME ApiInv, NEW h \in Handlers, ResetRows(h),
         UNCHANGED <<filingVars, channelVars>>
  PROVE  ApiInv'
<1> DEFINE x == [items |-> req[h].items, rows |-> DOMAIN obligations]
<1>1. /\ TypeOK /\ Holding(h) /\ pc[h] = "reset_rows" /\ UNCHANGED <<requests, obligationVars, deskVars>>
      /\ requests' \in Nat /\ req[h].items \subseteq 1..queued
  BY DEF ApiInv, TypeOK, ResetRows, At, Holding
<1>2. CASE Answer(h)
  <2>1. HandlerStep(h) /\ Holding(h)' /\ pc'[h] # "dues"
    BY <1>1, <1>2, AnswerMoves, FreeHolds DEF Free
  <2> QED
    BY <1>1, <2>1, DeskQuiet
<1>3. CASE ~ Referenced(req[h].items) /\ Goto(h, "reset_commit", x)
  <2>1. HandlerStep(h) /\ pc'[h] = "reset_commit" /\ req'[h] = x
    BY <1>1, <1>3, GotoMoves DEF Labels
  <2>2. \A i \in DOMAIN queue \ req[h].items : queue[i].obligation \notin DOMAIN obligations
    BY <1>1, <1>3 DEF Referenced, None, TypeOK
  <2>3. DOMAIN obligations \subseteq 1..made
    BY <1>1 DEF TypeOK
  <2>4. x.items = req[h].items /\ x.rows = DOMAIN obligations
    OBVIOUS
  <2>5. UNCHANGED <<obligations, made, queue, queued>>
    BY <1>1 DEF obligationVars, deskVars
  <2>6. Holding(h)'
    BY <1>1, <2>1, <2>2, <2>3, <2>4, <2>5 DEF Holding
  <2> QED
    BY <1>1, <2>1, <2>6, DeskQuiet
<1> QED
  BY <1>2, <1>3 DEF ResetRows

LEMMA ResetCommitStep ==
  ASSUME ApiInv, NEW h \in Handlers, ResetCommit(h),
         UNCHANGED <<filingVars, channelVars>>
  PROVE  ApiInv'
<1> DEFINE r == req[h]
<1>0. /\ TypeOK /\ ResetStands /\ Holding(h) /\ pc[h] = "reset_commit"
      /\ UNCHANGED <<made, queued, ledger>>
  BY DEF ApiInv, ResetCommit, At
<1>1. PICK c \in Commits :
        /\ CommitThen(h, c, "announce", Nothing)
        /\ \/ UNCHANGED <<queue, goneItems, obligations, goneRows>>
           \/ /\ queue' = Delete(queue, r.items) /\ goneItems' = goneItems \cup r.items
              /\ obligations' = Delete(obligations, r.rows) /\ goneRows' = goneRows \cup r.rows
  BY DEF ResetCommit
<1>2. HandlerStep(h) /\ pc'[h] \in {"idle", "announce"}
  BY <1>0, <1>1, CommitMoves DEF Labels
<1>3. Holding(h)' /\ pc'[h] # "dues"
  BY <1>2, FreeHolds DEF Free
<1>4. CASE UNCHANGED <<queue, goneItems, obligations, goneRows>>
  BY <1>0, <1>2, <1>3, <1>4, QuietStep DEF filingVars, channelVars
<1>5. CASE /\ queue' = Delete(queue, r.items) /\ goneItems' = goneItems \cup r.items
           /\ obligations' = Delete(obligations, r.rows) /\ goneRows' = goneRows \cup r.rows
  <2>1. /\ r.items \subseteq 1..queued /\ r.rows \subseteq 1..made
        /\ \A i \in DOMAIN queue \ r.items : queue[i].obligation \notin r.rows
    BY <1>0 DEF Holding
  <2>2. /\ DOMAIN queue' = DOMAIN queue \ r.items /\ DOMAIN obligations' = DOMAIN obligations \ r.rows
        /\ \A i \in DOMAIN queue' : queue'[i] = queue[i]
    BY <1>5 DEF Delete
  <2>3. queue' \in [DOMAIN queue' -> Items]
    BY <1>0, <1>5 DEF TypeOK, Delete
  <2>4. TablesOK'
    BY <1>0, <1>5, <2>1, <2>2, <2>3 DEF TypeOK, TablesOK
  <2>5. TablesGrow
    BY <1>0, <1>5, <2>2 DEF TypeOK, TablesGrow
  <2>6. ResetStands'
    BY <1>0, <1>5, <2>1, <2>2 DEF ResetStands
  <2> QED
    BY <1>0, <1>2, <1>3, <2>4, <2>5, <2>6, TableStep DEF filingVars, channelVars
<1> QED
  BY <1>1, <1>4, <1>5

-----------------------------------------------------------------------------
(***************************************************************************)
(* The channel.                                                            *)
(***************************************************************************)
LEMMA ChannelQuiet ==
  ASSUME ApiInv, NEW h \in Handlers, HandlerStep(h), Holding(h)', pc[h] # "dues", pc'[h] # "dues",
         UNCHANGED <<active, missed, obligationVars, filingVars, deskVars>>
  PROVE  ApiInv'
BY QuietStep DEF deskVars, obligationVars, filingVars

LEMMA StartBroadcastStep ==
  ASSUME ApiInv, NEW h \in Handlers, StartBroadcast(h),
         UNCHANGED <<obligationVars, filingVars, deskVars>>
  PROVE  ApiInv'
<1>1. /\ TypeOK /\ pc[h] = "announce" /\ UNCHANGED <<requests, active, missed>> /\ requests' \in Nat
      /\ Goto(h, "send", [copy |-> active, sent |-> 0, served |-> {}])
  BY DEF ApiInv, TypeOK, StartBroadcast, At, channelVars
<1>2. HandlerStep(h) /\ pc'[h] = "send" /\ req'[h] = [copy |-> active, sent |-> 0, served |-> {}]
  BY <1>1, GotoMoves DEF Labels
<1>3. active \in Seq(Sockets) /\ \A i \in DOMAIN active : ~ (i <= 0)
  BY <1>1 DEF TypeOK
<1>4. Holding(h)'
  BY <1>2, <1>3 DEF Holding
<1> QED
  BY <1>1, <1>2, <1>4, ChannelQuiet

LEMMA SendNextStep ==
  ASSUME ApiInv, NEW h \in Handlers, SendNext(h),
         UNCHANGED <<obligationVars, filingVars, deskVars>>
  PROVE  ApiInv'
<1> DEFINE r == req[h]
           x == [copy |-> r.copy, sent |-> r.sent + 1, served |-> r.served \cup {Target(h)}]
<1>1. /\ TypeOK /\ pc[h] = "send" /\ UNCHANGED <<requests, active, missed>> /\ requests' \in Nat
      /\ Goto(h, "send", x)
  BY DEF ApiInv, TypeOK, SendNext, At, channelVars
<1>2. /\ r.copy \in Seq(Sockets) /\ r.sent \in Nat
      /\ \A i \in DOMAIN r.copy : i <= r.sent => r.copy[i] \in r.served
  BY <1>1 DEF ApiInv, Holding
<1>3. HandlerStep(h) /\ pc'[h] = "send" /\ req'[h] = x
  BY <1>1, GotoMoves DEF Labels
<1>4. Target(h) = r.copy[r.sent + 1]
  BY DEF Target, Iterated
<1>5. \A i \in DOMAIN r.copy : i <= r.sent + 1 => r.copy[i] \in r.served \cup {Target(h)}
  BY <1>2, <1>4
<1>6. Holding(h)'
  BY <1>2, <1>3, <1>5 DEF Holding
<1> QED
  BY <1>1, <1>3, <1>6, ChannelQuiet

LEMMA ChannelKeeps ==
  ASSUME ApiInv, NEW h \in Handlers, ChannelStep(h),
         UNCHANGED <<obligationVars, filingVars, deskVars>>
  PROVE  ApiInv'
<1>1. CASE SendRaises(h) \/ FinishBroadcast(h)
  <2>1. TypeOK /\ pc[h] = "send" /\ Answer(h) /\ UNCHANGED <<requests, active>>
    BY <1>1 DEF ApiInv, SendRaises, FinishBroadcast, At, channelVars
  <2>2. HandlerStep(h) /\ Holding(h)' /\ pc'[h] # "dues"
    BY <2>1, AnswerMoves, FreeHolds DEF Free
  <2>3. UNCHANGED missed
    <3>1. CASE SendRaises(h)
      BY <3>1 DEF SendRaises, channelVars
    <3>2. CASE FinishBroadcast(h)
      <4>1. /\ req[h].copy \in Seq(Sockets) /\ req[h].sent \in Nat
            /\ \A i \in DOMAIN req[h].copy : i <= req[h].sent => req[h].copy[i] \in req[h].served
        BY <2>1 DEF ApiInv, Holding
      <4>2. req[h].sent >= Len(req[h].copy)
        BY <3>2 DEF FinishBroadcast, Exhausted, Iterated
      <4>3. Unserved(req[h]) = {}
        BY <4>1, <4>2 DEF Unserved
      <4> QED
        BY <3>2, <4>3 DEF FinishBroadcast
    <3> QED
      BY <1>1, <3>1, <3>2
  <2> QED
    BY <2>1, <2>2, <2>3, ChannelQuiet
<1> QED
  BY <1>1, StartBroadcastStep, SendNextStep DEF ChannelStep

\* What happens outside the handlers.
LEMMA OutsideKeeps ==
  ASSUME ApiInv, UNCHANGED <<requestVars, obligationVars, deskVars, payroll, missed>>,
         month' \in Months, active' \in Seq(Sockets)
  PROVE  ApiInv'
<1>1. TypeOK'
  BY DEF ApiInv, TypeOK, requestVars, obligationVars, deskVars
<1>2. \A h \in Handlers : Holding(h)'
  BY DEF ApiInv, Holding, requestVars, obligationVars, deskVars
<1>3. PayrollBound'
  BY DEF ApiInv, PayrollBound, Inserting, requestVars
<1> QED
  BY <1>1, <1>2, <1>3 DEF ApiInv, ResetStands, DivergenceReviewed, NobodyPassedOver, obligationVars,
                          deskVars

LEMMA SocketKeeps ==
  ASSUME ApiInv, NEW s \in Sockets, SocketStep(s),
         UNCHANGED <<requestVars, obligationVars, filingVars, deskVars>>
  PROVE  ApiInv'
<1>1. active \in Seq(Sockets) /\ UNCHANGED <<payroll, month>> /\ month' \in Months
  BY DEF ApiInv, TypeOK, filingVars
<1>2. active' \in Seq(Sockets) /\ UNCHANGED missed
  <2>1. CASE Connect(s)
    BY <1>1, <2>1 DEF Connect
  <2>2. CASE Close(s)
    BY <1>1, <2>2 DEF Close
  <2>3. CASE Disconnect(s)
    <3>1. PICK i \in DOMAIN active : active' = SubSeq(active, 1, i - 1) \o SubSeq(active, i + 1, Len(active))
      BY <2>3 DEF Disconnect, RemoveAt
    <3>2. i \in 1..Len(active) /\ Len(active) \in Nat
      BY <1>1, <3>1
    <3>3. SubSeq(active, 1, i - 1) \in Seq(Sockets) /\ SubSeq(active, i + 1, Len(active)) \in Seq(Sockets)
      BY <1>1, <3>2, SubSeqProperties
    <3> QED
      BY <2>3, <3>1, <3>3, ConcatProperties DEF Disconnect
  <2> QED
    BY <2>1, <2>2, <2>3 DEF SocketStep
<1> QED
  BY <1>1, <1>2, OutsideKeeps

-----------------------------------------------------------------------------

LEMMA InitHolds == Init => ApiInv
<1> SUFFICES ASSUME Init PROVE ApiInv
  OBVIOUS
<1> USE DEF Init, InitRequests, InitObligations, InitFilings, InitDesk, InitChannel
<1>1. Len(Seeded) \in Nat /\ DOMAIN Seeded = 1..Len(Seeded)
  OBVIOUS
<1>2. DOMAIN obligations = 1..Len(Seeded) /\ DOMAIN queue = {}
  BY <1>1
<1>3. TypeOK
  <2>1. queue \in [DOMAIN queue -> Items] /\ active \in Seq(Sockets)
    BY <1>2
  <2>2. month \in Months /\ payroll \in [Businesses \X Months -> Nat]
    BY DEF Months
  <2>3. pc \in [Handlers -> Labels] /\ DOMAIN req = Handlers /\ requests \in Nat
    BY DEF Labels
  <2> QED
    BY <1>1, <1>2, <2>1, <2>2, <2>3 DEF TypeOK
<1>4. \A h \in Handlers : Holding(h)
  BY DEF Holding
<1>5. PayrollBound /\ ResetStands /\ DivergenceReviewed /\ NobodyPassedOver
  BY <1>2 DEF PayrollBound, ResetStands, DivergenceReviewed, NobodyPassedOver
<1> QED
  BY <1>3, <1>4, <1>5 DEF ApiInv

LEMMA NextKeepsInv == ApiInv /\ [Next]_vars => ApiInv'
<1> SUFFICES ASSUME ApiInv, [Next]_vars PROVE ApiInv'
  OBVIOUS
<1>1. CASE UNCHANGED vars
  <2>1. UNCHANGED <<requestVars, obligationVars, deskVars, payroll, missed, month, active>>
    BY <1>1 DEF vars, filingVars, channelVars
  <2> QED
    BY <2>1, OutsideKeeps DEF ApiInv, TypeOK
<1>2. ASSUME MonthPasses, UNCHANGED <<requestVars, obligationVars, deskVars, channelVars>>
      PROVE  ApiInv'
  <2>1. month' \in Months /\ UNCHANGED payroll
    BY <1>2 DEF ApiInv, TypeOK, MonthPasses, Months
  <2>2. active' \in Seq(Sockets) /\ UNCHANGED missed
    BY <1>2 DEF ApiInv, TypeOK, channelVars
  <2> QED
    BY <1>2, <2>1, <2>2, OutsideKeeps
<1> QED
  BY <1>1, <1>2, ObligationKeeps, FilingKeeps, DeskKeeps, ResetDemoStep, ResetRowsStep, ResetCommitStep,
     ChannelKeeps, SocketKeeps DEF Next, ResetStep

-----------------------------------------------------------------------------
(* The invariant holds for any number of requests and web sockets.         *)
THEOREM Invariance == Spec => []ApiInv
<1> QED
  BY InitHolds, NextKeepsInv, PTL DEF Spec

(* compute_payroll: overlapping requests leave at most as many rows of a    *)
(* month as there can be requests at once, and none is added once one of   *)
(* them has been seen.                                                     *)
THEOREM DuplicatesBoundedHolds == Spec => []DuplicatesBounded
<1>1. ApiInv => DuplicatesBounded
  <2> SUFFICES ASSUME ApiInv, NEW k \in DOMAIN payroll
               PROVE  payroll[k] <= Cardinality(Handlers)
    BY DEF DuplicatesBounded
  <2>1. k \in Businesses \X Months /\ payroll[k] \in Nat
    BY DEF ApiInv, TypeOK
  <2>2. Cardinality(Handlers) \in Nat /\ Cardinality(Inserting(k)) \in Nat
    <3>1. Inserting(k) \in SUBSET Handlers
      BY DEF Inserting
    <3> QED
      BY <3>1, FS_Subset, FS_CardinalityType
  <2> QED
    BY <2>1, <2>2 DEF ApiInv, PayrollBound
<1> QED
  BY <1>1, Invariance, PTL

(* reset_demo: what a finished reset deleted is not brought back by a      *)
(* request that had read it before.                                        *)
THEOREM ResetStandsHolds == Spec => []ResetStands
<1>1. ApiInv => ResetStands
  BY DEF ApiInv
<1> QED
  BY <1>1, Invariance, PTL

(* DRCA evaluate: every divergence in the ledger was escalated to the      *)
(* queue before it was recorded.                                           *)
THEOREM DivergenceReviewedHolds == Spec => []DivergenceReviewed
<1>1. ApiInv => DivergenceReviewed
  BY DEF ApiInv
<1> QED
  BY <1>1, Invariance, PTL

(* broadcast: one that ends without an exception passed nobody over,       *)
(* however the list of connections changed between its sends.              *)
THEOREM NobodyPassedOverHolds == Spec => []NobodyPassedOver
<1>1. ApiInv => NobodyPassedOver
  BY DEF ApiInv
<1> QED
  BY <1>1, Invariance, PTL
-----------------------------------------------------------------------------
(***************************************************************************)
(* The health scores: a sum over the statuses and a sum over the rows.     *)
(***************************************************************************)
LEMMA RowsFinite == ASSUME ApiInv, NEW b PROVE IsFiniteSet(RowsOf(b))
<1>1. made \in Nat /\ RowsOf(b) \in SUBSET (1..made)
  BY DEF ApiInv, TypeOK, RowsOf
<1> QED
  BY <1>1, FS_Interval, FS_Subset

LEMMA WeightsAreWhole ==
  /\ IsFiniteSet(DOMAIN Weights)
  /\ Weights \in [DOMAIN Weights -> Int]
<1>1. DOMAIN Weights = {"compliant"} \cup {"pending"} \cup {"overdue"} \cup {"hitl_escalated"} \cup {"waived"}
  BY DEF Weights
<1>2. IsFiniteSet(DOMAIN Weights)
  <2>1. IsFiniteSet({"compliant"})
    BY FS_Singleton
  <2>2. IsFiniteSet({"compliant"} \cup {"pending"})
    BY <2>1, FS_AddElement
  <2>3. IsFiniteSet({"compliant"} \cup {"pending"} \cup {"overdue"})
    BY <2>2, FS_AddElement
  <2>4. IsFiniteSet({"compliant"} \cup {"pending"} \cup {"overdue"} \cup {"hitl_escalated"})
    BY <2>3, FS_AddElement
  <2> QED
    BY <1>1, <2>4, FS_AddElement
<1>3. Weights \in [DOMAIN Weights -> Int]
  BY DEF Weights
<1> QED
  BY <1>2, <1>3

LEMMA ScoresMeet ==
  ASSUME ApiInv, NEW b, \A i \in RowsOf(b) : obligations[i].status \in DOMAIN Weights
  PROVE  SummaryScore(b) = HealthScore(b)
<1> DEFINE R == RowsOf(b)
           D == DOMAIN Weights
           v == [i \in R |-> obligations[i].status]
           part == [s \in D |-> Weights[s] * Cardinality({i \in R : obligations[i].status = s})]
           rows == [i \in R |-> RowWeight(i)]
<1>1. IsFiniteSet(R) /\ IsFiniteSet(D) /\ v \in [R -> D] /\ Weights \in [D -> Int]
  BY RowsFinite, WeightsAreWhole
<1>2. \A s \in D : {i \in R : v[i] = s} = {i \in R : obligations[i].status = s}
  OBVIOUS
<1>3. part = [s \in D |-> Weights[s] * Cardinality({i \in R : v[i] = s})]
  <2> HIDE DEF R, D, v
  <2> QED BY <1>2
<1>4. rows = [i \in R |-> Weights[v[i]]]
  BY DEF RowWeight
<1> HIDE DEF R, D, v, part, rows
<1>5. SumOf(part, D) = SumOf(rows, R)
  BY <1>1, <1>3, <1>4, SumByValue
<1>6. DOMAIN part = D /\ DOMAIN rows = R
  BY DEF part, rows
<1>7. FoldFunction(+, 0, part) = FoldFunction(+, 0, rows)
  BY <1>5, <1>6 DEF SumOf, FoldFunction
<1> QED
  BY <1>7 DEF SummaryScore, HealthScore, part, rows, R, D

(* compliance.py: the list of businesses and the page of one of them show   *)
(* the same score, for any number of rows, as long as every status is in   *)
(* the table of weights.                                                   *)
THEOREM ScoresAgreeHolds == Spec => []ScoresAgree
<1>1. ApiInv => ScoresAgree
  BY ScoresMeet DEF ScoresAgree
<1> QED
  BY <1>1, Invariance, PTL
-----------------------------------------------------------------------------
(***************************************************************************)
(* Where each component's steps take a handler.                            *)
(***************************************************************************)
\* Handlers that are, or get, to one of these awaits are left as they are.
Still(places) ==
  \A g \in Handlers :
    pc[g] \in places \/ pc'[g] \in places => pc'[g] = pc[g] /\ req'[g] = req[g]

LEMMA StillElsewhere ==
  ASSUME NEW h \in Handlers, HandlerStep(h), NEW places, pc[h] \notin places, pc'[h] \notin places
  PROVE  Still(places)
BY DEF Still, HandlerStep

\* A step of h between two of the places.
Between(h, places) == HandlerStep(h) /\ pc[h] \in places /\ pc'[h] \in places

ObligationAt == {"idle", "update"}
PayrollAt == {"idle", "dues"}
ChatAt == {"idle", "escalate", "refresh", "evidence"}
ResolutionAt == {"idle", "resolve"}
TestAt == {"idle", "test", "created", "announce"}
ResetAt == {"idle", "reset_rows", "reset_commit", "announce"}
ChannelAt == {"idle", "announce", "send"}

LEMMA ObligationMoves ==
  ASSUME TypeOK, NEW h \in Handlers, ObligationStep(h)
  PROVE  Between(h, ObligationAt) /\ requests <= requests'
<1>1. CASE CreateObligation(h)
  BY <1>1 DEF CreateObligation, Between, ObligationAt, HandlerStep, TypeOK, At
<1>2. ASSUME NEW s, LoadRow(h, s) PROVE Between(h, ObligationAt) /\ requests <= requests'
  <2>1. PICK x : Receive(h, "update", x)
    BY <1>2 DEF LoadRow
  <2> QED
    BY <2>1, ReceiveMoves DEF Between, ObligationAt, Labels, Receive, TypeOK
<1>3. CASE FlushRow(h)
  <2>1. PICK c \in Commits : CommitThen(h, c, "idle", Nothing)
    BY <1>3 DEF FlushRow
  <2>2. pc[h] = "update" /\ requests' = requests
    BY <1>3, <2>1 DEF FlushRow, At, CommitThen
  <2> QED
    BY <2>1, <2>2, CommitMoves DEF Between, ObligationAt, Labels, TypeOK
<1>4. CASE FlushRaises(h)
  BY <1>4, AnswerMoves DEF FlushRaises, At, Between, ObligationAt, TypeOK
<1> QED
  BY <1>1, <1>2, <1>3, <1>4 DEF ObligationStep, UpdateStatus, SoftDelete

LEMMA PayrollMoves ==
  ASSUME TypeOK, NEW h \in Handlers, ComputePayroll(h) \/ SaveDues(h)
  PROVE  Between(h, PayrollAt) /\ requests <= requests'
<1>1. CASE ComputePayroll(h)
  <2>1. PICK x : Receive(h, "dues", x)
    BY <1>1 DEF ComputePayroll
  <2> QED
    BY <2>1, ReceiveMoves DEF Between, PayrollAt, Labels, Receive, TypeOK
<1>2. CASE SaveDues(h)
  <2>1. PICK c \in Commits : CommitThen(h, c, "idle", Nothing)
    BY <1>2 DEF SaveDues
  <2>2. pc[h] = "dues" /\ requests' = requests
    BY <1>2, <2>1 DEF SaveDues, At, CommitThen
  <2> QED
    BY <2>1, <2>2, CommitMoves DEF Between, PayrollAt, Labels, TypeOK
<1> QED
  BY <1>1, <1>2

LEMMA FilingMoves ==
  ASSUME TypeOK, NEW h \in Handlers,
         StartFiling(h) \/ ReadScore(h) \/ ReadChecklist(h) \/ FileStatus(h)
  PROVE  Between(h, FilingAt \cup {"idle"}) /\ requests <= requests'
<1>0. requests \in Nat
  BY DEF TypeOK
<1>1. CASE StartFiling(h)
  <2>1. PICK x : Receive(h, "score", x)
    BY <1>1 DEF StartFiling
  <2> QED
    BY <1>0, <2>1, ReceiveMoves DEF Between, FilingAt, Labels, Receive
<1>2. CASE ReadScore(h) \/ ReadChecklist(h)
  <2>1. PICK l \in {"checklist", "file"} : \E x : Goto(h, l, x)
    BY <1>2 DEF ReadScore, ReadChecklist
  <2>2. pc[h] \in FilingAt /\ requests' = requests /\ requests' \in Nat
    BY <1>0, <1>2 DEF ReadScore, ReadChecklist, At, FilingAt
  <2> QED
    BY <1>0, <2>1, <2>2, GotoMoves DEF Between, FilingAt, Labels
<1>3. CASE FileStatus(h)
  <2>1. PICK c \in Commits : CommitThen(h, c, "idle", Nothing)
    BY <1>3 DEF FileStatus
  <2>2. pc[h] \in FilingAt /\ requests' = requests
    BY <1>3, <2>1 DEF FileStatus, At, FilingAt, CommitThen
  <2> QED
    BY <1>0, <2>1, <2>2, CommitMoves DEF Between, Labels
<1> QED
  BY <1>1, <1>2, <1>3

LEMMA ResetMoves ==
  ASSUME TypeOK, NEW h \in Handlers, ResetStep(h)
  PROVE  Between(h, ResetAt) /\ requests <= requests'
<1>1. CASE ResetDemo(h)
  <2>1. PICK x : Receive(h, "reset_rows", x)
    BY <1>1 DEF ResetDemo
  <2> QED
    BY <2>1, ReceiveMoves DEF Between, ResetAt, Labels, Receive, TypeOK
<1>2. CASE ResetRows(h)
  <2>1. pc[h] = "reset_rows" /\ requests' = requests /\ requests' \in Nat
    BY <1>2 DEF ResetRows, At, TypeOK
  <2>2. Answer(h) \/ \E x : Goto(h, "reset_commit", x)
    BY <1>2 DEF ResetRows
  <2> QED
    BY <2>1, <2>2, AnswerMoves, GotoMoves DEF Between, ResetAt, Labels
<1>3. CASE ResetCommit(h)
  <2>1. PICK c \in Commits : CommitThen(h, c, "announce", Nothing)
    BY <1>3 DEF ResetCommit
  <2>2. pc[h] = "reset_commit" /\ requests' = requests
    BY <1>3, <2>1 DEF ResetCommit, At, CommitThen
  <2> QED
    BY <2>1, <2>2, CommitMoves DEF Between, ResetAt, Labels, TypeOK
<1> QED
  BY <1>1, <1>2, <1>3 DEF ResetStep

LEMMA ChannelMoves ==
  ASSUME TypeOK, NEW h \in Handlers, ChannelStep(h)
  PROVE  Between(h, ChannelAt) /\ requests <= requests'
<1>1. pc[h] \in {"announce", "send"} /\ requests' = requests /\ requests' \in Nat
  BY DEF ChannelStep, StartBroadcast, SendNext, SendRaises, FinishBroadcast, At, TypeOK
<1>2. Answer(h) \/ \E x : Goto(h, "send", x)
  BY DEF ChannelStep, StartBroadcast, SendNext, SendRaises, FinishBroadcast
<1> QED
  BY <1>1, <1>2, AnswerMoves, GotoMoves DEF Between, ChannelAt, Labels

LEMMA ChatMoves ==
  ASSUME TypeOK, NEW h \in Handlers, Chat(h) \/ Escalate(h) \/ RefreshItem(h) \/ WriteEntry(h)
  PROVE  Between(h, ChatAt) /\ requests <= requests'
<1>1. CASE Chat(h)
  <2>1. PICK l \in {"escalate", "evidence"} : \E x : Receive(h, l, x)
    BY <1>1 DEF Chat, FirstCommit
  <2> QED
    BY <2>1, ReceiveMoves DEF Between, ChatAt, Labels, Receive, TypeOK
<1>2. CASE Escalate(h) \/ WriteEntry(h)
  <2>1. PICK c \in Commits, l \in {"refresh", "idle"} : \E x : CommitThen(h, c, l, x)
    BY <1>2 DEF Escalate, WriteEntry
  <2>2. pc[h] \in {"escalate", "evidence"} /\ requests' = requests
    BY <1>2, <2>1 DEF Escalate, WriteEntry, At, CommitThen
  <2> QED
    BY <2>1, <2>2, CommitMoves DEF Between, ChatAt, Labels, TypeOK
<1>3. CASE RefreshItem(h)
  <2>1. pc[h] = "refresh" /\ requests' = requests /\ requests' \in Nat
    BY <1>3 DEF RefreshItem, At, TypeOK
  <2>2. Answer(h) \/ \E x : Goto(h, "evidence", x)
    BY <1>3 DEF RefreshItem
  <2> QED
    BY <2>1, <2>2, AnswerMoves, GotoMoves DEF Between, ChatAt, Labels
<1> QED
  BY <1>1, <1>2, <1>3

LEMMA ResolutionMoves ==
  ASSUME TypeOK, NEW h \in Handlers, LoadItem(h) \/ SaveResolution(h) \/ ResolutionRaises(h)
  PROVE  Between(h, ResolutionAt) /\ requests <= requests'
<1>1. CASE LoadItem(h)
  <2>1. PICK x : Receive(h, "resolve", x)
    BY <1>1 DEF LoadItem
  <2> QED
    BY <2>1, ReceiveMoves DEF Between, ResolutionAt, Labels, Receive, TypeOK
<1>2. CASE SaveResolution(h)
  <2>1. PICK c \in Commits : CommitThen(h, c, "idle", Nothing)
    BY <1>2 DEF SaveResolution
  <2>2. pc[h] = "resolve" /\ requests' = requests
    BY <1>2, <2>1 DEF SaveResolution, At, CommitThen
  <2> QED
    BY <2>1, <2>2, CommitMoves DEF Between, ResolutionAt, Labels, TypeOK
<1>3. CASE ResolutionRaises(h)
  BY <1>3, AnswerMoves DEF ResolutionRaises, At, Between, ResolutionAt, TypeOK
<1> QED
  BY <1>1, <1>2, <1>3

TestStep(h) ==
  TestCreate(h) \/ InsertTest(h) \/ InsertTestRaises(h) \/ RefreshTest(h) \/ Remind(h)

LEMMA TestMoves ==
  ASSUME TypeOK, NEW h \in Handlers, TestStep(h)
  PROVE  Between(h, TestAt) /\ requests <= requests'
<1>1. CASE TestCreate(h) \/ Remind(h)
  <2>1. PICK l \in {"test", "announce"} : \E x : Receive(h, l, x)
    BY <1>1 DEF TestCreate, Remind
  <2> QED
    BY <2>1, ReceiveMoves DEF Between, TestAt, Labels, Receive, TypeOK
<1>2. CASE InsertTest(h)
  <2>1. PICK c \in Commits : \E x : CommitThen(h, c, "created", x)
    BY <1>2 DEF InsertTest
  <2>2. pc[h] = "test" /\ requests' = requests
    BY <1>2, <2>1 DEF InsertTest, At, CommitThen
  <2> QED
    BY <2>1, <2>2, CommitMoves DEF Between, TestAt, Labels, TypeOK
<1>3. CASE InsertTestRaises(h) \/ RefreshTest(h)
  <2>1. pc[h] \in {"test", "created"} /\ requests' = requests /\ requests' \in Nat
    BY <1>3 DEF InsertTestRaises, RefreshTest, At, TypeOK
  <2>2. Answer(h) \/ Goto(h, "announce", Nothing)
    BY <1>3 DEF InsertTestRaises, RefreshTest
  <2> QED
    BY <2>1, <2>2, AnswerMoves, GotoMoves DEF Between, TestAt, Labels
<1> QED
  BY <1>1, <1>2, <1>3 DEF TestStep

-----------------------------------------------------------------------------
(***************************************************************************)
(* Filings, continued: what a row says of its score, and of its age.       *)
(***************************************************************************)
\* Obligations that change are counted.
Drift == changes' \in Nat /\ changes <= changes' /\ (changes' = changes => obligations' = obligations)

LEMMA ScoreOfRows ==
  ASSUME NEW b, NEW p, obligations' = obligations
  PROVE  ReadinessScore(b, p)' = ReadinessScore(b, p)
BY DEF ReadinessScore, DueIn, RowsOf

LEMMA FilingFrame ==
  ASSUME FilingInv, Still(FilingAt), UNCHANGED <<filings, clock>>, Drift
  PROVE  FilingInv'
<1>1. \A g \in Handlers : pc'[g] \in FilingAt => pc'[g] = pc[g] /\ req'[g] = req[g]
  BY DEF Still
<1>2. ASSUME NEW r, Begun(r) PROVE Begun(r)'
  BY <1>2 DEF Begun, Drift, FilingInv
<1>3. ASSUME NEW r, Scored(r), r.began \in Nat PROVE Scored(r)'
  BY <1>3 DEF Scored, Drift, FilingInv
<1>4. ASSUME NEW g \in Handlers PROVE Filing(g)'
  <2>1. CASE pc'[g] \notin FilingAt
    BY <2>1 DEF Filing, FilingAt
  <2>2. CASE pc'[g] \in FilingAt
    <3> DEFINE r == req[g]
    <3>1. pc'[g] = pc[g] /\ req'[g] = r /\ Filing(g) /\ Begun(r)
      BY <1>1, <2>2 DEF FilingInv, Filing
    <3>2. Begun(r)' /\ (pc[g] \in {"checklist", "file"} => Scored(r)')
      BY <1>2, <1>3, <3>1 DEF Filing, Begun
    <3>3. ASSUME pc[g] = "checklist", r.readAt = changes'
          PROVE  r.score = ReadinessScore(r.business, r.period)'
      <4>1. r.readAt <= changes /\ r.readAt \in Nat /\ changes \in Nat
        BY <3>1, <3>3 DEF Filing, Scored, FilingInv
      <4>2. changes' = changes /\ obligations' = obligations
        BY <3>3, <4>1 DEF Drift
      <4> QED
        BY <3>1, <3>3, <4>2, ScoreOfRows DEF Filing
    <3>4. pc[g] = "file" => Explained(r)'
      BY <3>1 DEF Filing, Explained
    <3> QED
      BY <3>1, <3>2, <3>3, <3>4 DEF Filing
  <2> QED
    BY <2>1, <2>2
<1>5. \A f \in filings' : Begun(f)' /\ Scored(f)' /\ Explained(f)'
  BY <1>2, <1>3 DEF FilingInv, Begun, Explained
<1>6. Stamped' = Stamped
  BY <1>1 DEF Still, Stamped
<1>7. StampOrder'
  BY <1>6 DEF FilingInv, StampOrder
<1> QED
  BY <1>4, <1>5, <1>7 DEF FilingInv, Drift

\* A score is all there is only when nothing is left to file.
LEMMA ScoreExplains ==
  ASSUME ApiInv, NEW b, NEW p
  PROVE  LET score == ReadinessScore(b, p)
         IN  (score = 100) <=> ~ ListsMissing(b, p, score)
<1> DEFINE due == DueIn(b, p)
           done == {i \in due : obligations[i].status = "compliant"}
           d == Cardinality(due)
           c == Cardinality(done)
<1>1. IsFiniteSet(due)
  <2>1. due \in SUBSET RowsOf(b)
    BY DEF DueIn
  <2> QED
    BY <2>1, RowsFinite, FS_Subset
<1>2. d \in Nat /\ c \in Nat /\ c <= d /\ (c = d => done = due) /\ (d = 0 <=> due = {})
  <2>1. done \in SUBSET due
    OBVIOUS
  <2> HIDE DEF due, done
  <2> QED
    BY <1>1, <2>1, FS_Subset, FS_CardinalityType, FS_EmptySet
<1>3. Unfiled(b, p) = {i \in due : obligations[i].status \in {"pending", "overdue"}}
  BY DEF Unfiled
<1>4. CASE due = {}
  <2>1. ReadinessScore(b, p) \in {0, 100}
    BY <1>4 DEF ReadinessScore
  <2>2. Unfiled(b, p) = {}
    BY <1>3, <1>4
  <2> HIDE DEF due, done
  <2> QED
    BY <2>1, <2>2 DEF ListsMissing
<1>5. CASE due # {}
  <2> DEFINE score == (100 * c) \div d
  <2>1. ReadinessScore(b, p) = score
    BY <1>5 DEF ReadinessScore
  <2>2. Unfiled(b, p) # {} => c # d
    BY <1>2, <1>3
  <2> HIDE DEF due, done, c, d
  <2>3. d > 0
    BY <1>2, <1>5
  <2>4. score \in Int /\ d * score <= 100 * c /\ 100 * c < d * score + d
    BY <1>2, <2>3
  <2> HIDE DEF score
  <2>5. score <= 100
    <3> SUFFICES ASSUME score > 100 PROVE FALSE
      BY <2>4
    <3>1. d * 101 <= d * score
      BY <1>2, <2>3, <2>4
    <3> QED
      BY <1>2, <2>3, <2>4, <3>1
  <2>6. c # d => score # 100
    BY <1>2, <2>4
  <2>7. Unfiled(b, p) # {} => score < 100
    BY <2>2, <2>4, <2>5, <2>6
  <2>8. (score = 100) <=> ~ (Unfiled(b, p) # {} \/ score < 100)
    BY <2>4, <2>5, <2>7
  <2> QED
    BY <2>1, <2>8 DEF ListsMissing
<1> QED
  BY <1>4, <1>5

\* A filing request that goes on: its stamp and its beginning stay.
LEMMA FilingGoesOn ==
  ASSUME FilingInv, TypeOK, NEW h \in Handlers, HandlerStep(h), pc[h] \in FilingAt,
         pc'[h] \in FilingAt => req'[h].stamp = req[h].stamp /\ req'[h].began = req[h].began,
         \/ filings' = filings
         \/ filings' = filings \cup {req[h]} /\ Scored(req[h]) /\ Explained(req[h]),
         Filing(h)', UNCHANGED <<clock, changes, obligations>>
  PROVE  FilingInv'
<1>1. ASSUME NEW g \in Handlers PROVE Filing(g)'
  <2>1. CASE g = h
    BY <2>1
  <2>2. CASE g # h
    <3>1. pc'[g] = pc[g] /\ req'[g] = req[g] /\ Filing(g)
      BY <2>2 DEF HandlerStep, FilingInv
    <3>2. ReadinessScore(req[g].business, req[g].period)' = ReadinessScore(req[g].business, req[g].period)
      BY <3>1, ScoreOfRows
    <3> QED
      BY <3>1, <3>2 DEF Filing, Begun, Scored, Explained
  <2> QED
    BY <2>1, <2>2
<1>2. \A f \in filings' : Begun(f)' /\ Scored(f)' /\ Explained(f)'
  <2>1. Begun(req[h])
    BY DEF FilingInv, Filing
  <2> QED
    BY <2>1 DEF FilingInv, Begun, Scored, Explained
<1>3. \A x \in Stamped' : \E y \in Stamped : x.stamp = y.stamp /\ x.began = y.began
  <2> SUFFICES ASSUME NEW x \in Stamped'
               PROVE  \E y \in Stamped : x.stamp = y.stamp /\ x.began = y.began
    OBVIOUS
  <2>1. req[h] \in Stamped
    BY DEF Stamped
  <2>2. CASE x \in filings'
    BY <2>1, <2>2 DEF Stamped
  <2>3. ASSUME NEW g \in Handlers, pc'[g] \in FilingAt, x = req'[g]
        PROVE  \E y \in Stamped : x.stamp = y.stamp /\ x.began = y.began
    <3>1. CASE g = h
      BY <2>1, <2>3, <3>1
    <3>2. CASE g # h
      <4>1. pc[g] \in FilingAt /\ x = req[g]
        BY <2>3, <3>2 DEF HandlerStep
      <4>2. x \in Stamped
        BY <4>1 DEF Stamped
      <4> QED
        BY <4>2
    <3> QED
      BY <3>1, <3>2
  <2> QED
    BY <2>2, <2>3 DEF Stamped
<1>4. StampOrder'
  BY <1>3 DEF FilingInv, StampOrder
<1> QED
  BY <1>1, <1>2, <1>4 DEF FilingInv

LEMMA StartFilingStep ==
  ASSUME FilingInv, TypeOK, NEW h \in Handlers, StartFiling(h), UNCHANGED obligationVars
  PROVE  FilingInv'
<1>1. PICK b \in Businesses, m \in Months :
        Receive(h, "score", [business |-> b, period |-> m, stamp |-> clock + 1, began |-> changes])
  BY DEF StartFiling
<1> DEFINE r == [business |-> b, period |-> m, stamp |-> clock + 1, began |-> changes]
<1>2. HandlerStep(h) /\ pc[h] = "idle" /\ pc'[h] = "score" /\ req'[h] = r
  BY <1>1, ReceiveMoves DEF Labels
<1>3. clock' = clock + 1 /\ clock \in Nat /\ changes \in Nat
      /\ UNCHANGED <<filings, changes, obligations>>
  BY DEF StartFiling, FilingInv, obligationVars
<1>4. r.stamp = clock + 1 /\ r.began = changes
  OBVIOUS
<1> HIDE DEF r
<1>5. ASSUME NEW x, Begun(x) PROVE Begun(x)'
  BY <1>3, <1>5 DEF Begun
<1>6. ASSUME NEW g \in Handlers PROVE Filing(g)'
  <2>1. CASE g = h
    BY <1>2, <1>3, <1>4, <2>1 DEF Filing, Begun
  <2>2. CASE g # h
    <3>1. pc'[g] = pc[g] /\ req'[g] = req[g] /\ Filing(g)
      BY <1>2, <2>2 DEF HandlerStep, FilingInv
    <3>2. ReadinessScore(req[g].business, req[g].period)' = ReadinessScore(req[g].business, req[g].period)
      BY <1>3, <3>1, ScoreOfRows
    <3> QED
      BY <1>3, <1>5, <3>1, <3>2 DEF Filing, Scored, Explained
  <2> QED
    BY <2>1, <2>2
<1>7. \A f \in filings' : Begun(f)' /\ Scored(f)' /\ Explained(f)'
  BY <1>3, <1>5 DEF FilingInv, Scored, Explained
<1>8. Stamped' = Stamped \cup {r}
  BY <1>2, <1>3 DEF Stamped, FilingAt, HandlerStep
<1>9. \A x \in Stamped : Begun(x)
  BY DEF Stamped, FilingInv, Filing
<1>10. StampOrder'
  <2> SUFFICES ASSUME NEW x \in Stamped', NEW y \in Stamped', x.stamp <= y.stamp
               PROVE  x.began <= y.began
    BY DEF StampOrder
  <2>1. CASE x \in Stamped /\ y \in Stamped
    BY <2>1 DEF FilingInv, StampOrder
  <2>2. CASE x \in Stamped /\ y = r
    BY <1>3, <1>4, <1>9, <2>2 DEF Begun
  <2>3. CASE x = r /\ y \in Stamped
    BY <1>3, <1>4, <1>9, <2>3 DEF Begun
  <2>4. CASE x = r /\ y = r
    BY <1>3, <1>4, <2>4
  <2> QED
    BY <1>8, <2>1, <2>2, <2>3, <2>4
<1> QED
  BY <1>3, <1>6, <1>7, <1>10 DEF FilingInv

LEMMA ReadScoreStep ==
  ASSUME FilingInv, TypeOK, NEW h \in Handlers, ReadScore(h), UNCHANGED obligationVars
  PROVE  FilingInv'
<1> DEFINE r == req[h]
           x == [business |-> r.business, period |-> r.period, stamp |-> r.stamp,
                 began |-> r.began, score |-> ReadinessScore(r.business, r.period),
                 readAt |-> changes]
<1>1. /\ pc[h] = "score" /\ Goto(h, "checklist", x) /\ requests' \in Nat
      /\ UNCHANGED <<filings, clock, changes, obligations>>
  BY DEF ReadScore, At, TypeOK, obligationVars
<1>2. HandlerStep(h) /\ pc'[h] = "checklist" /\ req'[h] = x
  BY <1>1, GotoMoves DEF Labels
<1>3. Begun(r) /\ changes \in Nat
  BY <1>1 DEF FilingInv, Filing, FilingAt
<1>4. /\ x.stamp = r.stamp /\ x.began = r.began /\ x.readAt = changes
      /\ x.business = r.business /\ x.period = r.period
      /\ x.score = ReadinessScore(r.business, r.period)
  OBVIOUS
<1> HIDE DEF x
<1>5. PICK y : y = x
  OBVIOUS
<1>6. PICK score : score = ReadinessScore(y.business, y.period)
  OBVIOUS
<1>7. req'[h] = y /\ pc'[h] = "checklist" /\ Begun(y)' /\ Scored(y)' /\ ReadinessScore(y.business, y.period)' = score
  BY <1>1, <1>2, <1>3, <1>4, <1>5, <1>6, ScoreOfRows DEF Begun, Scored
<1>8. Filing(h)'
  BY <1>4, <1>5, <1>6, <1>7 DEF Filing, FilingAt
<1> QED
  BY <1>1, <1>2, <1>4, <1>8, FilingGoesOn DEF FilingAt

LEMMA ReadChecklistStep ==
  ASSUME FilingInv, ApiInv, NEW h \in Handlers, ReadChecklist(h), UNCHANGED obligationVars
  PROVE  FilingInv'
<1> DEFINE r == req[h]
           x == [business |-> r.business, stamp |-> r.stamp, began |-> r.began,
                 score |-> r.score, readAt |-> r.readAt, listedAt |-> changes,
                 missing |-> ListsMissing(r.business, r.period, r.score)]
<1>1. /\ TypeOK /\ pc[h] = "checklist" /\ Goto(h, "file", x) /\ requests' \in Nat
      /\ UNCHANGED <<filings, clock, changes, obligations>>
  BY DEF ReadChecklist, At, ApiInv, TypeOK, obligationVars
<1>2. HandlerStep(h) /\ pc'[h] = "file" /\ req'[h] = x
  BY <1>1, GotoMoves DEF Labels
<1>3. Begun(r) /\ Scored(r) /\ (r.readAt = changes => r.score = ReadinessScore(r.business, r.period))
  BY <1>1 DEF FilingInv, Filing, FilingAt
<1>4. /\ x.stamp = r.stamp /\ x.began = r.began /\ x.readAt = r.readAt /\ x.listedAt = changes
      /\ x.score = r.score /\ x.missing = ListsMissing(r.business, r.period, r.score)
  OBVIOUS
<1> HIDE DEF x
<1>5. PICK y : y = x
  OBVIOUS
<1>6. Explained(y)
  <2> SUFFICES ASSUME r.readAt = changes
               PROVE  (r.score = 100) <=> ~ ListsMissing(r.business, r.period, r.score)
    BY <1>4, <1>5 DEF Explained
  <2> QED
    BY <1>3, ScoreExplains
<1>7. Filing(h)'
  <2>1. req'[h] = y /\ pc'[h] = "file" /\ Begun(y)' /\ Scored(y)'
    BY <1>1, <1>2, <1>3, <1>4, <1>5 DEF Begun, Scored
  <2> QED
    BY <1>6, <2>1 DEF Filing, FilingAt, Explained
<1> QED
  BY <1>1, <1>2, <1>4, <1>7, FilingGoesOn DEF FilingAt

LEMMA FileStatusStep ==
  ASSUME FilingInv, TypeOK, NEW h \in Handlers, FileStatus(h), UNCHANGED obligationVars
  PROVE  FilingInv'
<1>1. PICK c \in Commits :
        /\ CommitThen(h, c, "idle", Nothing)
        /\ filings' = IF c.applied THEN filings \cup {req[h]} ELSE filings
  BY DEF FileStatus
<1>2. pc[h] = "file" /\ UNCHANGED <<clock, changes, obligations>>
  BY DEF FileStatus, At, obligationVars
<1>3. HandlerStep(h) /\ pc'[h] = "idle"
  BY <1>1, CommitMoves DEF Labels
<1>4. Filing(h)'
  BY <1>3 DEF Filing, FilingAt
<1>5. Scored(req[h]) /\ Explained(req[h])
  BY <1>2 DEF FilingInv, Filing
<1> QED
  BY <1>1, <1>2, <1>3, <1>4, <1>5, FilingGoesOn DEF FilingAt

LEMMA ObligationsDrift ==
  ASSUME changes \in Nat, NEW h, ObligationStep(h) \/ ResetStep(h)
  PROVE  Drift
<1>1. \/ changes' = changes + 1
      \/ changes' = changes /\ obligations' = obligations
  BY DEF ObligationStep, CreateObligation, UpdateStatus, SoftDelete, LoadRow, FlushRow, FlushRaises,
         ResetStep, ResetDemo, ResetRows, ResetCommit, obligationVars
<1> QED
  BY <1>1 DEF Drift

LEMMA NextKeepsFilings == ApiInv /\ FilingInv /\ [Next]_vars => FilingInv'
<1> SUFFICES ASSUME ApiInv, FilingInv, [Next]_vars PROVE FilingInv'
  OBVIOUS
<1>1. TypeOK /\ changes \in Nat
  BY DEF ApiInv, FilingInv
<1>2. UNCHANGED obligationVars => Drift
  BY <1>1 DEF Drift, obligationVars
<1>3. UNCHANGED filingVars => UNCHANGED <<filings, clock>>
  BY DEF filingVars
<1>4. ASSUME UNCHANGED <<pc, req>> PROVE Still(FilingAt)
  BY <1>4 DEF Still
<1>5. CASE UNCHANGED vars
  BY <1>2, <1>3, <1>4, <1>5, FilingFrame DEF vars, requestVars
<1>6. CASE MonthPasses /\ UNCHANGED <<requestVars, obligationVars, deskVars, channelVars>>
  BY <1>2, <1>4, <1>6, FilingFrame DEF MonthPasses, requestVars
<1>7. ASSUME NEW s \in Sockets, UNCHANGED <<requestVars, obligationVars, filingVars, deskVars>>
      PROVE  FilingInv'
  BY <1>2, <1>3, <1>4, <1>7, FilingFrame DEF requestVars
<1>8. ASSUME NEW h \in Handlers, ObligationStep(h), UNCHANGED filingVars PROVE FilingInv'
  <2>1. Still(FilingAt)
    BY <1>1, <1>8, ObligationMoves, StillElsewhere DEF Between, ObligationAt, FilingAt
  <2> QED
    BY <1>1, <1>3, <1>8, <2>1, ObligationsDrift, FilingFrame
<1>9. ASSUME NEW h \in Handlers, ResetStep(h), UNCHANGED filingVars PROVE FilingInv'
  <2>1. Still(FilingAt)
    BY <1>1, <1>9, ResetMoves, StillElsewhere DEF Between, ResetAt, FilingAt
  <2> QED
    BY <1>1, <1>3, <1>9, <2>1, ObligationsDrift, FilingFrame
<1>10. ASSUME NEW h \in Handlers, DeskStep(h), UNCHANGED <<obligationVars, filingVars>>
       PROVE  FilingInv'
  <2>1. Still(FilingAt)
    <3>1. Between(h, ChatAt) \/ Between(h, ResolutionAt) \/ Between(h, TestAt)
      BY <1>1, <1>10, ChatMoves, ResolutionMoves, TestMoves DEF DeskStep, TestStep
    <3> QED
      BY <3>1, StillElsewhere DEF Between, ChatAt, ResolutionAt, TestAt, FilingAt
  <2> QED
    BY <1>2, <1>3, <1>10, <2>1, FilingFrame
<1>11. ASSUME NEW h \in Handlers, ChannelStep(h), UNCHANGED <<obligationVars, filingVars>>
       PROVE  FilingInv'
  <2>1. Still(FilingAt)
    BY <1>1, <1>11, ChannelMoves, StillElsewhere DEF Between, ChannelAt, FilingAt
  <2> QED
    BY <1>2, <1>3, <1>11, <2>1, FilingFrame
<1>12. ASSUME NEW h \in Handlers, ComputePayroll(h) \/ SaveDues(h), UNCHANGED obligationVars
       PROVE  FilingInv'
  <2>1. Still(FilingAt)
    BY <1>1, <1>12, PayrollMoves, StillElsewhere DEF Between, PayrollAt, FilingAt
  <2>2. UNCHANGED <<filings, clock>>
    BY <1>12 DEF ComputePayroll, SaveDues
  <2> QED
    BY <1>2, <1>12, <2>1, <2>2, FilingFrame
<1>13. ASSUME NEW h \in Handlers, FilingStep(h), UNCHANGED obligationVars PROVE FilingInv'
  BY <1>1, <1>12, <1>13, StartFilingStep, ReadScoreStep, ReadChecklistStep, FileStatusStep
     DEF FilingStep
<1> QED
  BY <1>5, <1>6, <1>7, <1>8, <1>9, <1>10, <1>11, <1>13 DEF Next

LEMMA FilingsStart == Init => FilingInv
BY DEF Init, InitRequests, InitObligations, InitFilings, FilingInv, Filing, FilingAt, StampOrder, Stamped

(* gst.py: each row, and each request on its way to one, has a score of     *)
(* obligations no older than its transaction, and the later of two stamps  *)
(* is the one of no older beginning.                                        *)
THEOREM FilingInvariance == Spec => []FilingInv
BY FilingsStart, NextKeepsFilings, Invariance, PTL DEF Spec

(* gst.py, readiness_checker.py: a row whose score and checklist were read  *)
(* from the same obligations says 100 exactly when it lists nothing.       *)
THEOREM ListExplainsScoreHolds == Spec => []ListExplainsScore
<1>1. FilingInv => ListExplainsScore
  BY DEF FilingInv, ListExplainsScore, Explained
<1> QED
  BY <1>1, FilingInvariance, PTL

LEMMA ShownIsLatest ==
  ASSUME FilingInv, NEW f \in filings
  PROVE  LET s == Shown(f.business)
         IN  s \in filings /\ f.stamp <= s.stamp
<1> DEFINE Of == {g \in filings : g.business = f.business}
           S == {g.stamp : g \in Of}
<1>1. S \subseteq Nat /\ S # {} /\ clock \in Nat /\ \A n \in S : n <= clock
  <2>1. \A g \in filings : g.stamp \in 1..clock
    BY DEF FilingInv, Begun
  <2>2. clock \in Nat /\ f \in Of
    BY DEF FilingInv
  <2>3. f.stamp \in S
    BY <2>2
  <2> QED
    BY <2>1, <2>2, <2>3
<1> HIDE DEF S
<1>2. PICK n \in S : \A m \in S : m <= n
  BY <1>1, LargestNumber
<1>3. PICK g \in Of : g.stamp = n
  BY DEF S
<1>4. \A k \in Of : k.stamp <= g.stamp
  BY <1>2, <1>3 DEF S
<1>5. g \in filings /\ g.business = f.business /\ \A k \in filings : k.business = f.business => k.stamp <= g.stamp
  BY <1>4
<1> DEFINE s == Shown(f.business)
<1>6. s \in filings /\ s.business = f.business /\ \A k \in filings : k.business = f.business => k.stamp <= s.stamp
  BY <1>5 DEF Shown
<1> QED
  BY <1>6

(* GET /gst/filing-status: the status shown after a recomputation is of     *)
(* obligations no older than its beginning, for any number of overlapping  *)
(* requests and in whatever order they commit.                             *)
THEOREM ShownSinceHolds == Spec => []ShownSince
<1>1. FilingInv => ShownSince
  <2> SUFFICES ASSUME FilingInv, NEW f \in filings
               PROVE  Shown(f.business).readAt >= f.began
    BY DEF ShownSince
  <2> DEFINE s == Shown(f.business)
  <2>1. s \in filings /\ f.stamp <= s.stamp
    BY ShownIsLatest
  <2> HIDE DEF s
  <2>2. f.began <= s.began
    BY <2>1 DEF FilingInv, StampOrder, Stamped
  <2>3. f.began \in Nat /\ s.began \in Nat /\ s.readAt \in Nat /\ s.began <= s.readAt
    BY <2>1 DEF FilingInv, Begun, Scored
  <2> QED
    BY <2>2, <2>3 DEF s
<1> QED
  BY <1>1, FilingInvariance, PTL

-----------------------------------------------------------------------------
(***************************************************************************)
(* The review desk, continued: two approvers of one item.                  *)
(***************************************************************************)
\* Rows of the queue stay as they are, go, or come without a resolution.
QueueKept ==
  /\ queued \in Nat /\ queued' \in Nat /\ queued <= queued'
  /\ \A i \in DOMAIN queue' :
       \/ i \in DOMAIN queue /\ queue'[i].status = queue[i].status
                             /\ queue'[i].resolution = queue[i].resolution
       \/ i \notin 0..queued /\ queue'[i].status = "pending"

LEMMA ResolutionFrame ==
  ASSUME ResolutionInv, Still({"resolve"}), signed' = signed, QueueKept,
         requests \in Nat, requests' \in Nat, requests <= requests'
  PROVE  ResolutionInv'
<1>1. \A g \in Handlers : pc'[g] = "resolve" => pc[g] = "resolve" /\ req'[g] = req[g]
  BY DEF Still
<1>2. 1..queued \subseteq 1..queued' /\ 1..requests \subseteq 1..requests'
  BY DEF QueueKept
<1>3. signed' \subseteq [item : 1..queued, by : 1..requests]'
  BY <1>2 DEF ResolutionInv
<1>4. ASSUME NEW g \in Handlers PROVE OwnNumber(g)'
  BY <1>1, <1>2 DEF ResolutionInv, OwnNumber
<1>5. ASSUME NEW i \in DOMAIN queue' PROVE Settled(i)'
  <2>1. SignedFor(i)' = SignedFor(i) /\ \A g \in Resolvers(i)' : g \in Resolvers(i) /\ req'[g] = req[g]
    BY <1>1 DEF SignedFor, Resolvers
  <2>2. CASE /\ i \in DOMAIN queue /\ queue'[i].status = queue[i].status
             /\ queue'[i].resolution = queue[i].resolution
    BY <2>1, <2>2 DEF ResolutionInv, Settled
  <2>3. CASE i \notin 0..queued /\ queue'[i].status = "pending"
    <3>1. SignedFor(i) = {}
      BY <2>3 DEF SignedFor, ResolutionInv, QueueKept
    <3>2. Resolvers(i) = {}
      BY <2>3 DEF Resolvers, ResolutionInv, OwnNumber, QueueKept
    <3> QED
      BY <2>1, <2>3, <3>1, <3>2 DEF Settled
  <2> QED
    BY <2>2, <2>3 DEF QueueKept
<1> QED
  BY <1>3, <1>4, <1>5 DEF ResolutionInv

LEMMA LoadItemSettles ==
  ASSUME ApiInv, ResolutionInv, NEW h \in Handlers, LoadItem(h)
  PROVE  ResolutionInv'
<1>0. TypeOK /\ UNCHANGED <<queue, queued, signed>>
  BY DEF ApiInv, LoadItem, deskVars
<1>1. PICK i \in DOMAIN queue, d \in {"approved", "rejected"} :
        Receive(h, "resolve", [n |-> requests + 1, item |-> i, loaded |-> queue[i].status, decision |-> d])
  BY DEF LoadItem
<1> DEFINE x == [n |-> requests + 1, item |-> i, loaded |-> queue[i].status, decision |-> d]
<1>2. HandlerStep(h) /\ pc[h] = "idle" /\ pc'[h] = "resolve" /\ req'[h] = x /\ requests' = requests + 1
  BY <1>0, <1>1, ReceiveMoves DEF Labels, Receive
<1>3. /\ x.n = requests + 1 /\ x.item = i /\ x.loaded = queue[i].status
      /\ requests \in Nat /\ i \in 1..queued
  BY <1>0 DEF TypeOK
<1> HIDE DEF x
<1>4. signed' \subseteq [item : 1..queued, by : 1..requests]'
  BY <1>0, <1>2, <1>3 DEF ResolutionInv
<1>5. ASSUME NEW g \in Handlers PROVE OwnNumber(g)'
  <2>1. CASE g = h
    <3>1. \A s \in signed : s.by # x.n
      BY <1>3 DEF ResolutionInv
    <3>2. \A k \in Handlers \ {h} : pc'[k] = "resolve" => req'[k].n # x.n
      BY <1>2, <1>3 DEF ResolutionInv, OwnNumber, HandlerStep
    <3> QED
      BY <1>0, <1>2, <1>3, <2>1, <3>1, <3>2 DEF OwnNumber
  <2>2. CASE g # h
    <3>1. pc'[g] = pc[g] /\ req'[g] = req[g] /\ OwnNumber(g)
      BY <1>2, <2>2 DEF HandlerStep, ResolutionInv
    <3>2. pc[g] = "resolve" => req[g].n # req'[h].n /\ req[g].n \in 1..requests'
      BY <1>2, <1>3, <3>1 DEF OwnNumber
    <3> QED
      BY <1>0, <1>2, <3>1, <3>2 DEF OwnNumber, HandlerStep
  <2> QED
    BY <2>1, <2>2
<1>6. ASSUME NEW j \in DOMAIN queue PROVE Settled(j)'
  <2>1. SignedFor(j)' = SignedFor(j)
    BY <1>0 DEF SignedFor
  <2>2. \A g \in Resolvers(j)' : (g \in Resolvers(j) /\ req'[g] = req[g]) \/ req'[g].loaded = queue[j].status
    BY <1>2, <1>3 DEF Resolvers, HandlerStep
  <2> QED
    BY <1>0, <2>1, <2>2 DEF ResolutionInv, Settled
<1> QED
  BY <1>0, <1>4, <1>5, <1>6 DEF ResolutionInv

LEMMA SaveResolutionSettles ==
  ASSUME ApiInv, ResolutionInv, NEW h \in Handlers, SaveResolution(h)
  PROVE  ResolutionInv'
<1> DEFINE r == req[h]
           s0 == [item |-> r.item, by |-> r.n]
<1>0. /\ TypeOK /\ pc[h] = "resolve" /\ r \in Resolutions /\ r.item \in DOMAIN queue
      /\ UNCHANGED queued
  BY DEF ApiInv, Holding, SaveResolution, At
<1>1. PICK c \in Commits :
        /\ CommitThen(h, c, "idle", Nothing)
        /\ IF c.applied
           THEN /\ queue' = [queue EXCEPT ![r.item] = Resolved(@, r)]
                /\ signed' = signed \cup {s0}
           ELSE UNCHANGED <<queue, signed>>
  BY DEF SaveResolution
<1>2. HandlerStep(h) /\ pc'[h] = "idle" /\ requests' = requests /\ requests \in Nat
  BY <1>0, <1>1, CommitMoves DEF Labels, CommitThen, TypeOK
<1>3. CASE ~ c.applied
  <2>1. UNCHANGED <<queue, signed>>
    BY <1>1, <1>3
  <2>2. QueueKept
    BY <1>0, <2>1 DEF QueueKept, TypeOK
  <2>3. \A g \in Handlers : pc'[g] = "resolve" => g # h /\ pc'[g] = pc[g] /\ req'[g] = req[g]
    BY <1>2 DEF HandlerStep
  <2>4. \A g \in Handlers : OwnNumber(g)'
    BY <1>0, <1>2, <2>1, <2>3 DEF ResolutionInv, OwnNumber
  <2>5. ASSUME NEW i \in DOMAIN queue PROVE Settled(i)'
    <3>1. SignedFor(i)' = SignedFor(i) /\ \A g \in Resolvers(i)' : g \in Resolvers(i) /\ req'[g] = req[g]
      BY <2>1, <2>3 DEF SignedFor, Resolvers
    <3> QED
      BY <2>1, <3>1 DEF ResolutionInv, Settled
  <2> QED
    BY <1>0, <1>2, <2>1, <2>4, <2>5 DEF ResolutionInv
<1>4. CASE c.applied
  <2>1. /\ signed' = signed \cup {s0} /\ DOMAIN queue' = DOMAIN queue
        /\ queue'[r.item].status = IF r.decision = r.loaded THEN queue[r.item].status ELSE r.decision
        /\ queue'[r.item].resolution.decision = r.decision
        /\ \A j \in DOMAIN queue \ {r.item} : queue'[j] = queue[j]
    <3>1. queue[r.item] \in Items
      BY <1>0 DEF TypeOK
    <3>2. /\ signed' = signed \cup {s0} /\ queue' = [queue EXCEPT ![r.item] = Resolved(queue[r.item], r)]
      BY <1>1, <1>4
    <3>3. queue'[r.item] = Resolved(queue[r.item], r)
      BY <1>0, <3>2
    <3>4. /\ Resolved(queue[r.item], r).status = IF r.decision = r.loaded THEN queue[r.item].status ELSE r.decision
          /\ Resolved(queue[r.item], r).resolution.decision = r.decision
      BY <3>1 DEF Resolved, Items
    <3> QED
      BY <1>0, <3>2, <3>3, <3>4
  <2>2. \A g \in Handlers : pc'[g] = "resolve" =>
          /\ pc[g] = "resolve" /\ g # h /\ req'[g] = req[g] /\ req[g].n # r.n
    BY <1>0, <1>2 DEF HandlerStep, ResolutionInv, OwnNumber
  <2>3. s0 \notin signed /\ r.n \in 1..requests /\ r.item \in 1..queued
    BY <1>0 DEF ResolutionInv, OwnNumber
  <2>4. IsFiniteSet(signed') /\ signed' \subseteq [item : 1..queued, by : 1..requests]'
    BY <1>0, <1>2, <2>1, <2>3, FS_AddElement DEF ResolutionInv
  <2>5. ASSUME NEW g \in Handlers PROVE OwnNumber(g)'
    BY <1>0, <1>2, <2>1, <2>2 DEF ResolutionInv, OwnNumber
  <2>6. ASSUME NEW i \in DOMAIN queue, i # r.item PROVE Settled(i)'
    <3>1. SignedFor(i)' = SignedFor(i) /\ queue'[i] = queue[i]
      BY <2>1, <2>6 DEF SignedFor
    <3>2. \A g \in Resolvers(i)' : g \in Resolvers(i) /\ req'[g] = req[g]
      BY <2>2 DEF Resolvers
    <3>3. SignedFor(i) \subseteq signed /\ Settled(i)
      BY DEF SignedFor, ResolutionInv
    <3>4. \A s : SignedFor(i) = {s} => s \in signed
      BY <3>3
    <3>5. \A s, t : SignedFor(i) = {s, t} => s \in signed /\ t \in signed
      BY <3>3
    <3> QED
      BY <3>1, <3>2, <3>3, <3>4, <3>5 DEF Settled
  <2>7. ASSUME NEW i, i = r.item PROVE Settled(i)'
    <3> DEFINE S == SignedFor(i)
               old == queue[i].status
               new == queue'[i].status
    <3>1. SignedFor(i)' = S \cup {s0} /\ s0 \notin S
      BY <2>1, <2>3, <2>7 DEF SignedFor
    <3>2. /\ new = (IF r.decision = r.loaded THEN old ELSE r.decision)
          /\ queue'[i].resolution.decision = r.decision
      BY <2>1, <2>7
    <3>3. Settled(i) /\ h \in Resolvers(i)
      BY <1>0, <2>7 DEF ResolutionInv, Resolvers
    <3>4. r.decision # "pending"
      BY <1>0 DEF Resolutions, Decisions
    <3>5. ASSUME S = {}
          PROVE  new = r.decision /\ \A g \in Resolvers(i)' : req'[g].loaded = "pending"
      <4>1. \A g \in Resolvers(i) : req[g].loaded = "pending"
        BY <3>3, <3>5 DEF Settled
      <4>2. \A g \in Resolvers(i)' : g \in Resolvers(i) /\ req'[g] = req[g]
        BY <2>2 DEF Resolvers
      <4> QED
        BY <3>2, <3>3, <3>4, <4>1, <4>2
    <3>6. ASSUME NEW s \in signed, S = {s} PROVE new = r.decision
      <4>1. r.loaded \in {"pending", old}
        BY <3>3, <3>6 DEF Settled
      <4> QED
        BY <3>2, <3>4, <4>1
    <3>7. ASSUME NEW s \in signed', SignedFor(i)' = {s} PROVE S = {}
      BY <3>1, <3>7
    <3>8. ASSUME NEW s \in signed', NEW t \in signed', SignedFor(i)' = {s, t}
          PROVE  new = r.decision
      <4>1. S = {} \/ \E u : S = {u}
        <5> HIDE DEF S, s0, new
        <5>1. S \cup {s0} = {s, t} /\ s0 \notin S
          BY <3>1, <3>8
        <5>2. \A x \in S : x \in {s, t} /\ x # s0
          BY <5>1
        <5>3. s0 \in {s, t}
          BY <5>1
        <5>4. PICK u \in {s, t} : \A x \in S : x = u
          BY <5>2, <5>3
        <5>5. ASSUME S # {} PROVE S = {u}
          BY <5>4, <5>5
        <5> QED
          BY <5>5
      <4>2. S \subseteq signed
        BY DEF SignedFor
      <4> HIDE DEF S, new
      <4> QED
        BY <3>5, <3>6, <4>1, <4>2
    <3>9. SignedFor(i)' # {}
      BY <3>1
    <3> QED
      BY <3>2, <3>5, <3>7, <3>8, <3>9 DEF Settled
  <2> QED
    BY <2>1, <2>4, <2>5, <2>6, <2>7 DEF ResolutionInv
<1> QED
  BY <1>3, <1>4

LEMMA ResolutionRaisesSettles ==
  ASSUME ApiInv, ResolutionInv, NEW h \in Handlers, ResolutionRaises(h)
  PROVE  ResolutionInv'
<1>1. TypeOK /\ Answer(h) /\ UNCHANGED <<requests, queue, queued, signed>>
  BY DEF ApiInv, ResolutionRaises, deskVars
<1>2. HandlerStep(h) /\ pc'[h] = "idle"
  BY <1>1, AnswerMoves
<1>3. \A g \in Handlers : pc'[g] = "resolve" => pc[g] = "resolve" /\ req'[g] = req[g]
  BY <1>2 DEF HandlerStep
<1>4. \A g \in Handlers : OwnNumber(g)'
  BY <1>1, <1>3 DEF ResolutionInv, OwnNumber
<1>5. ASSUME NEW i \in DOMAIN queue PROVE Settled(i)'
  <2>1. SignedFor(i)' = SignedFor(i) /\ \A g \in Resolvers(i)' : g \in Resolvers(i) /\ req'[g] = req[g]
    BY <1>1, <1>3 DEF SignedFor, Resolvers
  <2> QED
    BY <1>1, <2>1 DEF ResolutionInv, Settled
<1> QED
  BY <1>1, <1>4, <1>5 DEF ResolutionInv

LEMMA InsertIsKept ==
  ASSUME TypeOK, NEW c, NEW b, NEW o, NEW n, InsertItem(c, Item(b, o, n))
  PROVE  QueueKept
<1>1. queued \in Nat /\ DOMAIN queue \subseteq 1..queued
  BY DEF TypeOK
<1>2. CASE c.applied
  BY <1>1, <1>2 DEF InsertItem, Insert, QueueKept, Item
<1>3. CASE ~ c.applied
  BY <1>1, <1>3 DEF InsertItem, QueueKept
<1> QED
  BY <1>2, <1>3

LEMMA NextKeepsResolutions == ApiInv /\ ResolutionInv /\ [Next]_vars => ResolutionInv'
<1> SUFFICES ASSUME ApiInv, ResolutionInv, [Next]_vars PROVE ResolutionInv'
  OBVIOUS
<1>0. TypeOK /\ requests \in Nat
  BY DEF ApiInv, TypeOK
<1>1. UNCHANGED deskVars => QueueKept /\ signed' = signed
  BY <1>0 DEF TypeOK, QueueKept, deskVars
<1>2. ASSUME UNCHANGED requestVars
      PROVE  Still({"resolve"}) /\ requests' \in Nat /\ requests <= requests'
  BY <1>0, <1>2 DEF Still, requestVars
<1>3. ASSUME NEW h \in Handlers, NEW places, Between(h, places), "resolve" \notin places
      PROVE  Still({"resolve"}) /\ requests' \in Nat
  BY <1>3, StillElsewhere DEF Between, HandlerStep
<1>4. CASE UNCHANGED <<requestVars, deskVars>>
  BY <1>0, <1>1, <1>2, <1>4, ResolutionFrame
<1>5. ASSUME NEW h \in Handlers, ObligationStep(h) \/ FilingStep(h) \/ ChannelStep(h), UNCHANGED deskVars
      PROVE  ResolutionInv'
  <2>1. /\ requests <= requests'
        /\ \/ Between(h, ObligationAt) \/ Between(h, ChannelAt)
           \/ Between(h, PayrollAt) \/ Between(h, FilingAt \cup {"idle"})
    BY <1>0, <1>5, ObligationMoves, ChannelMoves, PayrollMoves, FilingMoves DEF FilingStep
  <2> QED
    BY <1>0, <1>1, <1>3, <1>5, <2>1, ResolutionFrame DEF ObligationAt, ChannelAt, PayrollAt, FilingAt
<1>6. ASSUME NEW h \in Handlers, ResetStep(h) PROVE ResolutionInv'
  <2>1. Between(h, ResetAt) /\ requests <= requests'
    BY <1>0, <1>6, ResetMoves
  <2>2. QueueKept /\ signed' = signed
    <3>1. CASE ResetDemo(h) \/ ResetRows(h)
      BY <1>1, <3>1 DEF ResetDemo, ResetRows
    <3>2. CASE ResetCommit(h)
      <4>1. UNCHANGED <<queued, signed>> /\ (queue' = queue \/ queue' = Delete(queue, req[h].items))
        BY <3>2 DEF ResetCommit
      <4> QED
        BY <1>0, <4>1 DEF QueueKept, TypeOK, Delete
    <3> QED
      BY <1>6, <3>1, <3>2 DEF ResetStep
  <2> QED
    BY <1>0, <1>3, <2>1, <2>2, ResolutionFrame DEF ResetAt
<1>7. ASSUME NEW h \in Handlers, Chat(h) \/ Escalate(h) \/ RefreshItem(h) \/ WriteEntry(h) \/ TestStep(h)
      PROVE  ResolutionInv'
  <2>1. (Between(h, ChatAt) \/ Between(h, TestAt)) /\ requests <= requests'
    BY <1>0, <1>7, ChatMoves, TestMoves
  <2>2. QueueKept /\ signed' = signed
    <3>1. CASE Escalate(h) \/ InsertTest(h)
      <4>1. signed' = signed
        BY <3>1 DEF Escalate, InsertTest
      <4>2. PICK c, b, o, n : InsertItem(c, Item(b, o, n))
        BY <3>1 DEF Escalate, InsertTest
      <4> QED
        BY <1>0, <4>1, <4>2, InsertIsKept
    <3>2. CASE WriteEntry(h)
      BY <1>0, <3>2 DEF WriteEntry, TypeOK, QueueKept
    <3> QED
      BY <1>1, <1>7, <3>1, <3>2
         DEF Chat, RefreshItem, TestStep, TestCreate, InsertTestRaises, RefreshTest, Remind
  <2> QED
    BY <1>0, <1>3, <2>1, <2>2, ResolutionFrame DEF ChatAt, TestAt
<1>8. ASSUME NEW h \in Handlers, DeskStep(h) PROVE ResolutionInv'
  BY <1>7, <1>8, LoadItemSettles, SaveResolutionSettles, ResolutionRaisesSettles DEF DeskStep, TestStep
<1> QED
  BY <1>4, <1>5, <1>6, <1>8 DEF Next, vars

LEMMA ResolutionsStart == Init => ResolutionInv
<1> SUFFICES ASSUME Init PROVE ResolutionInv
  OBVIOUS
<1>1. /\ signed = {} /\ DOMAIN queue = {} /\ \A h \in Handlers : pc[h] = "idle"
  BY DEF Init, InitRequests, InitDesk
<1> QED
  BY <1>1, FS_EmptySet DEF ResolutionInv, OwnNumber

(* hitl.py: the row of an item is what its resolutions made of it, and what *)
(* the approvers still at it have loaded is a state they left.              *)
THEOREM ResolutionInvariance == Spec => []ResolutionInv
BY ResolutionsStart, NextKeepsResolutions, Invariance, PTL DEF Spec

(* hitl.py: two approvers of one item, in any order and with any others at  *)
(* work, leave a row whose status is the decision of the resolution in it. *)
THEOREM CoherentDecisionHolds == Spec => []CoherentDecision
<1>1. ResolutionInv => CoherentDecision
  <2> SUFFICES ASSUME ResolutionInv, NEW i \in DOMAIN queue, Cardinality(SignedFor(i)) \in 1..2
               PROVE  queue[i].status = queue[i].resolution.decision
    BY DEF CoherentDecision
  <2> DEFINE S == SignedFor(i)
  <2>1. S \in SUBSET signed /\ IsFiniteSet(signed)
    BY DEF SignedFor, ResolutionInv
  <2> HIDE DEF S
  <2>2. IsFiniteSet(S)
    BY <2>1, FS_Subset
  <2>3. ASSUME Cardinality(S) = 1 PROVE \E s \in signed : S = {s}
    <3>1. PICK s : S = {s}
      BY <2>2, <2>3, FS_Singleton
    <3> QED
      BY <2>1, <3>1
  <2>4. ASSUME Cardinality(S) = 2 PROVE \E s, t \in signed : S = {s, t}
    <3>1. PICK s \in S : TRUE
      BY <2>2, <2>4, FS_EmptySet
    <3>2. IsFiniteSet(S \ {s}) /\ Cardinality(S \ {s}) = 1
      BY <2>2, <2>4, <3>1, FS_RemoveElement
    <3>3. PICK t : S \ {s} = {t}
      BY <3>2, FS_Singleton
    <3>4. S = {s, t}
      BY <3>1, <3>3
    <3> QED
      BY <2>1, <3>4
  <2>5. Cardinality(S) = 1 \/ Cardinality(S) = 2
    BY DEF S
  <2>6. Settled(i)
    BY DEF ResolutionInv
  <2> QED
    BY <2>3, <2>4, <2>5, <2>6 DEF Settled, S
<1> QED
  BY <1>1, ResolutionInvariance, PTL

-----------------------------------------------------------------------------
(***************************************************************************)
(* The review desk, continued: evidence of what was answered.              *)
(***************************************************************************)
\* A step counts the commit that raises in it.
Counts == faults' = faults \/ faults' = faults + 1

LEMMA ChatCounts ==
  ASSUME NEW h, Chat(h) \/ Escalate(h) \/ RefreshItem(h) \/ WriteEntry(h)
  PROVE  Counts
BY DEF Chat, Escalate, RefreshItem, WriteEntry, CommitThen, Counted, Counts

LEMMA DeskCounts ==
  ASSUME NEW h, LoadItem(h) \/ SaveResolution(h) \/ ResolutionRaises(h) \/ TestStep(h)
  PROVE  Counts
BY DEF LoadItem, SaveResolution, ResolutionRaises, TestStep, TestCreate, InsertTest, InsertTestRaises,
       RefreshTest, Remind, CommitThen, Counted, Counts

LEMMA OtherCounts ==
  ASSUME NEW h, ObligationStep(h) \/ FilingStep(h) \/ ResetStep(h) \/ ChannelStep(h)
  PROVE  Counts
<1>1. ObligationStep(h) => Counts
  BY DEF ObligationStep, CreateObligation, UpdateStatus, SoftDelete, LoadRow, FlushRow, FlushRaises,
         CommitThen, Counted, Counts
<1>2. FilingStep(h) => Counts
  BY DEF FilingStep, ComputePayroll, SaveDues, StartFiling, ReadScore, ReadChecklist, FileStatus,
         CommitThen, Counted, Counts
<1>3. ResetStep(h) => Counts
  BY DEF ResetStep, ResetDemo, ResetRows, ResetCommit, CommitThen, Counted, Counts
<1>4. ChannelStep(h) => Counts
  BY DEF ChannelStep, StartBroadcast, SendNext, SendRaises, FinishBroadcast, Counts
<1> QED
  BY <1>1, <1>2, <1>3, <1>4

LEMMA UnevidencedFinite == ASSUME TypeOK PROVE IsFiniteSet(Unevidenced)
<1>1. queued \in Nat /\ DOMAIN queue \in SUBSET (1..queued)
  BY DEF TypeOK
<1>2. Unevidenced \in SUBSET DOMAIN queue
  BY DEF Unevidenced
<1>3. IsFiniteSet(1..queued)
  BY <1>1, FS_Interval
<1>4. IsFiniteSet(DOMAIN queue)
  BY <1>1, <1>3, FS_Subset
<1> QED
  BY <1>2, <1>4, FS_Subset

\* One item more without evidence costs a fault more.
LEMMA FaultsPay ==
  ASSUME TypeOK, EvidenceInv, Counts,
         NEW x, Unevidenced' \subseteq Unevidenced \cup {x},
         faults' = faults => Unevidenced' \subseteq Unevidenced
  PROVE  faults' \in Nat /\ Cardinality(Unevidenced)' <= faults'
<1> DEFINE U == Unevidenced
           V == Unevidenced'
<1>1. IsFiniteSet(U) /\ Cardinality(U) <= faults /\ faults \in Nat
  BY UnevidencedFinite DEF EvidenceInv
<1> HIDE DEF U, V
<1>2. /\ Cardinality(U) \in Nat /\ IsFiniteSet(U \cup {x}) /\ Cardinality(U \cup {x}) \in Nat
      /\ Cardinality(U \cup {x}) <= Cardinality(U) + 1
  <2>1. Cardinality(U) \in Nat
    BY <1>1, FS_CardinalityType
  <2>2. /\ IsFiniteSet(U \cup {x})
        /\ Cardinality(U \cup {x}) = IF x \in U THEN Cardinality(U) ELSE Cardinality(U) + 1
    BY <1>1, FS_AddElement
  <2> QED
    BY <2>1, <2>2
<1>3. V \in SUBSET (U \cup {x}) /\ (faults' = faults => V \in SUBSET U)
  BY DEF U, V
<1>4. IsFiniteSet(V) /\ Cardinality(V) <= Cardinality(U \cup {x})
  BY <1>2, <1>3, FS_Subset
<1>5. faults' = faults => Cardinality(V) <= Cardinality(U)
  BY <1>1, <1>3, FS_Subset
<1>6. Cardinality(V) \in Nat
  BY <1>4, FS_CardinalityType
<1>7. faults' \in Nat /\ Cardinality(V) <= faults'
  BY <1>1, <1>2, <1>4, <1>5, <1>6 DEF Counts
<1> QED
  BY <1>7 DEF V

\* Rows of the queue keep their chat, go, or come from no chat.
ChatsKept ==
  /\ queued \in Nat /\ queued' \in Nat /\ queued <= queued'
  /\ \A i \in DOMAIN queue' :
       \/ i \in DOMAIN queue /\ queue'[i].chat = queue[i].chat
       \/ ~ (i <= queued) /\ queue'[i].chat = None

LEMMA OwnItemKept ==
  ASSUME EvidenceInv, NEW g \in Handlers, pc'[g] = pc[g], req'[g] = req[g],
         pc[g] \in EvaluationAt => req[g].item \in Nat,
         queued \in Nat, queued' \in Nat, queued <= queued',
         \A i \in DOMAIN queue' : (i \in DOMAIN queue /\ queue'[i].chat = queue[i].chat) \/ ~ (i <= queued)
  PROVE  OwnItem(g)'
BY DEF EvidenceInv, OwnItem

LEMMA TimelyKept ==
  ASSUME EvidenceInv, NEW g \in Handlers, pc'[g] = pc[g], req'[g] = req[g],
         pc[g] \in Evaluating => req[g] \in Evaluations,
         month \in Nat, month' \in Nat, month <= month'
  PROVE  Timely(g)'
<1>1. CASE pc[g] \in Evaluating
  <2>1. PICK k : k = req[g].stamp
    OBVIOUS
  <2>2. k \in Nat /\ k <= month /\ req[g].asked <= k
    BY <1>1, <2>1 DEF EvidenceInv, Timely, Evaluations
  <2>3. k <= month'
    BY <2>2
  <2> QED
    BY <2>1, <2>2, <2>3 DEF Timely
<1>2. CASE pc[g] \notin Evaluating
  BY <1>2 DEF Timely
<1> QED
  BY <1>1, <1>2

LEMMA EvidenceFrame ==
  ASSUME ApiInv, EvidenceInv, Still(Evaluating), UNCHANGED <<ledger, answered>>, Counts, ChatsKept,
         month' \in Nat, month <= month'
  PROVE  EvidenceInv'
<1>0. /\ Still(EvaluationAt) /\ month \in Nat
      /\ \A g \in Handlers : pc[g] \in Evaluating => req[g] \in Evaluations
  BY DEF ApiInv, TypeOK, Months, Holding, Still, EvaluationAt, Evaluating
<1>1. TypeOK /\ \A g \in Handlers : pc[g] \in EvaluationAt => req[g].item \in Nat
  BY DEF ApiInv, Holding, EvaluationAt, Evaluations
<1>2. ASSUME NEW g \in Handlers PROVE OwnItem(g)'
  <2>1. CASE pc'[g] \in EvaluationAt
    <3>1. pc'[g] = pc[g] /\ req'[g] = req[g]
      BY <1>0, <2>1 DEF Still
    <3> QED
      BY <1>1, <3>1, OwnItemKept DEF ChatsKept
  <2>2. CASE pc'[g] \notin EvaluationAt
    BY <2>2 DEF OwnItem, EvaluationAt
  <2> QED
    BY <2>1, <2>2
<1>5. ASSUME NEW g \in Handlers PROVE Timely(g)'
  <2>1. CASE pc'[g] \in Evaluating
    <3>1. pc'[g] = pc[g] /\ req'[g] = req[g]
      BY <2>1 DEF Still
    <3> QED
      BY <1>0, <3>1, TimelyKept
  <2>2. CASE pc'[g] \notin Evaluating
    BY <2>2 DEF Timely, Evaluating
  <2> QED
    BY <2>1, <2>2
<1>3. Unevidenced' \subseteq Unevidenced
  <2> SUFFICES ASSUME NEW i \in Unevidenced' PROVE i \in Unevidenced
    OBVIOUS
  <2>1. /\ i \in DOMAIN queue' /\ queue'[i].chat # None
        /\ \A e \in ledger : e.chat # queue'[i].chat
        /\ \A g \in Handlers : pc'[g] \in EvaluationAt => req'[g].item # i
    BY DEF Unevidenced, EvaluationAt
  <2>2. i \in DOMAIN queue /\ queue'[i].chat = queue[i].chat
    BY <2>1 DEF ChatsKept
  <2>3. \A g \in Handlers : pc[g] \in EvaluationAt => req[g].item # i
    BY <1>0, <2>1 DEF Still
  <2> QED
    BY <2>1, <2>2, <2>3 DEF Unevidenced, EvaluationAt
<1>4. faults' \in Nat /\ Cardinality(Unevidenced)' <= faults'
  BY <1>1, <1>3, FaultsPay
<1> QED
  BY <1>2, <1>4, <1>5 DEF EvidenceInv, InLedger

\* A step of an evaluation itself.
LEMMA EvaluationStep ==
  ASSUME ApiInv, EvidenceInv, NEW h \in Handlers, HandlerStep(h), OwnItem(h)', Timely(h)',
         month' = month, Counts, queued' \in Nat, queued <= queued',
         \A i \in DOMAIN queue' : (i \in DOMAIN queue /\ queue'[i].chat = queue[i].chat) \/ ~ (i <= queued),
         IsFiniteSet(ledger'), answered' \subseteq [chat : Nat, business : Businesses, asked : Nat],
         \A a \in answered' : InLedger(a)',
         NEW x, Unevidenced' \subseteq Unevidenced \cup {x},
         faults' = faults => Unevidenced' \subseteq Unevidenced
  PROVE  EvidenceInv'
<1>1. TypeOK /\ queued \in Nat /\ \A g \in Handlers : pc[g] \in EvaluationAt => req[g].item \in Nat
  BY DEF ApiInv, Holding, EvaluationAt, Evaluations, TypeOK
<1>4. month \in Nat /\ \A g \in Handlers : pc[g] \in Evaluating => req[g] \in Evaluations
  BY DEF ApiInv, TypeOK, Months, Holding, Evaluating
<1>2. \A g \in Handlers : OwnItem(g)' /\ Timely(g)'
  <2> SUFFICES ASSUME NEW g \in Handlers, g # h PROVE OwnItem(g)' /\ Timely(g)'
    OBVIOUS
  <2>1. pc'[g] = pc[g] /\ req'[g] = req[g]
    BY DEF HandlerStep
  <2>2. OwnItem(g)'
    BY <1>1, <2>1, OwnItemKept
  <2>3. Timely(g)'
    BY <1>4, <2>1, TimelyKept
  <2> QED
    BY <2>2, <2>3
<1>3. faults' \in Nat /\ Cardinality(Unevidenced)' <= faults'
  BY <1>1, FaultsPay
<1> QED
  BY <1>2, <1>3 DEF EvidenceInv

\* Items that this handler is not about, in a ledger that only grows.
LEMMA StaysUnevidenced ==
  ASSUME NEW h \in Handlers, HandlerStep(h), NEW i \in Unevidenced', ledger \subseteq ledger',
         i \in DOMAIN queue, queue'[i].chat = queue[i].chat,
         pc[h] \in EvaluationAt => req[h].item # i
  PROVE  i \in Unevidenced
<1>1. /\ queue'[i].chat # None
      /\ \A e \in ledger' : e.chat # queue'[i].chat
      /\ \A g \in Handlers : pc'[g] \in EvaluationAt => req'[g].item # i
  BY DEF Unevidenced, EvaluationAt
<1>2. \A g \in Handlers : pc[g] \in EvaluationAt => req[g].item # i
  BY <1>1 DEF HandlerStep
<1> QED
  BY <1>1, <1>2 DEF Unevidenced, EvaluationAt

LEMMA ChatEvidence ==
  ASSUME ApiInv, EvidenceInv, NEW h \in Handlers, Chat(h), month' = month
  PROVE  EvidenceInv'
<1>1. TypeOK /\ UNCHANGED <<queue, queued, ledger, answered, faults>> /\ queued \in Nat
  BY DEF ApiInv, TypeOK, Chat, deskVars
<1>2. PICK b \in Businesses, l \in {"escalate", "evidence"} : \E v :
        Receive(h, l, [n |-> requests + 1, business |-> b, verdict |-> v, item |-> None,
                       asked |-> month, stamp |-> month])
  BY DEF Chat, FirstCommit
<1>3. /\ HandlerStep(h) /\ pc[h] = "idle" /\ req'[h].item = None
      /\ req'[h].asked = month /\ req'[h].stamp = month
  BY <1>1, <1>2, ReceiveMoves DEF Labels
<1>4. None <= queued /\ None \notin DOMAIN queue
  BY <1>1 DEF TypeOK, None
<1>8. Timely(h)'
  <2>1. month \in Nat
    BY <1>1 DEF TypeOK, Months
  <2> QED
    BY <1>3, <2>1 DEF Timely
<1>5. OwnItem(h)'
  BY <1>1, <1>3, <1>4 DEF OwnItem
<1>6. Unevidenced' \subseteq Unevidenced
  <2>1. \A i \in Unevidenced' : i \in DOMAIN queue
    BY <1>1 DEF Unevidenced
  <2> QED
    BY <1>1, <1>3, <2>1, StaysUnevidenced DEF EvaluationAt
<1>7. \A a \in answered' : InLedger(a)'
  BY <1>1 DEF EvidenceInv, InLedger
<1> QED
  BY <1>1, <1>3, <1>5, <1>6, <1>7, <1>8, EvaluationStep DEF EvidenceInv, Counts

LEMMA EscalateEvidence ==
  ASSUME ApiInv, EvidenceInv, NEW h \in Handlers, Escalate(h), month' = month
  PROVE  EvidenceInv'
<1> DEFINE r == req[h]
           x == [r EXCEPT !.item = queued + 1]
           item == Item(r.business, None, r.n)
<1>1. /\ TypeOK /\ pc[h] = "escalate" /\ r \in Evaluations /\ UNCHANGED <<ledger, answered>>
      /\ queued \in Nat /\ DOMAIN queue \subseteq 1..queued
  BY DEF ApiInv, TypeOK, Holding, Escalate, At
<1>2. PICK c \in Commits : CommitThen(h, c, "refresh", x) /\ InsertItem(c, item)
  BY DEF Escalate
<1>3. item.chat = r.n /\ x.item = queued + 1 /\ x.n = r.n /\ x.asked = r.asked /\ x.stamp = r.stamp
  BY <1>1 DEF Item, Evaluations
<1> HIDE DEF item, x
<1>4. /\ HandlerStep(h) /\ requests' = requests
      /\ faults' = IF c.ok THEN faults ELSE faults + 1
      /\ IF c.ok THEN pc'[h] = "refresh" /\ req'[h] = x ELSE pc'[h] = "idle"
      /\ c.ok => c.applied
  <2>1. HandlerStep(h)
    BY <1>1, <1>2, CommitMoves DEF Labels
  <2>2. IF c.ok THEN Goto(h, "refresh", x) ELSE Goto(h, "idle", Nothing)
    BY <1>2 DEF CommitThen, Answer
  <2>3. IF c.ok THEN pc'[h] = "refresh" /\ req'[h] = x ELSE pc'[h] = "idle"
    BY <1>1, <2>2 DEF Goto, TypeOK
  <2> QED
    BY <1>2, <2>1, <2>3 DEF CommitThen, Counted, Commits
<1>5. IF c.applied
      THEN /\ queued' = queued + 1 /\ DOMAIN queue' = DOMAIN queue \cup {queued + 1}
           /\ queue'[queued + 1] = item
           /\ \A i \in DOMAIN queue : queue'[i] = queue[i]
      ELSE UNCHANGED <<queue, queued>>
  BY <1>1, <1>2 DEF InsertItem, Insert
<1>6. OwnItem(h)'
  <2>1. CASE c.ok
    BY <1>1, <1>3, <1>4, <1>5, <2>1 DEF OwnItem
  <2>2. CASE ~ c.ok
    BY <1>4, <2>2 DEF OwnItem, EvaluationAt
  <2> QED
    BY <2>1, <2>2
<1>12. Timely(h)'
  <2>1. r.asked <= r.stamp /\ r.stamp <= month
    BY <1>1 DEF EvidenceInv, Timely, Evaluating
  <2>2. CASE c.ok
    BY <1>3, <1>4, <2>1, <2>2 DEF Timely
  <2>3. CASE ~ c.ok
    BY <1>4, <2>3 DEF Timely, Evaluating
  <2> QED
    BY <2>2, <2>3
<1>7. \A i \in Unevidenced' : i \in DOMAIN queue => i \in Unevidenced
  BY <1>1, <1>4, <1>5, StaysUnevidenced DEF EvaluationAt
<1>8. Unevidenced' \subseteq Unevidenced \cup {queued + 1}
  <2>1. \A i \in Unevidenced' : i \in DOMAIN queue'
    BY DEF Unevidenced
  <2> QED
    BY <1>5, <1>7, <2>1
<1>9. faults' = faults => Unevidenced' \subseteq Unevidenced
  <2> SUFFICES ASSUME faults' = faults PROVE queued + 1 \notin Unevidenced'
    BY <1>8
  <2>1. c.ok
    BY <1>4 DEF EvidenceInv
  <2> QED
    BY <1>3, <1>4, <2>1 DEF Unevidenced
<1>10. /\ queued' \in Nat /\ queued <= queued'
       /\ \A i \in DOMAIN queue' : (i \in DOMAIN queue /\ queue'[i].chat = queue[i].chat) \/ ~ (i <= queued)
  BY <1>1, <1>5
<1>11. \A a \in answered' : InLedger(a)'
  BY <1>1 DEF EvidenceInv, InLedger
<1> QED
  BY <1>1, <1>4, <1>6, <1>8, <1>9, <1>10, <1>11, <1>12, EvaluationStep DEF EvidenceInv, Counts

LEMMA RefreshItemEvidence ==
  ASSUME ApiInv, EvidenceInv, NEW h \in Handlers, RefreshItem(h), month' = month
  PROVE  EvidenceInv'
<1>1. /\ TypeOK /\ pc[h] = "refresh" /\ UNCHANGED <<requests, queue, queued, ledger, answered, faults>>
      /\ queued \in Nat /\ requests' \in Nat
  BY DEF ApiInv, TypeOK, RefreshItem, At, deskVars
<1> DEFINE x == [req[h] EXCEPT !.stamp = month]
<1>8. req[h] \in Evaluations /\ month \in Nat
  BY <1>1 DEF ApiInv, Holding, TypeOK, Months
<1>9. x.item = req[h].item /\ x.n = req[h].n /\ x.asked = req[h].asked /\ x.stamp = month
  BY <1>8 DEF Evaluations
<1>2. \/ Goto(h, "evidence", x)
      \/ req[h].item \notin DOMAIN queue /\ Answer(h)
  BY DEF RefreshItem
<1> HIDE DEF x
<1>3. /\ HandlerStep(h)
      /\ \/ pc'[h] = "evidence" /\ req'[h] = x
         \/ pc'[h] = "idle" /\ req[h].item \notin DOMAIN queue
  BY <1>1, <1>2, GotoMoves, AnswerMoves DEF Labels
<1>4. OwnItem(h)'
  BY <1>1, <1>3, <1>9 DEF EvidenceInv, OwnItem, EvaluationAt
<1>10. Timely(h)'
  <2>1. PICK asked, stamp : asked = req[h].asked /\ stamp = req[h].stamp
    OBVIOUS
  <2>2. asked <= stamp /\ stamp <= month /\ asked \in Nat /\ stamp \in Nat
    BY <1>1, <1>8, <2>1 DEF EvidenceInv, Timely, Evaluating, Evaluations
  <2>3. asked <= month /\ month <= month
    BY <1>8, <2>2
  <2> QED
    BY <1>3, <1>9, <2>1, <2>3 DEF Timely, Evaluating
<1>5. Unevidenced' \subseteq Unevidenced
  <2> SUFFICES ASSUME NEW i \in Unevidenced' PROVE i \in Unevidenced
    OBVIOUS
  <2>1. i \in DOMAIN queue
    BY <1>1 DEF Unevidenced
  <2>2. req[h].item # i
    BY <1>3, <1>9, <2>1 DEF Unevidenced
  <2> QED
    BY <1>1, <1>3, <2>1, <2>2, StaysUnevidenced
<1>6. \A a \in answered' : InLedger(a)'
  BY <1>1 DEF EvidenceInv, InLedger
<1>7. /\ Counts /\ queued' \in Nat /\ queued <= queued'
      /\ \A i \in DOMAIN queue' : i \in DOMAIN queue /\ queue'[i].chat = queue[i].chat
      /\ Unevidenced' \subseteq Unevidenced \cup {None}
      /\ IsFiniteSet(ledger')
      /\ answered' \subseteq [chat : Nat, business : Businesses, asked : Nat]
  BY <1>1, <1>5 DEF Counts, EvidenceInv
<1> QED
  BY <1>3, <1>4, <1>5, <1>6, <1>7, <1>10, EvaluationStep

LEMMA WriteEntryEvidence ==
  ASSUME ApiInv, EvidenceInv, NEW h \in Handlers, WriteEntry(h), month' = month
  PROVE  EvidenceInv'
<1> DEFINE r == req[h]
           entry == Entry(r)
<1>1. /\ TypeOK /\ pc[h] = "evidence" /\ r \in Evaluations /\ UNCHANGED <<queue, queued>>
      /\ queued \in Nat
  BY DEF ApiInv, TypeOK, Holding, WriteEntry, At
<1>2. PICK c \in Commits :
        /\ CommitThen(h, c, "idle", Nothing)
        /\ ledger' = IF c.applied THEN ledger \cup {entry} ELSE ledger
        /\ answered' = IF c.ok THEN answered \cup {Answered(r)} ELSE answered
  BY DEF WriteEntry
<1>3. /\ entry.chat = r.n /\ entry.business = r.business /\ r.n \in Nat /\ r.business \in Businesses
      /\ entry.time = r.stamp /\ entry.time \in Nat /\ r.asked \in Nat /\ r.asked <= entry.time
  BY <1>1 DEF Entry, Evaluations, EvidenceInv, Timely, Evaluating
<1> HIDE DEF entry
<1>4. HandlerStep(h) /\ pc'[h] = "idle" /\ (c.ok => c.applied)
      /\ faults' = IF c.ok THEN faults ELSE faults + 1
  BY <1>1, <1>2, CommitMoves DEF Labels, CommitThen, Counted, Commits
<1>5. OwnItem(h)'
  BY <1>4 DEF OwnItem, EvaluationAt
<1>14. Timely(h)'
  BY <1>4 DEF Timely, Evaluating
<1>6. IsFiniteSet(ledger') /\ ledger \subseteq ledger'
  BY <1>2, FS_AddElement DEF EvidenceInv
<1>7. answered' \subseteq [chat : Nat, business : Businesses, asked : Nat]
  BY <1>2, <1>3 DEF EvidenceInv, Answered
<1>8. ASSUME NEW a \in answered' PROVE InLedger(a)'
  <2>1. CASE a \in answered
    <3>1. PICK e \in ledger : /\ e.chat = a.chat /\ e.business = a.business
                              /\ e.time \in Nat /\ a.asked <= e.time
      BY <2>1 DEF EvidenceInv, InLedger
    <3> QED
      BY <1>6, <3>1 DEF InLedger
  <2>2. CASE c.ok /\ a = Answered(r)
    <3>1. entry \in ledger' /\ a.chat = r.n /\ a.business = r.business /\ a.asked = r.asked
      BY <1>2, <1>4, <2>2 DEF Answered
    <3> QED
      BY <1>3, <3>1 DEF InLedger
  <2> QED
    BY <1>2, <2>1, <2>2
<1>9. \A i \in Unevidenced' : i \in DOMAIN queue /\ (i # r.item => i \in Unevidenced)
  <2>1. \A i \in Unevidenced' : i \in DOMAIN queue
    BY <1>1 DEF Unevidenced
  <2> QED
    BY <1>1, <1>4, <1>6, <2>1, StaysUnevidenced
<1>10. Unevidenced' \subseteq Unevidenced \cup {r.item}
  BY <1>9
<1>11. faults' = faults => Unevidenced' \subseteq Unevidenced
  <2> SUFFICES ASSUME c.ok, r.item \in Unevidenced' PROVE FALSE
    BY <1>4, <1>10 DEF EvidenceInv
  <2>1. r.item \in DOMAIN queue /\ \A e \in ledger' : e.chat # queue[r.item].chat
    BY <1>1 DEF Unevidenced
  <2>2. queue[r.item].chat = r.n
    BY <1>1, <2>1 DEF EvidenceInv, OwnItem, EvaluationAt
  <2>3. entry \in ledger'
    BY <1>2, <1>4
  <2> QED
    BY <1>3, <2>1, <2>2, <2>3
<1>12. /\ Counts /\ queued' \in Nat /\ queued <= queued'
       /\ \A i \in DOMAIN queue' : i \in DOMAIN queue /\ queue'[i].chat = queue[i].chat
  BY <1>1, <1>4 DEF Counts
<1>13. PICK item : item = r.item
  OBVIOUS
<1> HIDE DEF r
<1> QED
  BY <1>4, <1>5, <1>6, <1>7, <1>8, <1>10, <1>11, <1>12, <1>13, <1>14, EvaluationStep

LEMMA InsertKeepsChats ==
  ASSUME TypeOK, NEW c, NEW b, NEW o, InsertItem(c, Item(b, o, None))
  PROVE  ChatsKept
<1>1. queued \in Nat /\ DOMAIN queue \subseteq 1..queued
  BY DEF TypeOK
<1>2. CASE c.applied
  BY <1>1, <1>2 DEF InsertItem, Insert, ChatsKept, Item
<1>3. CASE ~ c.applied
  BY <1>1, <1>3 DEF InsertItem, ChatsKept
<1> QED
  BY <1>2, <1>3

LEMMA NextKeepsEvidence == ApiInv /\ EvidenceInv /\ [Next]_vars => EvidenceInv'
<1> SUFFICES ASSUME ApiInv, EvidenceInv, [Next]_vars PROVE EvidenceInv'
  OBVIOUS
<1>0. TypeOK /\ queued \in Nat /\ month \in Nat /\ month <= month
  BY DEF ApiInv, TypeOK, Months
<1>1. UNCHANGED deskVars => ChatsKept /\ UNCHANGED <<ledger, answered>>
  BY <1>0 DEF ChatsKept, deskVars
<1>2. ASSUME NEW h \in Handlers, NEW places, Between(h, places), places \cap Evaluating = {}
      PROVE  Still(Evaluating)
  BY <1>2, StillElsewhere DEF Between
<1>3. ASSUME UNCHANGED <<requestVars, deskVars>>, month' = month \/ MonthPasses PROVE EvidenceInv'
  <2>1. Still(Evaluating) /\ Counts
    BY <1>3 DEF Still, Counts, requestVars
  <2>2. month' \in Nat /\ month <= month'
    BY <1>0, <1>3 DEF MonthPasses
  <2> QED
    BY <1>1, <1>3, <2>1, <2>2, EvidenceFrame
<1>8. ASSUME NEW h \in Handlers, FilingStep(h) PROVE month' = month
  BY <1>8 DEF FilingStep, ComputePayroll, SaveDues, StartFiling, ReadScore, ReadChecklist, FileStatus
<1>4. ASSUME NEW h \in Handlers, ObligationStep(h) \/ FilingStep(h) \/ ChannelStep(h),
             UNCHANGED deskVars, month' = month
      PROVE  EvidenceInv'
  <2>1. \/ Between(h, ObligationAt) \/ Between(h, ChannelAt)
        \/ Between(h, PayrollAt) \/ Between(h, FilingAt \cup {"idle"})
    BY <1>0, <1>4, ObligationMoves, ChannelMoves, PayrollMoves, FilingMoves DEF FilingStep
  <2>2. Still(Evaluating)
    BY <1>2, <2>1 DEF ObligationAt, ChannelAt, PayrollAt, FilingAt, Evaluating
  <2> QED
    BY <1>0, <1>1, <1>4, <2>2, OtherCounts, EvidenceFrame
<1>5. ASSUME NEW h \in Handlers, ResetStep(h), month' = month PROVE EvidenceInv'
  <2>1. Still(Evaluating)
    BY <1>0, <1>2, <1>5, ResetMoves DEF ResetAt, Evaluating
  <2>2. ChatsKept /\ UNCHANGED <<ledger, answered>>
    <3>1. CASE ResetDemo(h) \/ ResetRows(h)
      BY <1>1, <3>1 DEF ResetDemo, ResetRows
    <3>2. CASE ResetCommit(h)
      <4>1. /\ UNCHANGED <<queued, ledger, answered>>
            /\ queue' = queue \/ queue' = Delete(queue, req[h].items)
        BY <3>2 DEF ResetCommit
      <4> QED
        BY <1>0, <4>1 DEF ChatsKept, Delete
    <3> QED
      BY <1>5, <3>1, <3>2 DEF ResetStep
  <2> QED
    BY <1>0, <1>5, <2>1, <2>2, OtherCounts, EvidenceFrame
<1>6. ASSUME NEW h \in Handlers,
             LoadItem(h) \/ SaveResolution(h) \/ ResolutionRaises(h) \/ TestStep(h),
             month' = month
      PROVE  EvidenceInv'
  <2>1. Still(Evaluating)
    <3>1. Between(h, ResolutionAt) \/ Between(h, TestAt)
      BY <1>0, <1>6, ResolutionMoves, TestMoves
    <3> QED
      BY <1>2, <3>1 DEF ResolutionAt, TestAt, Evaluating
  <2>2. ChatsKept /\ UNCHANGED <<ledger, answered>>
    <3>1. CASE InsertTest(h)
      <4>1. UNCHANGED <<ledger, answered>>
        BY <3>1 DEF InsertTest
      <4>2. PICK c, b, o : InsertItem(c, Item(b, o, None))
        BY <3>1 DEF InsertTest
      <4> QED
        BY <1>0, <4>1, <4>2, InsertKeepsChats
    <3>2. CASE SaveResolution(h)
      <4>1. UNCHANGED <<queued, ledger, answered>>
        BY <3>2 DEF SaveResolution
      <4>2. queue' = queue \/ queue' = [queue EXCEPT ![req[h].item] = Resolved(queue[req[h].item], req[h])]
        BY <3>2 DEF SaveResolution
      <4>3. \A i \in DOMAIN queue : Resolved(queue[i], req[h]).chat = queue[i].chat
        <5>1. \A i \in DOMAIN queue : queue[i] \in Items
          BY <1>0 DEF TypeOK
        <5> QED
          BY <5>1 DEF Resolved, Items
      <4>4. DOMAIN queue' = DOMAIN queue /\ \A i \in DOMAIN queue : queue'[i].chat = queue[i].chat
        BY <4>2, <4>3
      <4> QED
        BY <1>0, <4>1, <4>4 DEF ChatsKept
    <3> QED
      BY <1>1, <1>6, <3>1, <3>2
         DEF LoadItem, ResolutionRaises, TestStep, TestCreate, InsertTestRaises, RefreshTest, Remind
  <2> QED
    BY <1>0, <1>6, <2>1, <2>2, DeskCounts, EvidenceFrame
<1>7. ASSUME NEW h \in Handlers, DeskStep(h), month' = month PROVE EvidenceInv'
  BY <1>6, <1>7, ChatEvidence, EscalateEvidence, RefreshItemEvidence, WriteEntryEvidence
     DEF DeskStep, TestStep
<1> QED
  BY <1>3, <1>4, <1>5, <1>7, <1>8 DEF Next, vars, filingVars

LEMMA EvidenceStart == Init => EvidenceInv
<1> SUFFICES ASSUME Init PROVE EvidenceInv
  OBVIOUS
<1>1. /\ ledger = {} /\ answered = {} /\ faults = 0 /\ DOMAIN queue = {}
      /\ \A h \in Handlers : pc[h] = "idle"
  BY DEF Init, InitRequests, InitDesk
<1>2. Unevidenced = {}
  BY <1>1 DEF Unevidenced
<1> QED
  BY <1>1, <1>2, FS_EmptySet DEF EvidenceInv, OwnItem, Timely, EvaluationAt, Evaluating

(* assistant.py, ledger_writer.py: an evaluation answers after its entry is *)
(* committed, with a stamp not before the question, and each item without   *)
(* an entry has cost a failed commit.                                       *)
THEOREM EvidenceInvariance == Spec => []EvidenceInv
BY EvidenceStart, NextKeepsEvidence, Invariance, PTL DEF Spec

(* caal, drca: the audit packet of a business has an entry for each of its  *)
(* chats that was asked within the months it goes back and answered, and    *)
(* there are at most as many escalations without an entry as there were     *)
(* commits that raised.                                                     *)
THEOREM EvidencedHolds == Spec => []Evidenced
<1>1. ASSUME EvidenceInv, TypeOK, NEW a \in answered, a.asked >= Cutoff
      PROVE  \E e \in Packet(a.business) : e.chat = a.chat
  <2>1. PICK e \in ledger : /\ e.chat = a.chat /\ e.business = a.business
                            /\ e.time \in Nat /\ a.asked <= e.time
    BY <1>1 DEF EvidenceInv, InLedger
  <2>2. PICK cutoff, asked, time : cutoff = Cutoff /\ asked = a.asked /\ time = e.time
    OBVIOUS
  <2>3. cutoff \in Int /\ asked \in Nat /\ time \in Nat /\ asked >= cutoff /\ asked <= time
    BY <1>1, <2>1, <2>2, ReviewAssumption DEF Cutoff, TypeOK, Months, EvidenceInv
  <2>4. time >= cutoff
    BY ONLY <2>3
  <2> QED
    BY <2>1, <2>2, <2>4 DEF Packet
<1>2. EvidenceInv /\ TypeOK => Evidenced
  BY <1>1 DEF Evidenced, EvidenceInv
<1> QED
  BY <1>2, EvidenceInvariance, Invariance, PTL DEF ApiInv
=============================================================================

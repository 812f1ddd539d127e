------------------------------- MODULE Filings -------------------------------
(***************************************************************************)
(* What the API computes and files: a month's payroll dues                 *)
(* (services/api/routers/payroll.py), the GST filing status                *)
(* (services/api/routers/gst.py on the readiness checker), and the two     *)
(* health scores of services/api/routers/compliance.py.                    *)
(*                                                                         *)
(* The amounts are functions of the business, so a row of payroll_dues is  *)
(* its key; payroll counts the rows of a key.  updated_at of a filing      *)
(* status is NOW(), the start of its transaction.                          *)
(***************************************************************************)
EXTENDS ObligationsApi, Functions

CONSTANTS
  GstRegistered,  \* the businesses registered for GST
  MaxMonth        \* bound: months that pass

ASSUME FilingAssumption == MaxMonth \in Nat \ {0} /\ GstRegistered \subseteq Businesses

VARIABLES
  month,    \* date.today(), up to its month
  payroll,  \* number of payroll_dues rows by business and period
  filings,  \* the gst_filing_status rows
  clock     \* transactions of filing requests begun: the time stamps

filingVars == <<month, payroll, filings, clock>>

Months == 1..MaxMonth

InitFilings ==
  /\ month = 1
  /\ payroll = [k \in Businesses \X Months |-> 0]
  /\ filings = {}
  /\ clock = 0

MonthPasses ==
  /\ month < MaxMonth
  /\ month' = month + 1
  /\ UNCHANGED <<payroll, filings, clock>>

-----------------------------------------------------------------------------
(* Payroll: select the row of the month, then update or insert it.         *)

\* Mutant: the look-up of the month's row never finds it.
NeverExists(k) == FALSE

\* The select for a row of the business and period.
Exists(k) == payroll[k] > 0

ComputePayroll(h) ==
  /\ \E b \in Businesses :
       Receive(h, "dues", [key |-> <<b, month>>, found |-> Exists(<<b, month>>)])
  /\ UNCHANGED <<faults, month, payroll, filings, clock>>

\* The update writes the amounts the row has already.
SaveDues(h) ==
  /\ At(h, "dues")
  /\ \E c \in Commits :
       /\ CommitThen(h, c, "idle", Nothing)
       /\ payroll' = IF c.applied /\ ~ req[h].found
                     THEN [payroll EXCEPT ![req[h].key] = @ + 1]
                     ELSE payroll
  /\ UNCHANGED <<month, filings, clock>>

-----------------------------------------------------------------------------
(* GST: score and checklist are two selects, then the row is inserted.     *)

\* What is to be filed: due in the period, or overdue from any.
DueIn(b, period) ==
  {i \in RowsOf(b) : /\ obligations[i].domain = "GST"
                     /\ obligations[i].due = period \/ obligations[i].status = "overdue"}

ReadinessScore(b, period) ==
  LET due == DueIn(b, period) IN
  IF due = {} THEN (IF b \in GstRegistered THEN 100 ELSE 0)
  ELSE (100 * Cardinality({i \in due : obligations[i].status = "compliant"}))
       \div Cardinality(due)

Unfiled(b, period) ==
  {i \in DueIn(b, period) : obligations[i].status \in {"pending", "overdue"}}

\* Mutant: the placeholder lines are left out.
ListsUnfiled(b, period, score) == Unfiled(b, period) # {}

\* Something is listed as missing: an item of the checklist, or the two lines
\* put in when the score says so and the checklist does not.
ListsMissing(b, period, score) == Unfiled(b, period) # {} \/ score < 100

StartFiling(h) ==
  /\ \E b \in Businesses, m \in Months :
       Receive(h, "score", [business |-> b, period |-> m,
                            stamp |-> clock + 1, began |-> changes])
  /\ clock' = clock + 1
  /\ UNCHANGED <<faults, month, payroll, filings>>

ReadScore(h) ==
  /\ At(h, "score")
  /\ LET r == req[h] IN
       Goto(h, "checklist",
            [business |-> r.business, period |-> r.period, stamp |-> r.stamp,
             began |-> r.began, score |-> ReadinessScore(r.business, r.period),
             readAt |-> changes])
  /\ UNCHANGED <<requests, faults, month, payroll, filings, clock>>

ReadChecklist(h) ==
  /\ At(h, "checklist")
  /\ LET r == req[h] IN
       Goto(h, "file",
            [business |-> r.business, stamp |-> r.stamp, began |-> r.began,
             score |-> r.score, readAt |-> r.readAt, listedAt |-> changes,
             missing |-> ListsMissing(r.business, r.period, r.score)])
  /\ UNCHANGED <<requests, faults, month, payroll, filings, clock>>

\* Mutant: the row is stamped when it is inserted.
FileStatusLate(h) ==
  /\ At(h, "file")
  /\ \E c \in Commits :
       /\ CommitThen(h, c, "idle", Nothing)
       /\ filings' = IF c.applied
                     THEN filings \cup {[req[h] EXCEPT !.stamp = MaxRequests + Cardinality(filings)]}
                     ELSE filings
  /\ UNCHANGED <<month, payroll, clock>>

\* The row is stamped with the start of its transaction.
FileStatus(h) ==
  /\ At(h, "file")
  /\ \E c \in Commits :
       /\ CommitThen(h, c, "idle", Nothing)
       /\ filings' = IF c.applied THEN filings \cup {req[h]} ELSE filings
  /\ UNCHANGED <<month, payroll, clock>>

\* GET /gst/filing-status: the row with the latest updated_at.
Shown(b) ==
  CHOOSE f \in filings :
    f.business = b /\ \A g \in filings : g.business = b => g.stamp <= f.stamp

FilingStep(h) ==
  \/ ComputePayroll(h) \/ SaveDues(h)
  \/ StartFiling(h) \/ ReadScore(h) \/ ReadChecklist(h) \/ FileStatus(h)

-----------------------------------------------------------------------------
(* The health scores, in tenths of a per cent so that all is whole.        *)

Weights == [compliant |-> 10, pending |-> 6, overdue |-> 0, hitl_escalated |-> 4, waived |-> 8]

\* GET /compliance/businesses: rows of each status, times its weight.
SummaryScore(b) ==
  LET part == [s \in DOMAIN Weights |->
                 Weights[s] * Cardinality({i \in RowsOf(b) : obligations[i].status = s})]
  IN  IF RowsOf(b) = {} THEN 1000
      ELSE (100 * FoldFunction(+, 0, part)) \div Cardinality(RowsOf(b))

\* Mutant: the second table of weights lacks a status of the first.
RowWeightOld(i) ==
  CASE obligations[i].status = "compliant" -> 10
    [] obligations[i].status = "pending" -> 6
    [] obligations[i].status = "overdue" -> 0
    [] OTHER -> 5

\* GET /compliance/health-score: a row whose status has no weight counts half.
RowWeight(i) ==
  IF obligations[i].status \in DOMAIN Weights THEN Weights[obligations[i].status] ELSE 5

HealthScore(b) ==
  IF RowsOf(b) = {} THEN 1000
  ELSE (100 * FoldFunction(+, 0, [i \in RowsOf(b) |-> RowWeight(i)])) \div Cardinality(RowsOf(b))

-----------------------------------------------------------------------------
(* compute_payroll inserts when it found no row, and the table has no       *)
(* unique key: requests that overlap make as many rows of a month as there *)
(* can be requests at once, and none is made once a row was committed      *)
(* before the request began.                                               *)
DuplicatesBounded ==
  \A k \in DOMAIN payroll : payroll[k] <= Cardinality(Handlers)

(* After a recomputation the status shown was computed from obligations at  *)
(* least as new as when that recomputation began, although the row with    *)
(* the latest updated_at need not be the one committed last.               *)
ShownSince == \A f \in filings : Shown(f.business).readAt >= f.began

(* A row that says 100 per cent lists nothing missing, and one that says    *)
(* less names something, unless obligations changed between the two        *)
(* selects of the request.                                                 *)
ListExplainsScore ==
  \A f \in filings : f.readAt = f.listedAt => ((f.score = 100) <=> ~ f.missing)

(* The list of businesses and the page of one business show the same       *)
(* health score, computed from two tables of weights over a count and over *)
(* the rows, as long as every status is one both know.                     *)
ScoresAgree ==
  \A b \in Businesses :
    (\A i \in RowsOf(b) : obligations[i].status \in DOMAIN Weights)
      => SummaryScore(b) = HealthScore(b)
=============================================================================

--------------------------- MODULE RegulationImpact ---------------------------
(***************************************************************************)
(* What one regulation delta does: IRDAOrchestrator.run_cycle from the     *)
(* delta on (delta_extractor, the obligation graph, notifier), and COCE's  *)
(* CascadeEngine.  Several cycles share the database; each process that    *)
(* polls has a graph of its own, in memory, that lives until the process   *)
(* ends, and a demo trigger builds one for itself.  The cascade uses yet   *)
(* another graph, which nothing ever updates.                              *)
(*                                                                         *)
(* How a change is detected is RegulationWatch's subject; here a cycle     *)
(* fetches one portal, selects the newest snapshot and finds that they     *)
(* differ, and the row it inserts is the newest.                           *)
(***************************************************************************)
EXTENDS ObligationGraph, FiniteSets, SequencesExt

CONSTANTS
  Graph,         \* the nodes in use: build_graph's list, or a part of it
  Businesses,    \* business rows
  Contents,      \* what the portal can serve: regulation id -> field -> value
  FieldSeq,      \* the fields of a regulation in sorted order
  Registered,    \* <<business, regulation>> with an obligation row at the start
  Pollers,       \* processes that poll
  Demos,         \* concurrent demo triggers
  MaxPublished,  \* bound: changes published, and demo triggers
  MaxFaults,     \* bound: restarts and failures
  MaxResets      \* bound: POST /admin/reset-demo

Cycles == Pollers \cup Demos
Nodes == DOMAIN Graph
Reg(n) == Graph[n].regulation_id
NoContent == <<>>
Fields == Range(FieldSeq)

\* dict.get: a field, or a regulation, that is not there is None.
Field(content, r, f) ==
  IF r \in DOMAIN content /\ f \in DOMAIN content[r] THEN content[r][f] ELSE None

ASSUME ImpactAssumption ==
  /\ Pollers \cap Demos = {}
  /\ MaxPublished \in Nat /\ MaxFaults \in Nat /\ MaxResets \in Nat
  /\ FieldSeq \in Seq(Fields)

\* A regulation has at least its id: some field of it is there.
ASSUME ContentAssumption ==
  \A v \in Contents : \A r \in DOMAIN v : \E f \in Fields : Field(v, r, f) # None

VARIABLES
  site,      \* what the portal serves
  known,     \* content of the newest snapshot row
  graph,     \* the live nodes of each cycle's graph
  pc,        \* where each cycle stands
  base,      \* the content it read as the old one
  fetched,   \* the content it fetched
  affected,  \* the businesses it found affected
  left,      \* the businesses its cascade has not looked at yet
  adding,    \* obligation rows it has added and not committed
  rows,      \* obligation rows each cycle has made, by business and node
  alerts,    \* <<business, regulation>>: what some alert lists, and for whom
  published, \* history: publications
  triggers,  \* history: demo triggers
  faults,    \* history: restarts and failures
  resets     \* history: demo resets

vars == <<site, known, graph, pc, base, fetched, affected, left, adding, rows,
          alerts, published, triggers, faults, resets>>
history == <<published, triggers, faults, resets>>
work == <<base, fetched, affected, left, adding>>

Fresh0 == [n \in Nodes |-> Fresh(Graph[n])]

Init ==
  /\ site \in Contents
  /\ known = NoContent
  /\ graph = [c \in Cycles |-> Fresh0]
  /\ pc = [c \in Cycles |-> "idle"]
  /\ base = [c \in Cycles |-> NoContent]
  /\ fetched = [c \in Cycles |-> NoContent]
  /\ affected = [c \in Cycles |-> {}]
  /\ left = [c \in Cycles |-> {}]
  /\ adding = [c \in Cycles |-> {}]
  /\ rows = [c \in Cycles |-> [e \in Businesses \X Nodes |-> 0]]
  /\ alerts = {}
  /\ published = 0 /\ triggers = 0 /\ faults = 0 /\ resets = 0

-----------------------------------------------------------------------------
(* delta_extractor: the regulations that are new or differ, and for each   *)
(* the fields that differ, in sorted order.                                *)

Changed(old, new) == {r \in DOMAIN new : r \notin DOMAIN old \/ old[r] # new[r]}

\* A plausible slip: the old value is written to the node.
ApplyOldValue(s, old, new, r, f) ==
  IF Field(old, r, f) = Field(new, r, f) THEN s ELSE UpdateNode(s, Field(old, r, f))

\* A field of regulation r that differs becomes an update of its node.
ApplyField(s, old, new, r, f) ==
  IF Field(old, r, f) = Field(new, r, f) THEN s ELSE UpdateNode(s, Field(new, r, f))

\* update_node_from_portal takes the first node of the regulation.
FirstNode(n) == \A m \in Nodes : Reg(m) = Reg(n) => n <= m

\* update_obligation_graph: one update for each changed field.
ApplyFields(s, old, new, r) ==
  FoldLeft(LAMBDA node, f : ApplyField(node, old, new, r, f), s, FieldSeq)

UpdateGraph(g, old, new) ==
  [n \in Nodes |->
     IF FirstNode(n) /\ Reg(n) \in Changed(old, new)
       THEN ApplyFields(g[n], old, new, Reg(n))
       ELSE g[n]]

\* find_affected_businesses, which stops at the first node that matches.
Affected(g, regs) ==
  {b \in Businesses : \E n \in Nodes : Reg(n) \in regs /\ Matches(Graph[n], g[n].threshold, b)}
FindRaises(g, regs) ==
  \E b \in Businesses : \E n \in Nodes :
    /\ Reg(n) \in regs
    /\ MatchRaises(Graph[n], g[n].threshold, b)
    /\ \A m \in Nodes : m < n /\ Reg(m) = Reg(n) => ~Matches(Graph[m], g[m].threshold, b)

-----------------------------------------------------------------------------
Fault == faults < MaxFaults /\ faults' = faults + 1
Goto(c, from, to) == pc[c] = from /\ pc' = [pc EXCEPT ![c] = to]
Changes(c) == Changed(base[c], fetched[c])

\* The locals of a cycle that ends.
Forget(c) ==
  /\ pc' = [pc EXCEPT ![c] = "idle"]
  /\ base' = [base EXCEPT ![c] = NoContent]
  /\ fetched' = [fetched EXCEPT ![c] = NoContent]
  /\ affected' = [affected EXCEPT ![c] = {}]
  /\ left' = [left EXCEPT ![c] = {}]

\* The session is closed, and what it added is rolled back.
Leave(c) == Forget(c) /\ adding' = [adding EXCEPT ![c] = {}]

Publish ==
  /\ published + triggers < MaxPublished
  /\ site' \in Contents \ {site}
  /\ published' = published + 1
  /\ UNCHANGED <<known, graph, pc, work, rows, alerts, triggers, faults, resets>>

Poll(c) ==
  /\ Goto(c, "idle", "fetched")
  /\ fetched' = [fetched EXCEPT ![c] = site]
  /\ UNCHANGED <<site, known, graph, base, affected, left, adding, rows, alerts, history>>

\* v is the known content with one field of one regulation set.
OneEdit(v) ==
  /\ DOMAIN v = DOMAIN known
  /\ \E r \in DOMAIN known : \E f \in DOMAIN v[r] :
       \A q \in DOMAIN known, g \in Fields :
         <<q, g>> = <<r, f>> \/ Field(v, q, g) = Field(known, q, g)

\* A demo trigger edits the known content, and works on a new graph.
Trigger(c) ==
  /\ Goto(c, "idle", "fetched")
  /\ published + triggers < MaxPublished /\ triggers' = triggers + 1
  /\ known # NoContent
  /\ \E v \in Contents \ {known} : OneEdit(v) /\ fetched' = [fetched EXCEPT ![c] = v]
  /\ graph' = [graph EXCEPT ![c] = Fresh0]
  /\ UNCHANGED <<site, known, base, affected, left, adding, rows, alerts, published, faults, resets>>

\* The latest snapshot is selected after the fetch.
SelectKnown(c) ==
  /\ Goto(c, "fetched", "compare")
  /\ base' = [base EXCEPT ![c] = known]
  /\ UNCHANGED <<site, known, graph, fetched, affected, left, adding, rows, alerts, history>>

\* The heartbeat dates the row that was selected, which is the newest again.
Unchanged(c) ==
  /\ pc[c] = "compare" /\ base[c] = fetched[c]
  /\ known' = base[c]
  /\ Leave(c)
  /\ UNCHANGED <<site, graph, rows, alerts, history>>

\* The snapshot and the delta are stored; extract, update the graph, match.
Assess(c) ==
  /\ base[c] # fetched[c]
  /\ known' = fetched[c]
  /\ graph' = [graph EXCEPT ![c] = UpdateGraph(@, base[c], fetched[c])]
  /\ ~FindRaises(graph'[c], Changes(c))
  /\ affected' = [affected EXCEPT ![c] = Affected(graph'[c], Changes(c))]
  /\ Goto(c, "compare", "alert")
  /\ UNCHANGED <<site, base, fetched, left, adding, rows, alerts, history>>

\* _matches raises: the delta is logged and left, the graph keeps its update.
AssessRaises(c) ==
  /\ pc[c] = "compare" /\ base[c] # fetched[c]
  /\ known' = fetched[c]
  /\ graph' = [graph EXCEPT ![c] = UpdateGraph(@, base[c], fetched[c])]
  /\ FindRaises(graph'[c], Changes(c))
  /\ Leave(c)
  /\ UNCHANGED <<site, rows, alerts, history>>

\* create_compliance_alerts: every affected business, in one commit.
SendAlerts(c) ==
  /\ Goto(c, "alert", IF Changes(c) = {} THEN "done" ELSE "cascade")
  /\ alerts' = alerts \cup (affected[c] \X Changes(c))
  /\ left' = [left EXCEPT ![c] = IF Changes(c) = {} THEN {} ELSE Businesses]
  /\ UNCHANGED <<site, known, graph, base, fetched, affected, adding, rows, history>>

-----------------------------------------------------------------------------
(* evaluate_regulation_change_cascade, on a graph as built.                *)

Applicable(b) == {n \in Nodes : Matches(Graph[n], Graph[n].threshold_value, b)}

\* Plausible slips: no row is looked at; rows not committed yet count.
CurrentOfNobody(b) == {}
CurrentDirty(b) ==
  {Reg(n) : n \in {m \in Nodes : \E c \in Cycles : <<b, m>> \in adding[c] \/ rows[c][<<b, m>>] > 0}}

\* The regulations b has a committed row of; a session that reads this has
\* added nothing for b yet.
Current(b) ==
  {Reg(n) : n \in {m \in Nodes :
     \/ <<b, Reg(m)>> \in Registered /\ resets = 0
     \/ \E c \in Cycles : rows[c][<<b, m>>] > 0}}

\* One business: select its obligations, add the ones it lacks.
CascadeTo(c, b) ==
  /\ pc[c] = "cascade" /\ b \in left[c]
  /\ adding' = [adding EXCEPT ![c] = @ \cup
       {<<b, n>> : n \in {m \in Applicable(b) :
                            Reg(m) \in Changes(c) /\ Reg(m) \notin Current(b)}}]
  /\ left' = [left EXCEPT ![c] = @ \ {b}]
  /\ UNCHANGED <<site, known, graph, pc, base, fetched, affected, rows, alerts, history>>

\* One commit for all of them.
StoreRows(c) ==
  rows' = [rows EXCEPT ![c] = [e \in Businesses \X Nodes |->
             IF e \in adding[c] THEN rows[c][e] + 1 ELSE rows[c][e]]]

CascadeCommit(c) ==
  /\ left[c] = {}
  /\ Goto(c, "cascade", "done")
  /\ StoreRows(c)
  /\ adding' = [adding EXCEPT ![c] = {}]
  /\ UNCHANGED <<site, known, graph, base, fetched, affected, left, alerts, history>>

Finish(c) ==
  /\ pc[c] = "done"
  /\ Leave(c)
  /\ UNCHANGED <<site, known, graph, rows, alerts, history>>

-----------------------------------------------------------------------------
(* A cycle stops half way; the statement under way may have been committed. *)
BreakOff(c) ==
  /\ Fault
  /\ Leave(c)
  /\ \/ UNCHANGED <<known, rows, alerts>>
     \/ /\ pc[c] = "compare" /\ base[c] # fetched[c] /\ known' = fetched[c]
        /\ UNCHANGED <<rows, alerts>>
     \/ /\ pc[c] = "alert" /\ alerts' = alerts \cup (affected[c] \X Changes(c))
        /\ UNCHANGED <<known, rows>>
     \/ /\ pc[c] = "cascade" /\ left[c] = {} /\ StoreRows(c)
        /\ UNCHANGED <<known, alerts>>
  /\ UNCHANGED <<site, published, triggers, resets>>

\* The database raises.
Fails(c) == pc[c] # "idle" /\ BreakOff(c) /\ UNCHANGED graph

\* The process dies and starts again, with the graph as built.
Restart(c) == BreakOff(c) /\ graph' = [graph EXCEPT ![c] = Fresh0]

\* POST /admin/reset-demo deletes the alerts and the obligations.
ResetDemo ==
  /\ resets < MaxResets
  /\ alerts' = {}
  /\ rows' = [c \in Cycles |-> [e \in Businesses \X Nodes |-> 0]]
  /\ resets' = resets + 1
  /\ UNCHANGED <<site, known, graph, pc, work, published, triggers, faults>>

Proceed(c) ==
  \/ SelectKnown(c) \/ Unchanged(c) \/ Assess(c) \/ AssessRaises(c) \/ SendAlerts(c)
  \/ \E b \in Businesses : CascadeTo(c, b)
  \/ CascadeCommit(c) \/ Finish(c)

Next ==
  \/ Publish \/ ResetDemo
  \/ \E c \in Pollers : Poll(c)
  \/ \E c \in Demos : Trigger(c)
  \/ \E c \in Cycles : Proceed(c) \/ Fails(c) \/ Restart(c)

Spec == Init /\ [][Next]_vars

-----------------------------------------------------------------------------
(* Properties.                                                             *)

\* However often a regulation changes, a business gets at most one obligation
\* row for a node from one polling process: duplicates come only from cycles
\* that overlap, one from each.
OncePerCycle == \A c \in Cycles, e \in Businesses \X Nodes : rows[c][e] <= 1

HasRow(b, r) ==
  \/ <<b, r>> \in Registered
  \/ \E n \in Nodes, c \in Cycles : Reg(n) = r /\ rows[c][<<b, n>>] > 0

\* What overlapping cascades must not do is skip each other's work: one that is
\* done leaves every business it applies to with a committed row of the
\* regulation, its own or another's, unless a demo reset deleted them.
CascadeComplete ==
  \A c \in Cycles : pc[c] = "done" /\ resets = 0 =>
    \A b \in Businesses : \A n \in Applicable(b) :
      Reg(n) \in Changes(c) => HasRow(b, Reg(n))

\* version_history lets a reader go back from the live node to the built one:
\* the versions before the live one, without a gap, the first as built.
HistoryConsistent ==
  \A c \in Cycles, n \in Nodes :
    LET s == graph[c][n]
    IN /\ s.version = Len(s.history) + 1
       /\ \A i \in DOMAIN s.history : s.history[i].version = i
       /\ s.history # <<>> => s.history[1].threshold = Graph[n].threshold_value

\* It is the only process that polls, has not failed, and nobody ran a demo.
Alone(c) == Pollers = {c} /\ faults = 0 /\ triggers = 0

\* Between its cycles, a process that polls alone and has not failed has, for
\* every regulation, a value that the newest snapshot gives one of its fields:
\* through any number of changes, although only the fields that changed are
\* written, a node is never behind what was published.  (A demo that stored a
\* change of its own hides it from the process.)
ThresholdsFollow ==
  \A c \in Pollers :
    Alone(c) /\ pc[c] = "idle" =>
      \A n \in Nodes : FirstNode(n) /\ Reg(n) \in DOMAIN known =>
        graph[c][n].threshold \in {Field(known, Reg(n), f) : f \in Fields}

\* OncePerCycle and CascadeComplete, strengthened until every step preserves
\* them: what a session has added has no row yet, and a cascade under way has
\* dealt with every business it has looked at.
CascadeTyped ==
  /\ pc \in [Cycles -> {"idle", "fetched", "compare", "alert", "cascade", "done"}]
  /\ DOMAIN base = Cycles /\ DOMAIN fetched = Cycles
  /\ left \in [Cycles -> SUBSET Businesses]
  /\ adding \in [Cycles -> SUBSET (Businesses \X Nodes)]
  /\ rows \in [Cycles -> [Businesses \X Nodes -> Nat]]
  /\ resets \in Nat

AddedHasNoRow ==
  \A c \in Cycles : \A e \in adding[c] : pc[c] = "cascade" /\ rows[c][e] = 0

DealtWith ==
  \A c \in Cycles : pc[c] = "cascade" /\ resets = 0 =>
    \A b \in Businesses \ left[c] : \A n \in Applicable(b) :
      Reg(n) \in Changes(c) => HasRow(b, Reg(n)) \/ <<b, n>> \in adding[c]

CascadeInv == CascadeTyped /\ AddedHasNoRow /\ OncePerCycle /\ DealtWith /\ CascadeComplete

\* HistoryConsistent, strengthened: a node without a history is as built.
WholeHistory(n, s) ==
  /\ s.history \in Seq(Range(s.history))
  /\ s.version = Len(s.history) + 1
  /\ \A i \in DOMAIN s.history : s.history[i].version = i
  /\ (IF s.history = <<>> THEN s ELSE s.history[1]).threshold = Graph[n].threshold_value

HistoryInv ==
  /\ DOMAIN graph = Cycles
  /\ \A c \in Cycles :
       DOMAIN graph[c] = Nodes /\ \A n \in Nodes : WholeHistory(n, graph[c][n])

\* ThresholdsFollow, strengthened until every step preserves it: a process alone
\* compares with the newest snapshot, and its nodes follow it in every stage.
Following(c) ==
  /\ \A n \in Nodes : FirstNode(n) /\ Reg(n) \in DOMAIN known =>
       graph[c][n].threshold \in {Field(known, Reg(n), f) : f \in Fields}
  /\ pc[c] # "idle" => fetched[c] \in Contents
  /\ pc[c] = "compare" => base[c] = known
  /\ \A d \in Demos : pc[d] = "idle"

FollowInv ==
  /\ site \in Contents
  /\ DOMAIN pc = Cycles /\ DOMAIN base = Cycles
  /\ DOMAIN fetched = Cycles /\ DOMAIN graph = Cycles
  /\ \A c \in Cycles : DOMAIN graph[c] = Nodes
  /\ faults \in Nat /\ triggers \in Nat
  /\ \A c \in Pollers : Alone(c) => Following(c)

\* The README: COCE "maps detected changes to affected businesses &
\* obligations".  A business that a change gave an obligation has an alert of
\* that change.  (Not so: the two are computed from different graphs.)
ObligatedAreAlerted ==
  \A b \in Businesses, n \in Nodes, c \in Cycles :
    rows[c][<<b, n>>] > 0 /\ resets = 0 => <<b, Reg(n)>> \in alerts
=============================================================================

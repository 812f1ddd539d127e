------------------------ MODULE RegulationImpactProofs ------------------------
(***************************************************************************)
(* For every graph, set of businesses, set of contents and number of       *)
(* cycles: overlapping cascades give a business at most one row for a node *)
(* each, and none of them leaves a business out; the history of a node     *)
(* leads back to the one that was built; a process alone never falls       *)
(* behind what was published.  The invariants are CascadeInv, HistoryInv   *)
(* and FollowInv of RegulationImpact.                                      *)
(***************************************************************************)
EXTENDS RegulationImpact, FiniteSums, SequenceTheorems, TLAPS

Stages == {"idle", "fetched", "compare", "alert", "cascade", "done"}

\* Between its selection and its end, the cycle d keeps what it found.
Same(d) ==
  base'[d] = base[d] /\ fetched'[d] = fetched[d]

\* A row that is there stays there when no count gets smaller.
LEMMA HasRowKept ==
  ASSUME NEW b \in Businesses, NEW r, HasRow(b, r),
         rows \in [Cycles -> [Businesses \X Nodes -> Nat]],
         rows' \in [Cycles -> [Businesses \X Nodes -> Nat]],
         \A e \in Businesses \X Nodes, d \in Cycles : rows'[d][e] >= rows[d][e]
  PROVE  HasRow(b, r)'
<1>1. CASE <<b, r>> \in Registered
  BY <1>1 DEF HasRow
<1>2. CASE \E n \in Nodes, c \in Cycles : Reg(n) = r /\ rows[c][<<b, n>>] > 0
  <2>1. PICK n \in Nodes, c \in Cycles : Reg(n) = r /\ rows[c][<<b, n>>] > 0
    BY <1>2
  <2>2. rows'[c][<<b, n>>] >= rows[c][<<b, n>>]
    OBVIOUS
  <2>3. rows'[c][<<b, n>>] \in Nat /\ rows[c][<<b, n>>] \in Nat
    OBVIOUS
  <2>4. rows'[c][<<b, n>>] > 0
    BY <2>1, <2>2, <2>3
  <2> QED BY <2>1, <2>4 DEF HasRow, Reg, Nodes
<1> QED BY <1>1, <1>2 DEF HasRow

\* What one commit of the cascade does to the rows.
LEMMA StoreRowsEffect ==
  ASSUME NEW c \in Cycles, StoreRows(c), CascadeTyped
  PROVE  /\ rows' \in [Cycles -> [Businesses \X Nodes -> Nat]]
         /\ \A d \in Cycles \ {c} : rows'[d] = rows[d]
         /\ \A e \in Businesses \X Nodes :
              rows'[c][e] = IF e \in adding[c] THEN rows[c][e] + 1 ELSE rows[c][e]
BY DEF StoreRows, CascadeTyped

\* The frame of every step that lets no business out of a cascade's sight.
LEMMA CascadeFrame ==
  ASSUME CascadeInv, CascadeTyped', resets' = resets,
         \A e \in Businesses \X Nodes, d \in Cycles : rows'[d][e] >= rows[d][e],
         \A d \in Cycles : pc'[d] = "cascade" =>
           pc[d] = "cascade" /\ Same(d) /\ left'[d] = left[d] /\ adding'[d] = adding[d],
         \A d \in Cycles : pc'[d] = "done" => pc[d] = "done" /\ Same(d)
  PROVE  DealtWith' /\ CascadeComplete'
<1>1. DealtWith'
  <2> SUFFICES ASSUME NEW c \in Cycles, pc'[c] = "cascade", resets' = 0,
                      NEW b \in Businesses \ left'[c], NEW n \in Applicable(b),
                      Reg(n) \in Changes(c)', ~(<<b, n>> \in adding'[c])
               PROVE  HasRow(b, Reg(n))'
    BY DEF DealtWith
  <2>1. pc[c] = "cascade" /\ Same(c) /\ left'[c] = left[c] /\ adding'[c] = adding[c]
    OBVIOUS
  <2>2. Reg(n) \in Changes(c)
    BY <2>1 DEF Same, Changes
  <2>3. HasRow(b, Reg(n))
    BY <2>1, <2>2 DEF CascadeInv, DealtWith
  <2> QED BY <2>3, HasRowKept DEF CascadeInv, CascadeTyped
<1>2. CascadeComplete'
  <2> SUFFICES ASSUME NEW c \in Cycles, pc'[c] = "done", resets' = 0,
                      NEW b \in Businesses, NEW n \in Applicable(b), Reg(n) \in Changes(c)'
               PROVE  HasRow(b, Reg(n))'
    BY DEF CascadeComplete
  <2>1. pc[c] = "done" /\ Same(c)
    OBVIOUS
  <2>2. Reg(n) \in Changes(c)
    BY <2>1 DEF Same, Changes
  <2>3. HasRow(b, Reg(n))
    BY <2>1, <2>2 DEF CascadeInv, CascadeComplete
  <2> QED BY <2>3, HasRowKept DEF CascadeInv, CascadeTyped
<1> QED BY <1>1, <1>2

\* A step that leaves the rows, and enters neither stage of the cascade.
LEMMA QuietStep ==
  ASSUME CascadeInv, CascadeTyped', UNCHANGED <<rows, resets>>,
         \A d \in Cycles : adding'[d] # {} => adding'[d] = adding[d] /\ pc'[d] = pc[d],
         \A d \in Cycles : pc'[d] = "cascade" =>
           pc[d] = "cascade" /\ Same(d) /\ left'[d] = left[d] /\ adding'[d] = adding[d],
         \A d \in Cycles : pc'[d] = "done" => pc[d] = "done" /\ Same(d)
  PROVE  CascadeInv'
<1>1. \A e \in Businesses \X Nodes, d \in Cycles : rows'[d][e] >= rows[d][e]
  BY DEF CascadeInv, CascadeTyped
<1>2. DealtWith' /\ CascadeComplete'
  BY <1>1, CascadeFrame
<1>3. AddedHasNoRow'
  BY DEF AddedHasNoRow, CascadeInv
<1>4. OncePerCycle'
  BY DEF OncePerCycle, CascadeInv
<1> QED BY <1>2, <1>3, <1>4 DEF CascadeInv

\* A cycle that is in no cascade has added nothing.
LEMMA NothingAdded ==
  ASSUME CascadeInv, NEW c \in Cycles, pc[c] # "cascade"
  PROVE  adding[c] = {}
<1>1. adding[c] \subseteq Businesses \X Nodes
  BY DEF CascadeInv, CascadeTyped
<1>2. ASSUME NEW e \in adding[c] PROVE FALSE
  BY <1>1, <1>2 DEF CascadeInv, AddedHasNoRow
<1> QED BY <1>2

LEMMA InitCascade == Init => CascadeInv
BY DEF Init, CascadeInv, CascadeTyped, AddedHasNoRow, OncePerCycle, DealtWith, CascadeComplete

\* The cycle's locals are dropped and what it added is rolled back.
LEMMA LeaveQuietly ==
  ASSUME CascadeInv, NEW c \in Cycles, Leave(c), UNCHANGED <<rows, resets>>
  PROVE  CascadeInv'
<1>1. CascadeTyped'
  BY DEF CascadeInv, CascadeTyped, Leave, Forget
<1>2. ASSUME NEW d \in Cycles, d # c
      PROVE  pc'[d] = pc[d] /\ Same(d) /\ left'[d] = left[d] /\ adding'[d] = adding[d]
  BY <1>2 DEF Leave, Forget, Same, CascadeInv, CascadeTyped
<1>3. pc'[c] = "idle" /\ adding'[c] = {}
  BY DEF Leave, Forget, CascadeInv, CascadeTyped
<1> QED BY <1>1, <1>2, <1>3, QuietStep

\* Only the portal, or something no cascade looks at, changes.
LEMMA OutsideCascade ==
  ASSUME CascadeInv, UNCHANGED <<pc, base, fetched, left, adding, rows, resets>>
  PROVE  CascadeInv'
<1>1. CascadeTyped'
  BY DEF CascadeInv, CascadeTyped
<1> QED BY <1>1, QuietStep DEF Same

\* A cycle goes from one stage before the cascade to the next.
LEMMA BeforeCascade ==
  ASSUME CascadeInv, NEW c \in Cycles, NEW from, NEW to, Goto(c, from, to),
         from \in {"idle", "fetched", "compare"}, to \in {"fetched", "compare", "alert"},
         DOMAIN base' = Cycles, DOMAIN fetched' = Cycles,
         \A d \in Cycles : d # c => Same(d),
         UNCHANGED <<left, adding, rows, resets>>
  PROVE  CascadeInv'
<1>1. CascadeTyped'
  BY DEF CascadeInv, CascadeTyped, Goto
<1>2. adding[c] = {}
  BY NothingAdded DEF Goto
<1>3. pc'[c] = to /\ \A d \in Cycles : d # c => pc'[d] = pc[d]
  BY DEF Goto, CascadeInv, CascadeTyped
<1> QED BY <1>1, <1>2, <1>3, QuietStep

LEMMA SendAlertsStep ==
  ASSUME CascadeInv, NEW c \in Cycles, SendAlerts(c)
  PROVE  CascadeInv'
<1>0. /\ pc' = [pc EXCEPT ![c] = IF Changes(c) = {} THEN "done" ELSE "cascade"]
      /\ left' = [left EXCEPT ![c] = IF Changes(c) = {} THEN {} ELSE Businesses]
      /\ UNCHANGED <<base, fetched, adding, rows, resets>>
  BY DEF SendAlerts, Goto, history
<1>1. CascadeTyped'
  <2>1. pc' \in [Cycles -> {"idle", "fetched", "compare", "alert", "cascade", "done"}]
    BY <1>0 DEF CascadeInv, CascadeTyped
  <2>2. left' \in [Cycles -> SUBSET Businesses]
    BY <1>0 DEF CascadeInv, CascadeTyped
  <2> QED BY <1>0, <2>1, <2>2 DEF CascadeInv, CascadeTyped
<1>2. adding[c] = {}
  BY NothingAdded DEF SendAlerts, Goto
<1>3. UNCHANGED <<base, fetched, adding, rows, resets>>
  BY DEF SendAlerts, history
<1>4. ASSUME NEW d \in Cycles, d # c PROVE pc'[d] = pc[d] /\ left'[d] = left[d]
  BY <1>4 DEF SendAlerts, Goto, CascadeInv, CascadeTyped
<1>5. /\ pc'[c] = "done" => Changes(c) = {}
      /\ pc'[c] = "cascade" => left'[c] = Businesses
      /\ pc'[c] \in {"done", "cascade"}
  BY DEF SendAlerts, Goto, CascadeInv, CascadeTyped
<1>6. \A d \in Cycles : Changes(d)' = Changes(d)
  BY <1>3 DEF Changes
<1>7. \A b \in Businesses : \A r : HasRow(b, r) => HasRow(b, r)'
  BY <1>3 DEF HasRow
<1>8. AddedHasNoRow' /\ OncePerCycle'
  BY <1>2, <1>3, <1>4 DEF AddedHasNoRow, OncePerCycle, CascadeInv
<1>9. DealtWith'
  BY <1>3, <1>4, <1>5, <1>6, <1>7 DEF DealtWith, CascadeInv
<1>10. CascadeComplete'
  BY <1>3, <1>4, <1>5, <1>6, <1>7 DEF CascadeComplete, CascadeInv
<1> QED BY <1>1, <1>8, <1>9, <1>10 DEF CascadeInv

\* What b's turn adds are nodes it has no row for, and all of those that changed.
LEMMA CascadeToStep ==
  ASSUME CascadeInv, NEW c \in Cycles, NEW b \in Businesses, CascadeTo(c, b)
  PROVE  CascadeInv'
<1> DEFINE new == {<<b, n>> : n \in {m \in Applicable(b) :
                     Reg(m) \in Changes(c) /\ Reg(m) \notin Current(b)}}
<1>1. UNCHANGED <<pc, base, fetched, rows, resets>> /\ pc[c] = "cascade"
  BY DEF CascadeTo, history
<1>2. /\ adding' = [adding EXCEPT ![c] = @ \cup new]
      /\ left' = [left EXCEPT ![c] = @ \ {b}]
  BY DEF CascadeTo
<1>3. new \subseteq Businesses \X Nodes
  BY DEF Applicable
<1>4. /\ adding'[c] = adding[c] \cup new
      /\ left'[c] = left[c] \ {b}
      /\ \A d \in Cycles : d # c => adding'[d] = adding[d] /\ left'[d] = left[d]
  BY <1>2 DEF CascadeInv, CascadeTyped
<1>5. CascadeTyped'
  BY <1>1, <1>2, <1>3 DEF CascadeInv, CascadeTyped
<1>6. ASSUME NEW e \in new PROVE rows[c][e] = 0
  <2>1. PICK n \in Applicable(b) : e = <<b, n>> /\ Reg(n) \notin Current(b)
    OBVIOUS
  <2>2. n \in Nodes
    BY DEF Applicable
  <2>3. ~(rows[c][<<b, n>>] > 0)
    BY <2>1, <2>2 DEF Current
  <2>4. rows[c][<<b, n>>] \in Nat
    BY <2>2 DEF CascadeInv, CascadeTyped
  <2> QED BY <2>1, <2>3, <2>4
<1>7. AddedHasNoRow'
  BY <1>1, <1>4, <1>6 DEF AddedHasNoRow, CascadeInv
<1>8. OncePerCycle'
  BY <1>1 DEF OncePerCycle, CascadeInv
<1>9. \A d \in Cycles : Changes(d)' = Changes(d)
  BY <1>1 DEF Changes
<1>10. \A a \in Businesses : \A r : HasRow(a, r)' <=> HasRow(a, r)
  BY <1>1 DEF HasRow
<1>11. CascadeComplete'
  BY <1>1, <1>9, <1>10 DEF CascadeComplete, CascadeInv
<1>12. DealtWith'
  <2> SUFFICES ASSUME NEW d \in Cycles, pc'[d] = "cascade", resets' = 0,
                      NEW a \in Businesses \ left'[d], NEW n \in Applicable(a),
                      Reg(n) \in Changes(d)', ~(<<a, n>> \in adding'[d])
               PROVE  HasRow(a, Reg(n))'
    BY DEF DealtWith
  <2>1. Reg(n) \in Changes(d) /\ ~(<<a, n>> \in adding[d])
    BY <1>4, <1>9
  <2>2. CASE a \notin left[d]
    <3>1. HasRow(a, Reg(n))
      BY <1>1, <2>1, <2>2 DEF CascadeInv, DealtWith
    <3> QED BY <3>1, <1>10
  <2>3. CASE d = c /\ a = b
    <3>1. Reg(n) \in Current(b)
      BY <1>4, <2>1, <2>3
    <3>2. HasRow(b, Reg(n))
      BY <3>1 DEF Current, HasRow
    <3> QED BY <3>2, <2>3, <1>10
  <2> QED BY <2>2, <2>3, <1>4
<1> QED BY <1>5, <1>7, <1>8, <1>11, <1>12 DEF CascadeInv

\* What is committed had no row, so no count passes one; the cycle's own
\* additions become rows, and nobody else's.
LEMMA StoreRowsKeeps ==
  ASSUME CascadeInv, NEW c \in Cycles, StoreRows(c)
  PROVE  /\ rows' \in [Cycles -> [Businesses \X Nodes -> Nat]]
         /\ OncePerCycle'
         /\ \A d \in Cycles : d # c => rows'[d] = rows[d]
         /\ \A e \in Businesses \X Nodes, d \in Cycles : rows'[d][e] >= rows[d][e]
         /\ \A e \in adding[c] : rows'[c][e] > 0
<1>1. /\ rows' \in [Cycles -> [Businesses \X Nodes -> Nat]]
      /\ \A d \in Cycles \ {c} : rows'[d] = rows[d]
      /\ \A e \in Businesses \X Nodes :
           rows'[c][e] = IF e \in adding[c] THEN rows[c][e] + 1 ELSE rows[c][e]
  BY StoreRowsEffect DEF CascadeInv
<1>2. \A d \in Cycles, e \in Businesses \X Nodes : rows[d][e] \in Nat /\ rows[d][e] <= 1
  BY DEF CascadeInv, CascadeTyped, OncePerCycle
<1>3. \A e \in adding[c] : e \in Businesses \X Nodes /\ rows[c][e] = 0
  BY DEF CascadeInv, CascadeTyped, AddedHasNoRow
<1>4. ASSUME NEW d \in Cycles, NEW e \in Businesses \X Nodes PROVE rows'[d][e] <= 1
  BY <1>1, <1>2, <1>3
<1>5. ASSUME NEW d \in Cycles, NEW e \in Businesses \X Nodes PROVE rows'[d][e] >= rows[d][e]
  BY <1>1, <1>2, <1>3
<1>6. \A e \in adding[c] : rows'[c][e] > 0
  BY <1>1, <1>3
<1> QED BY <1>1, <1>4, <1>5, <1>6 DEF OncePerCycle

\* A cascade that has looked at every business commits: each business it applies
\* to had a row, or gets the one that was added.
LEMMA CascadeCommitStep ==
  ASSUME CascadeInv, NEW c \in Cycles, CascadeCommit(c)
  PROVE  CascadeInv'
<1>1. /\ pc[c] = "cascade" /\ left[c] = {} /\ StoreRows(c)
      /\ pc' = [pc EXCEPT ![c] = "done"] /\ adding' = [adding EXCEPT ![c] = {}]
      /\ UNCHANGED <<base, fetched, left, resets>>
  BY DEF CascadeCommit, Goto, history
<1>2. CascadeTyped'
  BY <1>1, StoreRowsKeeps DEF CascadeInv, CascadeTyped
<1>3. /\ pc'[c] = "done" /\ adding'[c] = {}
      /\ \A d \in Cycles : d # c => pc'[d] = pc[d] /\ adding'[d] = adding[d]
  BY <1>1 DEF CascadeInv, CascadeTyped
<1>4. AddedHasNoRow'
  BY <1>1, <1>3, StoreRowsKeeps DEF AddedHasNoRow, CascadeInv
<1>5. \A d \in Cycles : Changes(d)' = Changes(d)
  BY <1>1 DEF Changes
<1>6. \A b \in Businesses : \A r : HasRow(b, r) => HasRow(b, r)'
  BY <1>1, <1>2, StoreRowsKeeps, HasRowKept DEF CascadeInv, CascadeTyped
<1>7. DealtWith'
  BY <1>1, <1>3, <1>5, <1>6 DEF DealtWith, CascadeInv
<1>8. CascadeComplete'
  <2> SUFFICES ASSUME NEW d \in Cycles, pc'[d] = "done", resets' = 0,
                      NEW b \in Businesses, NEW n \in Applicable(b), Reg(n) \in Changes(d)'
               PROVE  HasRow(b, Reg(n))'
    BY DEF CascadeComplete
  <2>1. CASE d # c
    <3>1. HasRow(b, Reg(n))
      BY <1>1, <1>3, <1>5, <2>1 DEF CascadeInv, CascadeComplete
    <3> QED BY <3>1, <1>6
  <2>2. CASE d = c
    <3>1. HasRow(b, Reg(n)) \/ <<b, n>> \in adding[c]
      BY <1>1, <1>5, <2>2 DEF CascadeInv, DealtWith
    <3>2. ASSUME <<b, n>> \in adding[c] PROVE HasRow(b, Reg(n))'
      <4>1. rows'[c][<<b, n>>] > 0
        BY <1>1, <3>2, StoreRowsKeeps
      <4>2. n \in Nodes
        BY DEF Applicable
      <4> QED BY <4>1, <4>2 DEF HasRow
    <3> QED BY <3>1, <3>2, <1>6
  <2> QED BY <2>1, <2>2
<1> QED BY <1>1, <1>2, <1>4, <1>7, <1>8, StoreRowsKeeps DEF CascadeInv

\* A cycle that ends in the middle: its commit was applied, or was not.
LEMMA BreakOffStep ==
  ASSUME CascadeInv, NEW c \in Cycles, BreakOff(c)
  PROVE  CascadeInv'
<1>1. Leave(c) /\ resets' = resets /\ (UNCHANGED rows \/ StoreRows(c))
  BY DEF BreakOff
<1>2. CASE UNCHANGED rows
  BY <1>1, <1>2, LeaveQuietly
<1>3. CASE StoreRows(c)
  <2>1. /\ pc'[c] = "idle" /\ adding'[c] = {}
        /\ \A d \in Cycles : d # c =>
             pc'[d] = pc[d] /\ Same(d) /\ left'[d] = left[d] /\ adding'[d] = adding[d]
    BY <1>1 DEF Leave, Forget, Same, CascadeInv, CascadeTyped
  <2>2. CascadeTyped'
    BY <1>1, <1>3, StoreRowsKeeps DEF Leave, Forget, CascadeInv, CascadeTyped
  <2>3. AddedHasNoRow'
    BY <1>3, <2>1, StoreRowsKeeps DEF AddedHasNoRow, CascadeInv
  <2>4. DealtWith' /\ CascadeComplete'
    BY <1>1, <1>3, <2>1, <2>2, StoreRowsKeeps, CascadeFrame
  <2> QED BY <1>3, <2>2, <2>3, <2>4, StoreRowsKeeps DEF CascadeInv
<1> QED BY <1>1, <1>2, <1>3

\* After a reset the claims about complete cascades are void, and no row is left.
LEMMA ResetDemoStep ==
  ASSUME CascadeInv, ResetDemo
  PROVE  CascadeInv'
<1>1. /\ rows' = [c \in Cycles |-> [e \in Businesses \X Nodes |-> 0]]
      /\ resets' = resets + 1 /\ UNCHANGED <<pc, base, fetched, left, adding>>
  BY DEF ResetDemo, work
<1>2. resets' # 0 /\ CascadeTyped'
  BY <1>1 DEF CascadeInv, CascadeTyped
<1>3. AddedHasNoRow' /\ OncePerCycle'
  BY <1>1 DEF AddedHasNoRow, OncePerCycle, CascadeInv, CascadeTyped
<1> QED BY <1>2, <1>3 DEF CascadeInv, DealtWith, CascadeComplete

\* CascadeInv holds in every state of every instance: regulations change, cycles
\* overlap, fail and restart, and demo resets delete the rows in between.
THEOREM CascadeInvariance == Spec => []CascadeInv
<1>1. CascadeInv /\ [Next]_vars => CascadeInv'
  <2> SUFFICES ASSUME CascadeInv, [Next]_vars PROVE CascadeInv'
    OBVIOUS
  <2>1. CASE Publish
    BY <2>1, OutsideCascade DEF Publish, work
  <2>2. CASE ResetDemo
    BY <2>2, ResetDemoStep
  <2>3. ASSUME NEW c \in Pollers, Poll(c) PROVE CascadeInv'
    <3>1. /\ c \in Cycles /\ Goto(c, "idle", "fetched")
          /\ DOMAIN base' = Cycles /\ DOMAIN fetched' = Cycles
          /\ \A d \in Cycles : d # c => Same(d)
          /\ UNCHANGED <<left, adding, rows, resets>>
      BY <2>3 DEF Poll, Cycles, Same, history, CascadeInv, CascadeTyped
    <3> QED BY <3>1, BeforeCascade
  <2>4. ASSUME NEW c \in Demos, Trigger(c) PROVE CascadeInv'
    <3>1. PICK v : fetched' = [fetched EXCEPT ![c] = v]
      BY <2>4 DEF Trigger
    <3>2. /\ c \in Cycles /\ Goto(c, "idle", "fetched")
          /\ UNCHANGED <<base, left, adding, rows, resets>>
      BY <2>4 DEF Trigger, Cycles
    <3>3. /\ DOMAIN base' = Cycles /\ DOMAIN fetched' = Cycles
          /\ \A d \in Cycles : d # c => Same(d)
      BY <3>1, <3>2 DEF Same, CascadeInv, CascadeTyped
    <3> QED BY <3>2, <3>3, BeforeCascade
  <2>5. ASSUME NEW c \in Cycles, Proceed(c) PROVE CascadeInv'
    <3>1. CASE SelectKnown(c)
      <4>1. /\ Goto(c, "fetched", "compare")
            /\ DOMAIN base' = Cycles /\ DOMAIN fetched' = Cycles
            /\ \A d \in Cycles : d # c => Same(d)
            /\ UNCHANGED <<left, adding, rows, resets>>
        BY <3>1 DEF SelectKnown, Same, history, CascadeInv, CascadeTyped
      <4> QED BY <4>1, BeforeCascade
    <3>2. CASE Unchanged(c)
      BY <3>2, LeaveQuietly DEF Unchanged, history
    <3>3. CASE Assess(c)
      <4>1. /\ Goto(c, "compare", "alert")
            /\ UNCHANGED <<base, fetched, left, adding, rows, resets>>
        BY <3>3 DEF Assess, history
      <4>2. DOMAIN base' = Cycles /\ DOMAIN fetched' = Cycles /\ \A d \in Cycles : Same(d)
        BY <4>1 DEF Same, CascadeInv, CascadeTyped
      <4> QED BY <4>1, <4>2, BeforeCascade
    <3>4. CASE AssessRaises(c)
      BY <3>4, LeaveQuietly DEF AssessRaises, history
    <3>5. CASE SendAlerts(c)
      BY <3>5, SendAlertsStep
    <3>6. CASE \E b \in Businesses : CascadeTo(c, b)
      BY <3>6, CascadeToStep
    <3>7. CASE CascadeCommit(c)
      BY <3>7, CascadeCommitStep
    <3>8. CASE Finish(c)
      BY <3>8, LeaveQuietly DEF Finish, history
    <3> QED BY <2>5, <3>1, <3>2, <3>3, <3>4, <3>5, <3>6, <3>7, <3>8 DEF Proceed
  <2>6. ASSUME NEW c \in Cycles, Fails(c) PROVE CascadeInv'
    BY <2>6, BreakOffStep DEF Fails
  <2>7. ASSUME NEW c \in Cycles, Restart(c) PROVE CascadeInv'
    BY <2>7, BreakOffStep DEF Restart
  <2>8. CASE UNCHANGED vars
    BY <2>8, OutsideCascade DEF vars
  <2> QED BY <2>1, <2>2, <2>3, <2>4, <2>5, <2>6, <2>7, <2>8 DEF Next
<1> QED BY <1>1, InitCascade, PTL DEF Spec

\* At most one row of a node for a business from each cycle, for ever.
THEOREM OncePerCycleHolds == Spec => []OncePerCycle
<1>1. CascadeInv => OncePerCycle
  BY DEF CascadeInv
<1> QED BY <1>1, CascadeInvariance, PTL

\* A cascade that is done has left no business out, whoever ran beside it.
THEOREM CascadeCompleteHolds == Spec => []CascadeComplete
<1>1. CascadeInv => CascadeComplete
  BY DEF CascadeInv
<1> QED BY <1>1, CascadeInvariance, PTL

-----------------------------------------------------------------------------
(***************************************************************************)
(* update_obligation_graph's loop over the sorted fields.  Its fold is a   *)
(* recursive function on the sets of positions: there is one.              *)
(***************************************************************************)
Positions == DOMAIN FieldSeq

\* What the fold's local function is.
Loops(it, s, old, new, r, S) ==
  it = [T \in SUBSET S |->
          IF T = {} THEN s ELSE ApplyField(it[T \ {Max(T)}], old, new, r, FieldSeq[Max(T)])]

LEMMA PositionsFinite == Positions \subseteq Nat /\ IsFiniteSet(Positions)
<1>1. Len(FieldSeq) \in Nat /\ Positions = 1 .. Len(FieldSeq)
  BY ImpactAssumption DEF Positions
<1> QED BY <1>1, FS_Interval

LEMMA PositionInField == \A i \in Positions : FieldSeq[i] \in Fields
BY DEF Positions, Fields, Range

LEMMA LastIn ==
  ASSUME NEW T \in SUBSET Positions, T # {}
  PROVE  Max(T) \in T
<1>1. Len(FieldSeq) \in Nat /\ Positions = 1 .. Len(FieldSeq)
  BY ImpactAssumption DEF Positions
<1>2. T \subseteq Nat /\ \A n \in T : n <= Len(FieldSeq)
  BY <1>1
<1>3. PICK n \in T : \A m \in T : m <= n
  BY <1>1, <1>2, LargestNumber
<1>4. n >= n /\ \A m \in T : n >= m
  BY <1>2, <1>3
<1> QED BY <1>4 DEF Max

LEMMA SameLoop ==
  ASSUME NEW S \in SUBSET Positions, NEW A, NEW B, S \subseteq A, S \subseteq B,
         NEW s, NEW old, NEW new, NEW r, NEW a, NEW b,
         Loops(a, s, old, new, r, A), Loops(b, s, old, new, r, B)
  PROVE  a[S] = b[S]
<1> DEFINE Bad == {T \in SUBSET S : a[T] # b[T]}
<1> SUFFICES ASSUME Bad # {} PROVE FALSE
  OBVIOUS
<1>1. PICK T \in Bad : \A x \in T : T \ {x} \notin Bad
  <2> HIDE DEF Bad
  <2>1. Bad \subseteq SUBSET S /\ IsFiniteSet(S)
    BY PositionsFinite, FS_Subset DEF Bad
  <2> QED
    BY <2>1, SmallestSet
<1>2. /\ a[T] = IF T = {} THEN s ELSE ApplyField(a[T \ {Max(T)}], old, new, r, FieldSeq[Max(T)])
      /\ b[T] = IF T = {} THEN s ELSE ApplyField(b[T \ {Max(T)}], old, new, r, FieldSeq[Max(T)])
  BY DEF Loops
<1>3. T # {}
  BY <1>2
<1>4. Max(T) \in T
  BY <1>3, LastIn
<1>5. a[T \ {Max(T)}] = b[T \ {Max(T)}]
  BY <1>1, <1>4
<1> QED
  BY <1>2, <1>5

LEMMA LoopExists ==
  ASSUME NEW s, NEW old, NEW new, NEW r
  PROVE  \E it : Loops(it, s, old, new, r, Positions)
<1> DEFINE Sol(it, S) == Loops(it, s, old, new, r, S)
           Bad == {S \in SUBSET Positions : ~ \E it : Sol(it, S)}
<1> SUFFICES ASSUME Bad # {} PROVE FALSE
  OBVIOUS
<1> DEFINE V(S) == CHOOSE it : Sol(it, S)
           Step(v, T) == ApplyField(v, old, new, r, FieldSeq[Max(T)])
<1>1. PICK T \in Bad : \A x \in T : T \ {x} \notin Bad
  <2> HIDE DEF Bad
  <2>1. Bad \subseteq SUBSET Positions
    BY DEF Bad
  <2> QED
    BY <2>1, SmallestSet, PositionsFinite
<1>0. \A S, it : Sol(it, S) <=>
           it = [U \in SUBSET S |-> IF U = {} THEN s ELSE Step(it[U \ {Max(U)}], U)]
  BY DEF Loops
<1>m. \A S \in SUBSET T : S # {} => Max(S) \in S
  BY LastIn
<1> HIDE DEF Step
<1>2. \A S \in SUBSET T : S # T => Sol(V(S), S)
  <2> SUFFICES ASSUME NEW S \in SUBSET T, S # T PROVE \E it : Sol(it, S)
    OBVIOUS
  <2>1. PICK x \in T : x \notin S
    OBVIOUS
  <2>2. PICK it : Sol(it, T \ {x})
    BY <1>1
  <2> DEFINE jt == [U \in SUBSET S |-> it[U]]
  <2>3. Sol(jt, S)
    <3> HIDE DEF Sol
    <3>1. \A U \in SUBSET S : U \ {Max(U)} \in SUBSET S
      OBVIOUS
    <3>2. S \subseteq T \ {x}
      BY <2>1
    <3>3. it = [U \in SUBSET (T \ {x}) |-> IF U = {} THEN s ELSE Step(it[U \ {Max(U)}], U)]
      BY <1>0, <2>2
    <3>4. \A U \in SUBSET S : it[U] = IF U = {} THEN s ELSE Step(it[U \ {Max(U)}], U)
      BY <3>2, <3>3
    <3>5. jt = [U \in SUBSET S |-> IF U = {} THEN s ELSE Step(jt[U \ {Max(U)}], U)]
      BY <3>1, <3>4
    <3> QED
      BY <1>0, <3>5
  <2> QED
    BY <2>3
<1>4. \A S \in SUBSET T : S # T /\ S # {} => V(S)[S \ {Max(S)}] = V(S \ {Max(S)})[S \ {Max(S)}]
  <2> SUFFICES ASSUME NEW S \in SUBSET T, S # T, S # {}
               PROVE  V(S)[S \ {Max(S)}] = V(S \ {Max(S)})[S \ {Max(S)}]
    OBVIOUS
  <2> DEFINE u == S \ {Max(S)}
  <2>1. u \in SUBSET T /\ u # T /\ u \subseteq S /\ u \in SUBSET Positions
    OBVIOUS
  <2>2. Loops(V(S), s, old, new, r, S) /\ Loops(V(u), s, old, new, r, u)
    BY <1>2, <2>1
  <2> HIDE DEF u, V
  <2>3. V(S)[u] = V(u)[u]
    BY <2>1, <2>2, SameLoop
  <2> QED
    BY <2>3 DEF u
<1> DEFINE W(S) == IF S = {} THEN s ELSE Step(V(S \ {Max(S)})[S \ {Max(S)}], S)
           it == [S \in SUBSET T |-> W(S)]
<1> HIDE DEF Sol
<1>5. \A S \in SUBSET T : S # {} => V(S \ {Max(S)})[S \ {Max(S)}] = W(S \ {Max(S)})
  <2> SUFFICES ASSUME NEW S \in SUBSET T, S # {}
               PROVE  V(S \ {Max(S)})[S \ {Max(S)}] = W(S \ {Max(S)})
    OBVIOUS
  <2> DEFINE u == S \ {Max(S)}
  <2>1. u \in SUBSET T /\ u # T
    BY <1>m
  <2>2. Sol(V(u), u)
    BY <1>2, <2>1
  <2>3. V(u)[u] = IF u = {} THEN s ELSE Step(V(u)[u \ {Max(u)}], u)
    <3> HIDE DEF V, u
    <3>1. V(u) = [U \in SUBSET u |-> IF U = {} THEN s ELSE Step(V(u)[U \ {Max(U)}], U)]
      BY <1>0, <2>2
    <3> QED BY <3>1
  <2>4. u # {} => V(u)[u \ {Max(u)}] = V(u \ {Max(u)})[u \ {Max(u)}]
    BY <1>4, <2>1
  <2> HIDE DEF V, u
  <2>5. V(u)[u] = W(u)
    BY <2>3, <2>4
  <2> QED
    BY <2>5 DEF u
<1>6. \A S \in SUBSET T : it[S] = IF S = {} THEN s ELSE Step(it[S \ {Max(S)}], S)
  <2> SUFFICES ASSUME NEW S \in SUBSET T
               PROVE  it[S] = IF S = {} THEN s ELSE Step(it[S \ {Max(S)}], S)
    OBVIOUS
  <2>1. S \ {Max(S)} \in SUBSET T
    OBVIOUS
  <2>2. it[S] = W(S) /\ it[S \ {Max(S)}] = W(S \ {Max(S)})
    <3> HIDE DEF W
    <3> QED BY <2>1
  <2>3. S # {} => V(S \ {Max(S)})[S \ {Max(S)}] = W(S \ {Max(S)})
    BY <1>5
  <2> HIDE DEF V, it
  <2> QED
    BY <2>2, <2>3
<1>7. Sol(it, T)
  <2> HIDE DEF W
  <2> DEFINE R(S) == IF S = {} THEN s ELSE Step(it[S \ {Max(S)}], S)
  <2>1. it = [S \in SUBSET T |-> it[S]]
    OBVIOUS
  <2>2. \A S \in SUBSET T : it[S] = R(S)
    BY <1>6
  <2> HIDE DEF it, R
  <2>3. it = [S \in SUBSET T |-> R(S)]
    BY <2>1, <2>2
  <2> QED
    BY <1>0, <2>3 DEF R
<1> QED
  BY <1>7

LEMMA FieldsLoop ==
  ASSUME NEW s, NEW old, NEW new, NEW r
  PROVE  \E it : Loops(it, s, old, new, r, Positions) /\ ApplyFields(s, old, new, r) = it[Positions]
<1>1. ApplyFields(s, old, new, r) = (CHOOSE it : Loops(it, s, old, new, r, Positions))[Positions]
  BY DEF ApplyFields, FoldLeft, MapThenFoldSet, Loops, Positions
<1> QED
  BY <1>1, LoopExists

\* The threshold after the loop is a value of some field, or no field differs
\* and nothing was written.
LEMMA FieldsApplied ==
  ASSUME NEW s, NEW old, NEW new, NEW r
  PROVE  LET t == ApplyFields(s, old, new, r)
         IN \/ \E f \in Fields : t.threshold = Field(new, r, f)
            \/ t = s /\ \A f \in Fields : Field(old, r, f) = Field(new, r, f)
<1>1. PICK it : Loops(it, s, old, new, r, Positions) /\ ApplyFields(s, old, new, r) = it[Positions]
  BY FieldsLoop
<1> DEFINE Good(T) ==
      \/ \E f \in Fields : it[T].threshold = Field(new, r, f)
      \/ it[T] = s /\ \A i \in T : Field(old, r, FieldSeq[i]) = Field(new, r, FieldSeq[i])
<1>2. \A T \in SUBSET Positions : Good(T)
  <2> DEFINE Bad == {T \in SUBSET Positions : ~ Good(T)}
  <2> SUFFICES ASSUME Bad # {} PROVE FALSE
    OBVIOUS
  <2>1. PICK T \in Bad : \A x \in T : T \ {x} \notin Bad
    <3> HIDE DEF Bad
    <3>1. Bad \subseteq SUBSET Positions
      BY DEF Bad
    <3> QED
      BY <3>1, SmallestSet, PositionsFinite
  <2>2. it[T] = IF T = {} THEN s ELSE ApplyField(it[T \ {Max(T)}], old, new, r, FieldSeq[Max(T)])
    BY <1>1 DEF Loops
  <2>3. T # {}
    BY <2>2
  <2> DEFINE x == Max(T)
  <2>4. x \in T /\ FieldSeq[x] \in Fields
    BY <2>3, LastIn, PositionInField
  <2>5. it[T] = ApplyField(it[T \ {x}], old, new, r, FieldSeq[x])
    BY <2>2, <2>3
  <2>6. Good(T \ {x})
    BY <2>1, <2>4
  <2> HIDE DEF x
  <2>7. CASE Field(old, r, FieldSeq[x]) = Field(new, r, FieldSeq[x])
    <3>1. it[T] = it[T \ {x}]
      BY <2>5, <2>7 DEF ApplyField
    <3>2. Good(T)
      BY <2>6, <2>7, <3>1
    <3> QED BY <3>2
  <2>8. CASE Field(old, r, FieldSeq[x]) # Field(new, r, FieldSeq[x])
    <3>1. it[T].threshold = Field(new, r, FieldSeq[x])
      BY <2>5, <2>8 DEF ApplyField, UpdateNode
    <3> QED BY <2>4, <3>1
  <2> QED BY <2>7, <2>8
<1>3. Good(Positions)
  BY <1>2
<1>4. \A f \in Fields : \E i \in Positions : FieldSeq[i] = f
  BY DEF Fields, Range, Positions
<1> QED
  BY <1>1, <1>3, <1>4

LEMMA AnySequence ==
  ASSUME NEW S, NEW q \in Seq(S)
  PROVE  q \in Seq(Range(q))
<1>1. Len(q) \in Nat /\ DOMAIN q = 1 .. Len(q) /\ q = [i \in 1 .. Len(q) |-> q[i]]
  OBVIOUS
<1>2. q \in [1 .. Len(q) -> Range(q)]
  BY <1>1 DEF Range
<1> QED
  BY <1>1, <1>2, SeqDef

\* One update leaves a history whole.
LEMMA UpdateKeepsHistory ==
  ASSUME NEW n, NEW s, WholeHistory(n, s), NEW v
  PROVE  WholeHistory(n, UpdateNode(s, v))
<1> DEFINE e == [version |-> s.version, threshold |-> s.threshold]
           h == s.history
           R == Range(h)
<1> HIDE DEF e, h, R
<1>1. h \in Seq(R) /\ Len(h) \in Nat /\ s.version = Len(h) + 1
  BY DEF WholeHistory, h, R
<1>2. h \in Seq(R \cup {e})
  <2>1. DOMAIN h = 1 .. Len(h) /\ \A i \in 1 .. Len(h) : h[i] \in R
    BY <1>1
  <2>2. h \in [1 .. Len(h) -> R \cup {e}]
    BY <1>1, <2>1
  <2> QED BY <1>1, <2>2, SeqDef
<1>3. Append(h, e) \in Seq(R \cup {e})
  BY <1>2
<1>4. Append(h, e) \in Seq(Range(Append(h, e)))
  BY <1>3, AnySequence
<1>5. /\ Len(Append(h, e)) = Len(h) + 1
      /\ DOMAIN Append(h, e) = 1 .. Len(h) + 1
      /\ \A i \in 1 .. Len(h) : Append(h, e)[i] = h[i]
      /\ Append(h, e)[Len(h) + 1] = e
  BY <1>2
<1>6. \A i \in DOMAIN Append(h, e) : Append(h, e)[i].version = i
  <2>1. e.version = Len(h) + 1
    BY <1>1 DEF e
  <2>2. \A i \in 1 .. Len(h) : h[i].version = i
    BY <1>1 DEF WholeHistory, h
  <2> QED BY <1>1, <1>5, <2>1, <2>2
<1>9. Append(h, e) # <<>>
  <2>1. Len(Append(h, e)) # 0 /\ Len(<<>>) = 0
    BY <1>1, <1>5
  <2> QED BY <2>1
<1>7. Append(h, e)[1].threshold = Graph[n].threshold_value
  <2>1. CASE h = <<>>
    <3>1. Append(h, e)[1] = e
      BY <1>5, <2>1
    <3>2. e.threshold = s.threshold /\ s.threshold = Graph[n].threshold_value
      BY <2>1 DEF WholeHistory, e, h
    <3> QED BY <3>1, <3>2
  <2>2. CASE h # <<>>
    <3>1. Len(h) >= 1
      BY <1>1, <2>2
    <3>2. Append(h, e)[1] = h[1]
      BY <1>1, <1>5, <3>1
    <3>3. h[1].threshold = Graph[n].threshold_value
      BY <2>2 DEF WholeHistory, h
    <3> QED BY <3>2, <3>3
  <2> QED BY <2>1, <2>2
<1>8. /\ UpdateNode(s, v).history = Append(h, e)
      /\ UpdateNode(s, v).version = Len(h) + 2
  BY <1>1 DEF UpdateNode, h, e
<1> QED
  BY <1>1, <1>4, <1>5, <1>6, <1>7, <1>8, <1>9 DEF WholeHistory

\* All the updates of a regulation leave it whole.
LEMMA LoopKeepsHistory ==
  ASSUME NEW n, NEW s, WholeHistory(n, s), NEW old, NEW new, NEW r
  PROVE  WholeHistory(n, ApplyFields(s, old, new, r))
<1>1. PICK it : Loops(it, s, old, new, r, Positions) /\ ApplyFields(s, old, new, r) = it[Positions]
  BY FieldsLoop
<1>2. \A T \in SUBSET Positions : WholeHistory(n, it[T])
  <2> DEFINE Bad == {T \in SUBSET Positions : ~ WholeHistory(n, it[T])}
  <2> SUFFICES ASSUME Bad # {} PROVE FALSE
    OBVIOUS
  <2>1. PICK T \in Bad : \A x \in T : T \ {x} \notin Bad
    <3> HIDE DEF Bad
    <3>1. Bad \subseteq SUBSET Positions
      BY DEF Bad
    <3> QED
      BY <3>1, SmallestSet, PositionsFinite
  <2>2. it[T] = IF T = {} THEN s ELSE ApplyField(it[T \ {Max(T)}], old, new, r, FieldSeq[Max(T)])
    BY <1>1 DEF Loops
  <2>3. T # {}
    BY <2>2
  <2>4. WholeHistory(n, it[T \ {Max(T)}])
    BY <2>1, <2>3, LastIn
  <2>5. it[T] = ApplyField(it[T \ {Max(T)}], old, new, r, FieldSeq[Max(T)])
    BY <2>2, <2>3
  <2>6. WholeHistory(n, it[T])
    BY <2>4, <2>5, UpdateKeepsHistory DEF ApplyField
  <2> QED BY <2>6
<1> QED
  BY <1>1, <1>2

\* A node as built has a whole, empty, history.
LEMMA FreshIsWhole ==
  ASSUME NEW n \in Nodes
  PROVE  WholeHistory(n, Fresh0[n])
<1>1. Fresh0[n].history = <<>> /\ Fresh0[n].version = 1 /\ Fresh0[n].threshold = Graph[n].threshold_value
  BY DEF Fresh0, Fresh
<1> QED
  BY <1>1 DEF WholeHistory

\* A step changes one cycle's graph: by a delta, or back to what was built.
LEMMA GraphStep ==
  ASSUME HistoryInv, [Next]_vars
  PROVE  \/ graph' = graph
         \/ \E c \in Cycles : graph' = [graph EXCEPT ![c] = Fresh0]
         \/ \E c \in Cycles : graph' = [graph EXCEPT ![c] = UpdateGraph(@, base[c], fetched[c])]
<1>1. CASE Publish \/ ResetDemo \/ UNCHANGED vars
  BY <1>1 DEF Publish, ResetDemo, vars
<1>2. CASE \E c \in Pollers : Poll(c)
  BY <1>2 DEF Poll
<1>3. ASSUME NEW c \in Demos, Trigger(c) PROVE graph' = [graph EXCEPT ![c] = Fresh0] /\ c \in Cycles
  BY <1>3 DEF Trigger, Cycles
<1>4. ASSUME NEW c \in Cycles, Proceed(c)
      PROVE  graph' = graph \/ graph' = [graph EXCEPT ![c] = UpdateGraph(@, base[c], fetched[c])]
  BY <1>4 DEF Proceed, SelectKnown, Unchanged, Assess, AssessRaises, SendAlerts, CascadeTo,
              CascadeCommit, Finish
<1>5. CASE \E c \in Cycles : Fails(c)
  BY <1>5 DEF Fails
<1>6. ASSUME NEW c \in Cycles, Restart(c) PROVE graph' = [graph EXCEPT ![c] = Fresh0]
  BY <1>6 DEF Restart
<1> QED
  BY <1>1, <1>2, <1>3, <1>4, <1>5, <1>6 DEF Next

\* However often its regulation changed, and whichever process holds the graph,
\* the history of every node is whole.
THEOREM HistoryInvariance == Spec => []HistoryInv
<1>1. Init => HistoryInv
  <2> SUFFICES ASSUME Init PROVE HistoryInv
    OBVIOUS
  <2>1. graph = [c \in Cycles |-> Fresh0] /\ DOMAIN Fresh0 = Nodes
    BY DEF Init, Fresh0
  <2> QED BY <2>1, FreshIsWhole DEF HistoryInv
<1>2. HistoryInv /\ [Next]_vars => HistoryInv'
  <2> SUFFICES ASSUME HistoryInv, [Next]_vars PROVE HistoryInv'
    OBVIOUS
  <2>1. CASE graph' = graph
    BY <2>1 DEF HistoryInv
  <2>2. ASSUME NEW c \in Cycles, graph' = [graph EXCEPT ![c] = Fresh0] PROVE HistoryInv'
    <3>1. DOMAIN Fresh0 = Nodes /\ \A n \in Nodes : WholeHistory(n, Fresh0[n])
      BY FreshIsWhole DEF Fresh0
    <3> QED BY <2>2, <3>1 DEF HistoryInv
  <2>3. ASSUME NEW c \in Cycles, graph' = [graph EXCEPT ![c] = UpdateGraph(@, base[c], fetched[c])]
        PROVE  HistoryInv'
    <3> DEFINE g == UpdateGraph(graph[c], base[c], fetched[c])
    <3>1. DOMAIN g = Nodes
      BY DEF UpdateGraph
    <3>2. \A n \in Nodes : WholeHistory(n, graph[c][n])
      BY DEF HistoryInv
    <3>3. \A n \in Nodes : WholeHistory(n, ApplyFields(graph[c][n], base[c], fetched[c], Reg(n)))
      BY <3>2, LoopKeepsHistory
    <3>4. \A n \in Nodes : WholeHistory(n, g[n])
      BY <3>2, <3>3 DEF UpdateGraph
    <3>5. graph' = [graph EXCEPT ![c] = g]
      BY <2>3
    <3> HIDE DEF g
    <3>6. DOMAIN graph' = Cycles /\ graph'[c] = g /\ \A d \in Cycles \ {c} : graph'[d] = graph[d]
      BY <3>5 DEF HistoryInv
    <3> QED BY <3>1, <3>4, <3>6 DEF HistoryInv
  <2> QED BY <2>1, <2>2, <2>3, GraphStep
<1> QED BY <1>1, <1>2, PTL DEF Spec

\* A reader of version_history can go back from the live node to the built one.
THEOREM HistoryConsistentHolds == Spec => []HistoryConsistent
<1>1. HistoryInv => HistoryConsistent
  BY DEF HistoryInv, WholeHistory, HistoryConsistent
<1> QED BY <1>1, HistoryInvariance, PTL

-----------------------------------------------------------------------------
(***************************************************************************)
(* A process alone follows what is published.                              *)
(***************************************************************************)
\* The first node of a regulation had the value of one of its fields, if the
\* regulation was known: after the update it has one of the new fields' values.
LEMMA UpdateFollows ==
  ASSUME NEW g, DOMAIN g = Nodes, NEW old, NEW new \in Contents,
         NEW n \in Nodes, FirstNode(n), Reg(n) \in DOMAIN new,
         Reg(n) \in DOMAIN old =>
           g[n].threshold \in {Field(old, Reg(n), f) : f \in Fields}
  PROVE  UpdateGraph(g, old, new)[n].threshold \in {Field(new, Reg(n), f) : f \in Fields}
<1> DEFINE r == Reg(n)
           t == ApplyFields(g[n], old, new, r)
<1>1. CASE r \in Changed(old, new)
  <2>1. UpdateGraph(g, old, new)[n] = t
    BY <1>1 DEF UpdateGraph
  <2>2. \/ \E f \in Fields : t.threshold = Field(new, r, f)
        \/ t = g[n] /\ \A f \in Fields : Field(old, r, f) = Field(new, r, f)
    BY FieldsApplied
  <2>3. CASE \E f \in Fields : t.threshold = Field(new, r, f)
    BY <2>1, <2>3
  <2>4. CASE t = g[n] /\ \A f \in Fields : Field(old, r, f) = Field(new, r, f)
    <3>1. r \in DOMAIN old
      <4>1. PICK f \in Fields : Field(new, r, f) # None
        BY ContentAssumption
      <4>2. Field(old, r, f) # None
        BY <2>4, <4>1
      <4> QED BY <4>2 DEF Field
    <3>2. PICK f \in Fields : g[n].threshold = Field(old, r, f)
      BY <3>1
    <3> QED BY <2>1, <2>4, <3>2
  <2> QED BY <2>2, <2>3, <2>4
<1>2. CASE r \notin Changed(old, new)
  <2>1. UpdateGraph(g, old, new)[n] = g[n]
    BY <1>2 DEF UpdateGraph
  <2>2. r \in DOMAIN old /\ old[r] = new[r]
    BY <1>2 DEF Changed
  <2>3. \A f \in Fields : Field(old, r, f) = Field(new, r, f)
    BY <2>2 DEF Field
  <2>4. PICK f \in Fields : g[n].threshold = Field(old, r, f)
    BY <2>2
  <2> QED BY <2>1, <2>3, <2>4
<1> QED BY <1>1, <1>2

\* The values of site, faults and triggers, and the domains, in every step.
LEMMA FollowTyped ==
  ASSUME FollowInv, [Next]_vars
  PROVE  /\ site' \in Contents
         /\ DOMAIN pc' = Cycles /\ DOMAIN base' = Cycles
         /\ DOMAIN fetched' = Cycles /\ DOMAIN graph' = Cycles
         /\ \A c \in Cycles : DOMAIN graph'[c] = Nodes
         /\ faults' \in Nat /\ triggers' \in Nat
         /\ faults' = 0 => faults = 0
         /\ triggers' = 0 => triggers = 0
<1> USE DEF FollowInv
<1>1. CASE Publish \/ ResetDemo \/ UNCHANGED vars
  BY <1>1 DEF Publish, ResetDemo, vars, work
<1>2. ASSUME NEW c \in Pollers, Poll(c)
      PROVE  /\ UNCHANGED <<site, base, graph, faults, triggers>>
             /\ DOMAIN pc' = Cycles /\ DOMAIN fetched' = Cycles
  BY <1>2 DEF Poll, Goto, history
<1>3. ASSUME NEW c \in Demos, Trigger(c)
      PROVE  /\ UNCHANGED <<site, base, faults>> /\ triggers' = triggers + 1
             /\ DOMAIN pc' = Cycles /\ DOMAIN fetched' = Cycles
             /\ graph' = [graph EXCEPT ![c] = Fresh0]
  BY <1>3 DEF Trigger, Goto
<1>4. ASSUME NEW c \in Cycles, Proceed(c)
      PROVE  /\ UNCHANGED <<site, faults, triggers>>
             /\ DOMAIN pc' = Cycles /\ DOMAIN base' = Cycles /\ DOMAIN fetched' = Cycles
             /\ \/ graph' = graph
                \/ graph' = [graph EXCEPT ![c] = UpdateGraph(@, base[c], fetched[c])]
  <2>1. CASE SelectKnown(c)
    BY <2>1 DEF SelectKnown, Goto, history
  <2>2. CASE Unchanged(c)
    BY <2>2 DEF Unchanged, Leave, Forget, history
  <2>3. CASE Assess(c)
    BY <2>3 DEF Assess, Goto, history
  <2>4. CASE AssessRaises(c)
    BY <2>4 DEF AssessRaises, Leave, Forget, history
  <2>5. CASE SendAlerts(c)
    <3>1. DOMAIN pc' = DOMAIN pc /\ UNCHANGED <<site, base, fetched, graph, faults, triggers>>
      BY <2>5 DEF SendAlerts, Goto, history
    <3> QED BY <3>1
  <2>6. CASE \E b \in Businesses : CascadeTo(c, b)
    BY <2>6 DEF CascadeTo, history
  <2>7. CASE CascadeCommit(c)
    BY <2>7 DEF CascadeCommit, Goto, history
  <2>8. CASE Finish(c)
    BY <2>8 DEF Finish, Leave, Forget, history
  <2> QED BY <1>4, <2>1, <2>2, <2>3, <2>4, <2>5, <2>6, <2>7, <2>8 DEF Proceed
<1>5. ASSUME NEW c \in Cycles, Fails(c) \/ Restart(c)
      PROVE  /\ UNCHANGED <<site, triggers>> /\ faults' = faults + 1
             /\ DOMAIN pc' = Cycles /\ DOMAIN base' = Cycles /\ DOMAIN fetched' = Cycles
             /\ graph' = graph \/ graph' = [graph EXCEPT ![c] = Fresh0]
  BY <1>5 DEF Fails, Restart, BreakOff, Fault, Leave, Forget
<1>6. DOMAIN Fresh0 = Nodes /\ \A g, old, new : DOMAIN UpdateGraph(g, old, new) = Nodes
  BY DEF Fresh0, UpdateGraph
<1>7. DOMAIN graph' = Cycles /\ \A c \in Cycles : DOMAIN graph'[c] = Nodes
  <2>1. \/ graph' = graph
        \/ \E c \in Cycles : \E g : DOMAIN g = Nodes /\ graph' = [graph EXCEPT ![c] = g]
    BY <1>1, <1>2, <1>3, <1>4, <1>5, <1>6 DEF Next, Cycles, Publish, ResetDemo, vars
  <2> QED BY <2>1
<1>8. CASE \E c \in Pollers : Poll(c)
  BY <1>2, <1>7, <1>8
<1>9. CASE \E c \in Demos : Trigger(c)
  BY <1>3, <1>7, <1>9
<1>10. CASE \E c \in Cycles : Proceed(c)
  BY <1>4, <1>7, <1>10
<1>11. CASE \E c \in Cycles : Fails(c) \/ Restart(c)
  BY <1>5, <1>7, <1>11
<1> QED BY <1>1, <1>8, <1>9, <1>10, <1>11 DEF Next

\* A step that leaves the newest snapshot, and the graph of the process.
LEMMA FollowFrame ==
  ASSUME NEW c \in Cycles, Following(c), known' = known, graph'[c] = graph[c],
         pc'[c] # "idle" => fetched'[c] \in Contents,
         pc'[c] = "compare" => base'[c] = known,
         \A d \in Demos : pc'[d] = "idle"
  PROVE  Following(c)'
BY DEF Following, Reg, FirstNode, Nodes

\* One delta, from the newest snapshot to what was fetched.
LEMMA FollowDelta ==
  ASSUME FollowInv, NEW c \in Cycles, Following(c), pc[c] = "compare",
         known' = fetched[c], graph' = [graph EXCEPT ![c] = UpdateGraph(@, base[c], fetched[c])],
         pc'[c] \in {"idle", "alert"},
         pc'[c] # "idle" => fetched'[c] = fetched[c],
         \A d \in Demos : pc'[d] = "idle"
  PROVE  Following(c)'
<1>1. fetched[c] \in Contents /\ base[c] = known
  BY DEF Following
<1>2. DOMAIN graph[c] = Nodes /\ graph'[c] = UpdateGraph(graph[c], known, fetched[c])
  BY <1>1 DEF FollowInv
<1>3. ASSUME NEW n \in Nodes, FirstNode(n), Reg(n) \in DOMAIN fetched[c]
      PROVE  graph'[c][n].threshold \in {Field(fetched[c], Reg(n), f) : f \in Fields}
  <2>1. Reg(n) \in DOMAIN known =>
          graph[c][n].threshold \in {Field(known, Reg(n), f) : f \in Fields}
    BY <1>3 DEF Following
  <2>2. PICK g : g = graph[c]
    OBVIOUS
  <2>3. PICK old : old = known
    OBVIOUS
  <2>4. PICK new \in Contents : new = fetched[c]
    BY <1>1
  <2>5. UpdateGraph(g, old, new)[n].threshold \in {Field(new, Reg(n), f) : f \in Fields}
    BY <1>2, <1>3, <2>1, <2>2, <2>3, <2>4, UpdateFollows
  <2> QED BY <1>2, <2>2, <2>3, <2>4, <2>5
<1> QED
  BY <1>1, <1>3 DEF Following, Reg, FirstNode, Nodes

\* One process polls, no demo runs, and nothing fails: its next step.
LEMMA FollowStep ==
  ASSUME FollowInv, [Next]_vars, NEW c \in Pollers, Alone(c), Alone(c)'
  PROVE  Following(c)'
<1>1. Following(c) /\ c \in Cycles /\ c \notin Demos /\ Cycles = {c} \cup Demos
  BY ImpactAssumption DEF FollowInv, Cycles, Alone
<1>2. /\ faults' = 0 /\ triggers' = 0 /\ faults = 0 /\ triggers = 0
      /\ Pollers = {c}
  BY DEF Alone
<1>3. /\ \A d \in Demos : pc[d] = "idle"
      /\ pc[c] # "idle" => fetched[c] \in Contents
  BY <1>1 DEF Following
<1>4. DOMAIN pc = Cycles /\ DOMAIN base = Cycles /\ DOMAIN fetched = Cycles /\ DOMAIN graph = Cycles
  BY DEF FollowInv
<1>5. CASE Publish \/ ResetDemo \/ UNCHANGED vars
  <2>1. UNCHANGED <<known, graph, pc, base, fetched>>
    BY <1>5 DEF Publish, ResetDemo, vars, work
  <2>2. pc'[c] = "compare" => base'[c] = known
    BY <1>1, <2>1 DEF Following
  <2> QED BY <1>1, <1>3, <2>1, <2>2, FollowFrame
<1>6. CASE Poll(c)
  <2>1. /\ known' = known /\ graph' = graph /\ fetched' = [fetched EXCEPT ![c] = site]
        /\ pc' = [pc EXCEPT ![c] = "fetched"]
    BY <1>6 DEF Poll, Goto
  <2>2. pc'[c] = "fetched" /\ fetched'[c] = site /\ site \in Contents
    BY <1>1, <1>4, <2>1 DEF FollowInv
  <2>3. \A d \in Demos : pc'[d] = "idle"
    BY <1>1, <1>3, <2>1
  <2> QED BY <1>1, <2>1, <2>2, <2>3, FollowFrame
<1>7. ASSUME NEW d \in Demos, Trigger(d) PROVE FALSE
  BY <1>2, <1>7 DEF Trigger
<1>8. ASSUME NEW d \in Cycles, Fails(d) \/ Restart(d) PROVE FALSE
  BY <1>2, <1>8 DEF Fails, Restart, BreakOff, Fault
<1>9. ASSUME NEW d \in Demos, Proceed(d) PROVE FALSE
  BY <1>3, <1>9 DEF Proceed, SelectKnown, Unchanged, Assess, AssessRaises, SendAlerts,
                    CascadeTo, CascadeCommit, Finish, Goto
<1>10. CASE Proceed(c)
  <2>1. CASE SelectKnown(c)
    <3>1. /\ known' = known /\ graph' = graph /\ fetched' = fetched
          /\ base' = [base EXCEPT ![c] = known]
          /\ pc[c] = "fetched" /\ pc' = [pc EXCEPT ![c] = "compare"]
      BY <2>1 DEF SelectKnown, Goto
    <3>2. base'[c] = known /\ fetched'[c] \in Contents
      BY <1>1, <1>3, <1>4, <3>1
    <3>3. \A d \in Demos : pc'[d] = "idle"
      BY <1>1, <1>3, <3>1
    <3> QED BY <1>1, <3>1, <3>2, <3>3, FollowFrame
  <2>2. ASSUME Forget(c) PROVE pc'[c] = "idle" /\ \A d \in Demos : pc'[d] = "idle"
    BY <1>1, <1>3, <1>4, <2>2 DEF Forget
  <2>3. CASE Unchanged(c)
    <3>1. pc[c] = "compare" /\ known' = base[c] /\ graph' = graph /\ Forget(c)
      BY <2>3 DEF Unchanged, Leave
    <3>2. known' = known
      BY <1>1, <3>1 DEF Following
    <3> QED BY <1>1, <2>2, <3>1, <3>2, FollowFrame
  <2>4. CASE Assess(c)
    <3>1. /\ pc[c] = "compare" /\ pc' = [pc EXCEPT ![c] = "alert"] /\ known' = fetched[c]
          /\ graph' = [graph EXCEPT ![c] = UpdateGraph(@, base[c], fetched[c])]
          /\ fetched' = fetched
      BY <2>4 DEF Assess, Goto
    <3>2. pc'[c] = "alert" /\ \A d \in Demos : pc'[d] = "idle"
      BY <1>1, <1>3, <1>4, <3>1
    <3> QED BY <1>1, <3>1, <3>2, FollowDelta
  <2>5. CASE AssessRaises(c)
    <3>1. /\ pc[c] = "compare" /\ Forget(c) /\ known' = fetched[c]
          /\ graph' = [graph EXCEPT ![c] = UpdateGraph(@, base[c], fetched[c])]
      BY <2>5 DEF AssessRaises, Leave
    <3> QED BY <1>1, <2>2, <3>1, FollowDelta
  <2>6. CASE SendAlerts(c) \/ (\E b \in Businesses : CascadeTo(c, b)) \/ CascadeCommit(c)
    <3>1. /\ UNCHANGED <<known, graph, fetched>> /\ pc[c] \in {"alert", "cascade"}
          /\ \/ pc' = pc /\ pc[c] = "cascade"
             \/ \E to \in {"done", "cascade"} : pc' = [pc EXCEPT ![c] = to]
      <4>1. CASE SendAlerts(c)
        BY <4>1 DEF SendAlerts, Goto
      <4>2. CASE \E b \in Businesses : CascadeTo(c, b)
        BY <4>2 DEF CascadeTo
      <4>3. CASE CascadeCommit(c)
        BY <4>3 DEF CascadeCommit, Goto
      <4> QED BY <2>6, <4>1, <4>2, <4>3
    <3>2. pc'[c] \in {"done", "cascade"} /\ \A d \in Demos : pc'[d] = "idle"
      BY <1>1, <1>3, <1>4, <3>1
    <3>3. fetched'[c] \in Contents
      BY <1>3, <3>1
    <3> QED BY <1>1, <3>1, <3>2, <3>3, FollowFrame
  <2>7. CASE Finish(c)
    <3>1. UNCHANGED <<known, graph>> /\ Forget(c)
      BY <2>7 DEF Finish, Leave
    <3> QED BY <1>1, <2>2, <3>1, FollowFrame
  <2> QED BY <1>10, <2>1, <2>3, <2>4, <2>5, <2>6, <2>7 DEF Proceed
<1>11. \A d \in Pollers : d = c
  BY <1>2
<1> QED
  BY <1>1, <1>5, <1>6, <1>7, <1>8, <1>9, <1>10, <1>11 DEF Next

\* However many changes are published, a process alone compares with the newest
\* snapshot, and the thresholds of its graph are values of that snapshot.
THEOREM FollowInvariance == Spec => []FollowInv
<1>1. Init => FollowInv
  <2> SUFFICES ASSUME Init PROVE FollowInv
    OBVIOUS
  <2>1. DOMAIN known = {}
    <3>1. known = <<>>
      BY DEF Init, NoContent
    <3> QED BY <3>1
  <2>2. \A c \in Cycles : graph[c] = Fresh0 /\ pc[c] = "idle"
    BY DEF Init
  <2>3. \A c \in Pollers : Following(c)
    BY <2>1, <2>2 DEF Following, Cycles
  <2>4. DOMAIN Fresh0 = Nodes
    BY DEF Fresh0
  <2> QED BY <2>2, <2>3, <2>4 DEF FollowInv, Init
<1>2. FollowInv /\ [Next]_vars => FollowInv'
  <2> SUFFICES ASSUME FollowInv, [Next]_vars PROVE FollowInv'
    OBVIOUS
  <2>1. ASSUME NEW c \in Pollers, Alone(c)' PROVE Alone(c)
    BY <2>1, FollowTyped DEF Alone
  <2>2. \A c \in Pollers : Alone(c)' => Following(c)'
    BY <2>1, FollowStep
  <2> QED BY <2>2, FollowTyped DEF FollowInv
<1> QED BY <1>1, <1>2, PTL DEF Spec

\* Between its cycles, a process alone is never behind what was published.
THEOREM ThresholdsFollowHolds == Spec => []ThresholdsFollow
<1>1. FollowInv => ThresholdsFollow
  BY DEF FollowInv, Following, ThresholdsFollow
<1> QED BY <1>1, FollowInvariance, PTL
=============================================================================

------------------------ MODULE RegulationWatchProofs ------------------------
(* Theorems about RegulationWatch, for any portals, contents, pollers,     *)
(* demo triggers and bounds.                                               *)
EXTENDS RegulationWatch, FiniteSums, FiniteSetTheorems, SequenceTheorems, TLAPS

(* The conjuncts of TypeOK, grouped by what the actions change together.   *)
WorldOK ==
  /\ site \in [Portals -> Contents]
  /\ override \in [Portals -> Contents \cup {NoContent}]
  /\ published \in [Portals -> Nat]
RowsOK ==
  /\ snapshot \in [Portals -> Contents \cup {NoContent}]
  /\ deltas \in Seq(DeltaRows)
TransactionsOK ==
  /\ open \subseteq Cycles
  /\ elder \in [Cycles -> SUBSET Cycles]
  /\ behind \in [Cycles -> SUBSET Portals]
LocalsOK ==
  /\ pc \in [Cycles -> PCs]
  /\ at \in [Cycles -> DOMAIN PortalSeq]
  /\ fetched \in [Cycles -> Contents \cup {NoContent}]
  /\ seen \in [Cycles -> Contents \cup {NoContent}]
  /\ todo \in [Cycles -> Seq(Nat)]

LEMMA TypeParts ==
  TypeOK <=> WorldOK /\ RowsOK /\ TransactionsOK /\ LocalsOK /\ faults \in 0..MaxFaults
BY DEF TypeOK, WorldOK, RowsOK, TransactionsOK, LocalsOK

LEMMA PortalsOK ==
  /\ Len(PortalSeq) \in Nat /\ Len(PortalSeq) >= 1
  /\ DOMAIN PortalSeq = 1..Len(PortalSeq)
  /\ \A i \in 1..Len(PortalSeq) : PortalSeq[i] \in Portals
BY WatchAssumption, EmptySeq, LenProperties DEF Portals

LEMMA PortalType ==
  ASSUME LocalsOK, NEW c \in Cycles
  PROVE  Portal(c) \in Portals /\ at[c] \in 1..Len(PortalSeq)
BY PortalsOK DEF LocalsOK, Portal

LEMMA FaultTyped ==
  ASSUME faults \in 0..MaxFaults, Fault
  PROVE  faults' \in 0..MaxFaults /\ faults' = faults + 1
BY WatchAssumption DEF Fault

-----------------------------------------------------------------------------
(* Transactions.                                                           *)

LEMMA BeginTyped ==
  ASSUME TransactionsOK, NEW c \in Cycles, Begin(c)
  PROVE  TransactionsOK'
BY DEF TransactionsOK, Begin

LEMMA EndTyped ==
  ASSUME TransactionsOK, NEW c \in Cycles, NEW b \in BOOLEAN, EndAnd(b, c)
  PROVE  open' \subseteq Cycles /\ elder' \in [Cycles -> SUBSET Cycles]
<1>1. open' \subseteq Cycles
  BY DEF TransactionsOK, EndAnd
<1>2. \A d \in Cycles : (IF d = c THEN IF b THEN open \ {c} ELSE {} ELSE elder[d] \ {c})
                          \in SUBSET Cycles
  BY DEF TransactionsOK
<1>. QED  BY <1>1, <1>2 DEF EndAnd

LEMMA FallBehindTyped ==
  ASSUME TransactionsOK, NEW c \in Cycles, NEW D, NEW p \in Portals, FallBehind(D, p, c)
  PROVE  behind' \in [Cycles -> SUBSET Portals]
BY DEF TransactionsOK, FallBehind

LEMMA EndTransactionTyped ==
  ASSUME TransactionsOK, NEW c \in Cycles, EndTransaction(c)
  PROVE  TransactionsOK'
BY EndTyped DEF TransactionsOK, EndTransaction

-----------------------------------------------------------------------------
(* The rows.                                                               *)

(* No step changes what a delta says, or removes one.                      *)
DeltasGrow ==
  /\ deltas' \in Seq(DeltaRows)
  /\ Len(deltas') >= Len(deltas)
  /\ \A i \in 1..Len(deltas) : /\ deltas'[i].portal = deltas[i].portal
                               /\ deltas'[i].prev = deltas[i].prev
                               /\ deltas'[i].new = deltas[i].new

LEMMA SameDeltas ==
  ASSUME RowsOK, UNCHANGED deltas
  PROVE  DeltasGrow
BY LenProperties DEF RowsOK, DeltasGrow

LEMMA StageTyped ==
  ASSUME RowsOK, NEW c \in Cycles, NEW s \in Stages, todo[c] \in Seq(1..Len(deltas)),
         todo[c] # <<>>, SetStage(c, s)
  PROVE  /\ DeltasGrow /\ Len(deltas') = Len(deltas)
         /\ Current(c) \in 1..Len(deltas)
         /\ deltas'[Current(c)].stage = s
         /\ \A i \in 1..Len(deltas) : i # Current(c) => deltas'[i] = deltas[i]
<1>1. Current(c) \in 1..Len(deltas)
  BY HeadTailProperties DEF Current
<1>. DEFINE d == Current(c)
            row == [deltas[d] EXCEPT !.stage = s]
<1>2. deltas[d] \in DeltaRows
  BY <1>1, ElementOfSeq DEF RowsOK
<1>3. row \in DeltaRows /\ row.portal = deltas[d].portal /\ row.prev = deltas[d].prev
      /\ row.new = deltas[d].new /\ row.stage = s
  BY <1>2 DEF DeltaRows
<1>4. deltas' = [deltas EXCEPT ![d] = row]
  BY DEF SetStage
<1>. HIDE DEF d, row
<1>5. /\ deltas' \in Seq(DeltaRows) /\ Len(deltas') = Len(deltas)
      /\ \A i \in 1..Len(deltas) : deltas'[i] = IF i = d THEN row ELSE deltas[i]
  BY <1>1, <1>3, <1>4, ExceptSeq DEF RowsOK, d
<1>. QED  BY <1>1, <1>3, <1>5, LenProperties DEF DeltasGrow, RowsOK, d

LEMMA InsertTyped ==
  ASSUME RowsOK, LocalsOK, TransactionsOK, NEW c \in Cycles, fetched[c] \in Contents, InsertRows(c)
  PROVE  /\ RowsOK' /\ DeltasGrow /\ Len(deltas') = Len(deltas) + 1
         /\ deltas'[Len(deltas) + 1].portal = Portal(c)
         /\ deltas'[Len(deltas) + 1].prev = seen[c]
         /\ deltas'[Len(deltas) + 1].new = fetched[c]
         /\ \A i \in 1..Len(deltas) : deltas'[i] = deltas[i]
         /\ behind' \in [Cycles -> SUBSET Portals]
<1>. DEFINE row == [portal |-> Portal(c), prev |-> seen[c], new |-> fetched[c], stage |-> "found"]
<1>1. row \in DeltaRows
  BY PortalType DEF DeltaRows, LocalsOK, Stages
<1>2. deltas' = Append(deltas, row)
  BY DEF InsertRows
<1>3. row.portal = Portal(c) /\ row.prev = seen[c] /\ row.new = fetched[c]
  OBVIOUS
<1>. HIDE DEF row
<1>4. /\ deltas' \in Seq(DeltaRows) /\ Len(deltas') = Len(deltas) + 1
      /\ \A i \in 1..Len(deltas) : deltas'[i] = deltas[i]
      /\ deltas'[Len(deltas) + 1] = row
  BY <1>1, <1>2, AppendProperties DEF RowsOK
<1>5. snapshot' \in [Portals -> Contents \cup {NoContent}]
  BY PortalType DEF InsertRows, RowsOK
<1>6. behind' \in [Cycles -> SUBSET Portals]
  BY PortalType, FallBehindTyped DEF InsertRows
<1>. QED  BY <1>3, <1>4, <1>5, <1>6, LenProperties DEF RowsOK, DeltasGrow

LEMMA TouchTyped ==
  ASSUME RowsOK, LocalsOK, TransactionsOK, NEW c \in Cycles, TouchRow(c)
  PROVE  RowsOK' /\ TransactionsOK' /\ UNCHANGED deltas
<1>1. snapshot' \in [Portals -> Contents \cup {NoContent}]
  BY PortalType DEF TouchRow, RowsOK, LocalsOK
<1>2. TransactionsOK'
  BY PortalType, FallBehindTyped, EndTyped DEF TouchRow, TransactionsOK
<1>. QED  BY <1>1, <1>2 DEF TouchRow, RowsOK

-----------------------------------------------------------------------------
(* A cycle's local variables: c moves, the others stay.                    *)

OthersStay(c) ==
  \A d \in Cycles \ {c} : /\ pc'[d] = pc[d] /\ at'[d] = at[d] /\ fetched'[d] = fetched[d]
                          /\ seen'[d] = seen[d] /\ todo'[d] = todo[d]

LEMMA GotoTyped ==
  ASSUME LocalsOK, NEW c \in Cycles, NEW f \in PCs, NEW t \in PCs, Goto(c, f, t)
  PROVE  /\ pc' \in [Cycles -> PCs] /\ pc[c] = f /\ pc'[c] = t
         /\ \A d \in Cycles \ {c} : pc'[d] = pc[d]
BY DEF LocalsOK, Goto

LEMMA AdvanceTyped ==
  ASSUME LocalsOK, NEW c \in Cycles, Advance(c)
  PROVE  /\ pc' \in [Cycles -> PCs] /\ at' \in [Cycles -> DOMAIN PortalSeq]
         /\ fetched' \in [Cycles -> Contents \cup {NoContent}]
         /\ seen' \in [Cycles -> Contents \cup {NoContent}]
         /\ \/ pc'[c] = "fetch" /\ at'[c] = at[c] + 1
            \/ pc'[c] = "alerts" /\ at[c] = Len(PortalSeq)
         /\ \A d \in Cycles \ {c} : /\ pc'[d] = pc[d] /\ at'[d] = at[d]
                                    /\ fetched'[d] = fetched[d] /\ seen'[d] = seen[d]
<1>1. at[c] \in 1..Len(PortalSeq) /\ DOMAIN PortalSeq = 1..Len(PortalSeq)
      /\ Len(PortalSeq) \in Nat /\ Len(PortalSeq) >= 1
  BY PortalType, PortalsOK
<1>2. /\ fetched' \in [Cycles -> Contents \cup {NoContent}]
      /\ seen' \in [Cycles -> Contents \cup {NoContent}]
      /\ \A d \in Cycles \ {c} : fetched'[d] = fetched[d] /\ seen'[d] = seen[d]
  BY DEF LocalsOK, Advance
<1>3. CASE at[c] < Len(PortalSeq)
  <2>1. at' = [at EXCEPT ![c] = at[c] + 1] /\ pc' = [pc EXCEPT ![c] = "fetch"]
    BY <1>3 DEF Advance
  <2>2. at[c] + 1 \in DOMAIN PortalSeq
    BY <1>1, <1>3
  <2>3. at' \in [Cycles -> DOMAIN PortalSeq] /\ at'[c] = at[c] + 1
        /\ \A d \in Cycles \ {c} : at'[d] = at[d]
    BY <2>1, <2>2, Zenon DEF LocalsOK
  <2>4. pc' \in [Cycles -> PCs] /\ pc'[c] = "fetch" /\ \A d \in Cycles \ {c} : pc'[d] = pc[d]
    BY <2>1 DEF LocalsOK, PCs
  <2>. QED  BY <1>2, <2>3, <2>4
<1>4. CASE ~(at[c] < Len(PortalSeq))
  <2>1. at' = [at EXCEPT ![c] = 1] /\ pc' = [pc EXCEPT ![c] = "alerts"]
    BY <1>4 DEF Advance
  <2>2. 1 \in DOMAIN PortalSeq /\ at[c] = Len(PortalSeq)
    BY <1>1, <1>4
  <2>3. at' \in [Cycles -> DOMAIN PortalSeq] /\ \A d \in Cycles \ {c} : at'[d] = at[d]
    BY <2>1, <2>2, Zenon DEF LocalsOK
  <2>4. pc' \in [Cycles -> PCs] /\ pc'[c] = "alerts" /\ \A d \in Cycles \ {c} : pc'[d] = pc[d]
    BY <2>1 DEF LocalsOK, PCs
  <2>. QED  BY <1>2, <2>2, <2>3, <2>4
<1>. QED  BY <1>3, <1>4

LEMMA LeaveTyped ==
  ASSUME LocalsOK, NEW c \in Cycles, Leave(c)
  PROVE  LocalsOK' /\ OthersStay(c) /\ pc'[c] = "idle" /\ todo'[c] = <<>>
BY PortalsOK DEF LocalsOK, Leave, OthersStay, PCs

LEMMA SeqWiden ==
  ASSUME NEW S, NEW T, S \subseteq T, NEW s \in Seq(S)
  PROVE  s \in Seq(T)
<1>1. Len(s) \in Nat /\ s \in [1..Len(s) -> T]
  BY LenProperties, ElementOfSeq
<1>. QED  BY <1>1, SeqDef

(* More deltas and the same locals: a cycle is as it was.                  *)
LEMMA StillOK ==
  ASSUME LocalsOK, DeltasGrow, RowsOK, NEW d \in Cycles, CycleOK(d),
         pc'[d] = pc[d], at'[d] = at[d], fetched'[d] = fetched[d], todo'[d] = todo[d]
  PROVE  CycleOK(d)'
<1>1. 1..Len(deltas) \subseteq 1..Len(deltas')
  BY LenProperties DEF DeltasGrow, RowsOK
<1>2. todo[d] \in Seq(1..Len(deltas'))
  BY <1>1, SeqWiden DEF CycleOK
<1>. QED  BY <1>2, LenProperties DEF CycleOK

LEMMA OthersOK ==
  ASSUME LocalsOK, DeltasGrow, RowsOK, NEW c \in Cycles, OthersStay(c),
         \A d \in Cycles : CycleOK(d)
  PROVE  \A d \in Cycles \ {c} : CycleOK(d)'
BY StillOK DEF OthersStay

(* The cycle that moved on stands well, and so do the others.              *)
LEMMA Together ==
  ASSUME WatchInv, DeltasGrow, NEW c \in Cycles, OthersStay(c),
         WorldOK', RowsOK', TransactionsOK', LocalsOK', (faults \in 0..MaxFaults)', CycleOK(c)'
  PROVE  WatchInv'
<1>1. TypeOK'
  BY TypeParts, PTL
<1>2. \A d \in Cycles : CycleOK(d)'
  BY OthersOK, TypeParts DEF WatchInv
<1>. QED  BY <1>1, <1>2 DEF WatchInv

LEMMA EmptyOK ==
  ASSUME NEW c \in Cycles, LocalsOK', RowsOK', todo'[c] = <<>>, pc'[c] \in {"idle", "fetch", "alerts"}
  PROVE  CycleOK(c)'
<1>1. todo'[c] \in Seq(1..Len(deltas')) /\ Len(todo'[c]) = 0
  BY EmptySeq
<1>2. at'[c] - 1 >= 0 /\ Len(PortalSeq) >= 0
  BY PortalsOK DEF LocalsOK
<1>. QED  BY <1>1, <1>2 DEF CycleOK

(* The same list of deltas, further on.                                    *)
LEMMA MovedOK ==
  ASSUME LocalsOK, RowsOK, RowsOK', DeltasGrow, NEW c \in Cycles, CycleOK(c),
         todo'[c] = todo[c], todo'[c] \in Seq(1..Len(deltas')),
         pc'[c] \in {"select", "compare"} => fetched'[c] \in Contents,
         pc'[c] \in {"cascade", "commit", "announce"} => todo[c] # <<>>,
         pc'[c] # "idle",
         pc'[c] \in {"fetch", "select", "compare"} => Len(todo[c]) <= at'[c] - 1,
         pc'[c] \notin {"fetch", "select", "compare"} => Len(todo[c]) <= Len(PortalSeq)
  PROVE  CycleOK(c)'
BY DEF CycleOK

-----------------------------------------------------------------------------
(* Before the first poll nothing is held, found or stored.                 *)
LEMMA InitInv ==
  ASSUME Init
  PROVE  WatchInv
<1>1. WorldOK /\ RowsOK /\ TransactionsOK
  BY EmptySeq DEF Init, WorldOK, RowsOK, TransactionsOK
<1>2. LocalsOK
  BY EmptySeq, PortalsOK DEF Init, LocalsOK, PCs
<1>3. faults \in 0..MaxFaults
  BY WatchAssumption DEF Init
<1>4. ASSUME NEW c \in Cycles PROVE CycleOK(c)
  <2>1. pc[c] = "idle" /\ todo[c] = <<>> /\ at[c] = 1
    BY DEF Init
  <2>2. todo[c] \in Seq(1..Len(deltas)) /\ Len(todo[c]) = 0
    BY <2>1, EmptySeq
  <2>. QED  BY <2>1, <2>2, PortalsOK DEF CycleOK
<1>. QED  BY <1>1, <1>2, <1>3, <1>4, TypeParts DEF WatchInv

(* What the action of one cycle has to deliver.                            *)
Kept(c) ==
  /\ DeltasGrow /\ OthersStay(c) /\ CycleOK(c)'
  /\ WorldOK' /\ RowsOK' /\ TransactionsOK' /\ LocalsOK' /\ faults' \in 0..MaxFaults

LEMMA KeptInv ==
  ASSUME WatchInv, NEW c \in Cycles, Kept(c)
  PROVE  WatchInv' /\ DeltasGrow
BY Together DEF Kept

LEMMA WorldSame ==
  ASSUME TypeOK, UNCHANGED world
  PROVE  WorldOK'
BY DEF TypeOK, world, WorldOK

LEMMA TransactionsSame ==
  ASSUME TypeOK, UNCHANGED transactions
  PROVE  TransactionsOK'
BY DEF TypeOK, transactions, TransactionsOK

LEMMA RowsSame ==
  ASSUME TypeOK, UNCHANGED <<snapshot, deltas>>
  PROVE  RowsOK' /\ DeltasGrow
BY SameDeltas, TypeParts DEF RowsOK

(* The fetch of a portal, for a poller or for a demo trigger.              *)
LEMMA StartsKept ==
  ASSUME WatchInv, NEW c \in Cycles, Goto(c, "idle", "fetch"),
         UNCHANGED <<snapshot, deltas, at, fetched, seen, todo, faults>>,
         WorldOK', TransactionsOK'
  PROVE  Kept(c)
<1>1. LocalsOK /\ RowsOK /\ DeltasGrow /\ RowsOK'
  BY TypeParts, RowsSame DEF WatchInv
<1>2. pc' \in [Cycles -> PCs] /\ pc[c] = "idle" /\ pc'[c] = "fetch"
      /\ \A d \in Cycles \ {c} : pc'[d] = pc[d]
  BY <1>1, GotoTyped DEF PCs
<1>3. LocalsOK'
  BY <1>1, <1>2 DEF LocalsOK
<1>4. todo'[c] = <<>>
  BY <1>2 DEF WatchInv, CycleOK
<1>5. CycleOK(c)'
  BY <1>1, <1>2, <1>3, <1>4, EmptyOK
<1>. QED  BY <1>1, <1>2, <1>3, <1>5 DEF Kept, OthersStay, WatchInv, TypeOK

LEMMA FetchKept ==
  ASSUME WatchInv, NEW c \in Cycles, Fetch(c)
  PROVE  Kept(c)
<1>1. LocalsOK /\ RowsOK /\ DeltasGrow /\ RowsOK' /\ WorldOK' /\ TransactionsOK' /\ WorldOK
  BY TypeParts, RowsSame, WorldSame, TransactionsSame DEF WatchInv, Fetch, database, transactions
<1>2. pc' \in [Cycles -> PCs] /\ pc[c] = "fetch" /\ pc'[c] = "select"
      /\ \A d \in Cycles \ {c} : pc'[d] = pc[d]
  BY <1>1, GotoTyped DEF PCs, Fetch
<1>3. /\ fetched' \in [Cycles -> Contents \cup {NoContent}] /\ fetched'[c] \in Contents
      /\ \A d \in Cycles \ {c} : fetched'[d] = fetched[d]
  <2>1. Portal(c) \in Portals
    BY <1>1, PortalType
  <2>2. override[Portal(c)] # NoContent => override[Portal(c)] \in Contents
    BY <1>1, <2>1 DEF WorldOK
  <2>3. site[Portal(c)] \in Contents
    BY <1>1, <2>1 DEF WorldOK
  <2>4. PICK content \in Contents : fetched' = [fetched EXCEPT ![c] = content]
    BY <2>2, <2>3 DEF Fetch, Overridden
  <2>. QED  BY <1>1, <2>4 DEF LocalsOK
<1>4. LocalsOK'
  BY <1>1, <1>2, <1>3 DEF LocalsOK, Fetch
<1>5. CycleOK(c)'
  BY <1>1, <1>2, <1>3 DEF CycleOK, WatchInv, Fetch, database
<1>6. faults' \in 0..MaxFaults
  BY FaultTyped DEF Fetch, WatchInv, TypeOK
<1>. QED  BY <1>1, <1>2, <1>3, <1>4, <1>5, <1>6 DEF Kept, OthersStay, Fetch

(* On to the next portal, with at most one delta more.                     *)
LEMMA AdvanceKept ==
  ASSUME WatchInv, NEW c \in Cycles, Advance(c), pc[c] \in {"fetch", "compare"},
         todo' \in [Cycles -> Seq(Nat)], \A d \in Cycles \ {c} : todo'[d] = todo[d],
         todo'[c] \in Seq(1..Len(deltas')), Len(todo'[c]) <= Len(todo[c]) + 1
  PROVE  LocalsOK' /\ OthersStay(c) /\ CycleOK(c)'
<1>1. LocalsOK
  BY TypeParts DEF WatchInv
<1>2. /\ pc' \in [Cycles -> PCs] /\ at' \in [Cycles -> DOMAIN PortalSeq]
      /\ fetched' \in [Cycles -> Contents \cup {NoContent}]
      /\ seen' \in [Cycles -> Contents \cup {NoContent}]
      /\ \/ pc'[c] = "fetch" /\ at'[c] = at[c] + 1
         \/ pc'[c] = "alerts" /\ at[c] = Len(PortalSeq)
      /\ \A d \in Cycles \ {c} : /\ pc'[d] = pc[d] /\ at'[d] = at[d]
                                 /\ fetched'[d] = fetched[d] /\ seen'[d] = seen[d]
  BY <1>1, AdvanceTyped
<1>3. LocalsOK' /\ OthersStay(c)
  BY <1>1, <1>2 DEF LocalsOK, OthersStay
<1>4. /\ Len(todo[c]) <= at[c] - 1 /\ at[c] \in 1..Len(PortalSeq)
      /\ Len(todo[c]) \in Nat /\ Len(todo'[c]) \in Nat
  BY <1>1, PortalType, LenProperties DEF WatchInv, CycleOK, LocalsOK
<1>5. Len(todo'[c]) <= at[c] /\ Len(todo'[c]) <= Len(PortalSeq)
  BY <1>4, PortalsOK
<1>6. (pc'[c] = "fetch" => at'[c] - 1 = at[c]) /\ pc'[c] \in {"fetch", "alerts"}
  BY <1>2, <1>4
<1>7. CycleOK(c)'
  BY <1>5, <1>6 DEF CycleOK
<1>. QED  BY <1>3, <1>7

LEMMA TodoSame ==
  ASSUME WatchInv, NEW c \in Cycles, UNCHANGED todo, DeltasGrow
  PROVE  /\ todo' \in [Cycles -> Seq(Nat)] /\ \A d \in Cycles : todo'[d] = todo[d]
         /\ todo'[c] \in Seq(1..Len(deltas')) /\ Len(todo'[c]) <= Len(todo[c]) + 1
<1>1. 1..Len(deltas) \subseteq 1..Len(deltas')
  BY LenProperties DEF WatchInv, TypeOK, DeltasGrow
<1>2. todo[c] \in Seq(1..Len(deltas'))
  BY <1>1, SeqWiden DEF WatchInv, CycleOK
<1>. QED  BY <1>2, LenProperties DEF WatchInv, TypeOK

LEMMA FetchFailsKept ==
  ASSUME WatchInv, NEW c \in Cycles, FetchFails(c)
  PROVE  Kept(c)
<1>1. DeltasGrow /\ RowsOK' /\ WorldOK' /\ TransactionsOK'
  BY RowsSame, WorldSame, TransactionsSame DEF WatchInv, FetchFails, database, transactions
<1>2. LocalsOK' /\ OthersStay(c) /\ CycleOK(c)'
  BY <1>1, TodoSame, AdvanceKept DEF FetchFails
<1>3. faults' \in 0..MaxFaults
  BY FaultTyped DEF WatchInv, TypeOK, FetchFails
<1>. QED  BY <1>1, <1>2, <1>3 DEF Kept

LEMMA SelectKept ==
  ASSUME WatchInv, NEW c \in Cycles, SelectLatest(c)
  PROVE  Kept(c)
<1>1. LocalsOK /\ RowsOK /\ TransactionsOK /\ DeltasGrow /\ RowsOK' /\ WorldOK'
  BY TypeParts, RowsSame, WorldSame DEF WatchInv, SelectLatest
<1>2. pc' \in [Cycles -> PCs] /\ pc[c] = "select" /\ pc'[c] = "compare"
      /\ \A d \in Cycles \ {c} : pc'[d] = pc[d]
  BY <1>1, GotoTyped DEF PCs, SelectLatest
<1>3. TransactionsOK'
  <2>1. CASE c \in open
    BY <2>1, TransactionsSame DEF SelectLatest, WatchInv
  <2>2. CASE c \notin open
    BY <1>1, <2>2, BeginTyped DEF SelectLatest
  <2>. QED  BY <2>1, <2>2
<1>4. seen' \in [Cycles -> Contents \cup {NoContent}] /\ \A d \in Cycles \ {c} : seen'[d] = seen[d]
  BY <1>1, PortalType DEF SelectLatest, LocalsOK, RowsOK
<1>5. LocalsOK' /\ OthersStay(c)
  BY <1>1, <1>2, <1>4 DEF LocalsOK, SelectLatest, OthersStay
<1>6. CycleOK(c)'
  BY <1>1, <1>2 DEF CycleOK, WatchInv, SelectLatest
<1>. QED  BY <1>1, <1>3, <1>5, <1>6 DEF Kept, WatchInv, TypeOK, SelectLatest

LEMMA HeartbeatKept ==
  ASSUME WatchInv, NEW c \in Cycles, Heartbeat(c)
  PROVE  Kept(c)
<1>1. RowsOK' /\ TransactionsOK' /\ DeltasGrow /\ WorldOK'
  BY TypeParts, TouchTyped, SameDeltas, WorldSame DEF WatchInv, Heartbeat
<1>2. LocalsOK' /\ OthersStay(c) /\ CycleOK(c)'
  BY <1>1, TodoSame, AdvanceKept DEF Heartbeat
<1>. QED  BY <1>1, <1>2 DEF Kept, WatchInv, TypeOK, Heartbeat

LEMMA InsertKept ==
  ASSUME WatchInv, NEW c \in Cycles, Insert(c)
  PROVE  Kept(c)
<1>1. LocalsOK /\ RowsOK /\ TransactionsOK /\ WorldOK' /\ faults' \in 0..MaxFaults
  BY TypeParts, WorldSame DEF WatchInv, TypeOK, Insert
<1>2. fetched[c] \in Contents
  BY DEF WatchInv, CycleOK, Insert
<1>3. /\ RowsOK' /\ DeltasGrow /\ Len(deltas') = Len(deltas) + 1
      /\ behind' \in [Cycles -> SUBSET Portals]
  BY <1>1, <1>2, InsertTyped DEF Insert
<1>4. TransactionsOK'
  BY <1>1, <1>3, EndTyped DEF Insert, TransactionsOK
<1>5. /\ Append(todo[c], Len(deltas) + 1) \in Seq(1..Len(deltas'))
      /\ Append(todo[c], Len(deltas) + 1) \in Seq(Nat)
      /\ Len(Append(todo[c], Len(deltas) + 1)) = Len(todo[c]) + 1
  <2>1. Len(deltas) \in Nat /\ 1..Len(deltas) \subseteq 1..Len(deltas')
        /\ Len(deltas) + 1 \in 1..Len(deltas')
    BY <1>1, <1>3, LenProperties DEF RowsOK
  <2>2. todo[c] \in Seq(1..Len(deltas'))
    BY <2>1, SeqWiden DEF WatchInv, CycleOK
  <2>3. todo[c] \in Seq(Nat) /\ Len(deltas) + 1 \in Nat
    BY <1>1, <2>1 DEF LocalsOK
  <2>4. Append(todo[c], Len(deltas) + 1) \in Seq(1..Len(deltas'))
        /\ Len(Append(todo[c], Len(deltas) + 1)) = Len(todo[c]) + 1
    BY <2>1, <2>2, AppendProperties
  <2>5. Append(todo[c], Len(deltas) + 1) \in Seq(Nat)
    BY <2>3, AppendProperties
  <2>. QED  BY <2>4, <2>5
<1>6. /\ todo' \in [Cycles -> Seq(Nat)] /\ \A d \in Cycles \ {c} : todo'[d] = todo[d]
      /\ todo'[c] \in Seq(1..Len(deltas')) /\ Len(todo'[c]) <= Len(todo[c]) + 1
  <2>1. todo' = [todo EXCEPT ![c] = Append(todo[c], Len(deltas) + 1)]
    BY DEF Insert
  <2>2. todo'[c] = Append(todo[c], Len(deltas) + 1) /\ todo' \in [Cycles -> Seq(Nat)]
        /\ \A d \in Cycles \ {c} : todo'[d] = todo[d]
    BY <1>1, <1>5, <2>1, Zenon DEF LocalsOK
  <2>3. Len(todo[c]) \in Nat
    BY <1>1, LenProperties DEF LocalsOK
  <2>. QED  BY <1>5, <2>2, <2>3
<1>7. LocalsOK' /\ OthersStay(c) /\ CycleOK(c)'
  BY <1>6, AdvanceKept DEF Insert
<1>. QED  BY <1>1, <1>3, <1>4, <1>7 DEF Kept

(* A step within the loop over the deltas found: the row of the current    *)
(* delta changes its stage.                                                *)
LEMMA StageKept ==
  ASSUME WatchInv, NEW c \in Cycles, NEW s \in Stages,
         NEW f \in {"alerts", "cascade", "commit"}, NEW t \in {"cascade", "commit", "announce"},
         Goto(c, f, t), todo[c] # <<>>, SetStage(c, s),
         UNCHANGED <<world, snapshot, transactions, at, fetched, seen, todo, faults>>
  PROVE  Kept(c)
<1>1. LocalsOK /\ RowsOK /\ WorldOK' /\ TransactionsOK'
  BY TypeParts, WorldSame, TransactionsSame DEF WatchInv
<1>2. DeltasGrow /\ Len(deltas') = Len(deltas)
  BY <1>1, StageTyped DEF WatchInv, CycleOK
<1>3. RowsOK'
  BY <1>1, <1>2 DEF RowsOK, DeltasGrow
<1>4. pc' \in [Cycles -> PCs] /\ pc[c] = f /\ pc'[c] = t /\ \A d \in Cycles \ {c} : pc'[d] = pc[d]
  BY <1>1, GotoTyped DEF PCs
<1>5. LocalsOK' /\ OthersStay(c)
  BY <1>1, <1>4 DEF LocalsOK, OthersStay
<1>6. CycleOK(c)'
  BY <1>2, <1>4 DEF CycleOK, WatchInv
<1>. QED  BY <1>1, <1>2, <1>3, <1>5, <1>6 DEF Kept, WatchInv, TypeOK

LEMMA AlertKept ==
  ASSUME WatchInv, NEW c \in Cycles, Alert(c)
  PROVE  Kept(c)
<1>1. CASE IsCosmetic(Current(c))
  <2>1. Goto(c, "alerts", "commit") /\ "alerted" \in Stages
    BY <1>1 DEF Alert, Stages
  <2>. QED  BY <2>1, StageKept DEF Alert
<1>2. CASE ~IsCosmetic(Current(c))
  <2>1. Goto(c, "alerts", "cascade") /\ "alerted" \in Stages
    BY <1>2 DEF Alert, Stages
  <2>. QED  BY <2>1, StageKept DEF Alert
<1>. QED  BY <1>1, <1>2

LEMMA CascadeKept ==
  ASSUME WatchInv, NEW c \in Cycles, Cascade(c)
  PROVE  Kept(c)
<1>1. todo[c] # <<>> /\ "cascaded" \in Stages
  BY DEF WatchInv, CycleOK, Cascade, Goto, Stages
<1>. QED  BY <1>1, StageKept DEF Cascade

LEMMA CommitKept ==
  ASSUME WatchInv, NEW c \in Cycles, CommitProcessed(c)
  PROVE  Kept(c)
<1>1. todo[c] # <<>> /\ "processed" \in Stages
  BY DEF WatchInv, CycleOK, CommitProcessed, Goto, Stages
<1>. QED  BY <1>1, StageKept DEF CommitProcessed

(* On to the next delta, or out of the loop.                               *)
LEMMA NextDeltaKept ==
  ASSUME WatchInv, NEW c \in Cycles, pc[c] \in {"alerts", "cascade", "announce"},
         todo[c] # <<>>, NextDelta(c), UNCHANGED <<at, fetched, seen>>, DeltasGrow
  PROVE  LocalsOK' /\ OthersStay(c) /\ CycleOK(c)'
<1>1. LocalsOK /\ Len(deltas) \in Nat /\ Len(deltas') \in Nat
      /\ Len(deltas) <= Len(deltas')
  BY TypeParts, LenProperties DEF WatchInv, TypeOK, DeltasGrow
<1>2. todo' = [todo EXCEPT ![c] = Tail(todo[c])] /\ pc' = [pc EXCEPT ![c] = "alerts"]
  BY DEF NextDelta
<1>3. Tail(todo[c]) \in Seq(Nat)
  BY <1>1, HeadTailProperties DEF LocalsOK
<1>4. Tail(todo[c]) \in Seq(1..Len(deltas)) /\ Len(Tail(todo[c])) = Len(todo[c]) - 1
      /\ Len(todo[c]) \in Nat
  BY HeadTailProperties, LenProperties DEF WatchInv, CycleOK
<1>5. todo' \in [Cycles -> Seq(Nat)] /\ todo'[c] = Tail(todo[c])
      /\ \A d \in Cycles \ {c} : todo'[d] = todo[d]
  BY <1>1, <1>2, <1>3, Zenon DEF LocalsOK
<1>6. pc' \in [Cycles -> PCs] /\ pc'[c] = "alerts" /\ \A d \in Cycles \ {c} : pc'[d] = pc[d]
  BY <1>1, <1>2 DEF LocalsOK, PCs
<1>7. LocalsOK' /\ OthersStay(c)
  BY <1>1, <1>5, <1>6 DEF LocalsOK, OthersStay
<1>8. Len(todo[c]) <= Len(PortalSeq)
  BY DEF WatchInv, CycleOK
<1>9. todo'[c] \in Seq(1..Len(deltas')) /\ Len(todo'[c]) <= Len(PortalSeq)
  <2>1. 1..Len(deltas) \subseteq 1..Len(deltas')
    BY <1>1
  <2>2. Tail(todo[c]) \in Seq(1..Len(deltas'))
    BY <1>4, <2>1, SeqWiden
  <2>3. Len(Tail(todo[c])) <= Len(PortalSeq)
    BY <1>4, <1>8, PortalsOK
  <2>. QED  BY <1>5, <2>2, <2>3
<1>10. CycleOK(c)'
  BY <1>6, <1>9 DEF CycleOK
<1>. QED  BY <1>7, <1>10

LEMMA AnnounceKept ==
  ASSUME WatchInv, NEW c \in Cycles, Announce(c)
  PROVE  Kept(c)
<1>1. RowsOK /\ WorldOK' /\ TransactionsOK' /\ todo[c] # <<>> /\ "ledgered" \in Stages
  BY TypeParts, WorldSame, TransactionsSame DEF WatchInv, Announce, CycleOK, Stages
<1>2. DeltasGrow
  BY <1>1, StageTyped DEF WatchInv, CycleOK, Announce
<1>3. RowsOK'
  BY <1>1, <1>2 DEF RowsOK, DeltasGrow, Announce
<1>4. LocalsOK' /\ OthersStay(c) /\ CycleOK(c)'
  BY <1>1, <1>2, NextDeltaKept DEF Announce
<1>. QED  BY <1>1, <1>2, <1>3, <1>4 DEF Kept, WatchInv, TypeOK, Announce

LEMMA DeltaRaisesKept ==
  ASSUME WatchInv, NEW c \in Cycles, DeltaRaises(c)
  PROVE  Kept(c)
<1>1. DeltasGrow /\ RowsOK' /\ WorldOK' /\ TransactionsOK'
  BY RowsSame, WorldSame, TransactionsSame DEF WatchInv, DeltaRaises, database, transactions
<1>2. LocalsOK' /\ OthersStay(c) /\ CycleOK(c)'
  BY <1>1, NextDeltaKept DEF DeltaRaises
<1>3. faults' \in 0..MaxFaults
  BY FaultTyped DEF WatchInv, TypeOK, DeltaRaises
<1>. QED  BY <1>1, <1>2, <1>3 DEF Kept

(* The cycle leaves: nothing of it is left.                                *)
LEMMA LeaveKept ==
  ASSUME WatchInv, NEW c \in Cycles, Leave(c), UNCHANGED world,
         RowsOK', DeltasGrow, TransactionsOK', faults' \in 0..MaxFaults
  PROVE  Kept(c)
<1>1. LocalsOK' /\ OthersStay(c) /\ CycleOK(c)'
  BY TypeParts, LeaveTyped, EmptyOK DEF WatchInv
<1>. QED  BY <1>1, WorldSame DEF Kept, WatchInv

LEMMA FinishKept ==
  ASSUME WatchInv, NEW c \in Cycles, Finish(c)
  PROVE  Kept(c)
<1>1. RowsOK' /\ DeltasGrow /\ TransactionsOK'
  BY TypeParts, RowsSame, EndTransactionTyped DEF WatchInv, Finish
<1>. QED  BY <1>1, LeaveKept DEF WatchInv, TypeOK, Finish

LEMMA CycleDiesKept ==
  ASSUME WatchInv, NEW c \in Cycles, CycleDies(c)
  PROVE  Kept(c)
<1>1. TypeOK /\ RowsOK /\ LocalsOK /\ TransactionsOK /\ CycleOK(c)
  BY TypeParts DEF WatchInv
<1>2. RowsOK' /\ DeltasGrow /\ TransactionsOK'
  <2>1. CASE EndTransaction(c) /\ UNCHANGED <<snapshot, deltas>>
    BY <1>1, <2>1, RowsSame, EndTransactionTyped
  <2>2. CASE TouchRow(c)
    BY <1>1, <2>2, TouchTyped, SameDeltas
  <2>3. CASE pc[c] = "compare" /\ InsertRows(c) /\ EndAnd(FALSE, c)
    <3>1. RowsOK' /\ DeltasGrow /\ behind' \in [Cycles -> SUBSET Portals]
      BY <1>1, <2>3, InsertTyped DEF CycleOK
    <3>. QED  BY <1>1, <2>3, <3>1, EndTyped DEF TransactionsOK
  <2>4. ASSUME NEW s \in Stages, todo[c] # <<>>, SetStage(c, s), EndTransaction(c),
               UNCHANGED snapshot
        PROVE  RowsOK' /\ DeltasGrow /\ TransactionsOK'
    <3>1. DeltasGrow
      BY <1>1, <2>4, StageTyped DEF CycleOK
    <3>. QED  BY <1>1, <2>4, <3>1, EndTransactionTyped DEF DeltasGrow, RowsOK
  <2>5. {"alerted", "cascaded", "processed", "ledgered"} \subseteq Stages
    BY DEF Stages
  <2>. QED  BY <1>1, <2>1, <2>2, <2>3, <2>4, <2>5 DEF CycleDies, CycleOK
<1>3. Leave(c) /\ UNCHANGED world /\ faults' \in 0..MaxFaults
  BY <1>1, FaultTyped DEF CycleDies, TypeOK
<1>. QED  BY <1>2, <1>3, LeaveKept

LEMMA PollKept ==
  ASSUME WatchInv, NEW c \in Cycles, Poll(c)
  PROVE  Kept(c)
<1>1. WorldOK' /\ TransactionsOK'
  BY WorldSame, TransactionsSame DEF WatchInv, Poll, database, transactions
<1>. QED  BY <1>1, StartsKept DEF Poll, database

LEMMA TriggerKept ==
  ASSUME WatchInv, NEW c \in Cycles, Trigger(c)
  PROVE  Kept(c)
<1>1. WorldOK'
  BY TypeParts DEF WatchInv, WorldOK, Trigger
<1>2. TransactionsOK'
  BY TypeParts, BeginTyped DEF WatchInv, Trigger
<1>. QED  BY <1>1, <1>2, StartsKept DEF Trigger

LEMMA ProceedKept ==
  ASSUME WatchInv, NEW c \in Cycles, Proceed(c)
  PROVE  Kept(c)
BY FetchKept, SelectKept, HeartbeatKept, InsertKept, AlertKept, CascadeKept, CommitKept,
   AnnounceKept, FinishKept DEF Proceed

(* A step that leaves rows, transactions and cycles alone.                 *)
LEMMA IdleInv ==
  ASSUME WatchInv, WorldOK', UNCHANGED <<database, cycle, faults>>
  PROVE  WatchInv' /\ DeltasGrow
<1>1. DeltasGrow /\ RowsOK' /\ TransactionsOK'
  BY RowsSame, TransactionsSame DEF WatchInv, database, transactions
<1>2. LocalsOK' /\ (faults \in 0..MaxFaults)'
  BY DEF LocalsOK, cycle, WatchInv, TypeOK
<1>3. \A d \in Cycles : CycleOK(d)'
  BY <1>1, StillOK, TypeParts DEF WatchInv, cycle
<1>4. TypeOK'
  BY <1>1, <1>2, TypeParts, PTL
<1>. QED  BY <1>1, <1>3, <1>4 DEF WatchInv

LEMMA StepInv ==
  ASSUME WatchInv, [Next]_vars
  PROVE  WatchInv' /\ DeltasGrow
<1>1. ASSUME NEW p \in Portals, Publish(p)
      PROVE  WatchInv' /\ DeltasGrow
  <2>1. WorldOK'
    BY <1>1 DEF Publish, WatchInv, TypeOK, WorldOK
  <2>. QED  BY <1>1, <2>1, IdleInv DEF Publish
<1>2. ASSUME NEW c \in Pollers, Poll(c)
      PROVE  WatchInv' /\ DeltasGrow
  BY <1>2, PollKept, KeptInv DEF Cycles
<1>3. ASSUME NEW c \in Demos, Trigger(c)
      PROVE  WatchInv' /\ DeltasGrow
  BY <1>3, TriggerKept, KeptInv DEF Cycles
<1>4. ASSUME NEW c \in Cycles, Proceed(c) \/ FetchFails(c) \/ DeltaRaises(c) \/ CycleDies(c)
      PROVE  WatchInv' /\ DeltasGrow
  BY <1>4, ProceedKept, FetchFailsKept, DeltaRaisesKept, CycleDiesKept, KeptInv
<1>5. CASE UNCHANGED vars
  <2>1. UNCHANGED <<database, cycle, faults>> /\ WorldOK'
    BY <1>5, WorldSame DEF vars, database, transactions, cycle, WatchInv, world
  <2>. QED  BY <2>1, IdleInv
<1>. QED  BY <1>1, <1>2, <1>3, <1>4, <1>5 DEF Next

(* Rows, sessions and local variables stay consistent, for any number of   *)
(* processes, portals, contents and failures (irda/watcher.py,             *)
(* irda/orchestrator.py).                                                  *)
THEOREM WatchInvariance == Spec => []WatchInv
<1>1. Init => WatchInv
  BY InitInv
<1>2. WatchInv /\ [Next]_vars => WatchInv'
  BY StepInv
<1>. QED  BY <1>1, <1>2, PTL DEF Spec

(* Every variable keeps its type.                                          *)
THEOREM TypeCorrect == Spec => []TypeOK
<1>1. WatchInv => TypeOK
  BY DEF WatchInv
<1>. QED  BY <1>1, WatchInvariance, PTL

-----------------------------------------------------------------------------
(* Every snapshot was detected.  A heartbeat writes back the row its cycle *)
(* selected, so the invariant covers the rows selected too: each of them   *)
(* has a delta, and deltas are never removed.                              *)

HasDelta(p, v) == \E d \in DOMAIN deltas : deltas[d].portal = p /\ deltas[d].new = v
WillHaveDelta(p, v) == \E d \in DOMAIN deltas' : deltas'[d].portal = p /\ deltas'[d].new = v

DetectedInv ==
  /\ \A p \in Portals : snapshot[p] # NoContent => HasDelta(p, snapshot[p])
  /\ \A c \in Cycles : pc[c] = "compare" /\ seen[c] # NoContent => HasDelta(Portal(c), seen[c])

LEMMA HasDeltaStays ==
  ASSUME RowsOK, DeltasGrow, NEW p, NEW v, HasDelta(p, v)
  PROVE  WillHaveDelta(p, v)
<1>1. PICK d \in 1..Len(deltas) : deltas[d].portal = p /\ deltas[d].new = v
  BY LenProperties DEF HasDelta, RowsOK
<1>2. d \in DOMAIN deltas' /\ deltas'[d].portal = p /\ deltas'[d].new = v
  BY <1>1, LenProperties DEF DeltasGrow, RowsOK
<1>. QED  BY <1>2 DEF WillHaveDelta

(* What a step may do to the snapshots and to the cycles that compare.     *)
Traced(c) ==
  /\ \A p \in Portals : \/ snapshot'[p] = snapshot[p]
                        \/ pc[c] = "compare" /\ p = Portal(c) /\ snapshot'[p] = seen[c]
                        \/ WillHaveDelta(p, snapshot'[p])
  /\ pc'[c] = "compare" => seen'[c] = snapshot[Portal(c)] /\ at'[c] = at[c]

LEMMA TracedInsert ==
  ASSUME WatchInv, NEW c \in Cycles, pc[c] = "compare", InsertRows(c)
  PROVE  \A p \in Portals : snapshot'[p] = snapshot[p] \/ WillHaveDelta(p, snapshot'[p])
<1>1. RowsOK /\ LocalsOK /\ TransactionsOK /\ fetched[c] \in Contents
  BY TypeParts DEF WatchInv, CycleOK
<1>. DEFINE d == Len(deltas) + 1
<1>2. d \in DOMAIN deltas' /\ deltas'[d].portal = Portal(c) /\ deltas'[d].new = fetched[c]
  <2>1. /\ deltas' \in Seq(DeltaRows) /\ Len(deltas') = Len(deltas) + 1
        /\ deltas'[d].portal = Portal(c) /\ deltas'[d].new = fetched[c]
    BY <1>1, InsertTyped DEF RowsOK
  <2>2. Len(deltas) \in Nat /\ DOMAIN deltas' = 1..Len(deltas')
    BY <1>1, <2>1, LenProperties DEF RowsOK
  <2>. QED  BY <2>1, <2>2
<1>4. \A p \in Portals : \/ snapshot'[p] = snapshot[p]
                         \/ p = Portal(c) /\ snapshot'[p] = fetched[c]
  BY <1>1 DEF InsertRows, RowsOK
<1>5. ASSUME NEW p \in Portals, p = Portal(c), snapshot'[p] = fetched[c]
      PROVE  WillHaveDelta(p, snapshot'[p])
  BY <1>2, <1>5 DEF WillHaveDelta
<1>. QED  BY <1>4, <1>5

LEMMA TracedTouch ==
  ASSUME WatchInv, NEW c \in Cycles, pc[c] = "compare", TouchRow(c)
  PROVE  \A p \in Portals : \/ snapshot'[p] = snapshot[p]
                            \/ p = Portal(c) /\ snapshot'[p] = seen[c]
BY DEF TouchRow, WatchInv, TypeOK

LEMMA TracedStep ==
  ASSUME WatchInv, NEW c \in Cycles,
         Poll(c) \/ Trigger(c) \/ Proceed(c) \/ FetchFails(c) \/ DeltaRaises(c) \/ CycleDies(c)
  PROVE  Traced(c)
<1>1. LocalsOK
  BY TypeParts DEF WatchInv
<1>2. ASSUME UNCHANGED snapshot, pc'[c] # "compare"
      PROVE  Traced(c)
  BY <1>2 DEF Traced
<1>3. CASE Poll(c) \/ Trigger(c)
  <2>1. pc'[c] = "fetch" /\ UNCHANGED snapshot
    BY <1>1, <1>3 DEF Poll, Trigger, Goto, LocalsOK, database
  <2>. QED  BY <1>2, <2>1
<1>4. CASE Fetch(c)
  <2>1. pc'[c] = "select" /\ UNCHANGED snapshot
    BY <1>1, <1>4 DEF Fetch, Goto, LocalsOK, database
  <2>. QED  BY <1>2, <2>1
<1>5. CASE FetchFails(c)
  BY <1>1, <1>2, <1>5, AdvanceTyped DEF FetchFails, database
<1>6. CASE SelectLatest(c)
  BY <1>1, <1>6 DEF SelectLatest, LocalsOK, Traced
<1>7. CASE Heartbeat(c)
  BY <1>1, <1>7, TracedTouch, AdvanceTyped DEF Heartbeat, Traced
<1>8. CASE Insert(c)
  BY <1>1, <1>8, TracedInsert, AdvanceTyped DEF Insert, Traced
<1>9. CASE Alert(c) \/ Cascade(c) \/ CommitProcessed(c)
  <2>1. pc'[c] \in {"cascade", "commit", "announce"} /\ UNCHANGED snapshot
    BY <1>1, <1>9 DEF Alert, Cascade, CommitProcessed, Goto, LocalsOK
  <2>. QED  BY <1>2, <2>1
<1>10. CASE Announce(c) \/ DeltaRaises(c)
  <2>1. pc'[c] = "alerts" /\ UNCHANGED snapshot
    BY <1>1, <1>10 DEF Announce, DeltaRaises, NextDelta, LocalsOK, database
  <2>. QED  BY <1>2, <2>1
<1>11. CASE Finish(c)
  BY <1>1, <1>2, <1>11, LeaveTyped DEF Finish
<1>12. CASE CycleDies(c)
  <2>1. pc'[c] = "idle"
    BY <1>1, <1>12, LeaveTyped DEF CycleDies
  <2>2. \/ UNCHANGED snapshot
        \/ pc[c] = "compare" /\ TouchRow(c)
        \/ pc[c] = "compare" /\ InsertRows(c)
    BY <1>12 DEF CycleDies
  <2>. QED  BY <2>1, <2>2, TracedTouch, TracedInsert DEF Traced
<1>. QED  BY <1>3, <1>4, <1>5, <1>6, <1>7, <1>8, <1>9, <1>10, <1>11, <1>12 DEF Proceed

LEMMA TracedInv ==
  ASSUME WatchInv, DetectedInv, NEW c \in Cycles, Traced(c), Kept(c)
  PROVE  DetectedInv'
<1>1. RowsOK /\ DeltasGrow /\ LocalsOK
  BY TypeParts DEF WatchInv, Kept
<1>2. ASSUME NEW p \in Portals, snapshot'[p] # NoContent
      PROVE  WillHaveDelta(p, snapshot'[p])
  <2>1. CASE snapshot'[p] = snapshot[p]
    <3>1. HasDelta(p, snapshot[p])
      BY <1>2, <2>1 DEF DetectedInv
    <3>. QED  BY <1>1, <2>1, <3>1, HasDeltaStays
  <2>2. CASE pc[c] = "compare" /\ p = Portal(c) /\ snapshot'[p] = seen[c]
    <3>1. HasDelta(p, seen[c])
      BY <1>2, <2>2 DEF DetectedInv
    <3>. QED  BY <1>1, <2>2, <3>1, HasDeltaStays
  <2>. QED  BY <2>1, <2>2 DEF Traced
<1>3. ASSUME NEW d \in Cycles, pc'[d] = "compare", seen'[d] # NoContent
      PROVE  WillHaveDelta(Portal(d)', seen'[d])
  <2>1. CASE d = c
    <3>1. seen'[d] = snapshot[Portal(d)] /\ at'[d] = at[d] /\ Portal(d) \in Portals
      BY <1>1, <1>3, <2>1, PortalType DEF Traced
    <3>2. HasDelta(Portal(d), snapshot[Portal(d)])
      BY <1>3, <3>1 DEF DetectedInv
    <3>3. WillHaveDelta(Portal(d), snapshot[Portal(d)])
      BY <1>1, <3>1, <3>2, HasDeltaStays
    <3>4. Portal(d)' = Portal(d)
      BY <3>1 DEF Portal
    <3>. QED  BY <3>1, <3>3, <3>4
  <2>2. CASE d # c
    <3>1. pc[d] = "compare" /\ seen'[d] = seen[d] /\ at'[d] = at[d]
      BY <1>3, <2>2 DEF Kept, OthersStay
    <3>2. HasDelta(Portal(d), seen[d])
      BY <1>3, <3>1 DEF DetectedInv
    <3>3. WillHaveDelta(Portal(d), seen[d])
      BY <1>1, <3>1, <3>2, HasDeltaStays
    <3>4. Portal(d)' = Portal(d)
      BY <3>1 DEF Portal
    <3>. QED  BY <3>1, <3>3, <3>4
  <2>. QED  BY <2>1, <2>2
<1>. QED  BY <1>2, <1>3 DEF DetectedInv, HasDelta, WillHaveDelta

LEMMA DetectedIdle ==
  ASSUME DetectedInv, UNCHANGED <<database, cycle>>
  PROVE  DetectedInv'
BY DEF DetectedInv, HasDelta, database, cycle, Portal

LEMMA DetectedStep ==
  ASSUME WatchInv, DetectedInv, [Next]_vars
  PROVE  DetectedInv'
<1>1. ASSUME NEW c \in Cycles,
             Poll(c) \/ Trigger(c) \/ Proceed(c) \/ FetchFails(c) \/ DeltaRaises(c) \/ CycleDies(c)
      PROVE  DetectedInv'
  <2>1. Kept(c)
    BY <1>1, PollKept, TriggerKept, ProceedKept, FetchFailsKept, DeltaRaisesKept, CycleDiesKept
  <2>. QED  BY <1>1, <2>1, TracedStep, TracedInv
<1>2. ASSUME NEW p \in Portals, Publish(p) PROVE DetectedInv'
  BY <1>2, DetectedIdle DEF Publish
<1>3. CASE UNCHANGED vars
  BY <1>3, DetectedIdle DEF vars, database, transactions, cycle
<1>. QED  BY <1>1, <1>2, <1>3 DEF Next, Cycles

(* Every content the watch goes by has a delta with that content, however  *)
(* many pollers and demo triggers race (watcher.py, check_portal_for_changes). *)
THEOREM SnapshotHasDeltaHolds == Spec => []SnapshotHasDelta
<1>1. Init => DetectedInv
  BY DEF Init, DetectedInv
<1>2. WatchInv /\ DetectedInv /\ [Next]_vars => DetectedInv'
  BY DetectedStep
<1>3. DetectedInv => SnapshotHasDelta
  BY DEF DetectedInv, HasDelta, SnapshotHasDelta
<1>. QED  BY <1>1, <1>2, <1>3, WatchInvariance, PTL DEF Spec

-----------------------------------------------------------------------------
(* One cycle at a time: it compares with the newest row, the content of    *)
(* the newest row is where the last delta of the portal ended, so the next *)
(* delta starts there.                                                     *)

LastOf(p, d) ==
  /\ d \in DOMAIN deltas /\ deltas[d].portal = p
  /\ \A m \in DOMAIN deltas : m > d => deltas[m].portal # p

ChainInv ==
  /\ DeltaChain
  /\ \A p \in Portals : \A d \in DOMAIN deltas : LastOf(p, d) => deltas[d].new = snapshot[p]
  /\ \A c \in Cycles : behind[c] = {} /\ (pc[c] = "compare" => seen[c] = snapshot[Portal(c)])

(* Stages change, snapshots and what the deltas say do not.                *)
LEMMA ChainSame ==
  ASSUME WatchInv, ChainInv, DeltasGrow, Len(deltas') = Len(deltas), UNCHANGED snapshot
  PROVE  /\ DeltaChain'
         /\ \A p \in Portals : \A d \in DOMAIN deltas' :
              LastOf(p, d)' => deltas'[d].new = snapshot'[p]
<1>1. DOMAIN deltas = 1..Len(deltas) /\ DOMAIN deltas' = 1..Len(deltas)
  BY LenProperties DEF DeltasGrow, WatchInv, TypeOK
<1>2. \A i \in DOMAIN deltas : /\ deltas'[i].portal = deltas[i].portal
                               /\ deltas'[i].prev = deltas[i].prev
                               /\ deltas'[i].new = deltas[i].new
  BY <1>1 DEF DeltasGrow
<1>3. DeltaChain'
  BY <1>1, <1>2 DEF DeltaChain, ChainInv
<1>4. ASSUME NEW p \in Portals, NEW d \in DOMAIN deltas', LastOf(p, d)'
      PROVE  deltas'[d].new = snapshot'[p]
  <2>1. LastOf(p, d)
    BY <1>1, <1>2, <1>4 DEF LastOf
  <2>. QED  BY <1>1, <1>2, <2>1 DEF ChainInv
<1>. QED  BY <1>3, <1>4

(* The row inserted continues the chain of its portal.                     *)
LEMMA ChainInsert ==
  ASSUME WatchInv, ChainInv, NEW c \in Cycles, pc[c] = "compare", InsertRows(c)
  PROVE  /\ DeltaChain'
         /\ \A p \in Portals : \A d \in DOMAIN deltas' :
              LastOf(p, d)' => deltas'[d].new = snapshot'[p]
<1>. DEFINE n == Len(deltas) + 1
            q == Portal(c)
<1>1. RowsOK /\ LocalsOK /\ TransactionsOK /\ fetched[c] \in Contents /\ q \in Portals
  BY TypeParts, PortalType DEF WatchInv, CycleOK
<1>2. /\ DOMAIN deltas = 1..Len(deltas) /\ Len(deltas) \in Nat /\ DOMAIN deltas' = 1..n
      /\ deltas'[n].portal = q /\ deltas'[n].prev = seen[c] /\ deltas'[n].new = fetched[c]
      /\ \A i \in 1..Len(deltas) : deltas'[i] = deltas[i]
  <2>1. /\ deltas' \in Seq(DeltaRows) /\ Len(deltas') = Len(deltas) + 1
        /\ deltas'[Len(deltas) + 1].portal = Portal(c)
        /\ deltas'[Len(deltas) + 1].prev = seen[c]
        /\ deltas'[Len(deltas) + 1].new = fetched[c]
        /\ \A i \in 1..Len(deltas) : deltas'[i] = deltas[i]
    BY <1>1, InsertTyped DEF RowsOK
  <2>. QED  BY <1>1, <2>1, LenProperties DEF RowsOK
<1>3. seen[c] = snapshot[q] /\ snapshot' = [snapshot EXCEPT ![q] = fetched[c]]
  BY DEF ChainInv, InsertRows
<1>. HIDE DEF q, n
<1>4. n \in Nat /\ n > Len(deltas) /\ n = Len(deltas) + 1
  BY <1>2 DEF n
<1>5. ASSUME NEW i \in DOMAIN deltas', NEW k \in DOMAIN deltas',
             i < k, deltas'[i].portal = deltas'[k].portal,
             \A m \in DOMAIN deltas' : i < m /\ m < k => deltas'[m].portal # deltas'[i].portal
      PROVE  deltas'[k].prev = deltas'[i].new
  <2>1. CASE k # n
    <3>1. i \in DOMAIN deltas /\ k \in DOMAIN deltas
      BY <1>2, <1>4, <1>5, <2>1
    <3>. QED  BY <1>2, <1>4, <1>5, <3>1 DEF ChainInv, DeltaChain
  <2>2. CASE k = n
    <3>1. i \in DOMAIN deltas /\ deltas[i].portal = q
      BY <1>2, <1>4, <1>5, <2>2
    <3>2. \A m \in DOMAIN deltas : m > i => deltas[m].portal # q
      BY <1>2, <1>4, <1>5, <2>2, <3>1
    <3>3. deltas[i].new = snapshot[q]
      BY <1>1, <3>1, <3>2 DEF ChainInv, LastOf
    <3>. QED  BY <1>2, <1>3, <2>2, <3>1, <3>3
  <2>. QED  BY <2>1, <2>2
<1>6. ASSUME NEW p \in Portals, NEW d \in DOMAIN deltas', LastOf(p, d)'
      PROVE  deltas'[d].new = snapshot'[p]
  <2>0. n \in DOMAIN deltas'
    BY <1>2, <1>4
  <2>1. CASE p = q
    <3>1. d = n
      BY <1>2, <1>4, <1>6, <2>0, <2>1 DEF LastOf
    <3>. QED  BY <1>1, <1>2, <1>3, <2>1, <3>1 DEF RowsOK
  <2>2. CASE p # q
    <3>1. d # n
      BY <1>2, <1>6, <2>2 DEF LastOf
    <3>2. d \in DOMAIN deltas
      BY <1>2, <1>4, <3>1
    <3>3. LastOf(p, d)
      BY <1>2, <1>4, <1>6, <3>2 DEF LastOf
    <3>4. deltas[d].new = snapshot[p]
      BY <3>2, <3>3 DEF ChainInv
    <3>. QED  BY <1>1, <1>2, <1>3, <2>2, <3>2, <3>4 DEF RowsOK
  <2>. QED  BY <2>1, <2>2
<1>. QED  BY <1>5, <1>6 DEF DeltaChain

LEMMA ChainTouch ==
  ASSUME WatchInv, ChainInv, NEW c \in Cycles, pc[c] = "compare", TouchRow(c)
  PROVE  UNCHANGED snapshot
<1>1. snapshot' = [snapshot EXCEPT ![Portal(c)] = snapshot[Portal(c)]]
  BY DEF TouchRow, ChainInv
<1>. QED  BY <1>1 DEF WatchInv, TypeOK

(* What a step of c does to the rows, and to what c goes by.               *)
Tidy(c) ==
  /\ \/ UNCHANGED snapshot /\ Len(deltas') = Len(deltas)
     \/ pc[c] = "compare" /\ TouchRow(c)
     \/ pc[c] = "compare" /\ InsertRows(c)
  /\ pc'[c] = "compare" => UNCHANGED snapshot
  /\ behind'[c] \in {{}, behind[c]}

LEMMA BehindEnds ==
  ASSUME WatchInv, NEW c \in Cycles,
         EndTransaction(c) \/ TouchRow(c) \/ InsertRows(c)
  PROVE  behind'[c] = {}
BY DEF WatchInv, TypeOK, EndTransaction, TouchRow, InsertRows, FallBehind

LEMMA StageLength ==
  ASSUME WatchInv, NEW c \in Cycles, NEW s \in Stages, todo[c] # <<>>, SetStage(c, s)
  PROVE  Len(deltas') = Len(deltas)
BY StageTyped, TypeParts DEF WatchInv, CycleOK

LEMMA TidyStep ==
  ASSUME WatchInv, NEW c \in Cycles,
         Poll(c) \/ Trigger(c) \/ Proceed(c) \/ FetchFails(c) \/ DeltaRaises(c) \/ CycleDies(c)
  PROVE  Tidy(c)
<1>1. LocalsOK /\ CycleOK(c)
  BY TypeParts DEF WatchInv
<1>2. ASSUME UNCHANGED <<snapshot, deltas, behind>>
      PROVE  Tidy(c)
  BY <1>2 DEF Tidy
<1>3. CASE Poll(c) \/ Trigger(c) \/ Fetch(c) \/ FetchFails(c) \/ SelectLatest(c) \/ DeltaRaises(c)
  BY <1>2, <1>3 DEF Poll, Trigger, Fetch, FetchFails, SelectLatest, DeltaRaises, Begin,
     database, transactions
<1>4. CASE Heartbeat(c) \/ Insert(c)
  <2>1. pc[c] = "compare" /\ (TouchRow(c) \/ InsertRows(c)) /\ pc'[c] # "compare"
    BY <1>1, <1>4, AdvanceTyped DEF Heartbeat, Insert
  <2>. QED  BY <2>1, BehindEnds DEF Tidy
<1>5. CASE Alert(c) \/ Cascade(c) \/ CommitProcessed(c) \/ Announce(c)
  <2>1. todo[c] # <<>> /\ UNCHANGED <<snapshot, behind>>
    BY <1>1, <1>5 DEF CycleOK, Alert, Cascade, CommitProcessed, Announce, Goto, transactions
  <2>2. Len(deltas') = Len(deltas)
    BY <1>5, <2>1, StageLength DEF Alert, Cascade, CommitProcessed, Announce, Stages
  <2>. QED  BY <2>1, <2>2 DEF Tidy
<1>6. CASE Finish(c)
  BY <1>6, BehindEnds DEF Finish, Tidy
<1>7. CASE CycleDies(c)
  <2>1. pc'[c] # "compare"
    BY <1>1, <1>7, LeaveTyped DEF CycleDies
  <2>2. CASE EndTransaction(c) /\ UNCHANGED <<snapshot, deltas>>
    BY <2>1, <2>2, BehindEnds DEF Tidy
  <2>3. CASE pc[c] = "compare" /\ (TouchRow(c) \/ InsertRows(c))
    BY <2>1, <2>3, BehindEnds DEF Tidy
  <2>4. ASSUME NEW s \in Stages, todo[c] # <<>>, SetStage(c, s), EndTransaction(c),
               UNCHANGED snapshot
        PROVE  Tidy(c)
    BY <2>1, <2>4, BehindEnds, StageLength DEF Tidy
  <2>5. {"alerted", "cascaded", "processed", "ledgered"} \subseteq Stages
    BY DEF Stages
  <2>. QED  BY <1>1, <1>7, <2>2, <2>3, <2>4, <2>5 DEF CycleDies, CycleOK
<1>. QED  BY <1>3, <1>4, <1>5, <1>6, <1>7 DEF Proceed

LEMMA ChainStep ==
  ASSUME \A c, d \in Cycles : c = d, WatchInv, ChainInv, [Next]_vars
  PROVE  ChainInv'
<1>1. ASSUME NEW c \in Cycles,
             Poll(c) \/ Trigger(c) \/ Proceed(c) \/ FetchFails(c) \/ DeltaRaises(c) \/ CycleDies(c)
      PROVE  ChainInv'
  <2>1. Tidy(c) /\ Traced(c)
    BY <1>1, TidyStep, TracedStep
  <2>2. DeltasGrow
    BY StepInv
  <2>3. /\ DeltaChain'
        /\ \A p \in Portals : \A d \in DOMAIN deltas' :
             LastOf(p, d)' => deltas'[d].new = snapshot'[p]
    <3>1. CASE UNCHANGED snapshot /\ Len(deltas') = Len(deltas)
      BY <2>2, <3>1, ChainSame
    <3>2. CASE pc[c] = "compare" /\ TouchRow(c)
      <4>1. UNCHANGED snapshot /\ Len(deltas') = Len(deltas)
        BY <3>2, ChainTouch DEF TouchRow
      <4>. QED  BY <2>2, <4>1, ChainSame
    <3>3. CASE pc[c] = "compare" /\ InsertRows(c)
      BY <3>3, ChainInsert
    <3>. QED  BY <2>1, <3>1, <3>2, <3>3 DEF Tidy
  <2>4. behind'[c] = {}
    BY <2>1 DEF Tidy, ChainInv
  <2>5. pc'[c] = "compare" => seen'[c] = snapshot'[Portal(c)']
    BY <2>1 DEF Tidy, Traced, Portal
  <2>. QED  BY <2>3, <2>4, <2>5 DEF ChainInv
<1>2. ASSUME UNCHANGED <<database, cycle>> PROVE ChainInv'
  BY <1>2 DEF database, transactions, cycle, ChainInv, DeltaChain, LastOf, Portal
<1>3. ASSUME NEW p \in Portals, Publish(p) PROVE ChainInv'
  BY <1>2, <1>3 DEF Publish
<1>4. CASE UNCHANGED vars
  BY <1>2, <1>4 DEF vars, database, transactions, cycle
<1>. QED  BY <1>1, <1>3, <1>4 DEF Next, Cycles

(* With one poller and no demo triggers, whatever the portals publish and  *)
(* whatever fails, each delta of a portal starts from the content the      *)
(* previous one ended with: the history of a regulation has no gap.        *)
THEOREM DeltaChainHolds ==
  ASSUME \A c, d \in Cycles : c = d
  PROVE  Spec => []DeltaChain
<1>1. Init => ChainInv
  BY DEF Init, ChainInv, DeltaChain, LastOf
<1>2. WatchInv /\ ChainInv /\ [Next]_vars => ChainInv'
  BY ChainStep
<1>3. ChainInv => DeltaChain
  BY DEF ChainInv
<1>. QED  BY <1>1, <1>2, <1>3, WatchInvariance, PTL DEF Spec

-----------------------------------------------------------------------------
(* What a failure costs.  X are the deltas a step of c lets go of; a delta *)
(* is abandoned by that step only if it is one of them.                    *)

Held(c) == {todo[c][i] : i \in DOMAIN todo[c]}

LEMMA HeldInHand ==
  \A d : InHand(d) <=> \E c \in Cycles : d \in Held(c)
BY DEF InHand, Held

LEMMA HeldBound ==
  ASSUME WatchInv, NEW c \in Cycles
  PROVE  /\ Held(c) \subseteq DOMAIN deltas
         /\ IsFiniteSet(Held(c)) /\ Cardinality(Held(c)) <= Len(todo[c])
         /\ Len(todo[c]) \in Nat
<1>1. todo[c] \in Seq(1..Len(deltas)) /\ DOMAIN deltas = 1..Len(deltas)
  BY LenProperties DEF WatchInv, TypeOK, CycleOK
<1>2. Len(todo[c]) \in Nat /\ DOMAIN todo[c] = 1..Len(todo[c])
      /\ todo[c] \in [1..Len(todo[c]) -> 1..Len(deltas)]
  BY <1>1, LenProperties
<1>3. todo[c] \in Surjection(1..Len(todo[c]), Held(c))
  BY <1>2 DEF Surjection, Held
<1>4. IsFiniteSet(1..Len(todo[c])) /\ Cardinality(1..Len(todo[c])) = Len(todo[c])
  BY <1>2, FS_Interval
<1>. QED  BY <1>1, <1>2, <1>3, <1>4, FS_Surjection DEF Held

LEMMA LetGo ==
  ASSUME WatchInv, NEW c \in Cycles, OthersStay(c), DeltasGrow, NEW X,
         \A d \in DOMAIN deltas : \/ d \in X
                                  \/ d \in Held(c)'
                                  \/ deltas'[d].stage = "ledgered"
                                  \/ d \notin Held(c) /\ deltas'[d].stage = deltas[d].stage,
         \A d \in DOMAIN deltas' \ DOMAIN deltas : d \in X \/ d \in Held(c)'
  PROVE  Abandoned' \subseteq Abandoned \cup X
<1>. SUFFICES ASSUME NEW d \in DOMAIN deltas', deltas'[d].stage # "ledgered", ~InHand(d)', d \notin X
              PROVE  d \in Abandoned
  BY DEF Abandoned
<1>1. \A e \in Cycles : d \notin Held(e)'
  BY DEF InHand, Held
<1>2. d \in DOMAIN deltas /\ d \notin Held(c) /\ deltas[d].stage # "ledgered"
  BY <1>1
<1>3. \A e \in Cycles \ {c} : Held(e)' = Held(e)
  BY DEF OthersStay, Held
<1>4. ~InHand(d)
  BY <1>1, <1>2, <1>3, HeldInHand
<1>. QED  BY <1>2, <1>4 DEF Abandoned

(* A step costs nothing, or it is a failure and costs at most one delta of *)
(* each portal.                                                            *)
Costs ==
  \/ Abandoned' \subseteq Abandoned /\ faults' = faults
  \/ /\ faults' = faults + 1
     /\ \E X : /\ IsFiniteSet(X) /\ Cardinality(X) <= Len(PortalSeq)
               /\ Abandoned' \subseteq Abandoned \cup X

LEMMA RowsFinite ==
  ASSUME NEW D, NEW s \in Seq(D), NEW A \in SUBSET DOMAIN s
  PROVE  IsFiniteSet(A) /\ Cardinality(A) \in Nat
<1>1. Len(s) \in Nat /\ DOMAIN s = 1..Len(s)
  BY LenProperties
<1>2. IsFiniteSet(1..Len(s))
  BY <1>1, FS_Interval
<1>3. IsFiniteSet(A)
  BY <1>1, <1>2, FS_Subset
<1>. QED  BY <1>3, FS_CardinalityType

LEMMA CostBound ==
  ASSUME WatchInv, WatchInv', AbandonedPerFault, Costs
  PROVE  AbandonedPerFault'
<1>1. IsFiniteSet(Abandoned) /\ Cardinality(Abandoned) \in Nat
      /\ IsFiniteSet(Abandoned') /\ Cardinality(Abandoned') \in Nat
  <2>1. deltas \in Seq(DeltaRows) /\ deltas' \in Seq(DeltaRows)
    BY DEF WatchInv, TypeOK
  <2>2. Abandoned \in SUBSET DOMAIN deltas /\ Abandoned' \in SUBSET DOMAIN deltas'
    BY DEF Abandoned
  <2>. QED  BY <2>1, <2>2, RowsFinite
<1>2. faults \in Nat /\ Len(PortalSeq) \in Nat
  BY PortalsOK, WatchAssumption DEF WatchInv, TypeOK
<1>3. CASE Abandoned' \subseteq Abandoned /\ faults' = faults
  <2>1. Cardinality(Abandoned') <= Cardinality(Abandoned)
    BY <1>1, <1>3, FS_Subset
  <2>2. faults * Len(PortalSeq) \in Nat
    BY <1>2
  <2>. QED  BY <1>1, <1>3, <2>1, <2>2 DEF AbandonedPerFault
<1>4. ASSUME NEW X, IsFiniteSet(X), Cardinality(X) <= Len(PortalSeq), faults' = faults + 1,
             Abandoned' \subseteq Abandoned \cup X
      PROVE  AbandonedPerFault'
  <2>1. Cardinality(X) \in Nat
    BY <1>4, FS_CardinalityType
  <2>2. /\ IsFiniteSet(Abandoned \cup X) /\ IsFiniteSet(Abandoned \cap X)
        /\ Cardinality(Abandoned \cup X) =
             Cardinality(Abandoned) + Cardinality(X) - Cardinality(Abandoned \cap X)
    BY <1>1, <1>4, FS_Union, FS_Subset
  <2>3. Cardinality(Abandoned') <= Cardinality(Abandoned \cup X)
    BY <1>4, <2>2, FS_Subset
  <2>4. Cardinality(Abandoned \cap X) \in Nat
    BY <2>2, FS_CardinalityType
  <2>5. Cardinality(Abandoned') <= Cardinality(Abandoned) + Len(PortalSeq)
    BY <1>1, <1>2, <1>4, <2>1, <2>2, <2>3, <2>4
  <2>6. (faults + 1) * Len(PortalSeq) = faults * Len(PortalSeq) + Len(PortalSeq)
        /\ faults * Len(PortalSeq) \in Nat
    BY <1>2
  <2>. QED  BY <1>1, <1>2, <1>4, <2>5, <2>6 DEF AbandonedPerFault
<1>. QED  BY <1>3, <1>4 DEF Costs

(* A step that holds on to its deltas and ledgers none.                    *)
LEMMA HoldsOn ==
  ASSUME WatchInv, NEW c \in Cycles, OthersStay(c), DeltasGrow, Len(deltas') = Len(deltas),
         todo'[c] = todo[c], faults' = faults,
         \A d \in DOMAIN deltas : d \in Held(c) \/ deltas'[d].stage = deltas[d].stage
  PROVE  Costs
<1>1. Held(c)' = Held(c)
  BY DEF Held
<1>2. DOMAIN deltas' = DOMAIN deltas
  BY LenProperties DEF WatchInv, TypeOK, DeltasGrow
<1>3. Abandoned' \subseteq Abandoned \cup {}
  BY <1>1, <1>2, LetGo
<1>. QED  BY <1>3 DEF Costs

LEMMA OneCosts ==
  ASSUME NEW x, faults' = faults + 1, Abandoned' \subseteq Abandoned \cup {x}
  PROVE  Costs
<1>1. IsFiniteSet({x}) /\ Cardinality({x}) = 1
  BY FS_Singleton
<1>. QED  BY <1>1, PortalsOK DEF Costs

LEMMA CurrentHeld ==
  ASSUME WatchInv, NEW c \in Cycles, todo[c] # <<>>
  PROVE  /\ Current(c) \in Held(c)
         /\ \A d \in Held(c) : d # Current(c) => \E i \in DOMAIN Tail(todo[c]) : Tail(todo[c])[i] = d
<1>1. todo[c] \in Seq(1..Len(deltas))
  BY DEF WatchInv, CycleOK
<1>2. /\ Len(todo[c]) \in Nat /\ Len(todo[c]) >= 1 /\ DOMAIN todo[c] = 1..Len(todo[c])
      /\ Head(todo[c]) = todo[c][1] /\ Len(Tail(todo[c])) = Len(todo[c]) - 1
      /\ DOMAIN Tail(todo[c]) = 1..(Len(todo[c]) - 1)
      /\ \A i \in 1..(Len(todo[c]) - 1) : Tail(todo[c])[i] = todo[c][i + 1]
  BY <1>1, HeadTailProperties, LenProperties, EmptySeq
<1>3. Current(c) \in Held(c)
  BY <1>2 DEF Current, Held
<1>4. ASSUME NEW d \in Held(c), d # Current(c)
      PROVE  \E i \in DOMAIN Tail(todo[c]) : Tail(todo[c])[i] = d
  <2>1. PICK k \in 1..Len(todo[c]) : todo[c][k] = d
    BY <1>2 DEF Held
  <2>2. k # 1
    BY <1>2, <1>4, <2>1 DEF Current
  <2>3. k - 1 \in 1..(Len(todo[c]) - 1) /\ k = (k - 1) + 1
    BY <1>2, <2>1, <2>2
  <2>. QED  BY <1>2, <2>1, <2>3
<1>. QED  BY <1>3, <1>4

(* Moving on, a cycle lets go of the current delta only.                   *)
LEMMA NextDeltaHeld ==
  ASSUME WatchInv, NEW c \in Cycles, todo[c] # <<>>, NextDelta(c)
  PROVE  \A d \in Held(c) : d = Current(c) \/ d \in Held(c)'
<1>1. todo'[c] = Tail(todo[c])
  BY DEF NextDelta, WatchInv, TypeOK
<1>. QED  BY <1>1, CurrentHeld DEF Held

LEMMA InsertCosts ==
  ASSUME WatchInv, NEW c \in Cycles, Insert(c), Kept(c)
  PROVE  Costs
<1>1. RowsOK /\ LocalsOK /\ TransactionsOK /\ fetched[c] \in Contents
  BY TypeParts DEF WatchInv, CycleOK, Insert
<1>2. /\ deltas' \in Seq(DeltaRows) /\ Len(deltas') = Len(deltas) + 1
      /\ \A i \in 1..Len(deltas) : deltas'[i] = deltas[i]
  BY <1>1, InsertTyped DEF Insert, RowsOK
<1>3. DOMAIN deltas = 1..Len(deltas) /\ DOMAIN deltas' = 1..(Len(deltas) + 1)
      /\ Len(deltas) \in Nat
  BY <1>1, <1>2, LenProperties DEF RowsOK
<1>4. todo'[c] = Append(todo[c], Len(deltas) + 1) /\ todo[c] \in Seq(Nat)
  BY <1>1 DEF Insert, LocalsOK
<1>5. Held(c) \subseteq Held(c)' /\ Len(deltas) + 1 \in Held(c)'
  <2>1. /\ DOMAIN todo[c] = 1..Len(todo[c]) /\ Len(todo[c]) \in Nat
        /\ DOMAIN todo'[c] = 1..(Len(todo[c]) + 1)
        /\ \A i \in 1..Len(todo[c]) : todo'[c][i] = todo[c][i]
        /\ todo'[c][Len(todo[c]) + 1] = Len(deltas) + 1
    BY <1>3, <1>4, AppendProperties, LenProperties
  <2>2. \A i \in DOMAIN todo[c] : i \in DOMAIN todo'[c] /\ todo'[c][i] = todo[c][i]
    BY <2>1
  <2>3. Len(todo[c]) + 1 \in DOMAIN todo'[c]
    BY <2>1
  <2>. QED  BY <2>1, <2>2, <2>3 DEF Held
<1>6. Abandoned' \subseteq Abandoned \cup {}
  <2>1. \A d \in DOMAIN deltas : d \in Held(c)' \/ (d \notin Held(c) /\ deltas'[d].stage = deltas[d].stage)
    BY <1>2, <1>3, <1>5
  <2>2. \A d \in DOMAIN deltas' \ DOMAIN deltas : d \in Held(c)'
    BY <1>3, <1>5
  <2>. QED  BY <2>1, <2>2, LetGo DEF Kept
<1>. QED  BY <1>6 DEF Costs, Insert

LEMMA CycleDiesCosts ==
  ASSUME WatchInv, NEW c \in Cycles, CycleDies(c), Kept(c)
  PROVE  Costs
<1>1. /\ RowsOK /\ LocalsOK /\ TransactionsOK /\ CycleOK(c)
      /\ DeltasGrow /\ OthersStay(c)
  BY TypeParts DEF WatchInv, Kept
<1>2. faults' = faults + 1
  BY DEF CycleDies, Fault
<1>3. /\ IsFiniteSet(Held(c)) /\ Cardinality(Held(c)) <= Len(todo[c]) /\ Len(todo[c]) \in Nat
      /\ Cardinality(Held(c)) \in Nat
  BY HeldBound, FS_CardinalityType
<1>4. at[c] \in 1..Len(PortalSeq) /\ Len(PortalSeq) \in Nat
  BY <1>1, PortalType, PortalsOK
<1>5. Len(todo[c]) <= Len(PortalSeq)
  BY <1>1, <1>3, <1>4 DEF CycleOK
<1>6. ASSUME Len(deltas') = Len(deltas),
             \A d \in DOMAIN deltas : d \in Held(c) \/ deltas'[d].stage = deltas[d].stage
      PROVE  Costs
  <2>1. DOMAIN deltas' = DOMAIN deltas
    BY <1>1, <1>6, LenProperties DEF RowsOK, DeltasGrow
  <2>2. Abandoned' \subseteq Abandoned \cup Held(c)
    BY <1>1, <1>6, <2>1, LetGo
  <2>3. Cardinality(Held(c)) <= Len(PortalSeq)
    BY <1>3, <1>4, <1>5
  <2>. QED  BY <1>2, <1>3, <2>2, <2>3 DEF Costs
<1>7. CASE UNCHANGED deltas
  BY <1>6, <1>7
<1>8. ASSUME NEW s \in Stages, todo[c] # <<>>, SetStage(c, s)
      PROVE  Costs
  <2>1. /\ Len(deltas') = Len(deltas)
        /\ \A d \in 1..Len(deltas) : d # Current(c) => deltas'[d] = deltas[d]
    BY <1>1, <1>8, StageTyped DEF CycleOK
  <2>2. Current(c) \in Held(c) /\ DOMAIN deltas = 1..Len(deltas)
    BY <1>1, <1>8, CurrentHeld, LenProperties DEF RowsOK
  <2>. QED  BY <1>6, <2>1, <2>2
<1>9. CASE pc[c] = "compare" /\ InsertRows(c)
  <2>. DEFINE n == Len(deltas) + 1
              X == Held(c) \cup {n}
  <2>1. /\ deltas' \in Seq(DeltaRows) /\ Len(deltas') = n
        /\ \A d \in 1..Len(deltas) : deltas'[d] = deltas[d]
    BY <1>1, <1>9, InsertTyped DEF CycleOK, RowsOK
  <2>2. /\ DOMAIN deltas = 1..Len(deltas) /\ DOMAIN deltas' = 1..n
        /\ Len(deltas) \in Nat
    BY <1>1, <2>1, LenProperties DEF RowsOK
  <2>3. Abandoned' \subseteq Abandoned \cup X
    <3>1. \A d \in DOMAIN deltas : d \in X \/ (d \notin Held(c) /\ deltas'[d].stage = deltas[d].stage)
      BY <2>1, <2>2
    <3>2. \A d \in DOMAIN deltas' \ DOMAIN deltas : d \in X
      BY <2>2
    <3>. HIDE DEF X
    <3>. QED  BY <1>1, <3>1, <3>2, LetGo
  <2>4. IsFiniteSet(X) /\ Cardinality(X) <= Cardinality(Held(c)) + 1
    <3>1. /\ IsFiniteSet(Held(c) \cup {n})
          /\ Cardinality(Held(c) \cup {n})
               = IF n \in Held(c) THEN Cardinality(Held(c)) ELSE Cardinality(Held(c)) + 1
      BY <1>3, FS_AddElement
    <3>. QED  BY <1>3, <3>1
  <2>5. Len(todo[c]) <= at[c] - 1
    BY <1>1, <1>9 DEF CycleOK
  <2>6. Cardinality(X) \in Nat
    BY <2>4, FS_CardinalityType
  <2>7. Cardinality(X) <= Len(PortalSeq)
    <3>. HIDE DEF X
    <3>. QED  BY <1>3, <1>4, <2>4, <2>5, <2>6
  <2>. QED  BY <1>2, <2>3, <2>4, <2>7 DEF Costs
<1>10. {"alerted", "cascaded", "processed", "ledgered"} \subseteq Stages
  BY DEF Stages
<1>. QED  BY <1>1, <1>7, <1>8, <1>9, <1>10 DEF CycleDies, CycleOK, TouchRow

LEMMA CostsStep ==
  ASSUME WatchInv, NEW c \in Cycles, Kept(c),
         Poll(c) \/ Trigger(c) \/ Proceed(c) \/ FetchFails(c) \/ DeltaRaises(c) \/ CycleDies(c)
  PROVE  Costs
<1>1. /\ RowsOK /\ LocalsOK /\ CycleOK(c) /\ DeltasGrow /\ OthersStay(c)
      /\ DOMAIN deltas = 1..Len(deltas)
  BY TypeParts, LenProperties DEF WatchInv, Kept, RowsOK
<1>2. ASSUME UNCHANGED <<deltas, todo>>, faults' \in {faults, faults + 1}
      PROVE  Costs
  <2>1. Abandoned' = Abandoned
    BY <1>2 DEF Abandoned, InHand
  <2>2. IsFiniteSet({}) /\ Cardinality({}) = 0
    BY FS_EmptySet
  <2>. QED  BY <1>2, <2>1, <2>2, PortalsOK DEF Costs
<1>3. CASE Poll(c) \/ Trigger(c) \/ Fetch(c) \/ FetchFails(c) \/ SelectLatest(c) \/ Heartbeat(c)
  BY <1>2, <1>3 DEF Poll, Trigger, Fetch, FetchFails, SelectLatest, Heartbeat, TouchRow, Fault,
     database
<1>4. CASE Insert(c)
  BY <1>4, InsertCosts
<1>5. CASE Alert(c) \/ Cascade(c) \/ CommitProcessed(c)
  <2>1. todo[c] # <<>> /\ UNCHANGED <<todo, faults>>
    BY <1>1, <1>5 DEF CycleOK, Alert, Cascade, CommitProcessed, Goto
  <2>2. /\ Len(deltas') = Len(deltas)
        /\ \A d \in 1..Len(deltas) : d # Current(c) => deltas'[d] = deltas[d]
    BY <1>1, <1>5, <2>1, StageTyped DEF Alert, Cascade, CommitProcessed, Stages, CycleOK
  <2>3. Current(c) \in Held(c)
    BY <2>1, CurrentHeld
  <2>. QED  BY <1>1, <2>1, <2>2, <2>3, HoldsOn
<1>6. CASE Announce(c)
  <2>1. todo[c] # <<>> /\ "ledgered" \in Stages /\ SetStage(c, "ledgered") /\ NextDelta(c)
    BY <1>1, <1>6 DEF CycleOK, Announce, Stages
  <2>2. /\ Len(deltas') = Len(deltas) /\ deltas'[Current(c)].stage = "ledgered"
        /\ \A d \in 1..Len(deltas) : d # Current(c) => deltas'[d] = deltas[d]
    BY <1>1, <2>1, StageTyped DEF CycleOK
  <2>3. \A d \in Held(c) : d = Current(c) \/ d \in Held(c)'
    BY <2>1, NextDeltaHeld
  <2>4. DOMAIN deltas' = DOMAIN deltas
    BY <1>1, <2>2, LenProperties DEF DeltasGrow
  <2>5. Abandoned' \subseteq Abandoned \cup {}
    BY <1>1, <2>2, <2>3, <2>4, LetGo
  <2>. QED  BY <1>6, <2>5 DEF Costs, Announce
<1>7. CASE DeltaRaises(c)
  <2>1. /\ todo[c] # <<>> /\ NextDelta(c) /\ UNCHANGED deltas /\ faults' = faults + 1
    BY <1>7 DEF DeltaRaises, database, Fault
  <2>2. \A d \in Held(c) : d = Current(c) \/ d \in Held(c)'
    BY <2>1, NextDeltaHeld
  <2>3. Abandoned' \subseteq Abandoned \cup {Current(c)}
    BY <1>1, <2>1, <2>2, LetGo
  <2>. QED  BY <2>1, <2>3, OneCosts
<1>8. CASE Finish(c)
  <2>1. todo[c] = <<>> /\ UNCHANGED <<deltas, faults>>
    BY <1>8 DEF Finish
  <2>2. Held(c) = {}
    BY <2>1 DEF Held
  <2>3. Abandoned' \subseteq Abandoned \cup {}
    BY <1>1, <2>1, <2>2, LetGo
  <2>. QED  BY <2>1, <2>3 DEF Costs
<1>9. CASE CycleDies(c)
  BY <1>9, CycleDiesCosts
<1>. QED  BY <1>3, <1>4, <1>5, <1>6, <1>7, <1>8, <1>9 DEF Proceed

(* A delta is left unprocessed only by a failure, and a failure leaves at  *)
(* most one delta of each portal behind, however many cycles run at once   *)
(* (orchestrator.py, run_cycle).                                           *)
THEOREM AbandonedPerFaultHolds == Spec => []AbandonedPerFault
<1>1. Init => AbandonedPerFault
  <2>1. Init => Abandoned = {} /\ faults = 0
    BY DEF Init, Abandoned
  <2>2. Cardinality({}) = 0
    BY FS_EmptySet
  <2>3. 0 <= 0 * Len(PortalSeq)
    BY PortalsOK
  <2>. QED  BY <2>1, <2>2, <2>3, Zenon DEF AbandonedPerFault
<1>2. ASSUME WatchInv, AbandonedPerFault, [Next]_vars
      PROVE  AbandonedPerFault'
  <2>1. WatchInv'
    BY <1>2, StepInv
  <2>2. ASSUME NEW c \in Cycles,
               Poll(c) \/ Trigger(c) \/ Proceed(c) \/ FetchFails(c) \/ DeltaRaises(c) \/ CycleDies(c)
        PROVE  Costs
    <3>1. Kept(c)
      BY <1>2, <2>2, PollKept, TriggerKept, ProceedKept, FetchFailsKept, DeltaRaisesKept, CycleDiesKept
    <3>. QED  BY <1>2, <2>2, <3>1, CostsStep
  <2>3. ASSUME UNCHANGED <<deltas, todo, faults>>
        PROVE  Costs
    BY <2>3 DEF Costs, Abandoned, InHand
  <2>4. Costs
    BY <1>2, <2>2, <2>3 DEF Next, Cycles, Publish, database, cycle, vars
  <2>. QED  BY <1>2, <2>1, <2>4, CostBound
<1>. QED  BY <1>1, <1>2, WatchInvariance, PTL DEF Spec

-----------------------------------------------------------------------------
(* Deltas per publication.                                                 *)

CycleCount == Cardinality(Cycles)

LEMMA CyclesCounted ==
  ASSUME NEW A \in SUBSET Cycles
  PROVE  /\ IsFiniteSet(A) /\ Cardinality(A) \in Nat /\ CycleCount \in Nat
         /\ Cardinality(A) <= CycleCount
BY WatchAssumption, FS_Subset, FS_CardinalityType DEF CycleCount

LEMMA NotMore ==
  ASSUME NEW B \in SUBSET Cycles, NEW A \in SUBSET B
  PROVE  Cardinality(A) <= Cardinality(B)
BY CyclesCounted, FS_Subset

LEMMA OneFewer ==
  ASSUME NEW B \in SUBSET Cycles, NEW c \in B, NEW A \in SUBSET (B \ {c})
  PROVE  Cardinality(A) + 1 <= Cardinality(B)
<1>1. Cardinality(A) <= Cardinality(B \ {c})
  BY NotMore
<1>2. Cardinality(B \ {c}) = Cardinality(B) - 1
  BY CyclesCounted, FS_RemoveElement
<1>. QED  BY <1>1, <1>2, CyclesCounted

LEMMA OneMore ==
  ASSUME NEW B \in SUBSET Cycles, NEW c \in Cycles, NEW A \in SUBSET (B \cup {c})
  PROVE  Cardinality(A) <= Cardinality(B) + 1 /\ CycleCount >= 1
<1>1. A \in SUBSET Cycles /\ {c} \in SUBSET Cycles
  OBVIOUS
<1>2. Cardinality({c}) = 1
  BY FS_Singleton
<1>3. CASE c \notin A
  BY <1>1, <1>2, <1>3, CyclesCounted, NotMore
<1>4. CASE c \in A
  <2>1. Cardinality(A \ {c}) = Cardinality(A) - 1
    BY <1>1, <1>4, CyclesCounted, FS_RemoveElement
  <2>2. Cardinality(A \ {c}) <= Cardinality(B)
    BY NotMore
  <2>. QED  BY <1>1, <1>2, <2>1, <2>2, CyclesCounted
<1>. QED  BY <1>3, <1>4

LEMMA Times ==
  ASSUME NEW k \in Nat, NEW a \in Nat, NEW b \in Nat, a <= b
  PROVE  k * a <= k * b /\ k * a \in Nat /\ k * b \in Nat
<1>1. PICK d \in Nat : b = a + d
  <2>1. b - a \in Nat /\ b = a + (b - a)
    OBVIOUS
  <2>. QED  BY <2>1
<1>2. k * b = k * a + k * d /\ k * a \in Nat /\ k * d \in Nat
  BY <1>1
<1>. QED  BY <1>2

(* What a step may do to the sum: n deltas, u due, m misled, s publications *)
(* and triggers.  A delta that was due arrives; a misled cycle is through; *)
(* a publication misleads everybody; a trigger one more.                   *)
LEMMA Budget ==
  ASSUME NEW n \in Nat, NEW u \in Nat, NEW m \in Nat, NEW s \in Nat, NEW k \in Nat,
         NEW n1 \in Nat, NEW u1 \in Nat, NEW m1 \in Nat, NEW s1 \in Nat,
         n + u + (2 * k + 1) * m <= k + (k * (2 * k + 3)) * s,
         \/ n1 + u1 <= n + u /\ m1 <= m /\ s <= s1
         \/ n1 <= n + 1 /\ u1 <= 2 * k /\ m1 + 1 <= m /\ s <= s1
         \/ n1 <= n /\ u1 <= 2 * k /\ m1 <= k /\ s1 = s + 1
         \/ n1 <= n /\ u1 <= u /\ m1 <= m + 1 /\ s1 = s + 1 /\ k >= 1
  PROVE  n1 + u1 + (2 * k + 1) * m1 <= k + (k * (2 * k + 3)) * s1
<1>. DEFINE w == 2 * k + 1
            b == k * (2 * k + 3)
<1>1. w \in Nat /\ b \in Nat /\ 2 * k \in Nat
  OBVIOUS
<1>2. w * m \in Nat /\ w * m1 \in Nat /\ b * s \in Nat /\ b * s1 \in Nat
  <2>. HIDE DEF w, b
  <2>. QED  BY <1>1
<1>3. n + u + w * m <= k + b * s
  OBVIOUS
<1>4. w = 2 * k + 1
  OBVIOUS
<1>5. b = 2 * k + w * k
  <2>1. b = (2 * k) * k + 3 * k /\ w * k = (2 * k) * k + k
    OBVIOUS
  <2>2. (2 * k) * k \in Nat
    OBVIOUS
  <2>. HIDE DEF w, b
  <2>. QED  BY <2>1, <2>2
<1>6. s <= s1 => b * s <= b * s1
  <2>. HIDE DEF b
  <2>. QED  BY <1>1, Times
<1>7. s1 = s + 1 => b * s1 = b * s + b
  <2>. HIDE DEF b
  <2>. QED  BY <1>1
<1>8. m1 <= m => w * m1 <= w * m
  <2>. HIDE DEF w
  <2>. QED  BY <1>1, Times
<1>9. m1 + 1 <= m => w * m1 + w <= w * m
  <2>1. w * (m1 + 1) = w * m1 + w
    OBVIOUS
  <2>. HIDE DEF w
  <2>. QED  BY <1>1, <2>1, Times
<1>10. m1 <= k => w * m1 <= w * k /\ w * k \in Nat
  <2>. HIDE DEF w
  <2>. QED  BY <1>1, Times
<1>11. m1 <= m + 1 => w * m1 <= w * m + w
  <2>1. w * (m + 1) = w * m + w
    OBVIOUS
  <2>. HIDE DEF w
  <2>. QED  BY <1>1, <2>1, Times
<1>12. k >= 1 => w <= b
  <2>1. 1 <= k => w * 1 <= w * k
    <3>. HIDE DEF w
    <3>. QED  BY <1>1, Times
  <2>2. w * 1 = w
    OBVIOUS
  <2>3. w * k \in Nat
    OBVIOUS
  <2>. HIDE DEF w, b
  <2>. QED  BY <1>1, <1>5, <2>1, <2>2, <2>3
<1>13. w * k \in Nat
  OBVIOUS
<1>. HIDE DEF w, b
<1>. DEFINE Paid == n1 + u1 + w * m1 <= k + b * s1
<1>14. n1 + u1 <= n + u /\ m1 <= m /\ s <= s1 => Paid
  BY <1>1, <1>2, <1>3, <1>6, <1>8
<1>15. n1 <= n + 1 /\ u1 <= 2 * k /\ m1 + 1 <= m /\ s <= s1 => Paid
  BY <1>1, <1>2, <1>3, <1>4, <1>6, <1>9
<1>16. n1 <= n /\ u1 <= 2 * k /\ m1 <= k /\ s1 = s + 1 => Paid
  BY <1>1, <1>2, <1>3, <1>5, <1>7, <1>10, <1>13
<1>17. n1 <= n /\ u1 <= u /\ m1 <= m + 1 /\ s1 = s + 1 /\ k >= 1 => Paid
  BY <1>1, <1>2, <1>3, <1>7, <1>11, <1>12
<1>18. Paid
  <2>. HIDE DEF Paid
  <2>. QED  BY <1>14, <1>15, <1>16, <1>17, Zenon
<1>. QED  BY <1>18 DEF w, b

(* The numbers of the sum are numbers, and nobody is counted twice.        *)
Counted(p) ==
  /\ IsFiniteSet(DeltasOf(p)) /\ Cardinality(DeltasOf(p)) \in Nat
  /\ Due(p) \in Nat /\ Due(p) <= 2 * CycleCount
  /\ Cardinality(Misled(p)) \in Nat /\ Cardinality(Misled(p)) <= CycleCount
  /\ SumFunction(published) \in Nat

LEMMA Subsets ==
  ASSUME NEW p
  PROVE  Misled(p) \in SUBSET Cycles /\ Outdated(p) \in SUBSET Cycles /\ Late(p) \in SUBSET Cycles
BY DEF Misled, Outdated, Late, Cycles

LEMMA PortalsFinite == IsFiniteSet(Portals)
<1>1. IsFiniteSet(DOMAIN PortalSeq)
  BY PortalsOK, FS_Interval
<1>2. Portals = {PortalSeq[i] : i \in DOMAIN PortalSeq}
  BY DEF Portals
<1>3. PortalSeq \in Surjection(DOMAIN PortalSeq, Portals)
  <2>1. PortalSeq \in [DOMAIN PortalSeq -> Portals]
    BY PortalsOK, WatchAssumption, LenProperties
  <2>. QED  BY <1>2, <2>1 DEF Surjection
<1>. QED  BY <1>1, <1>3, FS_Surjection

LEMMA PublishedSum ==
  ASSUME NEW f \in [Portals -> Nat]
  PROVE  SumFunction(f) = SumOf(f, Portals) /\ SumFunction(f) \in Nat
<1>1. DOMAIN f = Portals /\ \A p \in Portals : f[p] \in Nat
  OBVIOUS
<1>2. SumFunction(f) = SumOf(f, Portals)
  BY <1>1 DEF SumFunction, SumFunctionOnSet, SumOf, FoldFunction
<1>. QED  BY <1>1, <1>2, PortalsFinite, SumNat

LEMMA PublishedOnce ==
  ASSUME WorldOK, NEW p \in Portals, published' = [published EXCEPT ![p] = @ + 1]
  PROVE  SumFunction(published)' = SumFunction(published) + 1
<1>1. PICK f : f = published
  OBVIOUS
<1>2. PICK g : g = published'
  OBVIOUS
<1>3. f \in [Portals -> Nat] /\ g \in [Portals -> Nat] /\ g[p] = f[p] + 1
      /\ \A q \in Portals \ {p} : g[q] = f[q]
  BY <1>1, <1>2 DEF WorldOK
<1>4. SumFunction(f) = SumOf(f, Portals) /\ SumFunction(g) = SumOf(g, Portals)
      /\ SumFunction(f) \in Nat
  BY <1>3, PublishedSum
<1>5. SumOf(g, Portals) = SumOf(f, Portals) + (g[p] - f[p])
  BY <1>3, PortalsFinite, SumChange
<1>6. SumFunction(g) = SumFunction(f) + 1
  BY <1>3, <1>4, <1>5
<1>. QED  BY <1>1, <1>2, <1>6

AllCounted == \A p \in Portals : Counted(p)

LEMMA Numbers == WatchInv => AllCounted
<1>. SUFFICES ASSUME WatchInv, NEW p \in Portals PROVE Counted(p)
  BY DEF AllCounted
<1>1. IsFiniteSet(DeltasOf(p)) /\ Cardinality(DeltasOf(p)) \in Nat
  <2>1. IsFiniteSet(DOMAIN deltas) /\ DeltasOf(p) \subseteq DOMAIN deltas
    BY TypeParts, LenProperties, FS_Interval DEF WatchInv, RowsOK, DeltasOf
  <2>. QED  BY <2>1, FS_Subset, FS_CardinalityType
<1>2. Cardinality(Misled(p)) \in Nat /\ Cardinality(Misled(p)) <= CycleCount
  BY Subsets, CyclesCounted
<1>3. Due(p) \in Nat /\ Due(p) <= 2 * CycleCount
  <2>1. /\ Cardinality(Outdated(p)) \in Nat /\ Cardinality(Outdated(p)) <= CycleCount
        /\ Cardinality(Late(p)) \in Nat /\ Cardinality(Late(p)) <= CycleCount
        /\ CycleCount \in Nat
    BY Subsets, CyclesCounted
  <2>2. Due(p) = IF snapshot[p] = site[p] THEN Cardinality(Outdated(p))
                 ELSE Cardinality(Late(p)) + CycleCount
    BY DEF Due, CycleCount
  <2>. QED  BY <2>1, <2>2
<1>4. SumFunction(published) \in Nat
  BY TypeParts, PublishedSum DEF WatchInv, WorldOK
<1>. QED  BY <1>1, <1>2, <1>3, <1>4 DEF Counted

(* What a step may do to the sum, as in Budget.                            *)
Pays(p) ==
  \/ /\ Cardinality(DeltasOf(p)') + Due(p)' <= Cardinality(DeltasOf(p)) + Due(p)
     /\ Cardinality(Misled(p)') <= Cardinality(Misled(p))
     /\ SumFunction(published) <= SumFunction(published')
  \/ /\ Cardinality(DeltasOf(p)') <= Cardinality(DeltasOf(p)) + 1
     /\ Cardinality(Misled(p)') + 1 <= Cardinality(Misled(p))
     /\ SumFunction(published) <= SumFunction(published')
  \/ /\ Cardinality(DeltasOf(p)') <= Cardinality(DeltasOf(p))
     /\ SumFunction(published') = SumFunction(published) + 1
  \/ /\ Cardinality(DeltasOf(p)') <= Cardinality(DeltasOf(p)) /\ Due(p)' <= Due(p)
     /\ Cardinality(Misled(p)') <= Cardinality(Misled(p)) + 1 /\ CycleCount >= 1
     /\ SumFunction(published') = SumFunction(published) + 1

LEMMA PaysSpent ==
  ASSUME WatchInv, WatchInv', NEW p \in Portals, SpentInv(p), Pays(p)
  PROVE  SpentInv(p)'
<1>1. Counted(p)
  BY Numbers DEF AllCounted
<1>2. AllCounted'
  BY Numbers, PTL
<1>3. Counted(p)'
  BY <1>2 DEF AllCounted
<1>4. CycleCount \in Nat
  BY CyclesCounted
<1>5. PICK n : n = Cardinality(DeltasOf(p))
  OBVIOUS
<1>6. PICK u : u = Due(p)
  OBVIOUS
<1>7. PICK m : m = Cardinality(Misled(p))
  OBVIOUS
<1>8. PICK s : s = SumFunction(published)
  OBVIOUS
<1>9. PICK n1 : n1 = Cardinality(DeltasOf(p)')
  OBVIOUS
<1>10. PICK u1 : u1 = Due(p)'
  OBVIOUS
<1>11. PICK m1 : m1 = Cardinality(Misled(p)')
  OBVIOUS
<1>12. PICK s1 : s1 = SumFunction(published')
  OBVIOUS
<1>13. PICK k : k = CycleCount
  OBVIOUS
<1>14. /\ n \in Nat /\ u \in Nat /\ m \in Nat /\ s \in Nat /\ k \in Nat
       /\ u <= 2 * k /\ m <= k
  BY <1>1, <1>4, <1>5, <1>6, <1>7, <1>8, <1>13 DEF Counted
<1>15. /\ n1 \in Nat /\ u1 \in Nat /\ m1 \in Nat /\ s1 \in Nat
       /\ u1 <= 2 * k /\ m1 <= k
  BY <1>3, <1>9, <1>10, <1>11, <1>12, <1>13 DEF Counted
<1>16. n + u + (2 * k + 1) * m <= k + (k * (2 * k + 3)) * s
  BY <1>5, <1>6, <1>7, <1>8, <1>13 DEF SpentInv, DeltaBound, CycleCount
<1>17. \/ n1 + u1 <= n + u /\ m1 <= m /\ s <= s1
       \/ n1 <= n + 1 /\ u1 <= 2 * k /\ m1 + 1 <= m /\ s <= s1
       \/ n1 <= n /\ u1 <= 2 * k /\ m1 <= k /\ s1 = s + 1
       \/ n1 <= n /\ u1 <= u /\ m1 <= m + 1 /\ s1 = s + 1 /\ k >= 1
  BY <1>5, <1>6, <1>7, <1>8, <1>9, <1>10, <1>11, <1>12, <1>13, <1>15 DEF Pays
<1>18. n1 + u1 + (2 * k + 1) * m1 <= k + (k * (2 * k + 3)) * s1
  BY <1>14, <1>15, <1>16, <1>17, Budget
<1>. QED  BY <1>9, <1>10, <1>11, <1>12, <1>13, <1>18 DEF SpentInv, DeltaBound, CycleCount

(* Transactions begin and end in order.                                    *)
Ordered(c) ==
  /\ elder[c] \subseteq open \ {c}
  /\ \A d \in elder[c] : elder[d] \subseteq elder[c]
  /\ c \notin open => behind[c] = {}

LEMMA OrderParts ==
  TransactionsInv <=> \A c \in Cycles : Ordered(c) /\ (pc[c] = "idle" => c \notin open)
BY DEF TransactionsInv, Ordered

LEMMA BeginOrdered ==
  ASSUME TransactionsOK, NEW c \in Cycles, c \notin open, Begin(c),
         \A d \in Cycles : Ordered(d)
  PROVE  \A d \in Cycles : Ordered(d)'
<1>1. /\ open' = open \cup {c} /\ elder'[c] = open /\ behind' = behind
      /\ \A d \in Cycles \ {c} : elder'[d] = elder[d]
  BY DEF TransactionsOK, Begin
<1>2. \A d \in open : d \in Cycles /\ d # c
  BY DEF TransactionsOK
<1>. SUFFICES ASSUME NEW d \in Cycles PROVE Ordered(d)'
  OBVIOUS
<1>3. CASE d = c
  BY <1>1, <1>2, <1>3 DEF Ordered
<1>4. CASE d # c
  BY <1>1, <1>2, <1>4 DEF Ordered
<1>. QED  BY <1>3, <1>4

(* A step in which c's transaction ends and others may fall behind.        *)
EndsBehind(c) ==
  /\ behind' \in [Cycles -> SUBSET Portals] /\ behind'[c] = {}
  /\ \A d \in Cycles \ open : behind'[d] \subseteq behind[d]

LEMMA EndOrdered ==
  ASSUME TransactionsOK, NEW c \in Cycles, NEW b \in BOOLEAN, EndAnd(b, c), EndsBehind(c),
         \A d \in Cycles : Ordered(d)
  PROVE  \A d \in Cycles : Ordered(d)'
<1>1. /\ open' = IF b THEN open ELSE open \ {c}
      /\ elder'[c] = IF b THEN open \ {c} ELSE {}
      /\ \A d \in Cycles \ {c} : elder'[d] = elder[d] \ {c}
  BY DEF EndAnd
<1>2. \A d \in open : d \in Cycles
  BY DEF TransactionsOK
<1>3. \A d \in Cycles : elder[d] \subseteq open \ {d} /\ \A e \in elder[d] : elder[e] \subseteq elder[d]
  BY DEF Ordered
<1>. SUFFICES ASSUME NEW d \in Cycles PROVE Ordered(d)'
  OBVIOUS
<1>4. d \notin open' => behind'[d] = {}
  BY <1>1 DEF EndsBehind, Ordered
<1>5. elder'[d] \subseteq open' \ {d}
  BY <1>1, <1>3
<1>6. ASSUME NEW e \in elder'[d] PROVE elder'[e] \subseteq elder'[d]
  <2>1. e \in Cycles /\ e # c /\ elder'[e] = elder[e] \ {c}
    BY <1>1, <1>2, <1>3
  <2>2. CASE d = c
    BY <1>1, <1>3, <2>1, <2>2
  <2>3. CASE d # c
    BY <1>1, <1>3, <2>1, <2>3
  <2>. QED  BY <2>2, <2>3
<1>. QED  BY <1>4, <1>5, <1>6 DEF Ordered

LEMMA TouchEnds ==
  ASSUME TransactionsOK, LocalsOK, NEW c \in Cycles, TouchRow(c)
  PROVE  /\ EndAnd(FALSE, c) /\ EndsBehind(c)
         /\ \A d \in Cycles : behind'[d] \subseteq behind[d] \cup {Portal(c)}
<1>1. behind' \in [Cycles -> SUBSET Portals]
  BY PortalType, FallBehindTyped DEF TouchRow
<1>. QED  BY <1>1 DEF TouchRow, FallBehind, EndsBehind

LEMMA InsertEnds ==
  ASSUME TransactionsOK, LocalsOK, NEW c \in Cycles, Ordered(c), InsertRows(c)
  PROVE  /\ EndsBehind(c)
         /\ \A d \in Cycles : behind'[d] \subseteq behind[d] \cup {Portal(c)}
<1>1. behind' \in [Cycles -> SUBSET Portals]
  BY PortalType, FallBehindTyped DEF InsertRows
<1>2. elder[c] \subseteq open
  BY DEF Ordered
<1>. QED  BY <1>1, <1>2 DEF InsertRows, FallBehind, EndsBehind

LEMMA QuietEnds ==
  ASSUME TransactionsOK, NEW c \in Cycles, EndTransaction(c)
  PROVE  /\ EndAnd(FALSE, c) /\ EndsBehind(c)
         /\ \A d \in Cycles : behind'[d] \subseteq behind[d]
BY EndTransactionTyped DEF TransactionsOK, EndTransaction, EndsBehind

(* The step of a cycle leaves the transactions in order, and none open in  *)
(* a cycle that is over.                                                   *)
TransactionStep(c) ==
  \/ UNCHANGED transactions /\ pc'[c] # "idle"
  \/ c \notin open /\ Begin(c) /\ pc'[c] # "idle"
  \/ EndsBehind(c) /\ (EndAnd(FALSE, c) \/ (EndAnd(TRUE, c) /\ pc'[c] # "idle"))

LEMMA StepOrdered ==
  ASSUME TransactionsOK, TransactionsInv, NEW c \in Cycles, OthersStay(c), TransactionStep(c)
  PROVE  TransactionsInv'
<1>1. \A d \in Cycles : Ordered(d) /\ (pc[d] = "idle" => d \notin open)
  BY OrderParts
<1>2. \A d \in Cycles : Ordered(d)'
  <2>1. CASE UNCHANGED transactions
    BY <1>1, <2>1 DEF transactions, Ordered
  <2>2. CASE c \notin open /\ Begin(c)
    BY <1>1, <2>2, BeginOrdered
  <2>3. ASSUME NEW b \in BOOLEAN, EndsBehind(c), EndAnd(b, c)
        PROVE  \A d \in Cycles : Ordered(d)'
    BY <1>1, <2>3, EndOrdered
  <2>. QED  BY <2>1, <2>2, <2>3 DEF TransactionStep
<1>3. open' \subseteq open \cup {c} /\ (pc'[c] = "idle" => c \notin open')
  BY DEF TransactionStep, transactions, Begin, EndAnd
<1>4. \A d \in Cycles : pc'[d] = "idle" => d \notin open'
  BY <1>1, <1>3 DEF OthersStay
<1>. QED  BY <1>2, <1>4 DEF TransactionsInv, Ordered

LEMMA CycleTransactions ==
  ASSUME WatchInv, TransactionsInv, NEW c \in Cycles,
         Poll(c) \/ Trigger(c) \/ Proceed(c) \/ FetchFails(c) \/ DeltaRaises(c) \/ CycleDies(c)
  PROVE  TransactionStep(c)
<1>1. TransactionsOK /\ LocalsOK /\ Ordered(c) /\ (pc[c] = "idle" => c \notin open)
  BY TypeParts, OrderParts DEF WatchInv
<1>2. ASSUME NEW f, NEW t, Goto(c, f, t), t # "idle"
      PROVE  pc[c] = f /\ pc'[c] # "idle"
  BY <1>1, <1>2 DEF Goto, LocalsOK
<1>3. Advance(c) => pc'[c] # "idle"
  BY <1>1 DEF Advance, LocalsOK
<1>4. NextDelta(c) => pc'[c] # "idle"
  BY <1>1 DEF NextDelta, LocalsOK
<1>5. CASE Poll(c) \/ Fetch(c) \/ Cascade(c) \/ CommitProcessed(c)
  BY <1>2, <1>5 DEF Poll, Fetch, Cascade, CommitProcessed, database, transactions, TransactionStep
<1>6. CASE Alert(c)
  BY <1>2, <1>6 DEF Alert, transactions, TransactionStep
<1>7. CASE Trigger(c)
  BY <1>1, <1>2, <1>7 DEF Trigger, TransactionStep
<1>8. CASE SelectLatest(c)
  BY <1>2, <1>8 DEF SelectLatest, TransactionStep
<1>9. CASE FetchFails(c)
  BY <1>3, <1>9 DEF FetchFails, database, transactions, TransactionStep
<1>10. CASE Heartbeat(c)
  BY <1>1, <1>10, TouchEnds DEF Heartbeat, TransactionStep
<1>11. CASE Insert(c)
  BY <1>1, <1>3, <1>11, InsertEnds DEF Insert, TransactionStep
<1>12. CASE Announce(c) \/ DeltaRaises(c)
  BY <1>4, <1>12 DEF Announce, DeltaRaises, database, transactions, TransactionStep
<1>13. CASE Finish(c)
  BY <1>1, <1>13, QuietEnds DEF Finish, TransactionStep
<1>14. CASE CycleDies(c)
  BY <1>1, <1>14, QuietEnds, TouchEnds, InsertEnds DEF CycleDies, TransactionStep
<1>. QED  BY <1>5, <1>6, <1>7, <1>8, <1>9, <1>10, <1>11, <1>12, <1>13, <1>14 DEF Proceed

(* Who is late stays late or is through; nobody becomes late for p unless  *)
(* a row of p is stamped after his transaction began.                      *)
LEMMA LateEnds ==
  ASSUME TransactionsOK, NEW c \in Cycles, Ordered(c), NEW b \in BOOLEAN, EndAnd(b, c), NEW p,
         behind'[c] = {},
         \A d \in Cycles : p \in behind'[d] =>
           p \in behind[d] \/ (p \in behind[c] /\ d \in elder[c])
  PROVE  Late(p)' \subseteq Late(p) \ {c}
<1>1. \A d \in Cycles \ {c} : elder'[d] = elder[d] \ {c}
  BY DEF EndAnd
<1>. SUFFICES ASSUME NEW e \in Late(p)' PROVE e \in Late(p) /\ e # c
  OBVIOUS
<1>2. PICK d \in Cycles : e \in Cycles /\ p \in behind'[d] /\ (e = d \/ e \in elder'[d])
  BY DEF Late
<1>3. d # c /\ e # c /\ (e = d \/ e \in elder[d])
  BY <1>1, <1>2
<1>4. CASE p \in behind[d]
  BY <1>2, <1>3, <1>4 DEF Late
<1>5. CASE p \in behind[c] /\ d \in elder[c]
  <2>1. e \in elder[c]
    BY <1>3, <1>5 DEF Ordered
  <2>. QED  BY <1>2, <1>3, <1>5, <2>1 DEF Late
<1>. QED  BY <1>2, <1>3, <1>4, <1>5

LEMMA LateBegins ==
  ASSUME TransactionsOK, NEW c \in Cycles, Ordered(c), c \notin open, Begin(c), NEW p
  PROVE  Late(p)' \subseteq Late(p)
<1>1. behind' = behind /\ behind[c] = {} /\ \A d \in Cycles \ {c} : elder'[d] = elder[d]
  BY DEF Begin, Ordered
<1>. QED  BY <1>1 DEF Late

LEMMA LateSame ==
  ASSUME UNCHANGED transactions, NEW p
  PROVE  Late(p)' = Late(p)
BY DEF transactions, Late

(* A step in which c's transaction moves, and no row of p is stamped.      *)
LEMMA LateOther ==
  ASSUME TransactionsOK, TransactionsInv, NEW c \in Cycles, TransactionStep(c), NEW p,
         \A d \in Cycles : p \in behind'[d] => p \in behind[d]
  PROVE  Late(p)' \subseteq Late(p)
<1>1. Ordered(c)
  BY OrderParts
<1>2. ASSUME NEW b \in BOOLEAN, EndsBehind(c), EndAnd(b, c)
      PROVE  Late(p)' \subseteq Late(p)
  BY <1>1, <1>2, LateEnds DEF EndsBehind
<1>. QED  BY <1>1, <1>2, LateBegins, LateSame DEF TransactionStep

(* What is due does not grow while a portal's snapshot stays.              *)
LEMMA DueKept ==
  ASSUME NEW p, snapshot'[p] = snapshot[p], site'[p] = site[p],
         Late(p)' \subseteq Late(p),
         snapshot[p] = site[p] => Outdated(p)' \subseteq Outdated(p)
  PROVE  Due(p)' <= Due(p)
<1>1. /\ Late(p)' \in SUBSET Late(p) /\ Late(p) \in SUBSET Cycles /\ Outdated(p) \in SUBSET Cycles
      /\ CycleCount \in Nat
  BY Subsets, CyclesCounted
<1>2. CASE snapshot[p] = site[p]
  <2>1. Due(p) = Cardinality(Outdated(p)) /\ Due(p)' = Cardinality(Outdated(p)')
    BY <1>2 DEF Due
  <2>. QED  BY <1>1, <1>2, <2>1, NotMore
<1>3. CASE snapshot[p] # site[p]
  <2>1. /\ Due(p) = Cardinality(Late(p)) + CycleCount
        /\ Due(p)' = Cardinality(Late(p)') + CycleCount
    BY <1>3 DEF Due, CycleCount
  <2>2. Cardinality(Late(p)') <= Cardinality(Late(p))
    BY <1>1, NotMore
  <2>3. Cardinality(Late(p)') \in Nat /\ Cardinality(Late(p)) \in Nat
    BY <1>1, CyclesCounted
  <2>. QED  BY <1>1, <2>1, <2>2, <2>3
<1>. QED  BY <1>2, <1>3

(* One delta fewer is due when c inserted what p serves.                   *)
LEMMA DueFewer ==
  ASSUME NEW p, NEW c \in Outdated(p), site'[p] = site[p],
         Outdated(p)' \subseteq Outdated(p) \ {c},
         \/ snapshot'[p] = site[p]
         \/ snapshot'[p] = snapshot[p] /\ c \in Late(p) /\ Late(p)' \subseteq Late(p) \ {c}
  PROVE  Due(p)' + 1 <= Due(p)
<1>1. /\ Outdated(p)' \in SUBSET (Outdated(p) \ {c}) /\ Outdated(p) \in SUBSET Cycles
      /\ Late(p) \in SUBSET Cycles /\ CycleCount \in Nat
  BY Subsets, CyclesCounted
<1>2. /\ Cardinality(Outdated(p)') + 1 <= Cardinality(Outdated(p))
      /\ Cardinality(Outdated(p)) <= CycleCount
      /\ Cardinality(Outdated(p)) \in Nat /\ Cardinality(Late(p)) \in Nat
  BY <1>1, OneFewer, CyclesCounted
<1>3. Cardinality(Outdated(p)') \in Nat
  <2>1. Outdated(p)' \in SUBSET Cycles
    BY <1>1
  <2>. QED  BY <2>1, CyclesCounted
<1>4. CASE snapshot'[p] = site[p]
  <2>1. /\ Due(p)' = Cardinality(Outdated(p)')
        /\ Due(p) = IF snapshot[p] = site[p] THEN Cardinality(Outdated(p))
                    ELSE Cardinality(Late(p)) + CycleCount
    BY <1>4 DEF Due, CycleCount
  <2>. QED  BY <1>1, <1>2, <1>3, <2>1
<1>5. CASE /\ snapshot'[p] # site[p] /\ snapshot'[p] = snapshot[p]
           /\ c \in Late(p) /\ Late(p)' \subseteq Late(p) \ {c}
  <2>1. /\ Due(p)' = Cardinality(Late(p)') + CycleCount
        /\ Due(p) = Cardinality(Late(p)) + CycleCount
    BY <1>5 DEF Due, CycleCount
  <2>2. Late(p)' \in SUBSET (Late(p) \ {c}) /\ Late(p)' \in SUBSET Cycles
    BY <1>1, <1>5
  <2>3. Cardinality(Late(p)') + 1 <= Cardinality(Late(p)) /\ Cardinality(Late(p)') \in Nat
    BY <1>1, <1>5, <2>2, OneFewer, CyclesCounted
  <2>. QED  BY <1>1, <1>2, <2>1, <2>3
<1>. QED  BY <1>4, <1>5

(* The portals of the other cycles, and what they are to do, stay.         *)
LEMMA OthersMisled ==
  ASSUME NEW c \in Cycles, OthersStay(c), NEW p, site'[p] = site[p]
  PROVE  /\ Misled(p)' \subseteq Misled(p) \cup {c}
         /\ Outdated(p)' \subseteq Outdated(p) \cup {c}
<1>1. \A d \in Cycles \ {c} : /\ Visiting(d, p)' <=> Visiting(d, p)
                              /\ Ahead(d, p)' <=> Ahead(d, p)
                              /\ pc'[d] = pc[d] /\ fetched'[d] = fetched[d] /\ seen'[d] = seen[d]
  BY DEF OthersStay, Visiting, Ahead, Portal
<1>. QED  BY <1>1 DEF Misled, Outdated, Cycles

\* What c's step does to its being misled about p.
LEMMA MisledShrinks ==
  ASSUME NEW c \in Cycles, OthersStay(c), NEW p, site'[p] = site[p],
         Visiting(c, p)' /\ fetched'[c] # site[p] => c \in Misled(p),
         c \in Demos /\ Ahead(c, p)' => c \in Misled(p)
  PROVE  Misled(p)' \subseteq Misled(p)
BY OthersMisled DEF Misled

LEMMA OutdatedShrinks ==
  ASSUME NEW c \in Cycles, OthersStay(c), NEW p, site'[p] = site[p], pc'[c] # "compare"
  PROVE  Outdated(p)' \subseteq Outdated(p) \ {c}
BY OthersMisled DEF Outdated

LEMMA SameCount ==
  ASSUME RowsOK, DeltasGrow, Len(deltas') = Len(deltas), NEW p
  PROVE  DeltasOf(p)' = DeltasOf(p)
<1>1. /\ DOMAIN deltas' = DOMAIN deltas
      /\ \A d \in DOMAIN deltas : deltas'[d].portal = deltas[d].portal
  BY LenProperties DEF RowsOK, DeltasGrow
<1>. QED  BY <1>1 DEF DeltasOf

LEMMA InsertCount ==
  ASSUME RowsOK, LocalsOK, TransactionsOK, NEW c \in Cycles, fetched[c] \in Contents,
         InsertRows(c), NEW p, IsFiniteSet(DeltasOf(p))
  PROVE  /\ p # Portal(c) => DeltasOf(p)' = DeltasOf(p)
         /\ Cardinality(DeltasOf(p)') <= Cardinality(DeltasOf(p)) + 1
<1>. DEFINE n == Len(deltas) + 1
<1>1. /\ deltas' \in Seq(DeltaRows) /\ Len(deltas') = n /\ Len(deltas) \in Nat
      /\ deltas'[n].portal = Portal(c)
      /\ \A i \in 1..Len(deltas) : deltas'[i] = deltas[i]
  BY InsertTyped, LenProperties DEF RowsOK
<1>2. DOMAIN deltas = 1..Len(deltas) /\ DOMAIN deltas' = 1..Len(deltas)'
  BY <1>1, LenProperties DEF RowsOK
<1>3. DOMAIN deltas' = DOMAIN deltas \cup {n} /\ n \notin DOMAIN deltas
  BY <1>1, <1>2
<1>4. \A i \in DOMAIN deltas : deltas'[i] = deltas[i]
  BY <1>1, <1>2
<1>. HIDE DEF n
<1>5. /\ Portal(c) = p => DeltasOf(p)' = DeltasOf(p) \cup {n}
      /\ Portal(c) # p => DeltasOf(p)' = DeltasOf(p)
  BY <1>1, <1>3, <1>4 DEF DeltasOf
<1>6. /\ Cardinality(DeltasOf(p)) \in Nat
      /\ Cardinality(DeltasOf(p) \cup {n}) \in {Cardinality(DeltasOf(p)), Cardinality(DeltasOf(p)) + 1}
  BY FS_AddElement, FS_CardinalityType
<1>. QED  BY <1>5, <1>6

(* A step of c that leaves p's rows alone.                                 *)
LEMMA QuietPays ==
  ASSUME WatchInv, TransactionsInv, NEW c \in Cycles, TransactionStep(c), NEW p \in Portals,
         DeltasOf(p)' = DeltasOf(p), site' = site, published' = published,
         snapshot'[p] = snapshot[p],
         \A d \in Cycles : p \in behind'[d] => p \in behind[d],
         Misled(p)' \subseteq Misled(p),
         snapshot[p] = site[p] => Outdated(p)' \subseteq Outdated(p), WatchInv'
  PROVE  Pays(p)
<1>1. TransactionsOK
  BY TypeParts DEF WatchInv
<1>2. Late(p)' \subseteq Late(p)
  BY <1>1, LateOther
<1>3. Due(p)' <= Due(p)
  BY <1>2, DueKept
<1>4. Cardinality(Misled(p)') <= Cardinality(Misled(p))
  <2>1. Misled(p) \in SUBSET Cycles /\ Misled(p)' \in SUBSET Misled(p)
    BY Subsets
  <2>. QED  BY <2>1, NotMore
<1>5. AllCounted /\ AllCounted'
  BY Numbers, PTL
<1>6. /\ Cardinality(DeltasOf(p)) \in Nat /\ Due(p) \in Nat /\ Due(p)' \in Nat
      /\ SumFunction(published) \in Nat
  BY <1>5 DEF AllCounted, Counted
<1>. QED  BY <1>3, <1>4, <1>6 DEF Pays

(* c is done with the portal it checked, and has no new one to check.      *)
Passed(c) ==
  /\ pc'[c] \notin {"select", "compare"}
  /\ \A p : Ahead(c, p)' => Ahead(c, p) /\ p # Portal(c)

LEMMA AdvancePassed ==
  ASSUME LocalsOK, NEW c \in Cycles, pc[c] \in {"fetch", "compare"}, Advance(c)
  PROVE  Passed(c)
<1>1. \/ pc'[c] = "fetch" /\ at'[c] = at[c] + 1
      \/ pc'[c] = "alerts"
  BY AdvanceTyped
<1>2. at[c] \in DOMAIN PortalSeq /\ \A i \in DOMAIN PortalSeq : i \in Nat
  BY PortalsOK DEF LocalsOK
<1>3. ASSUME NEW p, Ahead(c, p)' PROVE Ahead(c, p) /\ p # Portal(c)
  <2>1. pc'[c] = "fetch" /\ at'[c] = at[c] + 1
    BY <1>1, <1>3 DEF Ahead
  <2>2. PICK i \in DOMAIN PortalSeq : PortalSeq[i] = p /\ (at'[c] < i \/ at'[c] = i)
    BY <1>3, <2>1 DEF Ahead
  <2>3. at[c] < i
    BY <1>2, <2>1, <2>2
  <2>4. i # at[c]
    BY <1>2, <2>3
  <2>. QED  BY <1>2, <2>2, <2>3, <2>4, WatchAssumption DEF Ahead, Portal
<1>. QED  BY <1>1, <1>3 DEF Passed

LEMMA LeavePassed ==
  ASSUME LocalsOK, NEW c \in Cycles, Leave(c)
  PROVE  Passed(c)
BY DEF LocalsOK, Leave, Passed, Ahead

LEMMA PassedMisled ==
  ASSUME NEW c \in Cycles, OthersStay(c), Passed(c), site' = site, NEW p
  PROVE  /\ Misled(p)' \subseteq Misled(p) /\ Outdated(p)' \subseteq Outdated(p) \ {c}
         /\ p = Portal(c) => c \notin Misled(p)'
<1>1. ~ Visiting(c, p)' /\ (Ahead(c, p)' => Ahead(c, p) /\ p # Portal(c)) /\ pc'[c] # "compare"
  BY DEF Passed, Visiting
<1>2. site'[p] = site[p]
  OBVIOUS
<1>3. Misled(p)' \subseteq Misled(p)
  <2>1. c \in Demos /\ Ahead(c, p)' => c \in Misled(p)
    BY <1>1 DEF Misled
  <2>. QED  BY <1>1, <1>2, <2>1, MisledShrinks
<1>4. Outdated(p)' \subseteq Outdated(p) \ {c}
  BY <1>1, <1>2, OutdatedShrinks
<1>5. p = Portal(c) => c \notin Misled(p)'
  BY <1>1 DEF Misled
<1>. QED  BY <1>3, <1>4, <1>5

(* A misled cycle is through, and stored one row at most.                  *)
LEMMA MisledPays ==
  ASSUME WatchInv, NEW c \in Cycles, pc[c] = "compare", OthersStay(c), Passed(c),
         UNCHANGED world, NEW p, p = Portal(c), p \in Portals, fetched[c] # site[p],
         Cardinality(DeltasOf(p)') <= Cardinality(DeltasOf(p)) + 1
  PROVE  Pays(p)
<1>1. site' = site /\ published' = published
  BY DEF world
<1>2. c \in Misled(p)
  BY DEF Misled, Visiting
<1>3. Misled(p)' \subseteq Misled(p) \ {c}
  BY <1>1, PassedMisled
<1>4. Cardinality(Misled(p)') + 1 <= Cardinality(Misled(p))
  <2>1. Misled(p) \in SUBSET Cycles /\ Misled(p)' \in SUBSET (Misled(p) \ {c})
    BY <1>3, Subsets
  <2>. QED  BY <1>2, <2>1, OneFewer
<1>5. SumFunction(published) \in Nat
  BY Numbers DEF AllCounted, Counted
<1>. QED  BY <1>1, <1>4, <1>5 DEF Pays

(* A heartbeat for p, the portal c checked, or for another one.            *)
LEMMA TouchPays ==
  ASSUME WatchInv, WatchInv', TransactionsInv, NEW c \in Cycles, TransactionStep(c),
         pc[c] = "compare", seen[c] = fetched[c], TouchRow(c), OthersStay(c), Passed(c),
         UNCHANGED world, NEW p \in Portals
  PROVE  Pays(p)
<1>1. /\ TransactionsOK /\ LocalsOK /\ RowsOK
      /\ site' = site /\ published' = published
  BY TypeParts DEF WatchInv, world
<1>2. DeltasOf(p)' = DeltasOf(p)
  BY DEF TouchRow, DeltasOf
<1>3. /\ Misled(p)' \subseteq Misled(p) /\ Outdated(p)' \subseteq Outdated(p) \ {c}
  BY <1>1, PassedMisled
<1>4. \A d \in Cycles : behind'[d] \subseteq behind[d] \cup {Portal(c)}
  BY <1>1, TouchEnds
<1>5. AllCounted /\ AllCounted'
  BY Numbers, PTL
<1>6. /\ Cardinality(DeltasOf(p)) \in Nat /\ Due(p) \in Nat /\ Due(p)' \in Nat
      /\ SumFunction(published) \in Nat
  BY <1>5 DEF AllCounted, Counted
<1>7. CASE p # Portal(c)
  <2>1. snapshot'[p] = snapshot[p]
    BY <1>1, <1>7 DEF TouchRow, RowsOK
  <2>2. \A d \in Cycles : p \in behind'[d] => p \in behind[d]
    BY <1>4, <1>7
  <2>. QED  BY <1>1, <1>2, <1>3, <2>1, <2>2, QuietPays
<1>8. CASE p = Portal(c) /\ fetched[c] # site[p]
  <2>1. Cardinality(DeltasOf(p)') <= Cardinality(DeltasOf(p)) + 1
    BY <1>2, <1>6
  <2>. QED  BY <1>8, <2>1, MisledPays
<1>9. CASE p = Portal(c) /\ fetched[c] = site[p]
  <2>1. snapshot'[p] = site'[p]
    BY <1>1, <1>9 DEF TouchRow, RowsOK
  <2>2. Due(p)' = Cardinality(Outdated(p)')
    BY <2>1 DEF Due
  <2>3. /\ Outdated(p) \in SUBSET Cycles /\ Outdated(p)' \in SUBSET Outdated(p)
        /\ Late(p) \in SUBSET Cycles
    BY <1>3, Subsets
  <2>4. /\ Cardinality(Outdated(p)') <= Cardinality(Outdated(p))
        /\ Cardinality(Outdated(p)) <= CycleCount /\ CycleCount \in Nat
        /\ Cardinality(Outdated(p)) \in Nat /\ Cardinality(Late(p)) \in Nat
    BY <2>3, NotMore, CyclesCounted
  <2>5. Due(p) = IF snapshot[p] = site[p] THEN Cardinality(Outdated(p))
                 ELSE Cardinality(Late(p)) + CycleCount
    BY DEF Due, CycleCount
  <2>6. Due(p)' <= Due(p)
    BY <1>6, <2>2, <2>4, <2>5
  <2>7. Cardinality(Misled(p)') <= Cardinality(Misled(p))
    <3>1. Misled(p) \in SUBSET Cycles /\ Misled(p)' \in SUBSET Misled(p)
      BY <1>3, Subsets
    <3>. QED  BY <3>1, NotMore
  <2>. QED  BY <1>1, <1>2, <1>6, <2>6, <2>7 DEF Pays
<1>. QED  BY <1>7, <1>8, <1>9

(* A row for p, the portal c checked, or for another one.                  *)
LEMMA InsertPays ==
  ASSUME WatchInv, WatchInv', TransactionsInv, NEW c \in Cycles, TransactionStep(c),
         pc[c] = "compare", seen[c] # fetched[c], InsertRows(c), NEW b \in BOOLEAN, EndAnd(b, c),
         OthersStay(c), Passed(c), UNCHANGED world, NEW p \in Portals
  PROVE  Pays(p)
<1>1. /\ TransactionsOK /\ LocalsOK /\ RowsOK /\ Ordered(c) /\ fetched[c] \in Contents
      /\ site' = site /\ published' = published
  BY TypeParts, OrderParts DEF WatchInv, world, CycleOK
<1>2. /\ Misled(p)' \subseteq Misled(p) /\ Outdated(p)' \subseteq Outdated(p) \ {c}
  BY <1>1, PassedMisled
<1>3. \A d \in Cycles : behind'[d] \subseteq behind[d] \cup {Portal(c)}
  BY <1>1, InsertEnds
<1>4. AllCounted /\ AllCounted'
  BY Numbers, PTL
<1>5. /\ Cardinality(DeltasOf(p)) \in Nat /\ Due(p) \in Nat /\ Due(p)' \in Nat
      /\ SumFunction(published) \in Nat /\ IsFiniteSet(DeltasOf(p))
      /\ Cardinality(DeltasOf(p)') \in Nat
  BY <1>4 DEF AllCounted, Counted
<1>6. /\ p # Portal(c) => DeltasOf(p)' = DeltasOf(p)
      /\ Cardinality(DeltasOf(p)') <= Cardinality(DeltasOf(p)) + 1
  BY <1>1, <1>5, InsertCount
<1>7. CASE p # Portal(c)
  <2>1. snapshot'[p] = snapshot[p]
    BY <1>1, <1>7 DEF InsertRows, RowsOK
  <2>2. \A d \in Cycles : p \in behind'[d] => p \in behind[d]
    BY <1>3, <1>7
  <2>. QED  BY <1>1, <1>2, <1>6, <1>7, <2>1, <2>2, QuietPays
<1>8. CASE p = Portal(c) /\ fetched[c] # site[p]
  BY <1>6, <1>8, MisledPays
<1>9. CASE p = Portal(c) /\ fetched[c] = site[p]
  <2>1. c \in Outdated(p)
    BY <1>9 DEF Outdated, Visiting
  <2>2. \/ snapshot'[p] = site[p]
        \/ snapshot'[p] = snapshot[p] /\ p \in behind[c]
    BY <1>1, <1>9 DEF InsertRows, RowsOK
  <2>3. p \in behind[c] => c \in Late(p) /\ Late(p)' \subseteq Late(p) \ {c}
    <3>1. /\ behind'[c] = {}
          /\ \A d \in Cycles : p \in behind'[d] => p \in behind[d] \/ d \in elder[c]
      BY DEF InsertRows, FallBehind
    <3>. QED  BY <1>1, <3>1, LateEnds DEF Late
  <2>4. Due(p)' + 1 <= Due(p)
    BY <1>1, <1>2, <2>1, <2>2, <2>3, DueFewer
  <2>5. Cardinality(Misled(p)') <= Cardinality(Misled(p))
    <3>1. Misled(p) \in SUBSET Cycles /\ Misled(p)' \in SUBSET Misled(p)
      BY <1>2, Subsets
    <3>. QED  BY <3>1, NotMore
  <2>6. Cardinality(DeltasOf(p)') + Due(p)' <= Cardinality(DeltasOf(p)) + Due(p)
    BY <1>5, <1>6, <2>4
  <2>. QED  BY <1>1, <1>5, <2>5, <2>6 DEF Pays
<1>. QED  BY <1>7, <1>8, <1>9

(* A step that begins or ends no visit: the fetches and the selection      *)
(* mislead nobody.                                                         *)
LEMMA StartPays ==
  ASSUME WatchInv, WatchInv', TransactionsInv, NEW c \in Cycles, OthersStay(c), TransactionStep(c),
         (c \in Pollers /\ Poll(c)) \/ Fetch(c) \/ SelectLatest(c) \/ FetchFails(c),
         NEW p \in Portals
  PROVE  Pays(p)
<1>1. /\ TransactionsOK /\ LocalsOK /\ RowsOK
      /\ site' = site /\ published' = published /\ snapshot' = snapshot /\ deltas' = deltas
      /\ behind' = behind
  BY TypeParts DEF WatchInv, Poll, Fetch, SelectLatest, FetchFails, world, database, transactions,
     Begin
<1>2. DeltasOf(p)' = DeltasOf(p)
  BY <1>1 DEF DeltasOf
<1>3. Misled(p)' \subseteq Misled(p) /\ (snapshot[p] = site[p] => Outdated(p)' \subseteq Outdated(p))
  <2>1. CASE c \in Pollers /\ Poll(c)
    <3>1. pc'[c] = "fetch" /\ c \notin Demos
      BY <1>1, <2>1, WatchAssumption DEF Poll, Goto, LocalsOK
    <3>. QED  BY <1>1, <3>1, MisledShrinks, OutdatedShrinks DEF Visiting
  <2>2. CASE Fetch(c)
    <3>1. /\ pc[c] = "fetch" /\ pc'[c] = "select" /\ at' = at
          /\ c \notin Demos => fetched'[c] = site[Portal(c)]
      BY <1>1, <2>2 DEF Fetch, Overridden, Goto, LocalsOK
    <3>2. Ahead(c, p)' => Ahead(c, p)
      BY <3>1 DEF Ahead
    <3>3. Visiting(c, p)' => Portal(c) = p
      BY <3>1 DEF Visiting, Portal
    <3>4. Portal(c) = p => Ahead(c, p)
      BY <1>1, <3>1 DEF Ahead, Portal, LocalsOK
    <3>5. Visiting(c, p)' /\ fetched'[c] # site[p] => c \in Misled(p)
      BY <3>1, <3>3, <3>4 DEF Misled
    <3>6. c \in Demos /\ Ahead(c, p)' => c \in Misled(p)
      BY <3>2 DEF Misled
    <3>. QED  BY <1>1, <3>1, <3>5, <3>6, MisledShrinks, OutdatedShrinks
  <2>3. CASE SelectLatest(c)
    <3>1. /\ pc[c] = "select" /\ pc'[c] = "compare" /\ at' = at /\ fetched' = fetched
          /\ seen'[c] = snapshot[Portal(c)]
      BY <1>1, <2>3 DEF SelectLatest, Goto, LocalsOK
    <3>2. /\ Ahead(c, p)' => Ahead(c, p)
          /\ Visiting(c, p)' => Visiting(c, p) /\ Portal(c) = p
      BY <3>1 DEF Ahead, Visiting, Portal
    <3>3. Misled(p)' \subseteq Misled(p)
      <4>1. Visiting(c, p)' /\ fetched'[c] # site[p] => c \in Misled(p)
        BY <3>1, <3>2 DEF Misled
      <4>2. c \in Demos /\ Ahead(c, p)' => c \in Misled(p)
        BY <3>2 DEF Misled
      <4>. QED  BY <1>1, <4>1, <4>2, MisledShrinks
    <3>4. snapshot[p] = site[p] => c \notin Outdated(p)'
      BY <1>1, <3>1, <3>2 DEF Outdated
    <3>5. Outdated(p)' \subseteq Outdated(p) \cup {c}
      BY <1>1, OthersMisled
    <3>. QED  BY <3>3, <3>4, <3>5
  <2>4. CASE FetchFails(c)
    <3>1. Passed(c)
      BY <1>1, <2>4, AdvancePassed DEF FetchFails
    <3>. QED  BY <1>1, <3>1, PassedMisled
  <2>. QED  BY <2>1, <2>2, <2>3, <2>4
<1>. QED  BY <1>1, <1>2, <1>3, QuietPays

(* The loop over the deltas found, or the end of a cycle without a row.    *)
LEMMA LoopPays ==
  ASSUME WatchInv, WatchInv', TransactionsInv, NEW c \in Cycles, OthersStay(c), TransactionStep(c),
         UNCHANGED world, snapshot' = snapshot, DeltasGrow, Len(deltas') = Len(deltas), Passed(c),
         \A d \in Cycles : behind'[d] \subseteq behind[d], NEW p \in Portals
  PROVE  Pays(p)
<1>1. RowsOK /\ site' = site /\ published' = published
  BY TypeParts DEF WatchInv, world
<1>2. DeltasOf(p)' = DeltasOf(p)
  BY <1>1, SameCount
<1>3. Misled(p)' \subseteq Misled(p) /\ Outdated(p)' \subseteq Outdated(p)
  BY <1>1, PassedMisled
<1>. QED  BY <1>1, <1>2, <1>3, QuietPays

LEMMA TriggerPays ==
  ASSUME WatchInv, TransactionsInv, NEW c \in Cycles, OthersStay(c), Trigger(c), NEW p \in Portals
  PROVE  Pays(p)
<1>1. /\ TransactionsOK /\ LocalsOK /\ WorldOK /\ Ordered(c) /\ c \notin open
      /\ site' = site /\ snapshot' = snapshot /\ deltas' = deltas
  BY TypeParts, OrderParts DEF WatchInv, Trigger, Goto
<1>2. pc'[c] = "fetch"
  BY <1>1 DEF Trigger, Goto, LocalsOK
<1>3. Late(p)' \subseteq Late(p)
  BY <1>1, LateBegins DEF Trigger
<1>4. Outdated(p)' \subseteq Outdated(p)
  BY <1>1, <1>2, OutdatedShrinks
<1>5. Due(p)' <= Due(p)
  BY <1>1, <1>3, <1>4, DueKept
<1>6. Cardinality(Misled(p)') <= Cardinality(Misled(p)) + 1 /\ CycleCount >= 1
  <2>1. Misled(p) \in SUBSET Cycles /\ Misled(p)' \in SUBSET (Misled(p) \cup {c})
    BY <1>1, OthersMisled, Subsets
  <2>. QED  BY <2>1, OneMore
<1>7. SumFunction(published') = SumFunction(published) + 1
  <2>1. PICK q \in Portals : published' = [published EXCEPT ![q] = @ + 1]
    BY DEF Trigger
  <2>. QED  BY <1>1, <2>1, PublishedOnce
<1>8. DeltasOf(p)' = DeltasOf(p)
  BY <1>1 DEF DeltasOf
<1>9. Cardinality(DeltasOf(p)) \in Nat
  BY Numbers DEF AllCounted, Counted
<1>. QED  BY <1>5, <1>6, <1>7, <1>8, <1>9 DEF Pays

LEMMA PublishPays ==
  ASSUME WatchInv, WatchInv', NEW q \in Portals, Publish(q), NEW p \in Portals
  PROVE  Pays(p)
<1>1. WorldOK /\ deltas' = deltas
  BY TypeParts DEF WatchInv, Publish, database
<1>2. SumFunction(published') = SumFunction(published) + 1
  BY <1>1, PublishedOnce DEF Publish
<1>3. DeltasOf(p)' = DeltasOf(p)
  BY <1>1 DEF DeltasOf
<1>4. Cardinality(DeltasOf(p)) \in Nat
  BY Numbers DEF AllCounted, Counted
<1>. QED  BY <1>2, <1>3, <1>4 DEF Pays

LEMMA CyclePays ==
  ASSUME WatchInv, WatchInv', TransactionsInv, NEW c \in Cycles, Kept(c), TransactionStep(c),
         \/ c \in Pollers /\ Poll(c)
         \/ Trigger(c) \/ Proceed(c) \/ FetchFails(c) \/ DeltaRaises(c) \/ CycleDies(c),
         NEW p \in Portals
  PROVE  Pays(p)
<1>1. /\ TransactionsOK /\ LocalsOK /\ RowsOK /\ CycleOK(c)
      /\ DeltasGrow /\ OthersStay(c)
  BY TypeParts DEF WatchInv, Kept
<1>2. CASE (c \in Pollers /\ Poll(c)) \/ Fetch(c) \/ SelectLatest(c) \/ FetchFails(c)
  BY <1>1, <1>2, StartPays
<1>3. CASE Trigger(c)
  BY <1>1, <1>3, TriggerPays
<1>4. CASE Heartbeat(c)
  BY <1>1, <1>4, AdvancePassed, TouchPays DEF Heartbeat
<1>5. CASE Insert(c)
  BY <1>1, <1>5, AdvancePassed, InsertPays DEF Insert
<1>6. CASE Alert(c) \/ Cascade(c) \/ CommitProcessed(c) \/ Announce(c) \/ DeltaRaises(c)
  <2>1. Passed(c)
    <3>1. pc'[c] \in {"alerts", "cascade", "commit", "announce"}
      BY <1>1, <1>6 DEF Alert, Cascade, CommitProcessed, Announce, DeltaRaises, Goto, NextDelta,
         LocalsOK
    <3>. QED  BY <3>1 DEF Passed, Ahead
  <2>2. Len(deltas') = Len(deltas)
    <3>1. todo[c] # <<>> /\ {"alerted", "cascaded", "processed", "ledgered"} \subseteq Stages
      BY <1>1, <1>6 DEF CycleOK, Alert, Cascade, CommitProcessed, Announce, DeltaRaises, Goto, Stages
    <3>. QED  BY <1>6, <3>1, StageLength DEF Alert, Cascade, CommitProcessed, Announce, DeltaRaises,
                 database
  <2>3. UNCHANGED world /\ snapshot' = snapshot /\ behind' = behind
    BY <1>6 DEF Alert, Cascade, CommitProcessed, Announce, DeltaRaises, database, transactions
  <2>. QED  BY <1>1, <2>1, <2>2, <2>3, LoopPays
<1>7. CASE Finish(c)
  <2>1. /\ Passed(c) /\ UNCHANGED world /\ snapshot' = snapshot /\ deltas' = deltas
        /\ \A d \in Cycles : behind'[d] \subseteq behind[d]
    BY <1>1, <1>7, LeavePassed, QuietEnds DEF Finish
  <2>. QED  BY <1>1, <2>1, LoopPays
<1>8. CASE CycleDies(c)
  <2>1. Passed(c) /\ UNCHANGED world
    BY <1>1, <1>8, LeavePassed DEF CycleDies
  <2>2. ASSUME EndTransaction(c), snapshot' = snapshot, Len(deltas') = Len(deltas)
        PROVE  Pays(p)
    <3>1. \A d \in Cycles : behind'[d] \subseteq behind[d]
      BY <1>1, <2>2, QuietEnds
    <3>. QED  BY <1>1, <2>1, <2>2, <3>1, LoopPays
  <2>3. CASE EndTransaction(c) /\ UNCHANGED <<snapshot, deltas>>
    BY <2>2, <2>3
  <2>4. CASE pc[c] = "compare" /\ seen[c] = fetched[c] /\ TouchRow(c)
    BY <1>1, <2>1, <2>4, TouchPays
  <2>5. CASE pc[c] = "compare" /\ seen[c] # fetched[c] /\ InsertRows(c) /\ EndAnd(FALSE, c)
    BY <1>1, <2>1, <2>5, InsertPays
  <2>6. ASSUME NEW s \in Stages, todo[c] # <<>>, SetStage(c, s), EndTransaction(c),
               UNCHANGED snapshot
        PROVE  Pays(p)
    BY <2>2, <2>6, StageLength
  <2>7. {"alerted", "cascaded", "processed", "ledgered"} \subseteq Stages
    BY DEF Stages
  <2>. QED  BY <1>1, <1>8, <2>3, <2>4, <2>5, <2>6, <2>7 DEF CycleDies, CycleOK
<1>. QED  BY <1>2, <1>3, <1>4, <1>5, <1>6, <1>7, <1>8 DEF Proceed

LEMMA DeltasInit ==
  ASSUME Init, WatchInv
  PROVE  DeltasInv
<1>1. TransactionsInv
  BY DEF Init, TransactionsInv
<1>2. ASSUME NEW p \in Portals PROVE SpentInv(p)
  <2>1. DeltasOf(p) = {} /\ Misled(p) = {} /\ Late(p) = {}
    BY DEF Init, DeltasOf, Misled, Late, Visiting, Ahead, Cycles
  <2>2. snapshot[p] # site[p]
    BY <1>2, WatchAssumption DEF Init
  <2>3. Cardinality({}) = 0 /\ CycleCount \in Nat
    BY FS_EmptySet, CyclesCounted
  <2>4. Due(p) = 0 + CycleCount
    BY <2>1, <2>2, <2>3 DEF Due, CycleCount
  <2>5. SumFunction(published) \in Nat
    BY Numbers DEF AllCounted, Counted
  <2>6. PICK k \in Nat : k = CycleCount
    BY <2>3
  <2>7. PICK s \in Nat : s = SumFunction(published)
    BY <2>5
  <2>8. 0 + k + (2 * k + 1) * 0 <= k + (k * (2 * k + 3)) * s
    <3>1. k * (2 * k + 3) \in Nat
      OBVIOUS
    <3>2. PICK b \in Nat : b = k * (2 * k + 3)
      BY <3>1
    <3>3. b * s \in Nat
      OBVIOUS
    <3>4. (2 * k + 1) * 0 = 0
      OBVIOUS
    <3>. QED  BY <3>2, <3>3, <3>4
  <2>. QED  BY <2>1, <2>3, <2>4, <2>6, <2>7, <2>8 DEF SpentInv, DeltaBound, CycleCount
<1>. QED  BY <1>1, <1>2 DEF DeltasInv

LEMMA DeltasStep ==
  ASSUME WatchInv, WatchInv', DeltasInv, [Next]_vars
  PROVE  DeltasInv'
<1>1. TransactionsInv /\ \A p \in Portals : SpentInv(p)
  BY DEF DeltasInv
<1>2. ASSUME TransactionsInv', \A p \in Portals : Pays(p)
      PROVE  DeltasInv'
  BY <1>1, <1>2, PaysSpent DEF DeltasInv
<1>3. ASSUME NEW q \in Portals, Publish(q)
      PROVE  DeltasInv'
  <2>1. TransactionsInv'
    BY <1>1, <1>3 DEF Publish, database, transactions, cycle, TransactionsInv
  <2>. QED  BY <1>2, <1>3, <2>1, PublishPays
<1>4. ASSUME NEW c \in Cycles, Kept(c),
             \/ c \in Pollers /\ Poll(c)
             \/ Trigger(c) \/ Proceed(c) \/ FetchFails(c) \/ DeltaRaises(c) \/ CycleDies(c)
      PROVE  DeltasInv'
  <2>1. TransactionStep(c)
    BY <1>1, <1>4, CycleTransactions
  <2>2. TransactionsInv'
    BY <1>1, <1>4, <2>1, StepOrdered, TypeParts DEF WatchInv, Kept
  <2>. QED  BY <1>1, <1>2, <1>4, <2>1, <2>2, CyclePays
<1>5. CASE UNCHANGED vars
  <2>1. TransactionsInv'
    BY <1>1, <1>5 DEF vars, TransactionsInv
  <2>2. ASSUME NEW p \in Portals PROVE SpentInv(p)'
    <3>1. SpentInv(p)
      BY <1>1
    <3>2. /\ DeltasOf(p)' = DeltasOf(p) /\ Misled(p)' = Misled(p)
          /\ Outdated(p)' = Outdated(p) /\ Late(p)' = Late(p)
      BY <1>5 DEF vars, DeltasOf, Misled, Outdated, Late, Visiting, Ahead, Portal
    <3>3. Due(p)' = Due(p)
      BY <1>5, <3>2 DEF vars, Due
    <3>. QED  BY <1>5, <3>1, <3>2, <3>3 DEF vars, SpentInv
  <2>. QED  BY <2>1, <2>2 DEF DeltasInv
<1>6. ASSUME NEW c \in Pollers, Poll(c) PROVE DeltasInv'
  <2>1. c \in Cycles
    BY DEF Cycles
  <2>. QED  BY <1>4, <1>6, <2>1, PollKept
<1>7. ASSUME NEW c \in Demos, Trigger(c) PROVE DeltasInv'
  <2>1. c \in Cycles
    BY DEF Cycles
  <2>. QED  BY <1>4, <1>7, <2>1, TriggerKept
<1>8. ASSUME NEW c \in Cycles, Proceed(c) \/ FetchFails(c) \/ DeltaRaises(c) \/ CycleDies(c)
      PROVE  DeltasInv'
  <2>1. Kept(c)
    BY <1>8, ProceedKept, FetchFailsKept, DeltaRaisesKept, CycleDiesKept
  <2>. QED  BY <1>4, <1>8, <2>1
<1>. QED  BY <1>3, <1>5, <1>6, <1>7, <1>8 DEF Next

(* The transactions of the cycles are ordered by their start, and what was *)
(* published pays for the deltas stored, for those that are due and for    *)
(* what every misled cycle can still do (irda/watcher.py, check_portal).   *)
THEOREM DeltasInvariance == Spec => []DeltasInv
<1>1. Init => DeltasInv
  BY DeltasInit, InitInv
<1>2. WatchInv /\ WatchInv' /\ DeltasInv /\ [Next]_vars => DeltasInv'
  BY DeltasStep
<1>. QED  BY <1>1, <1>2, WatchInvariance, PTL DEF Spec

(* There is no chain reaction: the deltas of a portal are bounded by the   *)
(* publications and triggers, whatever the contents, the interleaving and  *)
(* the failures, for any number of concurrent cycles.  DeltaBound is what  *)
(* the argument gives for one publication; the runs go by a smaller one.   *)
THEOREM DeltasPerPublicationHolds ==
  ASSUME DeltasEach \in Nat, DeltaBound <= DeltasEach
  PROVE  Spec => []DeltasPerPublication
<1>1. WatchInv /\ DeltasInv => DeltasPerPublication
  <2>. SUFFICES ASSUME WatchInv, DeltasInv, NEW p \in Portals
                PROVE  Cardinality(DeltasOf(p)) <= CycleCount + DeltasEach * SumFunction(published)
    BY DEF DeltasPerPublication, CycleCount
  <2>1. Counted(p) /\ SpentInv(p) /\ CycleCount \in Nat
    BY Numbers, CyclesCounted DEF AllCounted, DeltasInv
  <2>2. PICK k \in Nat : k = CycleCount
    BY <2>1
  <2>3. PICK s \in Nat : s = SumFunction(published)
    BY <2>1 DEF Counted
  <2>4. PICK m \in Nat : m = Cardinality(Misled(p))
    BY <2>1 DEF Counted
  <2>5. PICK n \in Nat : n = Cardinality(DeltasOf(p))
    BY <2>1 DEF Counted
  <2>6. PICK u \in Nat : u = Due(p)
    BY <2>1 DEF Counted
  <2>7. PICK b : b = DeltaBound
    OBVIOUS
  <2>8. b = k * (2 * k + 3)
    BY <2>2, <2>7 DEF DeltaBound, CycleCount
  <2>9. b \in Nat /\ b <= DeltasEach
    BY <2>7, <2>8
  <2>10. n + u + (2 * k + 1) * m <= k + b * s
    BY <2>1, <2>2, <2>3, <2>4, <2>5, <2>6, <2>7 DEF SpentInv, CycleCount
  <2>11. PICK w \in Nat : w = (2 * k + 1) * m
    OBVIOUS
  <2>12. s * b <= s * DeltasEach /\ s * b \in Nat /\ s * DeltasEach \in Nat
    BY <2>9, Times
  <2>13. s * b = b * s /\ s * DeltasEach = DeltasEach * s
    BY <2>9
  <2>14. n <= k + DeltasEach * s
    BY <2>10, <2>11, <2>12, <2>13
  <2>. QED  BY <2>2, <2>3, <2>5, <2>14
<1>. QED  BY <1>1, WatchInvariance, DeltasInvariance, PTL
=============================================================================

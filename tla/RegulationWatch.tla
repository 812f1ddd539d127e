---------------------------- MODULE RegulationWatch ----------------------------
(***************************************************************************)
(* IRDA, the regulation watch: services/agents/irda (watcher, orchestrator,*)
(* notifier), run by services/scheduler/polling_jobs in every process that *)
(* starts SchedulerJobs (the API and the scheduler container), and by      *)
(* POST /admin/demo/trigger-change.  All of them share one database.       *)
(*                                                                         *)
(* A snapshot row is stamped NOW(), which in PostgreSQL is the start of    *)
(* the transaction that inserts it, and the newest stamp wins; a heartbeat *)
(* stamps the row it read with the time of day.  The model keeps the       *)
(* newest row of each portal and, for each open transaction, the portals   *)
(* that got a row with a later stamp than the transaction's start.         *)
(***************************************************************************)
EXTENDS Naturals, Sequences, FiniteSets, Functions

CONSTANTS
  PortalSeq,     \* the portals in the order check_all_portals visits them
  Contents,      \* regulation data a portal can serve, up to its hash
  NoContent,     \* no snapshot, no override, nothing fetched
  Cosmetic,      \* <<old, new>> with different hashes and no changed regulation
  Pollers,       \* processes that run poll_portals, one instance at a time each
  Demos,         \* concurrent demo trigger requests
  Misnamed,      \* portals the console names otherwise than the watcher: pt-states
  MaxPublished,  \* bound: changes of each portal, and demo triggers on it
  MaxFaults,     \* bound: failures, of any kind
  DeltasEach     \* how many deltas one publication may set off

Portals == {PortalSeq[i] : i \in DOMAIN PortalSeq}
Cycles == Pollers \cup Demos

ASSUME WatchAssumption ==
  /\ PortalSeq \in Seq(Portals)
  /\ \A i, k \in DOMAIN PortalSeq : PortalSeq[i] = PortalSeq[k] => i = k
  /\ PortalSeq # <<>>
  /\ Pollers \cap Demos = {} /\ IsFiniteSet(Cycles)
  /\ NoContent \notin Contents
  /\ Misnamed \subseteq Portals
  /\ Cosmetic \subseteq Contents \X Contents
  /\ MaxPublished \in [Portals -> Nat]
  /\ MaxFaults \in Nat

VARIABLES
  site,       \* what each portal serves
  override,   \* the Redis keys portal_override:<portal>
  snapshot,   \* content of the newest regulation_snapshots row of each portal
  deltas,     \* the regulation_deltas rows, with how far each was processed
  open,       \* cycles with a database transaction open
  elder,      \* the open transactions that began before a cycle's own
  behind,     \* portals that got a row stamped after a cycle's transaction began
  pc,         \* where each cycle stands
  at,         \* index of the portal it checks
  fetched,    \* what it fetched from it
  seen,       \* content of the row it selected as the latest
  todo,       \* the deltas it found and has not processed yet
  published,  \* history: changes of each portal and triggers on it
  faults      \* history: failures so far

vars == <<site, override, snapshot, deltas, open, elder, behind, pc, at, fetched,
          seen, todo, published, faults>>

PCs == {"idle", "fetch", "select", "compare", "alerts", "cascade", "commit", "announce"}
Stages == {"found", "alerted", "cascaded", "processed", "ledgered"}

Init ==
  /\ site \in [Portals -> Contents]
  /\ override = [p \in Portals |-> NoContent]
  /\ snapshot = [p \in Portals |-> NoContent]
  /\ deltas = <<>>
  /\ open = {}
  /\ elder = [c \in Cycles |-> {}]
  /\ behind = [c \in Cycles |-> {}]
  /\ pc = [c \in Cycles |-> "idle"]
  /\ at = [c \in Cycles |-> 1]
  /\ fetched = [c \in Cycles |-> NoContent]
  /\ seen = [c \in Cycles |-> NoContent]
  /\ todo = [c \in Cycles |-> <<>>]
  /\ published = [p \in Portals |-> 0]
  /\ faults = 0

transactions == <<open, elder, behind>>
database == <<snapshot, deltas, transactions>>
world == <<site, override, published>>
cycle == <<pc, at, fetched, seen, todo>>

-----------------------------------------------------------------------------
(* Transactions and the control of a cycle.                                *)

Portal(c) == PortalSeq[at[c]]
Fault == faults < MaxFaults /\ faults' = faults + 1
Goto(c, from, to) == pc[c] = from /\ pc' = [pc EXCEPT ![c] = to]

\* The first statement after a commit starts c's next transaction.
Begin(c) ==
  /\ open' = open \cup {c}
  /\ elder' = [elder EXCEPT ![c] = open]
  /\ UNCHANGED behind

\* c's transaction ends; if it is `restarted' at once it is the youngest one.
EndAnd(restarted, c) ==
  /\ open' = IF restarted THEN open ELSE open \ {c}
  /\ elder' = [d \in Cycles |-> IF d = c THEN IF restarted THEN open \ {c} ELSE {}
                                ELSE elder[d] \ {c}]

EndTransaction(c) == EndAnd(FALSE, c) /\ behind' = [behind EXCEPT ![c] = {}]

\* p gets a row stamped after the transactions of D began; c's own one ends.
FallBehind(D, p, c) ==
  behind' = [d \in Cycles |-> IF d = c THEN {}
                              ELSE IF d \in D THEN behind[d] \cup {p} ELSE behind[d]]

\* A plausible slip, for the mutation runs: one portal too many.
AdvanceTooFar(c) ==
  /\ fetched' = [fetched EXCEPT ![c] = NoContent]
  /\ seen' = [seen EXCEPT ![c] = NoContent]
  /\ IF at[c] <= Len(PortalSeq)
       THEN at' = [at EXCEPT ![c] = @ + 1] /\ pc' = [pc EXCEPT ![c] = "fetch"]
       ELSE at' = [at EXCEPT ![c] = 1] /\ pc' = [pc EXCEPT ![c] = "alerts"]

\* On to the next portal, or to the deltas found.
Advance(c) ==
  /\ fetched' = [fetched EXCEPT ![c] = NoContent]
  /\ seen' = [seen EXCEPT ![c] = NoContent]
  /\ IF at[c] < Len(PortalSeq)
       THEN at' = [at EXCEPT ![c] = @ + 1] /\ pc' = [pc EXCEPT ![c] = "fetch"]
       ELSE at' = [at EXCEPT ![c] = 1] /\ pc' = [pc EXCEPT ![c] = "alerts"]

\* The cycle is over, its session closed, whatever it still had to do forgotten.
Leave(c) ==
  /\ pc' = [pc EXCEPT ![c] = "idle"]
  /\ at' = [at EXCEPT ![c] = 1]
  /\ fetched' = [fetched EXCEPT ![c] = NoContent]
  /\ seen' = [seen EXCEPT ![c] = NoContent]
  /\ todo' = [todo EXCEPT ![c] = <<>>]

-----------------------------------------------------------------------------
Publish(p) ==
  /\ published[p] < MaxPublished[p]
  /\ \E v \in Contents \ {site[p]} : site' = [site EXCEPT ![p] = v]
  /\ published' = [published EXCEPT ![p] = @ + 1]
  /\ UNCHANGED <<override, database, cycle, faults>>

\* poll_portals fires; APScheduler runs one instance per process.
Poll(c) ==
  /\ Goto(c, "idle", "fetch")
  /\ UNCHANGED <<world, database, at, fetched, seen, todo, faults>>

\* trigger_change: needs a snapshot to edit, selects it with the session it then
\* gives to run_cycle, and leaves the edited copy in Redis, under the portal's
\* name as requested: a misnamed portal's key is one the watcher never reads.
Trigger(c) ==
  /\ Goto(c, "idle", "fetch")
  /\ \E p \in Portals : \E v \in Contents \ {snapshot[p]} :
       /\ snapshot[p] # NoContent
       /\ published[p] < MaxPublished[p]
       /\ override' = IF p \in Misnamed THEN override ELSE [override EXCEPT ![p] = v]
       /\ published' = [published EXCEPT ![p] = @ + 1]
  /\ Begin(c)
  /\ UNCHANGED <<site, snapshot, deltas, at, fetched, seen, todo, faults>>

\* A plausible slip: the override is not kept for demo triggers.
FetchAnyOverride(c) ==
  /\ Goto(c, "fetch", "select")
  /\ fetched' = [fetched EXCEPT ![c] = IF override[Portal(c)] # NoContent
                                         THEN override[Portal(c)] ELSE site[Portal(c)]]
  /\ UNCHANGED <<world, database, at, seen, todo, faults>>

Overridden(c) == c \in Demos /\ override[Portal(c)] # NoContent

\* An override that cannot be read from Redis is passed over.
Fetch(c) ==
  /\ Goto(c, "fetch", "select")
  /\ \E readable \in BOOLEAN :
       /\ fetched' = [fetched EXCEPT ![c] = IF Overridden(c) /\ readable
                                              THEN override[Portal(c)] ELSE site[Portal(c)]]
       /\ IF readable THEN UNCHANGED faults ELSE Overridden(c) /\ Fault
  /\ UNCHANGED <<world, database, at, seen, todo>>

\* Three attempts failed, or the page had no regulation data: skip the portal.
FetchFails(c) ==
  /\ pc[c] = "fetch" /\ Fault
  /\ Advance(c)
  /\ UNCHANGED <<world, database, todo>>

\* The first statement of a transaction starts it.
SelectLatest(c) ==
  /\ Goto(c, "select", "compare")
  /\ seen' = [seen EXCEPT ![c] = snapshot[Portal(c)]]
  /\ IF c \in open THEN UNCHANGED transactions ELSE Begin(c)
  /\ UNCHANGED <<world, snapshot, deltas, at, fetched, todo, faults>>

(* No change: the row read becomes the newest one, whatever was committed  *)
(* in between; every other open transaction began before that.             *)
TouchRow(c) ==
  /\ snapshot' = [snapshot EXCEPT ![Portal(c)] = seen[c]]
  /\ FallBehind(open, Portal(c), c)
  /\ EndAnd(FALSE, c)
  /\ UNCHANGED deltas

Heartbeat(c) ==
  /\ pc[c] = "compare" /\ seen[c] = fetched[c]
  /\ TouchRow(c)
  /\ Advance(c)
  /\ UNCHANGED <<world, todo, faults>>

\* Plausible slips: no delta for the first snapshot; snapshot and delta in two
\* commits; a row stamped with the portal's own date.
InsertFirstQuietly(c) ==
  /\ snapshot' = [snapshot EXCEPT ![Portal(c)] = fetched[c]]
  /\ deltas' = IF seen[c] = NoContent THEN deltas
               ELSE Append(deltas, [portal |-> Portal(c), prev |-> seen[c],
                                    new |-> fetched[c], stage |-> "found"])
  /\ FallBehind(elder[c], Portal(c), c)
InsertInTwoCommits(c) ==
  /\ \/ snapshot' = [snapshot EXCEPT ![Portal(c)] = fetched[c]]
     \/ snapshot' = snapshot
  /\ deltas' = Append(deltas, [portal |-> Portal(c), prev |-> seen[c],
                               new |-> fetched[c], stage |-> "found"])
  /\ FallBehind(elder[c], Portal(c), c)
InsertBackdated(c) ==
  /\ snapshot' = IF snapshot[Portal(c)] # NoContent THEN snapshot
                 ELSE [snapshot EXCEPT ![Portal(c)] = fetched[c]]
  /\ deltas' = Append(deltas, [portal |-> Portal(c), prev |-> seen[c],
                               new |-> fetched[c], stage |-> "found"])
  /\ FallBehind(elder[c], Portal(c), c)

(* A change: snapshot and delta in one commit, stamped with the start of   *)
(* the transaction.  Only transactions that began earlier fall behind it,  *)
(* and it is not the newest row if its own transaction already is behind.  *)
InsertRows(c) ==
  /\ snapshot' = IF Portal(c) \in behind[c] THEN snapshot
                 ELSE [snapshot EXCEPT ![Portal(c)] = fetched[c]]
  /\ deltas' = Append(deltas, [portal |-> Portal(c), prev |-> seen[c],
                               new |-> fetched[c], stage |-> "found"])
  /\ FallBehind(elder[c], Portal(c), c)

\* refresh(delta) starts the next transaction, open until the next commit.
Insert(c) ==
  /\ pc[c] = "compare" /\ seen[c] # fetched[c]
  /\ InsertRows(c)
  /\ EndAnd(TRUE, c)
  /\ todo' = [todo EXCEPT ![c] = Append(@, Len(deltas) + 1)]
  /\ Advance(c)
  /\ UNCHANGED <<world, faults>>

-----------------------------------------------------------------------------
(* run_cycle's loop over the deltas found.                                 *)

Current(c) == Head(todo[c])
SetStage(c, s) == deltas' = [deltas EXCEPT ![Current(c)].stage = s]
IsCosmetic(d) == <<deltas[d].prev, deltas[d].new>> \in Cosmetic

\* A plausible slip: `return' where the loop should go on.
NextDeltaReturns(c) ==
  /\ pc' = [pc EXCEPT ![c] = "alerts"]
  /\ todo' = [todo EXCEPT ![c] = <<>>]

NextDelta(c) ==
  /\ pc' = [pc EXCEPT ![c] = "alerts"]
  /\ todo' = [todo EXCEPT ![c] = Tail(@)]

\* A plausible slip: alerts are created again until the loop is left.
AlertAgain(c) ==
  /\ pc[c] = "alerts" /\ todo[c] # <<>>
  /\ SetStage(c, "alerted")
  /\ UNCHANGED <<world, snapshot, transactions, pc, at, fetched, seen, todo, faults>>

\* Extract, update the graph, find the businesses; the alerts are committed.
Alert(c) ==
  /\ todo[c] # <<>>
  /\ Goto(c, "alerts", IF IsCosmetic(Current(c)) THEN "commit" ELSE "cascade")
  /\ SetStage(c, "alerted")
  /\ UNCHANGED <<world, snapshot, transactions, at, fetched, seen, todo, faults>>

Cascade(c) ==
  /\ Goto(c, "cascade", "commit")
  /\ SetStage(c, "cascaded")
  /\ UNCHANGED <<world, snapshot, transactions, at, fetched, seen, todo, faults>>

CommitProcessed(c) ==
  /\ Goto(c, "commit", "announce")
  /\ SetStage(c, "processed")
  /\ UNCHANGED <<world, snapshot, transactions, at, fetched, seen, todo, faults>>

\* The broadcast reached every socket; the ledger entry is committed.
Announce(c) ==
  /\ pc[c] = "announce"
  /\ SetStage(c, "ledgered")
  /\ NextDelta(c)
  /\ UNCHANGED <<world, snapshot, transactions, at, fetched, seen, faults>>

\* An exception that is not the database's (matching a business, sending to a
\* dead socket) is logged and the loop goes on with the next delta.
DeltaRaises(c) ==
  /\ pc[c] \in {"alerts", "cascade", "announce"} /\ todo[c] # <<>> /\ Fault
  /\ NextDelta(c)
  /\ UNCHANGED <<world, database, at, fetched, seen>>

Finish(c) ==
  /\ pc[c] = "alerts" /\ todo[c] = <<>>
  /\ Leave(c)
  /\ EndTransaction(c)
  /\ UNCHANGED <<world, snapshot, deltas, faults>>

-----------------------------------------------------------------------------
(* The database raises, or the process dies.  The statement under way may  *)
(* have been committed.  Without a rollback the session is of no further   *)
(* use, so the deltas found but not processed are given up with it.        *)
CycleDies(c) ==
  /\ pc[c] # "idle" /\ Fault
  /\ Leave(c)
  /\ \/ EndTransaction(c) /\ UNCHANGED <<snapshot, deltas>>
     \/ pc[c] = "compare" /\ seen[c] = fetched[c] /\ TouchRow(c)
     \/ /\ pc[c] = "compare" /\ seen[c] # fetched[c]
        /\ InsertRows(c)
        /\ EndAnd(FALSE, c)
     \/ /\ \/ pc[c] = "alerts" /\ todo[c] # <<>> /\ SetStage(c, "alerted")
           \/ pc[c] = "cascade" /\ SetStage(c, "cascaded")
           \/ pc[c] = "commit" /\ SetStage(c, "processed")
           \/ pc[c] = "announce" /\ SetStage(c, "ledgered")
        /\ EndTransaction(c)
        /\ UNCHANGED snapshot
  /\ UNCHANGED world

-----------------------------------------------------------------------------
\* What a cycle under way does by itself.
Proceed(c) ==
  \/ Fetch(c) \/ SelectLatest(c) \/ Heartbeat(c) \/ Insert(c)
  \/ Alert(c) \/ Cascade(c) \/ CommitProcessed(c) \/ Announce(c) \/ Finish(c)

Next ==
  \/ \E p \in Portals : Publish(p)
  \/ \E c \in Pollers : Poll(c)
  \/ \E c \in Demos : Trigger(c)
  \/ \E c \in Cycles : Proceed(c) \/ FetchFails(c) \/ DeltaRaises(c) \/ CycleDies(c)

Spec == Init /\ [][Next]_vars

\* The interval trigger fires again and again, and a cycle under way goes on.
FairSpec ==
  /\ Spec
  /\ \A c \in Pollers : WF_vars(Poll(c))
  /\ \A c \in Cycles : WF_vars(Proceed(c))

-----------------------------------------------------------------------------
DeltaRows == [portal : Portals, prev : Contents \cup {NoContent}, new : Contents,
              stage : Stages]
InHand(d) == \E c \in Cycles : \E i \in DOMAIN todo[c] : todo[c][i] = d

\* Rows, sessions and local variables hold what they are meant to hold.
TypeOK ==
  /\ site \in [Portals -> Contents]
  /\ override \in [Portals -> Contents \cup {NoContent}]
  /\ snapshot \in [Portals -> Contents \cup {NoContent}]
  /\ deltas \in Seq(DeltaRows)
  /\ open \subseteq Cycles
  /\ elder \in [Cycles -> SUBSET Cycles]
  /\ behind \in [Cycles -> SUBSET Portals]
  /\ pc \in [Cycles -> PCs]
  /\ at \in [Cycles -> DOMAIN PortalSeq]
  /\ fetched \in [Cycles -> Contents \cup {NoContent}]
  /\ seen \in [Cycles -> Contents \cup {NoContent}]
  /\ todo \in [Cycles -> Seq(Nat)]
  /\ published \in [Portals -> Nat]
  /\ faults \in 0..MaxFaults

(* What a cycle holds agrees with where it stands: fetched before it is    *)
(* compared, the deltas to process are rows, at most one of each portal    *)
(* checked so far, and there is one while one is processed.                *)
CycleOK(c) ==
  /\ pc[c] \in {"select", "compare"} => fetched[c] \in Contents
  /\ pc[c] \in {"cascade", "commit", "announce"} => todo[c] # <<>>
  /\ pc[c] = "idle" => todo[c] = <<>>
  /\ todo[c] \in Seq(1..Len(deltas))
  /\ Len(todo[c]) <= IF pc[c] \in {"fetch", "select", "compare"} THEN at[c] - 1
                     ELSE Len(PortalSeq)

(* Types, and every cycle (watcher.py, orchestrator.py) as CycleOK says.   *)
WatchInv == TypeOK /\ \A c \in Cycles : CycleOK(c)

(* The content the watch goes by was detected as a change: a stale         *)
(* heartbeat or an insert stamped in the past may bring an older row back, *)
(* but never one without a delta.                                          *)
SnapshotHasDelta ==
  \A p \in Portals : snapshot[p] # NoContent =>
    \E d \in DOMAIN deltas : deltas[d].portal = p /\ deltas[d].new = snapshot[p]

Abandoned == {d \in DOMAIN deltas : deltas[d].stage # "ledgered" /\ ~InHand(d)}

(* A delta nobody will process any more (nothing looks for processed =     *)
(* FALSE) is the price of a failure, which costs at most one delta of each *)
(* portal.                                                                 *)
AbandonedPerFault == Cardinality(Abandoned) <= faults * Len(PortalSeq)

(* With one cycle at a time the deltas of a portal form a chain: each one  *)
(* starts from the content the previous one ended with, whatever fails.    *)
DeltaChain ==
  \A i, k \in DOMAIN deltas :
    /\ i < k /\ deltas[i].portal = deltas[k].portal
    /\ \A m \in DOMAIN deltas : i < m /\ m < k => deltas[m].portal # deltas[i].portal
    => deltas[k].prev = deltas[i].new

DeltasOf(p) == {d \in DOMAIN deltas : deltas[d].portal = p}

(* Concurrent cycles detect a change twice, or detect a change back that   *)
(* never happened: a publication sets off up to DeltasEach deltas, and the *)
(* first content one per cycle, but no chain reaction.  An override lasts  *)
(* longer than its trigger: a demo cycle of any portal replays it, so the  *)
(* publications of all portals count.                                      *)
DeltasPerPublication ==
  \A p \in Portals :
    Cardinality(DeltasOf(p)) <= Cardinality(Cycles) + DeltasEach * SumFunction(published)

(* The cycles that will compare p with a content that it does not serve:   *)
(* what they fetched was changed since, or they are to fetch an override.  *)
Ahead(c, p) ==
  /\ pc[c] \in {"fetch", "select", "compare"}
  /\ \E i \in DOMAIN PortalSeq : PortalSeq[i] = p /\ (at[c] < i \/ (at[c] = i /\ pc[c] = "fetch"))
Visiting(c, p) == pc[c] \in {"select", "compare"} /\ Portal(c) = p
Misled(p) == {c \in Cycles : Visiting(c, p) /\ fetched[c] # site[p]}
             \cup {c \in Demos : Ahead(c, p)}

\* The cycles that fetched what p serves, and selected another row.
Outdated(p) ==
  {c \in Cycles : pc[c] = "compare" /\ Visiting(c, p) /\ fetched[c] = site[p] /\ seen[c] # site[p]}

\* The cycles whose row would not become the newest, or would not after a row of one.
Late(p) == {c \in Cycles : \E d \in Cycles : p \in behind[d] /\ (c = d \/ c \in elder[d])}

\* The deltas that can follow without anybody being misled: an older snapshot is
\* replaced by the first row that is not late, and those who selected it insert.
Due(p) ==
  IF snapshot[p] = site[p] THEN Cardinality(Outdated(p))
  ELSE Cardinality(Late(p)) + Cardinality(Cycles)

\* What one publication can set off, for any number of cycles.
DeltaBound == Cardinality(Cycles) * (2 * Cardinality(Cycles) + 3)

(* DeltasPerPublication, strengthened until every step preserves it: the    *)
(* deltas so far, those that are due, and those that each misled cycle can *)
(* still cause, are paid for by publications.                              *)
SpentInv(p) ==
  Cardinality(DeltasOf(p)) + Due(p) + (2 * Cardinality(Cycles) + 1) * Cardinality(Misled(p))
    <= Cardinality(Cycles) + DeltaBound * SumFunction(published)

(* Transactions are ordered by their start, a closed one is behind nothing. *)
TransactionsInv ==
  /\ \A c \in Cycles :
       /\ elder[c] \subseteq open \ {c}
       /\ \A d \in elder[c] : elder[d] \subseteq elder[c]
       /\ c \notin open => behind[c] = {}
       /\ pc[c] = "idle" => c \notin open

DeltasInv == TransactionsInv /\ \A p \in Portals : SpentInv(p)

(* Once the portals stop changing, the snapshots end up equal to what the  *)
(* portals serve and stay so, whatever the interleaving and the failures.  *)
Converges == <>[](snapshot = site)

(* Every delta is processed and ledgered in the end, or was abandoned.     *)
DeltasSettle ==
  <>[](\A d \in DOMAIN deltas : deltas[d].stage = "ledgered" \/ ~InHand(d))

(* The docstring of trigger_change: it "runs an IRDA cycle with            *)
(* allow_demo_override=True so it picks up the Redis override instead of   *)
(* the live portal".  Once such a cycle has looked at every portal, and    *)
(* nothing failed, a portal is known to have changed.                      *)
DemoFindsChange ==
  \A c \in Demos : pc[c] = "alerts" /\ faults = 0 =>
    \E d \in DOMAIN deltas : deltas[d].prev # NoContent
=============================================================================

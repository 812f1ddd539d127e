---------------------------- MODULE MetricsStore ----------------------------
(***************************************************************************)
(* The counters of services/orchestration/metrics.py: one JSON file that   *)
(* every process loads, keeps in memory and rewrites as a whole.  Nobody   *)
(* locks it.  Path.write_text empties the file before it writes.           *)
(***************************************************************************)
EXTENDS Naturals

CONSTANTS
  Writers,  \* processes with a MetricsStore on the file
  Names     \* the counters followed; the others are rewritten with them

VARIABLES
  counters,  \* the file: whether it is whole, and the values it was given last
  mem        \* each process's own counters

metricsVars == <<counters, mem>>

Zero == [n \in Names |-> 0]

InitMetrics ==
  /\ counters = [whole |-> TRUE, value |-> Zero]
  /\ mem = [w \in Writers |-> Zero]

\* A file that json.loads raises on leaves the zeros of __init__.
Loaded == IF counters.whole THEN counters.value ELSE Zero

\* Mutant of Load: a store that does not read the file it will replace.
LoadNothing(w) == UNCHANGED metricsVars

Load(w) == mem' = [mem EXCEPT ![w] = Loaded] /\ UNCHANGED counters

Add(w, n, k) ==
  mem' = [mem EXCEPT ![w] = [m \in Names |-> IF m = n THEN @[m] + k ELSE @[m]]]

\* increment(n, k), until _persist has opened the file.
Increment(w, n, k) == Add(w, n, k) /\ counters' = [counters EXCEPT !.whole = FALSE]

\* ... and when the directory or the file cannot be opened: memory is ahead of it.
IncrementRaises(w, n, k) == Add(w, n, k) /\ UNCHANGED counters

\* Another process that opened the file at the same time has written already:
\* what it wrote may be longer, and its end stays behind ours.
Persist(w) ==
  /\ \E mixed \in {FALSE, counters.whole} :
       counters' = [whole |-> ~ mixed, value |-> mem[w]]
  /\ UNCHANGED mem
=============================================================================

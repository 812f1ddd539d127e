--------------------------- MODULE DocumentPipeline ---------------------------
(***************************************************************************)
(* The five Airflow DAGs of airflow_home/dags and the jobs they call in    *)
(* services/orchestration: collection, processing, embedding, compliance   *)
(* analysis, reporting.  They share no memory: each stage leaves files for *)
(* the next, and the success of a task with an outlet marks a dataset as   *)
(* updated, which makes Airflow start a run of the DAG it schedules.       *)
(*                                                                         *)
(* Path.write_text is two steps: the file is opened and is empty, and it   *)
(* is closed and has its text (every file here is smaller than the write   *)
(* buffer).  Files of a directory are kept in the order of their mtimes.   *)
(* Metrics and lineage are append-only by-products nothing here reads back;*)
(* the jobs pushed to Redis are WorkQueue's, and their loss is ignored.    *)
(***************************************************************************)
EXTENDS Naturals, Sequences, FiniteSets

CONSTANTS
  RegulatorSeq,  \* the enabled regulators, sorted as their directories are
  Bodies,        \* what a regulator can serve, up to its hash
  Empty,         \* the text of a file that has been opened and not closed
  NoHash,        \* no usable hash file
  ChunkCount,    \* number of chunks of each text
  Limit,         \* how many chunk files an analysis takes: 50
  Retries,       \* 3 in every DAG
  Collectors,    \* mapped collect_regulator task instances, one hourly run or more
  RegulatorOf,   \* the regulator each of them is mapped to
  Processors,    \* concurrent runs of each of the other DAGs
  Embedders,
  Analysts,
  Reporters,
  NoAnalysis,    \* no summary file
  MaxPublished,  \* bound: changes of all regulators together
  MaxHours,      \* bound: hourly runs of each collect task
  MaxErrors,     \* bound: exceptions inside collect_regulator
  MaxKills       \* bound: task processes killed

Regulators == {RegulatorSeq[i] : i \in DOMAIN RegulatorSeq}
Tasks == Collectors \cup Processors \cup Embedders \cup Analysts \cup Reporters

\* latest_analysis.json: JSON about the chunks K, or the file of a write under way.
Summary(K) == [json |-> TRUE, about |-> K]
Torn == [json |-> FALSE, about |-> {}]

ASSUME PipelineAssumption ==
  /\ RegulatorSeq \in Seq(Regulators) /\ RegulatorSeq # <<>>
  /\ \A i, k \in DOMAIN RegulatorSeq : RegulatorSeq[i] = RegulatorSeq[k] => i = k
  /\ Empty \notin Bodies /\ NoHash \notin Bodies
  /\ ChunkCount \in [Bodies \cup {Empty} -> Nat] /\ ChunkCount[Empty] = 0
  /\ RegulatorOf \in [Collectors -> Regulators]
  /\ Collectors \cap (Processors \cup Embedders \cup Analysts \cup Reporters) = {}
  /\ Processors \cap (Embedders \cup Analysts \cup Reporters) = {}
  /\ Embedders \cap (Analysts \cup Reporters) = {}
  /\ Analysts \cap Reporters = {}
  /\ NoAnalysis # Torn
  /\ Limit \in Nat /\ Retries \in Nat
  /\ MaxPublished \in Nat /\ MaxHours \in Nat /\ MaxErrors \in Nat /\ MaxKills \in Nat

VARIABLES
  site,      \* what each regulator serves
  hash,      \* data/raw/_hashes/<regulator>.txt, as the text it is the hash of
  raw,       \* the files of data/pipeline/raw/<regulator>, oldest mtime first
  chunks,    \* the files of data/pipeline/chunks, oldest mtime first
  torn,      \* those of them that are empty
  store,     \* the chunk ids in the vector store
  analysis,  \* compliance/latest_analysis.json
  report,    \* the summary the newest report is made from
  pending,   \* the datasets whose update has not started a run yet
  failed,    \* the datasets whose tasks failed for good some time
  pc,        \* where each task stands
  tries,     \* attempts of it that failed
  body,      \* what a collector fetched
  at,        \* index of the regulator a processor works on
  doc,       \* the raw file a collector writes, or a processor works on
  next,      \* the chunk of it a processor writes
  batch,     \* the chunks an embedder or an analyst has read
  published, \* history: changes of the regulators
  hours,     \* history: hourly runs of each collector
  errors,    \* history: exceptions inside collect_regulator
  kills      \* history: task processes killed

files == <<raw, chunks, torn>>
results == <<store, analysis, report>>
airflow == <<pending, failed, tries>>
locals == <<body, at, doc, next, batch>>
history == <<published, hours, errors, kills>>
vars == <<site, hash, files, results, airflow, pc, locals, history>>

NoDoc == [n |-> 0, text |-> Empty]

Init ==
  /\ site \in [Regulators -> Bodies]
  /\ hash = [r \in Regulators |-> NoHash]
  /\ raw = [r \in Regulators |-> <<>>]
  /\ chunks = <<>> /\ torn = {}
  /\ store = {} /\ analysis = NoAnalysis /\ report = NoAnalysis
  /\ pending = {} /\ failed = {}
  /\ pc = [t \in Tasks |-> "idle"]
  /\ tries = [t \in Tasks |-> 0]
  /\ body = [c \in Collectors |-> Empty]
  /\ at = [p \in Processors |-> 1]
  /\ doc = [t \in Collectors \cup Processors |-> NoDoc]
  /\ next = [p \in Processors |-> 1]
  /\ batch = [t \in Embedders \cup Analysts |-> {}]
  /\ published = 0 /\ hours = [c \in Collectors |-> 0] /\ errors = 0 /\ kills = 0

-----------------------------------------------------------------------------
(* Airflow: datasets, task instances, retries.                             *)

\* The dataset a task's success updates, and the one that schedules its run.
Outlet(t) == CASE t \in Collectors -> "raw_documents"
               [] t \in Processors -> "chunks"
               [] t \in Embedders -> "embeddings"
               [] t \in Analysts -> "compliance_results"
               [] OTHER -> "none"
Schedule(t) == CASE t \in Processors -> "raw_documents"
                 [] t \in Embedders -> "chunks"
                 [] t \in Analysts -> "embeddings"
                 [] OTHER -> "compliance_results"

Start(t) == IF t \in Collectors THEN "fetch" ELSE "read"
Goto(t, from, to) == pc[t] = from /\ pc' = [pc EXCEPT ![t] = to]

\* A task's locals end with it.
Forget(t) ==
  /\ body' = IF t \in Collectors THEN [body EXCEPT ![t] = Empty] ELSE body
  /\ at' = IF t \in Processors THEN [at EXCEPT ![t] = 1] ELSE at
  /\ doc' = IF t \in Collectors \cup Processors THEN [doc EXCEPT ![t] = NoDoc] ELSE doc
  /\ next' = IF t \in Processors THEN [next EXCEPT ![t] = 1] ELSE next
  /\ batch' = IF t \in Embedders \cup Analysts THEN [batch EXCEPT ![t] = {}] ELSE batch

Succeed(t) ==
  /\ pc' = [pc EXCEPT ![t] = "idle"]
  /\ tries' = [tries EXCEPT ![t] = 0]
  /\ pending' = pending \cup ({Outlet(t)} \ {"none"})
  /\ Forget(t)
  /\ UNCHANGED failed

\* The attempt raised or died: retried after a delay, or on_failure_callback.
AttemptFails(t) ==
  /\ Forget(t)
  /\ UNCHANGED pending
  /\ IF tries[t] < Retries
       THEN /\ pc' = [pc EXCEPT ![t] = "retry"]
            /\ tries' = [tries EXCEPT ![t] = @ + 1]
            /\ UNCHANGED failed
       ELSE /\ pc' = [pc EXCEPT ![t] = "idle"]
            /\ tries' = [tries EXCEPT ![t] = 0]
            /\ failed' = failed \cup {Outlet(t)}

Retry(t) ==
  /\ Goto(t, "retry", Start(t))
  /\ UNCHANGED <<site, hash, files, results, airflow, locals, history>>

\* Starting a run uses the dataset's updates up.
TriggerRun(t) ==
  /\ t \notin Collectors
  /\ Schedule(t) \in pending
  /\ Goto(t, "idle", Start(t))
  /\ pending' = pending \ {Schedule(t)}
  /\ UNCHANGED <<site, hash, files, results, failed, tries, locals, history>>

Hourly(c) ==
  /\ hours[c] < MaxHours
  /\ Goto(c, "idle", "fetch")
  /\ hours' = [hours EXCEPT ![c] = @ + 1]
  /\ UNCHANGED <<site, hash, files, results, airflow, locals, published, errors, kills>>

Publish(r) ==
  /\ published < MaxPublished
  /\ \E b \in Bodies \ {site[r]} : site' = [site EXCEPT ![r] = b]
  /\ published' = published + 1
  /\ UNCHANGED <<hash, files, results, airflow, pc, locals, hours, errors, kills>>

-----------------------------------------------------------------------------
(* collect_regulator.                                                      *)

Fetch(c) ==
  /\ Goto(c, "fetch", "compare")
  /\ body' = [body EXCEPT ![c] = site[RegulatorOf[c]]]
  /\ UNCHANGED <<site, hash, files, results, airflow, at, doc, next, batch, history>>

\* The task succeeds with status "unchanged", and updates its outlet all the same.
FindUnchanged(c) ==
  /\ pc[c] = "compare" /\ hash[RegulatorOf[c]] = body[c]
  /\ Succeed(c)
  /\ UNCHANGED <<site, hash, files, results, history>>

\* A plausible slip: the hash is stored before the document.
HashFirst(c) ==
  /\ hash[RegulatorOf[c]] # body[c]
  /\ Goto(c, "compare", "open")
  /\ hash' = [hash EXCEPT ![RegulatorOf[c]] = body[c]]
  /\ UNCHANGED <<site, files, results, airflow, locals, history>>

FindChanged(c) ==
  /\ hash[RegulatorOf[c]] # body[c]
  /\ Goto(c, "compare", "open")
  /\ UNCHANGED <<site, hash, files, results, airflow, locals, history>>

Elements(s) == {s[i] : i \in DOMAIN s}
Last(s) == s[Len(s)]

\* A directory without file x.
Others(s, x) ==
  IF x \notin Elements(s) THEN s
  ELSE LET i == CHOOSE k \in DOMAIN s : s[k] = x
       IN [k \in 1..Len(s) - 1 |-> IF k < i THEN s[k] ELSE s[k + 1]]

\* save_raw_document: a new file each time, named by the second and the hash.
OpenRaw(c) ==
  LET r == RegulatorOf[c]
      new == [n |-> Len(raw[r]) + 1, text |-> Empty]
  IN /\ Goto(c, "open", "write")
     /\ raw' = [raw EXCEPT ![r] = Append(@, new)]
     /\ doc' = [doc EXCEPT ![c] = new]
  /\ UNCHANGED <<site, hash, chunks, torn, results, airflow, body, at, next, batch, history>>

WriteRaw(c) ==
  LET r == RegulatorOf[c]
  IN /\ Goto(c, "write", "hash")
     /\ raw' = [raw EXCEPT ![r] = Append(Others(@, doc[c]), [doc[c] EXCEPT !.text = body[c]])]
  /\ UNCHANGED <<site, hash, chunks, torn, results, airflow, locals, history>>

StoreHash(c) ==
  /\ pc[c] = "hash"
  /\ hash' = [hash EXCEPT ![RegulatorOf[c]] = body[c]]
  /\ Succeed(c)
  /\ UNCHANGED <<site, files, results, history>>

\* A hash file whose write did not come to its end may be empty.
HashFileBroken(c) ==
  \/ UNCHANGED hash
  \/ pc[c] = "hash" /\ hash' = [hash EXCEPT ![RegulatorOf[c]] = NoHash]

\* Every exception, and every HTTP error, becomes status "error" and a success.
CollectError(c) ==
  /\ pc[c] \in {"fetch", "compare", "open", "write", "hash"}
  /\ errors < MaxErrors /\ errors' = errors + 1
  /\ HashFileBroken(c)
  /\ Succeed(c)
  /\ UNCHANGED <<site, files, results, published, hours, kills>>

-----------------------------------------------------------------------------
(* process_raw_documents.                                                  *)

Regulator(p) == RegulatorSeq[at[p]]
Key(p) == <<Regulator(p), doc[p].n, next[p]>>

\* A plausible slip: one directory too many.
AdvanceTooFar(p) ==
  /\ at' = [at EXCEPT ![p] = @ + 1]
  /\ doc' = [doc EXCEPT ![p] = NoDoc]
  /\ next' = [next EXCEPT ![p] = 1]
  /\ pc' = [pc EXCEPT ![p] = IF at[p] <= Len(RegulatorSeq) THEN "read" ELSE "finish"]

\* On to the next regulator's directory.
Advance(p) ==
  /\ at' = [at EXCEPT ![p] = @ + 1]
  /\ doc' = [doc EXCEPT ![p] = NoDoc]
  /\ next' = [next EXCEPT ![p] = 1]
  /\ pc' = [pc EXCEPT ![p] = IF at[p] < Len(RegulatorSeq) THEN "read" ELSE "finish"]

\* The file with the newest mtime.
Newest(s) == Last(s)

\* A plausible slip: a directory without files ends the walk.
ReadNewestBreaks(p) ==
  /\ pc[p] = "read"
  /\ IF raw[Regulator(p)] = <<>>
       THEN pc' = [pc EXCEPT ![p] = "finish"] /\ UNCHANGED <<at, next, doc>>
     ELSE IF ChunkCount[Newest(raw[Regulator(p)]).text] = 0
       THEN Advance(p)
       ELSE /\ doc' = [doc EXCEPT ![p] = Newest(raw[Regulator(p)])]
            /\ pc' = [pc EXCEPT ![p] = "open"]
            /\ UNCHANGED <<at, next>>
  /\ UNCHANGED <<site, hash, files, results, airflow, body, batch, history>>

\* A directory without files, or a text without chunks, takes one step.
ReadNewest(p) ==
  /\ pc[p] = "read"
  /\ IF raw[Regulator(p)] = <<>> \/ ChunkCount[Newest(raw[Regulator(p)]).text] = 0
       THEN Advance(p)
       ELSE /\ doc' = [doc EXCEPT ![p] = Newest(raw[Regulator(p)])]
            /\ pc' = [pc EXCEPT ![p] = "open"]
            /\ UNCHANGED <<at, next>>
  /\ UNCHANGED <<site, hash, files, results, airflow, body, batch, history>>

OpenChunk(p) ==
  /\ Goto(p, "open", "write")
  /\ chunks' = Append(Others(chunks, Key(p)), Key(p))
  /\ torn' = torn \cup {Key(p)}
  /\ UNCHANGED <<site, hash, raw, results, airflow, locals, history>>

WriteChunk(p) ==
  /\ pc[p] = "write"
  /\ chunks' = Append(Others(chunks, Key(p)), Key(p))
  /\ torn' = torn \ {Key(p)}
  /\ IF next[p] < ChunkCount[doc[p].text]
       THEN /\ next' = [next EXCEPT ![p] = @ + 1]
            /\ pc' = [pc EXCEPT ![p] = "open"]
            /\ UNCHANGED <<at, doc>>
       ELSE Advance(p)
  /\ UNCHANGED <<site, hash, raw, results, airflow, body, batch, history>>

FinishProcessing(p) ==
  /\ pc[p] = "finish"
  /\ Succeed(p)
  /\ UNCHANGED <<site, hash, files, results, history>>

-----------------------------------------------------------------------------
(* upsert_chunk_embeddings, analyze_compliance, publish_report.            *)

\* Plausible slips: a sort that is not reversed, and a limit where there is none.
OldestFiles(k) == {chunks[i] : i \in {j \in DOMAIN chunks : j <= k}}
NewestFiles(k) == {chunks[i] : i \in {j \in DOMAIN chunks : j + k > Len(chunks)}}
NewestOnly(t) == NewestFiles(Limit)

\* An embedder takes all files, an analyst the newest ones.
Wanted(t) == IF t \in Embedders THEN Elements(chunks) ELSE NewestFiles(Limit)

ReadChunks(t) ==
  /\ t \in Embedders \cup Analysts
  /\ Wanted(t) \cap torn = {}
  /\ Goto(t, "read", IF t \in Embedders THEN "upsert" ELSE "open")
  /\ batch' = [batch EXCEPT ![t] = Wanted(t)]
  /\ UNCHANGED <<site, hash, files, results, airflow, body, at, doc, next, history>>

\* A plausible slip: the exception is swallowed, as in collect_regulator.
ReadRaisesQuietly(t) ==
  /\ pc[t] = "read"
  /\ \/ t \in Embedders \cup Analysts /\ Wanted(t) \cap torn # {}
     \/ t \in Reporters /\ analysis = Torn
  /\ Succeed(t)
  /\ UNCHANGED <<site, hash, files, results, history>>

\* json.loads raises on a file that is empty.
ReadRaises(t) ==
  /\ pc[t] = "read"
  /\ \/ t \in Embedders \cup Analysts /\ Wanted(t) \cap torn # {}
     \/ t \in Reporters /\ analysis = Torn
  /\ AttemptFails(t)
  /\ UNCHANGED <<site, hash, files, results, history>>

\* Then the jobs are pushed, or not: an exception is noted and the task succeeds.
Upsert(e) ==
  /\ pc[e] = "upsert"
  /\ store' = store \cup batch[e]
  /\ Succeed(e)
  /\ UNCHANGED <<site, hash, files, analysis, report, history>>

OpenAnalysis(a) ==
  /\ a \in Analysts
  /\ Goto(a, "open", "write")
  /\ analysis' = Torn
  /\ UNCHANGED <<site, hash, files, store, report, airflow, locals, history>>

\* Text written over another run's, which may be longer, need not be JSON.
WriteAnalysis(a) ==
  /\ a \in Analysts /\ pc[a] = "write"
  /\ \/ analysis' = Summary(batch[a])
     \/ analysis \notin {Torn, Summary(batch[a])} /\ analysis' = Torn
  /\ Succeed(a)
  /\ UNCHANGED <<site, hash, files, store, report, history>>

PublishReport(t) ==
  /\ t \in Reporters /\ pc[t] = "read" /\ analysis # Torn
  /\ report' = analysis
  /\ Succeed(t)
  /\ UNCHANGED <<site, hash, files, store, analysis, history>>

-----------------------------------------------------------------------------
\* The process of a task instance dies (zombie, out of memory, restart of the
\* executor), after the last statement or before it.
Kill(t) ==
  /\ pc[t] \notin {"idle", "retry"}
  /\ kills < MaxKills /\ kills' = kills + 1
  /\ AttemptFails(t)
  /\ \/ UNCHANGED <<hash, results>>
     \/ /\ t \in Collectors /\ pc[t] = "hash"
        /\ \E h \in {NoHash, body[t]} : hash' = [hash EXCEPT ![RegulatorOf[t]] = h]
        /\ UNCHANGED results
     \/ /\ t \in Embedders /\ pc[t] = "upsert"
        /\ store' = store \cup batch[t]
        /\ UNCHANGED <<hash, analysis, report>>
     \/ /\ t \in Analysts /\ pc[t] = "write"
        /\ analysis' = Summary(batch[t])
        /\ UNCHANGED <<hash, store, report>>
  /\ UNCHANGED <<site, files, published, hours, errors>>

Collect(c) ==
  Fetch(c) \/ FindUnchanged(c) \/ FindChanged(c) \/ OpenRaw(c) \/ WriteRaw(c) \/ StoreHash(c)
Process(p) == ReadNewest(p) \/ OpenChunk(p) \/ WriteChunk(p) \/ FinishProcessing(p)

\* What the scheduler and a task under way do by themselves.
Proceed(t) ==
  \/ t \in Collectors /\ Collect(t)
  \/ t \in Processors /\ Process(t)
  \/ t \in Embedders /\ Upsert(t)
  \/ ReadChunks(t) \/ ReadRaises(t)
  \/ OpenAnalysis(t) \/ WriteAnalysis(t) \/ PublishReport(t)
  \/ TriggerRun(t) \/ Retry(t)

Next ==
  \/ \E r \in Regulators : Publish(r)
  \/ \E c \in Collectors : Hourly(c) \/ CollectError(c)
  \/ \E t \in Tasks : Proceed(t) \/ Kill(t)

Spec == Init /\ [][Next]_vars

\* The scheduler keeps starting what is due, and a started task goes on.
FairSpec == Spec /\ \A t \in Tasks : WF_vars(Proceed(t))

-----------------------------------------------------------------------------
Texts == Bodies \cup {Empty}
Keys == Regulators \X Nat \X Nat
Files == [n : Nat, text : Texts]
Summaries == [json : {TRUE}, about : SUBSET Keys]
PCs == {"idle", "retry", "fetch", "compare", "open", "write", "hash", "read", "finish", "upsert"}
Datasets == {"raw_documents", "chunks", "embeddings", "compliance_results"}

\* Files, summaries and locals hold what they are meant to hold; no task is
\* tried more often than the DAGs' default_args allow.
TypeOK ==
  /\ site \in [Regulators -> Bodies]
  /\ hash \in [Regulators -> Bodies \cup {NoHash}]
  /\ raw \in [Regulators -> Seq(Files)]
  /\ chunks \in Seq(Keys) /\ torn \in SUBSET Keys /\ store \in SUBSET Keys
  /\ analysis \in Summaries \cup {Torn, NoAnalysis}
  /\ report \in Summaries \cup {NoAnalysis}
  /\ pending \in SUBSET Datasets /\ failed \in SUBSET (Datasets \cup {"none"})
  /\ pc \in [Tasks -> PCs]
  /\ tries \in [Tasks -> 0..Retries]
  /\ body \in [Collectors -> Texts]
  /\ at \in [Processors -> 1..Len(RegulatorSeq) + 1]
  /\ doc \in [Collectors \cup Processors -> Files]
  /\ next \in [Processors -> Nat]
  /\ batch \in [Embedders \cup Analysts -> SUBSET Keys]
  /\ published \in 0..MaxPublished /\ hours \in [Collectors -> 0..MaxHours]
  /\ errors \in 0..MaxErrors /\ kills \in 0..MaxKills

\* What a collector holds agrees with where it stands: it is about to store the
\* hash of a text that is saved.
CollectorOK(c) ==
  /\ pc[c] \in {"idle", "retry", "fetch", "compare", "open", "write", "hash"}
  /\ pc[c] \in {"compare", "open", "write", "hash"} => body[c] \in Bodies
  /\ pc[c] = "write" => doc[c].text = Empty
  /\ pc[c] = "hash" => \E f \in Elements(raw[RegulatorOf[c]]) : f.text = body[c]

\* So does a processor's place: each attempt starts at the first directory, and
\* a file at its first chunk.
ProcessorOK(p) ==
  /\ pc[p] \in {"idle", "retry", "read", "open", "write", "finish"}
  /\ pc[p] \in {"idle", "retry"} => at[p] = 1
  /\ pc[p] \in {"idle", "retry", "read"} => next[p] = 1
  /\ pc[p] \in {"read", "open", "write"} => at[p] \in DOMAIN RegulatorSeq
  /\ pc[p] \in {"open", "write"} => next[p] \in 1..ChunkCount[doc[p].text]

\* Types, and every task of DAGs 01 and 02 as said: what the other invariants
\* rest on.
PipelineInv ==
  /\ TypeOK
  /\ \A c \in Collectors : CollectorOK(c)
  /\ \A p \in Processors : ProcessorOK(p)

\* Change detection hides nothing: what is taken for known was saved before,
\* whatever collect_regulator raised and wherever it was killed.
HashedIsSaved ==
  \A r \in Regulators : hash[r] \in Bodies =>
    \E f \in Elements(raw[r]) : f.text = hash[r]

Whole(k) == k \in Elements(chunks) /\ k \notin torn

\* A collector of r is not done: when it is, raw_documents is updated.
Collecting(r) == \E c \in Collectors : RegulatorOf[c] = r /\ pc[c] # "idle"

\* A processor will write chunk file k: it has not come to the regulator, or
\* works on a file of that name, with that many chunks, and not beyond this one.
WillWrite(p, k) ==
  \/ pc[p] = "retry"
  \/ /\ pc[p] \in {"read", "open", "write"}
     /\ \E i \in DOMAIN RegulatorSeq :
          /\ RegulatorSeq[i] = k[1]
          /\ \/ at[p] < i
             \/ at[p] = i /\ pc[p] = "read"
             \/ at[p] = i /\ doc[p].n = k[2] /\ k[3] \in next[p]..ChunkCount[doc[p].text]

\* No document is forgotten between collection and processing (the dataset's
\* update is used up when a run starts, and a run reads each directory once, a
\* file perhaps before it is written): a chunk of a newest document that is not
\* there yet still has somebody to write it, or a task was given up.
NoStrandedDocument ==
  \A r \in Regulators : raw[r] # <<>> =>
    LET f == Last(raw[r])
    IN \A i \in 1..ChunkCount[f.text] :
         \/ Whole(<<r, f.n, i>>)
         \/ "raw_documents" \in pending \cup failed \/ "chunks" \in failed
         \/ Collecting(r)
         \/ \E p \in Processors : WillWrite(p, <<r, f.n, i>>)

\* Nor between processing and embedding: a whole chunk file is in the store, or
\* in the hands of an embedder, or a run that has not read yet will find it.
NoStrandedChunk ==
  \A k \in Elements(chunks) \ torn :
    \/ k \in store
    \/ "chunks" \in pending \cup failed \/ "embeddings" \in failed
    \/ \E p \in Processors : pc[p] # "idle"
    \/ \E e \in Embedders : pc[e] \in {"read", "retry"} \/ k \in batch[e]

\* When runs of the analysis do not overlap, a summary that a kill left empty is
\* written again: the analyst is still at it, unless it used up its retries on
\* that and on chunk files that were being written.
SummaryRepaired ==
  \A a \in Analysts : Analysts = {a} /\ analysis = Torn =>
    "compliance_results" \in failed \/ pc[a] # "idle"

\* With what makes it inductive: nobody else writes to the summary it has open.
SummaryInv ==
  /\ PipelineInv
  /\ SummaryRepaired
  /\ \A a \in Analysts : Analysts = {a} /\ pc[a] = "write" => analysis = Torn

\* The chunks of the newest document of each regulator.
CurrentChunks ==
  UNION {{<<r, Last(raw[r]).n, i>> : i \in 1..ChunkCount[Last(raw[r]).text]} :
           r \in {q \in Regulators : raw[q] # <<>>}}

IsSummary(a) == a \notin {Torn, NoAnalysis}

\* The chunk files behind which there are fewer than Limit newer ones.
Latest == {chunks[i] : i \in {j \in DOMAIN chunks : Len(chunks) - j < Limit}}

\* One hour's collection is enough: its documents reach the store, the summary
\* and a report, although readers run into half-written files and may use up
\* their retries on them and runs of one DAG overlap, when no process is killed.
\* A run that comes last with the chunks of an older document may push current
\* ones out of the summary, when they do not all fit.
Settles ==
  <>[](kills = 0 =>
         /\ \A t \in Tasks : pc[t] = "idle"
         /\ CurrentChunks \subseteq store
         /\ CurrentChunks # {} => IsSummary(analysis) /\ Latest \subseteq analysis.about
         /\ Len(chunks) <= Limit => CurrentChunks \subseteq Latest
         /\ report = analysis)

\* ... and runs of one DAG that overlap leave no chunk behind either.
EverythingStored == <>[](kills = 0 => torn = {} /\ Elements(chunks) \subseteq store)

\* ARCHITECTURE.md, Resilience: "retries=3, per-regulator error isolation".  A
\* chunk file that a kill left half written is written by the retry, as long as
\* no task has used up its retries.  (Not so: the retry takes the newest file.)
RetryRepairs ==
  \A k \in torn : failed # {} \/ \E p \in Processors : WillWrite(p, k)
=============================================================================

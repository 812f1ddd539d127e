------------------------------- MODULE DryRun -------------------------------
(***************************************************************************)
(* services/orchestration/pipeline.py: the stages of the document pipeline *)
(* as one program without Airflow, run by scripts/run_v2_pipeline.py on a  *)
(* directory of its own.  A run may be killed anywhere, and the next one   *)
(* goes on with the files it left; two runs may overlap.                   *)
(*                                                                         *)
(* A file is written in two steps, as Path.write_text does: opened, which  *)
(* empties it, and written; one whose writing failed is taken as empty.    *)
(* A directory is read in one step.  A raw file is named by its number;    *)
(* two saves within one second, which may share a name, are left out.      *)
(*                                                                         *)
(* Collection catches whatever raises for one regulator and goes on.  The  *)
(* other stages catch nothing (the try around the vector store is not      *)
(* entered: the script sets REGGRAPH_SKIP_CHROMA), and an exception in one *)
(* of them is a Kill, or one of the *Raises over an empty file.            *)
(*                                                                         *)
(* A regulator never serves an earlier text again.                         *)
(***************************************************************************)
EXTENDS MetricsStore, Sequences, FiniteSets, FiniteSetsExt, SequencesExt

CONSTANTS
  RegulatorSeq,  \* the enabled regulators, in order
  Pieces,        \* Pieces[t]: chunks of text t
  Limit,         \* compliance reads the first 50 chunk files
  MaxNews,       \* bound: texts published after the first of each regulator
  MaxStarts,     \* bound: runs started
  MaxKills,      \* bound: runs killed
  MaxErrors,     \* bound: failed fetches and exceptions in collection, ...
  MaxOverlappingErrors  \* ... and in a history in which runs overlap

ASSUME DryRunAssumption ==
  /\ RegulatorSeq \in Seq(Range(RegulatorSeq)) /\ RegulatorSeq # <<>>
  /\ IsInjective(RegulatorSeq)
  /\ Pieces \in [1..(MaxNews + 1) -> Nat]
  /\ Limit \in Nat /\ MaxNews \in Nat
  /\ "documents_scraped" \in Names

Runs == Writers
Regulators == Range(RegulatorSeq)
Texts == 1..(MaxNews + 1)

VARIABLES
  site,        \* the text each regulator serves
  hash,        \* the text whose hash is stored, 0 for none or an empty file
  raw,         \* the texts of each regulator's raw files
  newest,      \* the raw file of each regulator that was written to last
  rawTorn,     \* raw files opened and not written
  chunks,      \* chunk files that are whole
  torn,        \* chunk files opened and not written
  summary,     \* latest_analysis.json: whether it is whole, and the chunks in it
  report,      \* the chunks in the last report, and what its run had collected
  lineage,     \* events.jsonl: stage, document and number of its chunks
  pc,          \* where each run stands
  at,          \* index of the regulator it is at
  doc,         \* the document in hand: file, text, its chunks and how many are written
  collected,   \* what it reports as saved or unchanged: regulator and text
  got,         \* the chunk files it read
  starts, kills, overlapped, aborted,  \* history
  errors,      \* history: how often collection went on after a failure
  missed,      \* history: raw files that a run gave up before it counted them
  unwritten    \* history: whether an exception ever kept the counters from the file

runVars == <<pc, at, doc, collected, got>>
rawVars == <<hash, raw, newest, rawTorn>>
chunkVars == <<chunks, torn>>
resultVars == <<summary, report>>
fileVars == <<rawVars, chunkVars, resultVars, lineage>>
historyVars == <<starts, kills, overlapped, aborted, errors, missed, unwritten>>
vars == <<site, fileVars, runVars, historyVars, metricsVars>>

NoDoc == [no |-> 0, text |-> 0, pieces |-> 0, done |-> 0]
NoReport == [covers |-> {}, collected |-> {}]

Init ==
  /\ InitMetrics
  /\ site = [g \in Regulators |-> 1]
  /\ hash = [g \in Regulators |-> 0]
  /\ raw = [g \in Regulators |-> <<>>]
  /\ newest = [g \in Regulators |-> 0]
  /\ rawTorn = {} /\ chunks = {} /\ torn = {}
  /\ summary = [whole |-> TRUE, covers |-> {}]
  /\ report = NoReport
  /\ lineage = {}
  /\ pc = [r \in Runs |-> "idle"]
  /\ at = [r \in Runs |-> 1]
  /\ doc = [r \in Runs |-> NoDoc]
  /\ collected = [r \in Runs |-> {}]
  /\ got = [r \in Runs |-> {}]
  /\ starts = 0 /\ kills = 0 /\ overlapped = FALSE /\ aborted = FALSE
  /\ errors = 0 /\ missed = 0 /\ unwritten = FALSE

At(r, label) == pc[r] = label
Goto(r, label) == pc' = [pc EXCEPT ![r] = label]
Regulator(r) == RegulatorSeq[at[r]]

\* The loop over the regulators goes on at label, or ends at done.
NextRegulator(r, label, done) ==
  /\ doc' = [doc EXCEPT ![r] = NoDoc]
  /\ IF at[r] < Len(RegulatorSeq)
     THEN at' = [at EXCEPT ![r] = @ + 1] /\ Goto(r, label)
     ELSE at' = [at EXCEPT ![r] = 1] /\ Goto(r, done)

\* The process is gone, and what it had in memory.
Exit(r) ==
  /\ Goto(r, "idle")
  /\ at' = [at EXCEPT ![r] = 1]
  /\ doc' = [doc EXCEPT ![r] = NoDoc]
  /\ collected' = [collected EXCEPT ![r] = {}]
  /\ got' = [got EXCEPT ![r] = {}]
  /\ mem' = [mem EXCEPT ![r] = Zero]
  /\ UNCHANGED counters

Publish(g) ==
  /\ site[g] + 1 \in Texts
  /\ MapThenSumSet(LAMBDA h : site[h] - 1, Regulators) < MaxNews
  /\ site' = [site EXCEPT ![g] = @ + 1]
  /\ UNCHANGED <<fileVars, runVars, historyVars, metricsVars>>

-----------------------------------------------------------------------------
(* Collection.                                                             *)

ErrorBound(overlap) == IF overlap THEN MaxOverlappingErrors ELSE MaxErrors

\* run_full_pipeline; the stage loads the counters it will add to.
Start(r) ==
  /\ At(r, "idle") /\ starts < MaxStarts
  /\ starts' = starts + 1
  /\ overlapped' = (overlapped \/ \E s \in Runs : pc[s] # "idle")
  /\ errors <= ErrorBound(overlapped')
  /\ Goto(r, "fetch")
  /\ Load(r)
  /\ UNCHANGED <<site, fileVars, at, doc, collected, got, kills, aborted, errors, missed,
                 unwritten>>

Fetch(r) ==
  /\ At(r, "fetch")
  /\ doc' = [doc EXCEPT ![r] = [NoDoc EXCEPT !.text = site[Regulator(r)]]]
  /\ Goto(r, "compare")
  /\ UNCHANGED <<site, fileVars, at, collected, got, historyVars, metricsVars>>

Raises == errors' = errors + 1 /\ errors' <= ErrorBound(overlapped)

\* fetch_url reports an error or something raises, and the loop goes on.
FetchFails(r) ==
  /\ At(r, "fetch")
  /\ Raises
  /\ NextRegulator(r, "fetch", "parse")
  /\ UNCHANGED <<site, fileVars, collected, got, starts, kills, overlapped, aborted, missed,
                 unwritten, metricsVars>>

\* The regulator's result has status "saved" or "unchanged".
Collected(r) ==
  collected' = [collected EXCEPT ![r] = @ \cup {<<Regulator(r), doc[r].text>>}]

Unchanged(r) ==
  /\ At(r, "compare")
  /\ hash[Regulator(r)] = doc[r].text
  /\ Collected(r)
  /\ NextRegulator(r, "fetch", "parse")
  /\ UNCHANGED <<site, fileVars, got, historyVars, metricsVars>>

\* save_raw_document opens a file with a new name.
OpenRaw(r) ==
  LET g == Regulator(r)
      no == Len(raw[g]) + 1 IN
  /\ At(r, "compare")
  /\ hash[g] # doc[r].text
  /\ raw' = [raw EXCEPT ![g] = Append(@, doc[r].text)]
  /\ newest' = [newest EXCEPT ![g] = no]
  /\ rawTorn' = rawTorn \cup {<<g, no>>}
  /\ doc' = [doc EXCEPT ![r].no = no]
  /\ Goto(r, "save")
  /\ UNCHANGED <<site, hash, chunkVars, resultVars, lineage, at, collected, got, historyVars,
                 metricsVars>>

WriteRaw(r) ==
  LET g == Regulator(r) IN
  /\ At(r, "save")
  /\ newest' = [newest EXCEPT ![g] = doc[r].no]
  /\ rawTorn' = rawTorn \ {<<g, doc[r].no>>}
  /\ Goto(r, "hash")
  /\ UNCHANGED <<site, hash, raw, chunkVars, resultVars, lineage, at, doc, collected, got,
                 historyVars, metricsVars>>

\* Mutant of OpenHash: the hash is stored without waiting for the text.
OpenHashEarly(r) ==
  /\ At(r, "save") \/ At(r, "hash")
  /\ hash' = [hash EXCEPT ![Regulator(r)] = 0]
  /\ Goto(r, "hashing")
  /\ UNCHANGED <<site, raw, newest, rawTorn, chunkVars, resultVars, lineage, at, doc,
                 collected, got, historyVars, metricsVars>>

OpenHash(r) ==
  /\ At(r, "hash")
  /\ hash' = [hash EXCEPT ![Regulator(r)] = 0]
  /\ Goto(r, "hashing")
  /\ UNCHANGED <<site, raw, newest, rawTorn, chunkVars, resultVars, lineage, at, doc,
                 collected, got, historyVars, metricsVars>>

\* ... and the lineage event "raw", which is under an id of its own.
WriteHash(r) ==
  /\ At(r, "hashing")
  /\ hash' = [hash EXCEPT ![Regulator(r)] = doc[r].text]
  /\ Goto(r, "count_saved")
  /\ UNCHANGED <<site, raw, newest, rawTorn, chunkVars, resultVars, lineage, at, doc,
                 collected, got, historyVars, metricsVars>>

CountSaved(r) ==
  /\ At(r, "count_saved")
  /\ Increment(r, "documents_scraped", 1)
  /\ Goto(r, "counting_saved")
  /\ UNCHANGED <<site, fileVars, at, doc, collected, got, historyVars>>

SavedCounted(r) ==
  /\ At(r, "counting_saved")
  /\ Persist(r)
  /\ Collected(r)
  /\ NextRegulator(r, "fetch", "parse")
  /\ UNCHANGED <<site, fileVars, got, historyVars>>

\* r has opened a raw file that it has not counted yet.
Uncounted(r) == IF pc[r] \in {"save", "hash", "hashing", "count_saved"} THEN 1 ELSE 0

\* The except around one regulator swallows whatever raises, and the loop goes on:
\* a file that was opened stays torn, a hash empty, what was saved is not counted.
SaveError(r) ==
  /\ Raises
  /\ pc[r] \in {"compare", "save", "hash", "hashing", "count_saved"}
  /\ missed' = missed + Uncounted(r)
  /\ NextRegulator(r, "fetch", "parse")
  /\ UNCHANGED <<site, fileVars, collected, got, starts, kills, overlapped, aborted,
                 unwritten, metricsVars>>

\* increment raises before the file is open, or leaves it open and not written.
CountError(r) ==
  /\ Raises
  /\ \/ At(r, "count_saved") /\ IncrementRaises(r, "documents_scraped", 1)
     \/ At(r, "counting_saved") /\ UNCHANGED metricsVars
  /\ unwritten' = TRUE
  /\ NextRegulator(r, "fetch", "parse")
  /\ UNCHANGED <<site, fileVars, collected, got, starts, kills, overlapped, aborted, missed>>

-----------------------------------------------------------------------------
(* Processing.                                                             *)

Key(g, no, i) == [regulator |-> g, no |-> no, idx |-> i]
KeysOf(g, no, pieces) == {Key(g, no, i) : i \in 1..pieces}

SkipEmpty(r) ==
  /\ At(r, "parse") /\ raw[Regulator(r)] = <<>>
  /\ NextRegulator(r, "parse", "embed")
  /\ UNCHANGED <<site, fileVars, collected, got, historyVars, metricsVars>>

\* Mutant of Chosen: without reverse=True.
OldestFile(g) == 1

Chosen(g) == newest[g]

\* The newest file by modification time; an empty text has no chunks.
ReadNewest(r) ==
  LET g == Regulator(r)
      no == Chosen(g)
      pieces == IF <<g, no>> \in rawTorn THEN 0 ELSE Pieces[raw[g][no]] IN
  /\ At(r, "parse") /\ raw[g] # <<>>
  /\ doc' = [doc EXCEPT ![r] = [no |-> no, text |-> raw[g][no], pieces |-> pieces, done |-> 0]]
  /\ lineage' = lineage \cup {<<"parsed", g, no, 0>>}
  /\ Goto(r, "chunk")
  /\ UNCHANGED <<site, rawVars, chunkVars, resultVars, at, collected, got, historyVars,
                 metricsVars>>

NextChunk(r) == Key(Regulator(r), doc[r].no, doc[r].done + 1)

OpenChunk(r) ==
  /\ At(r, "chunk") /\ doc[r].done < doc[r].pieces
  /\ torn' = torn \cup {NextChunk(r)}
  /\ chunks' = chunks \ {NextChunk(r)}
  /\ Goto(r, "chunking")
  /\ UNCHANGED <<site, rawVars, resultVars, lineage, at, doc, collected, got, historyVars,
                 metricsVars>>

WriteChunk(r) ==
  /\ At(r, "chunking")
  /\ torn' = torn \ {NextChunk(r)}
  /\ chunks' = chunks \cup {NextChunk(r)}
  /\ doc' = [doc EXCEPT ![r].done = @ + 1]
  /\ Goto(r, "chunk")
  /\ UNCHANGED <<site, rawVars, resultVars, lineage, at, collected, got, historyVars,
                 metricsVars>>

\* Mutant of FinishDocument: the event is logged while chunks are to be written.
FinishEarly(r) ==
  /\ At(r, "chunk")
  /\ lineage' = lineage \cup {<<"chunk", Regulator(r), doc[r].no, doc[r].pieces>>}
  /\ NextRegulator(r, "parse", "embed")
  /\ UNCHANGED <<site, rawVars, chunkVars, resultVars, collected, got, historyVars,
                 metricsVars>>

FinishDocument(r) ==
  /\ At(r, "chunk") /\ doc[r].done = doc[r].pieces
  /\ lineage' = lineage \cup {<<"chunk", Regulator(r), doc[r].no, doc[r].pieces>>}
  /\ NextRegulator(r, "parse", "embed")
  /\ UNCHANGED <<site, rawVars, chunkVars, resultVars, collected, got, historyVars,
                 metricsVars>>

-----------------------------------------------------------------------------
(* Embedding, compliance, reporting.                                       *)

ChunkFiles == chunks \cup torn

\* json.loads raises on an empty file, and nothing catches it.
Abort(r) ==
  /\ Exit(r)
  /\ aborted' = TRUE
  /\ UNCHANGED <<site, starts, kills, overlapped, errors, missed, unwritten>>

Events(stage, keys) == {<<stage, k.regulator, k.no, 0>> : k \in keys}

\* Reads the files wanted and logs each as logged.
ReadFiles(r, wanted, logged, label) ==
  /\ wanted \cap torn = {}
  /\ got' = [got EXCEPT ![r] = wanted]
  /\ lineage' = lineage \cup logged
  /\ Goto(r, label)
  /\ UNCHANGED <<site, rawVars, chunkVars, resultVars, at, doc, collected, historyVars,
                 metricsVars>>

\* The script sets REGGRAPH_SKIP_CHROMA: every chunk counts as upserted.
Embed(r) == At(r, "embed") /\ ReadFiles(r, ChunkFiles, {}, "load_embedded")
EmbedRaises(r) == At(r, "embed") /\ torn # {} /\ Abort(r) /\ UNCHANGED fileVars

\* The order of the names, up to the digits of the chunk number and the order of
\* the regulators, which stand for their alphabetical order.
Before(k, l) ==
  LET Place(g) == CHOOSE i \in DOMAIN RegulatorSeq : RegulatorSeq[i] = g IN
  \/ Place(k.regulator) < Place(l.regulator)
  \/ k.regulator = l.regulator /\ (k.no < l.no \/ (k.no = l.no /\ k.idx < l.idx))

\* sorted(chunks_dir.glob("*.json"))[:50]
FirstFiles == {k \in ChunkFiles : Cardinality({l \in ChunkFiles : Before(l, k)}) < Limit}

\* An event per chunk, when it has been read.
Analyse(r) ==
  At(r, "analyse") /\ ReadFiles(r, FirstFiles, Events("compliance", FirstFiles), "load_analysed")
AnalyseRaises(r) ==
  LET unread == {k \in FirstFiles : \E l \in FirstFiles \cap torn : l = k \/ Before(l, k)} IN
  /\ At(r, "analyse") /\ FirstFiles \cap torn # {}
  /\ lineage' = lineage \cup Events("compliance", FirstFiles \ unread)
  /\ Abort(r)
  /\ UNCHANGED <<rawVars, chunkVars, resultVars>>

\* MetricsStore(persist_path=...); nothing is added for an empty stage.
LoadCounters(r, load, count, skip) ==
  /\ At(r, load)
  /\ Load(r)
  /\ Goto(r, IF got[r] = {} THEN skip ELSE count)
  /\ UNCHANGED <<site, fileVars, at, doc, collected, got, historyVars>>

Count(r, count, name, counting) ==
  /\ At(r, count)
  /\ Increment(r, name, Cardinality(got[r]))
  /\ Goto(r, counting)
  /\ UNCHANGED <<site, fileVars, at, doc, collected, got, historyVars>>

Counted(r, counting, logged, label) ==
  /\ At(r, counting)
  /\ Persist(r)
  /\ lineage' = lineage \cup logged
  /\ Goto(r, label)
  /\ UNCHANGED <<site, rawVars, chunkVars, resultVars, at, doc, collected, got, historyVars>>

\* The events of the chunks come after the counting.
CountEmbedded(r) ==
  \/ LoadCounters(r, "load_embedded", "count_embedded", "analyse")
  \/ Count(r, "count_embedded", "embeddings_generated", "counting_embedded")
  \/ Counted(r, "counting_embedded", Events("embedding", got[r]), "analyse")

\* Every chunk has at least one obligation; the model counts one.
CountObligations(r) ==
  \/ LoadCounters(r, "load_analysed", "count_analysed", "summary")
  \/ Count(r, "count_analysed", "obligations_extracted", "counting_analysed")
  \/ Counted(r, "counting_analysed", {}, "summary")

OpenSummary(r) ==
  /\ At(r, "summary")
  /\ summary' = [summary EXCEPT !.whole = FALSE]
  /\ Goto(r, "summarising")
  /\ UNCHANGED <<site, rawVars, chunkVars, report, lineage, at, doc, collected, got,
                 historyVars, metricsVars>>

\* Mutant of WriteSummary: nothing is written when nothing was analysed.
WriteSummaryIfAny(r) ==
  /\ At(r, "summarising")
  /\ IF got[r] = {} THEN UNCHANGED summary
                    ELSE \E mixed \in {FALSE, summary.whole} :
                           summary' = [whole |-> ~ mixed, covers |-> got[r]]
  /\ got' = [got EXCEPT ![r] = {}]
  /\ Goto(r, "report")
  /\ UNCHANGED <<site, rawVars, chunkVars, report, lineage, at, doc, collected, historyVars,
                 metricsVars>>

\* As with the counters, two writers may leave a mixture.
WriteSummary(r) ==
  /\ At(r, "summarising")
  /\ \E mixed \in {FALSE, summary.whole} : summary' = [whole |-> ~ mixed, covers |-> got[r]]
  /\ got' = [got EXCEPT ![r] = {}]
  /\ Goto(r, "report")
  /\ UNCHANGED <<site, rawVars, chunkVars, report, lineage, at, doc, collected, historyVars,
                 metricsVars>>

\* The report holds a snapshot of the counters too.
Report(r) ==
  /\ At(r, "report") /\ summary.whole
  /\ report' = [covers |-> summary.covers, collected |-> collected[r]]
  /\ Exit(r)
  /\ UNCHANGED <<site, rawVars, chunkVars, summary, lineage, historyVars>>

ReportRaises(r) == At(r, "report") /\ ~ summary.whole /\ Abort(r) /\ UNCHANGED fileVars

-----------------------------------------------------------------------------

Kill(r) ==
  /\ pc[r] # "idle" /\ kills < MaxKills
  /\ kills' = kills + 1
  /\ Exit(r)
  /\ UNCHANGED <<site, fileVars, starts, overlapped, aborted, errors, missed, unwritten>>

Collect(r) ==
  \/ Fetch(r) \/ FetchFails(r) \/ Unchanged(r) \/ OpenRaw(r) \/ WriteRaw(r)
  \/ OpenHash(r) \/ WriteHash(r) \/ CountSaved(r) \/ SavedCounted(r)
  \/ SaveError(r) \/ CountError(r)

Process(r) ==
  SkipEmpty(r) \/ ReadNewest(r) \/ OpenChunk(r) \/ WriteChunk(r) \/ FinishDocument(r)

Conclude(r) ==
  \/ Embed(r) \/ EmbedRaises(r) \/ CountEmbedded(r)
  \/ Analyse(r) \/ AnalyseRaises(r) \/ CountObligations(r)
  \/ OpenSummary(r) \/ WriteSummary(r) \/ Report(r) \/ ReportRaises(r)

Next ==
  \/ \E g \in Regulators : Publish(g)
  \/ \E r \in Runs : Start(r) \/ Collect(r) \/ Process(r) \/ Conclude(r) \/ Kill(r)

Spec == Init /\ [][Next]_vars

-----------------------------------------------------------------------------
(* A regulator's stored hash is of a text that is in a whole raw file, in  *)
(* whatever order runs overlap and wherever they are killed: collection    *)
(* that goes by the hash skips nothing it does not have.                   *)
HashedIsRaw ==
  \A g \in Regulators : hash[g] # 0 =>
    \E no \in DOMAIN raw[g] : raw[g][no] = hash[g] /\ <<g, no>> \notin rawTorn

(* The lineage log never shows a later stage of a document without its     *)
(* parsing, and a document logged as chunked has that many chunk files.    *)
LineageOrder ==
  \A e \in lineage :
    /\ <<"parsed", e[2], e[3], 0>> \in lineage
    /\ KeysOf(e[2], e[3], e[4]) \subseteq ChunkFiles

(* As long as runs do not overlap, a report covers every text that its run *)
(* has saved or found unchanged, whatever this or earlier runs raised or   *)
(* were killed at, until there are more chunk files than one analysis      *)
(* reads.                                                                  *)
ReportCurrent ==
  (~ overlapped /\ Cardinality(ChunkFiles) <= Limit) =>
    \A f \in report.collected :
      \E no \in DOMAIN raw[f[1]] :
        raw[f[1]][no] = f[2] /\ KeysOf(f[1], no, Pieces[f[2]]) \subseteq report.covers

Saved == SumFunction([g \in Regulators |-> Len(raw[g])])

(* documents_scraped never counts more files than were opened.  As long as *)
(* nothing was killed, no two runs overlapped and the counters could be    *)
(* written, it counts exactly those that no exception made a run give up.  *)
CountersFollow ==
  /\ counters.value["documents_scraped"] <= Saved
  /\ (kills = 0 /\ ~ overlapped /\ ~ unwritten /\ \A r \in Runs : pc[r] = "idle")
       => counters.whole /\ counters.value["documents_scraped"] + missed = Saved

(* A run breaks off only over a file that a kill or another run left torn. *)
AbortsHaveCause == aborted => kills > 0 \/ overlapped
-----------------------------------------------------------------------------

Stages ==
  {"idle", "fetch", "compare", "save", "hash", "hashing", "count_saved", "counting_saved",
   "parse", "chunk", "chunking", "embed", "load_embedded", "count_embedded",
   "counting_embedded", "analyse", "load_analysed", "count_analysed", "counting_analysed",
   "summary", "summarising", "report"}

TypeOK ==
  /\ site \in [Regulators -> Texts]
  /\ hash \in [Regulators -> Texts \cup {0}]
  /\ raw \in [Regulators -> Seq(Texts)]
  /\ newest \in [Regulators -> Nat]
  /\ pc \in [Runs -> Stages]
  /\ at \in [Runs -> DOMAIN RegulatorSeq]
  /\ doc \in [Runs -> [no : Nat, text : Texts \cup {0}, pieces : Nat, done : Nat]]
  /\ got \in [Runs -> SUBSET ChunkFiles]
  /\ DOMAIN mem = Runs
  /\ summary.whole \in BOOLEAN
  /\ kills \in Nat
  /\ overlapped \in BOOLEAN /\ aborted \in BOOLEAN

\* Where a run stands says what it has done.
Standing(r) ==
  LET g == Regulator(r)
      no == doc[r].no IN
  /\ pc[r] \in {"compare", "count_saved", "counting_saved"} => doc[r].text \in Texts
  /\ pc[r] \in {"save", "hash", "hashing"} => no \in DOMAIN raw[g] /\ raw[g][no] = doc[r].text
  /\ pc[r] \in {"hash", "hashing"} => <<g, no>> \notin rawTorn
  /\ pc[r] \in {"chunk", "chunking"} => /\ <<"parsed", g, no, 0>> \in lineage
                                        /\ KeysOf(g, no, doc[r].done) \subseteq ChunkFiles

\* Nothing is left torn when one run at a time goes to its end.
Undisturbed ==
  (kills = 0 /\ ~ overlapped) =>
    /\ \A r, s \in Runs : pc[r] # "idle" /\ pc[s] # "idle" => r = s
    /\ \A k \in torn : \E r \in Runs : pc[r] = "chunking" /\ k = NextChunk(r)
    /\ ~ summary.whole <=> \E r \in Runs : pc[r] = "summarising"
    /\ ~ aborted

(* What a run holds agrees with where it stands, every chunk file is of a  *)
(* parsed document, and the properties that follow: inductive.             *)
DryRunInv ==
  /\ TypeOK
  /\ \A r \in Runs : Standing(r)
  /\ \A g \in Regulators : raw[g] # <<>> => newest[g] \in DOMAIN raw[g]
  /\ \A k \in ChunkFiles : <<"parsed", k.regulator, k.no, 0>> \in lineage
  /\ HashedIsRaw
  /\ LineageOrder
  /\ Undisturbed

Scraped(values) == values["documents_scraped"]

\* r has opened the counters, and not written them.
Counting(r) == pc[r] \in {"counting_saved", "counting_embedded", "counting_analysed"}

Pending == IF \E r \in Runs : Uncounted(r) = 1 THEN 1 ELSE 0

\* What is left alone counts exactly.
CountedExactly ==
  (kills = 0 /\ ~ overlapped /\ ~ unwritten) =>
    /\ \A r \in Runs : pc[r] # "idle" => Scraped(mem[r]) + Uncounted(r) + missed = Saved
    /\ counters.whole <=> \A r \in Runs : ~ Counting(r)
    /\ (\A r \in Runs : pc[r] # "counting_saved")
         => Scraped(counters.value) + Pending + missed = Saved

(* CountersFollow, strengthened until every step preserves it: no process  *)
(* holds more than what was saved and, but for its own last file, counted. *)
CountersInv ==
  /\ missed \in Nat
  /\ counters = [whole |-> counters.whole, value |-> counters.value]
  /\ counters.whole \in BOOLEAN
  /\ \A v \in {counters.value} \cup {mem[r] : r \in Runs} :
       v = [n \in Names |-> v[n]] /\ Scraped(v) \in Nat
  /\ Scraped(counters.value) <= Saved
  /\ \A r \in Runs : Scraped(mem[r]) + Uncounted(r) <= Saved
  /\ CountedExactly

-----------------------------------------------------------------------------
\* The last raw file of g is whole, and is t; and it has its chunk files.
LastRaw(g) == raw[g][Len(raw[g])]
Held(g, t) == raw[g] # <<>> /\ LastRaw(g) = t /\ <<g, Len(raw[g])>> \notin rawTorn
Cut(g, t) == Held(g, t) /\ KeysOf(g, Len(raw[g]), Pieces[t]) \subseteq ChunkFiles

\* Some file of text t of g has all its chunks in covers.
Covered(g, t, covers) ==
  Cardinality(ChunkFiles) <= Limit =>
    \E no \in DOMAIN raw[g] : raw[g][no] = t /\ KeysOf(g, no, Pieces[t]) \subseteq covers

\* The last file is the newest, and a stored hash is of it or of an older text.
Ordered(g) ==
  /\ newest[g] = Len(raw[g])
  /\ raw[g] # <<>> => /\ LastRaw(g) <= site[g] /\ hash[g] <= LastRaw(g)
                      /\ hash[g] = LastRaw(g) => Held(g, hash[g])

Collecting == {"fetch", "compare", "save", "hash", "hashing", "count_saved", "counting_saved"}
Processing == {"parse", "chunk", "chunking"}
Reading == {"embed", "load_embedded", "count_embedded", "counting_embedded", "analyse"}
Concluding == {"load_analysed", "count_analysed", "counting_analysed", "summary", "summarising"}

\* The loop of r has passed the regulator g.
Passed(r, g) == \E i \in 1..(at[r] - 1) : RegulatorSeq[i] = g

\* What r, alone, has made of the texts that it has collected.
Made(r, g, t) ==
  /\ pc[r] # "idle"
  /\ pc[r] \in Collecting => Passed(r, g) /\ Held(g, t)
  /\ pc[r] \in Processing => Held(g, t) /\ (Passed(r, g) => Cut(g, t))
  /\ pc[r] \in Reading => Cut(g, t)
  /\ pc[r] \in Concluding => Covered(g, t, got[r])
  /\ pc[r] = "report" => Covered(g, t, summary.covers)

\* What it has in hand is the last file.
InHand(r) ==
  LET g == Regulator(r) IN
  /\ pc[r] = "compare" => doc[r].text <= site[g] /\ (raw[g] # <<>> => LastRaw(g) <= doc[r].text)
  /\ pc[r] \in {"save", "hash", "hashing", "chunk", "chunking"} => doc[r].no = Len(raw[g])
  /\ pc[r] \in {"count_saved", "counting_saved"} => Held(g, doc[r].text)
  /\ pc[r] \in {"chunk", "chunking"} =>
       raw[g] # <<>> /\ (Held(g, LastRaw(g)) => doc[r].pieces = Pieces[LastRaw(g)])

(* ReportCurrent, strengthened until every step preserves it: what a run   *)
(* that is alone has collected is held, then cut, then covered.            *)
CurrentInv ==
  /\ collected \in [Runs -> SUBSET (Regulators \X Texts)]
  /\ report.collected \subseteq Regulators \X Texts
  /\ IsFiniteSet(ChunkFiles)
  /\ \A k \in ChunkFiles : k.regulator \in Regulators /\ k.no \in Nat /\ k.idx \in Nat
  /\ ~ overlapped =>
       /\ \A r, s \in Runs : pc[r] # "idle" /\ pc[s] # "idle" => r = s
       /\ \A g \in Regulators : Ordered(g)
       /\ \A r \in Runs : InHand(r) /\ \A f \in collected[r] : Made(r, f[1], f[2])
  /\ ReportCurrent
=============================================================================

------------------------ MODULE DocumentPipelineProofs ------------------------
(***************************************************************************)
(* For any regulators, texts, numbers of chunks and concurrent task        *)
(* instances, exceptions and kills: change detection hides nothing, and no *)
(* document and no chunk is forgotten between two DAGs.  PipelineInv makes *)
(* the types and the places of the tasks inductive; each of these          *)
(* properties is inductive with it, and that a torn summary is repaired is *)
(* with what SummaryInv adds.                                              *)
(***************************************************************************)
EXTENDS DocumentPipeline, TLAPS

-----------------------------------------------------------------------------
(* Directories as sequences.                                               *)

\* Taking a file out of a directory takes nothing else.
LEMMA OthersElements ==
  ASSUME NEW S, NEW s \in Seq(S), NEW x
  PROVE  /\ Others(s, x) \in Seq(S)
         /\ Elements(Others(s, x)) \subseteq Elements(s)
         /\ Elements(s) \ {x} \subseteq Elements(Others(s, x))
<1>1. CASE x \notin Elements(s)
  BY <1>1 DEF Others
<1>2. CASE x \in Elements(s)
  <2> DEFINE i == CHOOSE k \in DOMAIN s : s[k] = x
             o == [k \in 1..Len(s) - 1 |-> IF k < i THEN s[k] ELSE s[k + 1]]
  <2>1. i \in 1..Len(s) /\ s[i] = x
    BY <1>2 DEF Elements
  <2>2. Others(s, x) = o
    BY <1>2 DEF Others
  <2> HIDE DEF i
  <2>3. o \in Seq(S) /\ Len(o) = Len(s) - 1 /\ DOMAIN o = 1..Len(s) - 1
    <3>1. Len(s) - 1 \in Nat
      BY <2>1
    <3>2. \A k \in 1..Len(s) - 1 : o[k] \in S
      BY <2>1
    <3> QED BY <3>1, <3>2
  <2>4. Elements(o) \subseteq Elements(s)
    BY <2>1, <2>3 DEF Elements
  <2>5. \A k \in DOMAIN s : k # i => s[k] \in Elements(o)
    <3> SUFFICES ASSUME NEW k \in 1..Len(s), k # i
                 PROVE  s[k] \in Elements(o)
      OBVIOUS
    <3>1. CASE k < i
      <4>1. k \in 1..Len(s) - 1 /\ o[k] = s[k]
        BY <3>1, <2>1
      <4> QED BY <4>1, <2>3 DEF Elements
    <3>2. CASE k > i
      <4>1. k - 1 \in 1..Len(s) - 1 /\ o[k - 1] = s[k]
        BY <3>2, <2>1
      <4> QED BY <4>1, <2>3 DEF Elements
    <3> QED BY <3>1, <3>2, <2>1
  <2>6. Elements(s) \ {x} \subseteq Elements(o)
    BY <2>1, <2>5 DEF Elements
  <2> QED BY <2>2, <2>3, <2>4, <2>6
<1> QED BY <1>1, <1>2

\* A file that is appended is the last one, and the others are still there.
LEMMA AppendElements ==
  ASSUME NEW S, NEW s \in Seq(S), NEW x \in S
  PROVE  /\ Append(s, x) \in Seq(S)
         /\ Elements(Append(s, x)) = Elements(s) \cup {x}
         /\ Append(s, x) # <<>> /\ Last(Append(s, x)) = x
<1>1. Append(s, x) \in Seq(S) /\ Len(Append(s, x)) = Len(s) + 1
  OBVIOUS
<1>2. \A i \in 1..Len(s) : Append(s, x)[i] = s[i]
  OBVIOUS
<1>3. Append(s, x)[Len(s) + 1] = x
  OBVIOUS
<1>4. DOMAIN Append(s, x) = 1..Len(s) + 1 /\ DOMAIN s = 1..Len(s)
  OBVIOUS
<1>5. Elements(Append(s, x)) \subseteq Elements(s) \cup {x}
  BY <1>2, <1>3, <1>4 DEF Elements
<1>6. Elements(s) \cup {x} \subseteq Elements(Append(s, x))
  BY <1>2, <1>3, <1>4 DEF Elements
<1> QED BY <1>1, <1>3, <1>5, <1>6 DEF Last

\* A file that is opened or written again becomes the last one.
LEMMA TouchElements ==
  ASSUME NEW S, NEW s \in Seq(S), NEW x, NEW y \in S
  PROVE  /\ Append(Others(s, x), y) \in Seq(S)
         /\ Elements(Append(Others(s, x), y)) \subseteq Elements(s) \cup {y}
         /\ (Elements(s) \ {x}) \cup {y} \subseteq Elements(Append(Others(s, x), y))
         /\ Append(Others(s, x), y) # <<>>
BY OthersElements, AppendElements

-----------------------------------------------------------------------------
(* Task instances.                                                         *)

\* The sets of tasks are disjoint, so each task has its one outlet.
LEMMA Outlets ==
  /\ \A c \in Collectors : Outlet(c) = "raw_documents" /\ Start(c) = "fetch"
  /\ \A p \in Processors : Outlet(p) = "chunks" /\ Start(p) = "read"
                           /\ Schedule(p) = "raw_documents"
  /\ \A e \in Embedders : Outlet(e) = "embeddings" /\ Schedule(e) = "chunks"
  /\ \A a \in Analysts : Outlet(a) = "compliance_results" /\ Schedule(a) = "embeddings"
  /\ \A t \in Reporters : Schedule(t) = "compliance_results"
<1>1. \A c \in Collectors : Outlet(c) = "raw_documents" /\ Start(c) = "fetch"
  BY PipelineAssumption DEF Outlet, Start
<1>2. \A p \in Processors : Outlet(p) = "chunks" /\ Start(p) = "read"
                            /\ Schedule(p) = "raw_documents"
  BY PipelineAssumption DEF Outlet, Start, Schedule
<1>3. \A e \in Embedders : Outlet(e) = "embeddings" /\ Schedule(e) = "chunks"
  BY PipelineAssumption DEF Outlet, Schedule
<1>4. \A a \in Analysts : Outlet(a) = "compliance_results" /\ Schedule(a) = "embeddings"
  BY PipelineAssumption DEF Outlet, Schedule
<1>5. \A t \in Reporters : Schedule(t) = "compliance_results"
  BY PipelineAssumption DEF Schedule
<1> QED BY <1>1, <1>2, <1>3, <1>4, <1>5

LEMMA OutletTyped == \A t \in Tasks : Outlet(t) \in Datasets \cup {"none"}
BY DEF Outlet, Datasets

\* What a task's step leaves to the other tasks.
OthersKept(t) ==
  /\ \A u \in Tasks \ {t} : pc'[u] = pc[u]
  /\ \A c \in Collectors \ {t} : body'[c] = body[c] /\ doc'[c] = doc[c]
  /\ \A p \in Processors \ {t} : at'[p] = at[p] /\ doc'[p] = doc[p] /\ next'[p] = next[p]
  /\ \A e \in (Embedders \cup Analysts) \ {t} : batch'[e] = batch[e]

LocalsTyped ==
  /\ body \in [Collectors -> Texts]
  /\ at \in [Processors -> 1..Len(RegulatorSeq) + 1]
  /\ doc \in [Collectors \cup Processors -> Files]
  /\ next \in [Processors -> Nat]
  /\ batch \in [Embedders \cup Analysts -> SUBSET Keys]

AirflowTyped ==
  /\ pending \in SUBSET Datasets /\ failed \in SUBSET (Datasets \cup {"none"})
  /\ pc \in [Tasks -> PCs]
  /\ tries \in [Tasks -> 0..Retries]

\* A task that ends, or is to be tried again, starts from scratch.
LEMMA ForgetEffect ==
  ASSUME NEW t \in Tasks, LocalsTyped, Forget(t)
  PROVE  /\ LocalsTyped'
         /\ t \in Processors => at'[t] = 1 /\ next'[t] = 1
         /\ \A c \in Collectors \ {t} : body'[c] = body[c] /\ doc'[c] = doc[c]
         /\ \A p \in Processors \ {t} : at'[p] = at[p] /\ doc'[p] = doc[p] /\ next'[p] = next[p]
         /\ \A e \in (Embedders \cup Analysts) \ {t} : batch'[e] = batch[e]
<1>1. Empty \in Texts /\ NoDoc \in Files /\ 1 \in 1..Len(RegulatorSeq) + 1
  BY PipelineAssumption DEF Texts, NoDoc, Files
<1>2. body' \in [Collectors -> Texts] /\ \A c \in Collectors \ {t} : body'[c] = body[c]
  BY <1>1 DEF Forget, LocalsTyped
<1>3. /\ at' \in [Processors -> 1..Len(RegulatorSeq) + 1]
      /\ \A p \in Processors \ {t} : at'[p] = at[p]
      /\ t \in Processors => at'[t] = 1
  BY <1>1 DEF Forget, LocalsTyped
<1>4. /\ doc' \in [Collectors \cup Processors -> Files]
      /\ \A p \in (Collectors \cup Processors) \ {t} : doc'[p] = doc[p]
  BY <1>1 DEF Forget, LocalsTyped
<1>5. /\ next' \in [Processors -> Nat]
      /\ \A p \in Processors \ {t} : next'[p] = next[p]
      /\ t \in Processors => next'[t] = 1
  BY <1>1 DEF Forget, LocalsTyped
<1>6. /\ batch' \in [Embedders \cup Analysts -> SUBSET Keys]
      /\ \A e \in (Embedders \cup Analysts) \ {t} : batch'[e] = batch[e]
  <2>1. {} \in SUBSET Keys
    OBVIOUS
  <2> QED BY <2>1 DEF Forget, LocalsTyped
<1> QED BY <1>2, <1>3, <1>4, <1>5, <1>6 DEF LocalsTyped

LEMMA SucceedEffect ==
  ASSUME NEW t \in Tasks, LocalsTyped, AirflowTyped, Succeed(t)
  PROVE  /\ LocalsTyped' /\ AirflowTyped' /\ OthersKept(t)
         /\ pc'[t] = "idle" /\ failed' = failed /\ pending \subseteq pending'
         /\ Outlet(t) # "none" => Outlet(t) \in pending'
         /\ t \in Processors => at'[t] = 1 /\ next'[t] = 1
<1>1. Forget(t)
  BY DEF Succeed
<1>2. AirflowTyped'
  <2>1. pending' \in SUBSET Datasets
    BY OutletTyped DEF Succeed, AirflowTyped
  <2>2. pc' \in [Tasks -> PCs]
    BY DEF Succeed, AirflowTyped, PCs
  <2>3. tries' \in [Tasks -> 0..Retries]
    BY PipelineAssumption DEF Succeed, AirflowTyped
  <2> QED BY <2>1, <2>2, <2>3 DEF Succeed, AirflowTyped
<1>3. pc'[t] = "idle" /\ \A u \in Tasks \ {t} : pc'[u] = pc[u]
  BY DEF Succeed, AirflowTyped
<1>4. failed' = failed /\ pending \subseteq pending'
      /\ (Outlet(t) # "none" => Outlet(t) \in pending')
  BY DEF Succeed
<1> QED BY <1>1, <1>2, <1>3, <1>4, ForgetEffect DEF OthersKept

LEMMA FailEffect ==
  ASSUME NEW t \in Tasks, LocalsTyped, AirflowTyped, AttemptFails(t)
  PROVE  /\ LocalsTyped' /\ AirflowTyped' /\ OthersKept(t)
         /\ pc'[t] \in {"idle", "retry"} /\ failed \subseteq failed' /\ pending' = pending
         /\ pc'[t] = "idle" => Outlet(t) \in failed'
         /\ t \in Processors => at'[t] = 1 /\ next'[t] = 1
<1>1. Forget(t)
  BY DEF AttemptFails
<1>2. /\ pc' \in [Tasks -> PCs] /\ tries' \in [Tasks -> 0..Retries]
      /\ failed' \in SUBSET (Datasets \cup {"none"})
      /\ pc'[t] \in {"idle", "retry"} /\ failed \subseteq failed'
      /\ pc'[t] = "idle" => Outlet(t) \in failed'
      /\ \A u \in Tasks \ {t} : pc'[u] = pc[u]
  <2>1. CASE tries[t] < Retries
    <3>1. tries[t] + 1 \in 0..Retries
      BY <2>1, PipelineAssumption DEF AirflowTyped
    <3> QED BY <2>1, <3>1 DEF AttemptFails, AirflowTyped, PCs
  <2>2. CASE ~(tries[t] < Retries)
    BY <2>2, OutletTyped, PipelineAssumption DEF AttemptFails, AirflowTyped, PCs
  <2> QED BY <2>1, <2>2
<1>3. pending' = pending
  BY DEF AttemptFails
<1>4. AirflowTyped'
  BY <1>2, <1>3 DEF AirflowTyped
<1> QED BY <1>1, <1>2, <1>3, <1>4, ForgetEffect DEF OthersKept

-----------------------------------------------------------------------------
(* What a step of one task does to what the others, and the invariants,    *)
(* rely on.                                                                *)

FilesTyped ==
  /\ site \in [Regulators -> Bodies]
  /\ hash \in [Regulators -> Bodies \cup {NoHash}]
  /\ raw \in [Regulators -> Seq(Files)]
  /\ chunks \in Seq(Keys) /\ torn \in SUBSET Keys /\ store \in SUBSET Keys
  /\ analysis \in Summaries \cup {Torn, NoAnalysis}
  /\ report \in Summaries \cup {NoAnalysis}

HistoryTyped ==
  /\ published \in 0..MaxPublished /\ hours \in [Collectors -> 0..MaxHours]
  /\ errors \in 0..MaxErrors /\ kills \in 0..MaxKills

LEMMA TypeParts ==
  /\ TypeOK <=> FilesTyped /\ AirflowTyped /\ LocalsTyped /\ HistoryTyped
  /\ TypeOK' <=> FilesTyped' /\ AirflowTyped' /\ LocalsTyped' /\ HistoryTyped'
BY DEF TypeOK, FilesTyped, AirflowTyped, LocalsTyped, HistoryTyped

\* No step takes a raw file that has its text away, and a new file is its
\* collector's affair.
RawKept(t) ==
  \A r \in Regulators :
    \/ raw'[r] = raw[r]
    \/ /\ t \in Collectors /\ RegulatorOf[t] = r /\ pc'[t] # "idle"
       /\ \A f \in Elements(raw[r]) : f.text # Empty => f \in Elements(raw'[r])

\* A hash that is stored is one of a text that is saved.
HashKept ==
  \A r \in Regulators :
    \/ hash'[r] \in {hash[r], NoHash}
    \/ \E f \in Elements(raw[r]) : f.text = hash'[r]

\* A chunk file is opened or written by a processor that goes on.
ChunksKept(t) ==
  \/ UNCHANGED <<chunks, torn>>
  \/ /\ t \in Processors /\ pc'[t] # "idle"
     /\ Elements(chunks') \subseteq Elements(chunks) \cup {Key(t)}
     /\ Elements(chunks) \cup {Key(t)} \subseteq Elements(chunks')
     /\ torn \ {Key(t)} \subseteq torn' /\ torn' \subseteq torn \cup {Key(t)}

\* The end of a collect or process task is the update of its dataset, or its
\* failure; updates are used up by runs only, and failures are remembered.
AirflowKept(t) ==
  /\ failed \subseteq failed' /\ store \subseteq store'
  /\ pending \subseteq pending' \/ TriggerRun(t)
  /\ t \in Collectors \cup Processors /\ pc'[t] = "idle" =>
       Outlet(t) \in pending' \cup failed'

Frame(t) ==
  OthersKept(t) /\ RawKept(t) /\ HashKept /\ ChunksKept(t) /\ AirflowKept(t)

OwnPlaceOK(t) ==
  (t \in Collectors => CollectorOK(t)) /\ (t \in Processors => ProcessorOK(t))

LEMMA TaskSets ==
  /\ Collectors \subseteq Tasks /\ Processors \subseteq Tasks /\ Embedders \subseteq Tasks
  /\ Analysts \subseteq Tasks /\ Reporters \subseteq Tasks
  /\ \A c \in Collectors : c \notin Processors /\ c \notin Embedders \cup Analysts
                           /\ c \notin Reporters
  /\ \A p \in Processors : p \notin Embedders \cup Analysts /\ p \notin Reporters
  /\ \A e \in Embedders : e \notin Analysts \cup Reporters
  /\ \A a \in Analysts : a \notin Reporters
BY PipelineAssumption DEF Tasks

\* Only the task that moves has its place to be checked again.
LEMMA PlacesKept ==
  ASSUME PipelineInv, NEW t \in Tasks, TypeOK', OthersKept(t), RawKept(t), OwnPlaceOK(t)'
  PROVE  PipelineInv'
<1>1. ASSUME NEW c \in Collectors, c # t PROVE CollectorOK(c)'
  <2>1. pc'[c] = pc[c] /\ body'[c] = body[c] /\ doc'[c] = doc[c]
    BY <1>1, TaskSets DEF OthersKept
  <2>2. CollectorOK(c) /\ RegulatorOf[c] \in Regulators
    BY PipelineAssumption DEF PipelineInv
  <2>3. pc[c] = "hash" => \E f \in Elements(raw'[RegulatorOf[c]]) : f.text = body[c]
    <3>1. pc[c] = "hash" => body[c] # Empty
      BY <2>2, PipelineAssumption DEF CollectorOK
    <3> QED BY <2>2, <3>1 DEF CollectorOK, RawKept
  <2> QED BY <2>1, <2>2, <2>3 DEF CollectorOK
<1>2. ASSUME NEW p \in Processors, p # t PROVE ProcessorOK(p)'
  <2>1. pc'[p] = pc[p] /\ at'[p] = at[p] /\ doc'[p] = doc[p] /\ next'[p] = next[p]
    BY <1>2, TaskSets DEF OthersKept
  <2> QED BY <2>1 DEF PipelineInv, ProcessorOK
<1> QED BY <1>1, <1>2 DEF PipelineInv, OwnPlaceOK

\* A move of pc alone.
LEMMA MoveEffect ==
  ASSUME NEW t \in Tasks, NEW to \in PCs, AirflowTyped, pc' = [pc EXCEPT ![t] = to]
  PROVE  /\ pc' \in [Tasks -> PCs] /\ pc'[t] = to
         /\ \A u \in Tasks \ {t} : pc'[u] = pc[u]
BY DEF AirflowTyped

\* A move of pc that leaves locals and datasets alone.
LEMMA StepEffect ==
  ASSUME NEW t \in Tasks, NEW to \in PCs, AirflowTyped, LocalsTyped,
         pc' = [pc EXCEPT ![t] = to], UNCHANGED <<airflow, locals>>
  PROVE  AirflowTyped' /\ LocalsTyped' /\ OthersKept(t) /\ pc'[t] = to
<1>1. /\ pc' \in [Tasks -> PCs] /\ pc'[t] = to
      /\ \A u \in Tasks \ {t} : pc'[u] = pc[u]
  BY MoveEffect
<1>2. UNCHANGED <<pending, failed, tries>> /\ UNCHANGED <<body, at, doc, next, batch>>
  BY DEF airflow, locals
<1> QED BY <1>1, <1>2 DEF AirflowTyped, LocalsTyped, OthersKept

-----------------------------------------------------------------------------
(* Collectors.                                                             *)

LEMMA HourlyStep ==
  ASSUME PipelineInv, NEW c \in Collectors, Hourly(c)
  PROVE  PipelineInv' /\ Frame(c)
<1>1. c \in Tasks /\ "fetch" \in PCs /\ c \notin Processors
  BY TaskSets DEF PCs
<1>2. AirflowTyped' /\ LocalsTyped' /\ OthersKept(c) /\ pc'[c] = "fetch"
  BY <1>1, TypeParts, StepEffect DEF Hourly, Goto, PipelineInv
<1>3. UNCHANGED <<site, hash, raw, chunks, torn, store, analysis, report, pending, failed>>
  BY DEF Hourly, files, results, airflow
<1>4. FilesTyped' /\ HistoryTyped'
  <2>1. FilesTyped'
    BY <1>3, TypeParts DEF FilesTyped, PipelineInv
  <2>2. HistoryTyped /\ UNCHANGED <<published, errors, kills>>
    BY TypeParts DEF Hourly, PipelineInv
  <2>3. hours' \in [Collectors -> 0..MaxHours]
    BY <2>2, PipelineAssumption DEF Hourly, HistoryTyped
  <2> QED BY <2>1, <2>2, <2>3 DEF HistoryTyped
<1>5. OwnPlaceOK(c)'
  BY <1>1, <1>2 DEF OwnPlaceOK, CollectorOK
<1>6. Frame(c)
  BY <1>2, <1>3 DEF Frame, RawKept, HashKept, ChunksKept, AirflowKept
<1> QED BY <1>1, <1>2, <1>4, <1>5, <1>6, TypeParts, PlacesKept DEF Frame

LEMMA FetchStep ==
  ASSUME PipelineInv, NEW c \in Collectors, Fetch(c)
  PROVE  PipelineInv' /\ Frame(c)
<1>1. c \in Tasks /\ "compare" \in PCs /\ c \notin Processors /\ RegulatorOf[c] \in Regulators
  BY TaskSets, PipelineAssumption DEF PCs
<1>2. FilesTyped /\ AirflowTyped /\ LocalsTyped /\ HistoryTyped
  BY TypeParts DEF PipelineInv
<1>3. pc' \in [Tasks -> PCs] /\ pc'[c] = "compare" /\ \A u \in Tasks \ {c} : pc'[u] = pc[u]
  BY <1>1, <1>2, MoveEffect DEF Fetch, Goto
<1>4. UNCHANGED <<site, hash, raw, chunks, torn, store, analysis, report, pending, failed, tries>>
      /\ UNCHANGED <<at, doc, next, batch, published, hours, errors, kills>>
  BY DEF Fetch, files, results, airflow, history
<1>5. /\ body' \in [Collectors -> Texts] /\ body'[c] \in Bodies
      /\ \A d \in Collectors \ {c} : body'[d] = body[d]
  BY <1>1, <1>2 DEF Fetch, FilesTyped, LocalsTyped, Texts
<1>6. TypeOK'
  BY <1>2, <1>3, <1>4, <1>5, TypeParts
     DEF FilesTyped, AirflowTyped, LocalsTyped, HistoryTyped
<1>7. OthersKept(c)
  BY <1>3, <1>4, <1>5 DEF OthersKept
<1>8. OwnPlaceOK(c)'
  BY <1>1, <1>3, <1>5 DEF OwnPlaceOK, CollectorOK
<1>9. Frame(c)
  BY <1>3, <1>4, <1>7 DEF Frame, RawKept, HashKept, ChunksKept, AirflowKept
<1> QED BY <1>1, <1>6, <1>8, <1>9, PlacesKept DEF Frame

LEMMA FindChangedStep ==
  ASSUME PipelineInv, NEW c \in Collectors, FindChanged(c)
  PROVE  PipelineInv' /\ Frame(c)
<1>1. c \in Tasks /\ "open" \in PCs /\ c \notin Processors
  BY TaskSets DEF PCs
<1>2. AirflowTyped' /\ LocalsTyped' /\ OthersKept(c) /\ pc'[c] = "open"
  BY <1>1, TypeParts, StepEffect DEF FindChanged, Goto, PipelineInv
<1>3. UNCHANGED <<site, hash, raw, chunks, torn, store, analysis, report, pending, failed>>
      /\ UNCHANGED <<body, published, hours, errors, kills>>
  BY DEF FindChanged, files, results, airflow, locals, history
<1>4. TypeOK'
  BY <1>2, <1>3, TypeParts DEF PipelineInv, FilesTyped, HistoryTyped
<1>5. OwnPlaceOK(c)'
  <2>1. pc[c] = "compare" /\ CollectorOK(c)
    BY DEF FindChanged, Goto, PipelineInv
  <2> QED BY <1>1, <1>2, <1>3, <2>1 DEF OwnPlaceOK, CollectorOK
<1>6. Frame(c)
  BY <1>2, <1>3 DEF Frame, RawKept, HashKept, ChunksKept, AirflowKept
<1> QED BY <1>1, <1>4, <1>5, <1>6, PlacesKept DEF Frame

LEMMA OpenRawStep ==
  ASSUME PipelineInv, NEW c \in Collectors, OpenRaw(c)
  PROVE  PipelineInv' /\ Frame(c)
<1> DEFINE r == RegulatorOf[c]
           new == [n |-> Len(raw[r]) + 1, text |-> Empty]
<1>1. c \in Tasks /\ "write" \in PCs /\ c \notin Processors /\ r \in Regulators
  BY TaskSets, PipelineAssumption DEF PCs
<1>2. FilesTyped /\ AirflowTyped /\ LocalsTyped /\ HistoryTyped
  BY TypeParts DEF PipelineInv
<1>3. pc' \in [Tasks -> PCs] /\ pc'[c] = "write" /\ \A u \in Tasks \ {c} : pc'[u] = pc[u]
  BY <1>1, <1>2, MoveEffect DEF OpenRaw, Goto
<1>4. UNCHANGED <<site, hash, chunks, torn, store, analysis, report, pending, failed, tries>>
      /\ UNCHANGED <<body, at, next, batch, published, hours, errors, kills>>
  BY DEF OpenRaw, results, airflow, history
<1>5. new \in Files /\ raw[r] \in Seq(Files)
  <2>1. raw[r] \in Seq(Files)
    BY <1>1, <1>2 DEF FilesTyped
  <2>2. Len(raw[r]) + 1 \in Nat
    BY <2>1
  <2> QED BY <2>1, <2>2 DEF Files, Texts
<1>6. /\ raw' = [raw EXCEPT ![r] = Append(@, new)]
      /\ doc' = [doc EXCEPT ![c] = new]
  BY DEF OpenRaw
<1>7. Append(raw[r], new) \in Seq(Files) /\ Elements(raw[r]) \subseteq Elements(Append(raw[r], new))
  BY <1>5, AppendElements
<1> HIDE DEF new, r
<1>8. /\ raw' \in [Regulators -> Seq(Files)]
      /\ \A q \in Regulators : q # r => raw'[q] = raw[q]
      /\ Elements(raw[r]) \subseteq Elements(raw'[r])
  BY <1>1, <1>2, <1>6, <1>7 DEF FilesTyped
<1>9. /\ doc' \in [Collectors \cup Processors -> Files] /\ doc'[c] = new
      /\ \A u \in (Collectors \cup Processors) \ {c} : doc'[u] = doc[u]
  BY <1>2, <1>5, <1>6 DEF LocalsTyped
<1>10. TypeOK'
  BY <1>2, <1>3, <1>4, <1>8, <1>9, TypeParts
     DEF FilesTyped, AirflowTyped, LocalsTyped, HistoryTyped
<1>11. OthersKept(c)
  BY <1>3, <1>4, <1>9 DEF OthersKept
<1>12. RawKept(c)
  BY <1>3, <1>8 DEF RawKept, r
<1>13. OwnPlaceOK(c)'
  <2>1. pc[c] = "open" /\ CollectorOK(c)
    BY DEF OpenRaw, Goto, PipelineInv
  <2>2. doc'[c].text = Empty
    BY <1>9 DEF new
  <2> QED BY <1>1, <1>3, <1>4, <2>1, <2>2 DEF OwnPlaceOK, CollectorOK
<1>14. Frame(c)
  BY <1>3, <1>4, <1>11, <1>12 DEF Frame, HashKept, ChunksKept, AirflowKept
<1> QED BY <1>1, <1>10, <1>13, <1>14, PlacesKept DEF Frame

LEMMA WriteRawStep ==
  ASSUME PipelineInv, NEW c \in Collectors, WriteRaw(c)
  PROVE  PipelineInv' /\ Frame(c)
<1> DEFINE r == RegulatorOf[c]
           new == [doc[c] EXCEPT !.text = body[c]]
<1>1. c \in Tasks /\ "hash" \in PCs /\ c \notin Processors /\ r \in Regulators
  BY TaskSets, PipelineAssumption DEF PCs
<1>2. AirflowTyped' /\ LocalsTyped' /\ OthersKept(c) /\ pc'[c] = "hash"
  BY <1>1, TypeParts, StepEffect DEF WriteRaw, Goto, PipelineInv
<1>3. UNCHANGED <<site, hash, chunks, torn, store, analysis, report, pending, failed>>
      /\ UNCHANGED <<body, published, hours, errors, kills>>
  BY DEF WriteRaw, results, airflow, locals, history
<1>4. FilesTyped /\ LocalsTyped /\ HistoryTyped
  BY TypeParts DEF PipelineInv
<1>5. new \in Files /\ new.text = body[c] /\ raw[r] \in Seq(Files)
  BY <1>1, <1>4 DEF FilesTyped, LocalsTyped, Files
<1>6. raw' = [raw EXCEPT ![r] = Append(Others(@, doc[c]), new)]
  BY DEF WriteRaw
<1> HIDE DEF new, r
<1>7. /\ Append(Others(raw[r], doc[c]), new) \in Seq(Files)
      /\ (Elements(raw[r]) \ {doc[c]}) \cup {new} \subseteq Elements(Append(Others(raw[r], doc[c]), new))
  BY <1>5, TouchElements
<1>8. /\ raw' \in [Regulators -> Seq(Files)]
      /\ \A q \in Regulators : q # r => raw'[q] = raw[q]
      /\ (Elements(raw[r]) \ {doc[c]}) \cup {new} \subseteq Elements(raw'[r])
  BY <1>1, <1>4, <1>6, <1>7 DEF FilesTyped
<1>9. TypeOK'
  BY <1>2, <1>3, <1>4, <1>8, TypeParts DEF FilesTyped, HistoryTyped
<1>10. pc[c] = "write" /\ CollectorOK(c)
  BY DEF WriteRaw, Goto, PipelineInv
<1>11. RawKept(c)
  BY <1>2, <1>8, <1>10 DEF RawKept, CollectorOK, r
<1>12. OwnPlaceOK(c)'
  BY <1>1, <1>2, <1>3, <1>5, <1>8, <1>10 DEF OwnPlaceOK, CollectorOK, r
<1>13. Frame(c)
  BY <1>2, <1>3, <1>11 DEF Frame, HashKept, ChunksKept, AirflowKept
<1> QED BY <1>1, <1>9, <1>12, <1>13, PlacesKept DEF Frame

LEMMA FindUnchangedStep ==
  ASSUME PipelineInv, NEW c \in Collectors, FindUnchanged(c)
  PROVE  PipelineInv' /\ Frame(c)
<1>1. c \in Tasks /\ c \notin Processors
  BY TaskSets
<1>2. /\ AirflowTyped' /\ LocalsTyped' /\ OthersKept(c)
      /\ pc'[c] = "idle" /\ failed' = failed /\ pending \subseteq pending'
      /\ "raw_documents" \in pending'
  BY <1>1, TypeParts, SucceedEffect, Outlets DEF FindUnchanged, PipelineInv
<1>3. UNCHANGED <<site, hash, raw, chunks, torn, store, analysis, report>>
      /\ UNCHANGED <<published, hours, errors, kills>>
  BY DEF FindUnchanged, files, results, history
<1>4. TypeOK'
  BY <1>2, <1>3, TypeParts DEF PipelineInv, FilesTyped, HistoryTyped
<1>5. OwnPlaceOK(c)'
  BY <1>1, <1>2 DEF OwnPlaceOK, CollectorOK
<1>6. Frame(c)
  BY <1>2, <1>3, Outlets DEF Frame, RawKept, HashKept, ChunksKept, AirflowKept
<1> QED BY <1>1, <1>4, <1>5, <1>6, PlacesKept DEF Frame

LEMMA StoreHashStep ==
  ASSUME PipelineInv, NEW c \in Collectors, StoreHash(c)
  PROVE  PipelineInv' /\ Frame(c)
<1>1. c \in Tasks /\ c \notin Processors /\ RegulatorOf[c] \in Regulators
  BY TaskSets, PipelineAssumption
<1>2. /\ AirflowTyped' /\ LocalsTyped' /\ OthersKept(c)
      /\ pc'[c] = "idle" /\ failed' = failed /\ pending \subseteq pending'
      /\ "raw_documents" \in pending'
  BY <1>1, TypeParts, SucceedEffect, Outlets DEF StoreHash, PipelineInv
<1>3. UNCHANGED <<site, raw, chunks, torn, store, analysis, report>>
      /\ UNCHANGED <<published, hours, errors, kills>>
  BY DEF StoreHash, files, results, history
<1>4. pc[c] = "hash" /\ CollectorOK(c) /\ hash' = [hash EXCEPT ![RegulatorOf[c]] = body[c]]
  BY DEF StoreHash, PipelineInv
<1>5. hash \in [Regulators -> Bodies \cup {NoHash}]
  BY TypeParts DEF PipelineInv, FilesTyped
<1>6. hash' \in [Regulators -> Bodies \cup {NoHash}]
  BY <1>1, <1>4, <1>5 DEF CollectorOK
<1>7. HashKept
  BY <1>1, <1>4, <1>5 DEF HashKept, CollectorOK
<1>8. TypeOK'
  BY <1>2, <1>3, <1>6, TypeParts DEF PipelineInv, FilesTyped, HistoryTyped
<1>9. OwnPlaceOK(c)'
  BY <1>1, <1>2 DEF OwnPlaceOK, CollectorOK
<1>10. Frame(c)
  BY <1>2, <1>3, <1>7, Outlets DEF Frame, RawKept, ChunksKept, AirflowKept
<1> QED BY <1>1, <1>8, <1>9, <1>10, PlacesKept DEF Frame

LEMMA CollectErrorStep ==
  ASSUME PipelineInv, NEW c \in Collectors, CollectError(c)
  PROVE  PipelineInv' /\ Frame(c)
<1>1. c \in Tasks /\ c \notin Processors /\ RegulatorOf[c] \in Regulators
  BY TaskSets, PipelineAssumption
<1>2. /\ AirflowTyped' /\ LocalsTyped' /\ OthersKept(c)
      /\ pc'[c] = "idle" /\ failed' = failed /\ pending \subseteq pending'
      /\ "raw_documents" \in pending'
  BY <1>1, TypeParts, SucceedEffect, Outlets DEF CollectError, PipelineInv
<1>3. UNCHANGED <<site, raw, chunks, torn, store, analysis, report>>
  BY DEF CollectError, files, results
<1>4. FilesTyped /\ HistoryTyped
  BY TypeParts DEF PipelineInv
<1>5. hash' \in [Regulators -> Bodies \cup {NoHash}] /\ HashKept
  BY <1>1, <1>4 DEF CollectError, HashFileBroken, HashKept, FilesTyped
<1>6. FilesTyped'
  BY <1>3, <1>4, <1>5 DEF FilesTyped
<1>7. HistoryTyped'
  <2>1. errors' = errors + 1 /\ errors < MaxErrors /\ UNCHANGED <<published, hours, kills>>
    BY DEF CollectError
  <2> QED BY <1>4, <2>1, PipelineAssumption DEF HistoryTyped
<1>8. OwnPlaceOK(c)'
  BY <1>1, <1>2 DEF OwnPlaceOK, CollectorOK
<1>9. Frame(c)
  BY <1>2, <1>3, <1>5, Outlets DEF Frame, RawKept, ChunksKept, AirflowKept
<1> QED BY <1>1, <1>2, <1>6, <1>7, <1>8, <1>9, TypeParts, PlacesKept DEF Frame

-----------------------------------------------------------------------------
(* Processors.                                                             *)

\* A processor moves on to the next directory, which it has, or is done.
LEMMA AdvanceEffect ==
  ASSUME NEW p \in Processors, AirflowTyped, LocalsTyped, Advance(p),
         at[p] \in DOMAIN RegulatorSeq, UNCHANGED <<pending, failed, tries, body, batch>>
  PROVE  /\ AirflowTyped' /\ LocalsTyped' /\ OthersKept(p)
         /\ at'[p] = at[p] + 1 /\ next'[p] = 1
         /\ pc'[p] = IF at[p] < Len(RegulatorSeq) THEN "read" ELSE "finish"
<1>1. p \in Tasks /\ Len(RegulatorSeq) \in Nat /\ at[p] \in 1..Len(RegulatorSeq)
  BY TaskSets, PipelineAssumption
<1> DEFINE to == IF at[p] < Len(RegulatorSeq) THEN "read" ELSE "finish"
<1>2. to \in PCs
  BY DEF PCs
<1>3. /\ pc' \in [Tasks -> PCs] /\ pc'[p] = to
      /\ \A u \in Tasks \ {p} : pc'[u] = pc[u]
  BY <1>1, <1>2, MoveEffect DEF Advance
<1>4. /\ at' \in [Processors -> 1..Len(RegulatorSeq) + 1] /\ at'[p] = at[p] + 1
      /\ \A q \in Processors \ {p} : at'[q] = at[q]
  BY <1>1 DEF Advance, LocalsTyped
<1>5. NoDoc \in Files
  BY DEF NoDoc, Files, Texts
<1>6. /\ doc' \in [Collectors \cup Processors -> Files]
      /\ \A q \in (Collectors \cup Processors) \ {p} : doc'[q] = doc[q]
  BY <1>5 DEF Advance, LocalsTyped
<1>7. /\ next' \in [Processors -> Nat] /\ next'[p] = 1
      /\ \A q \in Processors \ {p} : next'[q] = next[q]
  BY DEF Advance, LocalsTyped
<1> QED BY <1>3, <1>4, <1>6, <1>7 DEF AirflowTyped, LocalsTyped, OthersKept

\* The place it then stands at is in order.
LEMMA AdvancedOK ==
  ASSUME NEW p \in Processors, at[p] \in DOMAIN RegulatorSeq,
         at'[p] = at[p] + 1, next'[p] = 1,
         pc'[p] = IF at[p] < Len(RegulatorSeq) THEN "read" ELSE "finish"
  PROVE  OwnPlaceOK(p)'
<1>1. Len(RegulatorSeq) \in Nat /\ DOMAIN RegulatorSeq = 1..Len(RegulatorSeq)
  BY PipelineAssumption
<1> QED BY <1>1, TaskSets DEF OwnPlaceOK, ProcessorOK

LEMMA ReadNewestStep ==
  ASSUME PipelineInv, NEW p \in Processors, ReadNewest(p)
  PROVE  PipelineInv' /\ Frame(p)
<1> DEFINE s == raw[Regulator(p)]
<1>1. p \in Tasks /\ p \notin Collectors /\ p \in Collectors \cup Processors
  BY TaskSets
<1>2. FilesTyped /\ AirflowTyped /\ LocalsTyped /\ HistoryTyped
  BY TypeParts DEF PipelineInv
<1>3. ProcessorOK(p) /\ pc[p] = "read"
  BY DEF ReadNewest, PipelineInv
<1>4. at[p] \in DOMAIN RegulatorSeq /\ Regulator(p) \in Regulators /\ next[p] = 1
  BY <1>3 DEF ProcessorOK, Regulator, Regulators
<1>5. UNCHANGED <<site, hash, raw, chunks, torn, store, analysis, report>>
      /\ UNCHANGED <<pending, failed, tries, body, batch, published, hours, errors, kills>>
  BY DEF ReadNewest, files, results, airflow, history
<1>6. FilesTyped' /\ HistoryTyped'
  BY <1>2, <1>5 DEF FilesTyped, HistoryTyped
<1>7. AirflowTyped' /\ LocalsTyped' /\ OthersKept(p) /\ OwnPlaceOK(p)' /\ pc'[p] # "idle"
  <2>1. CASE s = <<>> \/ ChunkCount[Newest(s).text] = 0
    <3>1. Advance(p)
      BY <2>1 DEF ReadNewest
    <3> QED BY <1>2, <1>4, <1>5, <3>1, AdvanceEffect, AdvancedOK
  <2>2. CASE ~(s = <<>> \/ ChunkCount[Newest(s).text] = 0)
    <3>1. /\ doc' = [doc EXCEPT ![p] = Newest(s)] /\ pc' = [pc EXCEPT ![p] = "open"]
          /\ UNCHANGED <<at, next>>
      BY <2>2 DEF ReadNewest
    <3>2. s \in Seq(Files) /\ s # <<>>
      BY <1>2, <1>4, <2>2 DEF FilesTyped
    <3>3. Newest(s) \in Files
      BY <3>2 DEF Newest, Last
    <3>4. ChunkCount[Newest(s).text] \in Nat \ {0}
      <4>1. Newest(s).text \in Bodies \cup {Empty}
        BY <3>3 DEF Files, Texts
      <4> QED BY <2>2, <4>1, PipelineAssumption
    <3> HIDE DEF s
    <3>5. "open" \in PCs
      BY DEF PCs
    <3>6. pc' \in [Tasks -> PCs] /\ pc'[p] = "open" /\ \A u \in Tasks \ {p} : pc'[u] = pc[u]
      BY <1>1, <1>2, <3>1, <3>5, MoveEffect
    <3>7. /\ doc' \in [Collectors \cup Processors -> Files] /\ doc'[p] = Newest(s)
          /\ \A q \in (Collectors \cup Processors) \ {p} : doc'[q] = doc[q]
      BY <1>1, <1>2, <3>1, <3>3 DEF LocalsTyped
    <3>8. AirflowTyped' /\ LocalsTyped' /\ OthersKept(p)
      BY <1>2, <1>5, <3>1, <3>6, <3>7 DEF AirflowTyped, LocalsTyped, OthersKept
    <3>9. next'[p] \in 1..ChunkCount[doc'[p].text]
      BY <1>4, <3>1, <3>4, <3>7
    <3>10. ProcessorOK(p)'
      BY <1>4, <3>1, <3>6, <3>9 DEF ProcessorOK
    <3> QED BY <1>1, <3>6, <3>8, <3>10 DEF OwnPlaceOK
  <2> QED BY <2>1, <2>2
<1>8. Frame(p)
  BY <1>5, <1>7 DEF Frame, RawKept, HashKept, ChunksKept, AirflowKept
<1> QED BY <1>1, <1>6, <1>7, <1>8, TypeParts, PlacesKept DEF Frame

\* The chunk file under a processor's hands has a key.
LEMMA KeyTyped ==
  ASSUME PipelineInv, NEW p \in Processors, pc[p] \in {"open", "write"}
  PROVE  /\ Key(p) \in Keys /\ chunks \in Seq(Keys)
         /\ at[p] \in DOMAIN RegulatorSeq /\ next[p] \in 1..ChunkCount[doc[p].text]
         /\ ChunkCount[doc[p].text] \in Nat
<1>1. ProcessorOK(p) /\ p \in Collectors \cup Processors
  BY DEF PipelineInv
<1>2. at[p] \in DOMAIN RegulatorSeq /\ next[p] \in 1..ChunkCount[doc[p].text]
  BY <1>1 DEF ProcessorOK
<1>3. doc[p] \in Files /\ next[p] \in Nat /\ chunks \in Seq(Keys)
  BY <1>1 DEF PipelineInv, TypeOK
<1>4. doc[p].n \in Nat /\ doc[p].text \in Bodies \cup {Empty}
  BY <1>3 DEF Files, Texts
<1>5. Regulator(p) \in Regulators
  BY <1>2 DEF Regulator, Regulators
<1> QED BY <1>2, <1>3, <1>4, <1>5, PipelineAssumption DEF Key, Keys

\* A chunk file is opened or written.
LEMMA ChunkTouched ==
  ASSUME PipelineInv, NEW p \in Processors, pc[p] \in {"open", "write"},
         chunks' = Append(Others(chunks, Key(p)), Key(p)),
         torn' = torn \cup {Key(p)} \/ torn' = torn \ {Key(p)},
         pc'[p] # "idle"
  PROVE  /\ chunks' \in Seq(Keys) /\ torn' \in SUBSET Keys /\ ChunksKept(p)
<1>1. Key(p) \in Keys /\ chunks \in Seq(Keys)
  BY KeyTyped
<1>2. /\ Append(Others(chunks, Key(p)), Key(p)) \in Seq(Keys)
      /\ Elements(Append(Others(chunks, Key(p)), Key(p))) \subseteq Elements(chunks) \cup {Key(p)}
      /\ (Elements(chunks) \ {Key(p)}) \cup {Key(p)}
           \subseteq Elements(Append(Others(chunks, Key(p)), Key(p)))
  BY <1>1, TouchElements
<1>3. torn \in SUBSET Keys
  BY DEF PipelineInv, TypeOK
<1> QED BY <1>1, <1>2, <1>3 DEF ChunksKept

LEMMA OpenChunkStep ==
  ASSUME PipelineInv, NEW p \in Processors, OpenChunk(p)
  PROVE  PipelineInv' /\ Frame(p)
<1>1. p \in Tasks /\ p \notin Collectors /\ "write" \in PCs
  BY TaskSets DEF PCs
<1>2. FilesTyped /\ AirflowTyped /\ LocalsTyped /\ HistoryTyped
  BY TypeParts DEF PipelineInv
<1>3. AirflowTyped' /\ LocalsTyped' /\ OthersKept(p) /\ pc'[p] = "write"
  BY <1>1, <1>2, StepEffect DEF OpenChunk, Goto
<1>4. UNCHANGED <<site, hash, raw, store, analysis, report, pending, failed>>
      /\ UNCHANGED <<at, doc, next, published, hours, errors, kills>>
  BY DEF OpenChunk, results, airflow, locals, history
<1>5. pc[p] = "open" /\ ProcessorOK(p)
  BY DEF OpenChunk, Goto, PipelineInv
<1>6. chunks' \in Seq(Keys) /\ torn' \in SUBSET Keys /\ ChunksKept(p)
  BY <1>3, <1>5, ChunkTouched DEF OpenChunk
<1>7. TypeOK'
  BY <1>2, <1>3, <1>4, <1>6, TypeParts DEF FilesTyped, HistoryTyped
<1>8. OwnPlaceOK(p)'
  BY <1>1, <1>3, <1>4, <1>5 DEF OwnPlaceOK, ProcessorOK
<1>9. Frame(p)
  BY <1>3, <1>4, <1>6 DEF Frame, RawKept, HashKept, AirflowKept
<1> QED BY <1>1, <1>7, <1>8, <1>9, PlacesKept DEF Frame

LEMMA WriteChunkStep ==
  ASSUME PipelineInv, NEW p \in Processors, WriteChunk(p)
  PROVE  PipelineInv' /\ Frame(p)
<1>1. p \in Tasks /\ p \notin Collectors /\ "open" \in PCs
  BY TaskSets DEF PCs
<1>2. FilesTyped /\ AirflowTyped /\ LocalsTyped /\ HistoryTyped
  BY TypeParts DEF PipelineInv
<1>3. UNCHANGED <<site, hash, raw, store, analysis, report, pending, failed, tries>>
      /\ UNCHANGED <<body, batch, published, hours, errors, kills>>
  BY DEF WriteChunk, results, airflow, history
<1>4. pc[p] = "write" /\ ProcessorOK(p)
  BY DEF WriteChunk, PipelineInv
<1>5. /\ at[p] \in DOMAIN RegulatorSeq /\ next[p] \in 1..ChunkCount[doc[p].text]
      /\ ChunkCount[doc[p].text] \in Nat
  BY <1>4, KeyTyped
<1>6. AirflowTyped' /\ LocalsTyped' /\ OthersKept(p) /\ OwnPlaceOK(p)' /\ pc'[p] # "idle"
  <2>1. CASE next[p] < ChunkCount[doc[p].text]
    <3>1. /\ next' = [next EXCEPT ![p] = @ + 1] /\ pc' = [pc EXCEPT ![p] = "open"]
          /\ UNCHANGED <<at, doc>>
      BY <2>1 DEF WriteChunk
    <3>2. pc' \in [Tasks -> PCs] /\ pc'[p] = "open" /\ \A u \in Tasks \ {p} : pc'[u] = pc[u]
      BY <1>1, <1>2, <3>1, MoveEffect
    <3>3. /\ next' \in [Processors -> Nat] /\ next'[p] = next[p] + 1
          /\ \A q \in Processors \ {p} : next'[q] = next[q]
      BY <1>2, <3>1 DEF LocalsTyped
    <3>4. AirflowTyped' /\ LocalsTyped' /\ OthersKept(p)
      BY <1>2, <1>3, <3>1, <3>2, <3>3 DEF AirflowTyped, LocalsTyped, OthersKept
    <3>5. ProcessorOK(p)'
      BY <1>5, <2>1, <3>1, <3>2, <3>3 DEF ProcessorOK
    <3> QED BY <1>1, <3>2, <3>4, <3>5 DEF OwnPlaceOK
  <2>2. CASE ~(next[p] < ChunkCount[doc[p].text])
    <3>1. Advance(p)
      BY <2>2 DEF WriteChunk
    <3> QED BY <1>2, <1>3, <1>5, <3>1, AdvanceEffect, AdvancedOK
  <2> QED BY <2>1, <2>2
<1>7. chunks' \in Seq(Keys) /\ torn' \in SUBSET Keys /\ ChunksKept(p)
  BY <1>4, <1>6, ChunkTouched DEF WriteChunk
<1>8. TypeOK'
  BY <1>2, <1>3, <1>6, <1>7, TypeParts DEF FilesTyped, HistoryTyped
<1>9. Frame(p)
  BY <1>3, <1>6, <1>7 DEF Frame, RawKept, HashKept, AirflowKept
<1> QED BY <1>1, <1>6, <1>8, <1>9, PlacesKept DEF Frame

LEMMA FinishProcessingStep ==
  ASSUME PipelineInv, NEW p \in Processors, FinishProcessing(p)
  PROVE  PipelineInv' /\ Frame(p)
<1>1. p \in Tasks /\ p \notin Collectors
  BY TaskSets
<1>2. /\ AirflowTyped' /\ LocalsTyped' /\ OthersKept(p)
      /\ pc'[p] = "idle" /\ failed' = failed /\ pending \subseteq pending'
      /\ "chunks" \in pending' /\ at'[p] = 1 /\ next'[p] = 1
  BY <1>1, TypeParts, SucceedEffect, Outlets DEF FinishProcessing, PipelineInv
<1>3. UNCHANGED <<site, hash, raw, chunks, torn, store, analysis, report>>
      /\ UNCHANGED <<published, hours, errors, kills>>
  BY DEF FinishProcessing, files, results, history
<1>4. TypeOK'
  BY <1>2, <1>3, TypeParts DEF PipelineInv, FilesTyped, HistoryTyped
<1>5. OwnPlaceOK(p)'
  BY <1>1, <1>2 DEF OwnPlaceOK, ProcessorOK
<1>6. Frame(p)
  BY <1>2, <1>3, Outlets DEF Frame, RawKept, HashKept, ChunksKept, AirflowKept
<1> QED BY <1>1, <1>4, <1>5, <1>6, PlacesKept DEF Frame

-----------------------------------------------------------------------------
(* The scheduler, the readers, and a process that dies.                    *)

\* A place that a task starts from is in order.
LEMMA RestingOK ==
  ASSUME NEW t \in Tasks, pc'[t] \in {"idle", "retry"},
         t \in Processors => at'[t] = 1 /\ next'[t] = 1
  PROVE  OwnPlaceOK(t)'
BY TaskSets DEF OwnPlaceOK, CollectorOK, ProcessorOK

LEMMA RetryStep ==
  ASSUME PipelineInv, NEW t \in Tasks, Retry(t)
  PROVE  PipelineInv' /\ Frame(t)
<1>1. Start(t) \in PCs /\ Start(t) # "idle"
  BY DEF Start, PCs
<1>2. AirflowTyped' /\ LocalsTyped' /\ OthersKept(t) /\ pc'[t] = Start(t)
  BY <1>1, TypeParts, StepEffect DEF Retry, Goto, PipelineInv
<1>3. UNCHANGED <<site, hash, raw, chunks, torn, store, analysis, report, pending, failed>>
      /\ UNCHANGED <<at, next, published, hours, errors, kills>>
  BY DEF Retry, files, results, airflow, locals, history
<1>4. TypeOK'
  BY <1>2, <1>3, TypeParts DEF PipelineInv, FilesTyped, HistoryTyped
<1>5. OwnPlaceOK(t)'
  <2>1. t \in Collectors => CollectorOK(t)'
    BY <1>2, TaskSets, Outlets DEF CollectorOK
  <2>2. t \in Processors => ProcessorOK(t)'
    BY <1>2, <1>3, TaskSets, Outlets, PipelineAssumption
       DEF Retry, Goto, PipelineInv, ProcessorOK
  <2> QED BY <2>1, <2>2 DEF OwnPlaceOK
<1>6. Frame(t)
  BY <1>1, <1>2, <1>3 DEF Frame, RawKept, HashKept, ChunksKept, AirflowKept
<1> QED BY <1>4, <1>5, <1>6, PlacesKept DEF Frame

LEMMA TriggerRunStep ==
  ASSUME PipelineInv, NEW t \in Tasks, TriggerRun(t)
  PROVE  PipelineInv' /\ Frame(t) /\ pc'[t] = "read"
<1>1. Start(t) = "read" /\ "read" \in PCs /\ t \notin Collectors
  BY DEF TriggerRun, Start, PCs
<1>2. FilesTyped /\ AirflowTyped /\ LocalsTyped /\ HistoryTyped
  BY TypeParts DEF PipelineInv
<1>3. pc' \in [Tasks -> PCs] /\ pc'[t] = "read" /\ \A u \in Tasks \ {t} : pc'[u] = pc[u]
  BY <1>1, <1>2, MoveEffect DEF TriggerRun, Goto
<1>4. UNCHANGED <<site, hash, raw, chunks, torn, store, analysis, report, failed, tries>>
      /\ UNCHANGED <<body, at, doc, next, batch, published, hours, errors, kills>>
  BY DEF TriggerRun, files, results, locals, history
<1>5. pending' \in SUBSET Datasets
  BY <1>2 DEF TriggerRun, AirflowTyped
<1>6. TypeOK'
  BY <1>2, <1>3, <1>4, <1>5, TypeParts DEF FilesTyped, AirflowTyped, LocalsTyped, HistoryTyped
<1>7. OthersKept(t)
  BY <1>3, <1>4 DEF OthersKept
<1>8. OwnPlaceOK(t)'
  BY <1>1, <1>3, <1>4, PipelineAssumption
     DEF TriggerRun, Goto, PipelineInv, OwnPlaceOK, ProcessorOK
<1>9. Frame(t)
  BY <1>3, <1>4, <1>7 DEF Frame, RawKept, HashKept, ChunksKept, AirflowKept
<1> QED BY <1>3, <1>6, <1>8, <1>9, PlacesKept DEF Frame

LEMMA ReadChunksStep ==
  ASSUME PipelineInv, NEW t \in Tasks, ReadChunks(t)
  PROVE  PipelineInv' /\ Frame(t)
<1> DEFINE to == IF t \in Embedders THEN "upsert" ELSE "open"
<1>1. to \in PCs /\ t \in Embedders \cup Analysts /\ t \notin Collectors \cup Processors
  BY TaskSets DEF ReadChunks, PCs
<1>2. FilesTyped /\ AirflowTyped /\ LocalsTyped /\ HistoryTyped
  BY TypeParts DEF PipelineInv
<1>3. pc' \in [Tasks -> PCs] /\ pc'[t] = to /\ \A u \in Tasks \ {t} : pc'[u] = pc[u]
  BY <1>1, <1>2, MoveEffect DEF ReadChunks, Goto
<1>4. UNCHANGED <<site, hash, raw, chunks, torn, store, analysis, report, pending, failed, tries>>
      /\ UNCHANGED <<body, at, doc, next, published, hours, errors, kills>>
  BY DEF ReadChunks, files, results, airflow, history
<1>5. Wanted(t) \in SUBSET Keys
  BY <1>2 DEF Wanted, NewestFiles, Elements, FilesTyped
<1>6. /\ batch' \in [Embedders \cup Analysts -> SUBSET Keys]
      /\ \A e \in (Embedders \cup Analysts) \ {t} : batch'[e] = batch[e]
  BY <1>2, <1>5 DEF ReadChunks, LocalsTyped
<1>7. TypeOK'
  BY <1>2, <1>3, <1>4, <1>6, TypeParts DEF FilesTyped, AirflowTyped, LocalsTyped, HistoryTyped
<1>8. OthersKept(t)
  BY <1>3, <1>4, <1>6 DEF OthersKept
<1>9. Frame(t)
  BY <1>1, <1>4, <1>8 DEF Frame, RawKept, HashKept, ChunksKept, AirflowKept
<1> QED BY <1>1, <1>7, <1>9, PlacesKept DEF Frame, OwnPlaceOK

LEMMA ReadRaisesStep ==
  ASSUME PipelineInv, NEW t \in Tasks, ReadRaises(t)
  PROVE  PipelineInv' /\ Frame(t)
<1>1. t \notin Collectors \cup Processors
  BY TaskSets DEF ReadRaises
<1>2. /\ AirflowTyped' /\ LocalsTyped' /\ OthersKept(t)
      /\ failed \subseteq failed' /\ pending' = pending
  BY TypeParts, FailEffect DEF ReadRaises, PipelineInv
<1>3. UNCHANGED <<site, hash, raw, chunks, torn, store, analysis, report>>
      /\ UNCHANGED <<published, hours, errors, kills>>
  BY DEF ReadRaises, files, results, history
<1>4. TypeOK'
  BY <1>2, <1>3, TypeParts DEF PipelineInv, FilesTyped, HistoryTyped
<1>5. Frame(t)
  BY <1>1, <1>2, <1>3 DEF Frame, RawKept, HashKept, ChunksKept, AirflowKept
<1> QED BY <1>1, <1>4, <1>5, PlacesKept DEF Frame, OwnPlaceOK

LEMMA UpsertStep ==
  ASSUME PipelineInv, NEW e \in Embedders, Upsert(e)
  PROVE  PipelineInv' /\ Frame(e)
<1>1. e \in Tasks /\ e \notin Collectors \cup Processors /\ e \in Embedders \cup Analysts
  BY TaskSets
<1>2. FilesTyped /\ AirflowTyped /\ LocalsTyped /\ HistoryTyped
  BY TypeParts DEF PipelineInv
<1>3. /\ AirflowTyped' /\ LocalsTyped' /\ OthersKept(e)
      /\ failed' = failed /\ pending \subseteq pending'
  BY <1>1, <1>2, SucceedEffect DEF Upsert
<1>4. UNCHANGED <<site, hash, raw, chunks, torn, analysis, report>>
      /\ UNCHANGED <<published, hours, errors, kills>>
  BY DEF Upsert, files, history
<1>5. store' \in SUBSET Keys /\ store \subseteq store'
  BY <1>1, <1>2 DEF Upsert, FilesTyped, LocalsTyped
<1>6. TypeOK'
  BY <1>2, <1>3, <1>4, <1>5, TypeParts DEF FilesTyped, HistoryTyped
<1>7. Frame(e)
  BY <1>1, <1>3, <1>4, <1>5 DEF Frame, RawKept, HashKept, ChunksKept, AirflowKept
<1> QED BY <1>1, <1>6, <1>7, PlacesKept DEF Frame, OwnPlaceOK

LEMMA OpenAnalysisStep ==
  ASSUME PipelineInv, NEW a \in Tasks, OpenAnalysis(a)
  PROVE  PipelineInv' /\ Frame(a)
<1>1. a \notin Collectors \cup Processors /\ "write" \in PCs
  BY TaskSets DEF OpenAnalysis, PCs
<1>2. FilesTyped /\ AirflowTyped /\ LocalsTyped /\ HistoryTyped
  BY TypeParts DEF PipelineInv
<1>3. AirflowTyped' /\ LocalsTyped' /\ OthersKept(a) /\ pc'[a] = "write"
  BY <1>1, <1>2, StepEffect DEF OpenAnalysis, Goto
<1>4. UNCHANGED <<site, hash, raw, chunks, torn, store, report, pending, failed>>
      /\ UNCHANGED <<published, hours, errors, kills>> /\ analysis' = Torn
  BY DEF OpenAnalysis, files, airflow, history
<1>5. TypeOK'
  BY <1>2, <1>3, <1>4, TypeParts DEF FilesTyped, HistoryTyped
<1>6. Frame(a)
  BY <1>1, <1>3, <1>4 DEF Frame, RawKept, HashKept, ChunksKept, AirflowKept
<1> QED BY <1>1, <1>5, <1>6, PlacesKept DEF Frame, OwnPlaceOK

LEMMA WriteAnalysisStep ==
  ASSUME PipelineInv, NEW a \in Tasks, WriteAnalysis(a)
  PROVE  PipelineInv' /\ Frame(a)
<1>1. a \notin Collectors \cup Processors /\ a \in Embedders \cup Analysts
  BY TaskSets DEF WriteAnalysis
<1>2. FilesTyped /\ AirflowTyped /\ LocalsTyped /\ HistoryTyped
  BY TypeParts DEF PipelineInv
<1>3. /\ AirflowTyped' /\ LocalsTyped' /\ OthersKept(a)
      /\ failed' = failed /\ pending \subseteq pending'
  BY <1>1, <1>2, SucceedEffect DEF WriteAnalysis
<1>4. UNCHANGED <<site, hash, raw, chunks, torn, store, report>>
      /\ UNCHANGED <<published, hours, errors, kills>>
  BY DEF WriteAnalysis, files, history
<1>5. analysis' \in Summaries \cup {Torn, NoAnalysis}
  <2>1. batch[a] \in SUBSET Keys
    BY <1>1, <1>2 DEF LocalsTyped
  <2>2. Summary(batch[a]) \in Summaries
    BY <2>1 DEF Summary, Summaries
  <2>3. analysis' \in {Summary(batch[a]), Torn}
    BY DEF WriteAnalysis
  <2> QED BY <2>2, <2>3
<1>6. TypeOK'
  BY <1>2, <1>3, <1>4, <1>5, TypeParts DEF FilesTyped, HistoryTyped
<1>7. Frame(a)
  BY <1>1, <1>3, <1>4 DEF Frame, RawKept, HashKept, ChunksKept, AirflowKept
<1> QED BY <1>1, <1>6, <1>7, PlacesKept DEF Frame, OwnPlaceOK

LEMMA PublishReportStep ==
  ASSUME PipelineInv, NEW t \in Tasks, PublishReport(t)
  PROVE  PipelineInv' /\ Frame(t)
<1>1. t \notin Collectors \cup Processors
  BY TaskSets DEF PublishReport
<1>2. FilesTyped /\ AirflowTyped /\ LocalsTyped /\ HistoryTyped
  BY TypeParts DEF PipelineInv
<1>3. /\ AirflowTyped' /\ LocalsTyped' /\ OthersKept(t)
      /\ failed' = failed /\ pending \subseteq pending'
  BY <1>1, <1>2, SucceedEffect DEF PublishReport
<1>4. UNCHANGED <<site, hash, raw, chunks, torn, store, analysis>>
      /\ UNCHANGED <<published, hours, errors, kills>>
      /\ report' = analysis /\ analysis # Torn
  BY DEF PublishReport, files, history
<1>5. TypeOK'
  BY <1>2, <1>3, <1>4, TypeParts DEF FilesTyped, HistoryTyped
<1>6. Frame(t)
  BY <1>1, <1>3, <1>4 DEF Frame, RawKept, HashKept, ChunksKept, AirflowKept
<1> QED BY <1>1, <1>5, <1>6, PlacesKept DEF Frame, OwnPlaceOK

LEMMA KillStep ==
  ASSUME PipelineInv, NEW t \in Tasks, Kill(t)
  PROVE  PipelineInv' /\ Frame(t)
<1>1. FilesTyped /\ AirflowTyped /\ LocalsTyped /\ HistoryTyped
  BY TypeParts DEF PipelineInv
<1>2. /\ AirflowTyped' /\ LocalsTyped' /\ OthersKept(t)
      /\ pc'[t] \in {"idle", "retry"} /\ failed \subseteq failed' /\ pending' = pending
      /\ pc'[t] = "idle" => Outlet(t) \in failed'
      /\ t \in Processors => at'[t] = 1 /\ next'[t] = 1
  BY <1>1, FailEffect DEF Kill
<1>3. UNCHANGED <<site, raw, chunks, torn>> /\ UNCHANGED <<published, hours, errors>>
      /\ kills < MaxKills /\ kills' = kills + 1
  BY DEF Kill, files
<1>4. /\ hash' \in [Regulators -> Bodies \cup {NoHash}] /\ HashKept
      /\ store' \in SUBSET Keys /\ store \subseteq store' /\ report' = report
      /\ analysis' \in Summaries \cup {Torn, NoAnalysis}
  <2>1. CASE UNCHANGED <<hash, results>>
    BY <1>1, <2>1 DEF results, FilesTyped, HashKept
  <2>2. CASE /\ t \in Collectors /\ pc[t] = "hash"
             /\ \E h \in {NoHash, body[t]} : hash' = [hash EXCEPT ![RegulatorOf[t]] = h]
             /\ UNCHANGED results
    <3>1. CollectorOK(t) /\ RegulatorOf[t] \in Regulators
      BY <2>2, PipelineAssumption DEF PipelineInv
    <3> QED BY <1>1, <2>2, <3>1 DEF results, FilesTyped, HashKept, CollectorOK
  <2>3. CASE /\ t \in Embedders /\ pc[t] = "upsert"
             /\ store' = store \cup batch[t]
             /\ UNCHANGED <<hash, analysis, report>>
    BY <1>1, <2>3 DEF FilesTyped, HashKept, LocalsTyped
  <2>4. CASE /\ t \in Analysts /\ pc[t] = "write"
             /\ analysis' = Summary(batch[t])
             /\ UNCHANGED <<hash, store, report>>
    BY <1>1, <2>4 DEF FilesTyped, HashKept, LocalsTyped, Summary, Summaries
  <2> QED BY <2>1, <2>2, <2>3, <2>4 DEF Kill
<1>5. FilesTyped' /\ HistoryTyped'
  BY <1>1, <1>3, <1>4, PipelineAssumption DEF FilesTyped, HistoryTyped
<1>6. OwnPlaceOK(t)'
  BY <1>2, RestingOK
<1>7. Frame(t)
  BY <1>2, <1>3, <1>4 DEF Frame, RawKept, ChunksKept, AirflowKept
<1> QED BY <1>2, <1>5, <1>6, <1>7, TypeParts, PlacesKept DEF Frame

\* A page changes, and nothing else does.
LEMMA PublishStep ==
  ASSUME PipelineInv, NEW r \in Regulators, Publish(r)
  PROVE  PipelineInv' /\ UNCHANGED <<hash, files, results, airflow, pc, locals>>
<1>1. UNCHANGED <<hash, files, results, airflow, pc, locals, hours, errors, kills>>
  BY DEF Publish
<1>2. FilesTyped /\ AirflowTyped /\ LocalsTyped /\ HistoryTyped
  BY TypeParts DEF PipelineInv
<1>3. site' \in [Regulators -> Bodies] /\ published' \in 0..MaxPublished
  BY <1>2, PipelineAssumption DEF Publish, FilesTyped, HistoryTyped
<1>4. TypeOK'
  BY <1>1, <1>2, <1>3, TypeParts
     DEF FilesTyped, AirflowTyped, LocalsTyped, HistoryTyped, files, results, airflow, locals
<1>5. \A c \in Collectors : CollectorOK(c)'
  BY <1>1 DEF PipelineInv, CollectorOK, files, locals
<1>6. \A p \in Processors : ProcessorOK(p)'
  BY <1>1 DEF PipelineInv, ProcessorOK, locals
<1> QED BY <1>1, <1>4, <1>5, <1>6 DEF PipelineInv

-----------------------------------------------------------------------------
(* PipelineInv, and what every task step leaves alone.                     *)

\* A step of one task, of any kind.
TaskStep(t) ==
  \/ Proceed(t) \/ Kill(t)
  \/ t \in Collectors /\ (Hourly(t) \/ CollectError(t))

LEMMA NextCases ==
  ASSUME Next
  PROVE  (\E r \in Regulators : Publish(r)) \/ (\E t \in Tasks : TaskStep(t))
<1>1. ASSUME NEW c \in Collectors, Hourly(c) \/ CollectError(c)
      PROVE  \E t \in Tasks : TaskStep(t)
  BY <1>1, TaskSets DEF TaskStep
<1>2. ASSUME NEW t \in Tasks, Proceed(t) \/ Kill(t)
      PROVE  \E u \in Tasks : TaskStep(u)
  BY <1>2 DEF TaskStep
<1> QED BY <1>1, <1>2 DEF Next

LEMMA TaskStepFrame ==
  ASSUME PipelineInv, NEW t \in Tasks, TaskStep(t)
  PROVE  PipelineInv' /\ Frame(t)
<1>1. CASE t \in Collectors /\ Collect(t)
  BY <1>1, FetchStep, FindUnchangedStep, FindChangedStep, OpenRawStep, WriteRawStep,
     StoreHashStep DEF Collect
<1>2. CASE t \in Processors /\ Process(t)
  BY <1>2, ReadNewestStep, OpenChunkStep, WriteChunkStep, FinishProcessingStep DEF Process
<1>3. CASE t \in Embedders /\ Upsert(t)
  BY <1>3, UpsertStep
<1>4. CASE ReadChunks(t) \/ ReadRaises(t)
  BY <1>4, ReadChunksStep, ReadRaisesStep
<1>5. CASE OpenAnalysis(t) \/ WriteAnalysis(t) \/ PublishReport(t)
  BY <1>5, OpenAnalysisStep, WriteAnalysisStep, PublishReportStep
<1>6. CASE TriggerRun(t) \/ Retry(t)
  BY <1>6, TriggerRunStep, RetryStep
<1>7. CASE Kill(t)
  BY <1>7, KillStep
<1>8. CASE t \in Collectors /\ (Hourly(t) \/ CollectError(t))
  BY <1>8, HourlyStep, CollectErrorStep
<1> QED BY <1>1, <1>2, <1>3, <1>4, <1>5, <1>6, <1>7, <1>8 DEF TaskStep, Proceed

LEMMA InvStart == Init => PipelineInv
<1> SUFFICES ASSUME Init PROVE PipelineInv
  OBVIOUS
<1>1. Empty \in Texts /\ NoDoc \in Files /\ 1 \in 1..Len(RegulatorSeq) + 1
  BY PipelineAssumption DEF Texts, NoDoc, Files
<1>2. FilesTyped
  BY DEF Init, FilesTyped
<1>3. AirflowTyped
  BY PipelineAssumption DEF Init, AirflowTyped, PCs
<1>4. LocalsTyped
  BY <1>1 DEF Init, LocalsTyped
<1>5. HistoryTyped
  BY PipelineAssumption DEF Init, HistoryTyped
<1>6. TypeOK
  BY <1>2, <1>3, <1>4, <1>5, TypeParts
<1>7. \A t \in Tasks : pc[t] = "idle"
  BY DEF Init
<1>8. \A c \in Collectors : CollectorOK(c)
  BY <1>7, TaskSets DEF CollectorOK
<1>9. \A p \in Processors : ProcessorOK(p)
  BY <1>7, TaskSets DEF Init, ProcessorOK
<1> QED BY <1>6, <1>8, <1>9 DEF PipelineInv

LEMMA InvStep == PipelineInv /\ [Next]_vars => PipelineInv'
<1> SUFFICES ASSUME PipelineInv, [Next]_vars PROVE PipelineInv'
  OBVIOUS
<1>1. CASE UNCHANGED vars
  BY <1>1 DEF vars, files, results, airflow, locals, history, PipelineInv, TypeOK,
     CollectorOK, ProcessorOK
<1>2. CASE Next
  BY <1>2, NextCases, TaskStepFrame, PublishStep
<1> QED BY <1>1, <1>2

\* Files, summaries and locals hold what they are meant to hold, and every
\* collect and process task (DAGs 01 and 02) stands where its locals say.
THEOREM Invariance == Spec => []PipelineInv
<1>1. Init => PipelineInv
  BY InvStart
<1>2. PipelineInv /\ [Next]_vars => PipelineInv'
  BY InvStep
<1> QED BY <1>1, <1>2, PTL DEF Spec

-----------------------------------------------------------------------------
(* Change detection.                                                       *)

LEMMA HashedStep == PipelineInv /\ HashedIsSaved /\ [Next]_vars => HashedIsSaved'
<1> SUFFICES ASSUME PipelineInv, HashedIsSaved, [Next]_vars PROVE HashedIsSaved'
  OBVIOUS
<1>1. CASE UNCHANGED <<hash, raw>>
  BY <1>1 DEF HashedIsSaved
<1>2. ASSUME NEW t \in Tasks, TaskStep(t) PROVE HashedIsSaved'
  <2>1. RawKept(t) /\ HashKept
    BY <1>2, TaskStepFrame DEF Frame
  <2> SUFFICES ASSUME NEW r \in Regulators, hash'[r] \in Bodies
               PROVE  \E f \in Elements(raw'[r]) : f.text = hash'[r]
    BY DEF HashedIsSaved
  <2>2. PICK f \in Elements(raw[r]) : f.text = hash'[r]
    BY <2>1, PipelineAssumption DEF HashKept, HashedIsSaved
  <2>3. f \in Elements(raw'[r])
    BY <2>1, <2>2, PipelineAssumption DEF RawKept
  <2> QED BY <2>2, <2>3
<1>3. CASE UNCHANGED vars
  BY <1>1, <1>3 DEF vars, files
<1>4. ASSUME NEW r \in Regulators, Publish(r) PROVE HashedIsSaved'
  BY <1>1, <1>4 DEF Publish, files
<1> QED BY <1>2, <1>3, <1>4, NextCases

\* The hash a regulator is compared with (dag_01, collect_regulator) is of a
\* text that was saved, in every state and for every number of exceptions,
\* kills and overlapping runs.
THEOREM HashedIsSavedHolds == Spec => []HashedIsSaved
<1>1. Init => HashedIsSaved
  BY PipelineAssumption DEF Init, HashedIsSaved
<1>2. PipelineInv /\ HashedIsSaved /\ [Next]_vars => HashedIsSaved'
  BY HashedStep
<1> QED BY <1>1, <1>2, Invariance, PTL DEF Spec

-----------------------------------------------------------------------------
(* From collection to processing.                                          *)

\* Somebody has written chunk file k, or will, or a task was given up.
Awaited(k) ==
  \/ Whole(k)
  \/ "raw_documents" \in pending \cup failed \/ "chunks" \in failed
  \/ Collecting(k[1])
  \/ \E p \in Processors : WillWrite(p, k)

\* k is a chunk of the newest document of its regulator.
IsCurrent(k) ==
  \E r \in Regulators : \E i \in 1..ChunkCount[Last(raw[r]).text] :
    raw[r] # <<>> /\ k = <<r, Last(raw[r]).n, i>>

LEMMA StrandedAwaited == NoStrandedDocument <=> \A k : IsCurrent(k) => Awaited(k)
<1>1. ASSUME NEW r \in Regulators, NEW n, NEW i
      PROVE  Awaited(<<r, n, i>>) <=>
               \/ Whole(<<r, n, i>>)
               \/ "raw_documents" \in pending \cup failed \/ "chunks" \in failed
               \/ Collecting(r)
               \/ \E p \in Processors : WillWrite(p, <<r, n, i>>)
  BY DEF Awaited
<1> QED BY <1>1 DEF NoStrandedDocument, IsCurrent

\* The processor's own step brings it nearer to the chunks it will write.
LEMMA ProcessorGoesOn ==
  ASSUME PipelineInv, NEW p \in Processors, NEW k, IsCurrent(k), WillWrite(p, k), TaskStep(p)
  PROVE  WillWrite(p, k)' \/ Whole(k)' \/ "chunks" \in failed'
<1>0. PICK r \in Regulators : \E i \in 1..ChunkCount[Last(raw[r]).text] :
        raw[r] # <<>> /\ k = <<r, Last(raw[r]).n, i>>
  BY DEF IsCurrent
<1>1. PICK i \in 1..ChunkCount[Last(raw[r]).text] :
        raw[r] # <<>> /\ k = <<r, Last(raw[r]).n, i>>
  BY <1>0
<1>2. PICK j \in DOMAIN RegulatorSeq : RegulatorSeq[j] = r
  BY DEF Regulators
<1>3. k[1] = r /\ k[2] = Last(raw[r]).n /\ k[3] = i
  BY <1>1
<1>4. p \in Tasks /\ p \notin Collectors /\ p \notin Embedders \cup Analysts
      /\ p \notin Reporters
  BY TaskSets
<1>5. ProcessorOK(p) /\ DOMAIN RegulatorSeq = 1..Len(RegulatorSeq) /\ Len(RegulatorSeq) \in Nat
  BY PipelineAssumption DEF PipelineInv
<1>6. \A m \in DOMAIN RegulatorSeq : RegulatorSeq[m] = r => m = j
  BY <1>2, PipelineAssumption
<1>7. WillWrite(p, k) <=>
        \/ pc[p] = "retry"
        \/ /\ pc[p] \in {"read", "open", "write"}
           /\ \/ at[p] < j
              \/ at[p] = j /\ pc[p] = "read"
              \/ at[p] = j /\ doc[p].n = k[2] /\ i \in next[p]..ChunkCount[doc[p].text]
  BY <1>2, <1>3, <1>6 DEF WillWrite
<1>8. WillWrite(p, k)' <=>
        \/ pc'[p] = "retry"
        \/ /\ pc'[p] \in {"read", "open", "write"}
           /\ \/ at'[p] < j
              \/ at'[p] = j /\ pc'[p] = "read"
              \/ at'[p] = j /\ doc'[p].n = k[2] /\ i \in next'[p]..ChunkCount[doc'[p].text]
  BY <1>2, <1>3, <1>6 DEF WillWrite
<1>9. TypeOK /\ pc \in [Tasks -> PCs] /\ LocalsTyped
  BY TypeParts DEF PipelineInv, TypeOK
<1>10. ASSUME at[p] < j, Advance(p) PROVE WillWrite(p, k)'
  <2>1. at'[p] = at[p] + 1 /\ pc'[p] = IF at[p] < Len(RegulatorSeq) THEN "read" ELSE "finish"
    BY <1>4, <1>9, <1>10 DEF Advance, LocalsTyped
  <2>2. at[p] \in Nat /\ j \in 1..Len(RegulatorSeq)
    BY <1>5, <1>9 DEF LocalsTyped
  <2> QED BY <1>5, <1>8, <1>10, <2>1, <2>2
<1>11. CASE ReadNewest(p)
  <2>1. pc[p] = "read" /\ at[p] \in DOMAIN RegulatorSeq
    BY <1>5, <1>11 DEF ReadNewest, ProcessorOK
  <2>2. CASE at[p] = j
    <3>1. Regulator(p) = r
      BY <1>2, <2>2 DEF Regulator
    <3>2. ChunkCount[Last(raw[r]).text] # 0
      <4>1. raw[r] \in Seq(Files) /\ raw[r] # <<>>
        BY <1>1, <1>9 DEF TypeOK
      <4>2. Last(raw[r]) \in Files
        BY <4>1 DEF Last
      <4>3. ChunkCount[Last(raw[r]).text] \in Nat
        BY <4>2, PipelineAssumption DEF Files, Texts
      <4> QED BY <1>1, <4>3
    <3>3. /\ doc' = [doc EXCEPT ![p] = Last(raw[r])] /\ pc' = [pc EXCEPT ![p] = "open"]
          /\ UNCHANGED <<at, next>>
      BY <1>1, <1>11, <3>1, <3>2 DEF ReadNewest, Newest
    <3>4. doc'[p] = Last(raw[r]) /\ pc'[p] = "open" /\ at'[p] = j /\ next'[p] = 1
      BY <1>4, <1>5, <1>9, <2>1, <2>2, <3>3 DEF LocalsTyped, ProcessorOK
    <3> QED BY <1>3, <1>8, <3>4
  <2>3. CASE at[p] < j
    <3>1. CASE Advance(p)
      BY <1>10, <2>3, <3>1
    <3>2. CASE pc' = [pc EXCEPT ![p] = "open"] /\ UNCHANGED at
      BY <1>4, <1>8, <1>9, <2>3, <3>2
    <3> QED BY <1>11, <3>1, <3>2 DEF ReadNewest
  <2> QED BY <1>7, <2>1, <2>2, <2>3
<1>12. CASE OpenChunk(p)
  BY <1>4, <1>7, <1>8, <1>9, <1>12 DEF OpenChunk, Goto, locals
<1>13. CASE WriteChunk(p)
  <2>1. pc[p] = "write"
    BY <1>13 DEF WriteChunk
  <2>2. /\ Key(p) \in Keys /\ chunks \in Seq(Keys)
        /\ next[p] \in 1..ChunkCount[doc[p].text] /\ ChunkCount[doc[p].text] \in Nat
    BY <2>1, KeyTyped
  <2>3. CASE at[p] < j
    <3>1. CASE Advance(p)
      BY <1>10, <2>3, <3>1
    <3>2. CASE pc' = [pc EXCEPT ![p] = "open"] /\ UNCHANGED at
      BY <1>4, <1>8, <1>9, <2>3, <3>2
    <3> QED BY <1>13, <3>1, <3>2 DEF WriteChunk
  <2>4. CASE at[p] = j /\ i = next[p] /\ doc[p].n = k[2]
    <3>1. Key(p) = k
      BY <1>1, <1>2, <1>3, <2>4 DEF Key, Regulator
    <3>2. k \in Elements(chunks')
      BY <1>13, <2>2, <3>1, TouchElements DEF WriteChunk
    <3> QED BY <1>13, <3>1, <3>2 DEF WriteChunk, Whole
  <2>5. CASE at[p] = j /\ doc[p].n = k[2] /\ i \in next[p]..ChunkCount[doc[p].text] /\ i # next[p]
    <3>1. next[p] < ChunkCount[doc[p].text]
      BY <2>2, <2>5
    <3>2. /\ next' = [next EXCEPT ![p] = @ + 1] /\ pc' = [pc EXCEPT ![p] = "open"]
          /\ UNCHANGED <<at, doc>>
      BY <1>13, <3>1 DEF WriteChunk
    <3>3. next'[p] = next[p] + 1 /\ pc'[p] = "open"
      BY <1>4, <1>9, <3>2 DEF LocalsTyped
    <3>4. i \in next'[p]..ChunkCount[doc'[p].text]
      BY <2>2, <2>5, <3>2, <3>3
    <3> QED BY <1>8, <2>5, <3>2, <3>3, <3>4
  <2> QED BY <1>7, <2>1, <2>3, <2>4, <2>5
<1>14. CASE FinishProcessing(p)
  BY <1>7, <1>14 DEF FinishProcessing
<1>15. CASE Retry(p)
  <2>1. pc[p] = "retry" /\ pc'[p] = "read" /\ at'[p] = 1
    BY <1>4, <1>5, <1>9, <1>15, Outlets DEF Retry, Goto, ProcessorOK, locals
  <2>2. 1 < j \/ 1 = j
    BY <1>5
  <2> QED BY <1>8, <2>1, <2>2
<1>16. CASE TriggerRun(p)
  BY <1>7, <1>16 DEF TriggerRun, Goto
<1>17. CASE Kill(p)
  <2>1. pc'[p] \in {"idle", "retry"} /\ (pc'[p] = "idle" => Outlet(p) \in failed')
    BY <1>4, <1>17, TypeParts, FailEffect DEF Kill, PipelineInv
  <2> QED BY <1>8, <2>1, Outlets
<1> QED
  BY <1>4, <1>11, <1>12, <1>13, <1>14, <1>15, <1>16, <1>17
     DEF TaskStep, Proceed, Process, ReadChunks, ReadRaises, OpenAnalysis, WriteAnalysis,
         PublishReport

\* Whoever writes k, a step of any task leaves k awaited.
LEMMA AwaitedStep ==
  ASSUME PipelineInv, NEW t \in Tasks, TaskStep(t), NEW k, IsCurrent(k), Awaited(k)
  PROVE  Awaited(k)'
<1>1. Frame(t)
  BY TaskStepFrame
<1>2. /\ failed \subseteq failed' /\ (pending \subseteq pending' \/ TriggerRun(t))
      /\ (t \in Collectors \cup Processors /\ pc'[t] = "idle" => Outlet(t) \in pending' \cup failed')
      /\ \A u \in Tasks \ {t} : pc'[u] = pc[u]
  BY <1>1 DEF Frame, AirflowKept, OthersKept
<1>3. k[1] \in Regulators
  BY DEF IsCurrent
<1>4. CASE Whole(k)
  <2>1. CASE UNCHANGED <<chunks, torn>>
    BY <1>4, <2>1 DEF Awaited, Whole
  <2>2. CASE t \in Processors /\ k # Key(t)
    <3>1. k \in Elements(chunks') /\ k \notin torn'
      BY <1>1, <1>4, <2>2 DEF Frame, ChunksKept, Whole
    <3> QED BY <3>1 DEF Awaited, Whole
  <2>3. CASE OpenChunk(t) /\ t \in Processors /\ k = Key(t)
    <3>1. /\ at[t] \in DOMAIN RegulatorSeq /\ next[t] \in 1..ChunkCount[doc[t].text]
          /\ ChunkCount[doc[t].text] \in Nat
      BY <2>3, KeyTyped DEF OpenChunk, Goto
    <3>2. UNCHANGED <<at, doc, next>> /\ pc'[t] = "write"
      BY <2>3 DEF OpenChunk, Goto, locals, PipelineInv, TypeOK
    <3>3. k[1] = RegulatorSeq[at[t]] /\ k[2] = doc[t].n /\ k[3] = next[t]
      BY <2>3 DEF Key, Regulator
    <3>4. WillWrite(t, k)'
      BY <3>1, <3>2, <3>3 DEF WillWrite
    <3> QED BY <2>3, <3>4 DEF Awaited
  <2>4. CASE WriteChunk(t) /\ t \in Processors /\ k = Key(t)
    <3>1. k \in Elements(chunks') /\ k \notin torn'
      <4>1. chunks \in Seq(Keys) /\ k \in Keys
        BY <2>4, KeyTyped DEF WriteChunk
      <4> QED BY <2>4, <4>1, TouchElements DEF WriteChunk
    <3> QED BY <3>1 DEF Awaited, Whole
  <2>5. UNCHANGED <<chunks, torn>> \/ (t \in Processors /\ (OpenChunk(t) \/ WriteChunk(t)))
    <3>1. CASE t \in Collectors /\ (Collect(t) \/ Hourly(t) \/ CollectError(t))
      BY <3>1 DEF Collect, Fetch, FindUnchanged, FindChanged, OpenRaw, WriteRaw, StoreHash,
         Hourly, CollectError, files
    <3>2. CASE t \in Processors /\ (ReadNewest(t) \/ FinishProcessing(t))
      BY <3>2 DEF ReadNewest, FinishProcessing, files
    <3>3. CASE Upsert(t) \/ ReadChunks(t) \/ ReadRaises(t)
      BY <3>3 DEF Upsert, ReadChunks, ReadRaises, files
    <3>4. CASE OpenAnalysis(t) \/ WriteAnalysis(t) \/ PublishReport(t)
      BY <3>4 DEF OpenAnalysis, WriteAnalysis, PublishReport, files
    <3>5. CASE TriggerRun(t) \/ Retry(t) \/ Kill(t)
      BY <3>5 DEF TriggerRun, Retry, Kill, files
    <3> QED BY <3>1, <3>2, <3>3, <3>4, <3>5 DEF TaskStep, Proceed, Process
  <2> QED BY <2>1, <2>2, <2>3, <2>4, <2>5
<1>5. CASE "raw_documents" \in failed \/ "chunks" \in failed
  BY <1>2, <1>5 DEF Awaited
<1>6. CASE "raw_documents" \in pending
  <2>1. CASE pending \subseteq pending'
    BY <1>6, <2>1 DEF Awaited
  <2>2. CASE TriggerRun(t) /\ t \in Processors
    <3>1. pc'[t] = "read" /\ at'[t] = 1
      <4>1. at[t] = 1 /\ at' = at /\ pc'[t] = "read"
        BY <2>2, TriggerRunStep DEF TriggerRun, Goto, PipelineInv, ProcessorOK, locals
      <4> QED BY <4>1
    <3>2. PICK j \in DOMAIN RegulatorSeq : RegulatorSeq[j] = k[1]
      BY <1>3 DEF Regulators
    <3>3. 1 < j \/ 1 = j
      BY PipelineAssumption
    <3>4. WillWrite(t, k)'
      BY <3>1, <3>2, <3>3 DEF WillWrite
    <3> QED BY <2>2, <3>4 DEF Awaited
  <2>3. CASE TriggerRun(t) /\ t \notin Processors
    <3>1. Schedule(t) # "raw_documents"
      BY <2>3, Outlets DEF TriggerRun, Tasks
    <3> QED BY <1>6, <2>3, <3>1 DEF TriggerRun, Awaited
  <2> QED BY <1>2, <2>1, <2>2, <2>3
<1>7. CASE Collecting(k[1])
  <2>1. PICK c \in Collectors : RegulatorOf[c] = k[1] /\ pc[c] # "idle"
    BY <1>7 DEF Collecting
  <2>2. CASE c # t
    <3>1. Collecting(k[1])'
      BY <1>2, <2>1, <2>2, TaskSets DEF Collecting
    <3> QED BY <3>1 DEF Awaited
  <2>3. CASE c = t /\ pc'[c] # "idle"
    <3>1. Collecting(k[1])'
      BY <2>1, <2>3 DEF Collecting
    <3> QED BY <3>1 DEF Awaited
  <2>4. CASE c = t /\ pc'[c] = "idle"
    BY <1>2, <2>4, Outlets DEF Awaited
  <2> QED BY <2>2, <2>3, <2>4
<1>8. CASE \E p \in Processors : WillWrite(p, k)
  <2>1. PICK p \in Processors : WillWrite(p, k)
    BY <1>8
  <2>2. CASE p = t
    BY <2>1, <2>2, ProcessorGoesOn DEF Awaited
  <2>3. CASE p # t
    <3>1. pc'[p] = pc[p] /\ at'[p] = at[p] /\ doc'[p] = doc[p] /\ next'[p] = next[p]
      BY <1>1, <2>3, TaskSets DEF Frame, OthersKept
    <3>2. WillWrite(p, k)'
      BY <2>1, <3>1 DEF WillWrite
    <3> QED BY <3>2 DEF Awaited
  <2> QED BY <2>2, <2>3
<1> QED BY <1>4, <1>5, <1>6, <1>7, <1>8 DEF Awaited

LEMMA StrandedStep ==
  PipelineInv /\ NoStrandedDocument /\ [Next]_vars => NoStrandedDocument'
<1> SUFFICES ASSUME PipelineInv, NoStrandedDocument, [Next]_vars PROVE NoStrandedDocument'
  OBVIOUS
<1>1. CASE UNCHANGED <<raw, chunks, torn, pending, failed, pc, at, doc, next>>
  BY <1>1 DEF NoStrandedDocument, Whole, Collecting, WillWrite
<1>2. ASSUME NEW t \in Tasks, TaskStep(t) PROVE NoStrandedDocument'
  <2>1. Frame(t)
    BY <1>2, TaskStepFrame
  <2> SUFFICES ASSUME NEW r \in Regulators, raw'[r] # <<>>,
                      NEW i \in 1..ChunkCount[Last(raw'[r]).text],
                      NEW k, k = <<r, Last(raw'[r]).n, i>>
               PROVE  Awaited(k)'
    BY DEF NoStrandedDocument, Awaited
  <2>2. CASE raw'[r] # raw[r]
    <3>1. t \in Collectors /\ RegulatorOf[t] = r /\ pc'[t] # "idle"
      BY <2>1, <2>2 DEF Frame, RawKept
    <3>2. Collecting(k[1])'
      BY <3>1 DEF Collecting
    <3> QED BY <3>2 DEF Awaited
  <2>3. CASE raw'[r] = raw[r]
    <3>1. IsCurrent(k)
      BY <2>3 DEF IsCurrent
    <3>2. Awaited(k)
      BY <3>1, StrandedAwaited
    <3> QED BY <1>2, <3>1, <3>2, AwaitedStep
  <2> QED BY <2>2, <2>3
<1>3. CASE UNCHANGED vars
  BY <1>1, <1>3 DEF vars, files, airflow, locals
<1>4. ASSUME NEW r \in Regulators, Publish(r) PROVE NoStrandedDocument'
  BY <1>1, <1>4 DEF Publish, files, airflow, locals
<1> QED BY <1>2, <1>3, <1>4, NextCases

\* A document that is collected is processed, will be, or a task was given up:
\* the update of a dataset is used up when a run starts (dag_02), and yet no
\* order of collectors, runs, retries and kills leaves a chunk to nobody.
THEOREM NoStrandedDocumentHolds == Spec => []NoStrandedDocument
<1>1. Init => NoStrandedDocument
  BY DEF Init, NoStrandedDocument
<1>2. PipelineInv /\ NoStrandedDocument /\ [Next]_vars => NoStrandedDocument'
  BY StrandedStep
<1> QED BY <1>1, <1>2, Invariance, PTL DEF Spec

-----------------------------------------------------------------------------
(* From processing to embedding.                                           *)

\* Chunk file k is stored, or somebody will store it, or a task was given up.
WillBeStored(k) ==
  \/ k \in store
  \/ "chunks" \in pending \cup failed \/ "embeddings" \in failed
  \/ \E p \in Processors : pc[p] # "idle"
  \/ \E e \in Embedders : pc[e] \in {"read", "retry"} \/ k \in batch[e]

\* An embedder's own step brings chunk file k nearer to the store.
LEMMA EmbedderGoesOn ==
  ASSUME PipelineInv, NEW e \in Embedders, TaskStep(e), NEW k \in Elements(chunks),
         pc[e] \in {"read", "retry"} \/ k \in batch[e]
  PROVE  WillBeStored(k)'
<1>1. e \in Tasks /\ e \notin Collectors /\ e \notin Processors /\ e \notin Analysts
      /\ e \notin Reporters /\ e \in Embedders \cup Analysts
  BY TaskSets
<1>2. pc \in [Tasks -> PCs] /\ batch \in [Embedders \cup Analysts -> SUBSET Keys]
  BY DEF PipelineInv, TypeOK
<1>3. CASE Upsert(e)
  BY <1>3 DEF Upsert, WillBeStored
<1>4. CASE ReadChunks(e)
  <2>1. batch'[e] = Elements(chunks)
    BY <1>1, <1>2, <1>4 DEF ReadChunks, Wanted
  <2> QED BY <2>1 DEF WillBeStored
<1>5. CASE ReadRaises(e) \/ Kill(e)
  <2>1. pc'[e] \in {"idle", "retry"} /\ (pc'[e] = "idle" => Outlet(e) \in failed')
    BY <1>1, <1>5, TypeParts, FailEffect DEF ReadRaises, Kill, PipelineInv
  <2> QED BY <2>1, Outlets DEF WillBeStored
<1>6. CASE TriggerRun(e)
  BY <1>1, <1>6, TriggerRunStep DEF WillBeStored
<1>7. CASE Retry(e)
  <2>1. pc'[e] = "read"
    BY <1>1, <1>2, <1>7 DEF Retry, Goto, Start
  <2> QED BY <2>1 DEF WillBeStored
<1> QED
  BY <1>1, <1>3, <1>4, <1>5, <1>6, <1>7
     DEF TaskStep, Proceed, OpenAnalysis, WriteAnalysis, PublishReport

LEMMA WillBeStoredStep ==
  ASSUME PipelineInv, NEW t \in Tasks, TaskStep(t), NEW k \in Elements(chunks), WillBeStored(k)
  PROVE  WillBeStored(k)'
<1>1. Frame(t)
  BY TaskStepFrame
<1>2. /\ failed \subseteq failed' /\ (pending \subseteq pending' \/ TriggerRun(t))
      /\ (t \in Collectors \cup Processors /\ pc'[t] = "idle" => Outlet(t) \in pending' \cup failed')
      /\ \A u \in Tasks \ {t} : pc'[u] = pc[u]
      /\ store \subseteq store'
      /\ \A e \in (Embedders \cup Analysts) \ {t} : batch'[e] = batch[e]
  BY <1>1 DEF Frame, AirflowKept, OthersKept
<1>3. CASE k \in store \/ "chunks" \in failed \/ "embeddings" \in failed
  BY <1>2, <1>3 DEF WillBeStored
<1>4. CASE "chunks" \in pending
  <2>1. CASE TriggerRun(t) /\ t \in Embedders
    BY <2>1, TriggerRunStep DEF WillBeStored
  <2>2. CASE TriggerRun(t) /\ t \notin Embedders
    <3>1. Schedule(t) # "chunks"
      BY <2>2, Outlets DEF TriggerRun, Tasks
    <3> QED BY <1>4, <2>2, <3>1 DEF TriggerRun, WillBeStored
  <2> QED BY <1>2, <1>4, <2>1, <2>2 DEF WillBeStored
<1>5. CASE \E p \in Processors : pc[p] # "idle"
  <2>1. PICK p \in Processors : pc[p] # "idle"
    BY <1>5
  <2>2. CASE p = t /\ pc'[t] = "idle"
    BY <1>2, <2>2, Outlets DEF WillBeStored
  <2>3. CASE pc'[p] # "idle"
    BY <2>3 DEF WillBeStored
  <2> QED BY <1>2, <2>1, <2>2, <2>3, TaskSets
<1>6. CASE \E e \in Embedders : pc[e] \in {"read", "retry"} \/ k \in batch[e]
  <2>1. PICK e \in Embedders : pc[e] \in {"read", "retry"} \/ k \in batch[e]
    BY <1>6
  <2>2. CASE e = t
    BY <2>1, <2>2, EmbedderGoesOn
  <2>3. CASE e # t
    BY <1>2, <2>1, <2>3, TaskSets DEF WillBeStored
  <2> QED BY <2>2, <2>3
<1> QED BY <1>3, <1>4, <1>5, <1>6 DEF WillBeStored

LEMMA ChunkStep == PipelineInv /\ NoStrandedChunk /\ [Next]_vars => NoStrandedChunk'
<1> SUFFICES ASSUME PipelineInv, NoStrandedChunk, [Next]_vars PROVE NoStrandedChunk'
  OBVIOUS
<1>1. CASE UNCHANGED <<chunks, torn, store, pending, failed, pc, batch>>
  <2>1. Elements(chunks') = Elements(chunks)
    BY <1>1
  <2> QED BY <1>1, <2>1 DEF NoStrandedChunk
<1>2. ASSUME NEW t \in Tasks, TaskStep(t) PROVE NoStrandedChunk'
  <2>1. Frame(t)
    BY <1>2, TaskStepFrame
  <2> SUFFICES ASSUME NEW k \in Elements(chunks'), k \notin torn'
               PROVE  WillBeStored(k)'
    BY DEF NoStrandedChunk, WillBeStored
  <2>2. CASE k \in Elements(chunks) /\ k \notin torn
    BY <1>2, <2>2, WillBeStoredStep DEF NoStrandedChunk, WillBeStored
  <2>3. CASE k \notin Elements(chunks) \/ k \in torn
    <3>1. t \in Processors /\ pc'[t] # "idle"
      BY <2>1, <2>3 DEF Frame, ChunksKept
    <3> QED BY <3>1 DEF WillBeStored
  <2> QED BY <2>2, <2>3
<1>3. CASE UNCHANGED vars
  BY <1>1, <1>3 DEF vars, files, results, airflow, locals
<1>4. ASSUME NEW r \in Regulators, Publish(r) PROVE NoStrandedChunk'
  BY <1>1, <1>4 DEF Publish, files, results, airflow, locals
<1> QED BY <1>2, <1>3, <1>4, NextCases

\* A chunk file that is whole reaches the vector store (dag_03), or a task was
\* given up: no run reads too early for good.
THEOREM NoStrandedChunkHolds == Spec => []NoStrandedChunk
<1>1. Init => NoStrandedChunk
  BY DEF Init, NoStrandedChunk, Elements
<1>2. PipelineInv /\ NoStrandedChunk /\ [Next]_vars => NoStrandedChunk'
  BY ChunkStep
<1> QED BY <1>1, <1>2, Invariance, PTL DEF Spec

-----------------------------------------------------------------------------
(* The summary, when one analysis runs at a time.                           *)

\* Only a step of an analyst touches the summary, and what is failed stays so.
LEMMA SummaryFrame ==
  ASSUME PipelineInv, NEW t \in Tasks, TaskStep(t), t \notin Analysts
  PROVE  analysis' = analysis /\ failed \subseteq failed' /\ \A a \in Analysts : pc'[a] = pc[a]
<1>1. failed \subseteq failed' /\ \A u \in Tasks \ {t} : pc'[u] = pc[u]
  BY TaskStepFrame DEF Frame, AirflowKept, OthersKept
<1>2. analysis' = analysis
  BY DEF TaskStep, Proceed, Collect, Process, Hourly, CollectError, Kill, Fetch, FindUnchanged,
         FindChanged, OpenRaw, WriteRaw, StoreHash, ReadNewest, OpenChunk, WriteChunk,
         FinishProcessing, Upsert, ReadChunks, ReadRaises, OpenAnalysis, WriteAnalysis,
         PublishReport, TriggerRun, Retry, results
<1> QED BY <1>1, <1>2 DEF Tasks

\* The one analyst leaves the summary whole, or goes on, or has given up.
LEMMA AnalystGoesOn ==
  ASSUME SummaryInv, NEW a \in Analysts, TaskStep(a), Analysts = {a}
  PROVE  /\ analysis' = Torn => "compliance_results" \in failed' \/ pc'[a] # "idle"
         /\ pc'[a] = "write" => analysis' = Torn
<1>1. /\ a \in Tasks /\ a \notin Collectors /\ a \notin Processors /\ a \notin Embedders
      /\ a \notin Reporters
  BY TaskSets
<1>2. /\ PipelineInv /\ pc \in [Tasks -> PCs]
      /\ batch \in [Embedders \cup Analysts -> SUBSET Keys]
      /\ analysis = Torn => "compliance_results" \in failed \/ pc[a] # "idle"
      /\ pc[a] = "write" => analysis = Torn
  BY DEF SummaryInv, SummaryRepaired, PipelineInv, TypeOK
<1>3. Summary(batch[a]) # Torn
  BY DEF Summary, Torn
<1>4. CASE OpenAnalysis(a)
  BY <1>1, <1>2, <1>4 DEF OpenAnalysis, Goto
<1>5. CASE WriteAnalysis(a)
  BY <1>1, <1>2, <1>3, <1>5 DEF WriteAnalysis, Succeed
<1>6. CASE ReadRaises(a) \/ Kill(a)
  <2>1. pc'[a] \in {"idle", "retry"} /\ (pc'[a] = "idle" => Outlet(a) \in failed')
    BY <1>1, <1>2, <1>6, TypeParts, FailEffect DEF ReadRaises, Kill, PipelineInv
  <2> QED BY <2>1, Outlets
<1>7. CASE ReadChunks(a)
  BY <1>1, <1>2, <1>7 DEF ReadChunks, Goto
<1>8. CASE TriggerRun(a) \/ Retry(a)
  BY <1>1, <1>2, <1>8 DEF TriggerRun, Retry, Goto, Start
<1> QED
  BY <1>1, <1>4, <1>5, <1>6, <1>7, <1>8 DEF TaskStep, Proceed, PublishReport

LEMMA SummaryStep == SummaryInv /\ [Next]_vars => SummaryInv'
<1> SUFFICES ASSUME SummaryInv, [Next]_vars PROVE SummaryInv'
  OBVIOUS
<1>1. PipelineInv /\ PipelineInv'
  BY InvStep DEF SummaryInv
<1>2. CASE UNCHANGED <<analysis, failed, pc>>
  BY <1>1, <1>2 DEF SummaryInv, SummaryRepaired
<1>3. ASSUME NEW t \in Tasks, TaskStep(t), t \in Analysts PROVE SummaryInv'
  BY <1>1, <1>3, AnalystGoesOn DEF SummaryInv, SummaryRepaired
<1>4. ASSUME NEW t \in Tasks, TaskStep(t), t \notin Analysts PROVE SummaryInv'
  BY <1>1, <1>4, SummaryFrame DEF SummaryInv, SummaryRepaired
<1>5. CASE UNCHANGED vars
  BY <1>2, <1>5 DEF vars, results, airflow
<1>6. ASSUME NEW r \in Regulators, Publish(r) PROVE SummaryInv'
  BY <1>2, <1>6 DEF Publish, results, airflow
<1> QED BY <1>3, <1>4, <1>5, <1>6, NextCases

\* run_compliance_analysis: as long as one analysis runs at a time, a summary
\* that it left empty where it was killed is written by its retry, or the task
\* is reported as failed.
THEOREM SummaryRepairedHolds == Spec => []SummaryRepaired
<1>1. Init => SummaryInv
  BY InvStart, PipelineAssumption DEF Init, SummaryInv, SummaryRepaired, Tasks
<1>2. SummaryInv => SummaryRepaired
  BY DEF SummaryInv
<1> QED BY <1>1, <1>2, SummaryStep, PTL DEF Spec

=============================================================================

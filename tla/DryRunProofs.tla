---------------------------- MODULE DryRunProofs ----------------------------
(***************************************************************************)
(* DryRunInv is an invariant of DryRun, and with it the properties it       *)
(* contains, for any number of runs, regulators, texts and kills.  On it    *)
(* rest CountersInv, about the counters and their file, and CurrentInv,     *)
(* about what a run that nobody overlaps makes of the texts it collected.   *)
(***************************************************************************)
EXTENDS DryRun, FiniteSums, SequenceTheorems, TLAPS

USE DryRunAssumption DEF Runs

LEMMA RegulatorTyped ==
  ASSUME TypeOK, NEW r \in Runs
  PROVE  Regulator(r) \in Regulators
BY DEF TypeOK, Regulator, Regulators, Range

(***************************************************************************)
(* What a step of r leaves to the other runs.                               *)
(***************************************************************************)
Frame(r) ==
  /\ \A s \in Runs \ {r} : pc'[s] = pc[s] /\ at'[s] = at[s] /\ doc'[s] = doc[s]
  /\ \A g \in Regulators : \A i \in DOMAIN raw[g] :
       /\ i \in DOMAIN raw'[g] /\ raw'[g][i] = raw[g][i]
       /\ <<g, i>> \in rawTorn' => <<g, i>> \in rawTorn
  /\ lineage \subseteq lineage'
  /\ ChunkFiles \subseteq ChunkFiles'

LEMMA FrameKeepsStanding ==
  ASSUME TypeOK, NEW r \in Runs, Frame(r), NEW s \in Runs, s # r, Standing(s)
  PROVE  Standing(s)'
<1>1. Regulator(s) \in Regulators /\ Regulator(s)' = Regulator(s)
  BY RegulatorTyped DEF Frame, Regulator
<1>2. pc'[s] = pc[s] /\ doc'[s] = doc[s]
  BY DEF Frame
<1>3. KeysOf(Regulator(s), doc[s].no, doc[s].done)' = KeysOf(Regulator(s), doc[s].no, doc[s].done)
  BY <1>1, <1>2 DEF KeysOf, Key
<1> QED
  BY <1>1, <1>2, <1>3 DEF Standing, Frame

-----------------------------------------------------------------------------

Logged == \A k \in ChunkFiles : <<"parsed", k.regulator, k.no, 0>> \in lineage
NewestExists == \A g \in Regulators : raw[g] # <<>> => newest[g] \in DOMAIN raw[g]

FileInv == Logged /\ LineageOrder /\ NewestExists /\ HashedIsRaw

LEMMA InvParts ==
  DryRunInv <=> TypeOK /\ (\A r \in Runs : Standing(r)) /\ FileInv /\ Undisturbed
BY DEF DryRunInv, FileInv, Logged, NewestExists

\* What has to be shown of a step of r.
StepOK(r) == TypeOK' /\ Frame(r) /\ Standing(r)' /\ FileInv' /\ Undisturbed'

LEMMA StepKeepsInv ==
  ASSUME DryRunInv, NEW r \in Runs, StepOK(r)
  PROVE  DryRunInv'
<1>1. \A s \in Runs : Standing(s)'
  BY FrameKeepsStanding, InvParts DEF StepOK
<1> QED
  BY <1>1 DEF StepOK, DryRunInv, FileInv, Logged, NewestExists

Docs == [no : Nat, text : Texts \cup {0}, pieces : Nat, done : Nat]

\* What a step of r does to the variables of the runs.
RunStep(r) ==
  /\ pc' \in [Runs -> Stages] /\ at' \in [Runs -> DOMAIN RegulatorSeq] /\ doc' \in [Runs -> Docs]
  /\ got' \in [Runs -> SUBSET ChunkFiles'] /\ DOMAIN mem' = Runs
  /\ \A s \in Runs \ {r} : pc'[s] = pc[s] /\ at'[s] = at[s] /\ doc'[s] = doc[s]

(***************************************************************************)
(* A step between two places where no file is open, and that touches none. *)
(***************************************************************************)
Inside(r) ==
  /\ pc[r] \notin {"idle", "chunking", "summarising"}
  /\ pc'[r] \notin {"chunking", "summarising"}
  /\ UNCHANGED <<torn, summary, kills, overlapped, aborted>>

LEMMA InsideKeepsUndisturbed ==
  ASSUME DryRunInv, NEW r \in Runs, RunStep(r), Inside(r)
  PROVE  Undisturbed'
<1>1. \A s \in Runs \ {r} : pc'[s] = pc[s] /\ NextChunk(s)' = NextChunk(s)
  BY DEF RunStep, NextChunk, Regulator, Key
<1>2. \A s \in Runs : pc'[s] = "chunking" \/ pc[s] = "chunking" =>
        s # r /\ pc'[s] = pc[s] /\ NextChunk(s)' = NextChunk(s)
  BY <1>1 DEF Inside
<1>3. \A s \in Runs : pc'[s] = "summarising" <=> pc[s] = "summarising"
  BY <1>1 DEF Inside
<1>4. \A s \in Runs : pc'[s] # "idle" => pc[s] # "idle"
  BY <1>1 DEF Inside
<1> SUFFICES ASSUME kills = 0, ~ overlapped
             PROVE  /\ \A p, s \in Runs : pc'[p] # "idle" /\ pc'[s] # "idle" => p = s
                    /\ \A k \in torn : \E s \in Runs : pc'[s] = "chunking" /\ k = NextChunk(s)'
                    /\ ~ summary.whole <=> \E s \in Runs : pc'[s] = "summarising"
                    /\ ~ aborted
  BY DEF Undisturbed, Inside
<1>5. /\ \A p, s \in Runs : pc[p] # "idle" /\ pc[s] # "idle" => p = s
      /\ \A k \in torn : \E s \in Runs : pc[s] = "chunking" /\ k = NextChunk(s)
      /\ ~ summary.whole <=> \E s \in Runs : pc[s] = "summarising"
      /\ ~ aborted
  BY DEF DryRunInv, Undisturbed
<1>6. \A k \in torn : \E s \in Runs : pc'[s] = "chunking" /\ k = NextChunk(s)'
  BY <1>2, <1>5
<1> QED
  BY <1>3, <1>4, <1>5, <1>6

LEMMA QuietStep ==
  ASSUME DryRunInv, NEW r \in Runs, RunStep(r), Inside(r), Standing(r)',
         UNCHANGED <<site, hash, raw, newest, rawTorn, chunks, lineage>>
  PROVE  StepOK(r)
<1>1. TypeOK'
  BY DEF DryRunInv, TypeOK, RunStep, Inside, Docs, ChunkFiles
<1>2. Frame(r)
  BY DEF Frame, RunStep, Inside, ChunkFiles
<1>3. FileInv'
  BY InvParts DEF FileInv, Logged, LineageOrder, NewestExists, HashedIsRaw, Inside, ChunkFiles,
                  KeysOf, Key
<1> QED
  BY <1>1, <1>2, <1>3, InsideKeepsUndisturbed DEF StepOK

(***************************************************************************)
(* The loops over the regulators.                                           *)
(***************************************************************************)
LEMMA RegulatorSeqLen ==
  Len(RegulatorSeq) \in Nat \ {0} /\ DOMAIN RegulatorSeq = 1..Len(RegulatorSeq)
BY EmptySeq, LenProperties

LEMMA NoDocTyped == NoDoc \in Docs
BY DEF NoDoc, Docs

LEMMA NextRegulatorStep ==
  ASSUME TypeOK, NEW r \in Runs, NEW l \in Stages, NEW d \in Stages, NextRegulator(r, l, d)
  PROVE  /\ pc' \in [Runs -> Stages] /\ pc'[r] \in {l, d}
         /\ at' \in [Runs -> DOMAIN RegulatorSeq]
         /\ doc' \in [Runs -> Docs]
         /\ \A s \in Runs \ {r} : pc'[s] = pc[s] /\ at'[s] = at[s] /\ doc'[s] = doc[s]
<1>1. doc' \in [Runs -> Docs] /\ \A s \in Runs \ {r} : doc'[s] = doc[s]
  BY NoDocTyped DEF TypeOK, NextRegulator, Docs
<1>2. at[r] \in 1..Len(RegulatorSeq)
  BY RegulatorSeqLen DEF TypeOK
<1>3. CASE at[r] < Len(RegulatorSeq)
  <2>1. at[r] + 1 \in DOMAIN RegulatorSeq
    BY <1>2, <1>3, RegulatorSeqLen
  <2>2. at' = [at EXCEPT ![r] = at[r] + 1] /\ pc' = [pc EXCEPT ![r] = l]
    BY <1>3 DEF NextRegulator, Goto
  <2> QED
    BY <1>1, <2>1, <2>2 DEF TypeOK
<1>4. CASE ~ (at[r] < Len(RegulatorSeq))
  <2>1. 1 \in DOMAIN RegulatorSeq
    BY RegulatorSeqLen
  <2>2. at' = [at EXCEPT ![r] = 1] /\ pc' = [pc EXCEPT ![r] = d]
    BY <1>4 DEF NextRegulator, Goto
  <2> QED
    BY <1>1, <2>1, <2>2 DEF TypeOK
<1> QED
  BY <1>3, <1>4

LEMMA ExitStep ==
  ASSUME TypeOK, NEW r \in Runs, Exit(r), ChunkFiles' = ChunkFiles
  PROVE  RunStep(r) /\ pc'[r] = "idle"
<1>1. 1 \in DOMAIN RegulatorSeq
  BY RegulatorSeqLen
<1> QED
  BY <1>1, NoDocTyped DEF TypeOK, Exit, Goto, RunStep, Stages, Docs

-----------------------------------------------------------------------------
LEMMA FetchStep ==
  ASSUME DryRunInv, NEW r \in Runs, Fetch(r)
  PROVE  StepOK(r)
<1>1. RunStep(r)
  BY RegulatorTyped DEF DryRunInv, TypeOK, RunStep, Fetch, At, Goto, NoDoc, Docs, Stages,
     ChunkFiles, fileVars, rawVars, chunkVars, resultVars, historyVars, metricsVars
<1>2. Inside(r) /\ UNCHANGED <<site, hash, raw, newest, rawTorn, chunks, lineage>>
    BY DEF DryRunInv, TypeOK, Inside, Fetch, At, Goto, Stages, fileVars, rawVars, chunkVars,
     resultVars, historyVars, metricsVars
<1>3. Standing(r)'
  BY RegulatorTyped DEF DryRunInv, TypeOK, Standing, Fetch, At, Goto, Regulator, NoDoc, Stages,
     fileVars, rawVars, chunkVars, resultVars, historyVars, metricsVars
<1> QED
  BY <1>1, <1>2, <1>3, QuietStep

LEMMA FetchFailsStep ==
  ASSUME DryRunInv, NEW r \in Runs, FetchFails(r)
  PROVE  StepOK(r)
<1> NextRegulator(r, "fetch", "parse") /\ "fetch" \in Stages /\ "parse" \in Stages
  BY DEF FetchFails, Stages
<1>0. /\ pc' \in [Runs -> Stages] /\ pc'[r] \in {"fetch", "parse"}
      /\ at' \in [Runs -> DOMAIN RegulatorSeq] /\ doc' \in [Runs -> Docs]
      /\ \A s \in Runs \ {r} : pc'[s] = pc[s] /\ at'[s] = at[s] /\ doc'[s] = doc[s]
  BY NextRegulatorStep DEF DryRunInv
<1>2. Inside(r) /\ UNCHANGED <<site, hash, raw, newest, rawTorn, chunks, lineage, got, mem>>
    BY <1>0 DEF Inside, FetchFails, At, fileVars, rawVars, chunkVars, resultVars, historyVars,
     metricsVars
<1>1. RunStep(r)
  BY <1>0, <1>2 DEF DryRunInv, TypeOK, RunStep, ChunkFiles, Inside
<1>3. Standing(r)'
  BY <1>0 DEF Standing
<1> QED
  BY <1>1, <1>2, <1>3, QuietStep

LEMMA UnchangedStep ==
  ASSUME DryRunInv, NEW r \in Runs, Unchanged(r)
  PROVE  StepOK(r)
<1> NextRegulator(r, "fetch", "parse") /\ "fetch" \in Stages /\ "parse" \in Stages
  BY DEF Unchanged, Stages
<1>0. /\ pc' \in [Runs -> Stages] /\ pc'[r] \in {"fetch", "parse"}
      /\ at' \in [Runs -> DOMAIN RegulatorSeq] /\ doc' \in [Runs -> Docs]
      /\ \A s \in Runs \ {r} : pc'[s] = pc[s] /\ at'[s] = at[s] /\ doc'[s] = doc[s]
  BY NextRegulatorStep DEF DryRunInv
<1>2. Inside(r) /\ UNCHANGED <<site, hash, raw, newest, rawTorn, chunks, lineage, got, mem>>
    BY <1>0 DEF Inside, Unchanged, At, fileVars, rawVars, chunkVars, resultVars, historyVars,
     metricsVars
<1>1. RunStep(r)
  BY <1>0, <1>2 DEF DryRunInv, TypeOK, RunStep, ChunkFiles, Inside
<1>3. Standing(r)'
  BY <1>0 DEF Standing
<1> QED
  BY <1>1, <1>2, <1>3, QuietStep

LEMMA SkipEmptyStep ==
  ASSUME DryRunInv, NEW r \in Runs, SkipEmpty(r)
  PROVE  StepOK(r)
<1> NextRegulator(r, "parse", "embed") /\ "parse" \in Stages /\ "embed" \in Stages
  BY DEF SkipEmpty, Stages
<1>0. /\ pc' \in [Runs -> Stages] /\ pc'[r] \in {"parse", "embed"}
      /\ at' \in [Runs -> DOMAIN RegulatorSeq] /\ doc' \in [Runs -> Docs]
      /\ \A s \in Runs \ {r} : pc'[s] = pc[s] /\ at'[s] = at[s] /\ doc'[s] = doc[s]
  BY NextRegulatorStep DEF DryRunInv
<1>2. Inside(r) /\ UNCHANGED <<site, hash, raw, newest, rawTorn, chunks, lineage, got, mem>>
    BY <1>0 DEF Inside, SkipEmpty, At, fileVars, rawVars, chunkVars, resultVars, historyVars,
     metricsVars
<1>1. RunStep(r)
  BY <1>0, <1>2 DEF DryRunInv, TypeOK, RunStep, ChunkFiles, Inside
<1>3. Standing(r)'
  BY <1>0 DEF Standing
<1> QED
  BY <1>1, <1>2, <1>3, QuietStep

LEMMA SavedCountedStep ==
  ASSUME DryRunInv, NEW r \in Runs, SavedCounted(r)
  PROVE  StepOK(r)
<1> NextRegulator(r, "fetch", "parse") /\ "fetch" \in Stages /\ "parse" \in Stages
  BY DEF SavedCounted, Stages
<1>0. /\ pc' \in [Runs -> Stages] /\ pc'[r] \in {"fetch", "parse"}
      /\ at' \in [Runs -> DOMAIN RegulatorSeq] /\ doc' \in [Runs -> Docs]
      /\ \A s \in Runs \ {r} : pc'[s] = pc[s] /\ at'[s] = at[s] /\ doc'[s] = doc[s]
  BY NextRegulatorStep DEF DryRunInv
<1>2. Inside(r) /\ UNCHANGED <<site, hash, raw, newest, rawTorn, chunks, lineage, got, mem>>
    BY <1>0 DEF Inside, SavedCounted, Persist, At, fileVars, rawVars, chunkVars, resultVars,
     historyVars, metricsVars
<1>1. RunStep(r)
  BY <1>0, <1>2 DEF DryRunInv, TypeOK, RunStep, ChunkFiles, Inside
<1>3. Standing(r)'
  BY <1>0 DEF Standing
<1> QED
  BY <1>1, <1>2, <1>3, QuietStep

LEMMA CollectErrorStep ==
  ASSUME DryRunInv, NEW r \in Runs, SaveError(r) \/ CountError(r)
  PROVE  StepOK(r)
<1> NextRegulator(r, "fetch", "parse") /\ "fetch" \in Stages /\ "parse" \in Stages
  BY DEF SaveError, CountError, Stages
<1>0. /\ pc' \in [Runs -> Stages] /\ pc'[r] \in {"fetch", "parse"}
      /\ at' \in [Runs -> DOMAIN RegulatorSeq] /\ doc' \in [Runs -> Docs]
      /\ \A s \in Runs \ {r} : pc'[s] = pc[s] /\ at'[s] = at[s] /\ doc'[s] = doc[s]
  BY NextRegulatorStep DEF DryRunInv
<1>2. /\ Inside(r) /\ UNCHANGED <<site, hash, raw, newest, rawTorn, chunks, lineage, got>>
      /\ DOMAIN mem' = DOMAIN mem
  <2>1. DOMAIN mem' = DOMAIN mem
    BY DEF SaveError, CountError, IncrementRaises, Add, metricsVars
  <2> QED
    BY <1>0, <2>1 DEF Inside, SaveError, CountError, At, fileVars, rawVars, chunkVars, resultVars
<1>1. RunStep(r)
  BY <1>0, <1>2 DEF DryRunInv, TypeOK, RunStep, ChunkFiles, Inside
<1>3. Standing(r)'
  BY <1>0 DEF Standing
<1> QED
  BY <1>1, <1>2, <1>3, QuietStep

LEMMA CountSavedStep ==
  ASSUME DryRunInv, NEW r \in Runs, CountSaved(r)
  PROVE  StepOK(r)
<1>1. RunStep(r)
    BY RegulatorTyped DEF DryRunInv, TypeOK, RunStep, CountSaved, Increment, Add, At, Goto, NoDoc,
     Docs, Stages,
     ChunkFiles, fileVars, rawVars, chunkVars, resultVars, historyVars, metricsVars
<1>2. Inside(r) /\ UNCHANGED <<site, hash, raw, newest, rawTorn, chunks, lineage>>
    BY DEF DryRunInv, TypeOK, Inside, CountSaved, Increment, Add, At, Goto, Stages, fileVars,
     rawVars, chunkVars, resultVars, historyVars, metricsVars
<1>3. Standing(r)'
    BY RegulatorTyped DEF DryRunInv, TypeOK, Standing, CountSaved, Increment, Add, At, Goto,
     Regulator, NoDoc, Stages,
     fileVars, rawVars, chunkVars, resultVars, historyVars, metricsVars
<1> QED
  BY <1>1, <1>2, <1>3, QuietStep

LEMMA LoadCountersStep ==
  ASSUME DryRunInv, NEW r \in Runs, NEW load \in {"load_embedded", "load_analysed"},
         NEW count \in {"count_embedded", "count_analysed"}, NEW skip \in {"analyse", "summary"},
         LoadCounters(r, load, count, skip)
  PROVE  StepOK(r)
<1>1. RunStep(r)
    BY RegulatorTyped DEF DryRunInv, TypeOK, RunStep, LoadCounters, Load, At, Goto, NoDoc, Docs,
     Stages,
     ChunkFiles, fileVars, rawVars, chunkVars, resultVars, historyVars, metricsVars
<1>2. Inside(r) /\ UNCHANGED <<site, hash, raw, newest, rawTorn, chunks, lineage>>
    BY DEF DryRunInv, TypeOK, Inside, LoadCounters, Load, At, Goto, Stages, fileVars, rawVars,
     chunkVars, resultVars, historyVars, metricsVars
<1>3. Standing(r)'
    BY RegulatorTyped DEF DryRunInv, TypeOK, Standing, LoadCounters, Load, At, Goto, Regulator,
     NoDoc, Stages,
     fileVars, rawVars, chunkVars, resultVars, historyVars, metricsVars
<1> QED
  BY <1>1, <1>2, <1>3, QuietStep

LEMMA CountStep ==
  ASSUME DryRunInv, NEW r \in Runs, NEW count \in {"count_embedded", "count_analysed"}, NEW name,
         NEW counting \in {"counting_embedded", "counting_analysed"},
         Count(r, count, name, counting)
  PROVE  StepOK(r)
<1>1. RunStep(r)
  BY RegulatorTyped DEF DryRunInv, TypeOK, RunStep, Count, Increment, Add, At, Goto, NoDoc, Docs,
     Stages, ChunkFiles, fileVars, rawVars, chunkVars, resultVars, historyVars, metricsVars
<1>2. Inside(r) /\ UNCHANGED <<site, hash, raw, newest, rawTorn, chunks, lineage>>
    BY DEF DryRunInv, TypeOK, Inside, Count, Increment, Add, At, Goto, Stages, fileVars, rawVars,
     chunkVars, resultVars, historyVars, metricsVars
<1>3. Standing(r)'
    BY RegulatorTyped DEF DryRunInv, TypeOK, Standing, Count, Increment, Add, At, Goto, Regulator,
     NoDoc, Stages,
     fileVars, rawVars, chunkVars, resultVars, historyVars, metricsVars
<1> QED
  BY <1>1, <1>2, <1>3, QuietStep

LEMMA ReportStep ==
  ASSUME DryRunInv, NEW r \in Runs, Report(r)
  PROVE  StepOK(r)
<1>2. /\ Exit(r) /\ pc[r] = "report" /\ ChunkFiles' = ChunkFiles
      /\ UNCHANGED <<site, hash, raw, newest, rawTorn, chunks, torn, lineage, summary,
                     kills, overlapped, aborted>>
  BY DEF Report, At, ChunkFiles, rawVars, chunkVars, historyVars
<1>1. RunStep(r) /\ pc'[r] = "idle"
  BY <1>2, ExitStep DEF DryRunInv
<1>3. Standing(r)'
  BY <1>1 DEF Standing
<1> QED
  BY <1>1, <1>2, <1>3, QuietStep DEF Inside

-----------------------------------------------------------------------------
(***************************************************************************)
(* Steps that log what was done with chunk files.                           *)
(***************************************************************************)
LEMMA RawKept ==
  ASSUME FileInv, UNCHANGED <<hash, raw, newest, rawTorn>>
  PROVE  NewestExists' /\ HashedIsRaw'
BY DEF FileInv, NewestExists, HashedIsRaw

LEMMA LogKeepsFiles ==
  ASSUME FileInv, UNCHANGED <<chunks, torn>>,
         NEW stage, NEW K \in SUBSET ChunkFiles, lineage' = lineage \cup Events(stage, K)
  PROVE  Logged' /\ LineageOrder'
<1>1. ChunkFiles' = ChunkFiles
  BY DEF ChunkFiles
<1>2. Logged'
  BY <1>1 DEF FileInv, Logged
<1>3. ASSUME NEW e \in lineage'
            PROVE  <<"parsed", e[2], e[3], 0>> \in lineage' /\ KeysOf(e[2], e[3], e[4]) \subseteq
         ChunkFiles
  <2>1. CASE e \in lineage
    BY <2>1 DEF FileInv, LineageOrder
  <2>2. CASE e \in Events(stage, K)
    <3>1. PICK k \in K : e = <<stage, k.regulator, k.no, 0>>
      BY <2>2 DEF Events
    <3>2. KeysOf(e[2], e[3], e[4]) = {}
      BY <3>1 DEF KeysOf
    <3>3. <<"parsed", k.regulator, k.no, 0>> \in lineage
      BY DEF FileInv, Logged
    <3> QED
      BY <3>1, <3>2, <3>3
  <2> QED
    BY <2>1, <2>2
<1>4. LineageOrder'
  BY <1>1, <1>3 DEF LineageOrder, KeysOf, Key
<1> QED
  BY <1>2, <1>4

LEMMA LogStep ==
  ASSUME DryRunInv, NEW r \in Runs, RunStep(r), Inside(r), Standing(r)',
         UNCHANGED <<site, hash, raw, newest, rawTorn, chunks>>,
         NEW stage, NEW K \in SUBSET ChunkFiles, lineage' = lineage \cup Events(stage, K)
  PROVE  StepOK(r)
<1>1. TypeOK'
  BY DEF DryRunInv, TypeOK, RunStep, Inside, Docs, ChunkFiles
<1>2. Frame(r)
  BY DEF Frame, RunStep, Inside, ChunkFiles
<1>3. Logged' /\ LineageOrder' /\ NewestExists' /\ HashedIsRaw'
  BY LogKeepsFiles, RawKept, InvParts DEF Inside
<1> QED
  BY <1>1, <1>2, <1>3, InsideKeepsUndisturbed DEF StepOK, FileInv

LEMMA EmbedStep ==
  ASSUME DryRunInv, NEW r \in Runs, Embed(r)
  PROVE  StepOK(r)
<1>1. RunStep(r)
    BY DEF DryRunInv, TypeOK, RunStep, Embed, ReadFiles, At, Goto, Docs, Stages, ChunkFiles,
     FirstFiles,
     fileVars, rawVars, chunkVars, resultVars, historyVars, metricsVars
<1>2. Inside(r) /\ UNCHANGED <<site, hash, raw, newest, rawTorn, chunks>>
    BY DEF DryRunInv, TypeOK, Inside, Embed, ReadFiles, At, Goto, Stages, fileVars, rawVars,
     chunkVars, resultVars, historyVars, metricsVars
<1>3. Standing(r)'
  BY DEF DryRunInv, TypeOK, Standing, Embed, ReadFiles, At, Goto
<1>4. {} \in SUBSET ChunkFiles
  BY DEF DryRunInv, TypeOK, FirstFiles
<1>5. lineage' = lineage \cup Events("none", {})
  BY DEF Embed, ReadFiles, Events
<1> QED
  BY <1>1, <1>2, <1>3, <1>4, <1>5, LogStep

LEMMA AnalyseStep ==
  ASSUME DryRunInv, NEW r \in Runs, Analyse(r)
  PROVE  StepOK(r)
<1>1. RunStep(r)
    BY DEF DryRunInv, TypeOK, RunStep, Analyse, ReadFiles, At, Goto, Docs, Stages, ChunkFiles,
     FirstFiles,
     fileVars, rawVars, chunkVars, resultVars, historyVars, metricsVars
<1>2. Inside(r) /\ UNCHANGED <<site, hash, raw, newest, rawTorn, chunks>>
    BY DEF DryRunInv, TypeOK, Inside, Analyse, ReadFiles, At, Goto, Stages, fileVars, rawVars,
     chunkVars, resultVars, historyVars, metricsVars
<1>3. Standing(r)'
  BY DEF DryRunInv, TypeOK, Standing, Analyse, ReadFiles, At, Goto
<1>4. FirstFiles \in SUBSET ChunkFiles
  BY DEF DryRunInv, TypeOK, FirstFiles
<1>5. lineage' = lineage \cup Events("compliance", FirstFiles)
  BY DEF Analyse, ReadFiles, Events
<1> QED
  BY <1>1, <1>2, <1>3, <1>4, <1>5, LogStep

LEMMA CountedEmbeddedStep ==
    ASSUME DryRunInv, NEW r \in Runs, Counted(r, "counting_embedded", Events("embedding", got[r]),
     "analyse")
  PROVE  StepOK(r)
<1>1. RunStep(r)
    BY DEF DryRunInv, TypeOK, RunStep, Counted, Persist, At, Goto, Docs, Stages, ChunkFiles,
     FirstFiles,
     fileVars, rawVars, chunkVars, resultVars, historyVars, metricsVars
<1>2. Inside(r) /\ UNCHANGED <<site, hash, raw, newest, rawTorn, chunks>>
    BY DEF DryRunInv, TypeOK, Inside, Counted, Persist, At, Goto, Stages, fileVars, rawVars,
     chunkVars, resultVars, historyVars, metricsVars
<1>3. Standing(r)'
  BY DEF DryRunInv, TypeOK, Standing, Counted, Persist, At, Goto
<1>4. got[r] \in SUBSET ChunkFiles
  BY DEF DryRunInv, TypeOK, FirstFiles
<1>5. lineage' = lineage \cup Events("embedding", got[r])
  BY DEF Counted, Persist, Events
<1> QED
  BY <1>1, <1>2, <1>3, <1>4, <1>5, LogStep

LEMMA CountedObligationsStep ==
  ASSUME DryRunInv, NEW r \in Runs, Counted(r, "counting_analysed", {}, "summary")
  PROVE  StepOK(r)
<1>1. RunStep(r)
    BY DEF DryRunInv, TypeOK, RunStep, Counted, Persist, At, Goto, Docs, Stages, ChunkFiles,
     FirstFiles,
     fileVars, rawVars, chunkVars, resultVars, historyVars, metricsVars
<1>2. Inside(r) /\ UNCHANGED <<site, hash, raw, newest, rawTorn, chunks>>
    BY DEF DryRunInv, TypeOK, Inside, Counted, Persist, At, Goto, Stages, fileVars, rawVars,
     chunkVars, resultVars, historyVars, metricsVars
<1>3. Standing(r)'
  BY DEF DryRunInv, TypeOK, Standing, Counted, Persist, At, Goto
<1>4. {} \in SUBSET ChunkFiles
  BY DEF DryRunInv, TypeOK, FirstFiles
<1>5. lineage' = lineage \cup Events("none", {})
  BY DEF Counted, Persist, Events
<1> QED
  BY <1>1, <1>2, <1>3, <1>4, <1>5, LogStep

-----------------------------------------------------------------------------
(***************************************************************************)
(* Steps on the raw files and their hashes.                                 *)
(***************************************************************************)
LEMMA ChunksKept ==
  ASSUME FileInv, UNCHANGED <<chunks, torn, lineage>>
  PROVE  Logged' /\ LineageOrder'
BY DEF FileInv, Logged, LineageOrder, ChunkFiles, KeysOf, Key

LEMMA OpenRawStep ==
  ASSUME DryRunInv, NEW r \in Runs, OpenRaw(r)
  PROVE  StepOK(r)
<1> DEFINE g == Regulator(r)
           no == Len(raw[g]) + 1
<1>0. TypeOK /\ g \in Regulators /\ raw[g] \in Seq(Texts) /\ doc[r].text \in Texts
  BY RegulatorTyped DEF DryRunInv, TypeOK, Standing, OpenRaw, At
<1>1. /\ pc[r] = "compare" /\ pc' = [pc EXCEPT ![r] = "save"]
      /\ raw' = [raw EXCEPT ![g] = Append(raw[g], doc[r].text)]
      /\ newest' = [newest EXCEPT ![g] = no]
      /\ rawTorn' = rawTorn \cup {<<g, no>>}
      /\ doc' = [doc EXCEPT ![r].no = no]
      /\ UNCHANGED <<site, hash, chunks, torn, summary, report, lineage, at, collected, got,
                     kills, overlapped, aborted, mem>>
  BY DEF OpenRaw, At, Goto, chunkVars, resultVars, historyVars, metricsVars
<1>2. /\ Append(raw[g], doc[r].text) \in Seq(Texts)
      /\ DOMAIN Append(raw[g], doc[r].text) = 1..no
      /\ DOMAIN raw[g] = 1..Len(raw[g]) /\ Len(raw[g]) \in Nat
      /\ \A i \in DOMAIN raw[g] : Append(raw[g], doc[r].text)[i] = raw[g][i]
      /\ Append(raw[g], doc[r].text)[no] = doc[r].text
  BY <1>0
<1>3. raw'[g] = Append(raw[g], doc[r].text) /\ \A h \in Regulators \ {g} : raw'[h] = raw[h]
  BY <1>0, <1>1 DEF TypeOK
<1>12. no \in DOMAIN raw'[g] /\ raw'[g][no] = doc[r].text
  BY <1>2, <1>3
<1>13. \A i \in DOMAIN raw[g] : i \in DOMAIN raw'[g] /\ raw'[g][i] = raw[g][i] /\ i # no
  BY <1>2, <1>3
<1>11. [doc[r] EXCEPT !.no = no] \in Docs
  <2>1. doc[r] \in Docs
    BY <1>0 DEF TypeOK, Docs
  <2>2. no \in Nat
    BY <1>2
  <2> HIDE DEF no
  <2> QED
    BY <2>1, <2>2 DEF Docs
<1>4. RunStep(r) /\ Inside(r)
  BY <1>0, <1>1, <1>11 DEF TypeOK, RunStep, Inside, Stages, Docs, ChunkFiles
<1>5. raw' \in [Regulators -> Seq(Texts)] /\ newest' \in [Regulators -> Nat]
  BY <1>0, <1>1, <1>2 DEF TypeOK
<1>6. TypeOK'
  BY <1>0, <1>1, <1>4, <1>5 DEF TypeOK, RunStep, Docs, ChunkFiles
<1>7. Frame(r)
  BY <1>0, <1>1, <1>2, <1>3, <1>4 DEF Frame, RunStep, ChunkFiles
<1>8. Standing(r)'
  <2>1. Regulator(r)' = g /\ pc'[r] = "save" /\ doc'[r].no = no /\ doc'[r].text = doc[r].text
    BY <1>0, <1>1 DEF Regulator, TypeOK
  <2> QED
    BY <1>12, <2>1 DEF Standing
<1>9. NewestExists'
  <2>1. newest'[g] = no /\ \A h \in Regulators \ {g} : newest'[h] = newest[h]
    BY <1>0, <1>1 DEF TypeOK
  <2> QED
    BY <1>3, <1>12, <2>1, InvParts DEF NewestExists, FileInv
<1>10. HashedIsRaw'
  <2> SUFFICES ASSUME NEW h \in Regulators, hash[h] # 0
               PROVE  \E i \in DOMAIN raw'[h] : raw'[h][i] = hash[h] /\ <<h, i>> \notin rawTorn'
    BY <1>1 DEF HashedIsRaw
  <2>1. PICK i \in DOMAIN raw[h] : raw[h][i] = hash[h] /\ <<h, i>> \notin rawTorn
    BY InvParts DEF HashedIsRaw, FileInv
  <2>2. i \in DOMAIN raw'[h] /\ raw'[h][i] = raw[h][i] /\ <<h, i>> # <<g, no>>
    BY <1>3, <1>13
  <2> QED
    BY <1>1, <2>1, <2>2
<1> QED
  BY <1>1, <1>4, <1>6, <1>7, <1>8, <1>9, <1>10, ChunksKept, InsideKeepsUndisturbed, InvParts
     DEF StepOK, FileInv

LEMMA WriteRawStep ==
  ASSUME DryRunInv, NEW r \in Runs, WriteRaw(r)
  PROVE  StepOK(r)
<1> DEFINE g == Regulator(r)
<1>0. TypeOK /\ g \in Regulators /\ doc[r].no \in DOMAIN raw[g] /\ doc[r].no \in Nat
      /\ raw[g][doc[r].no] = doc[r].text
  BY RegulatorTyped DEF DryRunInv, TypeOK, Standing, WriteRaw, At
<1>1. /\ pc[r] = "save" /\ pc' = [pc EXCEPT ![r] = "hash"]
      /\ newest' = [newest EXCEPT ![g] = doc[r].no]
      /\ rawTorn' = rawTorn \ {<<g, doc[r].no>>}
      /\ UNCHANGED <<site, hash, raw, chunks, torn, summary, report, lineage, at, doc,
                     collected, got,
                     kills, overlapped, aborted, mem>>
  BY DEF WriteRaw, At, Goto, chunkVars, resultVars, historyVars, metricsVars
<1>4. RunStep(r) /\ Inside(r)
  BY <1>0, <1>1 DEF TypeOK, RunStep, Inside, Stages, Docs, ChunkFiles
<1>6. TypeOK'
  BY <1>0, <1>1, <1>4 DEF TypeOK, RunStep, Docs, ChunkFiles
<1>7. Frame(r)
  BY <1>1, <1>4 DEF Frame, RunStep, ChunkFiles
<1>8. Standing(r)'
  BY <1>0, <1>1 DEF Standing, Regulator, TypeOK
<1>9. NewestExists' /\ HashedIsRaw'
  BY <1>0, <1>1, InvParts DEF NewestExists, HashedIsRaw, FileInv, TypeOK
<1> QED
  BY <1>1, <1>4, <1>6, <1>7, <1>8, <1>9, ChunksKept, InsideKeepsUndisturbed, InvParts
     DEF StepOK, FileInv

LEMMA OpenHashStep ==
  ASSUME DryRunInv, NEW r \in Runs, OpenHash(r)
  PROVE  StepOK(r)
<1> DEFINE g == Regulator(r)
<1>0. TypeOK /\ g \in Regulators /\ doc[r].no \in DOMAIN raw[g] /\ <<g, doc[r].no>> \notin rawTorn
      /\ raw[g][doc[r].no] = doc[r].text
  BY RegulatorTyped DEF DryRunInv, TypeOK, Standing, OpenHash, At
<1>2. doc[r].text \in Texts \cup {0}
  BY <1>0 DEF TypeOK
<1>1. /\ pc[r] = "hash" /\ pc' = [pc EXCEPT ![r] = "hashing"]
      /\ hash' = [hash EXCEPT ![g] = 0]
      /\ UNCHANGED <<site, raw, newest, rawTorn, chunks, torn, summary, report, lineage, at, doc,
                     collected, got, kills, overlapped, aborted, mem>>
  BY DEF OpenHash, At, Goto, chunkVars, resultVars, historyVars, metricsVars
<1>4. RunStep(r) /\ Inside(r)
  BY <1>0, <1>1 DEF TypeOK, RunStep, Inside, Stages, Docs, ChunkFiles
<1>6. TypeOK'
  BY <1>0, <1>1, <1>2, <1>4 DEF TypeOK, RunStep, Docs, ChunkFiles
<1>7. Frame(r)
  BY <1>1, <1>4 DEF Frame, RunStep, ChunkFiles
<1>8. Standing(r)'
  BY <1>0, <1>1 DEF Standing, Regulator, TypeOK
<1>9. NewestExists' /\ HashedIsRaw'
  BY <1>0, <1>1, InvParts DEF NewestExists, HashedIsRaw, FileInv, TypeOK
<1> QED
  BY <1>1, <1>4, <1>6, <1>7, <1>8, <1>9, ChunksKept, InsideKeepsUndisturbed, InvParts
     DEF StepOK, FileInv

LEMMA WriteHashStep ==
  ASSUME DryRunInv, NEW r \in Runs, WriteHash(r)
  PROVE  StepOK(r)
<1> DEFINE g == Regulator(r)
<1>0. TypeOK /\ g \in Regulators /\ doc[r].no \in DOMAIN raw[g] /\ <<g, doc[r].no>> \notin rawTorn
      /\ raw[g][doc[r].no] = doc[r].text
  BY RegulatorTyped DEF DryRunInv, TypeOK, Standing, WriteHash, At
<1>2. doc[r].text \in Texts \cup {0}
  BY <1>0 DEF TypeOK
<1>1. /\ pc[r] = "hashing" /\ pc' = [pc EXCEPT ![r] = "count_saved"]
      /\ hash' = [hash EXCEPT ![g] = doc[r].text]
      /\ UNCHANGED <<site, raw, newest, rawTorn, chunks, torn, summary, report, lineage, at, doc,
                     collected, got, kills, overlapped, aborted, mem>>
  BY DEF WriteHash, At, Goto, chunkVars, resultVars, historyVars, metricsVars
<1>4. RunStep(r) /\ Inside(r)
  BY <1>0, <1>1 DEF TypeOK, RunStep, Inside, Stages, Docs, ChunkFiles
<1>6. TypeOK'
  BY <1>0, <1>1, <1>2, <1>4 DEF TypeOK, RunStep, Docs, ChunkFiles
<1>7. Frame(r)
  BY <1>1, <1>4 DEF Frame, RunStep, ChunkFiles
<1>8. Standing(r)'
  BY <1>0, <1>1 DEF Standing, Regulator, TypeOK
<1>9. NewestExists' /\ HashedIsRaw'
  BY <1>0, <1>1, InvParts DEF NewestExists, HashedIsRaw, FileInv, TypeOK
<1> QED
  BY <1>1, <1>4, <1>6, <1>7, <1>8, <1>9, ChunksKept, InsideKeepsUndisturbed, InvParts
     DEF StepOK, FileInv

-----------------------------------------------------------------------------
(***************************************************************************)
(* Steps on the chunk files.                                                *)
(***************************************************************************)
\* Undisturbed, said of a run that is not idle.
LEMMA Alone ==
  ASSUME DryRunInv, NEW r \in Runs, pc[r] # "idle", kills = 0, ~ overlapped
  PROVE  /\ \A s \in Runs \ {r} : pc[s] = "idle"
         /\ pc[r] # "chunking" => torn = {}
         /\ torn \subseteq {NextChunk(r)}
         /\ summary.whole <=> pc[r] # "summarising"
         /\ ~ aborted
BY DEF DryRunInv, Undisturbed, TypeOK

LEMMA ReadNewestStep ==
  ASSUME DryRunInv, NEW r \in Runs, ReadNewest(r)
  PROVE  StepOK(r)
<1> DEFINE g == Regulator(r)
           no == newest[g]
           pieces == IF <<g, no>> \in rawTorn THEN 0 ELSE Pieces[raw[g][no]]
<1>0. TypeOK /\ g \in Regulators
  BY RegulatorTyped DEF DryRunInv
<1>1. /\ pc[r] = "parse" /\ pc' = [pc EXCEPT ![r] = "chunk"] /\ raw[g] # <<>>
      /\ doc' = [doc EXCEPT ![r] = [no |-> no, text |-> raw[g][no], pieces |-> pieces, done |-> 0]]
      /\ lineage' = lineage \cup {<<"parsed", g, no, 0>>}
      /\ UNCHANGED <<site, hash, raw, newest, rawTorn, chunks, torn, summary, report, at,
                     collected, got, kills, overlapped, aborted, mem>>
  BY DEF ReadNewest, Chosen, At, Goto, rawVars, chunkVars, resultVars, historyVars, metricsVars
<1>2. raw[g] \in Seq(Texts) /\ no \in DOMAIN raw[g] /\ no \in Nat
  BY <1>0, <1>1 DEF TypeOK, DryRunInv
<1>3. raw[g][no] \in Texts
  BY <1>2
<1>4. pieces \in Nat
  BY <1>3 DEF Texts
<1>5. [no |-> no, text |-> raw[g][no], pieces |-> pieces, done |-> 0] \in Docs
  BY <1>2, <1>3, <1>4 DEF Docs
<1> HIDE DEF pieces
<1>6. RunStep(r) /\ Inside(r)
  BY <1>0, <1>1, <1>5 DEF TypeOK, RunStep, Inside, Stages, Docs, ChunkFiles
<1>7. TypeOK'
  BY <1>0, <1>1, <1>6 DEF TypeOK, RunStep, Docs, ChunkFiles
<1>8. Frame(r)
  BY <1>1, <1>6 DEF Frame, RunStep, ChunkFiles
<1>9. Standing(r)'
  <2>1. Regulator(r)' = g /\ pc'[r] = "chunk" /\ doc'[r].no = no /\ doc'[r].done = 0
    BY <1>0, <1>1 DEF Regulator, TypeOK
  <2>2. KeysOf(g, no, 0) = {}
    BY DEF KeysOf
  <2> QED
    BY <1>1, <2>1, <2>2 DEF Standing, KeysOf, Key
<1>10. Logged'
  BY <1>1, InvParts DEF Logged, FileInv, ChunkFiles
<1>11. LineageOrder'
  <2>1. KeysOf(g, no, 0) = {}
    BY DEF KeysOf
  <2>2. \A e \in lineage' : /\ <<"parsed", e[2], e[3], 0>> \in lineage'
                            /\ KeysOf(e[2], e[3], e[4]) \subseteq ChunkFiles
    <3> SUFFICES ASSUME NEW e \in lineage'
                 PROVE  /\ <<"parsed", e[2], e[3], 0>> \in lineage'
                        /\ KeysOf(e[2], e[3], e[4]) \subseteq ChunkFiles
      OBVIOUS
    <3>1. CASE e \in lineage
      BY <1>1, <3>1, InvParts DEF LineageOrder, FileInv
    <3>2. CASE e = <<"parsed", g, no, 0>>
      <4>1. e[2] = g /\ e[3] = no /\ e[4] = 0
        BY <3>2
      <4> QED
        BY <1>1, <2>1, <3>2, <4>1
    <3> QED
      BY <1>1, <3>1, <3>2
  <2> QED
    BY <1>1, <2>2 DEF LineageOrder, ChunkFiles, KeysOf, Key
<1> QED
  BY <1>1, <1>6, <1>7, <1>8, <1>9, <1>10, <1>11, RawKept, InsideKeepsUndisturbed, InvParts
     DEF StepOK, FileInv

\* A chunk file more, of a document that is logged as parsed.
LEMMA OneChunkMore ==
  ASSUME FileInv, NEW k, ChunkFiles' = ChunkFiles \cup {k}, UNCHANGED lineage,
         <<"parsed", k.regulator, k.no, 0>> \in lineage
  PROVE  Logged' /\ LineageOrder'
BY DEF FileInv, Logged, LineageOrder, KeysOf, Key

LEMMA OpenChunkStep ==
  ASSUME DryRunInv, NEW r \in Runs, OpenChunk(r)
  PROVE  StepOK(r)
<1> DEFINE k == NextChunk(r)
<1>0. TypeOK
  BY DEF DryRunInv
<1>1. /\ pc[r] = "chunk" /\ pc' = [pc EXCEPT ![r] = "chunking"]
      /\ torn' = torn \cup {k} /\ chunks' = chunks \ {k}
      /\ UNCHANGED <<site, hash, raw, newest, rawTorn, lineage, summary, report, at, doc,
                     collected, got, kills, overlapped, aborted, mem>>
  BY DEF OpenChunk, At, Goto, rawVars, resultVars, historyVars, metricsVars
<1>2. ChunkFiles' = ChunkFiles \cup {k}
  BY <1>1 DEF ChunkFiles
<1>3. RunStep(r) /\ k' = k /\ Regulator(r)' = Regulator(r)
  BY <1>0, <1>1, <1>2 DEF TypeOK, RunStep, Stages, Docs, NextChunk, Key, Regulator
<1>4. TypeOK'
  BY <1>0, <1>1, <1>2, <1>3 DEF TypeOK, RunStep, Docs
<1>5. Frame(r)
  BY <1>1, <1>2, <1>3 DEF Frame, RunStep
<1>6. /\ <<"parsed", Regulator(r), doc[r].no, 0>> \in lineage
      /\ KeysOf(Regulator(r), doc[r].no, doc[r].done) \subseteq ChunkFiles
  BY <1>1 DEF DryRunInv, Standing
<1>7. Standing(r)'
  <2>1. pc'[r] = "chunking" /\ doc'[r] = doc[r]
    BY <1>0, <1>1 DEF TypeOK
  <2>2. KeysOf(Regulator(r), doc[r].no, doc[r].done)' = KeysOf(Regulator(r), doc[r].no, doc[r].done)
    BY <1>3, <2>1 DEF KeysOf, Key
  <2> QED
    BY <1>1, <1>2, <1>3, <1>6, <2>1, <2>2 DEF Standing
<1>8. Logged' /\ LineageOrder'
  BY <1>1, <1>2, <1>6, OneChunkMore, InvParts DEF NextChunk, Key
<1>9. Undisturbed'
  <2> SUFFICES ASSUME kills = 0, ~ overlapped
               PROVE  Undisturbed'
    BY <1>1 DEF Undisturbed
  <2>1. /\ \A s \in Runs \ {r} : pc'[s] = "idle"
        /\ torn' = {k} /\ pc'[r] = "chunking" /\ summary'.whole /\ ~ aborted'
    BY <1>0, <1>1, Alone DEF TypeOK
  <2> QED
    BY <1>3, <2>1 DEF Undisturbed
<1> QED
  BY <1>1, <1>4, <1>5, <1>7, <1>8, <1>9, RawKept, InvParts DEF StepOK, FileInv

LEMMA WriteChunkStep ==
  ASSUME DryRunInv, NEW r \in Runs, WriteChunk(r)
  PROVE  StepOK(r)
<1> DEFINE k == NextChunk(r)
<1>0. TypeOK
  BY DEF DryRunInv
<1>1. /\ pc[r] = "chunking" /\ pc' = [pc EXCEPT ![r] = "chunk"]
      /\ torn' = torn \ {k} /\ chunks' = chunks \cup {k}
      /\ doc' = [doc EXCEPT ![r].done = doc[r].done + 1]
      /\ UNCHANGED <<site, hash, raw, newest, rawTorn, lineage, summary, report, at,
                     collected, got, kills, overlapped, aborted, mem>>
  BY <1>0 DEF WriteChunk, At, Goto, rawVars, resultVars, historyVars, metricsVars, TypeOK
<1>2. ChunkFiles' = ChunkFiles \cup {k}
  BY <1>1 DEF ChunkFiles
<1>10. [doc[r] EXCEPT !.done = doc[r].done + 1] \in Docs
  <2>1. doc[r] \in Docs
    BY <1>0 DEF TypeOK, Docs
  <2>2. doc[r].done + 1 \in Nat
    BY <2>1 DEF Docs
  <2> QED
    BY <2>1, <2>2 DEF Docs
<1>3. RunStep(r) /\ Regulator(r)' = Regulator(r)
  BY <1>0, <1>1, <1>2, <1>10 DEF TypeOK, RunStep, Stages, Docs, Regulator
<1>4. TypeOK'
  BY <1>0, <1>1, <1>2, <1>3 DEF TypeOK, RunStep, Docs
<1>5. Frame(r)
  BY <1>1, <1>2, <1>3 DEF Frame, RunStep
<1>6. /\ <<"parsed", Regulator(r), doc[r].no, 0>> \in lineage
      /\ KeysOf(Regulator(r), doc[r].no, doc[r].done) \subseteq ChunkFiles
  BY <1>1 DEF DryRunInv, Standing
<1>7. Standing(r)'
  <2>1. pc'[r] = "chunk" /\ doc'[r].no = doc[r].no /\ doc'[r].done = doc[r].done + 1
    BY <1>0, <1>1 DEF TypeOK
  <2>2. doc[r].done \in Nat
    BY <1>0 DEF TypeOK
  <2>3. KeysOf(Regulator(r), doc[r].no, doc[r].done + 1)
          = KeysOf(Regulator(r), doc[r].no, doc[r].done) \cup {k}
    <3>1. 1..(doc[r].done + 1) = 1..doc[r].done \cup {doc[r].done + 1}
      BY <2>2
    <3> QED
      BY <3>1 DEF KeysOf, NextChunk
  <2>4. KeysOf(Regulator(r), doc[r].no, doc[r].done)'
          = KeysOf(Regulator(r), doc[r].no, doc[r].done + 1)
    BY <1>3, <2>1 DEF KeysOf, Key
  <2> QED
    BY <1>1, <1>2, <1>3, <1>6, <2>1, <2>3, <2>4 DEF Standing
<1>8. Logged' /\ LineageOrder'
  BY <1>1, <1>2, <1>6, OneChunkMore, InvParts DEF NextChunk, Key
<1>9. Undisturbed'
  <2> SUFFICES ASSUME kills = 0, ~ overlapped
               PROVE  Undisturbed'
    BY <1>1 DEF Undisturbed
  <2>1. /\ \A s \in Runs \ {r} : pc'[s] = "idle"
        /\ torn' = {} /\ pc'[r] = "chunk" /\ summary'.whole /\ ~ aborted'
    BY <1>0, <1>1, Alone DEF TypeOK
  <2> QED
    BY <2>1 DEF Undisturbed
<1> QED
  BY <1>1, <1>4, <1>5, <1>7, <1>8, <1>9, RawKept, InvParts DEF StepOK, FileInv

LEMMA FinishDocumentStep ==
  ASSUME DryRunInv, NEW r \in Runs, FinishDocument(r)
  PROVE  StepOK(r)
<1> DEFINE e0 == <<"chunk", Regulator(r), doc[r].no, doc[r].pieces>>
<1>0. TypeOK /\ NextRegulator(r, "parse", "embed") /\ "parse" \in Stages /\ "embed" \in Stages
  BY DEF DryRunInv, FinishDocument, Stages
<1>1. /\ pc[r] = "chunk" /\ doc[r].done = doc[r].pieces
      /\ lineage' = lineage \cup {e0}
      /\ UNCHANGED <<site, hash, raw, newest, rawTorn, chunks, torn, summary, report,
                     collected, got, kills, overlapped, aborted, mem>>
  BY DEF FinishDocument, At, rawVars, chunkVars, resultVars, historyVars, metricsVars
<1>2. /\ pc' \in [Runs -> Stages] /\ pc'[r] \in {"parse", "embed"}
      /\ at' \in [Runs -> DOMAIN RegulatorSeq] /\ doc' \in [Runs -> Docs]
      /\ \A s \in Runs \ {r} : pc'[s] = pc[s] /\ at'[s] = at[s] /\ doc'[s] = doc[s]
  BY <1>0, NextRegulatorStep
<1>3. RunStep(r) /\ Inside(r) /\ ChunkFiles' = ChunkFiles
  BY <1>0, <1>1, <1>2 DEF TypeOK, RunStep, Inside, ChunkFiles
<1>4. TypeOK'
  BY <1>0, <1>1, <1>3 DEF TypeOK, RunStep, Docs
<1>5. Frame(r)
  BY <1>1, <1>3 DEF Frame, RunStep
<1>6. Standing(r)'
  BY <1>2 DEF Standing
<1>7. /\ <<"parsed", Regulator(r), doc[r].no, 0>> \in lineage
      /\ KeysOf(Regulator(r), doc[r].no, doc[r].pieces) \subseteq ChunkFiles
  BY <1>1 DEF DryRunInv, Standing
<1>8. \A e \in lineage' : /\ <<"parsed", e[2], e[3], 0>> \in lineage'
                          /\ KeysOf(e[2], e[3], e[4]) \subseteq ChunkFiles
  <2> SUFFICES ASSUME NEW e \in lineage'
               PROVE  /\ <<"parsed", e[2], e[3], 0>> \in lineage'
                      /\ KeysOf(e[2], e[3], e[4]) \subseteq ChunkFiles
    OBVIOUS
  <2>1. CASE e \in lineage
    BY <1>1, <2>1, InvParts DEF LineageOrder, FileInv
  <2>2. CASE e = e0
    <3>1. e[2] = Regulator(r) /\ e[3] = doc[r].no /\ e[4] = doc[r].pieces
      BY <2>2
    <3> QED
      BY <1>1, <1>7, <3>1
  <2> QED
    BY <1>1, <2>1, <2>2
<1>9. Logged' /\ LineageOrder'
  BY <1>1, <1>3, <1>8, InvParts DEF Logged, LineageOrder, FileInv, KeysOf, Key
<1> QED
  BY <1>1, <1>3, <1>4, <1>5, <1>6, <1>9, RawKept, InsideKeepsUndisturbed, InvParts
     DEF StepOK, FileInv

-----------------------------------------------------------------------------
(***************************************************************************)
(* The steps at which a run begins or breaks off, and the summary.          *)
(***************************************************************************)

\* A step after which nothing is said of the runs any more, or all are alone.
LEMMA ExitKeepsFiles ==
  ASSUME DryRunInv, NEW r \in Runs, RunStep(r), pc'[r] = "idle", Undisturbed',
         kills' \in Nat, overlapped' \in BOOLEAN, aborted' \in BOOLEAN,
         UNCHANGED <<site, hash, raw, newest, rawTorn, chunks, torn, summary>>,
         NEW stage, NEW K \in SUBSET ChunkFiles, lineage' = lineage \cup Events(stage, K)
  PROVE  StepOK(r)
<1>1. TypeOK'
  BY DEF DryRunInv, TypeOK, RunStep, Docs, ChunkFiles
<1>2. Frame(r)
  BY DEF Frame, RunStep, ChunkFiles
<1>7. Standing(r)'
  BY DEF Standing
<1> QED
  BY <1>1, <1>2, <1>7, LogKeepsFiles, RawKept, InvParts DEF StepOK, FileInv

\* What an exception needs to be raised is not there while runs are undisturbed.
LEMMA AbortStep ==
  ASSUME DryRunInv, NEW r \in Runs, Abort(r), pc[r] \in {"embed", "analyse", "report"},
         torn # {} \/ ~ summary.whole,
         UNCHANGED <<hash, raw, newest, rawTorn, chunks, torn, summary>>,
         NEW stage, NEW K \in SUBSET ChunkFiles, lineage' = lineage \cup Events(stage, K)
  PROVE  StepOK(r)
<1>1. /\ Exit(r) /\ aborted' = TRUE /\ ChunkFiles' = ChunkFiles
      /\ UNCHANGED <<site, kills, overlapped>>
  BY DEF Abort, ChunkFiles
<1>2. RunStep(r) /\ pc'[r] = "idle"
  BY <1>1, ExitStep DEF DryRunInv
<1>3. ~ (kills = 0 /\ ~ overlapped)
  BY Alone
<1>4. Undisturbed'
  BY <1>1, <1>3 DEF Undisturbed
<1>5. kills' \in Nat /\ overlapped' \in BOOLEAN /\ aborted' \in BOOLEAN
  BY <1>1 DEF DryRunInv, TypeOK
<1> QED
  BY <1>1, <1>2, <1>4, <1>5, ExitKeepsFiles

LEMMA EmbedRaisesStep ==
  ASSUME DryRunInv, NEW r \in Runs, EmbedRaises(r)
  PROVE  StepOK(r)
<1>1. /\ Abort(r) /\ pc[r] = "embed" /\ torn # {}
      /\ UNCHANGED <<hash, raw, newest, rawTorn, chunks, torn, summary>>
      /\ lineage' = lineage \cup Events("none", {})
  BY DEF EmbedRaises, At, Events, fileVars, rawVars, chunkVars, resultVars
<1>2. {} \in SUBSET ChunkFiles
  OBVIOUS
<1> QED
  BY <1>1, <1>2, AbortStep

LEMMA AnalyseRaisesStep ==
  ASSUME DryRunInv, NEW r \in Runs, AnalyseRaises(r)
  PROVE  StepOK(r)
<1> DEFINE unread == {k \in FirstFiles : \E l \in FirstFiles \cap torn : l = k \/ Before(l, k)}
<1>1. /\ Abort(r) /\ pc[r] = "analyse" /\ torn # {}
      /\ UNCHANGED <<hash, raw, newest, rawTorn, chunks, torn, summary>>
      /\ lineage' = lineage \cup Events("compliance", FirstFiles \ unread)
  BY DEF AnalyseRaises, At, rawVars, chunkVars, resultVars
<1>2. FirstFiles \ unread \in SUBSET ChunkFiles
  BY DEF FirstFiles
<1> QED
  BY <1>1, <1>2, AbortStep

LEMMA ReportRaisesStep ==
  ASSUME DryRunInv, NEW r \in Runs, ReportRaises(r)
  PROVE  StepOK(r)
<1>1. /\ Abort(r) /\ pc[r] = "report" /\ ~ summary.whole
      /\ UNCHANGED <<hash, raw, newest, rawTorn, chunks, torn, summary>>
      /\ lineage' = lineage \cup Events("none", {})
  BY DEF ReportRaises, At, Events, fileVars, rawVars, chunkVars, resultVars
<1>2. {} \in SUBSET ChunkFiles
  OBVIOUS
<1> QED
  BY <1>1, <1>2, AbortStep

LEMMA KillStep ==
  ASSUME DryRunInv, NEW r \in Runs, Kill(r)
  PROVE  StepOK(r)
<1>1. /\ Exit(r) /\ kills' = kills + 1 /\ ChunkFiles' = ChunkFiles
      /\ UNCHANGED <<site, hash, raw, newest, rawTorn, chunks, torn, summary, overlapped, aborted>>
      /\ lineage' = lineage \cup Events("none", {})
  BY DEF Kill, Events, ChunkFiles, fileVars, rawVars, chunkVars, resultVars
<1>2. RunStep(r) /\ pc'[r] = "idle"
  BY <1>1, ExitStep DEF DryRunInv
<1>3. kills' \in Nat /\ kills' # 0 /\ overlapped' \in BOOLEAN /\ aborted' \in BOOLEAN
  BY <1>1 DEF DryRunInv, TypeOK
<1>4. Undisturbed'
  BY <1>3 DEF Undisturbed
<1> QED
  BY <1>1, <1>2, <1>3, <1>4, ExitKeepsFiles

LEMMA StartStep ==
  ASSUME DryRunInv, NEW r \in Runs, Start(r)
  PROVE  StepOK(r)
<1>0. TypeOK
  BY DEF DryRunInv
<1>1. /\ pc[r] = "idle" /\ pc' = [pc EXCEPT ![r] = "fetch"]
      /\ overlapped' = (overlapped \/ \E s \in Runs : pc[s] # "idle")
      /\ mem' = [mem EXCEPT ![r] = Loaded]
      /\ UNCHANGED <<site, hash, raw, newest, rawTorn, chunks, torn, summary, report, lineage, at,
                     doc, collected, got, kills, aborted>>
  BY DEF Start, Load, At, Goto, fileVars, rawVars, chunkVars, resultVars
<1>2. RunStep(r) /\ pc'[r] = "fetch"
  BY <1>0, <1>1 DEF TypeOK, RunStep, Stages, Docs, ChunkFiles
<1>3. overlapped' \in BOOLEAN
  BY <1>1
<1>4. TypeOK'
  BY <1>0, <1>1, <1>2, <1>3 DEF TypeOK, RunStep, Docs, ChunkFiles
<1>5. Frame(r)
  BY <1>1, <1>2 DEF Frame, RunStep, ChunkFiles
<1>6. Standing(r)'
  BY <1>2 DEF Standing
<1>7. Undisturbed'
  <2> SUFFICES ASSUME kills = 0, ~ overlapped, \A s \in Runs : pc[s] = "idle"
               PROVE  /\ \A s \in Runs \ {r} : pc'[s] = "idle"
                      /\ torn = {} /\ summary.whole /\ ~ aborted
    BY <1>0, <1>1, <1>2 DEF Undisturbed, TypeOK
  <2>1. torn = {} /\ summary.whole /\ ~ aborted
    BY <1>0 DEF DryRunInv, Undisturbed, TypeOK
  <2> QED
    BY <1>2, <2>1 DEF RunStep
<1> QED
  BY <1>1, <1>4, <1>5, <1>6, <1>7, RawKept, ChunksKept, InvParts DEF StepOK, FileInv

LEMMA OpenSummaryStep ==
  ASSUME DryRunInv, NEW r \in Runs, OpenSummary(r)
  PROVE  StepOK(r)
<1>0. TypeOK
  BY DEF DryRunInv
<1>1. /\ pc[r] = "summary" /\ pc' = [pc EXCEPT ![r] = "summarising"]
      /\ summary' = [summary EXCEPT !.whole = FALSE]
      /\ UNCHANGED <<site, hash, raw, newest, rawTorn, chunks, torn, report, lineage, at,
                     doc, collected, got, kills, overlapped, aborted, mem>>
  BY DEF OpenSummary, At, Goto, rawVars, chunkVars, historyVars, metricsVars
<1>2. RunStep(r) /\ pc'[r] = "summarising"
  BY <1>0, <1>1 DEF TypeOK, RunStep, Stages, Docs, ChunkFiles
<1>5. Frame(r)
  BY <1>1, <1>2 DEF Frame, RunStep, ChunkFiles
<1>6. Standing(r)'
  BY <1>2 DEF Standing
<1>3. summary'.whole \in BOOLEAN
  BY <1>1 DEF DryRunInv, TypeOK
<1>4. TypeOK'
  BY <1>0, <1>1, <1>2, <1>3 DEF TypeOK, RunStep, Docs, ChunkFiles
<1>7. Undisturbed'
  <2> SUFFICES ASSUME kills = 0, ~ overlapped
               PROVE  /\ \A s \in Runs \ {r} : pc'[s] = "idle"
                      /\ torn = {} /\ ~ summary'.whole /\ ~ aborted
    BY <1>0, <1>1, <1>2 DEF Undisturbed, TypeOK
  <2>1. torn = {} /\ ~ aborted /\ \A s \in Runs \ {r} : pc[s] = "idle"
    BY <1>1, Alone
  <2>2. ~ summary'.whole
    BY <1>1
  <2> QED
    BY <1>2, <2>1, <2>2 DEF RunStep
<1> QED
  BY <1>1, <1>4, <1>5, <1>6, <1>7, RawKept, ChunksKept, InvParts DEF StepOK, FileInv

LEMMA WriteSummaryStep ==
  ASSUME DryRunInv, NEW r \in Runs, WriteSummary(r)
  PROVE  StepOK(r)
<1>0. TypeOK
  BY DEF DryRunInv
<1>1. /\ pc[r] = "summarising" /\ pc' = [pc EXCEPT ![r] = "report"]
      /\ got' = [got EXCEPT ![r] = {}]
      /\ UNCHANGED <<site, hash, raw, newest, rawTorn, chunks, torn, report, lineage, at,
                     doc, collected, kills, overlapped, aborted, mem>>
  BY DEF WriteSummary, At, Goto, rawVars, chunkVars, historyVars, metricsVars
<1>3. PICK mixed \in {FALSE, summary.whole} : summary' = [whole |-> ~ mixed, covers |-> got[r]]
  BY DEF WriteSummary
<1>8. summary'.whole = ~ mixed
  BY <1>3
<1>2. RunStep(r) /\ pc'[r] = "report"
  BY <1>0, <1>1 DEF TypeOK, RunStep, Stages, Docs, ChunkFiles
<1>5. Frame(r)
  BY <1>1, <1>2 DEF Frame, RunStep, ChunkFiles
<1>6. Standing(r)'
  BY <1>2 DEF Standing
<1>4. TypeOK'
  BY <1>0, <1>1, <1>2, <1>3, <1>8 DEF TypeOK, RunStep, Docs, ChunkFiles
<1>7. Undisturbed'
  <2> SUFFICES ASSUME kills = 0, ~ overlapped
               PROVE  /\ \A s \in Runs \ {r} : pc'[s] = "idle"
                      /\ torn = {} /\ summary'.whole /\ ~ aborted
    BY <1>0, <1>1, <1>2 DEF Undisturbed, TypeOK
  <2>1. ~ summary.whole /\ ~ aborted /\ torn = {} /\ \A s \in Runs \ {r} : pc[s] = "idle"
    BY <1>1, Alone
  <2>2. summary'.whole
    BY <1>0, <1>3, <1>8, <2>1
  <2> QED
    BY <1>2, <2>1, <2>2 DEF RunStep
<1> QED
  BY <1>1, <1>4, <1>5, <1>6, <1>7, RawKept, ChunksKept, InvParts DEF StepOK, FileInv

-----------------------------------------------------------------------------

KeptVars == <<hash, raw, newest, rawTorn, chunks, torn, summary, lineage, pc, at, doc, kills,
              overlapped, aborted>>

LEMMA KeepAll ==
  ASSUME DryRunInv, UNCHANGED KeptVars
  PROVE  (\A r \in Runs : Standing(r))' /\ FileInv' /\ Undisturbed'
<1>1. ChunkFiles' = ChunkFiles
  BY DEF KeptVars, ChunkFiles
<1>2. \A r \in Runs : Regulator(r)' = Regulator(r) /\ NextChunk(r)' = NextChunk(r)
  BY DEF KeptVars, Regulator, NextChunk, Key
<1>3. \A r \in Runs : Standing(r)'
  BY <1>1, <1>2 DEF DryRunInv, Standing, KeptVars, KeysOf, Key
<1>4. FileInv'
  BY RawKept, ChunksKept, InvParts DEF FileInv, KeptVars
<1>5. Undisturbed'
  BY <1>2 DEF DryRunInv, Undisturbed, KeptVars
<1> QED
  BY <1>3, <1>4, <1>5

LEMMA PublishStep ==
  ASSUME DryRunInv, NEW g \in Regulators, Publish(g)
  PROVE  DryRunInv'
<1>1. site' \in [Regulators -> Texts]
  BY DEF DryRunInv, TypeOK, Publish
<1>2. UNCHANGED <<fileVars, runVars, historyVars, metricsVars>>
  BY DEF Publish
<1>3. TypeOK'
    BY <1>1, <1>2 DEF DryRunInv, TypeOK, ChunkFiles, fileVars, rawVars, chunkVars, resultVars,
     runVars,
                    historyVars, metricsVars
<1>4. (\A r \in Runs : Standing(r))' /\ FileInv' /\ Undisturbed'
    BY <1>2, InvParts, KeepAll DEF KeptVars, fileVars, rawVars, chunkVars, resultVars, runVars,
     historyVars
<1> QED
  BY <1>3, <1>4 DEF DryRunInv, FileInv, Logged, NewestExists

LEMMA StutterStep ==
  ASSUME DryRunInv, UNCHANGED vars
  PROVE  DryRunInv'
<1>1. TypeOK'
  BY DEF DryRunInv, TypeOK, ChunkFiles, vars, fileVars, rawVars, chunkVars, resultVars, runVars,
         historyVars, metricsVars
<1>2. (\A r \in Runs : Standing(r))' /\ FileInv' /\ Undisturbed'
  BY InvParts, KeepAll DEF KeptVars, vars, fileVars, rawVars, chunkVars, resultVars, runVars,
                           historyVars
<1> QED
  BY <1>1, <1>2 DEF DryRunInv, FileInv, Logged, NewestExists

LEMMA InitHolds == Init => DryRunInv
<1> SUFFICES ASSUME Init PROVE DryRunInv
  OBVIOUS
<1>1. 1 \in DOMAIN RegulatorSeq /\ 1 \in Texts
  BY RegulatorSeqLen DEF Texts
<1>2. \A g \in Regulators : raw[g] = <<>> /\ raw[g] \in Seq(Texts)
  BY DEF Init
<1>3. TypeOK
  <2>1. raw \in [Regulators -> Seq(Texts)]
    BY DEF Init
  <2> QED
    BY <1>1, <2>1 DEF Init, InitMetrics, TypeOK, Stages, NoDoc, ChunkFiles
<1>4. /\ \A r \in Runs : Standing(r)
      /\ FileInv /\ Undisturbed
  BY <1>2 DEF Init, Standing, FileInv, Logged, LineageOrder, NewestExists, HashedIsRaw, Undisturbed,
              ChunkFiles
<1> QED
  BY <1>3, <1>4, InvParts

LEMMA NextKeepsInv == DryRunInv /\ [Next]_vars => DryRunInv'
<1> SUFFICES ASSUME DryRunInv, [Next]_vars PROVE DryRunInv'
  OBVIOUS
<1>1. CASE UNCHANGED vars
  BY <1>1, StutterStep
<1>2. ASSUME NEW g \in Regulators, Publish(g) PROVE DryRunInv'
  BY <1>2, PublishStep
<1>3. ASSUME NEW r \in Runs, Collect(r) PROVE DryRunInv'
  BY <1>3, StepKeepsInv, FetchStep, FetchFailsStep, UnchangedStep, OpenRawStep, WriteRawStep,
     OpenHashStep, WriteHashStep, CountSavedStep, SavedCountedStep, CollectErrorStep DEF Collect
<1>4. ASSUME NEW r \in Runs, Process(r) PROVE DryRunInv'
  BY <1>4, StepKeepsInv, SkipEmptyStep, ReadNewestStep, OpenChunkStep, WriteChunkStep,
     FinishDocumentStep DEF Process
<1>5. ASSUME NEW r \in Runs, CountEmbedded(r) \/ CountObligations(r) PROVE DryRunInv'
  <2>1. CASE LoadCounters(r, "load_embedded", "count_embedded", "analyse")
    BY <2>1, StepKeepsInv, LoadCountersStep
  <2>2. CASE Count(r, "count_embedded", "embeddings_generated", "counting_embedded")
    BY <2>2, StepKeepsInv, CountStep
  <2>3. CASE LoadCounters(r, "load_analysed", "count_analysed", "summary")
    BY <2>3, StepKeepsInv, LoadCountersStep
  <2>4. CASE Count(r, "count_analysed", "obligations_extracted", "counting_analysed")
    BY <2>4, StepKeepsInv, CountStep
  <2> QED
    BY <1>5, <2>1, <2>2, <2>3, <2>4, StepKeepsInv, CountedEmbeddedStep, CountedObligationsStep
       DEF CountEmbedded, CountObligations
<1>6. ASSUME NEW r \in Runs, Conclude(r) PROVE DryRunInv'
  BY <1>5, <1>6, StepKeepsInv, EmbedStep, EmbedRaisesStep, AnalyseStep, AnalyseRaisesStep,
     OpenSummaryStep, WriteSummaryStep, ReportStep, ReportRaisesStep DEF Conclude
<1>7. ASSUME NEW r \in Runs, Start(r) \/ Kill(r) PROVE DryRunInv'
  BY <1>7, StepKeepsInv, StartStep, KillStep
<1> QED
  BY <1>1, <1>2, <1>3, <1>4, <1>6, <1>7 DEF Next

-----------------------------------------------------------------------------
(* The invariant holds for any number of overlapping runs of the program,  *)
(* however they are scheduled and wherever they are killed.                *)
THEOREM Invariance == Spec => []DryRunInv
<1> QED
  BY InitHolds, NextKeepsInv, PTL DEF Spec

(* collect_stage: a hash that is stored is the hash of a text that a whole *)
(* raw file holds, so that a regulator that is skipped as unchanged is one *)
(* whose text the pipeline has.                                            *)
THEOREM HashedIsRawHolds == Spec => []HashedIsRaw
<1>1. DryRunInv => HashedIsRaw
  BY DEF DryRunInv
<1> QED
  BY <1>1, Invariance, PTL

(* process_stage, embed_stage and compliance_stage: the lineage log shows  *)
(* no stage of a document without its parsing, nor chunks that are not     *)
(* files.                                                                  *)
THEOREM LineageOrderHolds == Spec => []LineageOrder
<1>1. DryRunInv => LineageOrder
  BY DEF DryRunInv
<1> QED
  BY <1>1, Invariance, PTL

(* run_full_pipeline: no exception over a torn file ends a run unless some *)
(* run was killed or two runs overlapped.                                  *)
THEOREM AbortsHaveCauseHolds == Spec => []AbortsHaveCause
<1>1. DryRunInv => AbortsHaveCause
  BY DEF DryRunInv, TypeOK, Undisturbed, AbortsHaveCause
<1> QED
  BY <1>1, Invariance, PTL

-----------------------------------------------------------------------------
(***************************************************************************)
(* What was saved, and the counter of it.                                   *)
(***************************************************************************)
Lengths == [g \in Regulators |-> Len(raw[g])]

LEMMA SumIsSumOf ==
  ASSUME NEW f, DOMAIN f = Regulators
  PROVE  SumFunction(f) = SumOf(f, Regulators)
BY DEF SumFunction, SumFunctionOnSet, SumOf

LEMMA SavedIsSum ==
  ASSUME NEW f, f = Lengths
  PROVE  Saved = SumOf(f, Regulators)
<1>1. Saved = SumFunction(f)
  BY DEF Saved, Lengths
<1> QED
  BY <1>1, SumIsSumOf DEF Lengths

LEMMA SavedNext ==
  ASSUME NEW f, f = Lengths'
  PROVE  Saved' = SumOf(f, Regulators)
<1>1. Saved' = SumFunction(f)
  BY DEF Saved, Lengths
<1> QED
  BY <1>1, SumIsSumOf DEF Lengths

LEMMA RegulatorsFinite == IsFiniteSet(Regulators)
<1>1. Len(RegulatorSeq) \in Nat /\ DOMAIN RegulatorSeq = 1 .. Len(RegulatorSeq)
  BY RegulatorSeqLen
<1>2. IsFiniteSet(1 .. Len(RegulatorSeq))
  BY <1>1, FS_Interval
<1>3. Regulators = {RegulatorSeq[i] : i \in 1 .. Len(RegulatorSeq)}
  BY <1>1 DEF Regulators, Range
<1>4. RegulatorSeq \in Surjection(1 .. Len(RegulatorSeq), Regulators)
  BY <1>1, <1>3 DEF Surjection
<1> QED
  BY <1>2, <1>4, FS_Surjection

LEMMA SavedTyped ==
  ASSUME \A g \in Regulators : raw[g] \in Seq(Texts)
  PROVE  Saved \in Int
<1>1. \A g \in Regulators : Lengths[g] \in Int
  BY DEF Lengths
<1>2. PICK f : f = Lengths
  OBVIOUS
<1>3. SumOf(f, Regulators) \in Int
  BY <1>1, <1>2, RegulatorsFinite, SumInt
<1> QED
  BY <1>2, <1>3, SavedIsSum

\* One file more of one regulator.
LEMMA SavedOneMore ==
  ASSUME TypeOK, TypeOK', NEW g \in Regulators, Len(raw'[g]) = Len(raw[g]) + 1,
         \A h \in Regulators \ {g} : raw'[h] = raw[h]
  PROVE  Saved' = Saved + 1
<1>1. \A h \in Regulators : Len(raw[h]) \in Nat /\ Len(raw'[h]) \in Nat
  BY DEF TypeOK
<1>2. PICK f : f = Lengths
  OBVIOUS
<1>3. PICK k : k = Lengths'
  OBVIOUS
<1>4. /\ \A h \in Regulators : f[h] \in Int /\ k[h] \in Int
      /\ \A h \in Regulators \ {g} : f[h] = k[h]
      /\ k[g] - f[g] = 1
  BY <1>1, <1>2, <1>3 DEF Lengths
<1>5. PICK S : S = Regulators
  OBVIOUS
<1>6. SumOf(k, S) = SumOf(f, S) + (k[g] - f[g])
  <2>1. IsFiniteSet(S) /\ g \in S
    BY <1>5, RegulatorsFinite
  <2>2. (\A h \in S : f[h] \in Int /\ k[h] \in Int) /\ \A h \in S \ {g} : f[h] = k[h]
    BY <1>4, <1>5
  <2> QED
    BY ONLY <2>1, <2>2, SumChange
<1>7. Saved = SumOf(f, S) /\ Saved' = SumOf(k, S)
  BY <1>2, <1>3, <1>5, SavedIsSum, SavedNext
<1> QED
  BY <1>4, <1>6, <1>7

LEMMA SavedKept == ASSUME raw' = raw PROVE Saved' = Saved
BY DEF Saved

\* Values is a file of counters, or a store in memory.
Values(v) == v = [n \in Names |-> v[n]] /\ Scraped(v) \in Nat

LEMMA ZeroValues == Values(Zero) /\ Scraped(Zero) = 0
BY DEF Values, Zero, Scraped
\* CountersInv, part by part.
CountersTyped ==
  /\ missed \in Nat
  /\ counters = [whole |-> counters.whole, value |-> counters.value]
  /\ counters.whole \in BOOLEAN
  /\ Values(counters.value)
  /\ \A r \in Runs : Values(mem[r])

Counted1 ==
  /\ Scraped(counters.value) <= Saved
  /\ \A r \in Runs : Scraped(mem[r]) + Uncounted(r) <= Saved

LEMMA CountersParts == CountersInv <=> CountersTyped /\ Counted1 /\ CountedExactly
BY DEF CountersInv, CountersTyped, Counted1, Values

LEMMA UncountedTyped == \A r \in Runs : Uncounted(r) \in {0, 1}
BY DEF Uncounted

LEMMA MissedTyped == CountersInv => missed \in Nat /\ \A r \in Runs : Scraped(mem[r]) \in Nat
BY DEF CountersInv

LEMMA PendingAlone ==
  ASSUME NEW r \in Runs, \A s \in Runs \ {r} : Uncounted(s) = 0
  PROVE  Pending = Uncounted(r)
BY UncountedTyped DEF Pending

LEMMA PendingNext ==
  ASSUME NEW r \in Runs, \A s \in Runs \ {r} : Uncounted(s)' = 0
  PROVE  Pending' = Uncounted(r)'
BY DEF Pending, Uncounted

LEMMA SavedInt == ASSUME TypeOK PROVE Saved \in Int
BY SavedTyped DEF TypeOK

\* The other runs: where they stand, and what they have in memory.
Others(r) == \A s \in Runs \ {r} : pc'[s] = pc[s] /\ mem'[s] = mem[s]

LEMMA OthersCount ==
  ASSUME NEW r \in Runs, Others(r)
  PROVE  \A s \in Runs \ {r} : /\ Uncounted(s)' = Uncounted(s)
                               /\ Counting(s)' <=> Counting(s)
                               /\ Scraped(mem[s])' = Scraped(mem[s])
BY DEF Others, Uncounted, Counting, Scraped

\* An undisturbed run is alone.
LEMMA AloneCounts ==
  ASSUME DryRunInv, NEW r \in Runs, pc[r] # "idle", kills = 0, ~ overlapped, Others(r)
  PROVE  \A s \in Runs \ {r} : /\ pc[s] = "idle" /\ pc'[s] = "idle"
                               /\ Uncounted(s) = 0 /\ ~ Counting(s)
                               /\ Uncounted(s)' = 0 /\ ~ Counting(s)'
<1>1. \A s \in Runs \ {r} : pc[s] = "idle"
  BY Alone
<1> QED
  BY <1>1 DEF Others, Uncounted, Counting

\* A step that touches neither the counters nor the raw files.
LEMMA NotCounting ==
  ASSUME CountersInv, NEW r \in Runs, Others(r),
         UNCHANGED <<raw, counters, kills, overlapped, missed, unwritten>>, mem'[r] = mem[r],
         pc[r] # "idle", pc'[r] # "idle", Uncounted(r)' = Uncounted(r),
         ~ Counting(r), ~ Counting(r)'
  PROVE  CountersInv'
<1>1. Saved' = Saved
  BY SavedKept
<1>2. \A s \in Runs : /\ mem'[s] = mem[s] /\ Uncounted(s)' = Uncounted(s)
                      /\ Counting(s)' <=> Counting(s)
                      /\ pc'[s] # "idle" <=> pc[s] # "idle"
                      /\ pc'[s] = "counting_saved" <=> pc[s] = "counting_saved"
  BY OthersCount DEF Others, Counting
<1>3. CountersTyped'
  BY <1>2, CountersParts DEF CountersTyped, Values, Scraped
<1>4. Counted1'
  BY <1>1, <1>2, CountersParts DEF Counted1, Scraped
<1>5. CountedExactly'
  BY <1>1, <1>2, CountersParts DEF CountedExactly, Pending, Scraped
<1> QED
  BY <1>3, <1>4, <1>5 DEF CountersInv, CountersTyped, Counted1, Values

\* A raw file is opened: one file more, of r's, that is not counted.
LEMMA OpenRawCounts ==
  ASSUME DryRunInv, DryRunInv', CountersInv, NEW r \in Runs, OpenRaw(r), Others(r)
  PROVE  CountersInv'
<1> DEFINE g == Regulator(r)
<1>1. /\ pc[r] = "compare" /\ pc' = [pc EXCEPT ![r] = "save"]
      /\ raw' = [raw EXCEPT ![g] = Append(raw[g], doc[r].text)]
      /\ UNCHANGED <<counters, mem, kills, overlapped, missed, unwritten>>
  BY DEF OpenRaw, At, Goto, historyVars, metricsVars
<1>2. g \in Regulators /\ TypeOK /\ TypeOK' /\ doc[r].text \in Texts
  BY <1>1, RegulatorTyped DEF DryRunInv, Standing
<1>3. /\ raw'[g] = Append(raw[g], doc[r].text) /\ raw[g] \in Seq(Texts)
      /\ \A h \in Regulators \ {g} : raw'[h] = raw[h]
  BY <1>1, <1>2 DEF TypeOK
<1>4. Len(raw'[g]) = Len(raw[g]) + 1
  BY <1>2, <1>3
<1>5. Saved' = Saved + 1 /\ Saved \in Int
  BY <1>2, <1>3, <1>4, SavedOneMore, SavedInt
<1>6. pc'[r] = "save" /\ Uncounted(r) = 0 /\ Uncounted(r)' = 1 /\ ~ Counting(r) /\ ~ Counting(r)'
  BY <1>1, <1>2 DEF TypeOK, Uncounted, Counting
<1>7. CountersTyped'
  BY <1>1, CountersParts DEF CountersTyped, Values, Scraped
<1>8. Counted1'
  <2>1. \A s \in Runs : Scraped(mem[s]) \in Nat /\ Scraped(counters.value) \in Nat
    BY CountersParts DEF CountersTyped, Values
  <2>2. \A s \in Runs : /\ Uncounted(s)' <= Uncounted(s) + 1
                        /\ Uncounted(s)' \in Nat /\ Uncounted(s) \in Nat
    BY <1>6, OthersCount, UncountedTyped
  <2>3. Scraped(mem[r]) + 0 <= Saved /\ Scraped(counters.value) <= Saved
        /\ \A s \in Runs : Scraped(mem[s]) + Uncounted(s) <= Saved
    BY <1>6, CountersParts DEF Counted1
  <2>4. \A s \in Runs : Scraped(mem[s]) + Uncounted(s)' <= Saved + 1
    BY <1>5, <2>1, <2>2, <2>3
  <2>5. Scraped(counters.value) <= Saved + 1
    BY <1>5, <2>1, <2>3
  <2> QED
    BY <1>1, <1>5, <2>4, <2>5 DEF Counted1, Scraped
<1>9. CountedExactly'
  <2> SUFFICES ASSUME kills = 0, ~ overlapped, ~ unwritten
               PROVE  /\ \A s \in Runs : pc'[s] # "idle" =>
                           Scraped(mem[s]) + Uncounted(s)' + missed = Saved + 1
                      /\ counters.whole <=> \A s \in Runs : ~ Counting(s)'
                      /\ Scraped(counters.value) + 1 + missed = Saved + 1
                      /\ Pending' = 1
    BY <1>1, <1>5 DEF CountedExactly, Scraped
  <2>1. Scraped(mem[r]) + 0 + missed = Saved /\ Scraped(mem[r]) \in Nat
        /\ (counters.whole <=> \A s \in Runs : ~ Counting(s))
    BY <1>1, <1>6, CountersParts DEF CountedExactly, CountersTyped, Values
  <2>2. \A s \in Runs \ {r} : /\ pc[s] = "idle" /\ pc'[s] = "idle"
                              /\ ~ Counting(s) /\ ~ Counting(s)'
                              /\ Uncounted(s) = 0 /\ Uncounted(s)' = 0
    BY <1>1, AloneCounts
  <2>3. Scraped(mem[r]) + 1 + missed = Saved + 1
    BY <1>5, <2>1, MissedTyped
  <2>4. Pending = 0 /\ Pending' = 1
    BY <1>6, <2>2, PendingAlone, PendingNext
  <2>5. Scraped(counters.value) + 0 + missed = Saved
    BY <1>1, <2>2, <2>4, CountersParts DEF CountedExactly
  <2>6. Scraped(counters.value) + 1 + missed = Saved + 1
    BY <1>5, <2>5, MissedTyped, CountersParts DEF CountersTyped, Values
  <2> QED
    BY <1>6, <2>1, <2>2, <2>3, <2>4, <2>6
<1> QED
  BY <1>7, <1>8, <1>9 DEF CountersInv, CountersTyped, Counted1, Values

\* A counter is incremented in memory by k, and the file is opened.
LEMMA IncrementCounts ==
  ASSUME DryRunInv, DryRunInv', CountersInv, NEW r \in Runs, Others(r),
         NEW n, NEW k, Increment(r, n, k), UNCHANGED <<raw, kills, overlapped, missed, unwritten>>,
         pc[r] # "idle", pc'[r] # "idle", ~ Counting(r), Counting(r)',
         \/ n = "documents_scraped" /\ k = 1 /\ Uncounted(r) = 1
            /\ pc'[r] = "counting_saved"
         \/ n # "documents_scraped" /\ Uncounted(r) = 0 /\ pc'[r] # "counting_saved"
  PROVE  CountersInv'
<1> DEFINE own == IF n = "documents_scraped" THEN 1 ELSE 0
<1>1. /\ mem' = [mem EXCEPT ![r] = [m \in Names |-> IF m = n THEN mem[r][m] + k ELSE mem[r][m]]]
      /\ counters' = [counters EXCEPT !.whole = FALSE]
  BY DEF Increment, Add
<1>2. Saved' = Saved /\ Saved \in Int /\ DOMAIN mem = Runs
  BY SavedKept, SavedInt DEF DryRunInv, TypeOK
<1>3. mem'[r] = [m \in Names |-> IF m = n THEN mem[r][m] + k ELSE mem[r][m]]
  BY <1>1, <1>2
<1>4. Scraped(mem[r]) \in Nat /\ Values(counters.value) /\ counters.whole \in BOOLEAN
      /\ counters = [whole |-> counters.whole, value |-> counters.value]
  BY CountersParts DEF CountersTyped, Values
<1>5. Scraped(mem'[r]) = Scraped(mem[r]) + own
  BY <1>3, <1>4 DEF Scraped
<1>6. Uncounted(r)' = 0 /\ Uncounted(r) = own
  BY DEF Uncounted, Counting
<1>7. counters' = [whole |-> FALSE, value |-> counters.value]
  BY <1>1, <1>4
<1>8. CountersTyped'
  <2>1. Values(mem'[r])
    <3>1. Scraped(mem'[r]) \in Nat
      BY <1>4, <1>5
    <3>2. mem'[r] = [m \in Names |-> mem'[r][m]]
      BY <1>3
    <3> QED
      BY <3>1, <3>2 DEF Values
  <2>2. \A s \in Runs : Values(mem'[s])
    BY <2>1, CountersParts DEF Others, CountersTyped
  <2> QED
    BY <1>4, <1>7, <2>2, MissedTyped DEF CountersTyped, Values, Scraped
<1>9. Counted1'
  <2>1. Scraped(mem'[r]) + 0 <= Saved
    BY <1>4, <1>5, <1>6, CountersParts DEF Counted1
  <2>2. \A s \in Runs : Scraped(mem'[s]) + Uncounted(s)' <= Saved
    BY <1>6, <2>1, OthersCount, CountersParts DEF Counted1, Others
  <2>3. Scraped(counters'.value) <= Saved
    BY <1>7, CountersParts DEF Counted1
  <2> QED
    BY <1>2, <2>2, <2>3 DEF Counted1, Scraped
<1>10. CountedExactly'
  <2> SUFFICES ASSUME kills = 0, ~ overlapped, ~ unwritten
               PROVE  /\ \A s \in Runs : pc'[s] # "idle" =>
                           Scraped(mem'[s]) + Uncounted(s)' + missed = Saved
                      /\ ~ counters'.whole /\ Counting(r)'
                      /\ (\A s \in Runs : pc'[s] # "counting_saved")
                           => Scraped(counters'.value) + 0 + missed = Saved
                      /\ Pending' = 0
    BY <1>2 DEF CountedExactly, Scraped
  <2>1. Scraped(mem[r]) + own + missed = Saved
    BY <1>6, CountersParts DEF CountedExactly
  <2>2. \A s \in Runs \ {r} : /\ pc'[s] = "idle" /\ pc[s] = "idle"
                              /\ Uncounted(s) = 0 /\ Uncounted(s)' = 0
    BY AloneCounts
  <2>3. Scraped(mem'[r]) + 0 + missed = Saved
    BY <1>2, <1>4, <1>5, <2>1, MissedTyped
  <2>4. ASSUME pc'[r] # "counting_saved" PROVE Scraped(counters'.value) + 0 + missed = Saved
    <3>1. \A s \in Runs : Uncounted(s) = 0 /\ pc[s] # "counting_saved"
      BY <2>2, <2>4 DEF Counting
    <3>2. Pending = 0
      BY <3>1, PendingAlone
    <3> QED
      BY <1>7, <3>1, <3>2, CountersParts DEF CountedExactly
  <2>5. Pending' = 0
    BY <1>6, <2>2, PendingNext
  <2> QED
    BY <1>6, <1>7, <2>2, <2>3, <2>4, <2>5
<1> QED
  BY <1>8, <1>9, <1>10 DEF CountersInv, CountersTyped, Counted1, Values
\* The file is written with what the process has in memory.
LEMMA PersistCounts ==
  ASSUME DryRunInv, DryRunInv', CountersInv, NEW r \in Runs, Others(r),
         Persist(r), UNCHANGED <<raw, kills, overlapped, missed, unwritten>>,
         Counting(r), ~ Counting(r)', pc'[r] # "idle", Uncounted(r)' = 0
  PROVE  CountersInv'
<1>1. PICK mixed \in {FALSE, counters.whole} : counters' = [whole |-> ~ mixed, value |-> mem[r]]
  BY DEF Persist
<1>2. mem' = mem /\ Saved' = Saved /\ Saved \in Int
  BY SavedKept, SavedInt DEF DryRunInv, Persist
<1>3. CountersTyped /\ Counted1
  BY CountersParts
<1>4. counters'.whole = ~ mixed /\ counters'.value = mem[r] /\ mixed \in BOOLEAN
  BY <1>1, <1>3 DEF CountersTyped
<1>5. CountersTyped'
  BY <1>1, <1>2, <1>3, <1>4 DEF CountersTyped, Values, Scraped
<1>6. Uncounted(r) = 0 /\ pc[r] # "idle"
  BY DEF Counting, Uncounted
<1>7. Scraped(mem[r]) <= Saved /\ Scraped(mem[r]) \in Nat
  <2>1. Scraped(mem[r]) \in Nat
    BY <1>3 DEF CountersTyped, Values
  <2>2. Scraped(mem[r]) + 0 <= Saved
    BY <1>3, <1>6 DEF Counted1
  <2> QED
    BY <1>2, <2>1, <2>2
<1>8. Counted1'
  <2>1. \A s \in Runs : Uncounted(s)' = Uncounted(s)
    BY <1>6, OthersCount
  <2> QED
    BY <1>2, <1>3, <1>4, <1>7, <2>1 DEF Counted1, Scraped
<1>9. CountedExactly'
  <2> SUFFICES ASSUME kills = 0, ~ overlapped, ~ unwritten
               PROVE  /\ \A s \in Runs : pc'[s] # "idle" =>
                           Scraped(mem[s]) + Uncounted(s)' + missed = Saved
                      /\ counters'.whole <=> \A s \in Runs : ~ Counting(s)'
                      /\ Scraped(counters'.value) + 0 + missed = Saved /\ Pending' = 0
    BY <1>2 DEF CountedExactly, Scraped
  <2>1. Scraped(mem[r]) + 0 + missed = Saved /\ ~ counters.whole
    BY <1>6, CountersParts DEF CountedExactly
  <2>2. \A s \in Runs \ {r} : pc'[s] = "idle" /\ ~ Counting(s)' /\ Uncounted(s)' = 0
    BY <1>6, AloneCounts
  <2>3. counters'.whole
    BY <1>3, <1>4, <2>1 DEF CountersTyped
  <2>4. Pending' = 0
    BY <2>2, PendingNext
  <2> QED
    BY <1>4, <1>7, <2>1, <2>2, <2>3, <2>4
<1> QED
  BY <1>5, <1>8, <1>9 DEF CountersInv, CountersTyped, Counted1, Values

LEMMA LoadedValues ==
  ASSUME CountersInv, TypeOK
  PROVE  Values(Loaded) /\ Scraped(Loaded) <= Saved /\ 0 <= Saved
<1>1. Values(counters.value) /\ Scraped(counters.value) <= Saved /\ Saved \in Int
  BY CountersParts, SavedInt DEF CountersTyped, Counted1
<1> QED
  BY <1>1, ZeroValues DEF Loaded, Values

\* A store is made: it loads the file, or starts from zero.
LEMMA LoadCounts ==
  ASSUME DryRunInv, DryRunInv', CountersInv, NEW r \in Runs, Others(r),
         Load(r), UNCHANGED <<raw, kills, missed, unwritten>>,
         ~ Counting(r), ~ Counting(r)', Uncounted(r) = 0, Uncounted(r)' = 0, pc'[r] # "idle",
         ~ overlapped' => ~ overlapped /\ \A s \in Runs \ {r} : kills = 0 => pc[s] = "idle"
  PROVE  CountersInv'
<1>1. mem' = [mem EXCEPT ![r] = Loaded] /\ counters' = counters
  BY DEF Load
<1>2. mem'[r] = Loaded /\ Saved' = Saved /\ Saved \in Int /\ TypeOK
  BY <1>1, SavedKept, SavedInt DEF DryRunInv, TypeOK
<1>3. CountersTyped /\ Counted1
  BY CountersParts
<1>4. Values(Loaded) /\ Scraped(Loaded) <= Saved
  BY <1>2, LoadedValues
<1>5. CountersTyped'
  <2>1. \A s \in Runs : Values(mem'[s])
    BY <1>2, <1>3, <1>4 DEF Others, CountersTyped
  <2> QED
    BY <1>1, <1>3, <2>1 DEF CountersTyped, Values, Scraped
<1>6. Counted1'
  <2>1. Scraped(mem'[r]) + Uncounted(r)' <= Saved
    BY <1>2, <1>4 DEF Values
  <2>2. \A s \in Runs : Scraped(mem'[s]) + Uncounted(s)' <= Saved
    BY <1>3, <2>1, OthersCount DEF Counted1, Others
  <2> QED
    BY <1>1, <1>2, <1>3, <2>2 DEF Counted1, Scraped
<1>7. CountedExactly'
  <2> SUFFICES ASSUME kills = 0, ~ overlapped', ~ unwritten
               PROVE  /\ \A s \in Runs : pc'[s] # "idle" =>
                           Scraped(mem'[s]) + Uncounted(s)' + missed = Saved
                      /\ counters.whole <=> \A s \in Runs : ~ Counting(s)'
                      /\ Scraped(counters.value) + 0 + missed = Saved /\ Pending' = 0
    BY <1>1, <1>2 DEF CountedExactly, Scraped
  <2>1. \A s \in Runs \ {r} : pc[s] = "idle" /\ pc'[s] = "idle"
    BY DEF Others
  <2>2. \A s \in Runs : /\ Uncounted(s) = 0 /\ ~ Counting(s) /\ pc[s] # "counting_saved"
                        /\ ~ Counting(s)' /\ Uncounted(s)' = 0
    BY <2>1 DEF Uncounted, Counting
  <2>3. Pending = 0 /\ Pending' = 0
    BY <2>2, PendingAlone, PendingNext
  <2>4. counters.whole /\ Scraped(counters.value) + 0 + missed = Saved
    BY <2>2, <2>3, CountersParts DEF CountedExactly
  <2>5. Scraped(mem'[r]) + 0 + missed = Saved
    BY <1>2, <2>4 DEF Loaded
  <2> QED
    BY <2>1, <2>2, <2>3, <2>4, <2>5
<1> QED
  BY <1>5, <1>6, <1>7 DEF CountersInv, CountersTyped, Counted1, Values

\* A run ends, or is broken off: it had been disturbed, or has reported.
LEMMA ExitCounts ==
  ASSUME DryRunInv, DryRunInv', CountersInv, NEW r \in Runs, Exit(r),
         UNCHANGED <<raw, missed, unwritten>>,
         kills' = 0 /\ ~ overlapped' => kills = 0 /\ ~ overlapped /\ pc[r] = "report"
  PROVE  CountersInv'
<1>1. /\ mem' = [mem EXCEPT ![r] = Zero] /\ counters' = counters
      /\ pc' = [pc EXCEPT ![r] = "idle"]
  BY DEF Exit, Goto
<1>2. /\ mem'[r] = Zero /\ pc'[r] = "idle" /\ Others(r)
      /\ Saved' = Saved /\ Saved \in Int /\ TypeOK
  BY <1>1, SavedKept, SavedInt DEF DryRunInv, TypeOK, Others
<1>3. CountersTyped /\ Counted1
  BY CountersParts
<1>4. Values(Zero) /\ Scraped(Zero) = 0 /\ 0 <= Saved /\ Uncounted(r)' = 0
  BY <1>2, ZeroValues, LoadedValues DEF Uncounted
<1>5. CountersTyped'
  <2>1. \A s \in Runs : Values(mem'[s])
    BY <1>2, <1>3, <1>4 DEF Others, CountersTyped
  <2> QED
    BY <1>1, <1>3, <2>1 DEF CountersTyped, Values, Scraped
<1>6. Counted1'
  <2>1. Scraped(mem'[r]) + Uncounted(r)' <= Saved
    BY <1>2, <1>4
  <2>2. \A s \in Runs : Scraped(mem'[s]) + Uncounted(s)' <= Saved
    BY <1>2, <1>3, <2>1, OthersCount DEF Counted1, Others
  <2> QED
    BY <1>1, <1>2, <1>3, <2>2 DEF Counted1, Scraped
<1>7. CountedExactly'
  <2> SUFFICES ASSUME kills = 0, ~ overlapped, ~ unwritten, pc[r] = "report"
               PROVE  /\ \A s \in Runs : pc'[s] = "idle" /\ ~ Counting(s)'
                      /\ counters.whole /\ Scraped(counters.value) + 0 + missed = Saved
                      /\ Pending' = 0
    BY <1>1, <1>2 DEF CountedExactly, Scraped
  <2>1. \A s \in Runs \ {r} : pc[s] = "idle" /\ pc'[s] = "idle"
    BY <1>2, AloneCounts
  <2>2. \A s \in Runs : /\ Uncounted(s) = 0 /\ ~ Counting(s) /\ pc[s] # "counting_saved"
                        /\ ~ Counting(s)' /\ Uncounted(s)' = 0
    BY <1>2, <2>1 DEF Uncounted, Counting
  <2>3. Pending = 0 /\ Pending' = 0
    BY <2>2, PendingAlone, PendingNext
  <2>4. counters.whole /\ Scraped(counters.value) + 0 + missed = Saved
    BY <2>2, <2>3, CountersParts DEF CountedExactly
  <2> QED
    BY <1>2, <2>1, <2>2, <2>3, <2>4
<1> QED
  BY <1>5, <1>6, <1>7 DEF CountersInv, CountersTyped, Counted1, Values

\* An exception makes r give up its file, if it has opened one.
LEMMA SaveErrorCounts ==
  ASSUME DryRunInv, DryRunInv', CountersInv, NEW r \in Runs, Others(r), SaveError(r),
         pc'[r] \in {"fetch", "parse"}
  PROVE  CountersInv'
<1>1. /\ pc[r] \in {"compare", "save", "hash", "hashing", "count_saved"}
      /\ missed' = missed + Uncounted(r)
      /\ UNCHANGED <<raw, counters, mem, kills, overlapped, unwritten>>
  BY DEF SaveError, fileVars, rawVars, metricsVars
<1>2. Saved' = Saved /\ Saved \in Int /\ missed \in Nat /\ Uncounted(r) \in {0, 1}
  BY <1>1, SavedKept, SavedInt, UncountedTyped, CountersParts DEF DryRunInv, CountersTyped
<1>3. Uncounted(r)' = 0 /\ ~ Counting(r) /\ ~ Counting(r)'
  BY <1>1 DEF Uncounted, Counting
<1>4. CountersTyped'
  BY <1>1, <1>2, CountersParts DEF CountersTyped, Values, Scraped
<1>5. \A s \in Runs : Scraped(mem[s]) \in Nat /\ Scraped(mem[s]) + Uncounted(s) <= Saved
  BY CountersParts DEF CountersTyped, Counted1, Values
<1>6. Counted1'
  <2>1. Scraped(mem[r]) + 0 <= Saved
    BY <1>2, <1>5
  <2>2. \A s \in Runs : Scraped(mem[s]) + Uncounted(s)' <= Saved
    BY <1>3, <1>5, <2>1, OthersCount
  <2> QED
    BY <1>1, <1>2, <2>2, CountersParts DEF Counted1, Scraped
<1>7. CountedExactly'
  <2> SUFFICES ASSUME kills = 0, ~ overlapped, ~ unwritten
               PROVE  /\ \A s \in Runs : pc'[s] # "idle" =>
                           Scraped(mem[s]) + Uncounted(s)' + missed' = Saved
                      /\ counters.whole <=> \A s \in Runs : ~ Counting(s)'
                      /\ Scraped(counters.value) + 0 + missed' = Saved /\ Pending' = 0
    BY <1>1, <1>2 DEF CountedExactly, Scraped
  <2>1. /\ Scraped(mem[r]) + Uncounted(r) + missed = Saved
        /\ counters.whole <=> \A s \in Runs : ~ Counting(s)
    BY <1>1, CountersParts DEF CountedExactly
  <2>2. \A s \in Runs \ {r} : /\ pc[s] = "idle" /\ pc'[s] = "idle"
                              /\ Uncounted(s) = 0 /\ Uncounted(s)' = 0
                              /\ ~ Counting(s) /\ ~ Counting(s)'
    BY <1>1, AloneCounts
  <2>3. Pending = Uncounted(r) /\ Pending' = 0
    BY <1>3, <2>2, PendingAlone, PendingNext
  <2>4. Scraped(counters.value) + Uncounted(r) + missed = Saved
    BY <1>1, <2>2, <2>3, CountersParts DEF CountedExactly
  <2>5. Scraped(counters.value) + 0 + missed' = Saved
    BY <1>1, <1>2, <2>4, CountersParts DEF CountersTyped, Values
  <2>6. Scraped(mem[r]) + Uncounted(r)' + missed' = Saved
    <3>1. Scraped(mem[r]) \in Nat
      BY <1>5
    <3>2. missed' = missed + Uncounted(r) /\ Uncounted(r)' = 0
      BY <1>1, <1>3
    <3> QED
      BY ONLY <1>2, <2>1, <3>1, <3>2
  <2> QED
    BY <1>3, <2>1, <2>2, <2>3, <2>5, <2>6
<1> QED
  BY <1>4, <1>6, <1>7 DEF CountersInv, CountersTyped, Counted1, Values

\* An exception keeps r's counters from the file, or leaves it open.
LEMMA CountErrorCounts ==
  ASSUME DryRunInv, DryRunInv', CountersInv, NEW r \in Runs, CountError(r),
         pc'[r] \in {"fetch", "parse"}, \A s \in Runs \ {r} : pc'[s] = pc[s]
  PROVE  CountersInv'
<1>1. /\ UNCHANGED <<raw, counters, missed>> /\ unwritten'
      /\ \/ /\ pc[r] = "count_saved"
            /\ mem' = [mem EXCEPT ![r] = [m \in Names |->
                         IF m = "documents_scraped" THEN mem[r][m] + 1 ELSE mem[r][m]]]
         \/ pc[r] = "counting_saved" /\ mem' = mem
  BY DEF CountError, IncrementRaises, Add, At, fileVars, rawVars, metricsVars
<1>2. Saved' = Saved /\ Saved \in Int /\ DOMAIN mem = Runs
  BY <1>1, SavedKept, SavedInt DEF DryRunInv, TypeOK
<1>3. Others(r)
  BY <1>1, <1>2 DEF Others
<1>4. Values(mem[r]) /\ Scraped(mem[r]) + Uncounted(r) <= Saved
  BY CountersParts DEF CountersTyped, Counted1
<1>5. Values(mem'[r]) /\ Scraped(mem'[r]) <= Saved
  <2>1. CASE pc[r] = "count_saved"
    <3>1. mem'[r] = [m \in Names |->
                       IF m = "documents_scraped" THEN mem[r][m] + 1 ELSE mem[r][m]]
      BY <1>1, <1>2, <2>1
    <3>2. Scraped(mem[r]) \in Nat
      BY <1>4 DEF Values
    <3>3. Scraped(mem'[r]) = Scraped(mem[r]) + 1
      BY <3>1 DEF Scraped
    <3>4. mem'[r] = [m \in Names |-> mem'[r][m]]
      BY <3>1
    <3>5. Uncounted(r) = 1
      BY <2>1 DEF Uncounted
    <3> QED
      BY <1>4, <3>2, <3>3, <3>4, <3>5 DEF Values
  <2>2. CASE pc[r] = "counting_saved"
    <3>1. mem'[r] = mem[r] /\ Uncounted(r) = 0
      BY <1>1, <2>2 DEF Uncounted
    <3>2. Scraped(mem[r]) \in Nat
      BY <1>4 DEF Values
    <3> QED
      BY <1>2, <1>4, <3>1, <3>2
  <2> QED
    BY <1>1, <2>1, <2>2
<1>6. CountersTyped'
  <2>1. \A s \in Runs : Values(mem'[s])
    BY <1>3, <1>5, CountersParts DEF Others, CountersTyped
  <2> QED
    BY <1>1, <2>1, CountersParts DEF CountersTyped, Values, Scraped
<1>7. Counted1'
  <2>1. Uncounted(r)' = 0 /\ Scraped(mem'[r]) \in Nat
    BY <1>5 DEF Uncounted, Values
  <2>2. Scraped(mem'[r]) + Uncounted(r)' <= Saved
    BY <1>2, <1>5, <2>1
  <2>3. \A s \in Runs : Scraped(mem'[s]) + Uncounted(s)' <= Saved
    BY <1>3, <2>2, OthersCount, CountersParts DEF Counted1, Others
  <2> QED
    BY <1>1, <1>2, <2>3, CountersParts DEF Counted1, Scraped
<1>8. CountedExactly'
  BY <1>1 DEF CountedExactly
<1> QED
  BY <1>6, <1>7, <1>8 DEF CountersInv, CountersTyped, Counted1, Values

\* A text is published, or nothing happens.
LEMMA NothingCounted ==
  ASSUME CountersInv, UNCHANGED <<raw, counters, mem, pc, kills, overlapped, missed, unwritten>>
  PROVE  CountersInv'
<1>1. Saved' = Saved
  BY SavedKept
<1>2. \A s \in Runs : Uncounted(s)' = Uncounted(s) /\ (Counting(s)' <=> Counting(s))
  BY DEF Uncounted, Counting
<1>3. CountersTyped' /\ Counted1' /\ CountedExactly'
  BY <1>1, <1>2, CountersParts DEF CountersTyped, Counted1, CountedExactly, Pending,
                                 Values, Scraped
<1> QED
  BY <1>3 DEF CountersInv, CountersTyped, Counted1, Values

-----------------------------------------------------------------------------
LEMMA PcFrame ==
  ASSUME NEW r \in Runs, StepOK(r), \A s \in Runs \ {r} : mem'[s] = mem[s]
  PROVE  Others(r)
BY DEF StepOK, Frame, Others

LEMMA CollectCounts ==
  ASSUME DryRunInv, DryRunInv', CountersInv, NEW r \in Runs, Collect(r)
  PROVE  CountersInv'
<1>0. TypeOK /\ TypeOK' /\ DOMAIN mem = Runs
  BY DEF DryRunInv, TypeOK
<1> DEFINE Quiet == /\ UNCHANGED <<raw, counters, mem, kills, overlapped, missed, unwritten>>
                    /\ StepOK(r)
                    /\ pc[r] # "idle" /\ pc'[r] # "idle" /\ Uncounted(r)' = Uncounted(r)
                    /\ ~ Counting(r) /\ ~ Counting(r)'
<1>1. ASSUME Quiet PROVE CountersInv'
  BY <1>1, PcFrame, NotCounting
<1>2. CASE Fetch(r)
  <2>1. /\ pc[r] = "fetch" /\ pc'[r] = "compare"
        /\ UNCHANGED <<raw, counters, mem, kills, overlapped, missed, unwritten>>
    BY <1>0, <1>2 DEF Fetch, At, Goto, TypeOK, fileVars, rawVars, historyVars, metricsVars
  <2> QED
    BY <1>1, <1>2, <2>1, FetchStep DEF Uncounted, Counting
<1>3. ASSUME FetchFails(r) \/ Unchanged(r) PROVE CountersInv'
  <2>1. /\ NextRegulator(r, "fetch", "parse") /\ pc[r] \in {"fetch", "compare"}
        /\ UNCHANGED <<raw, counters, mem, kills, overlapped, missed, unwritten>>
    BY <1>3 DEF FetchFails, Unchanged, At, fileVars, rawVars, historyVars, metricsVars
  <2>2. pc'[r] \in {"fetch", "parse"}
    BY <1>0, <2>1, NextRegulatorStep DEF Stages
  <2> QED
    BY <1>1, <1>3, <2>1, <2>2, FetchFailsStep, UnchangedStep DEF Uncounted, Counting
<1>4. CASE OpenRaw(r)
  <2>1. mem' = mem
    BY <1>4 DEF OpenRaw, metricsVars
  <2> QED
    BY <1>4, <2>1, OpenRawStep, PcFrame, OpenRawCounts
<1>5. CASE WriteRaw(r) \/ OpenHash(r) \/ WriteHash(r)
  <2>1. /\ pc[r] \in {"save", "hash", "hashing"} /\ pc'[r] \in {"hash", "hashing", "count_saved"}
        /\ UNCHANGED <<raw, counters, mem, kills, overlapped, missed, unwritten>>
    BY <1>0, <1>5 DEF WriteRaw, OpenHash, WriteHash, At, Goto, TypeOK, historyVars, metricsVars
  <2> QED
    BY <1>1, <1>5, <2>1, WriteRawStep, OpenHashStep, WriteHashStep DEF Uncounted, Counting
<1>6. CASE CountSaved(r)
  <2>1. /\ pc[r] = "count_saved" /\ pc'[r] = "counting_saved"
        /\ Increment(r, "documents_scraped", 1)
        /\ UNCHANGED <<raw, kills, overlapped, missed, unwritten>>
    BY <1>0, <1>6 DEF CountSaved, At, Goto, TypeOK, fileVars, rawVars, historyVars
  <2>2. Others(r)
    BY <1>0, <1>6, <2>1, CountSavedStep, PcFrame DEF Increment, Add
  <2>3. Uncounted(r) = 1 /\ ~ Counting(r) /\ Counting(r)'
    BY <2>1 DEF Uncounted, Counting
  <2> QED
    BY <2>1, <2>2, <2>3, IncrementCounts
<1>7. CASE SavedCounted(r)
  <2>1. /\ pc[r] = "counting_saved" /\ NextRegulator(r, "fetch", "parse")
        /\ Persist(r) /\ UNCHANGED <<raw, kills, overlapped, missed, unwritten>>
    BY <1>7 DEF SavedCounted, At, fileVars, rawVars, historyVars
  <2>2. pc'[r] \in {"fetch", "parse"}
    BY <1>0, <2>1, NextRegulatorStep DEF Stages
  <2>3. Others(r)
    BY <1>7, <2>1, SavedCountedStep, PcFrame DEF Persist
  <2> QED
    BY <2>1, <2>2, <2>3, PersistCounts DEF Uncounted, Counting
<1>8. CASE SaveError(r) \/ CountError(r)
  <2>1. NextRegulator(r, "fetch", "parse") /\ StepOK(r)
    BY <1>8, CollectErrorStep DEF SaveError, CountError
  <2>2. pc'[r] \in {"fetch", "parse"} /\ \A s \in Runs \ {r} : pc'[s] = pc[s]
    BY <1>0, <2>1, NextRegulatorStep DEF Stages
  <2>3. CASE SaveError(r)
    <3>1. mem' = mem
      BY <2>3 DEF SaveError, metricsVars
    <3> QED
      BY <2>1, <2>2, <2>3, <3>1, PcFrame, SaveErrorCounts
  <2> QED
    BY <1>8, <2>2, <2>3, CountErrorCounts
<1> QED
  BY <1>2, <1>3, <1>4, <1>5, <1>6, <1>7, <1>8 DEF Collect

LEMMA ProcessCounts ==
  ASSUME DryRunInv, DryRunInv', CountersInv, NEW r \in Runs, Process(r)
  PROVE  CountersInv'
<1>0. TypeOK
  BY DEF DryRunInv
<1>1. StepOK(r)
  BY SkipEmptyStep, ReadNewestStep, OpenChunkStep, WriteChunkStep, FinishDocumentStep DEF Process
<1>2. UNCHANGED <<raw, counters, mem, kills, overlapped, missed, unwritten>>
  BY DEF Process, SkipEmpty, ReadNewest, OpenChunk, WriteChunk, FinishDocument, fileVars, rawVars,
         historyVars, metricsVars
<1>3. pc[r] \in {"parse", "chunk", "chunking"}
  BY DEF Process, SkipEmpty, ReadNewest, OpenChunk, WriteChunk, FinishDocument, At
<1>4. pc'[r] \in {"parse", "chunk", "chunking", "embed"}
  <2>1. CASE SkipEmpty(r) \/ FinishDocument(r)
    <3>1. NextRegulator(r, "parse", "embed")
      BY <2>1 DEF SkipEmpty, FinishDocument
    <3> QED
      BY <1>0, <3>1, NextRegulatorStep DEF Stages
  <2>2. CASE ReadNewest(r) \/ OpenChunk(r) \/ WriteChunk(r)
    BY <1>0, <2>2 DEF ReadNewest, OpenChunk, WriteChunk, Goto, TypeOK
  <2> QED
    BY <2>1, <2>2 DEF Process
<1> QED
  BY <1>1, <1>2, <1>3, <1>4, PcFrame, NotCounting DEF Uncounted, Counting

LEMMA ConcludeCounts ==
  ASSUME DryRunInv, DryRunInv', CountersInv, NEW r \in Runs, Conclude(r)
  PROVE  CountersInv'
<1>0. TypeOK /\ DOMAIN mem = Runs
  BY DEF DryRunInv, TypeOK
<1>1. CASE Embed(r) \/ Analyse(r) \/ OpenSummary(r) \/ WriteSummary(r)
  <2>1. StepOK(r)
    BY <1>1, EmbedStep, AnalyseStep, OpenSummaryStep, WriteSummaryStep
  <2>2. UNCHANGED <<raw, counters, mem, kills, overlapped, missed, unwritten>>
    BY <1>1 DEF Embed, Analyse, ReadFiles, OpenSummary, WriteSummary, rawVars, historyVars,
                metricsVars
  <2>3. pc[r] \in {"embed", "analyse", "summary", "summarising"}
    BY <1>1 DEF Embed, Analyse, OpenSummary, WriteSummary, At
  <2>4. pc'[r] \in {"load_embedded", "load_analysed", "summarising", "report"}
    BY <1>0, <1>1 DEF Embed, Analyse, ReadFiles, OpenSummary, WriteSummary, Goto, TypeOK
  <2> QED
    BY <2>1, <2>2, <2>3, <2>4, PcFrame, NotCounting DEF Uncounted, Counting
<1>2. ASSUME NEW load \in {"load_embedded", "load_analysed"},
             NEW count \in {"count_embedded", "count_analysed"},
             NEW skip \in {"analyse", "summary"}, LoadCounters(r, load, count, skip)
      PROVE  CountersInv'
  <2>1. StepOK(r)
    BY <1>2, LoadCountersStep
  <2>2. /\ pc[r] = load /\ pc'[r] \in {count, skip} /\ Load(r)
        /\ UNCHANGED <<raw, kills, overlapped, missed, unwritten>>
    BY <1>0, <1>2 DEF LoadCounters, At, Goto, TypeOK, fileVars, rawVars, historyVars
  <2>3. Others(r)
    BY <1>0, <2>1, <2>2, PcFrame DEF Load
  <2>4. ~ overlapped => \A s \in Runs \ {r} : kills = 0 => pc[s] = "idle"
    BY <2>2, Alone
  <2> QED
    BY <2>2, <2>3, <2>4, LoadCounts DEF Uncounted, Counting
<1>3. ASSUME NEW count \in {"count_embedded", "count_analysed"},
             NEW name \in {"embeddings_generated", "obligations_extracted"},
             NEW counting \in {"counting_embedded", "counting_analysed"},
             Count(r, count, name, counting)
      PROVE  CountersInv'
  <2>1. StepOK(r)
    BY <1>3, CountStep
  <2>2. /\ pc[r] = count /\ pc'[r] = counting /\ Increment(r, name, Cardinality(got[r]))
        /\ UNCHANGED <<raw, kills, overlapped, missed, unwritten>>
    BY <1>0, <1>3 DEF Count, At, Goto, TypeOK, fileVars, rawVars, historyVars
  <2>3. Others(r)
    BY <1>0, <2>1, <2>2, PcFrame DEF Increment, Add
  <2>4. /\ name # "documents_scraped" /\ Uncounted(r) = 0 /\ ~ Counting(r) /\ Counting(r)'
        /\ pc[r] # "idle" /\ pc'[r] # "idle" /\ pc'[r] # "counting_saved"
    BY <2>2 DEF Uncounted, Counting
  <2> QED
    BY <2>2, <2>3, <2>4, IncrementCounts
<1>4. ASSUME NEW counting \in {"counting_embedded", "counting_analysed"}, NEW logged,
             NEW label \in {"analyse", "summary"}, Counted(r, counting, logged, label), StepOK(r)
      PROVE  CountersInv'
  <2>1. /\ pc[r] = counting /\ pc'[r] = label /\ Persist(r)
        /\ UNCHANGED <<raw, kills, overlapped, missed, unwritten>>
    BY <1>0, <1>4 DEF Counted, At, Goto, TypeOK, rawVars, historyVars
  <2>2. Others(r)
    BY <1>4, <2>1, PcFrame DEF Persist
  <2> QED
    BY <2>1, <2>2, PersistCounts DEF Uncounted, Counting
<1>5. CASE CountEmbedded(r)
  BY <1>2, <1>3, <1>4, <1>5, CountedEmbeddedStep DEF CountEmbedded
<1>6. CASE CountObligations(r)
  BY <1>2, <1>3, <1>4, <1>6, CountedObligationsStep DEF CountObligations
<1>7. CASE EmbedRaises(r) \/ AnalyseRaises(r) \/ ReportRaises(r)
  <2>1. /\ Exit(r) /\ UNCHANGED <<raw, kills, overlapped, missed, unwritten>>
        /\ pc[r] \in {"embed", "analyse", "report"} /\ (torn # {} \/ ~ summary.whole)
    BY <1>7 DEF EmbedRaises, AnalyseRaises, ReportRaises, Abort, At, fileVars, rawVars
  <2>2. ~ (kills = 0 /\ ~ overlapped)
    BY <2>1, Alone
  <2> QED
    BY <2>1, <2>2, ExitCounts
<1>8. CASE Report(r)
  <2>1. Exit(r) /\ pc[r] = "report" /\ UNCHANGED <<raw, kills, overlapped, missed, unwritten>>
    BY <1>8 DEF Report, At, rawVars, historyVars
  <2> QED
    BY <2>1, ExitCounts
<1> QED
  BY <1>1, <1>5, <1>6, <1>7, <1>8 DEF Conclude

LEMMA NextKeepsCounters == DryRunInv /\ DryRunInv' /\ CountersInv /\ [Next]_vars => CountersInv'
<1> SUFFICES ASSUME DryRunInv, DryRunInv', CountersInv, [Next]_vars PROVE CountersInv'
  OBVIOUS
<1>1. CASE UNCHANGED vars \/ \E g \in Regulators : Publish(g)
  <2>1. UNCHANGED <<raw, counters, mem, pc, kills, overlapped, missed, unwritten>>
    BY <1>1 DEF Publish, vars, fileVars, rawVars, runVars, historyVars, metricsVars
  <2> QED
    BY <2>1, NothingCounted
<1>2. ASSUME NEW r \in Runs, Start(r) PROVE CountersInv'
  <2>1. /\ pc[r] = "idle" /\ pc'[r] = "fetch" /\ Load(r)
        /\ UNCHANGED <<raw, kills, missed, unwritten>>
        /\ overlapped' = (overlapped \/ \E s \in Runs : pc[s] # "idle")
    BY <1>2 DEF Start, At, Goto, DryRunInv, TypeOK, fileVars, rawVars
  <2>2. Others(r)
    BY <1>2, <2>1, StartStep, PcFrame DEF Load, DryRunInv, TypeOK
  <2> QED
    BY <2>1, <2>2, LoadCounts DEF Uncounted, Counting
<1>3. ASSUME NEW r \in Runs, Kill(r) PROVE CountersInv'
  <2>1. Exit(r) /\ UNCHANGED <<raw, missed, unwritten>> /\ kills' # 0
    BY <1>3 DEF Kill, fileVars, rawVars, DryRunInv, TypeOK
  <2> QED
    BY <2>1, ExitCounts
<1> QED
  BY <1>1, <1>2, <1>3, CollectCounts, ProcessCounts, ConcludeCounts DEF Next

LEMMA InitCounters == Init => CountersInv
<1> SUFFICES ASSUME Init PROVE CountersInv
  OBVIOUS
<1>1. /\ counters = [whole |-> TRUE, value |-> Zero] /\ \A r \in Runs : mem[r] = Zero
      /\ \A r \in Runs : pc[r] = "idle"
      /\ \A g \in Regulators : Len(raw[g]) = 0 /\ raw[g] = <<>>
  BY DEF Init, InitMetrics
<1>2. Saved = 0
  <2>1. PICK f : f = Lengths
    OBVIOUS
  <2>2. \A g \in Regulators : f[g] = 0
    BY <1>1, <2>1 DEF Lengths
  <2>3. SumOf(f, Regulators) = 0
    BY <2>2, RegulatorsFinite, SumZero
  <2> QED
    BY <2>1, <2>3, SavedIsSum
<1>3. \A r \in Runs : Uncounted(r) = 0 /\ ~ Counting(r)
  BY <1>1 DEF Uncounted, Counting
<1>4. CountersTyped /\ Counted1 /\ CountedExactly
  BY <1>1, <1>2, <1>3, ZeroValues DEF CountersTyped, Counted1, CountedExactly, Pending, Init
<1> QED
  BY <1>4, CountersParts

(* increment and _persist: whatever runs overlap and wherever they are     *)
(* killed, nobody's copy of the counters is ahead of the files; a run that *)
(* nothing disturbs counts each of them, but for those that an exception   *)
(* makes it give up.                                                       *)
THEOREM CountersInvariance == Spec => []CountersInv
<1> QED
  BY InitCounters, NextKeepsCounters, Invariance, PTL DEF Spec

(* The counter of scraped documents, the raw files, and those given up.    *)
THEOREM CountersFollowHolds == Spec => []CountersFollow
<1>1. CountersInv => CountersFollow
  <2> SUFFICES ASSUME CountersInv PROVE CountersFollow
    OBVIOUS
  <2>1. CountersTyped /\ Counted1 /\ CountedExactly
    BY CountersParts
  <2>2. ASSUME kills = 0, ~ overlapped, ~ unwritten, \A r \in Runs : pc[r] = "idle"
        PROVE  counters.whole /\ counters.value["documents_scraped"] + missed = Saved
    <3>1. \A r \in Runs : Uncounted(r) = 0 /\ ~ Counting(r)
      BY <2>2 DEF Uncounted, Counting
    <3>2. Scraped(counters.value) + 0 + missed = Saved
      BY <2>1, <2>2, <3>1 DEF CountedExactly, Pending
    <3> QED
      BY <2>1, <2>2, <3>1, <3>2 DEF CountedExactly, Scraped, CountersTyped, Values
  <2> QED
    BY <2>1, <2>2 DEF CountersFollow, Counted1, Scraped
<1> QED
  BY <1>1, CountersInvariance, PTL

-----------------------------------------------------------------------------
(***************************************************************************)
(* CurrentInv.  As long as runs do not overlap, the others are idle, and   *)
(* what has to be shown of a step is what it makes of the texts of its run. *)
(***************************************************************************)
Files ==
  /\ collected \in [Runs -> SUBSET (Regulators \X Texts)]
  /\ report.collected \subseteq Regulators \X Texts
  /\ IsFiniteSet(ChunkFiles)
  /\ \A k \in ChunkFiles : k.regulator \in Regulators /\ k.no \in Nat /\ k.idx \in Nat

Progress(r) == InHand(r) /\ \A f \in collected[r] : Made(r, f[1], f[2])
AllOrdered == \A g \in Regulators : Ordered(g)
OneRun == \A r, s \in Runs : pc[r] # "idle" /\ pc[s] # "idle" => r = s

LEMMA CurrentParts ==
  CurrentInv <=> /\ Files /\ ReportCurrent
                 /\ ~ overlapped => OneRun /\ AllOrdered /\ \A r \in Runs : Progress(r)
BY DEF CurrentInv, Files, OneRun, AllOrdered, Progress

LEMMA IdleProgress ==
  ASSUME NEW r \in Runs, pc[r] = "idle", collected[r] = {}
  PROVE  Progress(r)
BY DEF Progress, InHand

LEMMA IdleCollected ==
  ASSUME NEW r \in Runs, pc[r] = "idle", Progress(r)
  PROVE  collected[r] = {}
BY DEF Progress, Made

(***************************************************************************)
(* What the files hold stays held.                                          *)
(***************************************************************************)
LEMMA FilesGrow ==
  ASSUME NEW F, NEW G, IsFiniteSet(G), F \subseteq G, Cardinality(G) <= Limit
  PROVE  Cardinality(F) <= Limit
<1>1. IsFiniteSet(F) /\ Cardinality(F) <= Cardinality(G)
  BY FS_Subset
<1>2. Cardinality(F) \in Nat /\ Cardinality(G) \in Nat
  BY <1>1, FS_CardinalityType
<1> QED
  BY <1>1, <1>2

LEMMA KeptCovered ==
  ASSUME NEW r \in Runs, Frame(r), IsFiniteSet(ChunkFiles'), NEW g \in Regulators, NEW t, NEW c,
         Covered(g, t, c), Cardinality(ChunkFiles') <= Limit
  PROVE  \E no \in DOMAIN raw'[g] : raw'[g][no] = t /\ KeysOf(g, no, Pieces[t]) \subseteq c
<1>1. Cardinality(ChunkFiles) <= Limit
  BY FilesGrow DEF Frame
<1>2. PICK no \in DOMAIN raw[g] : raw[g][no] = t /\ KeysOf(g, no, Pieces[t]) \subseteq c
  BY <1>1 DEF Covered
<1> QED
  BY <1>2 DEF Frame

LEMMA KeptReport ==
  ASSUME NEW r \in Runs, Frame(r), Files, Files', ReportCurrent,
         report' = report, ~ overlapped' => ~ overlapped
  PROVE  ReportCurrent'
<1> SUFFICES ASSUME ~ overlapped', Cardinality(ChunkFiles') <= Limit, NEW f \in report.collected
             PROVE  \E no \in DOMAIN raw'[f[1]] :
                      raw'[f[1]][no] = f[2] /\ KeysOf(f[1], no, Pieces[f[2]]) \subseteq report.covers
  BY DEF ReportCurrent, KeysOf, Key
<1>1. f[1] \in Regulators
  BY DEF Files
<1>2. Covered(f[1], f[2], report.covers)
  BY DEF ReportCurrent, Covered
<1> QED
  BY <1>1, <1>2, KeptCovered DEF Files

\* What has to be shown of a step of r, which is not its start.
CurrentStep(r) ==
  /\ Files' /\ UNCHANGED overlapped
  /\ pc[r] # "idle" /\ \A s \in Runs \ {r} : collected'[s] = collected[s]
  /\ ~ overlapped => AllOrdered' /\ Progress(r)'

LEMMA StepKeepsCurrent ==
  ASSUME CurrentInv, NEW r \in Runs, Frame(r), CurrentStep(r), ReportCurrent'
  PROVE  CurrentInv'
<1> SUFFICES ASSUME ~ overlapped PROVE OneRun' /\ \A s \in Runs : Progress(s)'
  BY DEF CurrentStep, CurrentInv, Files, OneRun, AllOrdered, Progress
<1>1. OneRun /\ \A s \in Runs : Progress(s)
  BY CurrentParts
<1>2. \A s \in Runs \ {r} : pc[s] = "idle" /\ pc'[s] = "idle"
  BY <1>1 DEF OneRun, CurrentStep, Frame
<1>3. ASSUME NEW s \in Runs, s # r PROVE Progress(s)'
  <2>1. collected'[s] = {}
    BY <1>1, <1>2, <1>3, IdleCollected DEF CurrentStep
  <2> QED
    BY <1>2, <1>3, <2>1 DEF Progress, InHand
<1>4. OneRun'
  BY <1>2 DEF OneRun
<1> QED
  BY <1>3, <1>4 DEF CurrentStep

-----------------------------------------------------------------------------
(***************************************************************************)
(* What a step leaves held, cut and covered.                                *)
(***************************************************************************)
SameRaw == UNCHANGED <<raw, rawTorn>>

LEMMA SameHeld ==
  ASSUME SameRaw, NEW g, NEW t
  PROVE  Held(g, t)' <=> Held(g, t)
BY DEF SameRaw, Held, LastRaw

LEMMA KeptCut ==
  ASSUME SameRaw, ChunkFiles \subseteq ChunkFiles', NEW g, NEW t, Cut(g, t)
  PROVE  Cut(g, t)'
BY SameHeld DEF SameRaw, Cut, KeysOf, Key

LEMMA SameOrdered ==
  ASSUME SameRaw, UNCHANGED <<hash, newest>>, AllOrdered,
         \A g \in Regulators : site'[g] = site[g]
  PROVE  AllOrdered'
<1> SUFFICES ASSUME NEW g \in Regulators PROVE Ordered(g)'
  BY DEF AllOrdered
<1>1. Ordered(g)
  BY DEF AllOrdered
<1>2. ASSUME NEW t PROVE Held(g, t)' <=> Held(g, t)
  BY SameHeld
<1> QED
  BY <1>1, <1>2 DEF Ordered, SameRaw, LastRaw, Held

LEMMA SameFiles ==
  ASSUME Files, UNCHANGED <<collected, report, chunks, torn>>
  PROVE  Files'
BY DEF Files, ChunkFiles

\* A regulator occurs once among those that are enabled.
LEMMA PassedOnce ==
  ASSUME TypeOK, NEW r \in Runs, Passed(r, Regulator(r))
  PROVE  FALSE
<1>1. at[r] \in DOMAIN RegulatorSeq /\ DOMAIN RegulatorSeq = 1..Len(RegulatorSeq)
  BY RegulatorSeqLen DEF TypeOK
<1>2. PICK i \in 1..(at[r] - 1) : RegulatorSeq[i] = RegulatorSeq[at[r]]
  BY DEF Passed, Regulator
<1>3. i \in DOMAIN RegulatorSeq /\ i # at[r]
  BY <1>1, <1>2, RegulatorSeqLen
<1> QED
  BY <1>1, <1>2, <1>3 DEF IsInjective

(***************************************************************************)
(* The loops: the next regulator, or the end of the loop.                   *)
(***************************************************************************)
LEMMA NextPassed ==
  ASSUME TypeOK, NEW r \in Runs, NEW label \in Stages, NEW done \in Stages,
         NextRegulator(r, label, done)
  PROVE  \/ /\ pc'[r] = label
            /\ \A g : Passed(r, g)' <=> Passed(r, g) \/ g = Regulator(r)
         \/ /\ pc'[r] = done
            /\ \A g : ~ Passed(r, g)'
            /\ \A g \in Regulators : Passed(r, g) \/ g = Regulator(r)
<1>1. at[r] \in 1..Len(RegulatorSeq) /\ DOMAIN RegulatorSeq = 1..Len(RegulatorSeq)
      /\ Len(RegulatorSeq) \in Nat
  BY RegulatorSeqLen DEF TypeOK
<1>2. CASE at[r] < Len(RegulatorSeq)
  <2>1. pc'[r] = label /\ at'[r] = at[r] + 1
    BY <1>2 DEF NextRegulator, Goto, TypeOK
  <2>2. 1..(at'[r] - 1) = 1..(at[r] - 1) \cup {at[r]}
    BY <1>1, <2>1
  <2> QED
    BY <2>1, <2>2 DEF Passed, Regulator
<1>3. CASE ~ (at[r] < Len(RegulatorSeq))
  <2>1. pc'[r] = done /\ at'[r] = 1
    BY <1>3 DEF NextRegulator, Goto, TypeOK
  <2>2. 1..(at'[r] - 1) = {}
    BY <2>1
  <2>3. 1..Len(RegulatorSeq) = 1..(at[r] - 1) \cup {at[r]}
    BY <1>1, <1>3
  <2>4. \A g \in Regulators : \E i \in 1..Len(RegulatorSeq) : RegulatorSeq[i] = g
    BY <1>1 DEF Regulators, Range
  <2> QED
    BY <2>1, <2>2, <2>3, <2>4 DEF Passed, Regulator
<1> QED
  BY <1>2, <1>3

LEMMA CollectedNext ==
  ASSUME TypeOK, Files, NEW r \in Runs, NextRegulator(r, "fetch", "parse"), SameRaw,
         \A f \in collected'[r] : Held(f[1], f[2]) /\ (Passed(r, f[1]) \/ f[1] = Regulator(r))
  PROVE  Progress(r)'
<1>1. \/ /\ pc'[r] = "fetch"
         /\ \A g : Passed(r, g)' <=> Passed(r, g) \/ g = Regulator(r)
      \/ pc'[r] = "parse" /\ \A g : ~ Passed(r, g)'
  BY NextPassed DEF Stages
<1>2. InHand(r)'
  BY <1>1 DEF InHand
<1>3. ASSUME NEW f \in collected'[r] PROVE Made(r, f[1], f[2])'
  <2>1. Held(f[1], f[2])' /\ (Passed(r, f[1]) \/ f[1] = Regulator(r))
    BY SameHeld
  <2> QED
    BY <1>1, <2>1 DEF Made, Collecting, Processing, Reading, Concluding
<1> QED
  BY <1>2, <1>3 DEF Progress

LEMMA ProcessedNext ==
  ASSUME TypeOK, Files, NEW r \in Runs, NextRegulator(r, "parse", "embed"), SameRaw,
         UNCHANGED <<collected, chunks, torn>>,
         \A f \in collected[r] : /\ Held(f[1], f[2])
                                 /\ Passed(r, f[1]) \/ f[1] = Regulator(r) => Cut(f[1], f[2])
  PROVE  Progress(r)'
<1>1. \/ /\ pc'[r] = "parse"
         /\ \A g : Passed(r, g)' <=> Passed(r, g) \/ g = Regulator(r)
      \/ /\ pc'[r] = "embed"
         /\ \A g \in Regulators : Passed(r, g) \/ g = Regulator(r)
  BY NextPassed DEF Stages
<1>2. InHand(r)'
  BY <1>1 DEF InHand
<1>3. ASSUME NEW f \in collected[r] PROVE Made(r, f[1], f[2])'
  <2>1. Held(f[1], f[2])' /\ f[1] \in Regulators
    BY SameHeld DEF Files
  <2>2. Passed(r, f[1]) \/ f[1] = Regulator(r) => Cut(f[1], f[2])'
    BY KeptCut DEF ChunkFiles
  <2> QED
    BY <1>1, <2>1, <2>2 DEF Made, Collecting, Processing, Reading, Concluding
<1> QED
  BY <1>2, <1>3 DEF Progress

-----------------------------------------------------------------------------
(***************************************************************************)
(* Collection.                                                              *)
(***************************************************************************)
LEMMA QuietKeepsCurrent ==
  ASSUME CurrentInv, NEW r \in Runs, StepOK(r), report' = report, CurrentStep(r)
  PROVE  CurrentInv'
<1>1. Frame(r) /\ Files' /\ (~ overlapped' => ~ overlapped)
  BY DEF StepOK, CurrentStep
<1>2. ReportCurrent'
  BY <1>1, CurrentParts, KeptReport
<1> QED
  BY <1>1, <1>2, StepKeepsCurrent

\* What is known of the collected texts of a run that is collecting.
LEMMA CollectMade ==
  ASSUME NEW r \in Runs, pc[r] \in Collecting, NEW g, NEW t
  PROVE  Made(r, g, t) <=> Passed(r, g) /\ Held(g, t)
BY DEF Made, Collecting, Processing, Reading, Concluding

LEMMA FetchCurrent ==
  ASSUME DryRunInv, CurrentInv, NEW r \in Runs, Fetch(r)
  PROVE  CurrentInv'
<1> DEFINE g == Regulator(r)
<1>0. TypeOK /\ Files /\ g \in Regulators /\ site[g] \in Texts
  BY CurrentParts, RegulatorTyped DEF DryRunInv, TypeOK
<1>1. /\ pc[r] = "fetch" /\ pc'[r] = "compare" /\ at' = at /\ doc'[r].text = site[g]
      /\ SameRaw /\ UNCHANGED <<site, hash, newest, chunks, torn, report, collected, overlapped>>
  BY <1>0 DEF Fetch, At, Goto, TypeOK, NoDoc, SameRaw, fileVars, rawVars, chunkVars, resultVars,
              historyVars
<1>3. Files'
  BY <1>0, <1>1, SameFiles
<1>4. ASSUME ~ overlapped PROVE AllOrdered' /\ Progress(r)'
  <2>1. AllOrdered /\ Progress(r)
    BY <1>4, CurrentParts
  <2>2. AllOrdered'
    BY <1>1, <2>1, SameOrdered
  <2>3. Regulator(r)' = g
    BY <1>1 DEF Regulator
  <2>4. Ordered(g) /\ site[g] <= site[g]
    BY <1>0, <2>1 DEF AllOrdered, Texts
  <2>5. InHand(r)'
    BY <1>1, <2>3, <2>4 DEF InHand, Ordered, SameRaw, LastRaw
  <2>6. ASSUME NEW f \in collected[r] PROVE Made(r, f[1], f[2])'
    <3>1. Passed(r, f[1]) /\ Held(f[1], f[2])
      BY <1>1, <2>1, <2>6, CollectMade DEF Progress, Collecting
    <3>2. Passed(r, f[1])' /\ Held(f[1], f[2])'
      BY <1>1, <3>1, SameHeld DEF Passed
    <3> QED
      BY <1>1, <3>2 DEF Made, Collecting, Processing, Reading, Concluding
  <2> QED
    BY <1>1, <2>2, <2>5, <2>6 DEF Progress
<1>5. CurrentStep(r)
  BY <1>1, <1>3, <1>4 DEF CurrentStep
<1> QED
  BY <1>1, <1>5, FetchStep, QuietKeepsCurrent

\* The loop goes on to the next regulator.
LEMMA CollectNextCurrent ==
  ASSUME DryRunInv, CurrentInv, NEW r \in Runs, NextRegulator(r, "fetch", "parse"), StepOK(r),
         pc[r] \in Collecting, SameRaw,
         UNCHANGED <<site, hash, newest, chunks, torn, report, overlapped>>,
         collected' = collected \/ (Collected(r) /\ doc[r].text \in Texts),
         ~ overlapped =>
           \A f \in collected'[r] : Held(f[1], f[2]) /\ (Passed(r, f[1]) \/ f[1] = Regulator(r))
  PROVE  CurrentInv'
<1>0. Files /\ TypeOK /\ Regulator(r) \in Regulators
  BY CurrentParts, RegulatorTyped DEF DryRunInv
<1>1. Files' /\ \A s \in Runs \ {r} : collected'[s] = collected[s]
  <2>1. CASE collected' = collected
    BY <1>0, <2>1, SameFiles
  <2>2. CASE Collected(r) /\ doc[r].text \in Texts
    <3>1. /\ collected' = [collected EXCEPT
                            ![r] = collected[r] \cup {<<Regulator(r), doc[r].text>>}]
          /\ collected \in [Runs -> SUBSET (Regulators \X Texts)]
      BY <1>0, <2>2 DEF Collected, Files
    <3>2. <<Regulator(r), doc[r].text>> \in Regulators \X Texts
      BY <1>0, <2>2
    <3>3. ChunkFiles' = ChunkFiles /\ report' = report
      BY DEF ChunkFiles
    <3>4. collected' \in [Runs -> SUBSET (Regulators \X Texts)]
      BY <3>1, <3>2
    <3> QED
      BY <1>0, <3>1, <3>3, <3>4 DEF Files
  <2> QED
    BY <2>1, <2>2
<1>2. ASSUME ~ overlapped PROVE AllOrdered' /\ Progress(r)'
  BY <1>0, <1>2, CurrentParts, SameOrdered, CollectedNext
<1>3. CurrentStep(r)
  BY <1>1, <1>2 DEF CurrentStep, Collecting
<1> QED
  BY <1>3, QuietKeepsCurrent

\* A failure promises nothing, and what was held before it stays held.
LEMMA FailureCurrent ==
  ASSUME DryRunInv, CurrentInv, NEW r \in Runs, FetchFails(r) \/ SaveError(r) \/ CountError(r)
  PROVE  CurrentInv'
<1>1. /\ pc[r] \in Collecting /\ NextRegulator(r, "fetch", "parse") /\ SameRaw
      /\ UNCHANGED <<site, hash, newest, chunks, torn, report, collected, overlapped>>
  BY DEF FetchFails, SaveError, CountError, Collecting, At, SameRaw, fileVars, rawVars, chunkVars,
         resultVars
<1>2. ASSUME ~ overlapped, NEW f \in collected[r] PROVE Passed(r, f[1]) /\ Held(f[1], f[2])
  <2>1. Made(r, f[1], f[2])
    BY <1>2, CurrentParts DEF Progress
  <2> QED
    BY <1>1, <2>1, CollectMade
<1>3. StepOK(r)
  BY FetchFailsStep, CollectErrorStep
<1> QED
  BY <1>1, <1>2, <1>3, CollectNextCurrent

LEMMA UnchangedCurrent ==
  ASSUME DryRunInv, CurrentInv, NEW r \in Runs, Unchanged(r)
  PROVE  CurrentInv'
<1> DEFINE g == Regulator(r)
<1>1. /\ pc[r] = "compare" /\ NextRegulator(r, "fetch", "parse") /\ SameRaw
      /\ hash[g] = doc[r].text
      /\ UNCHANGED <<site, hash, newest, chunks, torn, report, overlapped>> /\ Collected(r)
  BY DEF Unchanged, At, SameRaw, fileVars, rawVars, chunkVars, resultVars, historyVars
<1>2. TypeOK /\ g \in Regulators /\ Standing(r) /\ HashedIsRaw
  BY RegulatorTyped DEF DryRunInv
<1>3. ASSUME ~ overlapped PROVE Held(g, doc[r].text)
  <2>1. Ordered(g) /\ InHand(r)
    BY <1>2, <1>3, CurrentParts DEF AllOrdered, Progress
  <2>2. hash[g] \in Texts /\ hash[g] # 0
    BY <1>1, <1>2 DEF Standing, Texts
  <2>3. raw[g] # <<>>
    <3>1. PICK no : no \in DOMAIN raw[g]
      BY <1>2, <2>2 DEF HashedIsRaw
    <3>2. raw[g] \in Seq(Texts)
      BY <1>2 DEF TypeOK
    <3>3. DOMAIN raw[g] = 1..Len(raw[g]) /\ Len(raw[g]) # 0
      BY <3>1, <3>2, LenProperties
    <3> QED
      BY <3>3, EmptySeq
  <2>4. LastRaw(g) \in Texts
    <3>1. raw[g] \in Seq(Texts)
      BY <1>2 DEF TypeOK
    <3>2. Len(raw[g]) \in DOMAIN raw[g]
      BY <2>3, <3>1, EmptySeq, LenProperties
    <3> QED
      BY <3>1, <3>2, ElementOfSeq DEF LastRaw
  <2>5. hash[g] <= LastRaw(g) /\ LastRaw(g) <= hash[g]
    BY <1>1, <2>1, <2>3 DEF Ordered, InHand
  <2>6. hash[g] = LastRaw(g)
    BY <2>2, <2>4, <2>5 DEF Texts
  <2> QED
    BY <1>1, <2>1, <2>3, <2>6 DEF Ordered
<1>4. ASSUME ~ overlapped, NEW f \in collected'[r]
      PROVE  Held(f[1], f[2]) /\ (Passed(r, f[1]) \/ f[1] = g)
  <2>1. CASE f \in collected[r]
    BY <1>1, <1>4, <2>1, CurrentParts, CollectMade DEF Progress, Collecting
  <2>2. CASE f = <<g, doc[r].text>>
    BY <1>3, <1>4, <2>2
  <2> QED
    BY <1>1, <1>4, <2>1, <2>2, CurrentParts DEF Collected, Files
<1>5. doc[r].text \in Texts
  BY <1>1, <1>2 DEF Standing
<1> QED
  BY <1>1, <1>4, <1>5, UnchangedStep, CollectNextCurrent DEF Collecting

LEMMA SavedCountedCurrent ==
  ASSUME DryRunInv, CurrentInv, NEW r \in Runs, SavedCounted(r)
  PROVE  CurrentInv'
<1>1. /\ pc[r] = "counting_saved" /\ NextRegulator(r, "fetch", "parse") /\ SameRaw
      /\ UNCHANGED <<site, hash, newest, chunks, torn, report, overlapped>> /\ Collected(r)
  BY DEF SavedCounted, At, SameRaw, fileVars, rawVars, chunkVars, resultVars, historyVars
<1>2. ASSUME ~ overlapped, NEW f \in collected'[r]
      PROVE  Held(f[1], f[2]) /\ (Passed(r, f[1]) \/ f[1] = Regulator(r))
  <2>1. CASE f \in collected[r]
    BY <1>1, <1>2, <2>1, CurrentParts, CollectMade DEF Progress, Collecting
  <2>2. CASE f = <<Regulator(r), doc[r].text>>
    BY <1>1, <1>2, <2>2, CurrentParts DEF Progress, InHand
  <2> QED
    BY <1>1, <1>2, <2>1, <2>2, CurrentParts DEF Collected, Files
<1>3. doc[r].text \in Texts
  BY <1>1 DEF DryRunInv, Standing
<1> QED
  BY <1>1, <1>2, <1>3, SavedCountedStep, CollectNextCurrent DEF Collecting

\* A step that stays with the document in hand: what was held stays held.
LEMMA KeptMade ==
  ASSUME NEW r \in Runs, pc[r] \in Collecting, pc'[r] \in Collecting,
         UNCHANGED <<at, collected>>,
         \A f \in collected[r] : Made(r, f[1], f[2]),
         \A f \in collected[r] : Passed(r, f[1]) /\ Held(f[1], f[2]) => Held(f[1], f[2])'
  PROVE  \A f \in collected'[r] : Made(r, f[1], f[2])'
<1> SUFFICES ASSUME NEW f \in collected[r] PROVE Made(r, f[1], f[2])'
  OBVIOUS
<1>1. Passed(r, f[1])' <=> Passed(r, f[1])
  BY DEF Passed
<1>2. Passed(r, f[1]) /\ Held(f[1], f[2])
  BY CollectMade
<1> QED
  BY <1>1, <1>2 DEF Made, Collecting, Processing, Reading, Concluding

LEMMA CollectCurrent ==
  ASSUME DryRunInv, CurrentInv, NEW r \in Runs, StepOK(r),
         pc[r] \in Collecting, pc'[r] \in Collecting,
         UNCHANGED <<at, chunks, torn, report, collected, overlapped>>,
         ~ overlapped /\ AllOrdered /\ InHand(r) => AllOrdered' /\ InHand(r)',
         \A f \in collected[r] : Passed(r, f[1]) /\ Held(f[1], f[2]) => Held(f[1], f[2])'
  PROVE  CurrentInv'
<1>1. Files'
  BY CurrentParts, SameFiles
<1>2. ASSUME ~ overlapped PROVE AllOrdered' /\ Progress(r)'
  <2>1. AllOrdered /\ InHand(r) /\ \A f \in collected[r] : Made(r, f[1], f[2])
    BY <1>2, CurrentParts DEF Progress
  <2>2. \A f \in collected'[r] : Made(r, f[1], f[2])'
    BY <2>1, KeptMade
  <2> QED
    BY <1>2, <2>1, <2>2 DEF Progress
<1>3. CurrentStep(r)
  BY <1>1, <1>2 DEF CurrentStep, Collecting
<1> QED
  BY <1>3, QuietKeepsCurrent

LEMMA LastRawTyped ==
  ASSUME TypeOK, NEW g \in Regulators, raw[g] # <<>>
  PROVE  /\ Len(raw[g]) \in Nat \ {0} /\ Len(raw[g]) \in DOMAIN raw[g]
         /\ LastRaw(g) \in Texts /\ LastRaw(g) \in Nat \ {0}
<1>1. raw[g] \in Seq(Texts)
  BY DEF TypeOK
<1>2. Len(raw[g]) \in Nat \ {0} /\ Len(raw[g]) \in DOMAIN raw[g]
  BY <1>1, EmptySeq, LenProperties
<1>3. LastRaw(g) \in Texts
  BY <1>1, <1>2, ElementOfSeq DEF LastRaw
<1> QED
  BY <1>2, <1>3 DEF Texts

LEMMA OpenRawCurrent ==
  ASSUME DryRunInv, CurrentInv, NEW r \in Runs, OpenRaw(r)
  PROVE  CurrentInv'
<1>0. TypeOK /\ Standing(r) /\ HashedIsRaw
  BY DEF DryRunInv
<1>9. PICK g \in Regulators : g = Regulator(r)
  BY <1>0, RegulatorTyped
<1> DEFINE no == Len(raw[g]) + 1
           text == doc[r].text
<1>1. /\ pc[r] = "compare" /\ pc'[r] = "save" /\ doc'[r].text = text /\ doc'[r].no = no
      /\ hash[g] # text
      /\ raw' = [raw EXCEPT ![g] = Append(raw[g], text)] /\ newest' = [newest EXCEPT ![g] = no]
      /\ rawTorn' = rawTorn \cup {<<g, no>>}
      /\ UNCHANGED <<site, hash, at, chunks, torn, report, collected, overlapped>>
  BY <1>0, <1>9 DEF OpenRaw, At, Goto, TypeOK, chunkVars, resultVars, historyVars
<1>2. text \in Texts /\ text \in Nat \ {0} /\ raw[g] \in Seq(Texts) /\ Len(raw[g]) \in Nat
      /\ hash[g] \in Nat /\ site[g] \in Nat
  <2>1. text \in Texts /\ raw[g] \in Seq(Texts) /\ site[g] \in Texts /\ hash[g] \in Texts \cup {0}
    BY <1>0, <1>1, <1>9 DEF Standing, TypeOK
  <2> QED
    BY <2>1, LenProperties DEF Texts
<1>3. raw'[g] = Append(raw[g], text) /\ newest'[g] = no
  BY <1>0, <1>1 DEF TypeOK
<1>4. Len(raw'[g]) = no /\ raw'[g][no] = text /\ raw'[g] # <<>>
  BY <1>2, <1>3, AppendProperties, EmptySeq
<1>5. \A h \in Regulators \ {g} : raw'[h] = raw[h] /\ newest'[h] = newest[h]
  BY <1>0, <1>1 DEF TypeOK
<1>6. \A h \in Regulators \ {g} : \A t : Held(h, t)' <=> Held(h, t)
  BY <1>1, <1>5 DEF Held, LastRaw
<1>7. ASSUME AllOrdered, InHand(r) PROVE AllOrdered' /\ InHand(r)'
  <2>1. ASSUME NEW h \in Regulators, h # g PROVE Ordered(h)'
    <3>1. Ordered(h)
      BY <1>7 DEF AllOrdered
    <3> QED
      BY <1>1, <1>5, <1>6, <2>1, <3>1 DEF Ordered, LastRaw
  <2>2. hash[g] <= text /\ text <= site[g]
    <3>1. text <= site[g] /\ (raw[g] # <<>> => LastRaw(g) <= text)
      BY <1>1, <1>7, <1>9 DEF InHand
    <3>2. CASE raw[g] # <<>>
      <4>1. hash[g] <= LastRaw(g) /\ LastRaw(g) \in Nat
        BY <1>0, <1>7, <3>2, LastRawTyped DEF AllOrdered, Ordered
      <4> QED
        BY <1>2, <3>1, <3>2, <4>1
    <3>3. CASE raw[g] = <<>>
      <4>1. DOMAIN raw[g] = 1..0 /\ 1..0 = {}
        BY <1>2, <3>3, EmptySeq, LenProperties
      <4>2. ASSUME hash[g] # 0 PROVE FALSE
        <5>1. PICK n : n \in DOMAIN raw[g]
          BY <1>0, <4>2 DEF HashedIsRaw
        <5> QED
          BY <4>1, <5>1
      <4> QED
        BY <1>2, <3>1, <4>2
    <3> QED
      BY <3>2, <3>3
  <2>3. Ordered(g)'
    BY <1>1, <1>3, <1>4, <2>2 DEF Ordered, LastRaw
  <2>4. Regulator(r)' = g
    BY <1>1, <1>9 DEF Regulator
  <2>5. InHand(r)'
    BY <1>1, <1>4, <2>4 DEF InHand
  <2> QED
    BY <2>1, <2>3, <2>5 DEF AllOrdered
<1>8. ASSUME NEW f \in collected[r], Passed(r, f[1]), Held(f[1], f[2]) PROVE Held(f[1], f[2])'
  <2>1. f[1] # g
    BY <1>0, <1>8, <1>9, PassedOnce
  <2>2. f[1] \in Regulators
    BY CurrentParts DEF Files
  <2> QED
    BY <1>6, <1>8, <2>1, <2>2
<1> QED
  BY <1>1, <1>7, <1>8, OpenRawStep, CollectCurrent DEF Collecting

LEMMA WriteRawCurrent ==
  ASSUME DryRunInv, CurrentInv, NEW r \in Runs, WriteRaw(r)
  PROVE  CurrentInv'
<1> DEFINE g == Regulator(r)
<1>0. TypeOK /\ g \in Regulators
  BY RegulatorTyped DEF DryRunInv
<1>1. /\ pc[r] = "save" /\ pc'[r] = "hash" /\ newest' = [newest EXCEPT ![g] = doc[r].no]
      /\ rawTorn' \subseteq rawTorn
      /\ UNCHANGED <<site, hash, raw, at, doc, chunks, torn, report, collected, overlapped>>
  BY <1>0 DEF WriteRaw, At, Goto, TypeOK, chunkVars, resultVars, historyVars
<1>2. ASSUME NEW h, NEW t, Held(h, t) PROVE Held(h, t)'
  BY <1>1, <1>2 DEF Held, LastRaw
<1>3. ASSUME AllOrdered, InHand(r) PROVE AllOrdered' /\ InHand(r)'
  <2>1. doc[r].no = Len(raw[g])
    BY <1>1, <1>3 DEF InHand
  <2>2. ASSUME NEW h \in Regulators PROVE Ordered(h)'
    <3>1. Ordered(h) /\ newest'[h] = newest[h]
      BY <1>0, <1>1, <1>3, <2>1 DEF AllOrdered, Ordered, TypeOK
    <3> QED
      BY <1>1, <1>2, <3>1 DEF Ordered, LastRaw
  <2>3. InHand(r)'
    BY <1>1, <2>1 DEF InHand, Regulator
  <2> QED
    BY <2>2, <2>3 DEF AllOrdered
<1> QED
  BY <1>1, <1>2, <1>3, WriteRawStep, CollectCurrent DEF Collecting

LEMMA OpenHashCurrent ==
  ASSUME DryRunInv, CurrentInv, NEW r \in Runs, OpenHash(r)
  PROVE  CurrentInv'
<1> DEFINE g == Regulator(r)
<1>0. TypeOK /\ g \in Regulators
  BY RegulatorTyped DEF DryRunInv
<1>1. /\ pc[r] = "hash" /\ pc'[r] = "hashing" /\ hash' = [hash EXCEPT ![g] = 0] /\ SameRaw
      /\ UNCHANGED <<site, newest, at, doc, chunks, torn, report, collected, overlapped>>
  BY <1>0 DEF OpenHash, At, Goto, TypeOK, SameRaw, chunkVars, resultVars, historyVars
<1>2. ASSUME AllOrdered, InHand(r) PROVE AllOrdered' /\ InHand(r)'
  <2>1. ASSUME NEW h \in Regulators PROVE Ordered(h)'
    <3>1. Ordered(h) /\ (hash'[h] = hash[h] \/ hash'[h] = 0)
      BY <1>0, <1>1, <1>2 DEF AllOrdered, TypeOK
    <3>2. raw[h] # <<>> => LastRaw(h) \in Nat \ {0}
      BY <1>0, LastRawTyped
    <3>3. \A t : Held(h, t)' <=> Held(h, t)
      BY <1>1, SameHeld
    <3> QED
      BY <1>1, <3>1, <3>2, <3>3 DEF Ordered, LastRaw, SameRaw
  <2>2. InHand(r)'
    BY <1>1, <1>2 DEF InHand, Regulator, SameRaw
  <2> QED
    BY <2>1, <2>2 DEF AllOrdered
<1> QED
  BY <1>1, <1>2, SameHeld, OpenHashStep, CollectCurrent DEF Collecting

LEMMA WriteHashCurrent ==
  ASSUME DryRunInv, CurrentInv, NEW r \in Runs, WriteHash(r)
  PROVE  CurrentInv'
<1> DEFINE g == Regulator(r)
           text == doc[r].text
<1>0. TypeOK /\ g \in Regulators /\ Standing(r)
  BY RegulatorTyped DEF DryRunInv
<1>1. /\ pc[r] = "hashing" /\ pc'[r] = "count_saved" /\ hash' = [hash EXCEPT ![g] = text]
      /\ SameRaw
      /\ UNCHANGED <<site, newest, at, doc, chunks, torn, report, collected, overlapped>>
  BY <1>0 DEF WriteHash, At, Goto, TypeOK, SameRaw, chunkVars, resultVars, historyVars
<1>2. ASSUME AllOrdered, InHand(r) PROVE AllOrdered' /\ InHand(r)'
  <2>1. doc[r].no = Len(raw[g])
    BY <1>1, <1>2 DEF InHand
  <2>2. raw[g] # <<>>
    <3>1. Len(raw[g]) \in DOMAIN raw[g]
      BY <1>0, <1>1, <2>1 DEF Standing
    <3>2. raw[g] \in Seq(Texts)
      BY <1>0 DEF TypeOK
    <3> QED
      BY <3>1, <3>2, EmptySeq, LenProperties
  <2>3. Held(g, text) /\ LastRaw(g) = text /\ text \in Nat
    BY <1>0, <1>1, <2>1, <2>2, LastRawTyped DEF Standing, Held, LastRaw
  <2>4. ASSUME NEW h \in Regulators PROVE Ordered(h)'
    <3>1. Ordered(h) /\ hash'[h] = IF h = g THEN text ELSE hash[h]
      BY <1>0, <1>1, <1>2 DEF AllOrdered, TypeOK
    <3>2. \A t : Held(h, t)' <=> Held(h, t)
      BY <1>1, SameHeld
    <3> QED
      BY <1>1, <2>3, <3>1, <3>2 DEF Ordered, LastRaw, SameRaw
  <2>5. Regulator(r)' = g /\ Held(g, text)'
    BY <1>1, <2>3, SameHeld DEF Regulator
  <2>6. InHand(r)'
    BY <1>1, <2>3, <2>5 DEF InHand, Held
  <2> QED
    BY <2>4, <2>6 DEF AllOrdered
<1> QED
  BY <1>1, <1>2, SameHeld, WriteHashStep, CollectCurrent DEF Collecting

LEMMA CountSavedCurrent ==
  ASSUME DryRunInv, CurrentInv, NEW r \in Runs, CountSaved(r)
  PROVE  CurrentInv'
<1>0. TypeOK
  BY DEF DryRunInv
<1>1. /\ pc[r] = "count_saved" /\ pc'[r] = "counting_saved" /\ SameRaw
      /\ UNCHANGED <<site, hash, newest, at, doc, chunks, torn, report, collected, overlapped>>
  BY <1>0 DEF CountSaved, At, Goto, TypeOK, SameRaw, fileVars, rawVars, chunkVars, resultVars,
              historyVars
<1>2. ASSUME AllOrdered, InHand(r) PROVE AllOrdered' /\ InHand(r)'
  <2>1. AllOrdered'
    BY <1>1, <1>2, SameOrdered
  <2>2. InHand(r)'
    BY <1>1, <1>2 DEF InHand, Regulator, SameRaw, Held, LastRaw
  <2> QED
    BY <2>1, <2>2
<1> QED
  BY <1>1, <1>2, SameHeld, CountSavedStep, CollectCurrent DEF Collecting

-----------------------------------------------------------------------------
(***************************************************************************)
(* Processing.                                                              *)
(***************************************************************************)
LEMMA ProcessMade ==
  ASSUME NEW r \in Runs, pc[r] \in Processing, NEW g, NEW t
  PROVE  Made(r, g, t) <=> Held(g, t) /\ (Passed(r, g) => Cut(g, t))
BY DEF Made, Collecting, Processing, Reading, Concluding

\* The loop goes on to the next regulator.
LEMMA ProcessNextCurrent ==
  ASSUME DryRunInv, CurrentInv, NEW r \in Runs, NextRegulator(r, "parse", "embed"), StepOK(r),
         pc[r] \in Processing, SameRaw,
         UNCHANGED <<site, hash, newest, chunks, torn, report, collected, overlapped>>,
         ~ overlapped =>
           \A f \in collected[r] : f[1] = Regulator(r) /\ Held(f[1], f[2]) => Cut(f[1], f[2])
  PROVE  CurrentInv'
<1>1. Files /\ Files' /\ TypeOK
  BY CurrentParts, SameFiles DEF DryRunInv
<1>2. ASSUME ~ overlapped PROVE AllOrdered' /\ Progress(r)'
  <2>1. \A f \in collected[r] : /\ Held(f[1], f[2])
                                /\ Passed(r, f[1]) \/ f[1] = Regulator(r) => Cut(f[1], f[2])
    BY <1>2, CurrentParts, ProcessMade DEF Progress
  <2> QED
    BY <1>1, <1>2, <2>1, CurrentParts, SameOrdered, ProcessedNext
<1>3. CurrentStep(r)
  BY <1>1, <1>2 DEF CurrentStep, Processing
<1> QED
  BY <1>3, QuietKeepsCurrent

LEMMA SkipEmptyCurrent ==
  ASSUME DryRunInv, CurrentInv, NEW r \in Runs, SkipEmpty(r)
  PROVE  CurrentInv'
<1>1. /\ pc[r] = "parse" /\ NextRegulator(r, "parse", "embed") /\ SameRaw
      /\ raw[Regulator(r)] = <<>>
      /\ UNCHANGED <<site, hash, newest, chunks, torn, report, collected, overlapped>>
  BY DEF SkipEmpty, At, SameRaw, fileVars, rawVars, chunkVars, resultVars, historyVars
<1> QED
  BY <1>1, SkipEmptyStep, ProcessNextCurrent DEF Processing, Held

LEMMA FinishDocumentCurrent ==
  ASSUME DryRunInv, CurrentInv, NEW r \in Runs, FinishDocument(r)
  PROVE  CurrentInv'
<1>0. PICK g : g = Regulator(r)
  OBVIOUS
<1>1. /\ pc[r] = "chunk" /\ NextRegulator(r, "parse", "embed") /\ SameRaw
      /\ doc[r].done = doc[r].pieces
      /\ UNCHANGED <<site, hash, newest, chunks, torn, report, collected, overlapped>>
  BY DEF FinishDocument, At, SameRaw, rawVars, chunkVars, resultVars, historyVars
<1>2. KeysOf(g, doc[r].no, doc[r].pieces) \subseteq ChunkFiles
  BY <1>0, <1>1 DEF DryRunInv, Standing
<1>3. ASSUME ~ overlapped, NEW t, Held(g, t) PROVE Cut(g, t)
  <2>1. /\ doc[r].no = Len(raw[g])
        /\ Held(g, LastRaw(g)) => doc[r].pieces = Pieces[LastRaw(g)]
    BY <1>0, <1>1, <1>3, CurrentParts DEF Progress, InHand
  <2>2. t = LastRaw(g)
    BY <1>3 DEF Held
  <2> QED
    BY <1>2, <1>3, <2>1, <2>2 DEF Cut
<1> QED
  BY <1>0, <1>1, <1>3, FinishDocumentStep, ProcessNextCurrent DEF Processing

\* A step that stays with the regulator.
LEMMA ProcessCurrent ==
  ASSUME DryRunInv, CurrentInv, NEW r \in Runs, StepOK(r), Files',
         pc[r] \in Processing, pc'[r] \in Processing, SameRaw,
         UNCHANGED <<site, hash, newest, at, report, collected, overlapped>>,
         ~ overlapped => InHand(r)'
  PROVE  CurrentInv'
<1>1. ASSUME ~ overlapped PROVE AllOrdered' /\ Progress(r)'
  <2>1. AllOrdered'
    BY <1>1, CurrentParts, SameOrdered
  <2>2. ASSUME NEW f \in collected[r] PROVE Made(r, f[1], f[2])'
    <3>1. Held(f[1], f[2]) /\ (Passed(r, f[1]) => Cut(f[1], f[2]))
      BY <1>1, CurrentParts, ProcessMade DEF Progress
    <3>2. Held(f[1], f[2])' /\ (Cut(f[1], f[2]) => Cut(f[1], f[2])')
      BY <3>1, SameHeld, KeptCut DEF StepOK, Frame
    <3>3. Passed(r, f[1])' <=> Passed(r, f[1])
      BY DEF Passed
    <3> QED
      BY <3>1, <3>2, <3>3 DEF Made, Collecting, Processing, Reading, Concluding
  <2> QED
    BY <1>1, <2>1, <2>2 DEF Progress
<1>2. CurrentStep(r)
  BY <1>1 DEF CurrentStep, Processing
<1> QED
  BY <1>2, QuietKeepsCurrent

LEMMA ReadNewestCurrent ==
  ASSUME DryRunInv, CurrentInv, NEW r \in Runs, ReadNewest(r)
  PROVE  CurrentInv'
<1>0. TypeOK
  BY DEF DryRunInv
<1>9. PICK g \in Regulators : g = Regulator(r)
  BY <1>0, RegulatorTyped
<1>1. /\ pc[r] = "parse" /\ pc'[r] = "chunk" /\ raw[g] # <<>> /\ SameRaw
      /\ doc'[r].no = newest[g]
      /\ doc'[r].pieces = IF <<g, newest[g]>> \in rawTorn THEN 0 ELSE Pieces[raw[g][newest[g]]]
      /\ UNCHANGED <<site, hash, newest, at, chunks, torn, report, collected, overlapped>>
  BY <1>0, <1>9 DEF ReadNewest, Chosen, At, Goto, TypeOK, SameRaw, rawVars, chunkVars, resultVars,
                    historyVars
<1>2. Files'
  BY <1>1, CurrentParts, SameFiles
<1>3. ASSUME ~ overlapped PROVE InHand(r)'
  <2>1. newest[g] = Len(raw[g])
    BY <1>3, CurrentParts DEF AllOrdered, Ordered
  <2>2. Regulator(r)' = g /\ raw' = raw /\ rawTorn' = rawTorn
    BY <1>1, <1>9 DEF Regulator, SameRaw
  <2> QED
    BY <1>1, <2>1, <2>2 DEF InHand, Held, LastRaw
<1> QED
  BY <1>1, <1>2, <1>3, ReadNewestStep, ProcessCurrent DEF Processing

LEMMA ChunkStepCurrent ==
  ASSUME DryRunInv, CurrentInv, NEW r \in Runs, StepOK(r),
         pc[r] \in {"chunk", "chunking"}, pc'[r] \in {"chunk", "chunking"}, SameRaw,
         doc'[r].no = doc[r].no, doc'[r].pieces = doc[r].pieces,
         ChunkFiles' = ChunkFiles \cup {NextChunk(r)},
         UNCHANGED <<site, hash, newest, at, report, collected, overlapped>>
  PROVE  CurrentInv'
<1>1. Files'
  <2>1. TypeOK /\ Files
    BY CurrentParts DEF DryRunInv
  <2>2. PICK k : k = NextChunk(r)
    OBVIOUS
  <2>3. k.regulator \in Regulators /\ k.no \in Nat /\ k.idx \in Nat
    BY <2>1, <2>2, RegulatorTyped DEF NextChunk, Key, TypeOK
  <2>4. PICK F : F = ChunkFiles
    OBVIOUS
  <2>5. PICK G : G = ChunkFiles'
    OBVIOUS
  <2>6. IsFiniteSet(F) /\ G = F \cup {k}
    BY <2>1, <2>2, <2>4, <2>5 DEF Files
  <2>7. IsFiniteSet(G)
    BY <2>6, FS_AddElement
  <2> QED
    BY <2>1, <2>2, <2>3, <2>5, <2>7 DEF Files
<1>2. ASSUME ~ overlapped PROVE InHand(r)'
  <2>1. InHand(r)
    BY <1>2, CurrentParts DEF Progress
  <2> QED
    BY <2>1 DEF InHand, Held, LastRaw, SameRaw, Regulator
<1> QED
  BY <1>1, <1>2, ProcessCurrent DEF Processing

LEMMA ChunkCurrent ==
  ASSUME DryRunInv, CurrentInv, NEW r \in Runs, OpenChunk(r) \/ WriteChunk(r)
  PROVE  CurrentInv'
<1>0. TypeOK
  BY DEF DryRunInv
<1>1. /\ pc[r] \in {"chunk", "chunking"} /\ pc'[r] \in {"chunk", "chunking"} /\ SameRaw
      /\ doc'[r].no = doc[r].no /\ doc'[r].pieces = doc[r].pieces
      /\ UNCHANGED <<site, hash, newest, at, report, collected, overlapped>>
  BY <1>0 DEF OpenChunk, WriteChunk, At, Goto, TypeOK, SameRaw, rawVars, resultVars, historyVars
<1>2. ChunkFiles' = ChunkFiles \cup {NextChunk(r)}
  BY DEF OpenChunk, WriteChunk, ChunkFiles
<1> QED
  BY <1>1, <1>2, OpenChunkStep, WriteChunkStep, ChunkStepCurrent

-----------------------------------------------------------------------------
(***************************************************************************)
(* Embedding, compliance, reporting.                                        *)
(***************************************************************************)
\* One analysis reads all the chunk files when they are not too many.
LEMMA AllRead ==
  ASSUME Files, Cardinality(ChunkFiles) <= Limit
  PROVE  ChunkFiles \subseteq FirstFiles
<1> SUFFICES ASSUME NEW k \in ChunkFiles PROVE Cardinality({l \in ChunkFiles : Before(l, k)}) < Limit
  BY DEF FirstFiles
<1> DEFINE L == {l \in ChunkFiles : Before(l, k)}
<1>1. ~ Before(k, k)
  <2>1. k.regulator \in Regulators /\ k.no \in Nat /\ k.idx \in Nat
    BY DEF Files
  <2>2. \E i \in DOMAIN RegulatorSeq : RegulatorSeq[i] = k.regulator
    BY <2>1 DEF Regulators, Range
  <2>3. (CHOOSE i \in DOMAIN RegulatorSeq : RegulatorSeq[i] = k.regulator) \in DOMAIN RegulatorSeq
    BY <2>2
  <2>4. DOMAIN RegulatorSeq \subseteq Nat
    BY RegulatorSeqLen
  <2> QED
    BY <2>1, <2>3, <2>4 DEF Before
<1>2. IsFiniteSet(ChunkFiles) /\ Cardinality(ChunkFiles) \in Nat
  BY FS_CardinalityType DEF Files
<1>3. Cardinality(ChunkFiles \ {k}) = Cardinality(ChunkFiles) - 1 /\ IsFiniteSet(ChunkFiles \ {k})
  BY <1>2, FS_RemoveElement
<1>4. L \subseteq ChunkFiles \ {k}
  BY <1>1
<1> HIDE DEF L
<1>5. IsFiniteSet(L) /\ Cardinality(L) <= Cardinality(ChunkFiles \ {k})
  BY <1>3, <1>4, FS_Subset
<1>6. Cardinality(L) \in Nat
  BY <1>5, FS_CardinalityType
<1>7. Cardinality(L) < Limit
  BY <1>2, <1>3, <1>5, <1>6
<1> QED
  BY <1>7 DEF L

\* A step that leaves the raw files and the chunk files.
LEMMA ConcludeCurrent ==
  ASSUME DryRunInv, CurrentInv, NEW r \in Runs, StepOK(r), pc[r] # "idle", SameRaw,
         pc'[r] \notin {"compare", "save", "hash", "hashing", "chunk", "chunking", "count_saved",
                        "counting_saved"},
         UNCHANGED <<site, hash, newest, chunks, torn, report, collected, overlapped>>,
         ~ overlapped => \A f \in collected[r] : Made(r, f[1], f[2]) => Made(r, f[1], f[2])'
  PROVE  CurrentInv'
<1>1. Files'
  BY CurrentParts, SameFiles
<1>2. ASSUME ~ overlapped PROVE AllOrdered' /\ Progress(r)'
  <2>1. AllOrdered' /\ \A f \in collected[r] : Made(r, f[1], f[2])
    BY <1>2, CurrentParts, SameOrdered DEF Progress
  <2>2. InHand(r)'
    BY DEF InHand
  <2> QED
    BY <1>2, <2>1, <2>2 DEF Progress
<1>3. CurrentStep(r)
  BY <1>1, <1>2 DEF CurrentStep
<1> QED
  BY <1>3, QuietKeepsCurrent

LEMMA ReadingCurrent ==
  ASSUME DryRunInv, CurrentInv, NEW r \in Runs, StepOK(r), SameRaw,
         pc[r] \in Reading, pc'[r] \in Reading,
         UNCHANGED <<site, hash, newest, chunks, torn, report, collected, overlapped>>
  PROVE  CurrentInv'
<1>1. ASSUME NEW g, NEW t, Made(r, g, t) PROVE Made(r, g, t)'
  <2>1. Cut(g, t)'
    BY <1>1, KeptCut DEF Made, ChunkFiles
  <2> QED
    BY <2>1 DEF Made, Collecting, Processing, Reading, Concluding
<1> QED
  BY <1>1, ConcludeCurrent DEF Reading

LEMMA ConcludingCurrent ==
  ASSUME DryRunInv, CurrentInv, NEW r \in Runs, StepOK(r), SameRaw,
         pc[r] \in Concluding, pc'[r] \in Concluding, got'[r] = got[r],
         UNCHANGED <<site, hash, newest, chunks, torn, report, collected, overlapped>>
  PROVE  CurrentInv'
<1>1. ASSUME NEW g, NEW t, Made(r, g, t) PROVE Made(r, g, t)'
  <2>1. Covered(g, t, got[r])
    BY <1>1 DEF Made
  <2>2. Covered(g, t, got[r])'
    BY <2>1 DEF Covered, SameRaw, ChunkFiles, KeysOf, Key
  <2> QED
    BY <2>2 DEF Made, Collecting, Processing, Reading, Concluding
<1> QED
  BY <1>1, ConcludeCurrent DEF Concluding

LEMMA AnalyseCurrent ==
  ASSUME DryRunInv, CurrentInv, NEW r \in Runs, Analyse(r)
  PROVE  CurrentInv'
<1>0. TypeOK /\ Files
  BY CurrentParts DEF DryRunInv
<1>1. /\ pc[r] = "analyse" /\ pc'[r] = "load_analysed" /\ got'[r] = FirstFiles /\ SameRaw
      /\ UNCHANGED <<site, hash, newest, chunks, torn, report, collected, overlapped>>
  BY <1>0 DEF Analyse, ReadFiles, At, Goto, TypeOK, SameRaw, rawVars, chunkVars, resultVars,
              historyVars
<1>2. ASSUME NEW f \in collected[r], Made(r, f[1], f[2]) PROVE Made(r, f[1], f[2])'
  <2>0. PICK g, t : g = f[1] /\ t = f[2]
    OBVIOUS
  <2>1. Cut(g, t) /\ g \in Regulators
    BY <1>0, <1>1, <1>2, <2>0 DEF Made, Reading, Files
  <2>2. /\ raw[g][Len(raw[g])] = t /\ KeysOf(g, Len(raw[g]), Pieces[t]) \subseteq ChunkFiles
        /\ Len(raw[g]) \in DOMAIN raw[g]
    BY <1>0, <2>1, LastRawTyped DEF Cut, Held, LastRaw
  <2>3. Cardinality(ChunkFiles) <= Limit => ChunkFiles \subseteq FirstFiles
    BY <1>0, AllRead
  <2>4. Covered(g, t, FirstFiles)
    BY <2>2, <2>3 DEF Covered
  <2>5. Covered(g, t, got[r])'
    BY <1>1, <2>4 DEF Covered, SameRaw, ChunkFiles, KeysOf, Key
  <2> QED
    BY <1>1, <2>0, <2>5 DEF Made, Collecting, Processing, Reading, Concluding
<1> QED
  BY <1>1, <1>2, AnalyseStep, ConcludeCurrent

LEMMA WriteSummaryCurrent ==
  ASSUME DryRunInv, CurrentInv, NEW r \in Runs, WriteSummary(r)
  PROVE  CurrentInv'
<1>0. TypeOK
  BY DEF DryRunInv
<1>1. /\ pc[r] = "summarising" /\ pc'[r] = "report" /\ summary'.covers = got[r] /\ SameRaw
      /\ UNCHANGED <<site, hash, newest, chunks, torn, report, collected, overlapped>>
  BY <1>0 DEF WriteSummary, At, Goto, TypeOK, SameRaw, rawVars, chunkVars, historyVars
<1>2. ASSUME NEW g, NEW t, Made(r, g, t) PROVE Made(r, g, t)'
  <2>1. Covered(g, t, got[r])
    BY <1>1, <1>2 DEF Made, Concluding
  <2>2. Covered(g, t, summary.covers)'
    BY <1>1, <2>1 DEF Covered, SameRaw, ChunkFiles, KeysOf, Key
  <2> QED
    BY <1>1, <2>2 DEF Made, Collecting, Processing, Reading, Concluding
<1> QED
  BY <1>1, <1>2, WriteSummaryStep, ConcludeCurrent

(***************************************************************************)
(* A run that ends, or is killed, has collected nothing any more.           *)
(***************************************************************************)
LEMMA ExitCurrent ==
  ASSUME DryRunInv, CurrentInv, NEW r \in Runs, Frame(r), Exit(r), pc[r] # "idle", SameRaw,
         UNCHANGED <<site, hash, newest, chunks, torn, overlapped>>,
         report'.collected \subseteq Regulators \X Texts, ReportCurrent'
  PROVE  CurrentInv'
<1>0. TypeOK /\ Files
  BY CurrentParts DEF DryRunInv
<1>1. /\ pc'[r] = "idle" /\ collected' = [collected EXCEPT ![r] = {}]
  BY <1>0 DEF Exit, Goto, TypeOK
<1>2. collected'[r] = {} /\ \A s \in Runs \ {r} : collected'[s] = collected[s]
  BY <1>0, <1>1 DEF Files
<1>3. Files'
  BY <1>0, <1>1 DEF Files, ChunkFiles
<1>4. Progress(r)'
  BY <1>1, <1>2 DEF Progress, InHand
<1>5. ~ overlapped => AllOrdered'
  BY CurrentParts, SameOrdered
<1>6. CurrentStep(r)
  BY <1>2, <1>3, <1>4, <1>5 DEF CurrentStep
<1> QED
  BY <1>6, StepKeepsCurrent

LEMMA BrokenOffCurrent ==
  ASSUME DryRunInv, CurrentInv, NEW r \in Runs, StepOK(r), Exit(r), pc[r] # "idle", SameRaw,
         UNCHANGED <<site, hash, newest, chunks, torn, overlapped, report>>
  PROVE  CurrentInv'
<1>1. Frame(r) /\ Files /\ ReportCurrent
  BY CurrentParts DEF StepOK
<1>2. ReportCurrent'
  BY <1>1 DEF ReportCurrent, SameRaw, ChunkFiles, KeysOf, Key
<1> QED
  BY <1>1, <1>2, ExitCurrent DEF Files

LEMMA ReportIsCurrent ==
  ASSUME DryRunInv, CurrentInv, NEW r \in Runs, Report(r)
  PROVE  CurrentInv'
<1>1. /\ pc[r] = "report" /\ Exit(r) /\ SameRaw
      /\ report' = [covers |-> summary.covers, collected |-> collected[r]]
      /\ UNCHANGED <<site, hash, newest, chunks, torn, overlapped>>
  BY DEF Report, At, SameRaw, rawVars, chunkVars, historyVars
<1>2. report'.collected \subseteq Regulators \X Texts
  BY <1>1, CurrentParts DEF Files
<1>3. ASSUME ~ overlapped, NEW f \in collected[r] PROVE Covered(f[1], f[2], summary.covers)
  BY <1>1, <1>3, CurrentParts DEF Progress, Made
<1>4. ReportCurrent'
  BY <1>1, <1>3 DEF ReportCurrent, Covered, SameRaw, ChunkFiles, KeysOf, Key
<1>5. Frame(r)
  BY ReportStep DEF StepOK
<1> QED
  BY <1>1, <1>2, <1>4, <1>5, ExitCurrent

-----------------------------------------------------------------------------
LEMMA ConcludeKeepsCurrent ==
  ASSUME DryRunInv, CurrentInv, NEW r \in Runs, Conclude(r)
  PROVE  CurrentInv'
<1>0. TypeOK
  BY DEF DryRunInv
<1>1. CASE Embed(r)
  <2>1. /\ pc[r] = "embed" /\ pc'[r] = "load_embedded" /\ SameRaw
        /\ UNCHANGED <<site, hash, newest, chunks, torn, report, collected, overlapped>>
    BY <1>0, <1>1 DEF Embed, ReadFiles, At, Goto, TypeOK, SameRaw, rawVars, chunkVars, resultVars,
                      historyVars
  <2> QED
    BY <1>1, <2>1, EmbedStep, ReadingCurrent DEF Reading
<1>2. ASSUME NEW from \in Reading \cup Concluding, NEW to, pc[r] = from, pc'[r] = to, StepOK(r),
             {from, to} \subseteq Reading \/ {from, to} \subseteq Concluding,
             UNCHANGED <<site, rawVars, chunkVars, resultVars, collected, got, historyVars>>
      PROVE  CurrentInv'
  <2>1. SameRaw /\ UNCHANGED <<site, hash, newest, chunks, torn, report, collected, overlapped, got>>
    BY <1>2 DEF SameRaw, rawVars, chunkVars, resultVars, historyVars
  <2> QED
    BY <1>2, <2>1, ReadingCurrent, ConcludingCurrent
<1>3. CASE CountEmbedded(r)
  <2>1. UNCHANGED <<site, rawVars, chunkVars, resultVars, collected, got, historyVars>>
    BY <1>3 DEF CountEmbedded, LoadCounters, Count, Counted, fileVars
  <2>2. /\ pc[r] \in {"load_embedded", "count_embedded", "counting_embedded"}
        /\ pc'[r] \in {"count_embedded", "counting_embedded", "analyse"}
    BY <1>0, <1>3 DEF CountEmbedded, LoadCounters, Count, Counted, At, Goto, TypeOK
  <2>3. StepOK(r)
    BY <1>3, LoadCountersStep, CountStep, CountedEmbeddedStep DEF CountEmbedded
  <2> QED
    BY <1>2, <2>1, <2>2, <2>3 DEF Reading
<1>4. CASE CountObligations(r)
  <2>1. UNCHANGED <<site, rawVars, chunkVars, resultVars, collected, got, historyVars>>
    BY <1>4 DEF CountObligations, LoadCounters, Count, Counted, fileVars
  <2>2. /\ pc[r] \in {"load_analysed", "count_analysed", "counting_analysed"}
        /\ pc'[r] \in {"count_analysed", "counting_analysed", "summary"}
    BY <1>0, <1>4 DEF CountObligations, LoadCounters, Count, Counted, At, Goto, TypeOK
  <2>3. StepOK(r)
    BY <1>4, LoadCountersStep, CountStep, CountedObligationsStep DEF CountObligations
  <2> QED
    BY <1>2, <2>1, <2>2, <2>3 DEF Concluding
<1>5. CASE OpenSummary(r)
  <2>1. /\ pc[r] = "summary" /\ pc'[r] = "summarising" /\ SameRaw /\ got' = got
        /\ UNCHANGED <<site, hash, newest, chunks, torn, report, collected, overlapped>>
    BY <1>0, <1>5 DEF OpenSummary, At, Goto, TypeOK, SameRaw, rawVars, chunkVars, historyVars
  <2> QED
    BY <1>5, <2>1, OpenSummaryStep, ConcludingCurrent DEF Concluding
<1>6. CASE EmbedRaises(r) \/ AnalyseRaises(r) \/ ReportRaises(r)
  <2>1. /\ Exit(r) /\ pc[r] # "idle" /\ SameRaw
        /\ UNCHANGED <<site, hash, newest, chunks, torn, overlapped, report>>
    BY <1>6 DEF EmbedRaises, AnalyseRaises, ReportRaises, Abort, At, SameRaw, fileVars, rawVars,
                chunkVars, resultVars
  <2> QED
    BY <1>6, <2>1, EmbedRaisesStep, AnalyseRaisesStep, ReportRaisesStep, BrokenOffCurrent
<1> QED
  BY <1>1, <1>3, <1>4, <1>5, <1>6, AnalyseCurrent, WriteSummaryCurrent, ReportIsCurrent DEF Conclude

LEMMA StartCurrent ==
  ASSUME DryRunInv, CurrentInv, NEW r \in Runs, Start(r)
  PROVE  CurrentInv'
<1>0. TypeOK /\ Files /\ Frame(r)
  BY CurrentParts, StartStep DEF DryRunInv, StepOK
<1>1. /\ pc[r] = "idle" /\ pc' = [pc EXCEPT ![r] = "fetch"] /\ SameRaw
      /\ overlapped' = (overlapped \/ \E s \in Runs : pc[s] # "idle")
      /\ UNCHANGED <<site, hash, newest, at, doc, chunks, torn, report, collected>>
  BY DEF Start, At, Goto, SameRaw, fileVars, rawVars, chunkVars, resultVars
<1>2. Files'
  BY <1>0, <1>1, SameFiles
<1>3. ReportCurrent'
  BY <1>0, <1>1, <1>2, CurrentParts, KeptReport
<1>4. ASSUME ~ overlapped' PROVE OneRun' /\ AllOrdered' /\ \A s \in Runs : Progress(s)'
  <2>1. ~ overlapped /\ \A s \in Runs : pc[s] = "idle"
    BY <1>1, <1>4
  <2>2. \A s \in Runs : pc'[s] = IF s = r THEN "fetch" ELSE "idle"
    BY <1>0, <1>1, <2>1 DEF TypeOK
  <2>3. ASSUME NEW s \in Runs PROVE Progress(s)'
    <3>1. collected'[s] = {}
      BY <1>1, <2>1, CurrentParts, IdleCollected
    <3> QED
      BY <2>2, <3>1 DEF Progress, InHand
  <2>4. AllOrdered'
    BY <1>1, <2>1, CurrentParts, SameOrdered
  <2> QED
    BY <2>2, <2>3, <2>4 DEF OneRun
<1> QED
  BY <1>2, <1>3, <1>4 DEF CurrentInv, Files, OneRun, AllOrdered, Progress

LEMMA SameMade ==
  ASSUME SameRaw, UNCHANGED <<pc, at, doc, got, chunks, torn, summary>>, NEW r, NEW g, NEW t,
         Made(r, g, t)
  PROVE  Made(r, g, t)'
<1>1. Held(g, t)' <=> Held(g, t)
  BY SameHeld
<1>2. Cut(g, t) => Cut(g, t)'
  BY KeptCut DEF ChunkFiles
<1>3. Passed(r, g)' <=> Passed(r, g)
  BY DEF Passed
<1>4. Regulator(r)' = Regulator(r)
  BY DEF Regulator
<1>5. Covered(g, t, got[r]) => Covered(g, t, got[r])'
  BY DEF Covered, SameRaw, ChunkFiles, KeysOf, Key
<1>6. Covered(g, t, summary.covers) => Covered(g, t, summary.covers)'
  BY DEF Covered, SameRaw, ChunkFiles, KeysOf, Key
<1> QED
  BY <1>1, <1>2, <1>3, <1>4, <1>5, <1>6 DEF Made

LEMMA PublishCurrent ==
  ASSUME DryRunInv, CurrentInv, NEW g \in Regulators, Publish(g)
  PROVE  CurrentInv'
<1>0. TypeOK /\ Files
  BY CurrentParts DEF DryRunInv
<1>1. /\ site' = [site EXCEPT ![g] = @ + 1] /\ SameRaw
      /\ UNCHANGED <<hash, newest, pc, at, doc, got, chunks, torn, summary, report, collected,
                     overlapped>>
  BY DEF Publish, SameRaw, fileVars, rawVars, chunkVars, resultVars, runVars, historyVars
<1>2. \A h \in Regulators : site[h] \in Nat /\ site'[h] \in Nat /\ site[h] <= site'[h]
  BY <1>0, <1>1 DEF TypeOK, Texts
<1>3. Files'
  BY <1>0, <1>1, SameFiles
<1>4. ReportCurrent'
  BY <1>1, CurrentParts DEF ReportCurrent, SameRaw, ChunkFiles, KeysOf, Key
<1>5. ASSUME ~ overlapped PROVE OneRun' /\ AllOrdered' /\ \A s \in Runs : Progress(s)'
  <2>1. ASSUME NEW h \in Regulators PROVE Ordered(h)'
    <3>1. Ordered(h)
      BY <1>5, CurrentParts DEF AllOrdered
    <3>2. raw[h] # <<>> => LastRaw(h) \in Nat
      BY <1>0, LastRawTyped
    <3>3. \A t : Held(h, t)' <=> Held(h, t)
      BY <1>1, SameHeld
    <3> QED
      BY <1>1, <1>2, <3>1, <3>2, <3>3 DEF Ordered, LastRaw, SameRaw
  <2>2. ASSUME NEW s \in Runs PROVE InHand(s)'
    <3>1. PICK h \in Regulators : h = Regulator(s)
      BY <1>0, RegulatorTyped
    <3>2. InHand(s) /\ Regulator(s)' = h /\ Standing(s)
      BY <1>1, <1>5, <3>1, CurrentParts DEF Progress, Regulator, DryRunInv
    <3>3. pc[s] = "compare" => doc[s].text \in Nat
      BY <3>2 DEF Standing, Texts
    <3>4. pc[s] = "compare" => doc[s].text <= site'[h]
      BY <1>2, <3>1, <3>2, <3>3 DEF InHand
    <3> QED
      BY <1>1, <3>1, <3>2, <3>4 DEF InHand, Held, LastRaw, SameRaw
  <2>3. ASSUME NEW s \in Runs, NEW f \in collected[s] PROVE Made(s, f[1], f[2])'
    <3>1. Made(s, f[1], f[2])
      BY <1>5, CurrentParts DEF Progress
    <3> QED
      BY <1>1, <3>1, SameMade
  <2>4. OneRun'
    BY <1>1, <1>5, CurrentParts DEF OneRun
  <2> QED
    BY <1>1, <2>1, <2>2, <2>3, <2>4 DEF AllOrdered, Progress
<1> QED
  BY <1>1, <1>3, <1>4, <1>5 DEF CurrentInv, Files, OneRun, AllOrdered, Progress

LEMMA StutterCurrent ==
  ASSUME CurrentInv, UNCHANGED vars
  PROVE  CurrentInv'
<1>1. /\ UNCHANGED <<site, hash, newest, pc, at, doc, got, chunks, torn, summary, report, collected,
                     overlapped>>
      /\ SameRaw
  BY DEF vars, fileVars, rawVars, chunkVars, resultVars, runVars, historyVars, SameRaw
<1>2. Files' /\ ReportCurrent'
  BY <1>1, CurrentParts, SameFiles DEF ReportCurrent, SameRaw, ChunkFiles, KeysOf, Key
<1>3. ASSUME ~ overlapped PROVE OneRun' /\ AllOrdered' /\ \A r \in Runs : Progress(r)'
  <2>1. OneRun /\ AllOrdered /\ \A r \in Runs : Progress(r)
    BY <1>3, CurrentParts
  <2>2. OneRun' /\ AllOrdered'
    BY <1>1, <2>1, SameOrdered DEF OneRun
  <2>3. ASSUME NEW r \in Runs PROVE Progress(r)'
    <3>1. InHand(r)'
      BY <1>1, <2>1 DEF Progress, InHand, Held, LastRaw, SameRaw, Regulator
    <3>2. ASSUME NEW f \in collected[r] PROVE Made(r, f[1], f[2])'
      BY <1>1, <2>1, SameMade DEF Progress
    <3> QED
      BY <1>1, <3>1, <3>2 DEF Progress
  <2> QED
    BY <2>2, <2>3
<1> QED
  BY <1>1, <1>2, <1>3 DEF CurrentInv, Files, OneRun, AllOrdered, Progress

LEMMA NextKeepsCurrent == DryRunInv /\ CurrentInv /\ [Next]_vars => CurrentInv'
<1> SUFFICES ASSUME DryRunInv, CurrentInv, [Next]_vars PROVE CurrentInv'
  OBVIOUS
<1>1. ASSUME NEW r \in Runs, Collect(r) PROVE CurrentInv'
  BY <1>1, FetchCurrent, FailureCurrent, UnchangedCurrent, OpenRawCurrent, WriteRawCurrent,
     OpenHashCurrent, WriteHashCurrent, CountSavedCurrent, SavedCountedCurrent DEF Collect
<1>2. ASSUME NEW r \in Runs, Process(r) PROVE CurrentInv'
  BY <1>2, SkipEmptyCurrent, ReadNewestCurrent, ChunkCurrent, FinishDocumentCurrent DEF Process
<1>3. ASSUME NEW r \in Runs, Kill(r) PROVE CurrentInv'
  <2>1. /\ Exit(r) /\ pc[r] # "idle" /\ SameRaw
        /\ UNCHANGED <<site, hash, newest, chunks, torn, overlapped, report>>
    BY <1>3 DEF Kill, SameRaw, fileVars, rawVars, chunkVars, resultVars
  <2> QED
    BY <1>3, <2>1, KillStep, BrokenOffCurrent
<1> QED
  BY <1>1, <1>2, <1>3, ConcludeKeepsCurrent, StartCurrent, PublishCurrent, StutterCurrent DEF Next

LEMMA InitCurrent == Init => CurrentInv
<1> SUFFICES ASSUME Init PROVE CurrentInv
  OBVIOUS
<1>1. /\ \A r \in Runs : pc[r] = "idle" /\ collected[r] = {}
      /\ \A g \in Regulators : raw[g] = <<>> /\ newest[g] = 0
      /\ report.collected = {} /\ collected = [r \in Runs |-> {}]
  BY DEF Init, NoReport
<1>2. ChunkFiles = {}
  BY DEF Init, ChunkFiles
<1>3. Files
  BY <1>1, <1>2, FS_EmptySet DEF Files
<1>4. AllOrdered
  BY <1>1, EmptySeq DEF AllOrdered, Ordered
<1>5. \A r \in Runs : Progress(r)
  BY <1>1, IdleProgress
<1>6. OneRun /\ ReportCurrent
  BY <1>1 DEF OneRun, ReportCurrent
<1> QED
  BY <1>3, <1>4, <1>5, <1>6, CurrentParts

(* run_full_pipeline: a run that no other overlaps brings each text that   *)
(* it has saved or found unchanged through its stages, whatever raised in  *)
(* its collection, whatever runs that were killed have left, and whatever  *)
(* is published meanwhile.                                                 *)
THEOREM CurrentInvariance == Spec => []CurrentInv
<1> QED
  BY InitCurrent, NextKeepsCurrent, Invariance, PTL DEF Spec

(* The last report covers every text that its run has saved or found       *)
(* unchanged.                                                              *)
THEOREM ReportCurrentHolds == Spec => []ReportCurrent
<1>1. CurrentInv => ReportCurrent
  BY CurrentParts
<1> QED
  BY <1>1, CurrentInvariance, PTL
=============================================================================

----------------------------- MODULE ShellProofs -----------------------------
(***************************************************************************)
(* The shell gives back what its calls take, keeps the data of a pipeline   *)
(* to it, and its variables are a map, for all lines and scripts.           *)
(***************************************************************************)
EXTENDS Shell, SequenceTheorems, FiniteSetTheorems, WellFoundedInduction, TLAPS

-----------------------------------------------------------------------------
(* Sequences                                                                *)

\* A set of numbers has a least one.
LEMMA NatHasLeast ==
  ASSUME NEW S \in SUBSET Nat, S # {}
  PROVE  \E p \in S : \A q \in S : p <= q
<1> DEFINE R == OpToRel(<, Nat)
<1>1. \A p, q \in Nat : q < p => <<q, p>> \in R
  BY DEF OpToRel
<1>2. IsWellFoundedOn(R, Nat)
  BY NatLessThanWellFounded
<1> HIDE DEF R
<1>3. PICK p \in S : \A q \in S : ~(<<q, p>> \in R)
  BY <1>2, WFMin
<1>4. ASSUME NEW q \in S PROVE p <= q
  <2>1. p \in Nat /\ q \in Nat
    OBVIOUS
  <2>2. ~(q < p)
    BY <1>1, <1>3, <2>1
  <2> QED BY <2>1, <2>2
<1> QED BY <1>4

\* What SelectInSeq returns is an index that passes, or 0.
LEMMA MinIndex ==
  ASSUME NEW I \in SUBSET Nat, I # {}
  PROVE  Min(I) \in I /\ \A i \in I : Min(I) <= i
<1>1. PICK p \in I : \A q \in I : p <= q
  BY NatHasLeast
<1> QED BY <1>1 DEF Min

\* The sequence without its last element, and its last element.
LEMMA FrontFacts ==
  ASSUME NEW S, NEW s \in Seq(S), s # <<>>
  PROVE  /\ Len(s) \in Nat \ {0} /\ Last(s) = s[Len(s)] /\ Last(s) \in S
         /\ Front(s) \in Seq(S) /\ Len(Front(s)) = Len(s) - 1
         /\ \A i \in 1..(Len(s) - 1) : Front(s)[i] = s[i]
<1>1. Len(s) \in Nat \ {0}
  BY EmptySeq
<1>2. \A i \in 1..(Len(s) - 1) : s[i] \in S
  BY <1>1, ElementOfSeq
<1> DEFINE n == Len(s) - 1
<1>3. n \in Nat /\ n \in Int /\ 1 \in Int /\ n - 1 + 1 = n
  BY <1>1
<1>4. Front(s) = SubSeq(s, 1, n) /\ \A i \in 1..n : s[i] \in S
  BY <1>2 DEF Front
<1> HIDE DEF n
<1>5. /\ SubSeq(s, 1, n) \in Seq(S) /\ Len(SubSeq(s, 1, n)) = (IF 1 <= n THEN n - 1 + 1 ELSE 0)
      /\ \A i \in 1..(n - 1 + 1) : SubSeq(s, 1, n)[i] = s[1 + i - 1]
  BY <1>3, <1>4, SubSeqProperties
<1>6. Front(s) \in Seq(S) /\ Len(Front(s)) = n /\ \A i \in 1..n : Front(s)[i] = s[i]
  BY <1>3, <1>4, <1>5
<1> QED BY <1>1, <1>6, ElementOfSeq DEF Last, n

LEMMA FrontLast ==
  ASSUME NEW S, NEW s \in Seq(S), s # <<>>
  PROVE  s = Append(Front(s), Last(s))
<1> DEFINE t == Append(Front(s), Last(s))
<1>1. Front(s) \in Seq(S) /\ Last(s) \in S
  BY FrontFacts
<1>2. t \in Seq(S) /\ Len(t) = Len(Front(s)) + 1
      /\ (\A i \in 1..Len(Front(s)) : t[i] = Front(s)[i]) /\ t[Len(Front(s)) + 1] = Last(s)
  BY <1>1, AppendProperties
<1> HIDE DEF t
<1>3. \A i \in 1..Len(s) : s[i] = t[i]
  BY <1>2, FrontFacts
<1>4. Len(t) = Len(s)
  BY <1>2, FrontFacts
<1> QED BY <1>2, <1>3, <1>4, SeqEqual DEF t

-----------------------------------------------------------------------------
(* Frames                                                                   *)

\* A segment of a pipeline is a command, or one that is skipped.
Runnable == Commands \cup {[c EXCEPT !.name = "skip"] : c \in Commands}
PipelineFrames == {f \in [kind : {"pipeline"}, todo : Seq(Runnable)] : Len(f.todo) <= MAX_SEGMENTS}
ScriptFrames == [kind : {"script"}, todo : Seq(Lines), line : {0, 1}]
Frames == PipelineFrames \cup ScriptFrames

\* How many of the calls in fs are in S.
Indices(fs, S) == {i \in 1..Len(fs) : fs[i] \in S}
Count(fs, S) == Cardinality(Indices(fs, S))

LEMMA CountFinite ==
  ASSUME NEW F, NEW fs \in Seq(F), NEW S
  PROVE  /\ IsFiniteSet(Indices(fs, S)) /\ Count(fs, S) \in Nat
         /\ Count(fs, S) = 0 <=> Indices(fs, S) = {}
<1>1. Len(fs) \in Nat
  OBVIOUS
<1>2. IsFiniteSet(1..Len(fs))
  BY <1>1, FS_Interval
<1>3. Indices(fs, S) \in SUBSET (1..Len(fs))
  BY DEF Indices
<1>4. IsFiniteSet(Indices(fs, S))
  BY <1>2, <1>3, FS_Subset
<1> QED BY <1>4, FS_CardinalityType, FS_EmptySet DEF Count

LEMMA CountAppend ==
  ASSUME NEW F, NEW fs \in Seq(F), NEW x \in F, NEW S
  PROVE  Count(Append(fs, x), S) = Count(fs, S) + (IF x \in S THEN 1 ELSE 0)
<1> DEFINE n == Len(fs) + 1
           gs == Append(fs, x)
<1>1. n \in Nat /\ n \notin 1..Len(fs) /\ Len(gs) = n /\ gs[n] = x /\ \A i \in 1..Len(fs) : gs[i] = fs[i]
  BY AppendProperties
<1>2. IsFiniteSet(Indices(fs, S)) /\ n \notin Indices(fs, S)
  BY <1>1, CountFinite DEF Indices
<1>3. Indices(gs, S) = IF x \in S THEN Indices(fs, S) \cup {n} ELSE Indices(fs, S)
  <2> HIDE DEF gs
  <2>1. 1..n = (1..Len(fs)) \cup {n}
    BY <1>1
  <2> HIDE DEF n
  <2> QED BY <1>1, <2>1 DEF Indices
<1> HIDE DEF n
<1>4. Cardinality(Indices(fs, S) \cup {n}) = Cardinality(Indices(fs, S)) + 1
  BY <1>2, FS_AddElement
<1>5. Cardinality(Indices(fs, S)) \in Nat
  BY CountFinite DEF Count
<1> QED BY <1>3, <1>4, <1>5 DEF Count

-----------------------------------------------------------------------------
(* Lines and segments                                                       *)

LEMMA LineFacts ==
  ASSUME NEW ln \in Lines
  PROVE  /\ Meaning[ln] \in Seq(Commands) /\ Len(Meaning[ln]) \in Nat \ {0}
         /\ Meaning[ln][1] \in Commands
         /\ Segments(Meaning[ln]) \in Seq(Commands) /\ Len(Segments(Meaning[ln])) <= MAX_SEGMENTS
<1> DEFINE cmds == Meaning[ln]
           n == IF Len(cmds) < MAX_SEGMENTS THEN Len(cmds) ELSE MAX_SEGMENTS
<1>1. cmds \in Seq(Commands) /\ cmds # <<>> /\ MAX_SEGMENTS \in Nat
  BY InterpreterAssumption
<1> HIDE DEF cmds
<1>2. Len(cmds) \in Nat \ {0} /\ cmds[1] \in Commands
  BY <1>1, EmptySeq, ElementOfSeq
<1>3. n \in Nat /\ n \in Int /\ 1 \in Int /\ n - 1 + 1 = n /\ n <= MAX_SEGMENTS /\ n <= Len(cmds)
  BY <1>1, <1>2
<1>4. Segments(cmds) = SubSeq(cmds, 1, n)
  BY DEF Segments
<1> HIDE DEF n
<1>5. \A i \in 1..n : cmds[i] \in Commands
  BY <1>1, <1>2, <1>3, ElementOfSeq
<1>6. SubSeq(cmds, 1, n) \in Seq(Commands) /\ Len(SubSeq(cmds, 1, n)) = IF 1 <= n THEN n - 1 + 1 ELSE 0
  BY <1>3, <1>5, SubSeqProperties
<1>7. Len(SubSeq(cmds, 1, n)) = n
  BY <1>3, <1>6
<1> QED BY <1>1, <1>2, <1>3, <1>4, <1>6, <1>7 DEF cmds

LEMMA FindFacts ==
  ASSUME NEW cmds \in Seq(Commands), FindAt(cmds) # 0
  PROVE  FindAt(cmds) \in 1..Len(cmds)
<1> DEFINE I == {i \in 1..Len(cmds) : cmds[i].name = "find"}
<1>1. FindAt(cmds) = IF I # {} THEN Min(I) ELSE 0
  BY DEF FindAt, SelectInSeq
<1>2. I \in SUBSET Nat
  OBVIOUS
<1> HIDE DEF I
<1>3. FindAt(cmds) \in I
  BY <1>1, <1>2, MinIndex
<1> QED BY <1>3 DEF I

LEMMA RunnableFacts ==
  ASSUME NEW c \in Runnable, c.name # "skip"
  PROVE  c \in Commands
<1>1. \A d \in Commands : [d EXCEPT !.name = "skip"].name = "skip"
  BY InterpreterAssumption
<1> QED BY <1>1 DEF Runnable

LEMMA ToRunFacts ==
  ASSUME NEW cmds \in Seq(Commands)
  PROVE  ToRun(cmds) \in Seq(Runnable) /\ Len(ToRun(cmds)) = Len(cmds)
<1>1. DOMAIN cmds = 1..Len(cmds) /\ Len(cmds) \in Nat
  OBVIOUS
<1>2. \A i \in 1..Len(cmds) : cmds[i] \in Commands
  BY ElementOfSeq
<1>3. ToRun(cmds) \in [1..Len(cmds) -> Runnable]
  BY <1>1, <1>2 DEF ToRun, Runnable
<1> QED BY <1>1, <1>3

Datum == [what : STRING, old : BOOLEAN]

LEMMA TermFacts ==
  ASSUME NEW cmds \in Seq(Commands)
  PROVE  TermOf(cmds) = NoTerm \/ (TermOf(cmds) \in Datum /\ ~TermOf(cmds).old)
<1>1. ASSUME FindAt(cmds) # 0 PROVE cmds[FindAt(cmds)].arg \in STRING
  BY <1>1, FindFacts, ElementOfSeq, InterpreterAssumption
<1> QED BY <1>1 DEF TermOf, New, Datum

-----------------------------------------------------------------------------
(* The calls                                                                *)

JobStates == {"prompt", "line", "command", "returned", "reading", "loading", "program", "exited", "overrun"}
JobOK ==
  /\ job.at \in JobStates
  /\ job.at = "line" => job.line \in Lines
  /\ job.at = "command" => job.cmd \in Commands
  /\ job.at = "reading" => job \in [at : {"reading"}, page : 1..MaxPages, pages : 1..MaxPages]

BlockOK ==
  /\ collecting_block \in Starts \cup {"none"}
  /\ block_line_count \in 0..MAX_BLOCK_LINES /\ block_nesting \in 0..block_line_count
  /\ header_words \in {0, 1}

\* What the calls fs have allocated: a pipeline the copy of its line, a script
\* its text and the copy of the line that runs.
HoldingLine == {f \in ScriptFrames : f.line = 1}
Held(fs) == Count(fs, PipelineFrames) + Count(fs, ScriptFrames) + Count(fs, HoldingLine)
Weight(f) == IF f.kind = "pipeline" THEN 1 ELSE 1 + f.line
InPipeline(fs) == \E i \in 1..Len(fs) : fs[i].kind = "pipeline"
Loading == IF job.at = "loading" THEN 1 ELSE 0

FramesOK ==
  /\ frames \in Seq(Frames)
  /\ allocated = Held(frames) + Loading
  /\ piping \in BOOLEAN /\ (piping => InPipeline(frames))
  /\ job.at \in {"prompt", "exited"} => frames = <<>>

\* The data of the stream and the term, old ones only outside of pipelines.
Data == stream \cup ({find_term} \ {NoTerm})
DataOK ==
  /\ Data \subseteq Datum
  /\ InPipeline(frames) => \A d \in Data : ~d.old
  /\ pipe_remaining \in 0..MAX_SEGMENTS

CallsInd == JobOK /\ BlockOK /\ FramesOK /\ DataOK

LEMMA FrameFacts ==
  ASSUME NEW f \in Frames
  PROVE  /\ f.kind \in {"pipeline", "script"}
         /\ f.kind = "pipeline" <=> f \in PipelineFrames
         /\ f.kind = "pipeline" => f.todo \in Seq(Runnable) /\ Len(f.todo) <= MAX_SEGMENTS
         /\ f.kind = "script" <=> f \in ScriptFrames
         /\ f.kind = "script" => f.todo \in Seq(Lines) /\ f.line \in {0, 1} /\ (f.line = 1 <=> f \in HoldingLine)
         /\ f.kind = "pipeline" => f \notin HoldingLine
         /\ Weight(f) \in Nat
BY DEF Frames, PipelineFrames, ScriptFrames, HoldingLine, Weight

LEMMA HeldAppend ==
  ASSUME NEW fs \in Seq(Frames), NEW f \in Frames
  PROVE  /\ Append(fs, f) \in Seq(Frames)
         /\ Held(fs) \in Nat /\ Held(Append(fs, f)) = Held(fs) + Weight(f)
         /\ InPipeline(Append(fs, f)) <=> InPipeline(fs) \/ f.kind = "pipeline"
<1> DEFINE gs == Append(fs, f)
<1>1. gs \in Seq(Frames) /\ Len(gs) = Len(fs) + 1 /\ Len(fs) \in Nat
      /\ (\A i \in 1..Len(fs) : gs[i] = fs[i]) /\ gs[Len(fs) + 1] = f
  BY AppendProperties
<1> HIDE DEF gs
<1>2. InPipeline(gs) <=> InPipeline(fs) \/ f.kind = "pipeline"
  <2>1. 1..Len(gs) = (1..Len(fs)) \cup {Len(fs) + 1}
    BY <1>1
  <2> QED BY <1>1, <2>1 DEF InPipeline
<1> DEFINE p == Count(fs, PipelineFrames)
           s == Count(fs, ScriptFrames)
           h == Count(fs, HoldingLine)
<1>3. p \in Nat /\ s \in Nat /\ h \in Nat
  BY CountFinite
<1>4. /\ Count(gs, PipelineFrames) = p + (IF f \in PipelineFrames THEN 1 ELSE 0)
      /\ Count(gs, ScriptFrames) = s + (IF f \in ScriptFrames THEN 1 ELSE 0)
      /\ Count(gs, HoldingLine) = h + (IF f \in HoldingLine THEN 1 ELSE 0)
  BY CountAppend DEF gs
<1> HIDE DEF p, s, h
<1>5. Held(fs) = p + s + h
  BY DEF Held, p, s, h
<1>6. CASE f.kind = "pipeline"
  <2>1. f \in PipelineFrames /\ f \notin ScriptFrames /\ f \notin HoldingLine /\ Weight(f) = 1
    BY <1>6, FrameFacts DEF Weight
  <2> QED BY <1>1, <1>2, <1>3, <1>4, <1>5, <2>1 DEF Held, gs
<1>7. CASE f.kind = "script"
  <2>1. f \notin PipelineFrames /\ f \in ScriptFrames /\ f.line \in {0, 1} /\ (f \in HoldingLine <=> f.line = 1)
        /\ Weight(f) = 1 + f.line
    BY <1>7, FrameFacts DEF Weight
  <2> QED BY <1>1, <1>2, <1>3, <1>4, <1>5, <2>1 DEF Held, gs
<1> QED BY <1>6, <1>7, FrameFacts

LEMMA HeldFront ==
  ASSUME NEW fs \in Seq(Frames), fs # <<>>
  PROVE  /\ Front(fs) \in Seq(Frames) /\ Last(fs) \in Frames
         /\ Held(Front(fs)) \in Nat /\ Held(fs) = Held(Front(fs)) + Weight(Last(fs))
         /\ InPipeline(fs) <=> InPipeline(Front(fs)) \/ Last(fs).kind = "pipeline"
<1>1. Front(fs) \in Seq(Frames) /\ Last(fs) \in Frames /\ fs = Append(Front(fs), Last(fs))
  BY FrontFacts, FrontLast
<1> QED BY <1>1, HeldAppend

\* The ways in which a step may change the stack of calls.
LEMMA FramesKept ==
  ASSUME FramesOK, UNCHANGED <<frames, piping, allocated>>, Loading' = Loading,
         job'.at \in {"prompt", "exited"} => frames = <<>>
  PROVE  FramesOK' /\ (InPipeline(frames)' <=> InPipeline(frames))
BY DEF FramesOK, InPipeline, Held, Count, Indices

LEMMA FramePushed ==
  ASSUME FramesOK, NEW f \in Frames, frames' = Append(frames, f),
         allocated' = allocated + Weight(f), job.at # "loading", job'.at \notin {"prompt", "exited", "loading"},
         piping' \in BOOLEAN, piping' => piping \/ f.kind = "pipeline"
  PROVE  FramesOK' /\ (InPipeline(frames)' <=> InPipeline(frames) \/ f.kind = "pipeline")
<1>1. frames \in Seq(Frames) /\ allocated = Held(frames) + 0 /\ (piping => InPipeline(frames))
  BY DEF FramesOK, Loading
<1>2. frames' \in Seq(Frames) /\ Held(frames) \in Nat /\ Held(frames') = Held(frames) + Weight(f)
      /\ (InPipeline(frames') <=> InPipeline(frames) \/ f.kind = "pipeline")
  BY <1>1, HeldAppend
<1>3. allocated' = Held(frames') + 0 /\ Loading' = 0
  BY <1>1, <1>2, FrameFacts DEF Loading
<1>4. Held(frames)' = Held(frames') /\ (InPipeline(frames)' <=> InPipeline(frames'))
  BY DEF Held, Count, Indices, InPipeline
<1> QED BY <1>1, <1>2, <1>3, <1>4 DEF FramesOK

LEMMA FrameReplaced ==
  ASSUME FramesOK, NEW f \in Frames, frames # <<>>, f.kind = Last(frames).kind,
         frames' = Append(Front(frames), f),
         allocated' = allocated - Weight(Last(frames)) + Weight(f),
         job.at # "loading", job'.at \notin {"prompt", "exited", "loading"}, piping' = piping
  PROVE  FramesOK' /\ (InPipeline(frames)' <=> InPipeline(frames))
<1> DEFINE g == Last(frames)
           below == Front(frames)
<1>1. frames \in Seq(Frames) /\ allocated = Held(frames) + 0 /\ (piping => InPipeline(frames)) /\ piping \in BOOLEAN
  BY DEF FramesOK, Loading
<1>2. g \in Frames /\ below \in Seq(Frames) /\ Held(below) \in Nat /\ Held(frames) = Held(below) + Weight(g)
      /\ (InPipeline(frames) <=> InPipeline(below) \/ g.kind = "pipeline")
  BY <1>1, HeldFront
<1> HIDE DEF g, below
<1>3. frames' \in Seq(Frames) /\ Held(frames') = Held(below) + Weight(f)
      /\ (InPipeline(frames') <=> InPipeline(below) \/ f.kind = "pipeline")
  BY <1>2, HeldAppend DEF below
<1>4. Weight(f) \in Nat /\ Weight(g) \in Nat /\ allocated' = allocated - Weight(g) + Weight(f) /\ f.kind = g.kind
  BY <1>2, FrameFacts DEF g
<1>5. allocated' = Held(frames') + 0 /\ Loading' = 0
  BY <1>1, <1>2, <1>3, <1>4 DEF Loading
<1>6. Held(frames)' = Held(frames') /\ (InPipeline(frames)' <=> InPipeline(frames'))
  BY DEF Held, Count, Indices, InPipeline
<1> QED BY <1>1, <1>2, <1>3, <1>4, <1>5, <1>6 DEF FramesOK

LEMMA FramePopped ==
  ASSUME FramesOK, frames # <<>>, frames' = Front(frames),
         allocated' = allocated - Weight(Last(frames)),
         job.at # "loading", job'.at \notin {"prompt", "exited", "loading"},
         piping' = FALSE \/ (piping' = piping /\ Last(frames).kind # "pipeline")
  PROVE  FramesOK' /\ (InPipeline(frames)' => InPipeline(frames))
<1> DEFINE g == Last(frames)
<1>1. frames \in Seq(Frames) /\ allocated = Held(frames) + 0 /\ (piping => InPipeline(frames)) /\ piping \in BOOLEAN
  BY DEF FramesOK, Loading
<1>2. g \in Frames /\ frames' \in Seq(Frames) /\ Held(frames') \in Nat /\ Held(frames) = Held(frames') + Weight(g)
      /\ (InPipeline(frames) <=> InPipeline(frames') \/ g.kind = "pipeline")
  BY <1>1, HeldFront
<1>3. Weight(g) \in Nat /\ allocated' = allocated - Weight(g)
  BY <1>2, FrameFacts
<1>4. allocated' = Held(frames') + 0 /\ Loading' = 0
  BY <1>1, <1>2, <1>3 DEF Loading
<1>5. Held(frames)' = Held(frames') /\ (InPipeline(frames)' <=> InPipeline(frames'))
  BY DEF Held, Count, Indices, InPipeline
<1>6. piping' \in BOOLEAN /\ (piping' => InPipeline(frames'))
  <2>1. CASE piping' = FALSE
    BY <2>1
  <2>2. CASE piping' = piping /\ g.kind # "pipeline"
    BY <1>1, <1>2, <2>2
  <2> QED BY <2>1, <2>2
<1>7. job'.at \notin {"prompt", "exited"}
  OBVIOUS
<1> QED BY <1>2, <1>4, <1>5, <1>6, <1>7 DEF FramesOK

\* Data in the stream and the term afterwards are those of before, or new.
LEMMA DataFresh ==
  ASSUME DataOK, \A d \in Data' : d \in Data \/ (d \in Datum /\ ~d.old),
         InPipeline(frames)' => InPipeline(frames) \/ \A d \in Data' : ~d.old,
         pipe_remaining' \in 0..MAX_SEGMENTS
  PROVE  DataOK'
BY DEF DataOK

-----------------------------------------------------------------------------
(* The steps                                                                *)

\* A step that answers, and touches neither the calls nor the data.
LEMMA Answers ==
  ASSUME CallsInd, UNCHANGED <<frames, pipe, allocated>>, BlockOK', JobOK',
         job.at # "loading", job'.at # "loading", job'.at \in {"prompt", "exited"} => frames = <<>>
  PROVE  CallsInd'
<1>1. Loading' = Loading
  BY DEF Loading
<1>2. FramesOK' /\ (InPipeline(frames)' <=> InPipeline(frames))
  BY <1>1, FramesKept DEF CallsInd, pipe
<1>3. Data' = Data /\ pipe_remaining' \in 0..MAX_SEGMENTS
  BY DEF Data, pipe, CallsInd, DataOK
<1>4. DataOK'
  BY <1>2, <1>3, DataFresh DEF CallsInd
<1> QED BY <1>2, <1>4 DEF CallsInd

LEMMA ReturnsJob ==
  ASSUME NEW r, Returns(r)
  PROVE  JobOK' /\ job'.at = "returned"
BY DEF Returns, JobOK, JobStates

LEMMA CallsInit == InterpreterInit => CallsInd
<1> SUFFICES ASSUME InterpreterInit PROVE CallsInd
  OBVIOUS
<1>1. JobOK /\ Loading = 0
  BY DEF InterpreterInit, JobOK, JobStates, Loading
<1>2. BlockOK
  BY InterpreterAssumption DEF InterpreterInit, BlockOK
<1>3. frames = <<>> /\ Len(frames) = 0 /\ frames \in Seq(Frames)
  BY DEF InterpreterInit
<1>4. \A S : Indices(frames, S) = {}
  BY <1>3 DEF Indices
<1>5. Held(frames) = 0
  BY <1>4, FS_EmptySet DEF Held, Count
<1>6. FramesOK
  <2>1. allocated = 0 /\ piping = FALSE
    BY DEF InterpreterInit
  <2>2. allocated = Held(frames) + Loading
    BY <1>1, <1>5, <2>1
  <2> QED BY <1>3, <2>1, <2>2 DEF FramesOK
<1>7. DataOK
  BY <1>3, InterpreterAssumption DEF DataOK, Data, InPipeline, InterpreterInit
<1> QED BY <1>1, <1>2, <1>6, <1>7 DEF CallsInd

LEMMA PromptStep == ASSUME CallsInd, Prompt PROVE CallsInd'
<1>1. JobOK' /\ job'.at \in {"prompt", "exited"}
  BY DEF Prompt, JobOK, JobStates
<1>2. BlockOK'
  BY DEF CallsInd, BlockOK, Prompt, block
<1>3. Loading' = Loading
  BY <1>1 DEF Prompt, Loading
<1>4. FramesOK' /\ frames' = <<>>
  BY <1>3, FramesKept DEF CallsInd, Prompt
<1>5. ~InPipeline(frames)'
  BY <1>4 DEF InPipeline
<1>6. Data' \subseteq Datum
  <2>1. \A d \in Datum : Old(d) \in Datum
    BY DEF Datum, Old
  <2>2. stream \subseteq Datum /\ (find_term = NoTerm \/ find_term \in Datum)
    BY DEF CallsInd, DataOK, Data
  <2> QED BY <2>1, <2>2 DEF Data, Prompt
<1>7. DataOK'
  BY <1>5, <1>6 DEF DataOK, CallsInd, Prompt
<1> QED BY <1>1, <1>2, <1>4, <1>7 DEF CallsInd

LEMMA process_commandStep == ASSUME CallsInd, process_command PROVE CallsInd'
<1> DEFINE cmds == Meaning[job.line]
<1>1. job.line \in Lines /\ job.at = "line" /\ MAX_SEGMENTS \in Nat
  BY InterpreterAssumption DEF CallsInd, JobOK, process_command
<1>2. Segments(cmds) \in Seq(Commands) /\ Len(Segments(cmds)) <= MAX_SEGMENTS /\ cmds[1] \in Commands
  BY <1>1, LineFacts
<1>3. CASE Len(cmds) > 1 /\ CanAllocate
  <2> DEFINE segs == Segments(cmds)
             f == [kind |-> "pipeline", todo |-> ToRun(segs)]
  <2>1. StartPipeline(segs)
    BY <1>3 DEF process_command
  <2>2. f \in Frames /\ f.kind = "pipeline" /\ Weight(f) = 1
    <3>1. ToRun(segs) \in Seq(Runnable) /\ Len(ToRun(segs)) <= MAX_SEGMENTS
      BY <1>2, ToRunFacts
    <3> QED BY <3>1 DEF Frames, PipelineFrames, Weight
  <2>3. TermOf(segs) = NoTerm \/ (TermOf(segs) \in Datum /\ ~TermOf(segs).old)
    BY <1>2, TermFacts
  <2> HIDE DEF cmds
  <2>4. JobOK' /\ job'.at = "returned"
    BY <2>1, ReturnsJob DEF StartPipeline
  <2>5. frames' = Append(frames, f) /\ allocated' = allocated + 1 /\ piping' = TRUE
        /\ stream' = {} /\ find_term' = TermOf(segs) /\ UNCHANGED <<pipe_remaining, block>>
    BY <2>1 DEF StartPipeline, EmptyStream
  <2> HIDE DEF segs, f
  <2>6. FramesOK'
    BY <1>1, <2>2, <2>4, <2>5, FramePushed DEF CallsInd
  <2>7. \A d \in Data' : d \in Datum /\ ~d.old
    BY <2>3, <2>5 DEF Data
  <2>8. DataOK'
    BY <2>5, <2>7, DataFresh DEF CallsInd, DataOK
  <2>9. BlockOK'
    BY <2>5 DEF CallsInd, BlockOK, block
  <2> QED BY <2>4, <2>6, <2>8, <2>9 DEF CallsInd
<1>4. CASE Len(cmds) > 1 /\ ~CanAllocate
  <2>1. PipelineFails
    BY <1>4 DEF process_command
  <2>2. JobOK' /\ job'.at = "returned"
    BY <2>1, ReturnsJob DEF PipelineFails
  <2>3. UNCHANGED <<frames, pipe_remaining, block, allocated>> /\ piping' = FALSE /\ stream' = {} /\ find_term' = NoTerm
    BY <2>1 DEF PipelineFails, EmptyStream
  <2>4. Loading' = Loading /\ (InPipeline(frames)' <=> InPipeline(frames)) /\ Held(frames)' = Held(frames)
    BY <1>1, <2>2, <2>3 DEF Loading, InPipeline, Held, Count, Indices
  <2>5. FramesOK'
    BY <2>2, <2>3, <2>4 DEF CallsInd, FramesOK
  <2>6. Data' = {}
    BY <2>3 DEF Data
  <2>7. DataOK'
    BY <2>3, <2>6 DEF CallsInd, DataOK
  <2>8. BlockOK'
    BY <2>3 DEF CallsInd, BlockOK, block
  <2> QED BY <2>2, <2>5, <2>7, <2>8 DEF CallsInd
<1>5. CASE ~(Len(cmds) > 1)
  <2>1. job' = [at |-> "command", cmd |-> cmds[1]] /\ UNCHANGED <<frames, pipe, block, allocated>>
    BY <1>5 DEF process_command
  <2>2. JobOK' /\ job'.at = "command"
    BY <1>2, <2>1 DEF JobOK, JobStates
  <2>3. BlockOK'
    BY <2>1 DEF CallsInd, BlockOK, block
  <2> QED BY <1>1, <2>1, <2>2, <2>3, Answers
<1> QED BY <1>3, <1>4, <1>5

LEMMA StackOverrunsStep == ASSUME CallsInd, StackOverruns PROVE CallsInd'
<1>1. job.at = "line" /\ job' = [at |-> "overrun"] /\ UNCHANGED <<frames, pipe, block, allocated>>
  BY DEF StackOverruns
<1>2. JobOK' /\ job'.at = "overrun"
  BY <1>1 DEF JobOK, JobStates
<1>3. BlockOK'
  BY <1>1 DEF CallsInd, BlockOK, block
<1> QED BY <1>1, <1>2, <1>3, Answers

\* The frame on top of the stack has its kind.
LEMMA TopFacts ==
  ASSUME CallsInd, NEW kind, Returned(kind)
  PROVE  /\ job.at = "returned" /\ frames # <<>> /\ Top \in Frames /\ Top.kind = kind /\ Last(frames) = Top
         /\ kind = "pipeline" => Top.todo \in Seq(Runnable) /\ Len(Top.todo) <= MAX_SEGMENTS /\ Top \in PipelineFrames
                                 /\ Weight(Top) = 1
         /\ kind = "script" => Top.todo \in Seq(Lines) /\ Top.line \in {0, 1} /\ Top \in ScriptFrames
                               /\ Weight(Top) = 1 + Top.line
<1>1. frames # <<>> /\ Last(frames).kind = kind /\ job.at = "returned" /\ frames \in Seq(Frames)
  BY DEF Returned, CallsInd, FramesOK
<1>2. Last(frames) \in Frames
  BY <1>1, FrontFacts
<1> QED BY <1>1, <1>2, FrameFacts DEF Top, Weight

LEMMA NextSegmentStep == ASSUME CallsInd, NextSegment PROVE CallsInd'
<1> DEFINE f == [Top EXCEPT !.todo = Tail(@)]
<1>1. Returned("pipeline") /\ Top.todo # <<>> /\ frames' = Append(Front(frames), f)
      /\ pipe_remaining' = Len(Top.todo) - 1
      /\ UNCHANGED <<stream, find_term, piping, block, allocated>>
      /\ job' = (IF Head(Top.todo).name = "skip" THEN job ELSE [at |-> "command", cmd |-> Head(Top.todo)])
  BY DEF NextSegment, Stops
<1>2. job.at = "returned" /\ frames # <<>> /\ Last(frames) = Top /\ Top.todo \in Seq(Runnable)
      /\ Len(Top.todo) <= MAX_SEGMENTS /\ Top \in PipelineFrames /\ Weight(Top) = 1 /\ Top.kind = "pipeline"
  BY <1>1, TopFacts
<1>3. Head(Top.todo) \in Runnable /\ Tail(Top.todo) \in Seq(Runnable) /\ Len(Tail(Top.todo)) = Len(Top.todo) - 1
      /\ Len(Top.todo) \in Nat \ {0}
  BY <1>1, <1>2, HeadTailProperties, EmptySeq
<1>4. f \in Frames /\ f.kind = "pipeline" /\ Weight(f) = 1
  <2>1. Len(Tail(Top.todo)) <= MAX_SEGMENTS
    BY <1>2, <1>3, InterpreterAssumption
  <2>2. f \in [kind : {"pipeline"}, todo : Seq(Runnable)] /\ f.todo = Tail(Top.todo)
    BY <1>2, <1>3 DEF PipelineFrames
  <2> QED BY <2>1, <2>2 DEF Frames, PipelineFrames, Weight
<1> HIDE DEF f
<1>5. JobOK' /\ job'.at \in {"returned", "command"}
  <2>1. CASE Head(Top.todo).name = "skip"
    BY <1>1, <1>2, <2>1 DEF JobOK, JobStates
  <2>2. CASE Head(Top.todo).name # "skip"
    <3>1. Head(Top.todo) \in Commands
      BY <1>3, <2>2, RunnableFacts
    <3>2. job' = [at |-> "command", cmd |-> Head(Top.todo)]
      BY <1>1, <2>2
    <3> QED BY <3>1, <3>2 DEF JobOK, JobStates
  <2> QED BY <2>1, <2>2
<1>6. allocated' = allocated - Weight(Last(frames)) + Weight(f)
  <2>1. allocated \in Int
    BY <1>2, HeldFront DEF CallsInd, FramesOK, Loading
  <2> QED BY <1>1, <1>2, <1>4, <2>1
<1>7. FramesOK' /\ (InPipeline(frames)' <=> InPipeline(frames))
  BY <1>1, <1>2, <1>4, <1>5, <1>6, FrameReplaced DEF CallsInd
<1>8. pipe_remaining' \in 0..MAX_SEGMENTS
  <2>1. MAX_SEGMENTS \in Nat
    BY InterpreterAssumption
  <2> QED BY <1>1, <1>2, <1>3, <2>1
<1>9. DataOK'
  <2>1. Data' = Data
    BY <1>1 DEF Data
  <2> QED BY <1>7, <1>8, <2>1, DataFresh DEF CallsInd
<1>10. BlockOK'
  BY <1>1 DEF CallsInd, BlockOK, block
<1> QED BY <1>5, <1>7, <1>9, <1>10 DEF CallsInd

LEMMA EndPipelineStep == ASSUME CallsInd, EndPipeline PROVE CallsInd'
<1>1. Returned("pipeline") /\ frames' = Front(frames) /\ piping' = FALSE /\ allocated' = allocated - 1
      /\ UNCHANGED <<job, stream, find_term, pipe_remaining, block>>
  BY DEF EndPipeline
<1>2. job.at = "returned" /\ frames # <<>> /\ Last(frames) = Top /\ Weight(Top) = 1
  BY <1>1, TopFacts
<1>3. FramesOK' /\ (InPipeline(frames)' => InPipeline(frames))
  BY <1>1, <1>2, FramePopped DEF CallsInd
<1>4. JobOK' /\ BlockOK'
  BY <1>1 DEF CallsInd, JobOK, BlockOK, block
<1>5. Data' = Data /\ pipe_remaining' \in 0..MAX_SEGMENTS
  BY <1>1 DEF Data, CallsInd, DataOK
<1>6. DataOK'
  BY <1>3, <1>5, DataFresh DEF CallsInd
<1> QED BY <1>3, <1>4, <1>6 DEF CallsInd

LEMMA NextLineStep == ASSUME CallsInd, NextLine PROVE CallsInd'
<1> DEFINE held == allocated - Top.line
           copied == held < MaxAllocated
           f == [Top EXCEPT !.todo = Tail(@), !.line = IF copied THEN 1 ELSE 0]
<1>1. Returned("script") /\ Top.todo # <<>> /\ frames' = Append(Front(frames), f)
      /\ allocated' = (IF copied THEN held + 1 ELSE held) /\ UNCHANGED <<pipe, block>>
      /\ (IF copied THEN Runs(Head(Top.todo)) ELSE UNCHANGED job)
  BY DEF NextLine
<1> HIDE DEF copied
<1>2. job.at = "returned" /\ frames # <<>> /\ Last(frames) = Top /\ Top.todo \in Seq(Lines)
      /\ Top.line \in {0, 1} /\ Top \in ScriptFrames /\ Weight(Top) = 1 + Top.line /\ Top.kind = "script"
  BY <1>1, TopFacts
<1>3. Head(Top.todo) \in Lines /\ Tail(Top.todo) \in Seq(Lines)
  BY <1>1, <1>2, HeadTailProperties
<1>4. f \in Frames /\ f.kind = "script" /\ Weight(f) = 1 + (IF copied THEN 1 ELSE 0)
  <2>1. f \in ScriptFrames /\ f.line = IF copied THEN 1 ELSE 0
    BY <1>2, <1>3 DEF ScriptFrames
  <2> QED BY <2>1 DEF Frames, ScriptFrames, Weight
<1> HIDE DEF f
<1>5. JobOK' /\ job'.at \in {"returned", "line"}
  BY <1>1, <1>2, <1>3 DEF JobOK, JobStates, Runs
<1>6. allocated' = allocated - Weight(Last(frames)) + Weight(f)
  <2>1. allocated \in Int
    BY <1>2, HeldFront DEF CallsInd, FramesOK, Loading
  <2> QED BY <1>1, <1>2, <1>4, <2>1
<1>7. FramesOK' /\ (InPipeline(frames)' <=> InPipeline(frames))
  BY <1>1, <1>2, <1>4, <1>5, <1>6, FrameReplaced DEF CallsInd, pipe
<1>8. Data' = Data /\ pipe_remaining' \in 0..MAX_SEGMENTS
  BY <1>1 DEF Data, CallsInd, DataOK, pipe
<1>9. DataOK'
  BY <1>7, <1>8, DataFresh DEF CallsInd
<1>10. BlockOK'
  BY <1>1 DEF CallsInd, BlockOK, block
<1> QED BY <1>5, <1>7, <1>9, <1>10 DEF CallsInd

LEMMA EndScriptStep == ASSUME CallsInd, EndScript PROVE CallsInd'
<1>1. Returned("script") /\ frames' = Front(frames) /\ allocated' = allocated - Top.line - 1
      /\ Returns(0) /\ UNCHANGED <<pipe, block>>
  BY DEF EndScript
<1>2. job.at = "returned" /\ frames # <<>> /\ Last(frames) = Top /\ Top.line \in {0, 1}
      /\ Weight(Top) = 1 + Top.line /\ Top.kind = "script"
  BY <1>1, TopFacts
<1>3. JobOK' /\ job'.at = "returned"
  BY <1>1, ReturnsJob
<1>4. allocated' = allocated - Weight(Last(frames))
  <2>1. allocated \in Int
    BY <1>2, HeldFront DEF CallsInd, FramesOK, Loading
  <2> QED BY <1>1, <1>2, <2>1
<1>5. FramesOK' /\ (InPipeline(frames)' => InPipeline(frames))
  BY <1>1, <1>2, <1>3, <1>4, FramePopped DEF CallsInd, pipe
<1>6. Data' = Data /\ pipe_remaining' \in 0..MAX_SEGMENTS
  BY <1>1 DEF Data, CallsInd, DataOK, pipe
<1>7. DataOK'
  BY <1>5, <1>6, DataFresh DEF CallsInd
<1>8. BlockOK'
  BY <1>1 DEF CallsInd, BlockOK, block
<1> QED BY <1>3, <1>5, <1>7, <1>8 DEF CallsInd

LEMMA StartBlockStep == ASSUME CallsInd, StartBlock PROVE CallsInd'
<1>1. job.at = "command" /\ job.cmd \in Commands /\ Returns(0) /\ UNCHANGED <<frames, pipe, allocated>>
  BY DEF StartBlock, CallsInd, JobOK
<1>2. JobOK' /\ job'.at = "returned"
  BY <1>1, ReturnsJob
<1>3. BlockOK'
  <2>1. CASE job.cmd.words < 4
    BY <2>1 DEF StartBlock, CallsInd, BlockOK, block
  <2>2. CASE ~(job.cmd.words < 4)
    <3>1. MAX_BLOCK_LINES \in Nat
      BY InterpreterAssumption
    <3>2. job.cmd.name \in Starts /\ collecting_block' = job.cmd.name /\ header_words' = AfterStrtok(job.cmd.words)
          /\ block_line_count' = 0 /\ block_nesting' = 0
      BY <2>2 DEF StartBlock
    <3>3. header_words' \in {0, 1}
      BY <3>2 DEF AfterStrtok
    <3> QED BY <3>1, <3>2, <3>3 DEF BlockOK
  <2> QED BY <2>1, <2>2
<1> QED BY <1>1, <1>2, <1>3, Answers

\* The commands that change what the stream holds.
LEMMA StreamStep ==
  ASSUME CallsInd, cat \/ echo \/ cmd_find
  PROVE  CallsInd'
<1>1. job.at = "command" /\ job.cmd \in Commands /\ Returns(0)
      /\ UNCHANGED <<frames, piping, pipe_remaining, block, allocated>>
  BY DEF cat, echo, cmd_find, Command, CallsInd, JobOK
<1>2. New(job.cmd.arg) \in Datum /\ ~New(job.cmd.arg).old
  <2>1. job.cmd.arg \in STRING
    BY <1>1, InterpreterAssumption
  <2> QED BY <2>1 DEF New, Datum
<1>3. JobOK' /\ job'.at = "returned"
  BY <1>1, ReturnsJob
<1>4. FramesOK' /\ (InPipeline(frames)' <=> InPipeline(frames))
  <2>1. Loading' = Loading
    BY <1>1, <1>3 DEF Loading
  <2> QED BY <1>1, <1>3, <2>1, FramesKept DEF CallsInd
<1>5. \A d \in Data' : d \in Data \/ d = New(job.cmd.arg)
  <2>1. CASE cat
    <3>1. find_term' = find_term /\ stream' \subseteq stream \cup {New(job.cmd.arg)}
      BY <2>1 DEF cat, CatLeaves
    <3> QED BY <3>1 DEF Data
  <2>2. CASE echo
    <3>1. find_term' = find_term /\ stream' \subseteq stream \cup {New(job.cmd.arg)}
      BY <2>2 DEF echo
    <3> QED BY <3>1 DEF Data
  <2>3. CASE cmd_find
    <3>1. stream' = stream /\ find_term' \in {find_term, New(job.cmd.arg), NoTerm}
      BY <2>3 DEF cmd_find
    <3> QED BY <3>1 DEF Data
  <2> QED BY <2>1, <2>2, <2>3
<1>6. DataOK'
  <2>1. pipe_remaining' \in 0..MAX_SEGMENTS
    BY <1>1 DEF CallsInd, DataOK
  <2>2. \A d \in Data' : d \in Data \/ (d \in Datum /\ ~d.old)
    BY <1>2, <1>5
  <2> QED BY <1>4, <2>1, <2>2, DataFresh DEF CallsInd
<1>7. BlockOK'
  BY <1>1 DEF CallsInd, BlockOK, block
<1> QED BY <1>3, <1>4, <1>6, <1>7 DEF CallsInd

LEMMA cmd_readStep == ASSUME CallsInd, cmd_read PROVE CallsInd'
<1>1. job.at = "command" /\ UNCHANGED <<frames, pipe, block, allocated>>
  BY DEF cmd_read, Command
<1>2. JobOK' /\ job'.at \in {"returned", "reading"}
  <2>1. CASE stream = {}
    BY <2>1, ReturnsJob DEF cmd_read
  <2>2. CASE stream # {}
    <3>1. PICK n \in 1..MaxPages : job' = [at |-> "reading", page |-> 1, pages |-> n]
      BY <2>2 DEF cmd_read
    <3>2. 1 \in 1..MaxPages
      BY InterpreterAssumption
    <3> QED BY <3>1, <3>2 DEF JobOK, JobStates
  <2> QED BY <2>1, <2>2
<1>3. BlockOK'
  BY <1>1 DEF CallsInd, BlockOK, block
<1> QED BY <1>1, <1>2, <1>3, Answers

\* The commands and the programs that only return.
LEMMA ReturnStep ==
  ASSUME CallsInd, exit \/ Other \/ RunFails \/ ProgramExits
  PROVE  CallsInd'
<1>1. job.at \in {"command", "program"} /\ UNCHANGED <<frames, pipe, block, allocated>> /\ \E r : Returns(r)
  BY DEF exit, Other, RunFails, ProgramExits, Command
<1>2. JobOK' /\ job'.at = "returned"
  BY <1>1, ReturnsJob
<1>3. BlockOK'
  BY <1>1 DEF CallsInd, BlockOK, block
<1> QED BY <1>1, <1>2, <1>3, Answers

LEMMA RunScriptStep == ASSUME CallsInd, RunScript PROVE CallsInd'
<1> DEFINE f == [kind |-> "script", todo |-> Scripts[job.cmd.arg], line |-> 0]
<1>1. job.at = "command" /\ job.cmd.arg \in DOMAIN Scripts /\ frames' = Append(frames, f)
      /\ allocated' = allocated + 1 /\ Returns(0) /\ UNCHANGED <<pipe, block>>
  BY DEF RunScript, Command
<1>2. f \in Frames /\ f.kind = "script" /\ Weight(f) = 1
  BY <1>1, InterpreterAssumption DEF Frames, ScriptFrames, Weight
<1> HIDE DEF f
<1>3. JobOK' /\ job'.at = "returned"
  BY <1>1, ReturnsJob
<1>4. FramesOK' /\ (InPipeline(frames)' <=> InPipeline(frames))
  <2>1. piping \in BOOLEAN /\ piping' = piping
    BY <1>1 DEF CallsInd, FramesOK, pipe
  <2> QED BY <1>1, <1>2, <1>3, <2>1, FramePushed DEF CallsInd
<1>5. Data' = Data /\ pipe_remaining' \in 0..MAX_SEGMENTS
  BY <1>1 DEF Data, CallsInd, DataOK, pipe
<1>6. DataOK'
  BY <1>4, <1>5, DataFresh DEF CallsInd
<1>7. BlockOK'
  BY <1>1 DEF CallsInd, BlockOK, block
<1> QED BY <1>3, <1>4, <1>6, <1>7 DEF CallsInd

\* A program is loaded: its buffer is taken, and given back.
LEMMA LoadStep ==
  ASSUME CallsInd, RunProgram \/ load_program
  PROVE  CallsInd'
<1>1. job.at \in {"command", "loading"} /\ UNCHANGED <<frames, pipe, block>>
      /\ job'.at \in {"loading", "program", "returned"} /\ (job.at = "command" <=> job'.at = "loading")
  BY DEF RunProgram, load_program, Command, Returns
<1>2. JobOK'
  BY <1>1 DEF JobOK, JobStates
<1>3. allocated \in Int /\ Held(frames) \in Nat /\ allocated = Held(frames) + Loading
  <2>1. frames \in Seq(Frames) /\ allocated = Held(frames) + Loading
    BY DEF CallsInd, FramesOK
  <2>2. Count(frames, PipelineFrames) \in Nat /\ Count(frames, ScriptFrames) \in Nat /\ Count(frames, HoldingLine) \in Nat
    BY <2>1, CountFinite
  <2> QED BY <2>1, <2>2 DEF Held, Loading
<1>4. allocated' = Held(frames) + Loading'
  <2>1. CASE RunProgram
    <3>1. Loading = 0 /\ Loading' = 1 /\ allocated' = allocated + 1
      BY <2>1 DEF RunProgram, Command, Loading
    <3> QED BY <1>3, <3>1
  <2>2. CASE load_program
    <3>1. Loading = 1 /\ Loading' = 0 /\ allocated' = allocated - 1
      BY <2>2 DEF load_program, Returns, Loading
    <3> QED BY <1>3, <3>1
  <2> QED BY <2>1, <2>2
<1>5. Held(frames)' = Held(frames) /\ (InPipeline(frames)' <=> InPipeline(frames))
  BY <1>1 DEF Held, Count, Indices, InPipeline
<1>6. FramesOK'
  BY <1>1, <1>4, <1>5 DEF CallsInd, FramesOK, pipe
<1>7. Data' = Data /\ pipe_remaining' \in 0..MAX_SEGMENTS
  BY <1>1 DEF Data, CallsInd, DataOK, pipe
<1>8. DataOK'
  BY <1>5, <1>7, DataFresh DEF CallsInd
<1>9. BlockOK'
  BY <1>1 DEF CallsInd, BlockOK, block
<1> QED BY <1>2, <1>6, <1>8, <1>9 DEF CallsInd

LEMMA CollectStep ==
  ASSUME CallsInd, AtPrompt, NEW ln \in Lines, CollectLine(ln)
  PROVE  CallsInd'
<1>1. job.at = "prompt" /\ frames = <<>> /\ UNCHANGED <<frames, pipe, allocated>> /\ collecting_block \in Starts
      /\ MAX_BLOCK_LINES \in Nat /\ block_line_count \in 0..MAX_BLOCK_LINES /\ block_nesting \in 0..block_line_count
      /\ header_words \in {0, 1}
  BY InterpreterAssumption DEF AtPrompt, CollectLine, CallsInd, FramesOK, BlockOK
<1>2. JobOK' /\ job'.at \in {"prompt", "returned"}
  <2>1. UNCHANGED job \/ Returns(0)
    BY DEF CollectLine, execute_block
  <2> QED BY <1>1, <2>1, ReturnsJob DEF CallsInd, JobOK
<1>3. BlockOK'
  <2>1. CASE UNCHANGED block
    BY <2>1 DEF CallsInd, BlockOK, block
  <2>2. CASE NotCollecting /\ UNCHANGED header_words
    BY <1>1, <2>2 DEF NotCollecting, BlockOK
  <2>3. CASE /\ ~Closes(ln) /\ block_line_count < MAX_BLOCK_LINES
             /\ block_line_count' = block_line_count + 1 /\ block_nesting' = Nesting(ln)
             /\ UNCHANGED <<collecting_block, header_words>>
    <3>1. Nesting(ln) \in 0..(block_line_count + 1)
      BY <1>1, <2>3 DEF Nesting, Closes
    <3> QED BY <1>1, <2>3, <3>1 DEF BlockOK
  <2>4. \/ UNCHANGED block
        \/ NotCollecting /\ UNCHANGED header_words
        \/ /\ ~Closes(ln) /\ block_line_count < MAX_BLOCK_LINES
           /\ block_line_count' = block_line_count + 1 /\ block_nesting' = Nesting(ln)
           /\ UNCHANGED <<collecting_block, header_words>>
    BY DEF CollectLine
  <2> QED BY <2>1, <2>2, <2>3, <2>4
<1> QED BY <1>1, <1>2, <1>3, Answers

LEMMA UserStep == ASSUME CallsInd, User PROVE CallsInd'
<1>1. CASE Enter
  <2>1. PICK ln \in Lines : IF collecting_block # "none" THEN CollectLine(ln)
                            ELSE Runs(ln) /\ UNCHANGED <<frames, pipe, block, allocated>>
    BY <1>1 DEF Enter
  <2>2. AtPrompt
    BY <1>1 DEF Enter
  <2>3. CASE collecting_block = "none"
    <3>1. Runs(ln) /\ UNCHANGED <<frames, pipe, block, allocated>>
      BY <2>1, <2>3
    <3>2. JobOK' /\ job'.at = "line"
      BY <3>1 DEF Runs, JobOK, JobStates
    <3>3. BlockOK'
      BY <3>1 DEF CallsInd, BlockOK, block
    <3> QED BY <2>2, <3>1, <3>2, <3>3, Answers DEF AtPrompt
  <2> QED BY <2>1, <2>2, <2>3, CollectStep
<1>2. CASE Turn
  <2>1. PICK page \in {job.page - 1, job.page + 1} \cap 1..job.pages : job' = [job EXCEPT !.page = page]
    BY <1>2 DEF Turn
  <2>2. job.at = "reading" /\ UNCHANGED <<frames, pipe, block, allocated>>
        /\ job \in [at : {"reading"}, page : 1..MaxPages, pages : 1..MaxPages] /\ MaxPages \in Nat
    BY <1>2, InterpreterAssumption DEF Turn, CallsInd, JobOK
  <2>3. page \in 1..MaxPages
    BY <2>1, <2>2
  <2>4. job' \in [at : {"reading"}, page : 1..MaxPages, pages : 1..MaxPages]
    BY <2>1, <2>2, <2>3
  <2>5. JobOK' /\ job'.at = "reading"
    BY <2>4 DEF JobOK, JobStates
  <2>6. BlockOK'
    BY <2>2 DEF CallsInd, BlockOK, block
  <2> QED BY <2>2, <2>5, <2>6, Answers
<1> QED BY <1>1, <1>2 DEF User

LEMMA QuitReadingStep == ASSUME CallsInd, QuitReading PROVE CallsInd'
<1>1. job.at = "reading" /\ find_term' = NoTerm /\ stream' = {} /\ Returns(-200)
      /\ UNCHANGED <<frames, piping, pipe_remaining, block, allocated>>
  BY DEF QuitReading
<1>2. JobOK' /\ job'.at = "returned"
  BY <1>1, ReturnsJob
<1>3. FramesOK' /\ (InPipeline(frames)' <=> InPipeline(frames))
  <2>1. Loading' = Loading
    BY <1>1, <1>2 DEF Loading
  <2> QED BY <1>1, <1>2, <2>1, FramesKept DEF CallsInd
<1>4. Data' = {} /\ pipe_remaining' \in 0..MAX_SEGMENTS
  BY <1>1 DEF Data, CallsInd, DataOK
<1>5. DataOK'
  BY <1>4 DEF DataOK
<1>6. BlockOK'
  BY <1>1 DEF CallsInd, BlockOK, block
<1> QED BY <1>2, <1>3, <1>5, <1>6 DEF CallsInd

LEMMA VariableCommandStep == ASSUME CallsInd, VariableCommand PROVE CallsInd'
<1>1. job.at = "command" /\ Returns(0) /\ UNCHANGED <<frames, pipe, block, allocated>>
  BY DEF VariableCommand
<1>2. JobOK' /\ job'.at = "returned"
  BY <1>1, ReturnsJob
<1>3. BlockOK'
  BY <1>1 DEF CallsInd, BlockOK, block
<1> QED BY <1>1, <1>2, <1>3, Answers

LEMMA CallsStep == ASSUME CallsInd, [Next]_vars PROVE CallsInd'
<1>1. CASE Step
  <2>1. CASE Prompt
    BY <2>1, PromptStep
  <2>2. CASE process_command \/ StackOverruns
    BY <2>2, process_commandStep, StackOverrunsStep
  <2>3. CASE NextSegment \/ EndPipeline
    BY <2>3, NextSegmentStep, EndPipelineStep
  <2>4. CASE NextLine \/ EndScript
    BY <2>4, NextLineStep, EndScriptStep
  <2>5. CASE StartBlock \/ cmd_read \/ RunScript
    BY <2>5, StartBlockStep, cmd_readStep, RunScriptStep
  <2>6. CASE cat \/ echo \/ cmd_find
    BY <2>6, StreamStep
  <2>7. CASE exit \/ Other \/ RunFails
    BY <2>7, ReturnStep
  <2>8. CASE RunProgram \/ load_program
    BY <2>8, LoadStep
  <2> QED BY <1>1, <2>1, <2>2, <2>3, <2>4, <2>5, <2>6, <2>7, <2>8 DEF Step
<1>2. CASE Input
  BY <1>2, UserStep DEF Input
<1>3. CASE QuitReading
  BY <1>3, QuitReadingStep
<1>4. CASE ProgramExits
  BY <1>4, ReturnStep
<1>5. CASE VariableCommand
  BY <1>5, VariableCommandStep
<1>6. CASE UNCHANGED vars
  <2>1. UNCHANGED <<job, frames, pipe, block, allocated>>
    BY <1>6 DEF vars, interpreter
  <2>2. JobOK' /\ BlockOK'
    BY <2>1 DEF CallsInd, JobOK, BlockOK, block
  <2>3. Loading' = Loading
    BY <2>1 DEF Loading
  <2>4. FramesOK' /\ (InPipeline(frames)' <=> InPipeline(frames))
    BY <2>1, <2>3, FramesKept DEF CallsInd, FramesOK, pipe
  <2>5. Data' = Data /\ pipe_remaining' \in 0..MAX_SEGMENTS
    BY <2>1 DEF Data, CallsInd, DataOK, pipe
  <2>6. DataOK'
    BY <2>4, <2>5, DataFresh DEF CallsInd
  <2> QED BY <2>2, <2>4, <2>6 DEF CallsInd
<1> QED BY <1>1, <1>2, <1>3, <1>4, <1>5, <1>6 DEF Next

\* The frames by their kinds.
LEMMA CallsAre ==
  ASSUME CallsInd
  PROVE  /\ Calls("pipeline") = Indices(frames, PipelineFrames)
         /\ Calls("script") = Indices(frames, ScriptFrames)
         /\ {i \in Calls("script") : frames[i].line = 1} = Indices(frames, HoldingLine)
         /\ Calls("pipeline") # {} <=> InPipeline(frames)
<1>1. frames \in Seq(Frames) /\ DOMAIN frames = 1..Len(frames)
  BY DEF CallsInd, FramesOK
<1>2. ASSUME NEW i \in 1..Len(frames)
      PROVE  /\ frames[i].kind = "pipeline" <=> frames[i] \in PipelineFrames
             /\ frames[i].kind = "script" <=> frames[i] \in ScriptFrames
             /\ frames[i].kind = "script" /\ frames[i].line = 1 <=> frames[i] \in HoldingLine
  <2>1. frames[i] \in Frames
    BY <1>1, ElementOfSeq
  <2> QED BY <2>1, FrameFacts DEF HoldingLine
<1>3. Calls("pipeline") = Indices(frames, PipelineFrames)
  BY <1>1, <1>2 DEF Calls, Indices
<1>4. Calls("script") = Indices(frames, ScriptFrames)
  BY <1>1, <1>2 DEF Calls, Indices
<1>5. {i \in Calls("script") : frames[i].line = 1} = Indices(frames, HoldingLine)
  BY <1>1, <1>2 DEF Calls, Indices
<1>6. Calls("pipeline") # {} <=> InPipeline(frames)
  BY <1>1 DEF Calls, InPipeline
<1> QED BY <1>3, <1>4, <1>5, <1>6

\* CallsInd holds in every state of the shell.
THEOREM CallsInvariant == Spec => []CallsInd
<1>1. Init => CallsInd
  BY CallsInit DEF Init
<1>2. CallsInd /\ [Next]_vars => CallsInd'
  BY CallsStep
<1> QED BY <1>1, <1>2, PTL DEF Spec

\* However a line ends, its calls give back what they have taken.
THEOREM CallsCorrect == Spec => []CallsCleanUp
<1>1. ASSUME CallsInd PROVE CallsCleanUp
  <2>1. TypeOK
    <3>1. \A d \in Data : d \in [what : STRING, old : BOOLEAN]
      BY <1>1 DEF CallsInd, DataOK, Datum
    <3>2. piping \in BOOLEAN
      BY <1>1 DEF CallsInd, FramesOK
    <3> QED BY <1>1, <3>1, <3>2 DEF TypeOK, CallsInd, JobOK, JobStates, BlockOK, DataOK, Data
  <2>2. allocated = Held(frames) + Loading /\ (piping => InPipeline(frames))
        /\ (job.at \in {"prompt", "exited"} => frames = <<>>)
    BY <1>1 DEF CallsInd, FramesOK
  <2>3. allocated = Cardinality(Calls("pipeline")) + Cardinality(Calls("script"))
                    + Cardinality({i \in Calls("script") : frames[i].line = 1}) + Loading
    BY <1>1, <2>2, CallsAre DEF Held, Count
  <2> QED BY <1>1, <2>1, <2>2, <2>3, CallsAre DEF CallsCleanUp, Loading
<1> QED BY <1>1, CallsInvariant, PTL

\* A pipeline works on what its own line has read and looks for.
THEOREM OwnDataCorrect == Spec => []PipelineOwnData
<1>1. ASSUME CallsInd PROVE PipelineOwnData
  BY <1>1, CallsAre DEF PipelineOwnData, CallsInd, DataOK, Data
<1> QED BY <1>1, CallsInvariant, PTL

-----------------------------------------------------------------------------
(* The variables                                                            *)

\* The arrays vs of names and ts of texts as the map they stand for.
Index(vs, name) == SelectInSeq(vs, LAMBDA v : v = name)
MapOf(vs, ts) == [name \in ToSet(vs) |-> IF Index(vs, name) = 0 THEN <<>> ELSE ts[Index(vs, name)]]

\* Every name has one row, and its text is in the same row.
Rows(vs, ts) ==
  /\ vs \in Seq(Names) /\ Len(vs) <= MAX_VARIABLES
  /\ \A i, j \in 1..Len(vs) : vs[i] = vs[j] => i = j
  /\ ts \in Seq(ToSet(ts)) /\ Len(ts) = Len(vs)

LEMMA IndexFacts ==
  ASSUME NEW vs, NEW ts, Rows(vs, ts), NEW name
  PROVE  /\ Index(vs, name) \in 0..Len(vs)
         /\ Index(vs, name) # 0 => vs[Index(vs, name)] = name
         /\ Index(vs, name) = 0 <=> name \notin ToSet(vs)
         /\ \A i \in 1..Len(vs) : vs[i] = name => Index(vs, name) = i
<1> DEFINE I == {i \in 1..Len(vs) : vs[i] = name}
<1>1. Index(vs, name) = IF I # {} THEN Min(I) ELSE 0
  BY DEF Index, SelectInSeq
<1>2. I \in SUBSET Nat /\ I \subseteq 1..Len(vs) /\ \A i \in I : vs[i] = name
  OBVIOUS
<1>3. DOMAIN vs = 1..Len(vs) /\ Len(vs) \in Nat /\ \A i, j \in 1..Len(vs) : vs[i] = vs[j] => i = j
  BY DEF Rows
<1>4. \A i \in 1..Len(vs) : vs[i] = name => i \in I
  OBVIOUS
<1>5. name \in ToSet(vs) <=> I # {}
  BY <1>3 DEF ToSet
<1> HIDE DEF I
<1>6. I # {} => Min(I) \in I
  BY <1>2, MinIndex
<1>7. CASE I = {}
  BY <1>1, <1>3, <1>4, <1>5, <1>7
<1>8. CASE I # {}
  <2>1. Index(vs, name) \in 1..Len(vs) /\ vs[Index(vs, name)] = name
    BY <1>1, <1>2, <1>6, <1>8
  <2> QED BY <1>3, <1>5, <1>8, <2>1
<1> QED BY <1>7, <1>8

LEMMA MapFacts ==
  ASSUME NEW vs, NEW ts, Rows(vs, ts)
  PROVE  /\ DOMAIN MapOf(vs, ts) = ToSet(vs)
         /\ \A i \in 1..Len(vs) : vs[i] \in ToSet(vs) /\ MapOf(vs, ts)[vs[i]] = ts[i]
         /\ \A name \in ToSet(vs) : \E i \in 1..Len(vs) : vs[i] = name
<1>1. DOMAIN vs = 1..Len(vs) /\ Len(vs) \in Nat
  BY DEF Rows
<1>2. DOMAIN MapOf(vs, ts) = ToSet(vs)
  BY DEF MapOf
<1>3. \A name \in ToSet(vs) : \E i \in 1..Len(vs) : vs[i] = name
  BY <1>1 DEF ToSet
<1>4. ASSUME NEW i \in 1..Len(vs) PROVE vs[i] \in ToSet(vs) /\ MapOf(vs, ts)[vs[i]] = ts[i]
  <2>1. vs[i] \in ToSet(vs)
    BY <1>1 DEF ToSet
  <2>2. Index(vs, vs[i]) = i /\ i # 0
    BY <1>1, IndexFacts
  <2> QED BY <2>1, <2>2 DEF MapOf
<1> QED BY <1>2, <1>3, <1>4

LEMMA Domain ==
  ASSUME NEW vs, NEW ts, Rows(vs, ts)
  PROVE  Cardinality(ToSet(vs)) = Len(vs)
<1>1. Len(vs) \in Nat /\ DOMAIN vs = 1..Len(vs)
  BY DEF Rows
<1>2. vs \in [1..Len(vs) -> ToSet(vs)]
  <2>1. \A i \in 1..Len(vs) : vs[i] \in ToSet(vs)
    BY MapFacts
  <2>2. vs \in [1..Len(vs) -> Names]
    BY DEF Rows
  <2> QED BY <2>1, <2>2
<1>3. vs \in Bijection(1..Len(vs), ToSet(vs))
  <2>1. \A name \in ToSet(vs) : \E i \in 1..Len(vs) : vs[i] = name
    BY MapFacts
  <2>2. \A i, j \in 1..Len(vs) : vs[i] = vs[j] => i = j
    BY DEF Rows
  <2> QED BY <1>2, <2>1, <2>2 DEF Bijection, Injection, Surjection, IsInjective
<1>4. ExistsBijection(1..Len(vs), ToSet(vs))
  BY <1>3 DEF ExistsBijection
<1> QED BY <1>1, <1>4, FS_CountingElements

\* A sequence of whatever it holds.
LEMMA SeqOfItself ==
  ASSUME NEW S, NEW s \in Seq(S)
  PROVE  s \in Seq(ToSet(s))
<1>1. s \in [1..Len(s) -> S] /\ Len(s) \in Nat
  OBVIOUS
<1>2. s \in [1..Len(s) -> ToSet(s)]
  BY <1>1 DEF ToSet
<1> QED BY <1>1, <1>2

Written(ts, n, text) == [ts EXCEPT ![n] = text]

LEMMA RowChanged ==
  ASSUME NEW vs, NEW ts, Rows(vs, ts), NEW n \in 1..Len(vs), NEW text
  PROVE  /\ Rows(vs, Written(ts, n, text))
         /\ \A i \in 1..Len(vs) : i # n => Written(ts, n, text)[i] = ts[i]
<1> DEFINE us == [ts EXCEPT ![n] = text]
           T == ToSet(ts) \cup {text}
<1>1. ts \in Seq(ToSet(ts)) /\ Len(ts) = Len(vs) /\ ToSet(ts) \subseteq T /\ text \in T
  BY DEF Rows
<1> HIDE DEF T
<1>2. ts \in Seq(T)
  BY <1>1, SeqMonotonic
<1>3. us \in Seq(T) /\ Len(us) = Len(ts) /\ \A i \in 1..Len(ts) : us[i] = IF i = n THEN text ELSE ts[i]
  BY <1>1, <1>2, ExceptSeq
<1> HIDE DEF us
<1>4. us \in Seq(ToSet(us))
  BY <1>3, SeqOfItself
<1>5. Rows(vs, us)
  BY <1>1, <1>3, <1>4 DEF Rows
<1>6. \A i \in 1..Len(vs) : i # n => us[i] = ts[i]
  BY <1>1, <1>3
<1> QED BY <1>5, <1>6 DEF us, Written

LEMMA RowAdded ==
  ASSUME NEW vs, NEW ts, Rows(vs, ts), NEW name \in Names \ ToSet(vs), NEW text, Len(vs) < MAX_VARIABLES
  PROVE  /\ Rows(Append(vs, name), Append(ts, text))
         /\ Len(Append(vs, name)) = Len(vs) + 1 /\ Append(vs, name)[Len(vs) + 1] = name
         /\ \A i \in 1..Len(vs) : Append(vs, name)[i] = vs[i] /\ Append(ts, text)[i] = ts[i]
<1> DEFINE ws == Append(vs, name)
           us == Append(ts, text)
           T == ToSet(ts) \cup {text}
<1>1. ts \in Seq(ToSet(ts)) /\ Len(ts) = Len(vs) /\ ToSet(ts) \subseteq T /\ text \in T /\ vs \in Seq(Names)
      /\ Len(vs) \in Nat /\ MAX_VARIABLES \in Nat /\ name \in Names
  BY VariablesAssumption DEF Rows
<1> HIDE DEF T
<1>2. ts \in Seq(T)
  BY <1>1, SeqMonotonic
<1>3. us \in Seq(T) /\ Len(us) = Len(ts) + 1 /\ \A i \in 1..Len(ts) : us[i] = ts[i]
  BY <1>1, <1>2, AppendProperties
<1>4. ws \in Seq(Names) /\ Len(ws) = Len(vs) + 1 /\ (\A i \in 1..Len(vs) : ws[i] = vs[i]) /\ ws[Len(vs) + 1] = name
  BY <1>1, AppendProperties
<1> HIDE DEF us, ws
<1>5. us \in Seq(ToSet(us))
  BY <1>3, SeqOfItself
<1>6. \A i \in 1..Len(vs) : vs[i] # name
  BY MapFacts
<1>7. ASSUME NEW i \in 1..Len(ws), NEW j \in 1..Len(ws), ws[i] = ws[j]
      PROVE  i = j
  <2>1. (i \in 1..Len(vs) \/ i = Len(vs) + 1) /\ (j \in 1..Len(vs) \/ j = Len(vs) + 1)
    BY <1>1, <1>4
  <2>2. \A k, m \in 1..Len(vs) : vs[k] = vs[m] => k = m
    BY DEF Rows
  <2> QED BY <1>4, <1>6, <1>7, <2>1, <2>2
<1>8. Len(ws) <= MAX_VARIABLES
  BY <1>1, <1>4
<1>9. Rows(ws, us)
  BY <1>1, <1>3, <1>4, <1>5, <1>7, <1>8 DEF Rows
<1>10. \A i \in 1..Len(vs) : ws[i] = vs[i] /\ us[i] = ts[i]
  BY <1>1, <1>3, <1>4
<1> QED BY <1>4, <1>9, <1>10 DEF us, ws

\* The rows after the removed one move up.
LEMMA RemovedAt ==
  ASSUME NEW S, NEW s \in Seq(S), NEW n \in 1..Len(s)
  PROVE  /\ RemoveAt(s, n) \in Seq(S) /\ Len(RemoveAt(s, n)) = Len(s) - 1
         /\ \A i \in 1..(Len(s) - 1) : RemoveAt(s, n)[i] = IF i < n THEN s[i] ELSE s[i + 1]
<1> DEFINE len == Len(s)
           a == SubSeq(s, 1, n - 1)
           b == SubSeq(s, n + 1, len)
<1>1. len \in Nat /\ n \in Nat \ {0} /\ n <= len /\ \A i \in 1..len : s[i] \in S
  BY ElementOfSeq
<1> HIDE DEF len
<1> DEFINE p == n - 1
           q == n + 1
<1>2. p \in Nat /\ p \in Int /\ 1 \in Int /\ q \in Int /\ len \in Int /\ p - 1 + 1 = p /\ p = n - 1 /\ q = n + 1
      /\ (\A i \in 1..p : i \in 1..len) /\ \A i \in q..len : i \in 1..len
  BY <1>1
<1>3. a = SubSeq(s, 1, p) /\ b = SubSeq(s, q, len)
  BY DEF len
<1> HIDE DEF p, q, a, b
<1>4. a \in Seq(S) /\ Len(a) = (IF 1 <= p THEN p - 1 + 1 ELSE 0) /\ \A i \in 1..(p - 1 + 1) : a[i] = s[1 + i - 1]
  <2>1. \A i \in 1..p : s[i] \in S
    BY <1>1, <1>2
  <2> QED BY <1>2, <1>3, <2>1, SubSeqProperties
<1>5. b \in Seq(S) /\ Len(b) = (IF q <= len THEN len - q + 1 ELSE 0) /\ \A i \in 1..(len - q + 1) : b[i] = s[q + i - 1]
  <2>1. \A i \in q..len : s[i] \in S
    BY <1>1, <1>2
  <2> QED BY <1>2, <1>3, <2>1, SubSeqProperties
<1>6. Len(a) = n - 1 /\ (\A i \in 1..(n - 1) : a[i] = s[i])
  BY <1>1, <1>2, <1>4
<1>7. Len(b) = len - n /\ \A i \in 1..(len - n) : b[i] = s[n + i]
  BY <1>1, <1>2, <1>5
<1>8. a \o b \in Seq(S) /\ Len(a \o b) = Len(a) + Len(b)
      /\ \A i \in 1..(Len(a) + Len(b)) : (a \o b)[i] = IF i <= Len(a) THEN a[i] ELSE b[i - Len(a)]
  BY <1>4, <1>5, ConcatProperties
<1>9. RemoveAt(s, n) = a \o b
  BY DEF RemoveAt, a, b, len
<1> DEFINE c == a \o b
<1>10. c \in Seq(S) /\ Len(c) = len - 1 /\ \A i \in 1..(len - 1) : c[i] = IF i < n THEN a[i] ELSE b[i - n + 1]
  <2>1. Len(a) + Len(b) = len - 1
    BY <1>1, <1>6, <1>7
  <2>2. \A i \in 1..(len - 1) : (i <= Len(a) <=> i < n) /\ i - Len(a) = i - n + 1
    BY <1>1, <1>6
  <2> QED BY <1>8, <2>1, <2>2
<1> HIDE DEF c
<1>11. ASSUME NEW i \in 1..(len - 1) PROVE c[i] = IF i < n THEN s[i] ELSE s[i + 1]
  <2>1. CASE i < n
    BY <1>1, <1>6, <1>10, <2>1
  <2>2. CASE ~(i < n)
    <3>1. i - n + 1 \in 1..(len - n) /\ n + (i - n + 1) = i + 1
      BY <1>1, <2>2
    <3>2. b[i - n + 1] = s[n + (i - n + 1)]
      BY <1>7, <3>1
    <3> QED BY <1>10, <2>2, <3>1, <3>2
  <2> QED BY <2>1, <2>2
<1> QED BY <1>9, <1>10, <1>11 DEF c, len

LEMMA RowRemoved ==
  ASSUME NEW vs, NEW ts, Rows(vs, ts), NEW n \in 1..Len(vs)
  PROVE  /\ Rows(RemoveAt(vs, n), RemoveAt(ts, n))
         /\ MapOf(RemoveAt(vs, n), RemoveAt(ts, n)) = Restrict(MapOf(vs, ts), ToSet(vs) \ {vs[n]})
<1> DEFINE ws == RemoveAt(vs, n)
           us == RemoveAt(ts, n)
           old(i) == IF i < n THEN i ELSE i + 1
<1>1. ts \in Seq(ToSet(ts)) /\ Len(ts) = Len(vs) /\ vs \in Seq(Names) /\ Len(vs) \in Nat /\ n \in 1..Len(ts)
      /\ MAX_VARIABLES \in Nat /\ Len(vs) <= MAX_VARIABLES /\ \A i, j \in 1..Len(vs) : vs[i] = vs[j] => i = j
  BY VariablesAssumption DEF Rows
<1>2. ws \in Seq(Names) /\ Len(ws) = Len(vs) - 1 /\ \A i \in 1..(Len(vs) - 1) : ws[i] = vs[old(i)]
  BY <1>1, RemovedAt
<1>3. us \in Seq(ToSet(ts)) /\ Len(us) = Len(vs) - 1 /\ \A i \in 1..(Len(vs) - 1) : us[i] = ts[old(i)]
  BY <1>1, RemovedAt
<1> HIDE DEF us, ws
<1>4. us \in Seq(ToSet(us))
  BY <1>3, SeqOfItself
<1>5. \A i \in 1..Len(ws) : old(i) \in 1..Len(vs) /\ old(i) # n
  BY <1>1, <1>2
<1>6. \A i, j \in 1..Len(ws) : old(i) = old(j) => i = j
  BY <1>1, <1>2
<1>7. \A k \in 1..Len(vs) : k # n => \E i \in 1..Len(ws) : old(i) = k
  <2> SUFFICES ASSUME NEW k \in 1..Len(vs), k # n PROVE \E i \in 1..Len(ws) : old(i) = k
    OBVIOUS
  <2>1. CASE k < n
    BY <1>1, <1>2, <2>1
  <2>2. CASE k > n
    <3>1. k - 1 \in 1..Len(ws) /\ old(k - 1) = k
      BY <1>1, <1>2, <2>2
    <3> QED BY <3>1
  <2> QED BY <2>1, <2>2
<1> HIDE DEF old
<1>8. Rows(ws, us)
  <2>1. \A i, j \in 1..Len(ws) : ws[i] = ws[j] => i = j
    BY <1>1, <1>2, <1>5, <1>6
  <2>2. Len(ws) <= MAX_VARIABLES
    BY <1>1, <1>2
  <2> QED BY <1>2, <1>3, <1>4, <2>1, <2>2 DEF Rows
<1>9. ToSet(ws) = ToSet(vs) \ {vs[n]}
  <2>1. ASSUME NEW name \in ToSet(ws) PROVE name \in ToSet(vs) /\ name # vs[n]
    <3>1. PICK i \in 1..Len(ws) : ws[i] = name
      BY <1>8, MapFacts
    <3>2. name = vs[old(i)] /\ old(i) \in 1..Len(vs) /\ old(i) # n
      BY <1>2, <1>5, <3>1
    <3> QED BY <1>1, <3>2, MapFacts
  <2>2. ASSUME NEW name \in ToSet(vs), name # vs[n] PROVE name \in ToSet(ws)
    <3>1. PICK k \in 1..Len(vs) : vs[k] = name
      BY MapFacts
    <3>2. PICK i \in 1..Len(ws) : old(i) = k
      BY <1>7, <2>2, <3>1
    <3> QED BY <1>2, <1>8, <3>1, <3>2, MapFacts
  <2> QED BY <2>1, <2>2
<1>10. ASSUME NEW name \in ToSet(ws) PROVE MapOf(ws, us)[name] = MapOf(vs, ts)[name]
  <2>1. PICK i \in 1..Len(ws) : ws[i] = name
    BY <1>8, MapFacts
  <2>2. MapOf(ws, us)[ws[i]] = us[i]
    BY <1>8, MapFacts
  <2>3. MapOf(vs, ts)[vs[old(i)]] = ts[old(i)]
    BY <1>5, MapFacts
  <2> QED BY <1>2, <1>3, <2>1, <2>2, <2>3
<1>11. MapOf(ws, us) = [name \in ToSet(ws) |-> MapOf(ws, us)[name]]
  BY DEF MapOf
<1>12. MapOf(ws, us) = Restrict(MapOf(vs, ts), ToSet(vs) \ {vs[n]})
  <2> DEFINE f == MapOf(ws, us)
             g == MapOf(vs, ts)
             N == ToSet(ws)
  <2>1. f = [name \in N |-> f[name]] /\ \A name \in N : f[name] = g[name]
    BY <1>10, <1>11
  <2> HIDE DEF f, g, N
  <2>2. f = [name \in N |-> g[name]]
    BY <2>1
  <2> QED BY <1>9, <2>2 DEF f, g, N, Restrict
<1> QED BY <1>8, <1>12 DEF us, ws

VariablesOK == Rows(variables, values)

LEMMA StoreIsMap == store = MapOf(variables, values) /\ (\A name : IndexOf(name) = Index(variables, name))
BY DEF store, MapOf, resolve_value, IndexOf, Index

LEMMA StoreIsMapNext == store' = MapOf(variables', values')
<1>1. \A name : IndexOf(name)' = Index(variables', name)
  BY DEF IndexOf, Index, SelectInSeq
<1>2. ToSet(variables)' = ToSet(variables')
  BY DEF ToSet
<1> QED BY <1>1, <1>2 DEF store, MapOf, resolve_value

\* A name that is set, or gets a row of its own, is assigned to.
LEMMA BecomesStep ==
  ASSUME VariablesOK, NEW name \in Names, IndexOf(name) # 0, NEW text, Becomes(IndexOf(name), text)
  PROVE  VariablesOK' /\ Store!Assign(name)
<1> DEFINE vs == variables
           ts == values
           n == Index(vs, name)
           us == Written(ts, n, text)
<1>1. Rows(vs, ts) /\ n # 0 /\ variables' = vs /\ values' = us
  BY StoreIsMap DEF VariablesOK, Becomes, Written
<1>2. n \in 1..Len(vs) /\ vs[n] = name /\ name \in ToSet(vs)
  <2>1. n \in 0..Len(vs) /\ vs[n] = name /\ name \in ToSet(vs)
    BY <1>1, IndexFacts
  <2> QED BY <1>1, <2>1
<1> HIDE DEF n
<1>3. Rows(vs, us) /\ \A i \in 1..Len(vs) : i # n => us[i] = ts[i]
  BY <1>1, <1>2, RowChanged
<1>4. store' = MapOf(vs, us) /\ store = MapOf(vs, ts)
  BY <1>1, StoreIsMap, StoreIsMapNext
<1> HIDE DEF us
<1>5. ASSUME NEW other \in ToSet(vs) \ {name} PROVE MapOf(vs, us)[other] = MapOf(vs, ts)[other]
  <2>1. PICK i \in 1..Len(vs) : vs[i] = other
    BY <1>1, MapFacts
  <2>2. i # n
    BY <1>2, <2>1
  <2> QED BY <1>1, <1>3, <2>1, <2>2, MapFacts
<1>6. DOMAIN MapOf(vs, us) = ToSet(vs) /\ DOMAIN MapOf(vs, ts) = ToSet(vs)
  BY <1>1, <1>3, MapFacts
<1>7. VariablesOK'
  BY <1>1, <1>3 DEF VariablesOK
<1> HIDE DEF vs, ts
<1>8. Store!Assign(name)
  BY <1>2, <1>4, <1>5, <1>6 DEF Store!Assign, Store!Cardinality, Cardinality
<1> QED BY <1>7, <1>8

LEMMA AssignStep ==
  ASSUME VariablesOK, NEW name \in Names, NEW text, NEW is_append, Assign(name, text, is_append)
  PROVE  VariablesOK' /\ (Store!Assign(name) \/ UNCHANGED store)
<1> DEFINE vs == variables
           ts == values
<1>1. CASE IndexOf(name) # 0
  <2>1. \E t : Becomes(IndexOf(name), t)
    BY <1>1 DEF Assign
  <2> QED BY <1>1, <2>1, BecomesStep
<1>2. CASE IndexOf(name) = 0 /\ Len(variables) < MAX_VARIABLES
  <2> DEFINE ws == Append(vs, name)
             us == Append(ts, text)
  <2>1. Rows(vs, ts) /\ variables' = ws /\ values' = us
    BY <1>2 DEF VariablesOK, Assign
  <2>2. name \in Names \ ToSet(vs)
    BY <1>2, <2>1, StoreIsMap, IndexFacts
  <2>3. Rows(ws, us) /\ Len(ws) = Len(vs) + 1 /\ ws[Len(vs) + 1] = name /\ Len(vs) \in Nat
        /\ \A i \in 1..Len(vs) : ws[i] = vs[i] /\ us[i] = ts[i]
    <3>1. Len(vs) \in Nat /\ Len(vs) < MAX_VARIABLES
      BY <1>2, <2>1 DEF Rows
    <3>2. Rows(vs, ts)
      BY <2>1
    <3> HIDE DEF vs, ts
    <3>3. Rows(ws, us) /\ Len(ws) = Len(vs) + 1 /\ ws[Len(vs) + 1] = name
          /\ \A i \in 1..Len(vs) : ws[i] = vs[i] /\ us[i] = ts[i]
      BY SMTT(20), <2>2, <3>1, <3>2, RowAdded
    <3> QED BY <3>1, <3>3
  <2>4. store' = MapOf(ws, us) /\ store = MapOf(vs, ts)
    BY <2>1, StoreIsMap, StoreIsMapNext
  <2>5. DOMAIN MapOf(ws, us) = ToSet(ws) /\ DOMAIN MapOf(vs, ts) = ToSet(vs)
    BY <2>1, <2>3, MapFacts
  <2>6. Cardinality(ToSet(vs)) < MAX_VARIABLES
    BY <1>2, <2>1, Domain
  <2> HIDE DEF ws, us
  <2>7. ToSet(ws) = ToSet(vs) \cup {name}
    <3>1. ASSUME NEW x \in ToSet(ws) PROVE x \in ToSet(vs) \cup {name}
      <4>1. PICK i \in 1..Len(ws) : ws[i] = x
        BY <2>3, MapFacts
      <4>2. i \in 1..Len(vs) \/ i = Len(vs) + 1
        BY <2>3, <4>1
      <4> QED BY <2>1, <2>3, <4>1, <4>2, MapFacts
    <3>2. ASSUME NEW x \in ToSet(vs) PROVE x \in ToSet(ws)
      <4>1. PICK i \in 1..Len(vs) : vs[i] = x
        BY <2>1, MapFacts
      <4>2. i \in 1..Len(ws) /\ ws[i] = x
        BY <2>3, <4>1
      <4> QED BY <2>3, <4>2, MapFacts
    <3>3. name \in ToSet(ws)
      <4>1. Len(vs) + 1 \in 1..Len(ws)
        BY <2>3
      <4> QED BY <2>3, <4>1, MapFacts
    <3> QED BY <3>1, <3>2, <3>3
  <2>8. ASSUME NEW other \in ToSet(vs) PROVE MapOf(ws, us)[other] = MapOf(vs, ts)[other]
    <3>1. PICK i \in 1..Len(vs) : vs[i] = other
      BY <2>1, MapFacts
    <3>2. i \in 1..Len(ws) /\ ws[i] = vs[i] /\ us[i] = ts[i]
      BY <2>3
    <3> QED BY <2>1, <2>3, <3>1, <3>2, MapFacts
  <2>9. VariablesOK'
    BY <2>1, <2>3 DEF VariablesOK
  <2> HIDE DEF vs, ts
  <2>10. Store!Assign(name)
    BY <2>4, <2>5, <2>6, <2>7, <2>8 DEF Store!Assign, Store!Cardinality, Cardinality
  <2> QED BY <2>9, <2>10
<1>3. CASE IndexOf(name) = 0 /\ ~(Len(variables) < MAX_VARIABLES)
  <2>1. UNCHANGED shellvars
    BY <1>3 DEF Assign
  <2> QED BY <2>1, StoreIsMap, StoreIsMapNext DEF VariablesOK, shellvars
<1> QED BY <1>1, <1>2, <1>3

LEMMA CalculateStep ==
  ASSUME VariablesOK, NEW name \in Names, NEW text, NEW sign, Calculate(name, text, sign)
  PROVE  VariablesOK' /\ (Store!Assign(name) \/ UNCHANGED store)
<1>1. CASE Calculable(name, text)
  <2>1. IndexOf(name) # 0 /\ \E t : Becomes(IndexOf(name), t)
    BY <1>1 DEF Calculate, Calculable
  <2> QED BY <2>1, BecomesStep
<1>2. CASE ~Calculable(name, text)
  <2>1. UNCHANGED shellvars
    BY <1>2 DEF Calculate
  <2> QED BY <2>1, StoreIsMap, StoreIsMapNext DEF VariablesOK, shellvars
<1> QED BY <1>1, <1>2

LEMMA UnsetStep ==
  ASSUME VariablesOK, NEW name \in Names, Unset(name)
  PROVE  VariablesOK' /\ (Store!Unset(name) \/ UNCHANGED store)
<1>1. CASE IndexOf(name) = 0
  <2>1. UNCHANGED shellvars
    BY <1>1 DEF Unset
  <2> QED BY <2>1, StoreIsMap, StoreIsMapNext DEF VariablesOK, shellvars
<1>2. CASE IndexOf(name) # 0
  <2> DEFINE n == Index(variables, name)
  <2>1. Rows(variables, values) /\ n # 0 /\ variables' = RemoveAt(variables, n) /\ values' = RemoveAt(values, n)
    BY <1>2, StoreIsMap DEF VariablesOK, Unset
  <2>2. n \in 1..Len(variables) /\ variables[n] = name /\ name \in ToSet(variables)
    <3>1. n \in 0..Len(variables) /\ variables[n] = name /\ name \in ToSet(variables)
      BY <2>1, IndexFacts
    <3> QED BY <2>1, <3>1
  <2> HIDE DEF n
  <2>3. Rows(variables', values') /\ store' = Restrict(store, ToSet(variables) \ {name})
    BY <2>1, <2>2, RowRemoved, StoreIsMap, StoreIsMapNext
  <2>4. DOMAIN store = ToSet(variables)
    BY <2>1, StoreIsMap, MapFacts
  <2> QED BY <2>2, <2>3, <2>4 DEF VariablesOK, Store!Unset, Store!Restrict, Restrict
<1> QED BY <1>1, <1>2

\* No names: the empty map.
LEMMA NoRows ==
  ASSUME NEW vs, NEW ts, vs = <<>>, ts = <<>>
  PROVE  Rows(vs, ts) /\ MapOf(vs, ts) = <<>>
<1>1. vs \in Seq(Names) /\ Len(vs) = 0 /\ ts \in Seq(ToSet(ts)) /\ Len(ts) = 0 /\ MAX_VARIABLES \in Nat
  BY VariablesAssumption
<1>2. Rows(vs, ts)
  BY <1>1 DEF Rows
<1>3. ToSet(vs) = {}
  <2>1. DOMAIN vs = {}
    OBVIOUS
  <2> QED BY <2>1 DEF ToSet
<1>4. \A e : [x \in {} |-> e] = <<>>
  OBVIOUS
<1>5. MapOf(vs, ts) = <<>>
  BY <1>3, <1>4 DEF MapOf
<1> QED BY <1>2, <1>5

LEMMA VariablesStep ==
  ASSUME CallsInd, VariablesOK, [Next]_vars
  PROVE  VariablesOK' /\ (Store!Next \/ UNCHANGED store)
<1>1. CASE UNCHANGED shellvars
  BY <1>1, StoreIsMap, StoreIsMapNext DEF VariablesOK, shellvars
<1>2. CASE VariableCommand
  <2> DEFINE name == job.cmd.name
             arg == job.cmd.arg
             text == Expanded(job.cmd.value)
  <2>1. job.cmd \in Commands /\ name \in VariableCommands /\ Changes(job.cmd)
    BY <1>2 DEF CallsInd, JobOK, VariableCommand
  <2>2. name # "unset allvars" => arg \in Names
    BY <2>1, ShellAssumption
  <2>3. CASE name \in {"set", "append"}
    <3>1. arg \in Names /\ \E is_append : Assign(arg, text, is_append)
      <4>1. arg \in Names
        BY <2>2, <2>3
      <4>2. CASE name = "set"
        BY <2>1, <4>1, <4>2 DEF Changes
      <4>3. CASE name = "append"
        BY <2>1, <4>1, <4>3 DEF Changes
      <4> QED BY <2>3, <4>2, <4>3
    <3>2. VariablesOK' /\ (Store!Assign(arg) \/ UNCHANGED store)
      BY <3>1, AssignStep
    <3> QED BY <3>1, <3>2 DEF Store!Next
  <2>4. CASE name \in {"add", "sub"}
    <3>1. arg \in Names /\ \E sign : Calculate(arg, text, sign)
      <4>1. arg \in Names
        BY <2>2, <2>4
      <4>2. CASE name = "add"
        BY <2>1, <4>1, <4>2 DEF Changes
      <4>3. CASE name = "sub"
        BY <2>1, <4>1, <4>3 DEF Changes
      <4> QED BY <2>4, <4>2, <4>3
    <3>2. VariablesOK' /\ (Store!Assign(arg) \/ UNCHANGED store)
      BY <3>1, CalculateStep
    <3> QED BY <3>1, <3>2 DEF Store!Next
  <2>5. CASE name = "unset"
    <3>1. arg \in Names /\ Unset(arg)
      BY <2>1, <2>2, <2>5 DEF Changes
    <3>2. VariablesOK' /\ (Store!Unset(arg) \/ UNCHANGED store)
      BY <3>1, UnsetStep
    <3> QED BY <3>1, <3>2 DEF Store!Next
  <2>6. CASE name = "unset allvars"
    <3>1. variables' = <<>> /\ values' = <<>>
      BY <2>1, <2>6 DEF Changes, UnsetAll
    <3>2. VariablesOK' /\ store' = <<>>
      BY <3>1, NoRows, StoreIsMapNext DEF VariablesOK
    <3> QED BY <3>2 DEF Store!Next, Store!UnsetAll
  <2> QED BY <2>1, <2>3, <2>4, <2>5, <2>6 DEF VariableCommands
<1> QED BY <1>1, <1>2 DEF Next, vars

\* The two arrays are a map from names to texts for every number of variables:
\* the shell implements VariableStore.
THEOREM VariablesCorrect == Spec => VariablesAreMap
<1>1. Init => VariablesOK /\ Store!Init
  <2> SUFFICES ASSUME Init PROVE VariablesOK /\ Store!Init
    OBVIOUS
  <2>1. variables = <<>> /\ values = <<>>
    BY DEF Init, NoVariables
  <2> QED BY <2>1, NoRows, StoreIsMap DEF VariablesOK, Store!Init
<1>2. CallsInd /\ VariablesOK /\ [Next]_vars => VariablesOK' /\ [Store!Next]_store
  BY VariablesStep
<1> QED BY <1>1, <1>2, CallsInvariant, PTL DEF Spec, VariablesAreMap, Store!Spec
=============================================================================

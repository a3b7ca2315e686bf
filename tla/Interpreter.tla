---------------------------- MODULE Interpreter ----------------------------
(***************************************************************************)
(* What the shell does with a line (the second half of shell_main,          *)
(* process_command and process_single_command of                           *)
(* src/programs/shell/shell.c): commands, pipelines, scripts, programs, and *)
(* the lines of a block collected at the prompt.                           *)
(*                                                                         *)
(* A line is what Meaning says of it: its segments, one for a line that is  *)
(* no pipeline.  A segment is a name, an argument and a number of words;    *)
(* commands that touch no state below are "other".  Functions that call     *)
(* each other are frames of a stack.  Nothing checks that the stack has     *)
(* room for them: a call it has no room for is the end of the model.        *)
(*                                                                         *)
(* The buffers of the stream and of the blocks, and the short copies of a   *)
(* command, are taken to be allocated.                                     *)
(***************************************************************************)
EXTENDS Integers, Sequences, SequencesExt, FiniteSets

CONSTANTS
  Commands,         \* what a segment can be
  Lines,            \* what can be entered
  Meaning,          \* a function from lines to their segments
  Scripts,          \* a function from script files to their lines
  MAX_BLOCK_LINES, MAX_SEGMENTS,
  MaxNesting,       \* how many unclosed blocks the user starts in a block
  MaxAllocated,     \* what the heap holds of the blocks counted here
  MaxScripts,       \* how many scripts within each other the stack has room for
  MaxPages,         \* pages the text viewer may have to show
  NoTerm

ASSUME InterpreterAssumption ==
  /\ \A c \in Commands : {"name", "arg", "words"} \subseteq DOMAIN c /\ c.arg \in STRING /\ c.words \in Nat
  /\ \A ln \in Lines : Meaning[ln] \in Seq(Commands) \ {<<>>}
  /\ \A file \in DOMAIN Scripts : Scripts[file] \in Seq(Lines)
  /\ {MAX_BLOCK_LINES, MAX_SEGMENTS, MaxAllocated, MaxScripts, MaxNesting, MaxPages} \subseteq Nat

VARIABLES
  job,              \* what runs now, or what it has returned
  frames,           \* the calls that wait for it
  stream,           \* whose bytes the stream buffer holds
  find_term, piping, pipe_remaining,
  collecting_block, block_line_count, block_nesting,
  header_words,     \* words in block_header
  allocated         \* blocks of the heap that are not freed yet

pipe == <<stream, find_term, piping, pipe_remaining>>
block == <<collecting_block, block_line_count, block_nesting, header_words>>
interpreter == <<job, frames, pipe, block, allocated>>

Starts == {"if", "for", "while"}
EndOf == [if |-> "endif", for |-> "endfor", while |-> "endwhile"]

Returns(result) == job' = [at |-> "returned", result |-> result]
Runs(ln) == job' = [at |-> "line", line |-> ln]
Command(name) == job.at = "command" /\ job.cmd.name = name
Returned(kind) == job.at = "returned" /\ frames # <<>> /\ Last(frames).kind = kind
Top == Last(frames)
CanAllocate == allocated < MaxAllocated
Calls(kind) == {i \in DOMAIN frames : frames[i].kind = kind}

\* Data and terms are old once the shell has been back at its prompt.
New(x) == [what |-> x, old |-> FALSE]
Old(x) == [x EXCEPT !.old = TRUE]

-----------------------------------------------------------------------------
(* Blocks                                                                  *)

NotCollecting == collecting_block' = "none" /\ block_line_count' = 0 /\ block_nesting' = 0

Word(ln) == Meaning[ln][1].name

\* Only the end of the collected kind ends anything, but every start nests.
Nesting(ln) ==
  IF Word(ln) \in Starts THEN block_nesting + 1
  ELSE IF Word(ln) = EndOf[collecting_block] THEN block_nesting - 1 ELSE block_nesting
Closes(ln) == Word(ln) = EndOf[collecting_block] /\ block_nesting = 0

\* A header of less than four words is an error, and no line is run.  It has
\* never more: see AfterStrtok.
execute_block == header_words < 4 /\ Returns(0)

CollectLine(ln) ==
  /\ collecting_block # "none" /\ Nesting(ln) <= MaxNesting
  /\ IF Word(ln) = "##" THEN UNCHANGED <<job, block>>
     ELSE IF Closes(ln) THEN execute_block /\ NotCollecting /\ UNCHANGED header_words
     ELSE /\ IF block_line_count < MAX_BLOCK_LINES
             THEN /\ block_line_count' = block_line_count + 1
                  /\ block_nesting' = Nesting(ln)
                  /\ UNCHANGED collecting_block
             ELSE NotCollecting
          /\ UNCHANGED <<job, header_words>>
  /\ UNCHANGED <<frames, pipe, allocated>>

\* strtok has ended the command's copy after its first word when the copy
\* becomes the header.
AfterStrtok(words) == IF words > 0 THEN 1 ELSE 0

StartBlock ==
  /\ job.at = "command" /\ job.cmd.name \in Starts
  /\ IF job.cmd.words < 4 THEN UNCHANGED block
     ELSE /\ collecting_block' = job.cmd.name
          /\ header_words' = AfterStrtok(job.cmd.words)
          /\ block_line_count' = 0 /\ block_nesting' = 0
  /\ Returns(0)
  /\ UNCHANGED <<frames, pipe, allocated>>

-----------------------------------------------------------------------------
(* Lines and pipelines                                                     *)

\* The first find is known before the first segment runs, and is skipped
\* unless it comes last.
FindAt(cmds) == SelectInSeq(cmds, LAMBDA c : c.name = "find")
Segments(cmds) == SubSeq(cmds, 1, IF Len(cmds) < MAX_SEGMENTS THEN Len(cmds) ELSE MAX_SEGMENTS)
ToRun(cmds) ==
  [i \in DOMAIN cmds |-> IF i = FindAt(cmds) /\ i # Len(cmds) THEN [cmds[i] EXCEPT !.name = "skip"] ELSE cmds[i]]
TermOf(cmds) == IF FindAt(cmds) = 0 THEN NoTerm ELSE New(cmds[FindAt(cmds)].arg)

\* The mutant of EmptyStream: it is not emptied.
KeptStream == UNCHANGED stream

\* The stream of an earlier command is no data of this pipeline.
EmptyStream == stream' = {}

StartPipeline(cmds) ==
  /\ EmptyStream
  /\ find_term' = TermOf(cmds)
  /\ piping' = TRUE
  /\ frames' = Append(frames, [kind |-> "pipeline", todo |-> ToRun(cmds)])
  /\ allocated' = allocated + 1
  /\ Returns(0)
  /\ UNCHANGED <<pipe_remaining, block>>

\* The copy of the line cannot be made.
PipelineFails ==
  /\ EmptyStream /\ find_term' = NoTerm /\ piping' = FALSE
  /\ Returns(-1)
  /\ UNCHANGED <<frames, pipe_remaining, block, allocated>>

\* A script is a frame of process_single_command with one of process_command
\* above it, for the line it runs; a pipeline adds none of its own.
StackHolds == Cardinality(Calls("script")) <= MaxScripts

process_command ==
  /\ job.at = "line" /\ StackHolds
  /\ LET cmds == Meaning[job.line]
     IN  IF Len(cmds) > 1 THEN IF CanAllocate THEN StartPipeline(Segments(cmds)) ELSE PipelineFails
         ELSE /\ job' = [at |-> "command", cmd |-> cmds[1]]
              /\ UNCHANGED <<frames, pipe, block, allocated>>

\* What lies below the stack is written over, a buffer of the floppy's DMA in
\* the end; what the machine does then is not modelled.
StackOverruns ==
  /\ job.at = "line" /\ ~StackHolds
  /\ job' = [at |-> "overrun"]
  /\ UNCHANGED <<frames, pipe, block, allocated>>

Stops == job.result \in {-100, -200} \/ Top.todo = <<>>

NextSegment ==
  /\ Returned("pipeline") /\ ~Stops
  /\ job' = IF Head(Top.todo).name = "skip" THEN job ELSE [at |-> "command", cmd |-> Head(Top.todo)]
  /\ frames' = Append(Front(frames), [Top EXCEPT !.todo = Tail(@)])
  /\ pipe_remaining' = Len(Top.todo) - 1
  /\ UNCHANGED <<stream, find_term, piping, block, allocated>>

\* The mutant of EndPipeline: an early return for exit and read.
EndPipelineEarly ==
  /\ Returned("pipeline") /\ Stops
  /\ frames' = Front(frames)
  /\ IF job.result = -200 THEN UNCHANGED <<piping, allocated>>
     ELSE piping' = FALSE /\ allocated' = allocated - 1
  /\ UNCHANGED <<job, stream, find_term, pipe_remaining, block>>

EndPipeline ==
  /\ Returned("pipeline") /\ Stops
  /\ frames' = Front(frames)
  /\ piping' = FALSE /\ allocated' = allocated - 1
  /\ UNCHANGED <<job, stream, find_term, pipe_remaining, block>>

-----------------------------------------------------------------------------
(* Commands                                                                *)

\* A file that cannot be read to its end may have been copied over the start
\* of what the buffer held.
CatLeaves(src) == {stream, {New(src)}, {}} \cup {s \cup {New(src)} : s \in {stream} \ {{}}}

cat ==
  /\ Command("cat")
  /\ stream' \in CatLeaves(job.cmd.arg)
  /\ Returns(0)
  /\ UNCHANGED <<frames, find_term, piping, pipe_remaining, block, allocated>>

echo ==
  /\ Command("echo")
  /\ stream' = IF piping /\ CanAllocate THEN {New(job.cmd.arg)} ELSE stream
  /\ Returns(0)
  /\ UNCHANGED <<frames, find_term, piping, pipe_remaining, block, allocated>>

\* As the last of its pipeline find prints the stream itself.
cmd_find ==
  /\ Command("find")
  /\ find_term' = IF stream = {} THEN find_term
                  ELSE IF piping /\ pipe_remaining > 0 THEN New(job.cmd.arg) ELSE NoTerm
  /\ Returns(0)
  /\ UNCHANGED <<frames, stream, piping, pipe_remaining, block, allocated>>

cmd_read ==
  /\ Command("read")
  /\ IF stream = {} THEN Returns(0)
     ELSE \E n \in 1..MaxPages : job' = [at |-> "reading", page |-> 1, pages |-> n]
  /\ UNCHANGED <<frames, pipe, block, allocated>>

Turn ==
  /\ job.at = "reading"
  /\ \E page \in {job.page - 1, job.page + 1} \cap 1..job.pages : job' = [job EXCEPT !.page = page]
  /\ UNCHANGED <<frames, pipe, block, allocated>>

QuitReading ==
  /\ job.at = "reading"
  /\ find_term' = NoTerm /\ stream' = {}
  /\ Returns(-200)
  /\ UNCHANGED <<frames, piping, pipe_remaining, block, allocated>>

exit ==
  /\ Command("exit")
  /\ Returns(-100)
  /\ UNCHANGED <<frames, pipe, block, allocated>>

Other ==
  /\ job.at = "command" /\ job.cmd.name \in {"other", "##", "endif", "endfor", "endwhile"}
  /\ Returns(0)
  /\ UNCHANGED <<frames, pipe, block, allocated>>

-----------------------------------------------------------------------------
(* Scripts and programs                                                    *)

\* The file cannot be opened, is no program, or there is no memory.
RunFails ==
  /\ Command("run")
  /\ Returns(-1)
  /\ UNCHANGED <<frames, pipe, block, allocated>>

RunScript ==
  /\ Command("run") /\ job.cmd.arg \in DOMAIN Scripts /\ CanAllocate
  /\ frames' = Append(frames, [kind |-> "script", todo |-> Scripts[job.cmd.arg], line |-> 0])
  /\ allocated' = allocated + 1
  /\ Returns(0)
  /\ UNCHANGED <<pipe, block>>

\* The file is an ELF file, and there is a buffer for all of it.
RunProgram ==
  /\ Command("run") /\ job.cmd.arg \notin DOMAIN Scripts /\ CanAllocate
  /\ job' = [at |-> "loading"]
  /\ allocated' = allocated + 1
  /\ UNCHANGED <<frames, pipe, block>>

\* The buffer goes once its segments are copied, or the file cannot be read.
load_program ==
  /\ job.at = "loading"
  /\ allocated' = allocated - 1
  /\ job' = [at |-> "program"] \/ Returns(-1)
  /\ UNCHANGED <<frames, pipe, block>>

ProgramExits ==
  /\ job.at = "program"
  /\ Returns(0)
  /\ UNCHANGED <<frames, pipe, block, allocated>>

\* The mutant of NextLine: a line that cannot be copied is tried again.
NextLineAgain ==
  /\ Returned("script") /\ Top.todo # <<>>
  /\ LET held == allocated - Top.line
         copied == held < MaxAllocated
     IN  /\ IF copied THEN Runs(Head(Top.todo)) ELSE UNCHANGED job
         /\ allocated' = IF copied THEN held + 1 ELSE held
         /\ frames' = Append(Front(frames), [Top EXCEPT !.todo = IF copied THEN Tail(@) ELSE @, !.line = IF copied THEN 1 ELSE 0])
  /\ UNCHANGED <<pipe, block>>

\* The line that has run is freed, and the next one copied; what the line
\* returned is dropped.  A line that cannot be copied is passed over.
NextLine ==
  /\ Returned("script") /\ Top.todo # <<>>
  /\ LET held == allocated - Top.line
         copied == held < MaxAllocated
     IN  /\ IF copied THEN Runs(Head(Top.todo)) ELSE UNCHANGED job
         /\ allocated' = IF copied THEN held + 1 ELSE held
         /\ frames' = Append(Front(frames), [Top EXCEPT !.todo = Tail(@), !.line = IF copied THEN 1 ELSE 0])
  /\ UNCHANGED <<pipe, block>>

EndScript ==
  /\ Returned("script") /\ Top.todo = <<>>
  /\ allocated' = allocated - Top.line - 1
  /\ frames' = Front(frames)
  /\ Returns(0)
  /\ UNCHANGED <<pipe, block>>

-----------------------------------------------------------------------------
(* The prompt                                                              *)

AtPrompt == job.at = "prompt"

Enter ==
  /\ AtPrompt
  /\ \E ln \in Lines :
       IF collecting_block # "none" THEN CollectLine(ln)
       ELSE Runs(ln) /\ UNCHANGED <<frames, pipe, block, allocated>>

Prompt ==
  /\ job.at = "returned" /\ frames = <<>>
  /\ job' = [at |-> IF job.result = -100 THEN "exited" ELSE "prompt"]
  /\ stream' = {Old(x) : x \in stream}
  /\ find_term' = IF find_term = NoTerm THEN NoTerm ELSE Old(find_term)
  /\ UNCHANGED <<frames, piping, pipe_remaining, block, allocated>>

Step ==
  \/ Prompt \/ process_command \/ StackOverruns \/ NextSegment \/ EndPipeline \/ NextLine \/ EndScript
  \/ StartBlock \/ cat \/ echo \/ cmd_find \/ cmd_read \/ exit \/ Other
  \/ RunFails \/ RunScript \/ RunProgram \/ load_program

User == Enter \/ Turn

InterpreterInit ==
  /\ job = [at |-> "prompt"] /\ frames = <<>>
  /\ stream = {} /\ find_term = NoTerm /\ piping = FALSE /\ pipe_remaining = 0
  /\ collecting_block = "none" /\ block_line_count = 0 /\ block_nesting = 0 /\ header_words = 0
  /\ allocated = 0

-----------------------------------------------------------------------------
(* Properties                                                              *)

TypeOK ==
  /\ job.at \in {"prompt", "line", "command", "returned", "reading", "loading", "program", "exited", "overrun"}
  /\ \A d \in stream \cup ({find_term} \ {NoTerm}) : d \in [what : STRING, old : BOOLEAN]
  /\ piping \in BOOLEAN /\ pipe_remaining \in 0..MAX_SEGMENTS
  /\ collecting_block \in Starts \cup {"none"}
  /\ block_line_count \in 0..MAX_BLOCK_LINES /\ block_nesting \in 0..block_line_count
  /\ header_words \in {0, 1}

\* However a line ends (exit and the viewer in the middle of a pipeline,
\* scripts in pipelines, pipelines in scripts, no memory), every call gives
\* back what it has taken and a pipeline is over when it is.
CallsCleanUp ==
  /\ TypeOK
  /\ allocated = Cardinality(Calls("pipeline")) + Cardinality(Calls("script"))
                 + Cardinality({i \in Calls("script") : frames[i].line = 1})
                 + (IF job.at = "loading" THEN 1 ELSE 0)
  /\ piping => Calls("pipeline") # {}
  /\ job.at \in {"prompt", "exited"} => frames = <<>>

\* What a pipeline reads and highlights comes from this line: neither data of
\* an earlier one nor its search term gets into it.
PipelineOwnData ==
  Calls("pipeline") # {} => \A d \in stream \cup ({find_term} \ {NoTerm}) : ~d.old
=============================================================================

------------------------------- MODULE Shell -------------------------------
(***************************************************************************)
(* The commands of the shell together: those of Interpreter, and those that *)
(* change the variables.                                                   *)
(***************************************************************************)
EXTENDS Interpreter, Variables

CONSTANT MaxText    \* how long a text may be for the user to add to it

VariableCommands == {"set", "append", "add", "sub", "unset", "unset allvars"}

ASSUME ShellAssumption ==
  \A c \in Commands : c.name \in VariableCommands \ {"unset allvars"} => c.arg \in Names

vars == <<interpreter, shellvars>>

\* What the variable command cmd does.
Changes(cmd) ==
  CASE cmd.name = "set" -> Assign(cmd.arg, Expanded(cmd.value), FALSE)
    [] cmd.name = "append" -> Assign(cmd.arg, Expanded(cmd.value), TRUE)
    [] cmd.name = "add" -> Calculate(cmd.arg, Expanded(cmd.value), 1)
    [] cmd.name = "sub" -> Calculate(cmd.arg, Expanded(cmd.value), -1)
    [] cmd.name = "unset" -> Unset(cmd.arg)
    [] cmd.name = "unset allvars" -> UnsetAll

VariableCommand ==
  /\ job.at = "command" /\ job.cmd.name \in VariableCommands
  /\ Changes(job.cmd)
  /\ Returns(0)
  /\ UNCHANGED <<frames, pipe, block, allocated>>

\* Bound: the user does not lengthen a text beyond MaxText.
Lengthens(ln) == Word(ln) \in {"set", "append"}
Input ==
  /\ User
  /\ (\E i \in DOMAIN values : Len(values[i]) > MaxText) => ~(job'.at = "line" /\ Lengthens(job'.line))

Init == InterpreterInit /\ NoVariables

Next ==
  \/ (Step \/ Input \/ QuitReading \/ ProgramExits) /\ UNCHANGED shellvars
  \/ VariableCommand

\* The interpreter runs on, a viewer is quit at some time, a program ends.
Spec ==
  /\ Init /\ [][Next]_vars
  /\ WF_vars((Step /\ UNCHANGED shellvars) \/ VariableCommand)
  /\ WF_vars(QuitReading /\ UNCHANGED shellvars)
  /\ WF_vars(ProgramExits /\ UNCHANGED shellvars)

-----------------------------------------------------------------------------
(* Properties                                                              *)

\* Every line comes to its end, whatever it starts, in whatever order memory
\* is refused; a script that starts itself may run over the stack instead.
LineEnds == job.at = "line" ~> job.at \in {"prompt", "exited", "overrun"}

\* The two arrays implement a map from names to texts: whatever is set, added
\* to and unset in whatever order, no name loses or exchanges its text.
Store == INSTANCE VariableStore WITH store <- store
VariablesAreMap == Store!Spec

\* What add and sub leave is the number they should, in the width of an int;
\* the least int is the exception.
CommandName(sign) == IF sign = 1 THEN "add" ELSE "sub"
Calculated(name, text, sign) ==
  Calculable(name, text) /\ Sum(name, text, sign) # INT_MIN =>
    is_numeric(resolve_value(name)') /\ str_to_int(resolve_value(name)') = Sum(name, text, sign)
AddsUp ==
  [][\A name \in Names, sign \in {1, -1} :
       job.at = "command" /\ job.cmd.name = CommandName(sign) /\ job.cmd.arg = name =>
         Calculated(name, Expanded(job.cmd.value), sign)]_vars
=============================================================================

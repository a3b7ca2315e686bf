------------------------------ MODULE ShellMC ------------------------------
(***************************************************************************)
(* Lines for Shell: commands and pipelines of every kind, a script of       *)
(* pipelines, and one that starts itself.  Numbers are binary.              *)
(***************************************************************************)
EXTENDS Shell, TLC

Cmd(name, arg) == [name |-> name, arg |-> arg, words |-> IF name \in Starts THEN 4 ELSE 2, value |-> <<>>]

VarCmd(name, var, value) == [Cmd(name, var) EXCEPT !.value = value]
Text(c) == [ref |-> FALSE, text |-> <<c>>]
Ref(var) == [ref |-> TRUE, text |-> var]

MCMeaning ==
  "cat" :> <<Cmd("cat", "F")>>
  @@ "read" :> <<Cmd("read", "")>>
  @@ "find" :> <<Cmd("find", "x")>>
  @@ "show" :> <<Cmd("cat", "F"), Cmd("find", "x"), Cmd("read", "")>>
  @@ "marked" :> <<Cmd("cat", "F"), Cmd("find", "x"), Cmd("find", "y"), Cmd("other", ""), Cmd("read", "")>>
  @@ "said" :> <<Cmd("echo", "e"), Cmd("run", "S"), Cmd("run", "R"), Cmd("find", "z")>>
  @@ "left" :> <<Cmd("cat", "F"), Cmd("exit", ""), Cmd("read", "")>>
  @@ "run" :> <<Cmd("run", "S")>>
  @@ "again" :> <<Cmd("run", "R")>>
  @@ "program" :> <<Cmd("run", "P")>>
  @@ "exit" :> <<Cmd("exit", "")>>
  @@ "if" :> <<Cmd("if", "")>>
  @@ "for" :> <<Cmd("for", "")>>
  @@ "usage" :> <<[Cmd("while", "") EXCEPT !.words = 2]>>
  @@ "endif" :> <<Cmd("endif", "")>>
  @@ "endfor" :> <<Cmd("endfor", "")>>
  @@ "##" :> <<Cmd("##", "")>>
  @@ "$x=1" :> <<VarCmd("set", "x", <<Text("1")>>)>>
  @@ "$y=-$x0" :> <<VarCmd("set", "y", <<Text("-"), Ref("x"), Text("0")>>)>>
  @@ "$z=1" :> <<VarCmd("set", "z", <<Text("1")>>)>>
  @@ "$x+=1" :> <<VarCmd("append", "x", <<Text("1")>>)>>
  @@ "add $x 1" :> <<VarCmd("add", "x", <<Text("1")>>)>>
  @@ "sub $x $y" :> <<VarCmd("sub", "x", <<Ref("y")>>)>>
  @@ "unset x" :> <<VarCmd("unset", "x", <<>>)>>
  @@ "unset allvars" :> <<VarCmd("unset allvars", "", <<>>)>>

MCLines == DOMAIN MCMeaning
MCCommands == UNION {ToSet(MCMeaning[ln]) : ln \in MCLines}
MCScripts == "S" :> <<"show", "left", "if">> @@ "R" :> <<"again", "said">>
MCDigits == <<"0", "1">>
=============================================================================

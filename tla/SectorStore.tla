----------------------------- MODULE SectorStore -----------------------------
(***************************************************************************)
(* What the file system may rely on when it reads and writes sectors: a     *)
(* call that succeeds did all of its work, and one that fails may have done *)
(* any part of it.  A write that failed may even reach the medium later,    *)
(* but never after another call has succeeded.                              *)
(***************************************************************************)
EXTENDS Integers, Sequences

CONSTANTS
  Lbas, Values,
  Calls,     \* records: op is "read" or "write", lba, count, data (of a write)
  NoCall, Failed

VARIABLES
  medium,   \* the sectors of the disk
  call,     \* the call that runs, or NoCall
  reply,    \* what the last call returned: the data, or Failed
  late      \* sectors of failed writes that may still be written

vars == <<medium, call, reply, late>>

\* The sectors of a call, as a set of numbers from its first one.
Part(c) == 0..(c.count - 1)
Written(c) == IF c.op = "write" THEN {[lba |-> c.lba + i, value |-> c.data[i + 1]] : i \in Part(c)} ELSE {}

Init == medium \in [Lbas -> Values] /\ call = NoCall /\ reply = Failed /\ late = {}

Begin(c) == call = NoCall /\ call' = c /\ UNCHANGED <<medium, reply, late>>

\* A sector of the running call, or of a failed one, is written.
Write(w) ==
  /\ w \in late \/ (call # NoCall /\ w \in Written(call))
  /\ medium' = [medium EXCEPT ![w.lba] = w.value]
  /\ late' \in {late, late \ {w}}
  /\ UNCHANGED <<call, reply>>

\* What is left of a failed write will not be done after all.
Forget == late' \in SUBSET late /\ UNCHANGED <<medium, call, reply>>

Done(c) == \A w \in Written(c) : medium[w.lba] = w.value

ReturnOk ==
  /\ call # NoCall /\ late = {} /\ Done(call)
  /\ reply' = [i \in 1..call.count |-> medium[call.lba + i - 1]]
  /\ call' = NoCall
  /\ UNCHANGED <<medium, late>>

ReturnFailed ==
  /\ call # NoCall
  /\ call' = NoCall /\ reply' = Failed
  /\ late' \in SUBSET (late \cup Written(call))
  /\ UNCHANGED medium

Next ==
  \/ \E c \in Calls : Begin(c)
  \/ \E w \in late \cup (IF call = NoCall THEN {} ELSE Written(call)) : Write(w)
  \/ Forget \/ ReturnOk \/ ReturnFailed

Spec == Init /\ [][Next]_vars
=============================================================================

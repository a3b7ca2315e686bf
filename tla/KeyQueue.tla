------------------------------ MODULE KeyQueue ------------------------------
(***************************************************************************)
(* What the keyboard driver promises its readers: a queue of bounded       *)
(* length.  A key typed when the queue is full is dropped, never one that   *)
(* is already in it, and keys are read in the order they were typed.        *)
(***************************************************************************)
EXTENDS Naturals, Sequences

CONSTANTS Characters, Capacity

VARIABLES
  queue,   \* typed and not read yet
  got      \* what was read last

Init == queue = <<>> /\ got \notin Characters

Type(ch) ==
  /\ Len(queue) < Capacity
  /\ queue' = Append(queue, ch)
  /\ UNCHANGED got

Get ==
  /\ queue # <<>>
  /\ queue' = Tail(queue)
  /\ got' = Head(queue)

Next == Get \/ \E ch \in Characters : Type(ch)

Spec == Init /\ [][Next]_<<queue, got>>
=============================================================================

------------------------------ MODULE HeapSpec ------------------------------
(***************************************************************************)
(* What the callers of malloc, free and realloc may rely on: the regions   *)
(* they hold lie inside the heap and never overlap, and a region changes    *)
(* only in a call on it.  Units of 8 bytes, as in Heap.                     *)
(***************************************************************************)
EXTENDS Naturals

CONSTANTS
  HeapSize,
  Requests    \* the lengths callers ask for

VARIABLE held    \* the regions the callers hold: start |-> length

\* The region of n units at p lies in the heap, apart from those of h.
Fits(h, p, n) ==
  /\ p + n <= HeapSize
  /\ \A q \in DOMAIN h : p + n <= q \/ q + h[q] <= p

Without(h, p) == [q \in DOMAIN h \ {p} |-> h[q]]
With(h, p, n) == [q \in DOMAIN h \cup {p} |-> IF q = p THEN n ELSE h[q]]

Init == held = [p \in {} |-> 0]

Alloc(p, n) ==
  /\ p \notin DOMAIN held
  /\ Fits(held, p, n)
  /\ held' = With(held, p, n)

Release(p) == held' = Without(held, p)

\* realloc where it is ...
Resize(p, n) ==
  /\ Fits(Without(held, p), p, n)
  /\ held' = With(held, p, n)

\* ... or elsewhere: the new region is apart from the old one, which is copied.
Move(p, q, n) ==
  /\ q \notin DOMAIN held
  /\ Fits(held, q, n)
  /\ held' = Without(With(held, q, n), p)

Next ==
  \/ \E p \in 0..HeapSize, n \in Requests : Alloc(p, n)
  \/ \E p \in DOMAIN held :
       \/ Release(p)
       \/ \E n \in Requests :
            Resize(p, n) \/ \E q \in 0..HeapSize : Move(p, q, n)

Spec == Init /\ [][Next]_held
=============================================================================

---------------------------- MODULE AddressSpace ----------------------------
(***************************************************************************)
(* What callers of the virtual memory manager rely on: a range of pages is  *)
(* mapped as a whole or not at all, and the memory the boot loader mapped    *)
(* stays as it is.                                                          *)
(***************************************************************************)
EXTENDS Integers

CONSTANTS
  VPages,     \* the virtual pages
  Unmapped    \* what a page without a frame is mapped to

VARIABLES
  mapping,    \* the frame of every page
  result      \* what the last call returned

Range(v, n) == v..(v + n - 1)

\* The range is free, and becomes mapped.
MapRange(v, p, n) ==
  /\ \A x \in Range(v, n) : mapping[x] = Unmapped
  /\ mapping' = [x \in VPages |-> IF x \in Range(v, n) THEN p + (x - v) ELSE mapping[x]]
  /\ result' = 0

\* Part of the range is taken, or memory is short.
MapFails ==
  /\ mapping' = mapping
  /\ result' = -1

\* Whatever of the range is mapped, and not by the boot loader, is unmapped; the
\* result tells whether that was all of it.
UnmapRange(v, n, boot) ==
  LET gone == {x \in Range(v, n) \ boot : mapping[x] # Unmapped}
  IN  /\ mapping' = [x \in VPages |-> IF x \in gone THEN Unmapped ELSE mapping[x]]
      /\ result' = IF gone = Range(v, n) THEN 0 ELSE -1
=============================================================================

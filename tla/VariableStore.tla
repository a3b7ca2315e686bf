--------------------------- MODULE VariableStore ---------------------------
(***************************************************************************)
(* What the shell's variables promise: names stand for texts, and a command *)
(* touches the name it is given only.                                      *)
(***************************************************************************)
EXTENDS Naturals, FiniteSets, Functions

CONSTANTS Names, MAX_VARIABLES

VARIABLE store     \* a function from the names that are set to their texts

Init == store = <<>>

\* The text is any: of the other names nothing changes.
Assign(n) ==
  /\ n \in DOMAIN store \/ Cardinality(DOMAIN store) < MAX_VARIABLES
  /\ DOMAIN store' = DOMAIN store \cup {n}
  /\ \A other \in DOMAIN store \ {n} : store'[other] = store[other]

Unset(n) == n \in DOMAIN store /\ store' = Restrict(store, DOMAIN store \ {n})

UnsetAll == store' = <<>>

Next == (\E n \in Names : Assign(n) \/ Unset(n)) \/ UnsetAll

Spec == Init /\ [][Next]_store
=============================================================================

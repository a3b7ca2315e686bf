------------------------------ MODULE Fat12MC ------------------------------
(* Small disks for Fat12.                                                  *)
EXTENDS Fat12, TLC

\* A FAT in one sector, and one whose entries 2 and 3 are in the first of two.
OneSector  == [c \in Clusters |-> 1]
TwoSectors == [c \in Clusters |-> IF c <= 3 THEN 1 ELSE 2]

Symmetry == Permutations(Names) \cup Permutations(Values)

=============================================================================

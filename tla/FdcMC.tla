-------------------------------- MODULE FdcMC --------------------------------
(***************************************************************************)
(* Fdc on a disk of two tracks of two sectors, with calls for one sector,   *)
(* for a whole track and across the two tracks.                             *)
(***************************************************************************)
EXTENDS Fdc

MCCalls == {[op |-> "read", lba |-> 1, count |-> 3],
            [op |-> "write", lba |-> 1, count |-> 2, data |-> <<1, 0>>],
            [op |-> "write", lba |-> 3, count |-> 1, data |-> <<1>>]}
=============================================================================

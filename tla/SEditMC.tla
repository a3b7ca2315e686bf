------------------------------- MODULE SEditMC -------------------------------
(***************************************************************************)
(* SEdit with up to three lines of up to two characters, and a buffer that  *)
(* neither the longest texts nor one of the first files fit in.  The last   *)
(* first file has four lines, of which load_file drops one; three empty     *)
(* lines that are saved are a file that makes it write behind the array.    *)
(* One character is typed; the other one comes from the first files, and    *)
(* shows the order of the two.                                              *)
(***************************************************************************)
EXTENDS SEdit

CONSTANTS a, b

MCFirstFiles == {NoFile, <<a, b, NL>>, <<a, NL, b, b, b>>, <<NL, NL, NL, b>>}
=============================================================================

------------------------------- MODULE PmemMC -------------------------------
(* Memory maps for TLC, scaled: 1MB is two pages, 8MB seven and 4GB 64.       *)
EXTENDS Pmem

Area(base, length, ram) == [base |-> base, length |-> length, ram |-> ram]

MCMaps == {
  \* No map: pages 4 to 7 come one by one, below the bitmap at 8.
  <<>>,
  \* The larger of two areas: page 7, the last one, is the bitmap's.
  <<Area(0, 1, TRUE), Area(2, 14, TRUE)>>,
  \* Page 5 is not memory.
  <<Area(0, 5, TRUE), Area(5, 1, FALSE), Area(6, 10, TRUE)>>,
  \* So small that page 2, which holds a table, is handed out first.
  <<Area(0, 11, TRUE)>>,
  \* All below the region, whose size wraps; and above 4GB, which is cut off.
  <<Area(0, 6, TRUE)>>,
  <<Area(0, 3, TRUE), Area(66, 10, TRUE)>>}
=============================================================================

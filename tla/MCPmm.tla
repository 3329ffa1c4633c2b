------------------------------- MODULE MCPmm -------------------------------
(* Pmm on a physical memory of nine pages, usable in two stretches with a  *)
(* reserved hole between them, and requests of 0 to 4 pages.               *)
EXTENDS Pmm

MCUsable == {1, 2, 3, 4, 6, 7, 8}
MCSizes  == 0 .. 4
=============================================================================

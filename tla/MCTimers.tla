------------------------------ MODULE MCTimers ------------------------------
(* TimersHeap for TLC: blocks of three elements, so that the heap crosses  *)
(* a block boundary, and identifiers that wrap.                            *)
EXTENDS TimersHeap
=============================================================================

-------------------------- MODULE FittingCxxVolume --------------------------
(***************************************************************************)
(* C++ volumes whose block map fits the one block that writeBlockMap       *)
(* writes (blockMap.cc:87).                                                *)
(***************************************************************************)
EXTENDS CxxVolume

ASSUME MapFitsItsBlock == Stored = Blocks
=============================================================================

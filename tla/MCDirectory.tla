---------------------------- MODULE MCDirectory ----------------------------
(* Orderly sessions with names that are interchangeable.                   *)
EXTENDS OrderlyDirectory, TLC

NamesAreAlike == Permutations(Names)
=============================================================================

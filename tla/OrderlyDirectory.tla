-------------------------- MODULE OrderlyDirectory --------------------------
(***************************************************************************)
(* The directory cache when its users do none of what the code has no      *)
(* answer to: cd to ".", Ctrl+C, going on when the blocks or the inodes    *)
(* have run out, freeINode of an inode that is in use; and when no block   *)
(* fails to be read or written.  The runs dir_stale, dir_crash,            *)
(* dir_exhausted and dir_full show what comes of the first three.          *)
(***************************************************************************)
EXTENDS Directory

ASSUME SessionsAreOrderly ==
  UserCommands \cap {"cd .", "Ctrl+C", "when full", "read error", "write error",
                     "freeINode"} = {}
=============================================================================

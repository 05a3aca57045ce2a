------------------------------ MODULE MCINodeIO ------------------------------
(* A layout for INodeIO: one block of bits, and every inode has its block. *)
EXTENDS INodeIO
OneMapBlock    == [b \in Blocks |-> 0]
OneINodeABlock == [i \in Inodes |-> i]
=============================================================================

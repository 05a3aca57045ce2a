---------------------------- MODULE FittingVolume ----------------------------
(***************************************************************************)
(* Volumes whose block map fits the blocks that getBlocksInBlockMap counts *)
(* for it, and the promise they keep: they implement Store.                *)
(***************************************************************************)
EXTENDS Volume

ASSUME MapFits == Stored = Blocks

(* The owners a volume knows are its block pointers, and they mean nothing *)
(* on a device, or in a session, that is not sound.  The block map is not  *)
(* there at all: that the code consults it, in memory and on the device,   *)
(* must amount to asking who owns a block.  A block of the volume itself   *)
(* that a user has got, after freeing one, counts for nothing.             *)
Promise == INSTANCE Store WITH
  DataBlocks <- Blocks \ Reserved,
  Unassigned <- NoBlock,
  good <- diskSound,
  dur <- IF diskSound THEN diskPtr ELSE FreshPtr,
  open <- mounted /\ memSound,
  cur <- IF mounted /\ memSound THEN memPtr ELSE FreshPtr,
  given <- held \ Reserved

(* Volume implements Store: allocation by the lowest clear bit gives out   *)
(* blocks that have no owner, a torn or failed unmount moves inodes to the *)
(* device in groups or spoils it, and a mount takes up where the device    *)
(* stands (inode.c:172-194, filesystem.c:85-158).                          *)
PromiseKept == Promise!Spec
=============================================================================

-------------------------- MODULE VolumeRefinement --------------------------
(***************************************************************************)
(* Volume implements Store, for every size and every layout whose block    *)
(* map fits.  Every step of the code is a step of the promise or changes   *)
(* nothing of it; the inductive invariant of Volume says that a clear bit  *)
(* of a sound volume is the bit of a block without an owner.               *)
(***************************************************************************)
EXTENDS VolumeProofs

\* The owners that the promise speaks of.
Dur == IF diskSound THEN diskPtr ELSE FreshPtr
Cur == IF mounted /\ memSound THEN memPtr ELSE FreshPtr

LEMMA Mapping ==
  /\ Promise!Nothing = FreshPtr
  /\ \A ow : Promise!Owned(ow) = { ow[i][s] : i \in Inodes, s \in Slots } \ {NoBlock}
  /\ Promise!Owned(FreshPtr) = {}
BY ConstantFacts DEF Promise!Nothing, Promise!Owned, FreshPtr

\* Nothing of the promise changes.
Same == UNCHANGED <<diskSound, Dur, mounted /\ memSound, Cur, held \ Reserved>>

LEMMA SameIsStutter == Same => UNCHANGED Promise!vars
BY DEF Same, Promise!vars, Dur, Cur

LEMMA InitMaps == Init => Promise!Init
BY Mapping DEF Init, Promise!Init

\* newfs, on a device that is not mounted, ends what was promised of `held`.
LEMMA NewfsMaps == IInv /\ Newfs => [Promise!Next]_(Promise!vars)
<1> SUFFICES ASSUME IInv, Newfs PROVE [Promise!Next]_(Promise!vars)
  OBVIOUS
<1> USE DEF Newfs, disk, mem
<1>1. CASE mounted
  <2>1. Same BY <1>1 DEF Same, Dur, Cur
  <2> QED BY <2>1, SameIsStutter
<1>2. CASE ~mounted
  <2>1. Promise!Leave BY <1>2, Mapping DEF Promise!Leave
  <2> QED BY <2>1 DEF Promise!Next
<1> QED BY <1>1, <1>2

LEMMA SpoilMaps ==
  ASSUME ~diskSound', UNCHANGED <<mounted, memSound, memPtr, held>>
  PROVE  Promise!Next
<1>1. Promise!Spoil BY Mapping DEF Promise!Spoil
<1> QED BY <1>1 DEF Promise!Next

LEMMA UnmountMaps == IInv /\ Unmount => [Promise!Next]_(Promise!vars)
<1> SUFFICES ASSUME IInv, Unmount PROVE [Promise!Next]_(Promise!vars)
  OBVIOUS
<1> USE DEF Unmount, disk, mem, IInv, TypeOK
<1>1. CASE diskSound' = diskSound
  <2>1. Same BY <1>1 DEF Same, Dur, Cur
  <2> QED BY <2>1, SameIsStutter
<1>2. CASE ~diskSound'
  BY <1>2, SpoilMaps
<1> QED BY <1>1, <1>2

\* A block of the inode map: on a sound device its inodes are the session's.
LEMMA WriteINodeMapMaps == IInv /\ WriteINodeMap => [Promise!Next]_(Promise!vars)
<1> SUFFICES ASSUME IInv, WriteINodeMap PROVE [Promise!Next]_(Promise!vars)
  OBVIOUS
<1>0. UNCHANGED <<mounted, memPtr, held, diskSound, memSound>>
  BY DEF WriteINodeMap, mem, ghosts
<1>1. CASE ~diskSound
  <2>1. Same BY <1>0, <1>1 DEF Same, Dur, Cur
  <2> QED BY <2>1, SameIsStutter
<1>2. CASE diskSound
  <2> DEFINE I == { i \in Inodes : InodeBlockOf[i] = next }
  <2>1. caller = "unmount" /\ mounted /\ memSound
    BY <1>2 DEF WriteINodeMap, IInv, Rest, Control, TypeOK
  <2>2. diskPtr' = [i \in Inodes |-> IF i \in I THEN memPtr[i] ELSE diskPtr[i]]
    BY <2>1 DEF WriteINodeMap, ImagePtr
  <2>3. Promise!Persist(I)
    BY <1>0, <1>2, <2>1, <2>2 DEF Promise!Persist
  <2> QED BY <2>3 DEF Promise!Next
<1> QED BY <1>1, <1>2 DEF IInv, TypeOK

LEMMA CloseBlockDeviceMaps ==
  IInv /\ CloseBlockDevice => [Promise!Next]_(Promise!vars)
<1> SUFFICES ASSUME IInv, CloseBlockDevice PROVE [Promise!Next]_(Promise!vars)
  OBVIOUS
<1> USE DEF IInv, Rest, TypeOK
<1>0. phase = "close" /\ UNCHANGED <<diskPtr, held>>
  BY DEF CloseBlockDevice, disk
<1>1. CASE caller = "newfs"
  <2>0. diskSound' /\ UNCHANGED <<mounted, memPtr, memSound>>
    BY <1>1 DEF CloseBlockDevice, mem
  <2>1. diskPtr = FreshPtr
    BY <1>0, <1>1 DEF InodesWritten, ImagePtr, Control
  <2>2. ~diskSound
    BY <1>0, <1>1 DEF Control
  <2>3. Promise!Format
    BY <1>0, <2>0, <2>1, <2>2, Mapping DEF Promise!Format
  <2> QED BY <2>3 DEF Promise!Next
<1>2. CASE caller = "unmount"
  <2>0. diskSound' = (diskSound \/ (ok /\ memSound)) /\ ~mounted' /\ mounted
    BY <1>2 DEF CloseBlockDevice, DropMemory, Control
  <2>1. CASE diskSound' = diskSound
    <3>1. Promise!Leave
      BY <1>0, <2>0, <2>1, Mapping DEF Promise!Leave
    <3> QED BY <3>1 DEF Promise!Next
  <2>2. CASE ~diskSound /\ ok /\ memSound
    <3>1. diskPtr = memPtr
      BY <1>0, <1>2, <2>2 DEF InodesWritten, ImagePtr
    <3>2. Promise!Save
      BY <1>0, <2>0, <2>2, <3>1, Mapping DEF Promise!Save
    <3> QED BY <3>2 DEF Promise!Next
  <2> QED BY <2>0, <2>1, <2>2
<1> QED BY <1>1, <1>2 DEF CloseBlockDevice

LEMMA MountMaps == IInv /\ Mount => [Promise!Next]_(Promise!vars)
<1> SUFFICES ASSUME IInv, Mount PROVE [Promise!Next]_(Promise!vars)
  OBVIOUS
<1>0. /\ ~mounted /\ mounted' /\ memPtr' = diskPtr /\ memSound' = diskSound
      /\ UNCHANGED <<diskPtr, held, diskSound>>
  BY DEF Mount, bootstrapDevice, disk
<1>1. CASE ~diskSound
  <2>1. Same BY <1>0, <1>1 DEF Same, Dur, Cur
  <2> QED BY <2>1, SameIsStutter
<1>2. CASE diskSound
  <2>1. HeldApart(diskBits, diskPtr)
    BY <1>0, <1>2 DEF IInv, Rest, DiskGood
  <2>2. Promise!Owned(diskPtr) \cap held = {}
    BY <2>1, Mapping DEF HeldApart
  <2>3. Promise!Open
    BY <1>0, <1>2, <2>2 DEF Promise!Open
  <2> QED BY <2>3 DEF Promise!Next
<1> QED BY <1>1, <1>2

\* A clear bit of a session that is open is the bit of a block nobody owns.
LEMMA ClearBitMeansNoOwner ==
  ASSUME IInv, NEW b \in Blocks, Lowest(b)
  PROVE  /\ mounted /\ memSound => b \notin Reserved \cup held
         /\ b \notin Promise!Owned(Cur)
<1>1. memHdr /\ b \notin memBits
  BY DEF Lowest, Unmarked
<1>2. memSound => b \notin Reserved
  BY <1>1 DEF IInv, Rest, ReservedMarked
<1>3. b \notin Promise!Owned(Cur)
  <2>1. CASE mounted /\ memSound
    BY <1>1, <2>1, Mapping DEF Cur, IInv, Rest, MemGood, PointersMarked
  <2>2. CASE ~(mounted /\ memSound)
    BY <2>2, Mapping DEF Cur
  <2> QED BY <2>1, <2>2
<1>4. mounted /\ memSound => b \notin held
  BY <1>1 DEF IInv, Rest, MemGood, HeldApart
<1> QED BY <1>2, <1>3, <1>4

LEMMA AllocateBlockMaps == IInv /\ AllocateBlock => [Promise!Next]_(Promise!vars)
<1> SUFFICES ASSUME IInv, AllocateBlock PROVE [Promise!Next]_(Promise!vars)
  OBVIOUS
<1> PICK b \in Blocks : Lowest(b) /\ held' = held \cup {b}
  BY DEF AllocateBlock
<1>0. UNCHANGED <<diskPtr, mounted, memPtr, diskSound, memSound>>
  BY DEF AllocateBlock, disk
<1>1. CASE b \in held \cup Reserved
  <2>1. Same BY <1>0, <1>1 DEF Same, Dur, Cur
  <2> QED BY <2>1, SameIsStutter
<1>2. CASE b \notin held \cup Reserved
  <2>1. held' \ Reserved = (held \ Reserved) \cup {b}
    BY <1>2
  <2>2. b \notin Promise!Owned(Cur)
    BY ClearBitMeansNoOwner
  <2>3. Promise!Give(b)
    BY <1>0, <1>2, <2>1, <2>2 DEF Promise!Give, Cur
  <2> QED BY <1>2, <2>3 DEF Promise!Next
<1> QED BY <1>1, <1>2

LEMMA FreeBlockMaps ==
  ASSUME IInv, NEW b \in FreedBlocks, FreeBlock(b)
  PROVE  [Promise!Next]_(Promise!vars)
<1>0. /\ held' = held \ {b} /\ memSound' = (memSound /\ b \in held)
      /\ UNCHANGED <<diskPtr, mounted, memPtr, diskSound>>
  BY DEF FreeBlock, freeBlock, disk
<1>1. CASE b \in held \ Reserved
  <2>1. Promise!TakeBack(b)
    BY <1>0, <1>1 DEF Promise!TakeBack, IInv, TypeOK
  <2> QED BY <1>1, <2>1, SizeAssumption DEF Promise!Next
<1>2. CASE b \notin held \ Reserved
  <2>1. ~memSound' /\ held' \ Reserved = held \ Reserved
    BY <1>0, <1>2 DEF IInv, Rest, ReservedMarked
  <2>2. Promise!Leave
    BY <1>0, <2>1, Mapping DEF Promise!Leave
  <2> QED BY <2>2 DEF Promise!Next
<1> QED BY <1>1, <1>2

LEMMA INodeWriteBlockMaps ==
  ASSUME IInv, NEW i \in Inodes, NEW s \in Slots, INodeWriteBlock(i, s)
  PROVE  [Promise!Next]_(Promise!vars)
<1> PICK b \in Blocks :
       /\ Lowest(b) /\ memPtr' = [memPtr EXCEPT ![i] = [memPtr[i] EXCEPT ![s] = b]]
       /\ WrittenTo(b)
  BY DEF INodeWriteBlock
<1>0. memPtr[i][s] = NoBlock /\ mounted /\ UNCHANGED <<mounted, held, memSound>>
  BY DEF INodeWriteBlock, Absent
<1>1. CASE ~memSound /\ UNCHANGED <<disk, diskSound>>
  <2>1. Same BY <1>0, <1>1 DEF Same, Dur, Cur, disk
  <2> QED BY <2>1, SameIsStutter
<1>2. CASE memSound
  <2>1. b \notin Reserved /\ UNCHANGED <<disk, diskSound>>
    BY <1>0, <1>2, ClearBitMeansNoOwner DEF WrittenTo
  <2>2. Promise!Assign(i, s, b)
    BY <1>0, <1>2, <2>1, ClearBitMeansNoOwner DEF Promise!Assign, Cur, disk
  <2> QED BY <2>1, <2>2 DEF Promise!Next
<1>3. CASE ~memSound /\ Overwritten(b)
  <2>1. Promise!Spoil
    BY <1>0, <1>3, Mapping DEF Promise!Spoil, Overwritten
  <2> QED BY <2>1 DEF Promise!Next
<1> QED BY <1>1, <1>2, <1>3 DEF IInv, TypeOK, WrittenTo

LEMMA StepMaps == IInv /\ [Next]_vars => [Promise!Next]_(Promise!vars)
<1> SUFFICES ASSUME IInv, [Next]_vars PROVE [Promise!Next]_(Promise!vars)
  OBVIOUS
<1>1. CASE Newfs BY <1>1, NewfsMaps
<1>2. CASE WriteMasterBlock BY <1>2, SpoilMaps DEF WriteMasterBlock, mem
<1>3. CASE WriteBlockMapFails BY <1>3, SpoilMaps DEF WriteBlockMapFails, mem
<1>4. CASE Unmount BY <1>4, UnmountMaps
<1>5. CASE WriteINodeMap BY <1>5, WriteINodeMapMaps
<1>6. CASE CloseBlockDevice BY <1>6, CloseBlockDeviceMaps
<1>7. CASE Mount BY <1>7, MountMaps
<1>8. CASE AllocateBlock BY <1>8, AllocateBlockMaps
<1>9. CASE Crash
  <2>1. Promise!Leave
    BY <1>9, Mapping DEF Crash, DropMemory, disk, Promise!Leave
  <2> QED BY <2>1 DEF Promise!Next
<1>10. ASSUME NEW b \in FreedBlocks, FreeBlock(b)
       PROVE  [Promise!Next]_(Promise!vars)
  BY <1>10, FreeBlockMaps
<1>11. ASSUME NEW i \in Inodes, NEW s \in Slots, INodeWriteBlock(i, s)
       PROVE  [Promise!Next]_(Promise!vars)
  BY <1>11, INodeWriteBlockMaps
<1>12. ASSUME NEW i \in Inodes, NEW s \in Slots, INodeRewriteBlock(i, s)
       PROVE  [Promise!Next]_(Promise!vars)
  BY <1>12, SpoilMaps DEF INodeRewriteBlock, Overwritten, mem
<1>13. CASE \/ NewfsFails \/ WriteBlockMap \/ WriteINodeMapFails \/ AllocateINode
            \/ (\E i \in Inodes : FreeINode(i)) \/ UNCHANGED vars
  <2>1. UNCHANGED <<diskPtr, mounted, memPtr, held, diskSound, memSound>>
    BY <1>13 DEF NewfsFails, WriteBlockMap, WriteINodeMapFails, AllocateINode,
                 FreeINode, freeINode, vars, disk, mem, ghosts
  <2>2. Same BY <2>1 DEF Same, Dur, Cur
  <2> QED BY <2>2, SameIsStutter
<1> QED
  BY <1>1, <1>2, <1>3, <1>4, <1>5, <1>6, <1>7, <1>8, <1>9, <1>10, <1>11, <1>12,
     <1>13
  DEF Next

(* Volume implements Store: what newfs, mount, unmount, the allocation of  *)
(* blocks and iNodeWrite do with two maps, block by block, is ownership of *)
(* blocks with one owner each (inode.c:172-194, filesystem.c:85-158).      *)
THEOREM VolumeImplementsStore == Spec => PromiseKept
BY InitMaps, StepMaps, Invariant, PTL DEF Spec, PromiseKept, Promise!Spec
=============================================================================

---------------------------- MODULE VolumeProofs ----------------------------
(***************************************************************************)
(* The safety properties of Volume, for devices, maps and inodes of any    *)
(* size.  None of them is inductive.  IInv adds how far a write of the     *)
(* volume has come, and that a sound device never disagrees with a sound   *)
(* mounted file system about a block pointer: Agreement is why a mixture   *)
(* of old and new inodes is no worse than either.                          *)
(***************************************************************************)
EXTENDS FittingVolume, TLAPS

\* Who writes what when, and what a write in progress leaves alone.
Control ==
  /\ (phase = "idle") <=> (caller = "none")
  /\ phase = "master" => caller = "newfs" /\ next = 0
  /\ caller = "unmount" => mounted
  /\ phase = "map" => next \in 0 .. MapBlocks - 1 /\ ok
  /\ phase = "inodes" => next \in 0 .. InodeBlocks - 1
  /\ mounted /\ (memSound \/ ~tampered) => master
  /\ caller = "newfs" /\ phase # "master" => master
  /\ memHdr \/ memSound => mounted
  /\ caller = "newfs" =>
       /\ ok
       /\ phase # "master" => ~diskSound
       /\ ~mounted => held = {}
  /\ caller = "unmount" /\ diskSound => memSound

\* The blocks newfs marks, until a user frees one; then as long as the device,
\* or the session, is sound.
ReservedMarked ==
  /\ diskSound \/ (diskHdr /\ ~tampered) => Reserved \subseteq diskBits
  /\ memSound \/ (memHdr /\ ~tampered) => Reserved \subseteq memBits
  /\ memSound \/ (diskSound /\ ~mounted) \/ ~tampered => held \cap Reserved = {}

\* An absent pointer is 0, and no other is to a reserved block.
SparesReserved(ptr) ==
  \A i \in Inodes, s \in Slots : ptr[i][s] \in Reserved => ptr[i][s] = NoBlock

PointersToData ==
  /\ memSound \/ ~tampered => SparesReserved(memPtr)
  /\ diskSound \/ ~tampered => SparesReserved(diskPtr)

HeldApart(bits, ptr) ==
  held \subseteq bits /\ \A i \in Inodes, s \in Slots : ptr[i][s] \notin held

MemGood ==
  memSound =>
    PointersMarked(memBits, memPtr) /\ OwnerUnique(memPtr) /\ HeldApart(memBits, memPtr)

DiskGood ==
  diskSound =>
    /\ PointersMarked(diskBits, diskPtr) /\ OwnerUnique(diskPtr)
    /\ ~mounted => HeldApart(diskBits, diskPtr)

Agreement ==
  diskSound /\ memSound =>
    \A i \in Inodes, s \in Slots :
      diskPtr[i][s] # NoBlock => memPtr[i][s] = diskPtr[i][s]

\* What has been written of the volume is on the device.
MapWritten ==
  /\ phase = "map" =>
       /\ \A b \in Blocks :
            MapBlockOf[b] < next => (b \in diskBits <=> b \in ImageBits)
       /\ next > 0 => diskHdr
  /\ phase \in {"inodes", "close"} /\ (ok \/ diskSound) =>
       diskBits = ImageBits /\ diskHdr

InodesWritten ==
  /\ phase = "inodes" =>
       \A i \in Inodes : InodeBlockOf[i] < next =>
         diskStatus[i] = ImageStatus[i] /\ diskPtr[i] = ImagePtr[i]
  /\ phase = "close" /\ ok =>
       diskStatus = ImageStatus /\ diskPtr = ImagePtr

Rest ==
  /\ Control /\ ReservedMarked /\ PointersToData
  /\ MemGood /\ DiskGood /\ Agreement /\ MapWritten /\ InodesWritten

IInv == TypeOK /\ Rest

-----------------------------------------------------------------------------
(* Types.                                                                  *)

LEMMA ConstantFacts ==
  /\ NoBlock \in Blocks /\ NoBlock \in Reserved
  /\ Reserved \subseteq Blocks
  /\ FreshPtr \in Pointers
  /\ FreshStatus \in [Inodes -> Status]
  /\ \A i \in Inodes, s \in Slots : FreshPtr[i][s] = NoBlock
BY SizeAssumption
   DEF NoBlock, Blocks, Reserved, Prealloc, FreshPtr, FreshStatus, Pointers,
       Status, Free, Allocated

LEMMA TypeInit == Init => TypeOK
<1> SUFFICES ASSUME Init PROVE TypeOK
  OBVIOUS
<1>1. /\ master \in BOOLEAN /\ diskHdr \in BOOLEAN /\ mounted \in BOOLEAN
      /\ memHdr \in BOOLEAN /\ ok \in BOOLEAN /\ diskSound \in BOOLEAN
      /\ memSound \in BOOLEAN /\ tampered \in BOOLEAN
  BY DEF Init
<1>2. diskPtr \in Pointers /\ memPtr \in Pointers
  BY ConstantFacts DEF Init
<1>3. diskStatus \in [Inodes -> Status] /\ memStatus \in [Inodes -> Status]
  BY DEF Init, Status
<1> QED BY <1>1, <1>2, <1>3 DEF Init, TypeOK

LEMMA OverwrittenType ==
  ASSUME TypeOK, NEW b \in Blocks, Overwritten(b)
  PROVE  /\ master' \in BOOLEAN /\ diskHdr' \in BOOLEAN /\ diskSound' \in BOOLEAN
         /\ diskBits' \in SUBSET Blocks
         /\ diskStatus' \in [Inodes -> Status] /\ diskPtr' \in Pointers
<1> USE DEF TypeOK
<1> DEFINE bits   == { c \in Stored : 1 + MapBlockOf[c] = b }
           inodes == { i \in Inodes : 1 + MapBlocks + InodeBlockOf[i] = b }
<1>1. /\ master' = (master /\ b # 0) /\ diskHdr' = (diskHdr /\ b # 1)
      /\ diskSound' = FALSE
  BY DEF Overwritten
<1>2. diskBits' \in SUBSET Blocks
  <2>1. PICK text \in SUBSET bits : diskBits' = (diskBits \ bits) \cup text
    BY DEF Overwritten
  <2>2. bits \in SUBSET Blocks
    BY DEF Stored
  <2> HIDE DEF bits
  <2> QED BY <2>1, <2>2
<1>3. diskStatus' \in [Inodes -> Status]
  <2>1. PICK text \in [inodes -> Status] :
          diskStatus' = [i \in Inodes |-> IF i \in inodes THEN text[i] ELSE diskStatus[i]]
    BY DEF Overwritten
  <2> HIDE DEF inodes
  <2> QED BY <2>1
<1>4. diskPtr' \in Pointers
  <2>1. PICK text \in [inodes -> [Slots -> Blocks]] :
          diskPtr' = [i \in Inodes |-> IF i \in inodes THEN text[i] ELSE diskPtr[i]]
    BY DEF Overwritten
  <2> HIDE DEF inodes
  <2> QED BY <2>1 DEF Pointers
<1> QED BY <1>1, <1>2, <1>3, <1>4

LEMMA WrittenToType ==
  ASSUME TypeOK, NEW b \in Blocks, WrittenTo(b)
  PROVE  /\ master' \in BOOLEAN /\ diskHdr' \in BOOLEAN /\ diskSound' \in BOOLEAN
         /\ diskBits' \in SUBSET Blocks
         /\ diskStatus' \in [Inodes -> Status] /\ diskPtr' \in Pointers
<1>1. CASE UNCHANGED <<disk, diskSound>> BY <1>1 DEF disk, TypeOK
<1>2. CASE Overwritten(b) BY <1>2, OverwrittenType
<1> QED BY <1>1, <1>2 DEF WrittenTo

LEMMA TypeStep == TypeOK /\ [Next]_vars => TypeOK'
<1> SUFFICES ASSUME TypeOK, [Next]_vars PROVE TypeOK'
  OBVIOUS
<1> USE ConstantFacts DEF TypeOK
<1>1. CASE Newfs BY <1>1 DEF Newfs, StartWrite, disk, mem
<1>2. CASE WriteMasterBlock BY <1>2 DEF WriteMasterBlock, mem
<1>3. CASE NewfsFails
  BY <1>3 DEF NewfsFails, EndWrite, disk, mem, ghosts
<1>4. CASE Unmount BY <1>4 DEF Unmount, StartWrite, disk, mem
<1>5. CASE WriteBlockMap BY <1>5 DEF WriteBlockMap, mem, ghosts
<1>6. CASE WriteBlockMapFails BY <1>6 DEF WriteBlockMapFails, disk, mem
<1>7. CASE WriteINodeMap
  <2>1. ImageStatus \in [Inodes -> Status] /\ ImagePtr \in Pointers
    BY DEF ImageStatus, ImagePtr
  <2>2. diskStatus' \in [Inodes -> Status] /\ diskPtr' \in Pointers
    BY <1>7, <2>1 DEF WriteINodeMap, Pointers
  <2> QED BY <1>7, <2>2 DEF WriteINodeMap, mem, ghosts
<1>8. CASE WriteINodeMapFails BY <1>8 DEF WriteINodeMapFails, disk, mem, ghosts
<1>9. CASE CloseBlockDevice
  BY <1>9 DEF CloseBlockDevice, EndWrite, DropMemory, disk, mem, Status
<1>10. CASE Mount BY <1>10 DEF Mount, bootstrapDevice, disk, write
<1>11. CASE AllocateBlock BY <1>11 DEF AllocateBlock, disk, write
<1>12. CASE AllocateINode
  BY <1>12 DEF AllocateINode, disk, write, ghosts, Status
<1>13. CASE Crash BY <1>13 DEF Crash, EndWrite, DropMemory, disk, Status
<1>14. ASSUME NEW b \in FreedBlocks, FreeBlock(b) PROVE TypeOK'
  BY <1>14 DEF FreeBlock, freeBlock, disk, write
<1>15. ASSUME NEW i \in Inodes, FreeINode(i) PROVE TypeOK'
  BY <1>15 DEF FreeINode, freeINode, disk, write, ghosts, Status
<1>16. ASSUME NEW i \in Inodes, NEW s \in Slots, INodeWriteBlock(i, s) PROVE TypeOK'
  <2> PICK b \in Blocks :
         /\ memBits' = memBits \cup {b}
         /\ memPtr' = [memPtr EXCEPT ![i] = [memPtr[i] EXCEPT ![s] = b]]
         /\ WrittenTo(b)
    BY <1>16 DEF INodeWriteBlock
  <2>1. memPtr' \in Pointers
    BY DEF Pointers
  <2> QED BY <1>16, <2>1, WrittenToType DEF INodeWriteBlock, write
<1>17. CASE UNCHANGED vars BY <1>17 DEF vars, disk, mem, write, ghosts
<1>18. ASSUME NEW i \in Inodes, NEW s \in Slots, INodeRewriteBlock(i, s) PROVE TypeOK'
  <2>1. memPtr[i][s] \in Blocks
    BY DEF Pointers
  <2> QED BY <1>18, <2>1, OverwrittenType DEF INodeRewriteBlock, mem, write
<1> QED
  BY <1>1, <1>2, <1>3, <1>4, <1>5, <1>6, <1>7, <1>8, <1>9, <1>10, <1>11, <1>12,
     <1>13, <1>14, <1>15, <1>16, <1>17, <1>18 DEF Next

\* Type correctness.
THEOREM TypeCorrect == Spec => []TypeOK
BY TypeInit, TypeStep, PTL DEF Spec

-----------------------------------------------------------------------------
(* Every step keeps the inductive invariant.                               *)

LEMMA InvInit == Init => Rest
<1> SUFFICES ASSUME Init PROVE Rest
  OBVIOUS
<1> USE ConstantFacts DEF Init
<1>1. Control BY DEF Control
<1>2. ReservedMarked BY DEF ReservedMarked
<1>3. PointersToData BY DEF PointersToData, SparesReserved
<1>4. MemGood /\ DiskGood /\ Agreement BY DEF MemGood, DiskGood, Agreement
<1>5. MapWritten /\ InodesWritten BY DEF MapWritten, InodesWritten
<1> QED BY <1>1, <1>2, <1>3, <1>4, <1>5 DEF Rest

LEMMA NewfsStep == IInv /\ Newfs => Rest'
<1> SUFFICES ASSUME IInv, Newfs PROVE Rest'
  OBVIOUS
<1> USE DEF IInv, Rest, TypeOK, Newfs, Idle, StartWrite
<1>1. Control' BY DEF Control, disk, mem
<1>2. ReservedMarked' BY DEF ReservedMarked, disk, mem
<1>3. PointersToData' BY DEF PointersToData, SparesReserved, disk, mem
<1>4. MemGood'
  BY DEF MemGood, Control, HeldApart, PointersMarked, OwnerUnique, mem
<1>5. DiskGood'
  BY DEF DiskGood, HeldApart, PointersMarked, OwnerUnique, disk
<1>6. Agreement' BY DEF Agreement, disk, mem
<1>7. MapWritten' /\ InodesWritten' BY DEF MapWritten, InodesWritten
<1> QED BY <1>1, <1>2, <1>3, <1>4, <1>5, <1>6, <1>7 DEF Rest

LEMMA WriteMasterBlockStep == IInv /\ WriteMasterBlock => Rest'
<1> SUFFICES ASSUME IInv, WriteMasterBlock PROVE Rest'
  OBVIOUS
<1> USE DEF IInv, Rest, TypeOK, WriteMasterBlock
<1>1. Control' BY SizeAssumption DEF Control, mem
<1>2. ReservedMarked' BY DEF ReservedMarked, mem
<1>3. PointersToData' BY DEF PointersToData, SparesReserved, mem
<1>4. MemGood' BY DEF MemGood, HeldApart, PointersMarked, OwnerUnique, mem
<1>5. DiskGood' /\ Agreement' BY DEF DiskGood, Agreement
<1>6. MapWritten'
  BY LayoutAssumption DEF MapWritten, Control
<1>7. InodesWritten' BY DEF InodesWritten
<1> QED BY <1>1, <1>2, <1>3, <1>4, <1>5, <1>6, <1>7 DEF Rest

LEMMA NewfsFailsStep == IInv /\ NewfsFails => Rest'
<1> SUFFICES ASSUME IInv, NewfsFails PROVE Rest'
  OBVIOUS
<1> USE DEF IInv, Rest, TypeOK, NewfsFails, EndWrite
<1>1. Control' BY DEF Control, disk, mem, ghosts
<1>2. ReservedMarked' BY DEF ReservedMarked, disk, mem, ghosts
<1>3. PointersToData' BY DEF PointersToData, SparesReserved, disk, mem, ghosts
<1>4. MemGood'
  BY DEF MemGood, HeldApart, PointersMarked, OwnerUnique, mem, ghosts
<1>5. DiskGood'
  BY DEF DiskGood, HeldApart, PointersMarked, OwnerUnique, disk, ghosts
<1>6. Agreement' BY DEF Agreement, disk, mem, ghosts
<1>7. MapWritten' /\ InodesWritten' BY DEF MapWritten, InodesWritten
<1> QED BY <1>1, <1>2, <1>3, <1>4, <1>5, <1>6, <1>7 DEF Rest

LEMMA UnmountStep == IInv /\ Unmount => Rest'
<1> SUFFICES ASSUME IInv, Unmount PROVE Rest'
  OBVIOUS
<1> USE DEF IInv, Rest, TypeOK, Unmount, Idle, StartWrite
<1>1. Control' BY SizeAssumption DEF Control, disk, mem
<1>2. ReservedMarked' BY DEF ReservedMarked, disk, mem
<1>3. PointersToData' BY DEF PointersToData, SparesReserved, disk, mem
<1>4. MemGood' BY DEF MemGood, HeldApart, PointersMarked, OwnerUnique, mem
<1>5. DiskGood'
  BY DEF DiskGood, HeldApart, PointersMarked, OwnerUnique, disk
<1>6. Agreement' BY DEF Agreement, disk, mem
<1>7. MapWritten' BY LayoutAssumption DEF MapWritten
<1>8. InodesWritten' BY DEF InodesWritten
<1> QED BY <1>1, <1>2, <1>3, <1>4, <1>5, <1>6, <1>7, <1>8 DEF Rest

LEMMA WriteBlockMapStep == IInv /\ WriteBlockMap => Rest'
<1> SUFFICES ASSUME IInv, WriteBlockMap PROVE Rest'
  OBVIOUS
<1> USE DEF IInv, Rest, TypeOK
<1>0. /\ phase = "map" /\ ImageHdr
      /\ diskHdr' = (diskHdr \/ next = 0)
      /\ next \in 0 .. MapBlocks - 1 /\ ok
      /\ caller \in {"newfs", "unmount"}
      /\ UNCHANGED <<master, diskStatus, diskPtr, mounted, memHdr, memBits,
                     memStatus, memPtr, caller, ok, held, diskSound, memSound,
                     tampered>>
  BY DEF WriteBlockMap, Control, mem, ghosts
<1>1. \/ next + 1 < MapBlocks /\ phase' = "map" /\ next' = next + 1
      \/ next + 1 = MapBlocks /\ phase' = "inodes" /\ next' = 0
  BY <1>0, SizeAssumption DEF WriteBlockMap
<1>2. \A b \in Blocks : b \in diskBits' <=>
         (IF MapBlockOf[b] = next THEN b \in ImageBits ELSE b \in diskBits)
  BY DEF WriteBlockMap
<1>3. diskBits' \in SUBSET Blocks
  BY DEF WriteBlockMap
<1>4. ImageBits' = ImageBits /\ ImageBits \in SUBSET Blocks
  BY <1>0, ConstantFacts DEF ImageBits
<1>5. diskSound \/ ~tampered => Reserved \subseteq ImageBits
  BY <1>0 DEF ImageHdr, ImageBits, ReservedMarked, Control
<1>6. Control'
  BY <1>0, <1>1, SizeAssumption DEF Control
<1>7. ReservedMarked'
  <2>1. ASSUME NEW b \in Reserved, diskSound \/ ~tampered PROVE b \in diskBits'
    <3>1. b \in Blocks /\ MapBlockOf[b] = 0 /\ b \in ImageBits
      BY <1>5, <2>1, ConstantFacts, LayoutAssumption
    <3>2. CASE next = 0
      BY <1>2, <3>1, <3>2
    <3>3. CASE next # 0
      BY <1>0, <1>2, <2>1, <3>1, <3>3 DEF ReservedMarked, MapWritten
    <3> QED BY <3>2, <3>3
  <2> QED BY <2>1, <1>0 DEF ReservedMarked
<1>8. PointersToData' BY <1>0 DEF PointersToData, SparesReserved
<1>9. MemGood'
  BY <1>0 DEF MemGood, HeldApart, PointersMarked, OwnerUnique
<1>10. DiskGood'
  <2> SUFFICES ASSUME diskSound' PROVE
         /\ PointersMarked(diskBits, diskPtr)' /\ OwnerUnique(diskPtr)'
         /\ ~mounted' => HeldApart(diskBits, diskPtr)'
    BY DEF DiskGood
  <2>1. caller = "unmount" /\ mounted /\ memSound /\ diskSound
    BY <1>0 DEF Control
  <2>2. ImageBits = memBits
    BY <2>1 DEF ImageBits
  <2>3. ASSUME NEW i \in Inodes, NEW s \in Slots, diskPtr[i][s] # NoBlock
        PROVE  diskPtr[i][s] \in diskBits'
    <3>1. diskPtr[i][s] \in Blocks BY DEF Pointers
    <3>2. diskPtr[i][s] \in diskBits
      BY <2>1, <2>3 DEF DiskGood, PointersMarked
    <3>3. diskPtr[i][s] \in memBits
      BY <2>1, <2>3 DEF Agreement, MemGood, PointersMarked
    <3> QED BY <1>2, <2>2, <3>1, <3>2, <3>3
  <2>4. PointersMarked(diskBits, diskPtr)'
    BY <1>0, <2>3 DEF PointersMarked
  <2>5. OwnerUnique(diskPtr)'
    BY <1>0, <2>1 DEF DiskGood, OwnerUnique
  <2> QED BY <1>0, <2>1, <2>4, <2>5
<1>11. Agreement' BY <1>0 DEF Agreement
<1>12. MapWritten'
  <2>1. \A b \in Blocks : MapBlockOf[b] < next + 1 =>
            (b \in diskBits' <=> b \in ImageBits)
    <3> SUFFICES ASSUME NEW b \in Blocks, MapBlockOf[b] < next + 1
                 PROVE  b \in diskBits' <=> b \in ImageBits
      OBVIOUS
    <3>1. MapBlockOf[b] \in Nat
      BY LayoutAssumption
    <3>2. MapBlockOf[b] = next \/ MapBlockOf[b] < next
      BY <3>1
    <3> QED BY <1>0, <1>2, <3>2 DEF MapWritten
  <2>2. diskHdr'
    <3>1. next = 0 \/ next > 0
      BY <1>0
    <3>2. next > 0 => diskHdr
      BY <1>0 DEF MapWritten
    <3> QED BY <1>0, <3>1, <3>2
  <2>3. CASE phase' = "map"
    BY <1>1, <1>4, <2>1, <2>2, <2>3 DEF MapWritten
  <2>4. CASE phase' = "inodes"
    <3>1. \A b \in Blocks : b \in diskBits' <=> b \in ImageBits
      BY <1>1, <2>1, <2>4, SizeAssumption, MapFits DEF Stored
    <3>2. diskBits' = ImageBits
      BY <1>3, <1>4, <3>1
    <3> QED BY <1>4, <2>2, <2>4, <3>2 DEF MapWritten
  <2> QED BY <1>1, <2>3, <2>4
<1>13. InodesWritten'
  BY <1>0, <1>1, LayoutAssumption DEF InodesWritten
<1> QED BY <1>6, <1>7, <1>8, <1>9, <1>10, <1>11, <1>12, <1>13 DEF Rest

LEMMA WriteBlockMapFailsStep == IInv /\ WriteBlockMapFails => Rest'
<1> SUFFICES ASSUME IInv, WriteBlockMapFails PROVE Rest'
  OBVIOUS
<1> USE DEF IInv, Rest, TypeOK, WriteBlockMapFails
<1>1. Control' BY SizeAssumption DEF Control, disk, mem
<1>2. ReservedMarked' BY DEF ReservedMarked, disk, mem
<1>3. PointersToData' BY DEF PointersToData, SparesReserved, disk, mem
<1>4. MemGood' BY DEF MemGood, HeldApart, PointersMarked, OwnerUnique, mem
<1>5. DiskGood' /\ Agreement' BY DEF DiskGood, Agreement
<1>6. MapWritten' BY DEF MapWritten
<1>7. InodesWritten' BY LayoutAssumption DEF InodesWritten
<1> QED BY <1>1, <1>2, <1>3, <1>4, <1>5, <1>6, <1>7 DEF Rest

LEMMA WriteINodeMapStep == IInv /\ WriteINodeMap => Rest'
<1> SUFFICES ASSUME IInv, WriteINodeMap PROVE Rest'
  OBVIOUS
<1> USE DEF IInv, Rest, TypeOK
<1>0. /\ phase = "inodes"
      /\ next \in 0 .. InodeBlocks - 1
      /\ caller \in {"newfs", "unmount"}
      /\ UNCHANGED <<master, diskHdr, diskBits, mounted, memHdr, memBits,
                     memStatus, memPtr, caller, ok, held, diskSound, memSound,
                     tampered>>
  BY DEF WriteINodeMap, Control, mem, ghosts
<1>1. \/ next + 1 < InodeBlocks /\ phase' = "inodes" /\ next' = next + 1
      \/ next + 1 = InodeBlocks /\ phase' = "close" /\ next' = 0
  BY <1>0, SizeAssumption DEF WriteINodeMap
<1>2. \A i \in Inodes :
        /\ diskStatus'[i] = IF InodeBlockOf[i] = next THEN ImageStatus[i] ELSE diskStatus[i]
        /\ diskPtr'[i] = IF InodeBlockOf[i] = next THEN ImagePtr[i] ELSE diskPtr[i]
  BY DEF WriteINodeMap
<1>3. /\ ImageBits' = ImageBits /\ ImageStatus' = ImageStatus /\ ImagePtr' = ImagePtr
      /\ ImageStatus \in [Inodes -> Status] /\ ImagePtr \in Pointers
  BY <1>0, ConstantFacts DEF ImageBits, ImageStatus, ImagePtr
<1>4. Control'
  BY <1>0, <1>1, SizeAssumption DEF Control
<1>5. ReservedMarked' BY <1>0 DEF ReservedMarked
<1>6. PointersToData'
  <2> SUFFICES ASSUME diskSound \/ ~tampered, NEW i \in Inodes, NEW s \in Slots
               PROVE  diskPtr'[i][s] \in Reserved => diskPtr'[i][s] = NoBlock
    BY <1>0 DEF PointersToData, SparesReserved
  <2>1. ImagePtr[i][s] \in Reserved => ImagePtr[i][s] = NoBlock
    BY <1>0, ConstantFacts DEF ImagePtr, PointersToData, SparesReserved, Control
  <2> QED BY <1>2, <2>1 DEF PointersToData, SparesReserved
<1>7. MemGood'
  BY <1>0 DEF MemGood, HeldApart, PointersMarked, OwnerUnique
<1>8. Agreement'
  <2> SUFFICES ASSUME diskSound, memSound, NEW i \in Inodes, NEW s \in Slots,
                      diskPtr'[i][s] # NoBlock
               PROVE  memPtr[i][s] = diskPtr'[i][s]
    BY <1>0 DEF Agreement
  <2>1. ImagePtr = memPtr
    BY <1>0 DEF Control, ImagePtr
  <2> QED BY <1>2, <2>1 DEF Agreement
<1>9. DiskGood'
  <2> SUFFICES ASSUME diskSound PROVE
         PointersMarked(diskBits, diskPtr)' /\ OwnerUnique(diskPtr)'
    BY <1>0 DEF DiskGood, Control
  <2>1. memSound /\ caller = "unmount"
    BY <1>0 DEF Control
  <2>2. diskBits = memBits
    BY <1>0, <2>1 DEF MapWritten, ImageBits
  <2>3. \A i \in Inodes, s \in Slots :
           diskPtr'[i][s] # NoBlock => memPtr[i][s] = diskPtr'[i][s]
    BY <1>0, <1>8, <2>1 DEF Agreement
  <2>4. PointersMarked(memBits, memPtr) /\ OwnerUnique(memPtr)
    BY <2>1 DEF MemGood
  <2>5. PointersMarked(diskBits, diskPtr)'
    BY <1>0, <2>2, <2>3, <2>4 DEF PointersMarked
  <2>6. OwnerUnique(diskPtr)'
    BY <2>3, <2>4 DEF OwnerUnique
  <2> QED BY <2>5, <2>6
<1>10. MapWritten'
  BY <1>0, <1>1, <1>3 DEF MapWritten
<1>11. InodesWritten'
  <2>1. \A i \in Inodes : InodeBlockOf[i] < next + 1 =>
            diskStatus'[i] = ImageStatus[i] /\ diskPtr'[i] = ImagePtr[i]
    <3> SUFFICES ASSUME NEW i \in Inodes, InodeBlockOf[i] < next + 1
                 PROVE  diskStatus'[i] = ImageStatus[i] /\ diskPtr'[i] = ImagePtr[i]
      OBVIOUS
    <3>1. InodeBlockOf[i] \in Nat
      BY LayoutAssumption
    <3>2. InodeBlockOf[i] = next \/ InodeBlockOf[i] < next
      BY <1>0, <3>1
    <3> QED BY <1>0, <1>2, <3>2 DEF InodesWritten
  <2>2. CASE phase' = "inodes"
    BY <1>1, <1>3, <2>1, <2>2 DEF InodesWritten
  <2>3. CASE phase' = "close"
    <3>1. \A i \in Inodes : diskStatus'[i] = ImageStatus[i] /\ diskPtr'[i] = ImagePtr[i]
      BY <1>0, <1>1, <2>1, <2>3, LayoutAssumption, SizeAssumption
    <3>2. /\ diskStatus' = [i \in Inodes |-> diskStatus'[i]]
          /\ diskPtr' = [i \in Inodes |-> diskPtr'[i]]
      BY DEF WriteINodeMap
    <3>3. diskStatus' = ImageStatus /\ diskPtr' = ImagePtr
      BY <1>3, <3>1, <3>2 DEF Pointers
    <3> QED BY <1>3, <2>3, <3>3 DEF InodesWritten
  <2> QED BY <1>1, <2>2, <2>3
<1> QED BY <1>4, <1>5, <1>6, <1>7, <1>8, <1>9, <1>10, <1>11 DEF Rest

LEMMA WriteINodeMapFailsStep == IInv /\ WriteINodeMapFails => Rest'
<1> SUFFICES ASSUME IInv, WriteINodeMapFails PROVE Rest'
  OBVIOUS
<1> USE DEF IInv, Rest, TypeOK, WriteINodeMapFails
<1>1. Control' BY DEF Control, disk, mem, ghosts
<1>2. ReservedMarked' BY DEF ReservedMarked, disk, mem, ghosts
<1>3. PointersToData' BY DEF PointersToData, SparesReserved, disk, mem, ghosts
<1>4. MemGood'
  BY DEF MemGood, HeldApart, PointersMarked, OwnerUnique, mem, ghosts
<1>5. DiskGood'
  BY DEF DiskGood, HeldApart, PointersMarked, OwnerUnique, disk, ghosts
<1>6. Agreement' BY DEF Agreement, disk, mem, ghosts
<1>7. MapWritten' BY DEF MapWritten, ImageBits, disk, mem, ghosts
<1>8. InodesWritten' BY DEF InodesWritten
<1> QED BY <1>1, <1>2, <1>3, <1>4, <1>5, <1>6, <1>7, <1>8 DEF Rest

LEMMA CloseBlockDeviceStep == IInv /\ CloseBlockDevice => Rest'
<1> SUFFICES ASSUME IInv, CloseBlockDevice PROVE Rest'
  OBVIOUS
<1> USE DEF IInv, Rest, TypeOK
<1>0. /\ phase = "close" /\ phase' = "idle" /\ caller' = "none" /\ next' = 0 /\ ok'
      /\ UNCHANGED <<master, diskHdr, diskBits, diskStatus, diskPtr, held, tampered>>
  BY DEF CloseBlockDevice, EndWrite, disk
<1>1. CASE caller = "newfs"
  <2>0. /\ diskSound' /\ ok /\ (~mounted => held = {})
        /\ UNCHANGED <<mounted, memHdr, memBits, memStatus, memPtr, memSound>>
    BY <1>1 DEF CloseBlockDevice, Control, mem
  <2>1. \A i \in Inodes, s \in Slots : diskPtr[i][s] = NoBlock
    BY <1>0, <1>1, <2>0, ConstantFacts DEF InodesWritten, ImagePtr
  <2>2. Control' BY <1>0, <2>0 DEF Control
  <2>3. ReservedMarked'
    BY <1>0, <1>1, <2>0 DEF ReservedMarked, MapWritten, ImageBits
  <2>4. PointersToData' BY <1>0, <2>0, <2>1 DEF PointersToData, SparesReserved
  <2>5. MemGood'
    BY <1>0, <2>0 DEF MemGood, HeldApart, PointersMarked, OwnerUnique
  <2>6. DiskGood'
    BY <1>0, <2>0, <2>1 DEF DiskGood, HeldApart, PointersMarked, OwnerUnique
  <2>7. Agreement' BY <1>0, <2>1 DEF Agreement
  <2>8. MapWritten' /\ InodesWritten' BY <1>0 DEF MapWritten, InodesWritten
  <2> QED BY <2>2, <2>3, <2>4, <2>5, <2>6, <2>7, <2>8 DEF Rest
<1>2. CASE caller = "unmount"
  <2>0. /\ diskSound' = (diskSound \/ (ok /\ memSound))
        /\ ~mounted' /\ ~memHdr' /\ ~memSound'
        /\ memPtr' = FreshPtr
    BY <1>2 DEF CloseBlockDevice, DropMemory
  <2>1. Control' BY <1>0, <2>0 DEF Control
  <2>2. ReservedMarked'
    BY <1>0, <1>2, <2>0 DEF ReservedMarked, MapWritten, ImageBits, Control
  <2>3. PointersToData'
    <3>1. diskSound' \/ ~tampered => SparesReserved(diskPtr)
      BY <1>0, <1>2, <2>0
      DEF PointersToData, InodesWritten, ImagePtr, Control
    <3> QED BY <1>0, <2>0, <3>1, ConstantFacts DEF PointersToData, SparesReserved
  <2>4. MemGood' /\ Agreement' BY <2>0 DEF MemGood, Agreement
  <2>5. DiskGood'
    <3> SUFFICES ASSUME diskSound \/ (ok /\ memSound) PROVE
          /\ PointersMarked(diskBits, diskPtr) /\ OwnerUnique(diskPtr)
          /\ HeldApart(diskBits, diskPtr)
      BY <1>0, <2>0 DEF DiskGood, PointersMarked, OwnerUnique, HeldApart
    <3>1. memSound
      BY <1>2 DEF Control
    <3>2. diskBits = memBits
      BY <1>0, <1>2 DEF MapWritten, ImageBits
    <3>3. \A i \in Inodes, s \in Slots :
             diskPtr[i][s] # NoBlock => memPtr[i][s] = diskPtr[i][s]
      BY <1>0, <1>2, <3>1 DEF Agreement, InodesWritten, ImagePtr
    <3>4. NoBlock \notin held
      BY <3>1, ConstantFacts DEF ReservedMarked
    <3>5. /\ PointersMarked(memBits, memPtr) /\ OwnerUnique(memPtr)
          /\ HeldApart(memBits, memPtr)
      BY <3>1 DEF MemGood
    <3>6. PointersMarked(diskBits, diskPtr)
      BY <3>2, <3>3, <3>5 DEF PointersMarked
    <3>7. OwnerUnique(diskPtr)
      BY <3>3, <3>5 DEF OwnerUnique
    <3>8. HeldApart(diskBits, diskPtr)
      BY <3>2, <3>3, <3>4, <3>5 DEF HeldApart
    <3> QED BY <3>6, <3>7, <3>8
  <2>6. MapWritten' /\ InodesWritten' BY <1>0 DEF MapWritten, InodesWritten
  <2> QED BY <2>1, <2>2, <2>3, <2>4, <2>5, <2>6 DEF Rest
<1> QED BY <1>1, <1>2 DEF CloseBlockDevice

LEMMA MountStep == IInv /\ Mount => Rest'
<1> SUFFICES ASSUME IInv, Mount PROVE Rest'
  OBVIOUS
<1> USE DEF IInv, Rest, TypeOK, Mount, bootstrapDevice, Idle
<1>1. Control' BY DEF Control, disk, write
<1>2. ReservedMarked' BY DEF ReservedMarked, disk
<1>3. PointersToData' BY DEF PointersToData, SparesReserved, disk
<1>4. MemGood'
  BY DEF MemGood, DiskGood, HeldApart, PointersMarked, OwnerUnique
<1>5. DiskGood'
  BY DEF DiskGood, HeldApart, PointersMarked, OwnerUnique, disk
<1>6. Agreement' BY DEF Agreement, disk
<1>7. MapWritten' /\ InodesWritten' BY DEF MapWritten, InodesWritten, write
<1> QED BY <1>1, <1>2, <1>3, <1>4, <1>5, <1>6, <1>7 DEF Rest

\* A step that changes the memory of a mounted file system, and nothing else,
\* keeps all that is said of the device and of a write in progress.
LEMMA MemoryOnly ==
  ASSUME IInv, Idle, mounted,
         UNCHANGED <<disk, mounted, memHdr, write, diskSound>>,
         memSound' => memSound, tampered => tampered'
  PROVE  Control' /\ DiskGood' /\ MapWritten' /\ InodesWritten'
<1> USE DEF IInv, Rest, TypeOK, Idle
<1>1. Control' BY DEF Control, disk, write
<1>2. DiskGood' BY DEF DiskGood, PointersMarked, OwnerUnique, disk
<1>3. MapWritten' /\ InodesWritten' BY DEF MapWritten, InodesWritten, write
<1> QED BY <1>1, <1>2, <1>3

LEMMA AllocateBlockStep == IInv /\ AllocateBlock => Rest'
<1> SUFFICES ASSUME IInv, AllocateBlock PROVE Rest'
  OBVIOUS
<1> USE DEF IInv, Rest, TypeOK
<1>0. /\ Idle /\ mounted
      /\ UNCHANGED <<disk, mounted, memHdr, memStatus, memPtr, write,
                     diskSound, memSound, tampered>>
  BY DEF AllocateBlock
<1> PICK b \in Blocks : Lowest(b) /\ memBits' = memBits \cup {b} /\ held' = held \cup {b}
  BY DEF AllocateBlock
<1>1. memHdr /\ b \notin memBits
  BY DEF Lowest, Unmarked
<1>2. memSound \/ ~tampered => b \notin Reserved
  BY <1>1 DEF ReservedMarked
<1>3. Control' /\ DiskGood' /\ MapWritten' /\ InodesWritten'
  BY <1>0, MemoryOnly
<1>4. ReservedMarked' BY <1>0, <1>2 DEF ReservedMarked, disk
<1>5. PointersToData' BY <1>0 DEF PointersToData, SparesReserved, disk
<1>6. MemGood'
  <2> SUFFICES ASSUME memSound PROVE
         /\ PointersMarked(memBits, memPtr)' /\ OwnerUnique(memPtr)'
         /\ HeldApart(memBits, memPtr)'
    BY <1>0 DEF MemGood
  <2>1. \A i \in Inodes, s \in Slots : memPtr[i][s] # b
    BY <1>1, <1>2, ConstantFacts DEF MemGood, PointersMarked
  <2> QED BY <1>0, <2>1 DEF MemGood, PointersMarked, OwnerUnique, HeldApart
<1>7. Agreement' BY <1>0 DEF Agreement, disk
<1> QED BY <1>3, <1>4, <1>5, <1>6, <1>7 DEF Rest

LEMMA FreeBlockStep ==
  ASSUME IInv, NEW b \in FreedBlocks, FreeBlock(b) PROVE Rest'
<1> USE DEF IInv, Rest, TypeOK
<1>0. /\ Idle /\ mounted
      /\ memBits' = memBits \ {b} /\ held' = held \ {b}
      /\ memSound' = (memSound /\ b \in held)
      /\ tampered' = (tampered \/ b \in Reserved)
      /\ UNCHANGED <<disk, mounted, memHdr, memStatus, memPtr, write, diskSound>>
  BY DEF FreeBlock, freeBlock
<1>1. Control' /\ DiskGood' /\ MapWritten' /\ InodesWritten'
  BY <1>0, MemoryOnly
<1>2. ReservedMarked' BY <1>0 DEF ReservedMarked, disk
<1>3. PointersToData' BY <1>0 DEF PointersToData, SparesReserved, disk
<1>4. MemGood'
  <2> SUFFICES ASSUME memSound, b \in held PROVE
         /\ PointersMarked(memBits, memPtr)' /\ OwnerUnique(memPtr)'
         /\ HeldApart(memBits, memPtr)'
    BY <1>0 DEF MemGood
  <2>1. /\ PointersMarked(memBits, memPtr) /\ OwnerUnique(memPtr)
        /\ HeldApart(memBits, memPtr)
    BY DEF MemGood
  <2> QED BY <1>0, <2>1 DEF PointersMarked, OwnerUnique, HeldApart
<1>5. Agreement' BY <1>0 DEF Agreement, disk
<1> QED BY <1>1, <1>2, <1>3, <1>4, <1>5 DEF Rest

\* Commands that change only the status of an inode.
LEMMA StatusOnly ==
  ASSUME IInv, Idle, mounted,
         UNCHANGED <<disk, mounted, memHdr, memBits, memPtr, write, ghosts>>
  PROVE  Rest'
<1> USE DEF IInv, Rest, TypeOK, ghosts
<1>1. Control' /\ DiskGood' /\ MapWritten' /\ InodesWritten'
  BY MemoryOnly
<1>2. ReservedMarked' BY DEF ReservedMarked, disk
<1>3. PointersToData' BY DEF PointersToData, SparesReserved, disk
<1>4. MemGood' BY DEF MemGood, PointersMarked, OwnerUnique, HeldApart
<1>5. Agreement' BY DEF Agreement, disk
<1> QED BY <1>1, <1>2, <1>3, <1>4, <1>5 DEF Rest

\* Text over a reserved block: nothing is said of such a device and session.
LEMMA Overwriting ==
  ASSUME IInv, Idle, mounted, tampered, ~memSound, ~diskSound',
         UNCHANGED <<mounted, memHdr, write, held, memSound, tampered>>
  PROVE  Rest'
<1> USE DEF IInv, Rest, TypeOK, Idle, write
<1>1. Control' BY DEF Control
<1>2. ReservedMarked' /\ PointersToData' BY DEF ReservedMarked, PointersToData
<1>3. MemGood' /\ DiskGood' /\ Agreement' BY DEF MemGood, DiskGood, Agreement
<1>4. MapWritten' /\ InodesWritten' BY DEF MapWritten, InodesWritten
<1> QED BY <1>1, <1>2, <1>3, <1>4

LEMMA INodeRewriteBlockStep ==
  ASSUME IInv, NEW i \in Inodes, NEW s \in Slots, INodeRewriteBlock(i, s)
  PROVE  Rest'
<1>1. ~memSound /\ tampered
  BY DEF INodeRewriteBlock, Absent, IInv, Rest, PointersToData, SparesReserved, TypeOK
<1>2. ~diskSound'
  BY DEF INodeRewriteBlock, Overwritten
<1> QED BY <1>1, <1>2, Overwriting DEF INodeRewriteBlock, mem

LEMMA INodeWriteBlockStep ==
  ASSUME IInv, NEW i \in Inodes, NEW s \in Slots, INodeWriteBlock(i, s)
  PROVE  Rest'
<1> USE DEF IInv, Rest, TypeOK
<1> PICK b \in Blocks :
       /\ Lowest(b)
       /\ memBits' = memBits \cup {b}
       /\ memPtr' = [memPtr EXCEPT ![i] = [memPtr[i] EXCEPT ![s] = b]]
       /\ WrittenTo(b)
  BY DEF INodeWriteBlock
<1>a. /\ Idle /\ mounted /\ memPtr[i][s] = NoBlock
      /\ UNCHANGED <<mounted, memHdr, memStatus, write, held, memSound, tampered>>
  BY DEF INodeWriteBlock, Absent
<1>1. memHdr /\ b \notin memBits
  BY DEF Lowest, Unmarked
<1>2. memSound \/ ~tampered => b \notin Reserved
  BY <1>1 DEF ReservedMarked
<1>b. CASE b \in Reserved /\ Overwritten(b)
  <2>1. ~memSound /\ tampered
    BY <1>2, <1>b
  <2>2. ~diskSound'
    BY <1>b DEF Overwritten
  <2> QED BY <1>a, <2>1, <2>2, Overwriting
<1> SUFFICES ASSUME UNCHANGED <<disk, diskSound>> PROVE Rest'
  BY <1>b DEF WrittenTo
<1>0. /\ Idle /\ mounted /\ memPtr[i][s] = NoBlock
      /\ UNCHANGED <<disk, mounted, memHdr, memStatus, write, held,
                     diskSound, memSound, tampered>>
  BY <1>a
<1>3. \A j \in Inodes, t \in Slots :
         memPtr'[j][t] = IF j = i /\ t = s THEN b ELSE memPtr[j][t]
  BY DEF Pointers
<1>4. Control' /\ DiskGood' /\ MapWritten' /\ InodesWritten'
  BY <1>0, MemoryOnly
<1>5. ReservedMarked' BY <1>0 DEF ReservedMarked, disk
<1>6. PointersToData' BY <1>0, <1>2, <1>3 DEF PointersToData, SparesReserved, disk
<1>7. MemGood'
  <2> SUFFICES ASSUME memSound PROVE
         /\ PointersMarked(memBits, memPtr)' /\ OwnerUnique(memPtr)'
         /\ HeldApart(memBits, memPtr)'
    BY <1>0 DEF MemGood
  <2>1. /\ PointersMarked(memBits, memPtr) /\ OwnerUnique(memPtr)
        /\ HeldApart(memBits, memPtr)
    BY DEF MemGood
  <2>2. \A j \in Inodes, t \in Slots : memPtr[j][t] # b
    BY <1>1, <1>2, <2>1, ConstantFacts DEF PointersMarked
  <2>3. PointersMarked(memBits, memPtr)'
    BY <1>3, <2>1 DEF PointersMarked
  <2>4. OwnerUnique(memPtr)'
    BY <1>3, <2>1, <2>2 DEF OwnerUnique
  <2>5. HeldApart(memBits, memPtr)'
    BY <1>0, <1>1, <1>3, <2>1 DEF HeldApart
  <2> QED BY <2>3, <2>4, <2>5
<1>8. Agreement' BY <1>0, <1>3 DEF Agreement, disk
<1> QED BY <1>4, <1>5, <1>6, <1>7, <1>8 DEF Rest

LEMMA CrashStep == IInv /\ Crash => Rest'
<1> SUFFICES ASSUME IInv, Crash PROVE Rest'
  OBVIOUS
<1> USE DEF IInv, Rest, TypeOK, Crash, EndWrite, DropMemory
<1>1. Control' BY DEF Control
<1>2. ReservedMarked' BY DEF ReservedMarked, disk
<1>3. PointersToData' BY ConstantFacts DEF PointersToData, SparesReserved, disk
<1>4. MemGood' /\ Agreement' BY DEF MemGood, Agreement
<1>5. DiskGood'
  BY DEF DiskGood, HeldApart, PointersMarked, OwnerUnique, disk
<1>6. MapWritten' /\ InodesWritten' BY DEF MapWritten, InodesWritten
<1> QED BY <1>1, <1>2, <1>3, <1>4, <1>5, <1>6 DEF Rest

LEMMA StutterStep == IInv /\ UNCHANGED vars => Rest'
<1> SUFFICES ASSUME IInv, UNCHANGED vars PROVE Rest'
  OBVIOUS
<1> USE DEF IInv, Rest, vars, disk, mem, write, ghosts
<1>1. Control' /\ ReservedMarked' /\ PointersToData'
  BY DEF Control, ReservedMarked, PointersToData
<1>2. MemGood' /\ DiskGood' /\ Agreement'
  BY DEF MemGood, DiskGood, Agreement, HeldApart, PointersMarked, OwnerUnique
<1>3. MapWritten'
  BY DEF MapWritten, ImageBits
<1>4. InodesWritten'
  BY DEF InodesWritten, ImageStatus, ImagePtr
<1> QED BY <1>1, <1>2, <1>3, <1>4 DEF Rest

LEMMA InvStep == IInv /\ [Next]_vars => IInv'
<1> SUFFICES ASSUME IInv, [Next]_vars PROVE IInv'
  OBVIOUS
<1>1. TypeOK' BY TypeStep DEF IInv
<1> SUFFICES Rest'
  BY <1>1 DEF IInv
<1>2. ASSUME NEW i \in Inodes, FreeINode(i) PROVE Rest'
  BY <1>2, StatusOnly DEF FreeINode, freeINode
<1>3. CASE AllocateINode
  BY <1>3, StatusOnly DEF AllocateINode
<1>4. ASSUME NEW b \in FreedBlocks, FreeBlock(b) PROVE Rest'
  BY <1>4, FreeBlockStep
<1>5. ASSUME NEW i \in Inodes, NEW s \in Slots, INodeWriteBlock(i, s) PROVE Rest'
  BY <1>5, INodeWriteBlockStep
<1>6. CASE Newfs BY <1>6, NewfsStep
<1>7. CASE WriteMasterBlock BY <1>7, WriteMasterBlockStep
<1>8. CASE NewfsFails BY <1>8, NewfsFailsStep
<1>9. CASE Unmount BY <1>9, UnmountStep
<1>10. CASE WriteBlockMap BY <1>10, WriteBlockMapStep
<1>11. CASE WriteBlockMapFails BY <1>11, WriteBlockMapFailsStep
<1>12. CASE WriteINodeMap BY <1>12, WriteINodeMapStep
<1>13. CASE WriteINodeMapFails BY <1>13, WriteINodeMapFailsStep
<1>14. CASE CloseBlockDevice BY <1>14, CloseBlockDeviceStep
<1>15. CASE Mount BY <1>15, MountStep
<1>16. CASE AllocateBlock BY <1>16, AllocateBlockStep
<1>17. CASE Crash BY <1>17, CrashStep
<1>18. CASE UNCHANGED vars BY <1>18, StutterStep
<1>19. ASSUME NEW i \in Inodes, NEW s \in Slots, INodeRewriteBlock(i, s) PROVE Rest'
  BY <1>19, INodeRewriteBlockStep
<1> QED
  BY <1>2, <1>3, <1>4, <1>5, <1>6, <1>7, <1>8, <1>9, <1>10, <1>11, <1>12,
     <1>13, <1>14, <1>15, <1>16, <1>17, <1>18, <1>19 DEF Next

LEMMA Invariant == Spec => []IInv
<1>1. Init => IInv BY TypeInit, InvInit DEF IInv
<1> QED BY <1>1, InvStep, PTL DEF Spec

-----------------------------------------------------------------------------
(* The theorems.                                                           *)

LEMMA ReservedPointers ==
  IInv => PointersReserved /\ NoSharedBlock /\ MetadataUntouched /\ HeldBlocksKept
<1> SUFFICES ASSUME IInv
             PROVE  PointersReserved /\ NoSharedBlock /\ MetadataUntouched /\ HeldBlocksKept
  OBVIOUS
<1> USE DEF IInv, Rest
<1>1. PointersReserved BY DEF PointersReserved, MemGood, DiskGood
<1>2. NoSharedBlock BY DEF NoSharedBlock, MemGood, DiskGood
<1>3. MetadataUntouched
  BY DEF MetadataUntouched, Spares, Control, ReservedMarked, PointersToData,
         SparesReserved
<1>4. HeldBlocksKept BY DEF HeldBlocksKept, MemGood, HeldApart
<1> QED BY <1>1, <1>2, <1>3, <1>4

(* On a sound device, and in memory mounted from one, every block pointer  *)
(* is marked in the block map: unmount's order of writes is safe against a *)
(* crash after any of them, however many blocks the maps have              *)
(* (filesystem.c:141-146).                                                 *)
THEOREM CrashNeverFreesABlockInUse == Spec => []PointersReserved
BY Invariant, ReservedPointers, PTL

(* No two places of inodes share a block, also in the mixture of old and   *)
(* new inodes an interrupted unmount leaves (inode.c:121-126, 172-194).    *)
THEOREM BlocksAreNotShared == Spec => []NoSharedBlock
BY Invariant, ReservedPointers, PTL

(* The blocks that newfs reserves stay marked and are never handed out, as *)
(* long as no user gives one of them to freeBlock, and again once a newfs  *)
(* has completed: then a session on that device is safe until the user     *)
(* frees a block which is not his (filesystem.c:33-54,                     *)
(* dylan_bit_set.c:37-53).                                                 *)
THEOREM MetadataIsSafe == Spec => []MetadataUntouched
BY Invariant, ReservedPointers, PTL

(* A block given to the user is not taken from him (my_shell.c:181-203).   *)
THEOREM HeldBlocksAreKept == Spec => []HeldBlocksKept
BY Invariant, ReservedPointers, PTL

(* "unmount successful", and a newfs that returns 0, are true: the device  *)
(* has the whole volume, but for a master block that a user freed and      *)
(* wrote over (filesystem.c:64-79, 141-154).                               *)
THEOREM SuccessIsTrue == Spec => []SuccessMeansSaved
<1>1. IInv => SuccessMeansSaved
  BY DEF IInv, Rest, TypeOK, Control, MapWritten, InodesWritten, SuccessMeansSaved
<1> QED BY <1>1, Invariant, PTL

(* A block pointer of a sound device stays what it is as long as the       *)
(* device stays sound (inode.c:177-178, filesystem.c:144).                 *)
THEOREM PointersArePermanent == Spec => PointerPermanent
<1> DEFINE Kept == \A i \in Inodes, s \in Slots :
                     diskSound /\ diskSound' /\ diskPtr[i][s] # NoBlock
                       => diskPtr'[i][s] = diskPtr[i][s]
<1>1. IInv /\ [Next]_vars => [Kept]_vars
  <2> SUFFICES ASSUME IInv, [Next]_vars, diskSound, diskSound',
                      NEW i \in Inodes, NEW s \in Slots, diskPtr[i][s] # NoBlock
               PROVE  diskPtr'[i][s] = diskPtr[i][s]
    OBVIOUS
  <2>1. CASE WriteINodeMap
    <3>1. caller = "unmount" /\ memSound
      BY <2>1 DEF WriteINodeMap, IInv, Rest, Control, TypeOK
    <3>2. memPtr[i][s] = diskPtr[i][s]
      BY <3>1 DEF IInv, Rest, Agreement
    <3> QED BY <2>1, <3>1, <3>2 DEF WriteINodeMap, ImagePtr
  <2>2. CASE diskPtr' = diskPtr
    BY <2>2
  <2>3. ~diskSound' \/ WriteINodeMap \/ diskPtr' = diskPtr
    BY DEF Next, Newfs, WriteMasterBlock, NewfsFails, Unmount, WriteBlockMap,
           WriteBlockMapFails, WriteINodeMapFails, CloseBlockDevice, Mount,
           AllocateBlock, AllocateINode, Crash, FreeBlock, FreeINode,
           INodeWriteBlock, INodeRewriteBlock, WrittenTo, Overwritten, vars, disk
  <2> QED BY <2>1, <2>2, <2>3
<1> QED BY <1>1, Invariant, PTL DEF Spec, PointerPermanent
=============================================================================

---------------------------- MODULE LengthProofs ----------------------------
(***************************************************************************)
(* num_bytes of an inode is never beyond its blocks, for volumes, blocks   *)
(* and requests of any size.                                               *)
(***************************************************************************)
EXTENDS INodeIOProofs

MemLengths ==
  \A i \in Inodes : memLen[i] > 0 => memPtr[i][Slot(memLen[i] - 1)] # NoBlock

DiskLengths ==
  \A i \in Inodes : diskLen[i] > 0 => diskPtr[i][Slot(diskLen[i] - 1)] # NoBlock

\* The running iNodeWrite has left no hole behind it.
NoHoles ==
  call.op = "write" =>
    \A s \in Slots : s < call.i => memPtr[call.ino][s] # NoBlock

\* newfs has written that the inodes of these blocks are empty.
NewLengths ==
  caller = "newfs" =>
    /\ phase = "inodes" => \A i \in Inodes : InodeBlockOf[i] < next => diskLen[i] = 0
    /\ phase = "close" => \A i \in Inodes : diskLen[i] = 0

LengthInv ==
  /\ mounted /\ memSound => MemLengths
  /\ diskSound => DiskLengths
  /\ NoHoles /\ NewLengths

(* The last byte of a length is in a block the inode can have. *)
LEMMA LastByte ==
  ASSUME NEW len \in 0 .. MaxLength, len > 0
  PROVE  Slot(len - 1) \in Slots
<1>1. len - 1 \in FileBytes
  BY Constants DEF FileBytes
<1> QED BY <1>1, SlotFacts

(* Pointers that stay keep the lengths that stay. *)
LEMMA MemLengthsKept ==
  ASSUME Others, MemLengths, memLen' = memLen,
         \A i \in Inodes, s \in Slots : memPtr[i][s] # NoBlock => memPtr'[i][s] = memPtr[i][s]
  PROVE  MemLengths'
<1> SUFFICES ASSUME NEW i \in Inodes, memLen[i] > 0
             PROVE  memPtr'[i][Slot(memLen[i] - 1)] # NoBlock
  BY DEF MemLengths, Slot
<1>1. Slot(memLen[i] - 1) \in Slots
  BY LastByte DEF Others, IOTypeOK
<1> QED BY <1>1 DEF MemLengths

(* Steps that change neither pointers nor lengths. *)
LEMMA LengthsQuiet ==
  ASSUME LengthInv,
         UNCHANGED <<mounted, memSound, diskSound, memPtr, diskPtr, memLen, diskLen,
                     caller, phase, next>>,
         NoHoles'
  PROVE  LengthInv'
BY DEF LengthInv, MemLengths, DiskLengths, NewLengths, Slot

(* A write that ended has a block for every byte up to its end. *)
LEMMA EndHasBlock ==
  ASSUME Others, NoHoles, LoopEnds, call.op = "write",
         NEW end, end = call.start + call.done, end > 0
  PROVE  memPtr[call.ino][Slot(end - 1)] # NoBlock
<1> DEFINE B == BytesPerBlock
           s == call.start
           l == call.len
           e == s + l
           f == e - 1
<1>1. /\ B \in Nat \ {0} /\ s \in 0 .. B - 1 /\ l \in Nat /\ call.i \in Nat
  BY Constants DEF Others, IOTypeOK, Calls, Offsets
<1>2. call.done = l /\ call.i = NumBlocks /\ call.i <= PtrsPerInode
  BY DEF Others, LoopInv, LoopEnds
<1>3. NumBlocks = e \div B - s \div B + 1
  BY DEF NumBlocks
<1> HIDE DEF B, s, l
<1>4. s \div B = 0
  BY <1>1, Division, 0 * B + s = s
<1> DEFINE d == e \div B
           g == f \div B
<1>5. e > 0 /\ e \in Nat
  BY <1>1, <1>2 DEF s
<1> HIDE DEF e
<1>6. f \in Nat /\ d \in Nat /\ g \in Nat /\ B * g <= f /\ e < B * d + B
  BY <1>1, <1>5
<1> HIDE DEF d, g
<1>7. g <= d
  <2> SUFFICES ASSUME g >= d + 1 PROVE FALSE
    BY <1>6
  <2> DEFINE p == B * g
             q == B * d
  <2>1. B * g >= B * (d + 1)
    BY <1>1, <1>6
  <2>2. B * (d + 1) = q + B
    BY <1>1, <1>6
  <2>3. p \in Nat /\ q \in Nat /\ p <= e - 1 /\ e < q + B /\ p >= q + B
    BY <2>1, <2>2, <1>1, <1>6
  <2> HIDE DEF p, q
  <2> QED BY <2>3, <1>1, <1>5
<1>8. call.i = d + 1
  BY <1>2, <1>3, <1>4, <1>6 DEF d
<1>9. g \in Slots /\ g < call.i
  BY <1>2, <1>6, <1>7, <1>8, Constants DEF Slots
<1>10. f = end - 1
  BY <1>2 DEF e, s
<1> HIDE DEF f
<1>11. g = Slot(f)
  BY DEF g, B, Slot
<1>12. memPtr[call.ino][g] # NoBlock
  BY <1>9 DEF NoHoles
<1> QED BY <1>10, <1>11, <1>12, Zenon

LEMMA LengthCallSteps ==
  ASSUME VInv, Others, LengthInv,
         \/ \E ino \in Inodes, start \in Starts, len \in Lengths :
              \/ iNodeRead(ino, start, len)
              \/ \E t \in Texts : iNodeWrite(ino, start, len, t)
         \/ ReadBlock \/ ReadBlockFails \/ WriteRefused \/ Return
  PROVE  LengthInv'
<1>1. UNCHANGED <<vars, diskLen, memLen>>
  BY DEF iNodeRead, iNodeWrite, ReadBlock, ReadBlockFails, WriteRefused, Return
<1>2. call \in Calls
  BY DEF Others, IOTypeOK
<1>3. call'.op = "write" => call'.i = 0 \/ (call.op = "write" /\ call'.i = call.i
                                            /\ call'.ino = call.ino)
  <2>1. ASSUME NEW ino \in Inodes, NEW start \in Starts, NEW len \in Lengths,
               NEW op \in {"read", "write"}, Called(op, ino, start, len)
        PROVE  call'.i = 0
    BY <2>1, Constants DEF Called, NoCall, Calls
  <2>2. CASE ReadBlock \/ ReadBlockFails
    BY <2>2, <1>2 DEF ReadBlock, ReadBlockFails, InLoop, Advanced, Short, Calls
  <2>3. CASE WriteRefused
    BY <2>3, <1>2 DEF WriteRefused, InLoop, Short, Calls
  <2>4. CASE Return
    BY <2>4 DEF Return, NoCall
  <2> QED BY <2>1, <2>2, <2>3, <2>4 DEF iNodeRead, iNodeWrite
<1>4. NoHoles'
  BY <1>1, <1>3 DEF LengthInv, NoHoles, vars, mem, Slots
<1> QED BY <1>1, <1>4, LengthsQuiet DEF vars, disk, mem, write, ghosts

LEMMA LengthWriteSteps ==
  ASSUME VInv, Others, LengthInv, WriteBlock \/ WriteBlockFails
  PROVE  LengthInv'
<1>1. Located /\ UNCHANGED <<diskLen, memLen>> /\ (call' = Advanced \/ call' = Short)
  BY DEF WriteBlock, WriteBlockFails
<1>2. /\ call.ino \in Inodes /\ call.i \in Slots
      /\ memPtr'[call.ino][call.i] \in DataBlocks
      /\ \A j \in Inodes, s \in Slots :
           memPtr[j][s] # NoBlock => memPtr'[j][s] = memPtr[j][s]
      /\ UNCHANGED <<diskPtr, write, diskSound, memSound, mounted>>
  BY <1>1, LocatedFacts
<1>3. /\ call'.op = call.op /\ call'.ino = call.ino
      /\ call'.i = call.i + 1 \/ call'.i = call.i
  BY <1>1 DEF Advanced, Short, Others, IOTypeOK, Calls
<1>4. memPtr'[call.ino][call.i] # NoBlock
  BY <1>2, ConstantFacts DEF DataBlocks
<1>5. NoHoles'
  BY <1>2, <1>3, <1>4 DEF LengthInv, NoHoles, Slots
<1>6. mounted' /\ memSound' => MemLengths'
  BY <1>1, <1>2, MemLengthsKept DEF LengthInv
<1>7. diskSound' => DiskLengths'
  BY <1>1, <1>2 DEF LengthInv, DiskLengths, Slot
<1>8. NewLengths'
  BY <1>1, <1>2 DEF LengthInv, NewLengths, write
<1> QED BY <1>5, <1>6, <1>7, <1>8 DEF LengthInv

LEMMA LengthLoopEnds ==
  ASSUME VInv, Others, LengthInv, LoopEnds
  PROVE  LengthInv'
<1>1. /\ call' = [call EXCEPT !.result = "all"]
      /\ UNCHANGED <<vars, data, diskLen, buffer, file>>
      /\ call \in Calls /\ memLen \in [Inodes -> 0 .. MaxLength]
  BY DEF LoopEnds, Others, IOTypeOK
<1>2. call'.op = call.op /\ call'.i = call.i /\ call'.ino = call.ino
  BY <1>1 DEF Calls
<1>3. NoHoles'
  BY <1>1, <1>2 DEF LengthInv, NoHoles, vars, mem
<1>4. ASSUME mounted, memSound PROVE MemLengths'
  <2>1. CASE call.op # "write"
    BY <2>1, <1>1, <1>4 DEF LoopEnds, LengthInv, MemLengths, vars, mem, Slot
  <2>2. CASE call.op = "write"
    <3>1. /\ memLen' = [memLen EXCEPT ![call.ino] = Extended]
          /\ memPtr' = memPtr /\ call.ino \in Inodes
      BY <2>2, <1>1 DEF LoopEnds, vars, mem, Calls
    <3> SUFFICES ASSUME NEW i \in Inodes, memLen'[i] > 0
                 PROVE  memPtr[i][Slot(memLen'[i] - 1)] # NoBlock
      BY <3>1 DEF MemLengths, Slot
    <3>2. CASE memLen'[i] = memLen[i]
      BY <3>2, <1>4 DEF LengthInv, MemLengths
    <3>3. CASE memLen'[i] # memLen[i]
      <4>1. i = call.ino /\ memLen'[i] = call.start + call.done
        BY <3>1, <3>3, <1>1 DEF Extended
      <4>2. memPtr[call.ino][Slot(memLen'[i] - 1)] # NoBlock
        <5> DEFINE end == memLen'[i]
        <5>1. end = call.start + call.done /\ end > 0
          BY <4>1
        <5> HIDE DEF end
        <5>2. memPtr[call.ino][Slot(end - 1)] # NoBlock
          BY <5>1, <2>2, EndHasBlock DEF LengthInv
        <5> QED BY <5>2 DEF end
      <4> QED BY <4>1, <4>2, Zenon
    <3> QED BY <3>2, <3>3
  <2> QED BY <2>1, <2>2
<1>5. (diskSound' => DiskLengths') /\ NewLengths'
  BY <1>1 DEF LengthInv, DiskLengths, NewLengths, Slot, vars, disk, write, ghosts
<1> QED BY <1>1, <1>3, <1>4, <1>5 DEF LengthInv, vars, ghosts

LEMMA LengthMount ==
  ASSUME VInv, Others, LengthInv, IOMount
  PROVE  LengthInv'
<1>1. /\ ~mounted /\ phase = "idle" /\ memPtr' = diskPtr /\ memSound' = diskSound
      /\ UNCHANGED <<disk, write, diskSound>>
      /\ memLen' = diskLen /\ UNCHANGED <<diskLen, call>>
  BY DEF IOMount, Mount, Idle
<1>2. call.op = "none"
  BY VolumeWaits
<1> QED BY <1>1, <1>2 DEF LengthInv, MemLengths, DiskLengths, NoHoles, NewLengths,
                          Slot, disk, write

LEMMA LengthWriteINodeMap ==
  ASSUME VInv, Others, LengthInv, IOWriteINodeMap
  PROVE  LengthInv'
<1>1. /\ phase = "inodes"
      /\ UNCHANGED <<mounted, memPtr, memSound, diskSound, caller, memLen, call>>
      /\ diskPtr' = [i \in Inodes |-> IF InodeBlockOf[i] = next
                                        THEN ImagePtr[i] ELSE diskPtr[i]]
      /\ diskLen' = [i \in Inodes |->
                       IF InodeBlockOf[i] # next THEN diskLen[i]
                       ELSE IF caller = "newfs" THEN 0 ELSE memLen[i]]
      /\ IF next + 1 < InodeBlocks
           THEN phase' = phase /\ next' = next + 1
           ELSE phase' = "close" /\ next' = 0
  BY DEF IOWriteINodeMap, WriteINodeMap, mem, ghosts
<1>2. call.op = "none"
  BY VolumeWaits
<1>3. NoHoles' /\ (mounted' /\ memSound' => MemLengths')
  BY <1>1, <1>2 DEF LengthInv, NoHoles, MemLengths, Slot
<1>4. ASSUME diskSound' PROVE DiskLengths'
  <2>1. caller # "newfs" /\ mounted /\ memSound
    BY <1>1, <1>4 DEF VInv, IInv, Rest, Control, TypeOK
  <2>2. MemLengths /\ DiskLengths
    BY <1>1, <1>4, <2>1 DEF LengthInv
  <2> SUFFICES ASSUME NEW i \in Inodes, diskLen'[i] > 0
               PROVE  diskPtr'[i][Slot(diskLen'[i] - 1)] # NoBlock
    BY DEF DiskLengths, Slot
  <2>3. CASE InodeBlockOf[i] = next
    BY <2>3, <2>1, <2>2, <1>1 DEF MemLengths, ImagePtr
  <2>4. CASE InodeBlockOf[i] # next
    BY <2>4, <2>2, <1>1 DEF DiskLengths
  <2> QED BY <2>3, <2>4
<1>5. NewLengths'
  <2> SUFFICES ASSUME caller = "newfs" PROVE NewLengths'
    BY <1>1 DEF NewLengths
  <2>1. next \in 0 .. InodeBlocks - 1 /\ InodeBlocks \in Nat
    BY <1>1, SizeAssumption DEF VInv, IInv, Rest, Control
  <2>2. \A i \in Inodes : InodeBlockOf[i] < next + 1 => diskLen'[i] = 0
    <3> SUFFICES ASSUME NEW i \in Inodes, InodeBlockOf[i] < next + 1
                 PROVE  diskLen'[i] = 0
      OBVIOUS
    <3>1. InodeBlockOf[i] < next \/ InodeBlockOf[i] = next
      BY <2>1, LayoutAssumption
    <3> QED BY <3>1, <1>1 DEF LengthInv, NewLengths
  <2>3. CASE next + 1 < InodeBlocks
    BY <2>2, <2>3, <1>1 DEF NewLengths
  <2>4. CASE ~(next + 1 < InodeBlocks)
    <3>1. \A i \in Inodes : InodeBlockOf[i] < next + 1
      BY <2>1, <2>4, LayoutAssumption
    <3> QED BY <3>1, <2>2, <2>4, <1>1 DEF NewLengths
  <2> QED BY <2>3, <2>4
<1> QED BY <1>3, <1>4, <1>5 DEF LengthInv

LEMMA LengthCloseBlockDevice ==
  ASSUME VInv, Others, LengthInv, IOCloseBlockDevice
  PROVE  LengthInv'
<1>1. /\ phase = "close" /\ caller' = "none"
      /\ UNCHANGED <<disk, diskLen, call>>
  BY DEF IOCloseBlockDevice, CloseBlockDevice, EndWrite
<1>2. call.op = "none"
  BY VolumeWaits
<1>3. NoHoles' /\ NewLengths'
  BY <1>1, <1>2 DEF NoHoles, NewLengths
<1>4. CASE caller = "newfs"
  <2>1. \A i \in Inodes : diskLen[i] = 0
    BY <1>1, <1>4 DEF LengthInv, NewLengths
  <2>2. ~mounted /\ ~mounted'
    BY <1>4 DEF Others, SoundTogether, IOCloseBlockDevice, CloseBlockDevice
  <2> QED BY <1>1, <1>3, <2>1, <2>2 DEF LengthInv, DiskLengths
<1>5. CASE caller # "newfs"
  <2>1. caller = "unmount"
    BY <1>5 DEF IOCloseBlockDevice, CloseBlockDevice
  <2>2. mounted /\ ~mounted'
    BY <2>1 DEF VInv, IInv, Rest, Control, IOCloseBlockDevice, CloseBlockDevice, DropMemory
  <2>3. diskSound' => diskSound
    BY <2>1, <2>2 DEF Others, SoundTogether, IOCloseBlockDevice, CloseBlockDevice
  <2> QED BY <1>1, <1>3, <2>2, <2>3 DEF LengthInv, DiskLengths, Slot, disk
<1> QED BY <1>4, <1>5

LEMMA LengthOtherSteps ==
  ASSUME VInv, Others, LengthInv, IOCrash \/ VolumeStep
  PROVE  LengthInv'
<1>1. CASE IOCrash
  BY <1>1 DEF IOCrash, Crash, DropMemory, EndWrite, NoCall, LengthInv, DiskLengths,
              NoHoles, NewLengths, Slot, disk
<1>2. CASE VolumeStep
  <2>1. call.op = "none"
    BY <1>2, VolumeWaits
  <2>2. /\ UNCHANGED <<mounted, memPtr, memSound, diskPtr, diskLen, memLen, call>>
        /\ diskSound' => diskSound
    <3>1. UNCHANGED <<diskLen, memLen, call>>
      BY <1>2 DEF VolumeStep
    <3>2. CASE Newfs BY <3>1, <3>2 DEF Newfs, disk, mem
    <3>3. CASE WriteMasterBlock BY <3>1, <3>3 DEF WriteMasterBlock, mem
    <3>4. CASE NewfsFails BY <3>1, <3>4 DEF NewfsFails, disk, mem, ghosts
    <3>5. CASE WriteBlockMap BY <3>1, <3>5 DEF WriteBlockMap, mem, ghosts
    <3>6. CASE WriteINodeMapFails
      BY <3>1, <3>6 DEF WriteINodeMapFails, disk, mem, ghosts
    <3>7. CASE Unmount BY <3>1, <3>7 DEF Unmount, disk, mem, VInv, IInv, TypeOK
    <3> QED BY <1>2, <3>2, <3>3, <3>4, <3>5, <3>6, <3>7 DEF VolumeStep
  <2>3. NewLengths'
    <3>1. CASE Newfs BY <3>1 DEF Newfs, StartWrite, NewLengths
    <3>2. CASE WriteMasterBlock BY <3>2 DEF WriteMasterBlock, NewLengths
    <3>3. CASE NewfsFails BY <3>3 DEF NewfsFails, EndWrite, NewLengths
    <3>4. CASE WriteBlockMap
      <4>1. \A i \in Inodes : ~(InodeBlockOf[i] < 0)
        BY LayoutAssumption
      <4> QED BY <3>4, <4>1 DEF WriteBlockMap, NewLengths
    <3>5. CASE WriteINodeMapFails BY <3>5 DEF WriteINodeMapFails, NewLengths
    <3>6. CASE Unmount BY <3>6 DEF Unmount, StartWrite, NewLengths
    <3> QED BY <1>2, <3>1, <3>2, <3>3, <3>4, <3>5, <3>6 DEF VolumeStep
  <2> QED BY <2>1, <2>2, <2>3 DEF LengthInv, MemLengths, DiskLengths, NoHoles, Slot
<1> QED BY <1>1, <1>2

LEMMA LengthStep ==
  ASSUME VInv, Others, LengthInv, [IONext]_ioVars
  PROVE  LengthInv'
<1>1. CASE UNCHANGED ioVars
  <2>1. UNCHANGED <<vars, diskLen, memLen, call>>
    BY <1>1 DEF ioVars
  <2>2. NoHoles'
    BY <2>1 DEF LengthInv, NoHoles, vars, mem
  <2> QED BY <2>1, <2>2, LengthsQuiet DEF vars, disk, mem, write, ghosts
<1>2. CASE IONext
  BY <1>2, LengthCallSteps, LengthWriteSteps, LengthLoopEnds, LengthMount,
     LengthWriteINodeMap, LengthCloseBlockDevice, LengthOtherSteps
  DEF IONext
<1> QED BY <1>1, <1>2

(* num_bytes is never beyond the blocks of an inode, in memory and on a    *)
(* sound device (inode.c:100-103, 146).                                    *)
THEOREM LengthsAreCovered == IOSpec => []LengthHasBlocks
<1>1. IOInit => LengthInv
  BY DEF IOInit, Init, NoCall, LengthInv, NoHoles, NewLengths
<1>2. IOInv /\ LengthInv /\ [IONext]_ioVars => LengthInv'
  BY LengthStep DEF IOInv
<1>3. LengthInv => LengthHasBlocks
  BY DEF LengthInv, LengthHasBlocks, MemLengths, DiskLengths
<1> QED BY <1>1, <1>2, <1>3, IOInvariant, PTL DEF IOSpec
=============================================================================

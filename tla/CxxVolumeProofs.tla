--------------------------- MODULE CxxVolumeProofs ---------------------------
(***************************************************************************)
(* What the C++ file system promises, for devices of any size whose block  *)
(* map fits its block.  The layout comes first: the three parts of the     *)
(* volume are apart and on the device.  Then the invariant: the device     *)
(* knows what is kept, the memory knows what is held, and during unmount   *)
(* what is kept is held.                                                   *)
(***************************************************************************)
EXTENDS FittingCxxVolume, TLAPS

-----------------------------------------------------------------------------
(* The layout.                                                             *)

(* Rounding up: the least number of groups of d that hold n. *)
LEMMA CeilDivFacts ==
  ASSUME NEW n \in Nat, NEW d \in Nat \ {0}
  PROVE  /\ CeilDiv(n, d) \in Nat
         /\ n > 0 => CeilDiv(n, d) > 0
         /\ \A m \in Nat : m < n => m \div d \in Nat /\ m \div d < CeilDiv(n, d)
<1> DEFINE q == (n + d - 1) \div d
           r == (n + d - 1) % d
<1>1. q \in Nat /\ r \in 0 .. d - 1 /\ n + d - 1 = d * q + r
  OBVIOUS
<1>2. n <= d * q
  BY <1>1
<1>3. ASSUME n > 0 PROVE q > 0
  BY <1>1, <1>3
<1>4. ASSUME NEW m \in Nat, m < n PROVE m \div d \in Nat /\ m \div d < q
  <2> DEFINE a == m \div d
             b == m % d
  <2>1. a \in Nat /\ b \in 0 .. d - 1 /\ m = d * a + b
    OBVIOUS
  <2>2. d * a < d * q
    BY <1>1, <1>2, <1>4, <2>1
  <2> HIDE DEF a, q
  <2>3. a < q
    BY <1>1, <2>1, <2>2
  <2> QED BY <2>1, <2>3 DEF a, q
<1> QED BY <1>1, <1>3, <1>4 DEF CeilDiv

(* n of them need no more groups of d than there are, if they are at most  *)
(* k * d.                                                                  *)
LEMMA CeilDivBound ==
  ASSUME NEW n \in Nat, NEW d \in Nat \ {0}, NEW k \in Nat, n <= k * d
  PROVE  CeilDiv(n, d) <= k
<1> DEFINE q == (n + d - 1) \div d
           r == (n + d - 1) % d
<1>1. q \in Nat /\ r \in 0 .. d - 1 /\ n + d - 1 = d * q + r
  OBVIOUS
<1>2. d * q < d * (k + 1)
  <2>1. d * (k + 1) = k * d + d
    OBVIOUS
  <2> QED BY <1>1, <2>1
<1> HIDE DEF q
<1>3. q < k + 1
  BY <1>1, <1>2
<1> QED BY <1>1, <1>3 DEF CeilDiv, q

(* The maps and the master block are apart, and the inode map, of as many  *)
(* blocks as its loops go through, is on the device.                       *)
LEMMA Layout ==
  /\ BytesPerBlock \in Nat \ {0} /\ INodesPerBlock \in Nat \ {0}
  /\ INodeCnt \in Nat /\ INodeBlocks \in Nat
  /\ MBLOC \in Blocks /\ MAPADDR \in Blocks
  /\ INodeMapAddress \in Nat /\ INodeMapAddress > MAPADDR
  /\ \A k \in 0 .. INodeBlocks - 1 : INodeMapAddress + k \in Blocks
  /\ \A i \in INodes : i \div INodesPerBlock \in 0 .. INodeBlocks - 1
<1>1. BytesPerBlock \in Nat \ {0} /\ BlockCount \in Nat /\ MaxINodes \in Nat
      /\ SizeOfINode \in Nat \ {0} /\ SizeOfINode <= BytesPerBlock
      /\ INodeMapAddress < BlockCount
  BY GeometryAssumption
<1>2. INodesPerBlock \in Nat \ {0}
  <2> DEFINE q == BytesPerBlock \div SizeOfINode
             r == BytesPerBlock % SizeOfINode
  <2>1. q \in Int /\ r \in 0 .. SizeOfINode - 1 /\ BytesPerBlock = SizeOfINode * q + r
    BY <1>1
  <2>2. q > 0
    BY <2>1, <1>1
  <2> QED BY <2>1, <2>2 DEF INodesPerBlock
<1>3. Protect \in Nat /\ (BlockCount > 0 => Protect > 0)
  BY <1>1, CeilDivFacts DEF Protect
<1>4. INodeMapAddress = 1 + Protect /\ BlockCount > 0 /\ Protect > 0
  BY <1>1, <1>3 DEF INodeMapAddress, MAPADDR
<1> DEFINE room == BlockCount - (Protect + 1)
           quarter == room \div 4
<1>5. room \in Nat /\ quarter \in Nat /\ quarter <= room
  BY <1>1, <1>3, <1>4
<1> HIDE DEF quarter
<1>6. INodeCnt \in Nat /\ INodeCnt <= quarter * INodesPerBlock
  <2>1. quarter * INodesPerBlock \in Nat
    BY <1>2, <1>5
  <2>2. INodeCnt = IF quarter * INodesPerBlock > MaxINodes
                     THEN MaxINodes ELSE quarter * INodesPerBlock
    BY DEF INodeCnt, quarter
  <2> QED BY <2>1, <2>2, <1>1
<1>7. INodeBlocks \in Nat /\ INodeBlocks <= quarter
  BY <1>2, <1>5, <1>6, CeilDivFacts, CeilDivBound DEF INodeBlocks
<1>8. ASSUME NEW i \in INodes PROVE i \div INodesPerBlock \in 0 .. INodeBlocks - 1
  <2>1. i \in Nat /\ i < INodeCnt
    BY <1>6, <1>8 DEF INodes
  <2>2. i \div INodesPerBlock \in Nat /\ i \div INodesPerBlock < INodeBlocks
    BY <2>1, <1>2, <1>6, CeilDivFacts DEF INodeBlocks
  <2> QED BY <2>2, <1>7
<1>9. \A k \in 0 .. INodeBlocks - 1 : INodeMapAddress + k \in Blocks
  BY <1>1, <1>3, <1>4, <1>5, <1>7 DEF Blocks
<1> QED BY <1>1, <1>2, <1>3, <1>4, <1>6, <1>7, <1>8, <1>9 DEF MBLOC, MAPADDR, Blocks

-----------------------------------------------------------------------------
(* The invariant.                                                          *)

Cells == {Zero, Master} \cup { Map(bits) : bits \in SUBSET Blocks }
                        \cup { Part(used) : used \in SUBSET INodes }

\* Who is at work, and on what.
Control ==
  /\ (phase = "idle") <=> (caller = "none")
  /\ phase = "master" => caller = "newfs"
  /\ caller = "newfs" => ~live /\ kept = Nothing
  /\ caller = "unmount" => live
  /\ phase # "inodes" => next = 0
  /\ live => mounted
  /\ ~live => held = Nothing

\* The inodes of one block of the inode map.
PartOf(used, k) == { i \in used : i \div INodesPerBlock = k }

\* What the device knows is marked, and used.
Marked == IF dev[MAPADDR].kind = "map" THEN dev[MAPADDR].bits ELSE {}
UsedIn(k) ==
  LET c == dev[INodeMapAddress + k] IN IF c.kind = "inodes" THEN c.used ELSE {}

DeviceKnows ==
  /\ kept.blocks \subseteq Marked
  /\ \A i \in kept.inodes : i \in UsedIn(i \div INodesPerBlock)

MemoryKnows == live => held.blocks \subseteq memBits /\ held.inodes \subseteq memUsed

\* While unmount writes, what is kept is what the user has.
KeptIsHeld ==
  caller = "unmount" => kept.blocks \subseteq held.blocks /\ kept.inodes \subseteq held.inodes

\* The part of the volume that is written is on the device, if no write failed.
WrittenSoFar ==
  phase = "inodes" /\ ok =>
    /\ dev[MAPADDR] = Map(ImageBits)
    /\ \A k \in 0 .. next - 1 : dev[INodeMapAddress + k] = Part(PartOf(ImageUsed, k))

Inv ==
  /\ TypeOK /\ dev \in [Blocks -> Cells]
  /\ Control /\ DeviceKnows /\ MemoryKnows /\ KeptIsHeld /\ WrittenSoFar

(* What the parts of a record in the device are. *)
LEMMA CellFacts ==
  /\ Zero \in Cells /\ Master \in Cells
  /\ \A bits \in SUBSET Blocks :
       Map(bits) \in Cells /\ Map(bits).kind = "map" /\ Map(bits).bits = bits
  /\ \A used \in SUBSET INodes :
       Part(used) \in Cells /\ Part(used).kind = "inodes" /\ Part(used).used = used
  /\ \A c \in Cells : /\ c.kind \in {"zero", "master", "map", "inodes"}
                      /\ c.kind = "map" => c.bits \in SUBSET Blocks
                      /\ c.kind = "inodes" => c.used \in SUBSET INodes
<1>1. Zero \in Cells /\ Zero.kind = "zero" /\ Master \in Cells /\ Master.kind = "master"
  BY DEF Cells, Zero, Master
<1>2. ASSUME NEW bits \in SUBSET Blocks
      PROVE  Map(bits) \in Cells /\ Map(bits).kind = "map" /\ Map(bits).bits = bits
  BY DEF Cells, Map
<1>3. ASSUME NEW used \in SUBSET INodes
      PROVE  Part(used) \in Cells /\ Part(used).kind = "inodes" /\ Part(used).used = used
  BY DEF Cells, Part
<1>4. ASSUME NEW c \in Cells
      PROVE  /\ c.kind \in {"zero", "master", "map", "inodes"}
             /\ c.kind = "map" => c.bits \in SUBSET Blocks
             /\ c.kind = "inodes" => c.used \in SUBSET INodes
  <2>1. CASE c \in {Zero, Master}
    BY <2>1, <1>1
  <2>2. CASE \E bits \in SUBSET Blocks : c = Map(bits)
    BY <2>2, <1>2
  <2>3. CASE \E used \in SUBSET INodes : c = Part(used)
    BY <2>3, <1>3
  <2> QED BY <2>1, <2>2, <2>3 DEF Cells
<1> QED BY <1>1, <1>2, <1>3, <1>4

LEMMA NextStarts == 0 \in 0 .. INodeBlocks
<1>1. INodeBlocks \in Nat
  BY Layout
<1> QED BY <1>1

(* With all bits stored, a mount reads the bits that are on the device, and *)
(* of each inode what its block says.                                       *)
LEMMA ReadFacts ==
  ASSUME dev \in [Blocks -> Cells]
  PROVE  /\ ReadBlockMap = {Marked} /\ Marked \in SUBSET Blocks
         /\ ReadINodeMap = { i \in INodes : i \in UsedIn(i \div INodesPerBlock) }
<1>1. ReadBlockMap = {Marked}
  <2>1. SUBSET (Blocks \ Stored) = {{}}
    BY MapFitsItsBlock
  <2>2. ReadBlockMap = { Marked \cup rest : rest \in SUBSET (Blocks \ Stored) }
    BY DEF ReadBlockMap, Marked
  <2>3. ReadBlockMap = { Marked \cup rest : rest \in {{}} }
    BY <2>1, <2>2
  <2> QED BY <2>3
<1>2. Marked \in SUBSET Blocks
  BY CellFacts, Layout DEF Marked
<1>3. ReadINodeMap = { i \in INodes : i \in UsedIn(i \div INodesPerBlock) }
  BY Layout DEF ReadINodeMap, UsedIn
<1> QED BY <1>1, <1>2, <1>3

LEMMA InvInit == Init => Inv
<1> SUFFICES ASSUME Init PROVE Inv
  OBVIOUS
<1>1. dev \in [Blocks -> Cells]
  BY CellFacts DEF Init
<1>2. Nothing \in Promises /\ Nothing.blocks = {} /\ Nothing.inodes = {}
  BY DEF Nothing, Promises
<1>3. TypeOK
  BY <1>2, NextStarts DEF Init, TypeOK, Zero
<1>4. Control /\ DeviceKnows /\ MemoryKnows /\ KeptIsHeld /\ WrittenSoFar
  BY <1>2 DEF Init, Control, DeviceKnows, MemoryKnows, KeptIsHeld, WrittenSoFar
<1> QED BY <1>1, <1>3, <1>4 DEF Inv

(* A device of cells is well-typed. *)
LEMMA DeviceType ==
  ASSUME dev \in [Blocks -> Cells]
  PROVE  \A b \in Blocks : dev[b].kind \in {"zero", "master", "map", "inodes"}
BY CellFacts

(* What newfs and unmount write is of their type. *)
LEMMA ImageFacts ==
  ASSUME Inv
  PROVE  /\ ImageBits \in SUBSET Blocks /\ ImageUsed \in SUBSET INodes
         /\ ImageBits \cap Stored = ImageBits
         /\ \A k : PartOf(ImageUsed, k) \in SUBSET INodes
<1>1. Reserved \in SUBSET Blocks
  BY Layout, GeometryAssumption DEF Reserved, Blocks, MBLOC, MAPADDR
<1>2. ImageBits \in SUBSET Blocks /\ ImageUsed \in SUBSET INodes
  BY <1>1 DEF Inv, TypeOK, ImageBits, ImageUsed
<1> QED BY <1>2, MapFitsItsBlock DEF PartOf

-----------------------------------------------------------------------------
(* newfs, unmount, mount and the end of the program.                       *)

LEMMA NewfsStep == Inv /\ Newfs => Inv'
<1> SUFFICES ASSUME Inv, Newfs PROVE Inv'
  OBVIOUS
<1>1. /\ dev' = BlockDevice /\ ~live' /\ memBits' = {} /\ memUsed' = {}
      /\ phase' = "master" /\ caller' = "newfs" /\ next' = 0 /\ ok' = TRUE
      /\ held' = Nothing /\ kept' = Nothing /\ mounted' = mounted /\ live' = FALSE
  BY DEF Newfs, StartWrite
<1>2. Nothing \in Promises /\ Nothing.blocks = {} /\ Nothing.inodes = {}
  BY DEF Nothing, Promises
<1>3. dev' \in [Blocks -> Cells]
  BY <1>1, CellFacts DEF BlockDevice
<1>4. TypeOK'
  <2>1. \A b \in Blocks : dev'[b].kind \in {"zero", "master", "map", "inodes"}
    BY <1>3, CellFacts
  <2> QED BY <1>1, <1>2, <2>1, NextStarts DEF TypeOK, Inv
<1>5. Control' /\ DeviceKnows' /\ MemoryKnows' /\ KeptIsHeld' /\ WrittenSoFar'
  BY <1>1, <1>2 DEF Control, DeviceKnows, MemoryKnows, KeptIsHeld, WrittenSoFar
<1> QED BY <1>3, <1>4, <1>5 DEF Inv

LEMMA UnmountStep == Inv /\ Unmount => Inv'
<1> SUFFICES ASSUME Inv, Unmount PROVE Inv'
  OBVIOUS
<1>1. /\ Live /\ phase' = "map" /\ caller' = "unmount" /\ next' = 0 /\ ok' = TRUE
      /\ kept' = [blocks |-> kept.blocks \cap held.blocks,
                  inodes |-> kept.inodes \cap held.inodes]
      /\ UNCHANGED <<dev, mounted, live, memBits, memUsed, held>>
  BY DEF Unmount, StartWrite, mem
<1>2. /\ kept' \in Promises
      /\ kept'.blocks = kept.blocks \cap held.blocks
      /\ kept'.inodes = kept.inodes \cap held.inodes
  BY <1>1 DEF Inv, TypeOK, Promises
<1>3. TypeOK' /\ dev' \in [Blocks -> Cells]
  BY <1>1, <1>2, NextStarts DEF TypeOK, Inv
<1>4. Control'
  BY <1>1 DEF Control, Inv, Live
<1>5. DeviceKnows' /\ MemoryKnows' /\ KeptIsHeld' /\ WrittenSoFar'
  BY <1>1, <1>2
  DEF Inv, DeviceKnows, MemoryKnows, KeptIsHeld, WrittenSoFar, Marked, UsedIn
<1> QED BY <1>3, <1>4, <1>5 DEF Inv

LEMMA MountStep == Inv /\ Mount => Inv'
<1> SUFFICES ASSUME Inv, Mount PROVE Inv'
  OBVIOUS
<1>1. /\ Idle /\ mounted' = TRUE /\ live' = TRUE
      /\ memBits' \in ReadBlockMap /\ memUsed' = ReadINodeMap
      /\ held' = kept
      /\ UNCHANGED <<dev, phase, caller, next, ok, kept>>
  BY DEF Mount, write
<1>2. dev' \in [Blocks -> Cells] /\ dev \in [Blocks -> Cells]
  BY <1>1 DEF Inv
<1>3. /\ memBits' = Marked /\ Marked \in SUBSET Blocks
      /\ memUsed' = { i \in INodes : i \in UsedIn(i \div INodesPerBlock) }
  BY <1>1, <1>2, ReadFacts
<1>4. TypeOK'
  BY <1>1, <1>2, <1>3 DEF TypeOK, Inv
<1>5. kept \in Promises
  BY DEF Inv, TypeOK
<1>6. Control'
  BY <1>1 DEF Control, Inv, Idle
<1>7. DeviceKnows' /\ KeptIsHeld' /\ WrittenSoFar'
  BY <1>1 DEF Inv, Control, Idle, DeviceKnows, KeptIsHeld, WrittenSoFar, Marked, UsedIn
<1>8. MemoryKnows'
  BY <1>1, <1>3, <1>5 DEF Inv, DeviceKnows, MemoryKnows, Promises
<1> QED BY <1>2, <1>4, <1>6, <1>7, <1>8 DEF Inv

(* The ends of newfs, of unmount and of the program delete the objects. *)
LEMMA DeleteStep ==
  ASSUME Inv, Delete, UNCHANGED dev, mounted' \in BOOLEAN,
         kept' \in Promises, DeviceKnows'
  PROVE  Inv'
<1>1. /\ ~live' /\ live' = FALSE /\ memBits' = {} /\ memUsed' = {}
      /\ phase' = "idle" /\ caller' = "none" /\ next' = 0 /\ ok' = TRUE
      /\ held' = Nothing
  BY DEF Delete
<1>2. Nothing \in Promises
  BY DEF Nothing, Promises
<1>3. TypeOK' /\ dev' \in [Blocks -> Cells]
  BY <1>1, <1>2, NextStarts DEF TypeOK, Inv
<1>4. Control' /\ MemoryKnows' /\ KeptIsHeld' /\ WrittenSoFar'
  BY <1>1 DEF Control, MemoryKnows, KeptIsHeld, WrittenSoFar
<1> QED BY <1>3, <1>4 DEF Inv

LEMMA NewfsReturnsStep == Inv /\ NewfsReturns => Inv'
<1> SUFFICES ASSUME Inv, NewfsReturns PROVE Inv'
  OBVIOUS
<1>1. Delete /\ UNCHANGED <<dev, mounted, kept>>
  BY DEF NewfsReturns
<1>2. mounted' \in BOOLEAN /\ kept' \in Promises /\ DeviceKnows'
  BY <1>1 DEF Inv, TypeOK, DeviceKnows, Marked, UsedIn
<1> QED BY <1>1, <1>2, DeleteStep

LEMMA QuitStep == Inv /\ Quit => Inv'
<1> SUFFICES ASSUME Inv, Quit PROVE Inv'
  OBVIOUS
<1>1. Delete /\ mounted' = FALSE /\ UNCHANGED <<dev, kept>>
  BY DEF Quit
<1>2. kept' \in Promises /\ DeviceKnows'
  BY <1>1 DEF Inv, TypeOK, DeviceKnows, Marked, UsedIn
<1> QED BY <1>1, <1>2, DeleteStep

(* What was written without an error is what a mount would read. *)
LEMMA AllWritten ==
  ASSUME Inv, Written, ok
  PROVE  Marked = ImageBits /\ \A i \in INodes :
           i \in UsedIn(i \div INodesPerBlock) <=> i \in ImageUsed
<1>1. /\ phase = "inodes" /\ next = INodeBlocks /\ dev[MAPADDR] = Map(ImageBits)
      /\ \A k \in 0 .. INodeBlocks - 1 :
           dev[INodeMapAddress + k] = Part(PartOf(ImageUsed, k))
  BY DEF Written, Inv, WrittenSoFar
<1>2. Marked = ImageBits
  BY <1>1, CellFacts, ImageFacts DEF Marked
<1>3. ASSUME NEW i \in INodes
      PROVE  i \in UsedIn(i \div INodesPerBlock) <=> i \in ImageUsed
  <2> DEFINE k == i \div INodesPerBlock
  <2>1. k \in 0 .. INodeBlocks - 1
    BY Layout
  <2>2. UsedIn(k) = PartOf(ImageUsed, k)
    BY <2>1, <1>1, CellFacts, ImageFacts DEF UsedIn
  <2> QED BY <2>2 DEF PartOf
<1> QED BY <1>2, <1>3

LEMMA UnmountReturnsStep == Inv /\ UnmountReturns => Inv'
<1> SUFFICES ASSUME Inv, UnmountReturns PROVE Inv'
  OBVIOUS
<1>1. /\ Written /\ caller = "unmount" /\ Delete /\ mounted' = FALSE
      /\ kept' = (IF ok THEN held ELSE kept) /\ dev' = dev
  BY DEF UnmountReturns
<1>2. kept' \in Promises
  BY <1>1 DEF Inv, TypeOK
<1>3. DeviceKnows'
  <2>1. CASE ok
    <3>1. held.blocks \subseteq memBits /\ held.inodes \subseteq memUsed
      BY <1>1 DEF Inv, Control, MemoryKnows
    <3>2. held.blocks \subseteq Marked
          /\ \A i \in held.inodes : i \in UsedIn(i \div INodesPerBlock)
      BY <2>1, <1>1, <3>1, AllWritten DEF ImageBits, ImageUsed, Inv, TypeOK
    <3> QED BY <2>1, <3>2, <1>1 DEF DeviceKnows, Marked, UsedIn
  <2>2. CASE ~ok
    BY <2>2, <1>1 DEF Inv, DeviceKnows, Marked, UsedIn
  <2> QED BY <2>1, <2>2
<1> QED BY <1>1, <1>2, <1>3, DeleteStep

-----------------------------------------------------------------------------
(* The writes.                                                             *)

(* A write of a cell to block b is such a cell there and nothing elsewhere, *)
(* or an error.                                                             *)
LEMMA WriteFacts ==
  ASSUME Inv, NEW b \in Blocks, NEW c \in Cells, WriteBlock(b, c)
  PROVE  /\ dev' \in [Blocks -> Cells] /\ ok' \in BOOLEAN
         /\ \A a \in Blocks : a # b => dev'[a] = dev[a]
         /\ dev'[b] \in {c, dev[b]}
         /\ ok' => ok /\ dev'[b] = c
<1>0. dev \in [Blocks -> Cells] /\ ok \in BOOLEAN
  BY DEF Inv, TypeOK
<1>1. CASE dev' = [dev EXCEPT ![b] = c] /\ UNCHANGED ok
  BY <1>0, <1>1
<1>2. CASE ok' = FALSE /\ UNCHANGED dev
  BY <1>0, <1>2
<1> QED BY <1>1, <1>2 DEF WriteBlock

LEMMA WriteMasterBlockStep == Inv /\ WriteMasterBlock => Inv'
<1> SUFFICES ASSUME Inv, WriteMasterBlock PROVE Inv'
  OBVIOUS
<1>1. /\ phase = "master" /\ phase' = "map" /\ WriteBlock(MBLOC, Master)
      /\ UNCHANGED <<mounted, live, memBits, memUsed, caller, next, held, kept>>
  BY DEF WriteMasterBlock, mem
<1>2. dev' \in [Blocks -> Cells] /\ ok' \in BOOLEAN
  BY <1>1, WriteFacts, Layout, CellFacts
<1>3. TypeOK'
  <2>1. \A b \in Blocks : dev'[b].kind \in {"zero", "master", "map", "inodes"}
    BY <1>2, CellFacts
  <2> QED BY <1>1, <1>2, <2>1 DEF TypeOK, Inv
<1>4. caller = "newfs" /\ ~live /\ kept = Nothing
  BY <1>1 DEF Inv, Control
<1>5. Control' /\ MemoryKnows' /\ KeptIsHeld' /\ WrittenSoFar'
  BY <1>1, <1>4 DEF Inv, Control, MemoryKnows, KeptIsHeld, WrittenSoFar
<1>6. DeviceKnows'
  BY <1>1, <1>4 DEF DeviceKnows, Nothing
<1> QED BY <1>2, <1>3, <1>5, <1>6 DEF Inv

LEMMA WriteBlockMapStep == Inv /\ WriteBlockMap => Inv'
<1> SUFFICES ASSUME Inv, WriteBlockMap PROVE Inv'
  OBVIOUS
<1>1. /\ phase = "map" /\ phase' = "inodes" /\ WriteBlock(MAPADDR, Map(ImageBits))
      /\ UNCHANGED <<mounted, live, memBits, memUsed, caller, next, held, kept>>
  BY ImageFacts DEF WriteBlockMap, mem
<1>2. Map(ImageBits) \in Cells /\ MAPADDR \in Blocks
  BY ImageFacts, CellFacts, Layout
<1>3. /\ dev' \in [Blocks -> Cells] /\ ok' \in BOOLEAN
      /\ \A a \in Blocks : a # MAPADDR => dev'[a] = dev[a]
      /\ dev'[MAPADDR] \in {Map(ImageBits), dev[MAPADDR]}
      /\ ok' => ok /\ dev'[MAPADDR] = Map(ImageBits)
  BY <1>1, <1>2, WriteFacts
<1>4. TypeOK'
  <2>1. \A b \in Blocks : dev'[b].kind \in {"zero", "master", "map", "inodes"}
    BY <1>3, CellFacts
  <2> QED BY <1>1, <1>3, <2>1 DEF TypeOK, Inv
<1>5. Control' /\ MemoryKnows' /\ KeptIsHeld' /\ ImageBits' = ImageBits
  BY <1>1 DEF Inv, Control, MemoryKnows, KeptIsHeld, ImageBits
<1>6. WrittenSoFar'
  <2>1. next' = 0
    BY <1>1 DEF Inv, Control
  <2> QED BY <2>1, <1>3, <1>5 DEF WrittenSoFar
<1>7. DeviceKnows'
  <2>1. CASE caller = "newfs"
    BY <2>1, <1>1 DEF Inv, Control, DeviceKnows, Nothing
  <2>2. CASE caller = "unmount"
    <3>1. ImageBits = memBits /\ kept.blocks \subseteq ImageBits
      BY <2>2 DEF ImageBits, Inv, Control, KeptIsHeld, MemoryKnows
    <3>2. Map(ImageBits).kind = "map" /\ Map(ImageBits).bits = ImageBits
      BY ImageFacts, CellFacts
    <3>3. kept'.blocks \subseteq Marked'
      <4>1. CASE dev'[MAPADDR] = Map(ImageBits)
        BY <4>1, <3>1, <3>2, <1>1 DEF Marked
      <4>2. CASE dev'[MAPADDR] = dev[MAPADDR]
        BY <4>2, <1>1 DEF Marked, Inv, DeviceKnows
      <4> QED BY <4>1, <4>2, <1>3
    <3>4. \A i \in INodes : UsedIn(i \div INodesPerBlock)' = UsedIn(i \div INodesPerBlock)
      <4>1. ASSUME NEW k \in 0 .. INodeBlocks - 1 PROVE UsedIn(k)' = UsedIn(k)
        <5>1. INodeMapAddress + k \in Blocks /\ INodeMapAddress + k # MAPADDR
          <6>1. INodeMapAddress + k \in Blocks
            BY Layout
          <6>2. INodeMapAddress \in Nat /\ INodeMapAddress > MAPADDR /\ k \in Nat
            BY Layout
          <6> QED BY <6>1, <6>2 DEF MAPADDR
        <5> QED BY <5>1, <1>3 DEF UsedIn
      <4> QED BY <4>1, Layout
    <3>5. kept.inodes \subseteq INodes
      BY DEF Inv, TypeOK, Promises
    <3> QED BY <3>3, <3>4, <3>5, <1>1 DEF DeviceKnows, Inv
  <2> QED BY <2>1, <2>2, <1>1 DEF Inv, Control, TypeOK
<1> QED BY <1>3, <1>4, <1>5, <1>6, <1>7 DEF Inv

(* Each inode goes to the block where it is looked for: one of the blocks   *)
(* before was not changed, and this one has what it must have.              *)
LEMMA WriteINodeMapStep == Inv /\ WriteINodeMap => Inv'
<1> SUFFICES ASSUME Inv, WriteINodeMap PROVE Inv'
  OBVIOUS
<1> DEFINE here == INodeMapAddress + next
           part == Part(PartOf(ImageUsed, next))
<1>1. /\ phase = "inodes" /\ next < INodeBlocks /\ WriteBlock(here, part)
      /\ next' = next + 1
      /\ UNCHANGED <<mounted, live, memBits, memUsed, phase, caller, held, kept>>
  BY DEF WriteINodeMap, mem, PartOf
<1>2. next \in 0 .. INodeBlocks - 1 /\ next \in Nat /\ INodeBlocks \in Nat
  BY <1>1, Layout DEF Inv, TypeOK
<1>3. INodeMapAddress \in Nat /\ INodeMapAddress > MAPADDR /\ here \in Blocks
  BY <1>2, Layout
<1>4. /\ part \in Cells /\ part.kind = "inodes" /\ part.used = PartOf(ImageUsed, next)
  BY ImageFacts, CellFacts
<1>5. /\ dev' \in [Blocks -> Cells] /\ ok' \in BOOLEAN
      /\ \A a \in Blocks : a # here => dev'[a] = dev[a]
      /\ dev'[here] \in {part, dev[here]}
      /\ ok' => ok /\ dev'[here] = part
  <2> HIDE DEF here, part
  <2> QED BY <1>1, <1>3, <1>4, WriteFacts
<1>6. dev'[MAPADDR] = dev[MAPADDR]
  <2>1. MAPADDR \in Blocks
    BY Layout
  <2> QED BY <2>1, <1>2, <1>3, <1>5 DEF MAPADDR
<1>7. ASSUME NEW k \in 0 .. INodeBlocks - 1, k # next
      PROVE  dev'[INodeMapAddress + k] = dev[INodeMapAddress + k]
  <2>1. INodeMapAddress + k \in Blocks
    BY Layout
  <2> QED BY <2>1, <1>2, <1>3, <1>5, <1>7
<1>8. TypeOK'
  <2>1. \A b \in Blocks : dev'[b].kind \in {"zero", "master", "map", "inodes"}
    BY <1>5, CellFacts
  <2>2. next' \in 0 .. INodeBlocks
    BY <1>1, <1>2
  <2> QED BY <1>1, <1>5, <2>1, <2>2 DEF TypeOK, Inv
<1>9. /\ Control' /\ MemoryKnows' /\ KeptIsHeld'
      /\ ImageBits' = ImageBits /\ ImageUsed' = ImageUsed
  BY <1>1 DEF Inv, Control, MemoryKnows, KeptIsHeld, ImageBits, ImageUsed
<1>10. WrittenSoFar'
  <2> SUFFICES ASSUME phase' = "inodes", ok'
               PROVE  /\ dev'[MAPADDR] = Map(ImageBits)
                      /\ \A k \in 0 .. next' - 1 :
                           dev'[INodeMapAddress + k] = Part(PartOf(ImageUsed, k))
    BY <1>9 DEF WrittenSoFar, PartOf
  <2>1. /\ dev[MAPADDR] = Map(ImageBits)
        /\ \A k \in 0 .. next - 1 : dev[INodeMapAddress + k] = Part(PartOf(ImageUsed, k))
    BY <1>1, <1>5 DEF Inv, WrittenSoFar
  <2>2. ASSUME NEW k \in 0 .. next' - 1
        PROVE  dev'[INodeMapAddress + k] = Part(PartOf(ImageUsed, k))
    <3>1. CASE k = next
      BY <3>1, <1>5
    <3>2. CASE k # next
      <4>1. k \in 0 .. next - 1 /\ k \in 0 .. INodeBlocks - 1
        BY <3>2, <1>1, <1>2
      <4> QED BY <3>2, <4>1, <2>1, <1>7
    <3> QED BY <3>1, <3>2
  <2> QED BY <2>1, <2>2, <1>6
<1>11. DeviceKnows'
  <2>1. CASE caller = "newfs"
    BY <2>1, <1>1 DEF Inv, Control, DeviceKnows, Nothing
  <2>2. CASE caller = "unmount"
    <3>1. kept.inodes \subseteq ImageUsed /\ kept.inodes \subseteq INodes
      BY <2>2 DEF ImageUsed, Inv, Control, KeptIsHeld, MemoryKnows, TypeOK, Promises
    <3>2. kept'.blocks \subseteq Marked'
      BY <1>1, <1>6 DEF Marked, Inv, DeviceKnows
    <3>3. ASSUME NEW i \in kept.inodes PROVE i \in UsedIn(i \div INodesPerBlock)'
      <4>1. i \div INodesPerBlock \in 0 .. INodeBlocks - 1
        BY <3>1, Layout
      <4>2. i \in UsedIn(i \div INodesPerBlock)
        BY DEF Inv, DeviceKnows
      <4>3. CASE i \div INodesPerBlock # next
        BY <4>1, <4>2, <4>3, <1>7 DEF UsedIn
      <4>4. CASE i \div INodesPerBlock = next
        <5>1. i \in PartOf(ImageUsed, next)
          BY <4>4, <3>1 DEF PartOf
        <5>2. CASE dev'[here] = part
          BY <5>1, <5>2, <4>4, <1>4 DEF UsedIn
        <5>3. CASE dev'[here] = dev[here]
          BY <5>3, <4>2, <4>4 DEF UsedIn
        <5> QED BY <5>2, <5>3, <1>5
      <4> QED BY <4>3, <4>4
    <3> QED BY <3>2, <3>3, <1>1 DEF DeviceKnows
  <2> QED BY <2>1, <2>2, <1>1 DEF Inv, Control, TypeOK
<1> QED BY <1>5, <1>8, <1>9, <1>10, <1>11 DEF Inv

-----------------------------------------------------------------------------
(* The commands that change the maps in memory.                            *)

LEMMA CommandStep ==
  ASSUME Inv, Live, UNCHANGED <<dev, mounted, live, write, kept>>,
         memBits' \in SUBSET Blocks, memUsed' \in SUBSET INodes, held' \in Promises,
         held'.blocks \subseteq memBits', held'.inodes \subseteq memUsed'
  PROVE  Inv'
<1>1. phase = "idle" /\ live /\ caller = "none"
  BY DEF Live, Idle, Inv, Control
<1>2. TypeOK' /\ dev' \in [Blocks -> Cells]
  BY DEF TypeOK, Inv, write
<1>3. Control' /\ DeviceKnows' /\ MemoryKnows' /\ KeptIsHeld' /\ WrittenSoFar'
  BY <1>1 DEF Inv, Control, DeviceKnows, MemoryKnows, KeptIsHeld, WrittenSoFar, write,
              Marked, UsedIn
<1> QED BY <1>2, <1>3 DEF Inv

(* What a user has in a session that can be used. *)
LEMMA HeldFacts ==
  ASSUME Inv, Live
  PROVE  /\ memBits \in SUBSET Blocks /\ memUsed \in SUBSET INodes
         /\ held \in Promises /\ held = [blocks |-> held.blocks, inodes |-> held.inodes]
         /\ held.blocks \subseteq memBits /\ held.inodes \subseteq memUsed
BY DEF Live, Inv, MemoryKnows, TypeOK, Promises

LEMMA BlockCommandsStep ==
  ASSUME Inv, AllocBlock \/ GetBlockAddr \/ \E b \in Chosen : FreeBlock(b) \/ SetBlock(b)
  PROVE  Inv'
<1>0. Live
  BY DEF AllocBlock, GetBlockAddr, FreeBlock, SetBlock
<1>1. /\ memBits \in SUBSET Blocks /\ memUsed \in SUBSET INodes
      /\ held \in Promises /\ held = [blocks |-> held.blocks, inodes |-> held.inodes]
      /\ held.blocks \subseteq memBits /\ held.inodes \subseteq memUsed
  BY <1>0, HeldFacts
<1>2. 0 .. LastBlock \subseteq Blocks /\ Chosen \subseteq Blocks
  BY GeometryAssumption DEF Blocks
<1>3. UNCHANGED <<dev, mounted, live, memUsed, write, kept>>
  BY DEF AllocBlock, GetBlockAddr, FreeBlock, SetBlock
<1>4. ASSUME NEW b \in 0 .. LastBlock, setBit(b), held' = [held EXCEPT !.blocks = @ \cup {b}]
      PROVE  /\ memBits' \in SUBSET Blocks /\ held' \in Promises
             /\ held'.blocks \subseteq memBits' /\ held'.inodes = held.inodes
  BY <1>1, <1>2, <1>4 DEF setBit, Promises
<1>5. ASSUME NEW b \in Blocks, setBit(b), held' = held
      PROVE  /\ memBits' \in SUBSET Blocks /\ held' \in Promises
             /\ held'.blocks \subseteq memBits' /\ held'.inodes = held.inodes
  BY <1>1, <1>5 DEF setBit
<1>6. ASSUME NEW b \in Blocks, clearBit(b), held' = [held EXCEPT !.blocks = @ \ {b}]
      PROVE  /\ memBits' \in SUBSET Blocks /\ held' \in Promises
             /\ held'.blocks \subseteq memBits' /\ held'.inodes = held.inodes
  BY <1>1, <1>6 DEF clearBit, Promises
<1>7. /\ memBits' \in SUBSET Blocks /\ held' \in Promises
      /\ held'.blocks \subseteq memBits' /\ held'.inodes = held.inodes
  <2>1. CASE AllocBlock
    BY <2>1, <1>4 DEF AllocBlock
  <2>2. CASE GetBlockAddr
    BY <2>2, <1>2, <1>5 DEF GetBlockAddr, getDiskAddressOfBlock
  <2>3. CASE \E b \in Chosen : FreeBlock(b) \/ SetBlock(b)
    BY <2>3, <1>2, <1>5, <1>6 DEF FreeBlock, SetBlock
  <2> QED BY <2>1, <2>2, <2>3
<1> QED BY <1>0, <1>1, <1>3, <1>7, CommandStep

LEMMA INodeCommandsStep ==
  ASSUME Inv, AllocINode \/ \E i \in INodes : FreeINode(i) \/ SetINode(i)
  PROVE  Inv'
<1>0. Live
  BY DEF AllocINode, FreeINode, SetINode
<1>1. /\ memBits \in SUBSET Blocks /\ memUsed \in SUBSET INodes
      /\ held \in Promises /\ held = [blocks |-> held.blocks, inodes |-> held.inodes]
      /\ held.blocks \subseteq memBits /\ held.inodes \subseteq memUsed
  BY <1>0, HeldFacts
<1>2. UNCHANGED <<dev, mounted, live, memBits, write, kept>>
  BY DEF AllocINode, FreeINode, SetINode
<1>3. ASSUME NEW i \in INodes,
             \/ memUsed' = memUsed \cup {i} /\ held' = [held EXCEPT !.inodes = @ \cup {i}]
             \/ memUsed' = memUsed \ {i} /\ held' = [held EXCEPT !.inodes = @ \ {i}]
             \/ memUsed' = memUsed \cup {i} /\ held' = held
      PROVE  /\ memUsed' \in SUBSET INodes /\ held' \in Promises
             /\ held'.inodes \subseteq memUsed' /\ held'.blocks = held.blocks
  BY <1>1, <1>3 DEF Promises
<1>4. /\ memUsed' \in SUBSET INodes /\ held' \in Promises
      /\ held'.inodes \subseteq memUsed' /\ held'.blocks = held.blocks
  <2>1. CASE AllocINode
    BY <2>1, <1>3 DEF AllocINode
  <2>2. CASE \E i \in INodes : FreeINode(i) \/ SetINode(i)
    BY <2>2, <1>3 DEF FreeINode, SetINode, freeiNode, setiNode
  <2> QED BY <2>1, <2>2
<1> QED BY <1>0, <1>1, <1>2, <1>4, CommandStep

-----------------------------------------------------------------------------
(* The theorems.                                                           *)

LEMMA InvStep == Inv /\ [Next]_vars => Inv'
<1> SUFFICES ASSUME Inv, [Next]_vars PROVE Inv'
  OBVIOUS
<1>1. CASE Newfs \/ NewfsReturns \/ Unmount \/ UnmountReturns \/ Mount \/ Quit
  BY <1>1, NewfsStep, NewfsReturnsStep, UnmountStep, UnmountReturnsStep, MountStep, QuitStep
<1>2. CASE WriteMasterBlock \/ WriteBlockMap \/ WriteINodeMap
  BY <1>2, WriteMasterBlockStep, WriteBlockMapStep, WriteINodeMapStep
<1>3. CASE AllocBlock \/ GetBlockAddr \/ \E b \in Chosen : FreeBlock(b) \/ SetBlock(b)
  BY <1>3, BlockCommandsStep
<1>4. CASE AllocINode \/ \E i \in INodes : FreeINode(i) \/ SetINode(i)
  BY <1>4, INodeCommandsStep
<1>5. CASE UNCHANGED vars
  BY <1>5 DEF vars, mem, write, Inv, TypeOK, Control, DeviceKnows, MemoryKnows, KeptIsHeld,
              WrittenSoFar, Marked, UsedIn, ImageBits, ImageUsed, PartOf
<1> QED BY <1>1, <1>2, <1>3, <1>4, <1>5 DEF Next

LEMMA Invariant == Spec => []Inv
BY InvInit, InvStep, PTL DEF Spec

(* The state of the C++ file system is well-typed: no loop over the inode  *)
(* map leaves it, and no command names a block or an inode that is not     *)
(* there (inode.cc:26-61, blockMap.cc:49-91).                              *)
THEOREM CxxTypeCorrect == Spec => []TypeOK
<1>1. Inv => TypeOK
  BY DEF Inv
<1> QED BY <1>1, Invariant, PTL

(* What newfs and unmount wrote without an error is what a mount reads:    *)
(* the loops that write the maps and those that read them agree about the  *)
(* layout, for every geometry (blockMap.cc:49-66, inode.cc:26-61).         *)
THEOREM SavedMapsAreReadBack == Spec => []SavedIsReadBack
<1>1. Inv => SavedIsReadBack
  <2> SUFFICES ASSUME Inv, Written, ok
               PROVE  ReadBlockMap = {ImageBits} /\ ReadINodeMap = ImageUsed
    BY DEF SavedIsReadBack
  <2>1. /\ ReadBlockMap = {Marked}
        /\ ReadINodeMap = { i \in INodes : i \in UsedIn(i \div INodesPerBlock) }
    BY ReadFacts DEF Inv
  <2>2. /\ Marked = ImageBits
        /\ \A i \in INodes : i \in UsedIn(i \div INodesPerBlock) <=> i \in ImageUsed
    BY AllWritten
  <2>3. ImageUsed \in SUBSET INodes
    BY ImageFacts
  <2> QED BY <2>1, <2>2, <2>3
<1> QED BY <1>1, Invariant, PTL

(* A block or an inode that a user was given stays given, in the session   *)
(* and, once an unmount has saved it, on the device, through torn and      *)
(* failed writes, exits without unmount and mounts over a mounted file     *)
(* system (my_shell.cpp:131-202, 228-262, 281-290).                        *)
THEOREM CxxPromisesAreKept == Spec => []PromisesKept
<1>1. Inv => PromisesKept
  <2> SUFFICES ASSUME Inv PROVE PromisesKept
    OBVIOUS
  <2>1. /\ ReadBlockMap = {Marked}
        /\ ReadINodeMap = { i \in INodes : i \in UsedIn(i \div INodesPerBlock) }
    BY ReadFacts DEF Inv
  <2>2. kept.inodes \subseteq INodes
    BY DEF Inv, TypeOK, Promises
  <2> QED BY <2>1, <2>2 DEF Inv, DeviceKnows, MemoryKnows, PromisesKept
<1> QED BY <1>1, Invariant, PTL
=============================================================================

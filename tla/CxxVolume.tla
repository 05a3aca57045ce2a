------------------------------ MODULE CxxVolume ------------------------------
(***************************************************************************)
(* The volume of the C++ file system, my_Blocks_c++: a device of blocks    *)
(* that the master block, the block map and the inode map are written to   *)
(* and read back from, and the commands of its shell.                      *)
(*                                                                         *)
(* Nothing on the device says where the maps are: newfs and mount both     *)
(* compute that from the size of the device (MasterBlock's constructor),   *)
(* so the sizes are constants here and the addresses are computed.  There  *)
(* are no files: no command writes a data block, and block_ptrs is never   *)
(* assigned.                                                               *)
(***************************************************************************)
EXTENDS Integers

CONSTANTS BytesPerBlock,  \* bytesPerBlock
          BlockCount,     \* blockCount
          CharBit,        \* bits of a char: 8
          SizeOfINode,    \* sizeof(iNode): 128
          MaxINodes,      \* "never more than 128"
          LastBlock,      \* bound: no block behind it is allocated
          Chosen          \* bound: the blocks freeBlock and setBlock are given

CeilDiv(n, d) == (n + d - 1) \div d

Blocks == 0 .. BlockCount - 1

-----------------------------------------------------------------------------
(* MasterBlock's constructor.                                              *)
MBLOC   == 0
MAPADDR == 1

\* Blocks kept for the block map: one for every BytesPerBlock blocks.
Protect == CeilDiv(BlockCount, BytesPerBlock)

INodeMapAddress == MAPADDR + Protect
INodesPerBlock  == BytesPerBlock \div SizeOfINode

INodeCnt ==
  LET wanted == ((BlockCount - (Protect + 1)) \div 4) * INodesPerBlock
  IN  IF wanted > MaxINodes THEN MaxINodes ELSE wanted
INodes == 0 .. INodeCnt - 1

\* Mutant: a last block that is not full is forgotten.
INodeBlocks_RoundedDown == INodeCnt \div INodesPerBlock

\* The blocks readiNodeMap and writeiNodeMap go through.
INodeBlocks == CeilDiv(INodeCnt, INodesPerBlock)

\* newfs dies of a division by zero if a block holds no inode, and indexes
\* its block map out of range if the inode map is not on the device.
ASSUME GeometryAssumption ==
  /\ BytesPerBlock \in Nat /\ BlockCount \in Nat /\ MaxINodes \in Nat
  /\ CharBit \in Nat \ {0} /\ SizeOfINode \in Nat \ {0}
  /\ SizeOfINode <= BytesPerBlock
  /\ INodeMapAddress < BlockCount
  /\ LastBlock \in Blocks /\ Chosen \subseteq Blocks

\* What newfs marks: the master block and the first block of each map.
Reserved == {MBLOC, MAPADDR, INodeMapAddress}

\* writeBlockMap writes one block, whatever the number of bits.
Stored == { b \in Blocks : b < BytesPerBlock * CharBit }

VARIABLES
  dev,         \* the device: what each block holds
  mounted,     \* the shell's flag
  live,        \* bdv, bmp, mbl and imp point to objects that exist
  memBits,     \* bmp: the marked blocks
  memUsed,     \* imp: the inodes with status 1
  phase,       \* "idle", or what newfs or unmount writes next
  caller,      \* who writes: "newfs", "unmount" or "none"
  next,        \* loop index of writeiNodeMap
  \* ghosts: no code reads them
  ok,          \* no write of this newfs or unmount failed
  held,        \* blocks and inodes the user was given and did not free
  kept         \* those of them that the device must know

mem   == <<memBits, memUsed>>
write == <<phase, caller, next, ok>>
vars  == <<dev, mounted, live, mem, write, held, kept>>

Nothing  == [blocks |-> {}, inodes |-> {}]
Promises == [blocks : SUBSET Blocks, inodes : SUBSET INodes]

Zero      == [kind |-> "zero"]
Master    == [kind |-> "master"]
Map(bits) == [kind |-> "map", bits |-> bits]
Part(used) == [kind |-> "inodes", used |-> used]

\* No device yet.
Init ==
  /\ dev = [b \in Blocks |-> Zero]
  /\ mounted = FALSE /\ live = FALSE /\ memBits = {} /\ memUsed = {}
  /\ phase = "idle" /\ caller = "none" /\ next = 0 /\ ok = TRUE
  /\ held = Nothing /\ kept = Nothing

TypeOK ==
  /\ \A b \in Blocks : dev[b].kind \in {"zero", "master", "map", "inodes"}
  /\ mounted \in BOOLEAN /\ live \in BOOLEAN
  /\ memBits \in SUBSET Blocks /\ memUsed \in SUBSET INodes
  /\ phase \in {"idle", "master", "map", "inodes"}
  /\ caller \in {"none", "newfs", "unmount"}
  /\ next \in 0 .. INodeBlocks /\ ok \in BOOLEAN
  /\ held \in Promises /\ kept \in Promises

Idle == phase = "idle"
Live == Idle /\ mounted /\ live

-----------------------------------------------------------------------------
(* Reading the maps.                                                       *)

(* What readBlockMap may return.  The bits that do not fit the block are   *)
(* read behind the buffer: they may have any value.                        *)
ReadBlockMap ==
  LET saved == IF dev[MAPADDR].kind = "map" THEN dev[MAPADDR].bits ELSE {}
  IN  { saved \cup rest : rest \in SUBSET (Blocks \ Stored) }

\* readiNodeMap; a block of zeros holds free inodes.
ReadINodeMap ==
  { i \in INodes :
      LET k == i \div INodesPerBlock
          c == dev[INodeMapAddress + k]
      IN  k < INodeBlocks /\ c.kind = "inodes" /\ i \in c.used }

-----------------------------------------------------------------------------
(* Writing them.                                                           *)
ImageBits == IF caller = "newfs" THEN Reserved ELSE memBits
ImageUsed == IF caller = "newfs" THEN {} ELSE memUsed

StartWrite(who, first) ==
  phase' = first /\ caller' = who /\ next' = 0 /\ ok' = TRUE

\* The device file is extended with zeros to the size asked for.
BlockDevice == [b \in Blocks |-> Zero]

(* newfs removes the device file and makes a new one of zeros.  It does so *)
(* with a file system mounted too, and keeps its own objects in the        *)
(* variables of the shell: those of the mounted one are lost here, and the *)
(* new ones are deleted at the end, so the variables then point to none.   *)
Newfs ==
  /\ Idle
  /\ dev' = BlockDevice
  /\ live' = FALSE /\ memBits' = {} /\ memUsed' = {}
  /\ StartWrite("newfs", "master")
  /\ held' = Nothing /\ kept' = Nothing
  /\ UNCHANGED mounted

(* unmount.  (After a newfs it would work on deleted objects: it writes to *)
(* no device and dies, which is Crash.)                                    *)
Unmount ==
  /\ Live
  /\ StartWrite("unmount", "map")
  /\ kept' = [blocks |-> kept.blocks \cap held.blocks,
              inodes |-> kept.inodes \cap held.inodes]
  /\ UNCHANGED <<dev, mounted, live, mem, held>>

\* writeBlock: the block is written, or a line is printed and the block is as it
\* was.  (A bound: after a failed seek the code writes all the same, wherever
\* the device is positioned.)
WriteBlock(b, contents) ==
  \/ dev' = [dev EXCEPT ![b] = contents] /\ UNCHANGED ok
  \/ ok' = FALSE /\ UNCHANGED dev

WriteMasterBlock ==
  /\ phase = "master"
  /\ WriteBlock(MBLOC, Master)
  /\ phase' = "map"
  /\ UNCHANGED <<mounted, live, mem, caller, next, held, kept>>

WriteBlockMap ==
  /\ phase = "map"
  /\ WriteBlock(MAPADDR, Map(ImageBits \cap Stored))
  /\ phase' = "inodes"
  /\ UNCHANGED <<mounted, live, mem, caller, next, held, kept>>

\* Mutant: the loop of writeiNodeMap goes round once more.
WriteINodeMap_OneMore ==
  /\ phase = "inodes" /\ next <= INodeBlocks
  /\ WriteBlock(INodeMapAddress + next,
                Part({ i \in ImageUsed : i \div INodesPerBlock = next }))
  /\ next' = next + 1
  /\ UNCHANGED <<mounted, live, mem, phase, caller, held, kept>>

\* One iteration of writeiNodeMap.
WriteINodeMap ==
  /\ phase = "inodes" /\ next < INodeBlocks
  /\ WriteBlock(INodeMapAddress + next,
                Part({ i \in ImageUsed : i \div INodesPerBlock = next }))
  /\ next' = next + 1
  /\ UNCHANGED <<mounted, live, mem, phase, caller, held, kept>>

Written == phase = "inodes" /\ next = INodeBlocks

\* The deletes: the objects are gone, and nobody writes any more.
Delete ==
  /\ live' = FALSE /\ memBits' = {} /\ memUsed' = {}
  /\ phase' = "idle" /\ caller' = "none" /\ next' = 0 /\ ok' = TRUE
  /\ held' = Nothing

\* The end of newfs, which leaves the flag as it is.
NewfsReturns ==
  /\ Written /\ caller = "newfs"
  /\ Delete
  /\ UNCHANGED <<dev, mounted, kept>>

\* The end of unmount.
UnmountReturns ==
  /\ Written /\ caller = "unmount"
  /\ Delete
  /\ mounted' = FALSE
  /\ kept' = IF ok THEN held ELSE kept
  /\ UNCHANGED dev

-----------------------------------------------------------------------------
(* The other commands.                                                     *)

\* grabBlock finds the sizes of the device in a master block.
grabBlock == dev[MBLOC] = Master

\* Mutant: mount allocates an inode map and does not read it.
Mount_NoINodeMap ==
  /\ Idle /\ grabBlock
  /\ mounted' = TRUE /\ live' = TRUE
  /\ memBits' \in ReadBlockMap
  /\ memUsed' = {}
  /\ held' = kept
  /\ UNCHANGED <<dev, write, kept>>

(* mount, which does not ask whether a file system is mounted: the one     *)
(* that is is forgotten.  Environment bound: the device has the master     *)
(* block of a newfs.  (All zeros: readiNodeMap divides by zero.)           *)
Mount ==
  /\ Idle /\ grabBlock
  /\ mounted' = TRUE /\ live' = TRUE
  /\ memBits' \in ReadBlockMap
  /\ memUsed' = ReadINodeMap
  /\ held' = kept
  /\ UNCHANGED <<dev, write, kept>>

\* setBit and clearBit do not mind a bit that is so already.
setBit(b)   == memBits' = memBits \cup {b}
clearBit(b) == memBits' = memBits \ {b}

\* allocBlock's choice, the first clear bit; with none nothing changes.
FirstClear(b) == b \notin memBits /\ \A c \in 0 .. b - 1 : c \in memBits

AllocBlock ==
  /\ Live
  /\ \E b \in 0 .. LastBlock :
       /\ FirstClear(b)
       /\ setBit(b)
       /\ held' = [held EXCEPT !.blocks = @ \cup {b}]
  /\ UNCHANGED <<dev, mounted, live, memUsed, write, kept>>

\* freeBlock and setBlock do not ask whether the bit was set, or whose it is.
FreeBlock(b) ==
  /\ Live
  /\ clearBit(b)
  /\ held' = [held EXCEPT !.blocks = @ \ {b}]
  /\ UNCHANGED <<dev, mounted, live, memUsed, write, kept>>

SetBlock(b) ==
  /\ Live
  /\ setBit(b)
  /\ UNCHANGED <<dev, mounted, live, memUsed, write, held, kept>>

(* addrToInode returns the address of a local copy of the inode, which is  *)
(* gone by then: what is read there may be a level above 0 or an address,  *)
(* and nothing changes, or an absent block, and if the user asked for it a *)
(* block is marked.  The inode is not told (block_ptrs is not assigned).   *)
getDiskAddressOfBlock == \E b \in 0 .. LastBlock : FirstClear(b) /\ setBit(b)

\* getBlockAddr, the command.
GetBlockAddr ==
  /\ Live
  /\ getDiskAddressOfBlock
  /\ UNCHANGED <<dev, mounted, live, memUsed, write, held, kept>>

FirstFree(i) == i \notin memUsed /\ \A j \in 0 .. i - 1 : j \in memUsed

\* allociNode; with no inode free nothing changes and -1 is printed.
AllocINode ==
  /\ Live
  /\ \E i \in INodes :
       /\ FirstFree(i)
       /\ memUsed' = memUsed \cup {i}
       /\ held' = [held EXCEPT !.inodes = @ \cup {i}]
  /\ UNCHANGED <<dev, mounted, live, memBits, write, kept>>

freeiNode(i) == memUsed' = memUsed \ {i}
setiNode(i)  == memUsed' = memUsed \cup {i}

FreeINode(i) ==
  /\ Live
  /\ freeiNode(i)
  /\ held' = [held EXCEPT !.inodes = @ \ {i}]
  /\ UNCHANGED <<dev, mounted, live, memBits, write, kept>>

SetINode(i) ==
  /\ Live
  /\ setiNode(i)
  /\ UNCHANGED <<dev, mounted, live, memBits, write, held, kept>>

(* quit ("You forgot to unmount..."), Ctrl+C at any time, or a command on  *)
(* deleted objects: the program is gone, and another one starts.           *)
Quit ==
  /\ mounted \/ ~Idle
  /\ mounted' = FALSE
  /\ Delete
  /\ UNCHANGED <<dev, kept>>

Next ==
  \/ Newfs \/ NewfsReturns \/ Unmount \/ UnmountReturns \/ Mount \/ Quit
  \/ WriteMasterBlock \/ WriteBlockMap \/ WriteINodeMap
  \/ AllocBlock \/ GetBlockAddr \/ AllocINode
  \/ \E b \in Chosen : FreeBlock(b) \/ SetBlock(b)
  \/ \E i \in INodes : FreeINode(i) \/ SetINode(i)

Spec == Init /\ [][Next]_vars

-----------------------------------------------------------------------------
(* Properties.                                                             *)

(* When newfs and unmount have made their last write and none failed, a    *)
(* mount of the device reads back every bit and every inode they wrote:    *)
(* the two computations of the layout, the two loops over the inode map    *)
(* and the two over the block map agree ("save set to file" and "read set  *)
(* from file", blockMap.cc:49-66; inode.cc:26-61; README.md tester1-6).    *)
SavedIsReadBack ==
  Written /\ ok => ReadBlockMap = {ImageBits} /\ ReadINodeMap = ImageUsed

(* A block allocBlock printed, or an inode allociNode printed, is not      *)
(* given to anybody else until the user frees it: it is marked as long as  *)
(* the session lasts, and once an unmount has saved it, on the device too, *)
(* through torn and failed writes of later unmounts, exits without         *)
(* unmount, and mounts over a mounted file system, until the user frees it *)
(* and unmounts (my_shell.cpp:131-202, 228-262, 281-290).                  *)
PromisesKept ==
  /\ kept.inodes \subseteq ReadINodeMap
  /\ \A bits \in ReadBlockMap : kept.blocks \subseteq bits
  /\ mounted /\ live =>
       held.blocks \subseteq memBits /\ held.inodes \subseteq memUsed
=============================================================================

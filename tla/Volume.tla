------------------------------- MODULE Volume -------------------------------
(***************************************************************************)
(* The volume of the dylblock file system: the master block, the block map *)
(* and the inode map, as they are on the device and as a mounted file      *)
(* system holds them in memory (dylan_bit_set.c, inode.c, filesystem.c,    *)
(* and the block commands of my_shell.c).                                  *)
(*                                                                         *)
(* newfs and unmount write the volume one device block at a time, and the  *)
(* program may die between any two of those writes (my_shell.c:47 invites  *)
(* the user to press Ctrl+C "at any time") or a write may fail.  What is   *)
(* in memory is lost then; what is on the device is a mixture of the old   *)
(* and the new volume.                                                     *)
(*                                                                         *)
(* A block is a number; block 0 holds the master block, so a block pointer *)
(* of 0 means "absent" (inode.c:177), as does the -1 a failed allocation   *)
(* leaves there: both are NoBlock.                                         *)
(***************************************************************************)
EXTENDS Integers

CONSTANTS BlockCount,    \* m_blockCount: device blocks
          InodeCount,    \* master_block.inode_count
          PtrsPerInode,  \* BLOCK_PTRS_PER_INODE_STRUCT
          MapBlocks,     \* getBlocksInBlockMap(bd): blocks of the block map
          InodeBlocks,   \* blocks_in_inode_map
          MapBlockOf,    \* the block of the block map that holds a block's bit
          InodeBlockOf,  \* the block of the inode map that holds an inode
          FreedBlocks    \* the blocks that users give to freeBlock

Blocks   == 0 .. BlockCount - 1
Inodes   == 0 .. InodeCount - 1
Slots    == 0 .. PtrsPerInode - 1
NoBlock  == 0
Free      == "Free"        \* FreeStatus
Allocated == "Allocated"   \* AllocatedStatus, or UnusedStatus: not FreeStatus
Root     == 0

\* prealloc_blocks in newfs: the master block, the block map, the inode map.
Prealloc == 1 + MapBlocks + InodeBlocks
Reserved == 0 .. Prealloc - 1

\* newfs refuses a device that has no block left for data (filesystem.c:48).
ASSUME SizeAssumption ==
  /\ MapBlocks \in Nat \ {0}
  /\ InodeBlocks \in Nat \ {0}
  /\ BlockCount \in Nat
  /\ Prealloc < BlockCount
  /\ InodeCount \in Nat \ {0}
  /\ PtrsPerInode \in Nat
  /\ FreedBlocks \subseteq Blocks

\* The inode map fits the blocks counted for it, and the bits of the reserved
\* blocks are all in the first block of the block map, behind its header.
ASSUME LayoutAssumption ==
  /\ MapBlockOf \in [Blocks -> Nat]
  /\ InodeBlockOf \in [Inodes -> 0 .. InodeBlocks - 1]
  /\ \A b \in Reserved : MapBlockOf[b] = 0

\* The blocks whose bits are in the blocks counted for the block map.
Stored == { b \in Blocks : MapBlockOf[b] < MapBlocks }

VARIABLES
  \* the device
  master,      \* block 0 holds a master block
  diskHdr,     \* the block map on the device starts with BITSET_MAGIC and count
  diskBits,    \* the blocks marked in the block map
  diskStatus,  \* status of every inode
  diskPtr,     \* block_ptrs of every inode
  \* the mounted FileSystem
  mounted, memHdr, memBits, memStatus, memPtr,
  \* the volume write in progress
  phase,       \* "idle", or what is written next
  caller,      \* who writes: "newfs", "unmount" or "none"
  next,        \* loop index i of writeBlockMap and writeINodeMap
  ok,          \* writeZero == 0 and inmZero == 0
  \* ghosts: no code reads them
  held,        \* blocks the shell's allocBlock handed out and nobody freed
  diskSound,   \* the device was last written by a complete newfs, or by an
               \* unmount of a memSound file system whose map was written
  memSound,    \* mounted from a sound device, and since then freeBlock was
               \* only given blocks that allocBlock had handed out
  tampered     \* a reserved block was given to freeBlock, ever

disk   == <<master, diskHdr, diskBits, diskStatus, diskPtr>>
mem    == <<memHdr, memBits, memStatus, memPtr>>
write  == <<phase, caller, next, ok>>
ghosts == <<held, diskSound, memSound, tampered>>
vars   == <<disk, mounted, mem, write, ghosts>>

Status   == {Free, Allocated}
Pointers == [Inodes -> [Slots -> Blocks]]

TypeOK ==
  /\ master \in BOOLEAN /\ diskHdr \in BOOLEAN
  /\ diskBits \in SUBSET Blocks
  /\ diskStatus \in [Inodes -> Status]
  /\ diskPtr \in Pointers
  /\ mounted \in BOOLEAN /\ memHdr \in BOOLEAN
  /\ memBits \in SUBSET Blocks
  /\ memStatus \in [Inodes -> Status]
  /\ memPtr \in Pointers
  /\ phase \in {"idle", "master", "map", "inodes", "close"}
  /\ caller \in {"none", "newfs", "unmount"}
  /\ next \in Nat
  /\ ok \in BOOLEAN
  /\ held \in SUBSET Blocks
  /\ diskSound \in BOOLEAN /\ memSound \in BOOLEAN /\ tampered \in BOOLEAN

-----------------------------------------------------------------------------
(* What newfs builds before it writes: the reserved blocks are marked, the *)
(* root directory has the first inode, and no inode has a block.           *)
FreshStatus == [i \in Inodes |-> IF i = Root THEN Allocated ELSE Free]
FreshPtr    == [i \in Inodes |-> [s \in Slots |-> NoBlock]]

\* Mutant: the loop that marks the reserved blocks is one short.
ImageBits_OneShort ==
  IF caller = "newfs" THEN 0 .. Prealloc - 2 ELSE memBits

(* The volume being written: newfs has a FileSystem of its own, unmount    *)
(* writes the mounted one.                                                 *)
ImageBits   == IF caller = "newfs" THEN Reserved ELSE memBits
ImageStatus == IF caller = "newfs" THEN FreshStatus ELSE memStatus
ImagePtr    == IF caller = "newfs" THEN FreshPtr ELSE memPtr
ImageHdr    == IF caller = "newfs" THEN TRUE ELSE memHdr

\* A device as the file system finds it before the first newfs: zeros, which
\* are UnusedStatus in an inode.
Init ==
  /\ master = FALSE /\ diskHdr = FALSE /\ diskBits = {}
  /\ diskStatus = [i \in Inodes |-> Allocated] /\ diskPtr = FreshPtr
  /\ mounted = FALSE /\ memHdr = FALSE /\ memBits = {}
  /\ memStatus = [i \in Inodes |-> Free] /\ memPtr = FreshPtr
  /\ phase = "idle" /\ caller = "none" /\ next = 0 /\ ok = TRUE
  /\ held = {} /\ diskSound = FALSE /\ memSound = FALSE /\ tampered = FALSE

Idle == phase = "idle"

StartWrite(who, first) ==
  phase' = first /\ caller' = who /\ next' = 0 /\ ok' = TRUE
EndWrite == phase' = "idle" /\ caller' = "none" /\ next' = 0 /\ ok' = TRUE

\* The FileSystem in memory is no longer there.
DropMemory ==
  /\ mounted' = FALSE /\ memHdr' = FALSE /\ memBits' = {}
  /\ memStatus' = [i \in Inodes |-> Free] /\ memPtr' = FreshPtr
  /\ memSound' = FALSE

-----------------------------------------------------------------------------
(* Writing a volume.                                                       *)

(* newfs, up to its first write.  my_shell lets it run on the device that  *)
(* is mounted; the mounted FileSystem is not touched.                      *)
Newfs ==
  /\ Idle
  /\ StartWrite("newfs", "master")
  /\ held' = IF mounted THEN held ELSE {}
  /\ UNCHANGED <<disk, mounted, mem, diskSound, memSound, tampered>>

WriteMasterBlock ==
  /\ phase = "master"
  /\ master' = TRUE
  /\ phase' = "map"
  /\ diskSound' = FALSE
  /\ UNCHANGED <<diskHdr, diskBits, diskStatus, diskPtr, mounted, mem,
                 caller, next, ok, held, memSound, tampered>>

\* A writeBlock of newfs failed: it returns -1.
NewfsFails ==
  /\ caller = "newfs" /\ phase \in {"master", "map", "inodes"}
  /\ EndWrite
  /\ UNCHANGED <<disk, mounted, mem, ghosts>>

\* Mutant: unmount saves the inode map only.
Unmount_NoBlockMap ==
  /\ Idle /\ mounted
  /\ StartWrite("unmount", "inodes")
  /\ diskSound' = (diskSound /\ memSound)
  /\ UNCHANGED <<disk, mounted, mem, held, memSound, tampered>>

\* unmount, once its flush of the directory cache (INodeWriteBlock) is done.
Unmount ==
  /\ Idle /\ mounted
  /\ StartWrite("unmount", "map")
  /\ diskSound' = (diskSound /\ memSound)
  /\ UNCHANGED <<disk, mounted, mem, held, memSound, tampered>>

\* One iteration of writeBlockMap; its assertion on the magic is ImageHdr.
WriteBlockMap ==
  /\ phase = "map" /\ ImageHdr
  /\ diskHdr' = (diskHdr \/ next = 0)
  /\ diskBits' = { b \in Blocks :
                     b \in (IF MapBlockOf[b] = next THEN ImageBits ELSE diskBits) }
  /\ IF next + 1 < MapBlocks
       THEN phase' = phase /\ next' = next + 1
       ELSE phase' = "inodes" /\ next' = 0
  /\ UNCHANGED <<master, diskStatus, diskPtr, mounted, mem, caller, ok, ghosts>>

\* A writeBlock of unmount's writeBlockMap failed: unmount goes on.
WriteBlockMapFails ==
  /\ caller = "unmount" /\ phase = "map" /\ ImageHdr
  /\ phase' = "inodes" /\ next' = 0 /\ ok' = FALSE
  /\ diskSound' = FALSE
  /\ UNCHANGED <<disk, mounted, mem, caller, held, memSound, tampered>>

\* Mutant: the number of blocks of the inode map is rounded down.
WriteINodeMap_OneShort ==
  /\ phase = "inodes"
  /\ diskStatus' = [i \in Inodes |-> IF InodeBlockOf[i] = next
                                       THEN ImageStatus[i] ELSE diskStatus[i]]
  /\ diskPtr' = [i \in Inodes |-> IF InodeBlockOf[i] = next
                                    THEN ImagePtr[i] ELSE diskPtr[i]]
  /\ IF next + 2 < InodeBlocks
       THEN phase' = phase /\ next' = next + 1
       ELSE phase' = "close" /\ next' = 0
  /\ UNCHANGED <<master, diskHdr, diskBits, mounted, mem, caller, ok, ghosts>>

\* Mutant: the loop index is not advanced.
WriteINodeMap_Stuck ==
  /\ phase = "inodes"
  /\ diskStatus' = [i \in Inodes |-> IF InodeBlockOf[i] = next
                                       THEN ImageStatus[i] ELSE diskStatus[i]]
  /\ diskPtr' = [i \in Inodes |-> IF InodeBlockOf[i] = next
                                    THEN ImagePtr[i] ELSE diskPtr[i]]
  /\ IF next + 1 < InodeBlocks
       THEN phase' = phase /\ next' = next
       ELSE phase' = "close" /\ next' = 0
  /\ UNCHANGED <<master, diskHdr, diskBits, mounted, mem, caller, ok, ghosts>>

\* One iteration of writeINodeMap.
WriteINodeMap ==
  /\ phase = "inodes"
  /\ diskStatus' = [i \in Inodes |-> IF InodeBlockOf[i] = next
                                       THEN ImageStatus[i] ELSE diskStatus[i]]
  /\ diskPtr' = [i \in Inodes |-> IF InodeBlockOf[i] = next
                                    THEN ImagePtr[i] ELSE diskPtr[i]]
  /\ IF next + 1 < InodeBlocks
       THEN phase' = phase /\ next' = next + 1
       ELSE phase' = "close" /\ next' = 0
  /\ UNCHANGED <<master, diskHdr, diskBits, mounted, mem, caller, ok, ghosts>>

\* A writeBlock of unmount's writeINodeMap failed: unmount closes.
WriteINodeMapFails ==
  /\ caller = "unmount" /\ phase = "inodes"
  /\ phase' = "close" /\ next' = 0 /\ ok' = FALSE
  /\ UNCHANGED <<disk, mounted, mem, caller, ghosts>>

\* closeBlockDevice, and the return of newfs or unmount.
CloseBlockDevice ==
  /\ phase = "close"
  /\ EndWrite
  /\ \/ /\ caller = "newfs"
        /\ diskSound' = TRUE
        /\ UNCHANGED <<mounted, mem, memSound>>
     \/ /\ caller = "unmount"
        /\ diskSound' = (diskSound \/ (ok /\ memSound))
        /\ DropMemory
  /\ UNCHANGED <<disk, held, tampered>>

-----------------------------------------------------------------------------
(* A mounted file system.                                                  *)

\* bootstrapDevice finds the magic of a master block.
bootstrapDevice == master

\* Mutant: mount makes a block map and does not read the one that is there.
Mount_NewBlockMap ==
  /\ Idle /\ ~mounted /\ bootstrapDevice
  /\ mounted' = TRUE
  /\ memHdr' = TRUE /\ memBits' = Reserved
  /\ memStatus' = diskStatus /\ memPtr' = diskPtr
  /\ memSound' = diskSound
  /\ UNCHANGED <<disk, write, held, diskSound, tampered>>

(* mount reads everything; a block map without magic only earns a warning. *)
(* readBlockMap has no more than the blocks counted for the map: the bits  *)
(* of the others are what the memory behind its buffer holds.              *)
Mount ==
  /\ Idle /\ ~mounted /\ bootstrapDevice
  /\ mounted' = TRUE
  /\ memHdr' = diskHdr
  /\ \E rest \in SUBSET (Blocks \ Stored) : memBits' = diskBits \cup rest
  /\ memStatus' = diskStatus /\ memPtr' = diskPtr
  /\ memSound' = diskSound
  /\ UNCHANGED <<disk, write, held, diskSound, tampered>>

\* The blocks allocateBlock may return: count is 0 if there is no header.
Unmarked == IF memHdr THEN Blocks \ memBits ELSE {}

\* allocateBlock takes the lowest unmarked block.
Lowest(b) == b \in Unmarked /\ \A c \in Unmarked : b <= c

\* Mutant: allocateBlock searches i <= count.
AllocateBlock_OffByOne ==
  /\ Idle /\ mounted /\ memHdr
  /\ \E b \in 0 .. BlockCount :
       /\ b \notin memBits /\ \A c \in 0 .. b - 1 : c \in memBits
       /\ memBits' = memBits \cup {b}
       /\ held' = held \cup {b}
  /\ UNCHANGED <<disk, mounted, memHdr, memStatus, memPtr, write,
                 diskSound, memSound, tampered>>

\* allocBlock, the command: allocateBlock, and the user is told the block.
AllocateBlock ==
  /\ Idle /\ mounted
  /\ \E b \in Blocks :
       /\ Lowest(b)
       /\ memBits' = memBits \cup {b}
       /\ held' = held \cup {b}
  /\ UNCHANGED <<disk, mounted, memHdr, memStatus, memPtr, write,
                 diskSound, memSound, tampered>>

\* freeBlock only complains about a block that is free already.
freeBlock(b) == b \in memBits /\ memBits' = memBits \ {b}

\* freeBlock, the command.  It takes any block, also one that an inode has, or
\* one of the volume's own.
FreeBlock(b) ==
  /\ Idle /\ mounted
  /\ freeBlock(b)
  /\ held' = held \ {b}
  /\ memSound' = (memSound /\ b \in held)
  /\ tampered' = (tampered \/ b \in Reserved)
  /\ UNCHANGED <<disk, mounted, memHdr, memStatus, memPtr, write, diskSound>>

FirstFree(i) == memStatus[i] = Free /\ \A j \in Inodes : memStatus[j] = Free => i <= j

\* allocINode and mkdir: the first free inode; with none free nothing changes.
AllocateINode ==
  /\ Idle /\ mounted
  /\ \E i \in Inodes :
       /\ FirstFree(i)
       /\ memStatus' = [memStatus EXCEPT ![i] = Allocated]
  /\ UNCHANGED <<disk, mounted, memHdr, memBits, memPtr, write, ghosts>>

\* freeINode aborts on a free inode (Crash).
freeINode(i) ==
  memStatus[i] # Free /\ memStatus' = [memStatus EXCEPT ![i] = Free]

\* Mutant: freeINode gives the blocks back and leaves the pointers.
FreeINode_FreesBlocks(i) ==
  /\ Idle /\ mounted
  /\ freeINode(i)
  /\ memBits' = memBits \ ({ memPtr[i][s] : s \in Slots } \ {NoBlock})
  /\ UNCHANGED <<disk, mounted, memHdr, memPtr, write, ghosts>>

\* freeINode, the command: the inode keeps its blocks.
FreeINode(i) ==
  /\ Idle /\ mounted
  /\ freeINode(i)
  /\ UNCHANGED <<disk, mounted, memHdr, memBits, memPtr, write, ghosts>>

\* Mutant: a block is allocated although block_ptrs[b] > 0.
Absent_Always(i, s) == TRUE

\* getDiskAddressOfBlock allocates block s of inode i only if it is absent.
Absent(i, s) == memPtr[i][s] = NoBlock

\* Text over a block of the volume itself: it has no magic, and any bits and
\* inodes that it amounts to are possible.  (Pointers off the device are not
\* among them: a bound.)
Overwritten(b) ==
  LET bits   == { c \in Stored : 1 + MapBlockOf[c] = b }
      inodes == { i \in Inodes : 1 + MapBlocks + InodeBlockOf[i] = b }
  IN  /\ master' = (master /\ b # 0)
      /\ diskHdr' = (diskHdr /\ b # 1)
      /\ \E text \in SUBSET bits : diskBits' = (diskBits \ bits) \cup text
      /\ \E text \in [inodes -> Status] :
           diskStatus' = [i \in Inodes |-> IF i \in inodes THEN text[i] ELSE diskStatus[i]]
      /\ \E text \in [inodes -> [Slots -> Blocks]] :
           diskPtr' = [i \in Inodes |-> IF i \in inodes THEN text[i] ELSE diskPtr[i]]
      /\ diskSound' = FALSE

(* What the rest of an iteration does to the volume once it has block b:   *)
(* nothing, if b is a block for data, or if a read or a write fails, or if *)
(* the iteration is one of 0 bytes.                                        *)
WrittenTo(b) ==
  \/ UNCHANGED <<disk, diskSound>>
  \/ b \in Reserved /\ Overwritten(b)

\* Mutant: the block is taken without SET_BIT.
INodeWriteBlock_Unmarked(i, s) ==
  /\ Idle /\ mounted
  /\ Absent(i, s) /\ \A t \in Slots : t < s => ~Absent(i, t)
  /\ \E b \in Blocks :
       /\ Lowest(b)
       /\ memPtr' = [memPtr EXCEPT ![i] = [memPtr[i] EXCEPT ![s] = b]]
       /\ WrittenTo(b)
  /\ UNCHANGED <<mounted, memHdr, memBits, memStatus, write, held, memSound, tampered>>

(* An iteration of iNodeWrite that allocates: block s of inode i is absent *)
(* (getDiskAddressOfBlock, alloc_if_absent).  iNodeWrite is called with    *)
(* start 0, so the blocks before s are there.  It may return after any     *)
(* iteration (a full device, an I/O error).  If block 0 was freed the      *)
(* inode gets it, and it is absent as before.                              *)
INodeWriteBlock(i, s) ==
  /\ Idle /\ mounted
  /\ Absent(i, s) /\ \A t \in Slots : t < s => ~Absent(i, t)
  /\ \E b \in Blocks :
       /\ Lowest(b)
       /\ memBits' = memBits \cup {b}
       /\ memPtr' = [memPtr EXCEPT ![i] = [memPtr[i] EXCEPT ![s] = b]]
       /\ WrittenTo(b)
  /\ UNCHANGED <<mounted, memHdr, memStatus, write, held, memSound, tampered>>

(* An iteration that finds its block: only one of the volume's own blocks  *)
(* makes a difference to the volume.                                       *)
INodeRewriteBlock(i, s) ==
  /\ Idle /\ mounted
  /\ ~Absent(i, s) /\ memPtr[i][s] \in Reserved
  /\ Overwritten(memPtr[i][s])
  /\ UNCHANGED <<mounted, mem, write, held, memSound, tampered>>

\* Ctrl+C, an assertion, a dereferenced NULL, the end of the input: the
\* program is gone, and with it what was in memory.  Another one starts.
Crash ==
  /\ mounted \/ ~Idle
  /\ DropMemory /\ EndWrite
  /\ held' = {}
  /\ UNCHANGED <<disk, diskSound, tampered>>

Next ==
  \/ Newfs \/ WriteMasterBlock \/ NewfsFails \/ Unmount
  \/ WriteBlockMap \/ WriteBlockMapFails
  \/ WriteINodeMap \/ WriteINodeMapFails \/ CloseBlockDevice
  \/ Mount \/ AllocateBlock \/ AllocateINode \/ Crash
  \/ \E b \in FreedBlocks : FreeBlock(b)
  \/ \E i \in Inodes : FreeINode(i)
  \/ \E i \in Inodes, s \in Slots : INodeWriteBlock(i, s) \/ INodeRewriteBlock(i, s)

Spec == Init /\ [][Next]_vars

\* writeBlockMap's assertion on the magic of a map that has none.
Abort == phase = "map" /\ ~ImageHdr /\ Crash

(* Once newfs or unmount has begun, no command is read before it returns:  *)
(* it goes from write to write, or dies.                                   *)
Proceed ==
  \/ WriteMasterBlock \/ WriteBlockMap \/ WriteINodeMap \/ CloseBlockDevice
  \/ Abort

FairSpec == Spec /\ WF_vars(Proceed)

-----------------------------------------------------------------------------
(* Properties.                                                             *)

PointersMarked(bits, ptr) ==
  \A i \in Inodes, s \in Slots :
    ptr[i][s] # NoBlock => ptr[i][s] \in bits

OwnerUnique(ptr) ==
  \A i, j \in Inodes : \A s, t \in Slots :
    ptr[i][s] # NoBlock /\ ptr[i][s] = ptr[j][t] => i = j /\ s = t

(* No block of an inode can be allocated again: every pointer is marked in *)
(* the block map beside it.  On the device this holds between any two      *)
(* writes of unmount because the block map goes first, so that a crash     *)
(* there loses blocks but never frees one in use (filesystem.c:141-146).   *)
PointersReserved ==
  /\ mounted /\ memSound => PointersMarked(memBits, memPtr)
  /\ diskSound => PointersMarked(diskBits, diskPtr)

(* A block belongs to one inode and one place in it, in memory and on the  *)
(* device, also in the mixture of old and new inodes a crash leaves there  *)
(* and after the reuse of a freed inode (inode.c:121-126, 172-194).        *)
NoSharedBlock ==
  /\ mounted /\ memSound => OwnerUnique(memPtr)
  /\ diskSound => OwnerUnique(diskPtr)

\* The reserved blocks are marked, and no pointer is to one of them.
Spares(bits, ptr) ==
  /\ Reserved \subseteq bits
  /\ \A i \in Inodes, s \in Slots : ptr[i][s] \in Reserved => ptr[i][s] = NoBlock

(* Data never lands on the volume's own blocks.  The blocks newfs marks    *)
(* (filesystem.c:33-54) stay marked, and no inode and no user gets one of  *)
(* them, on sound volumes and on those that torn writes and failures have  *)
(* spoilt, until a user gives one of them to freeBlock: the code lets him  *)
(* (my_shell.c:192-203; testFSsmall.py:19 begins with block 0), and that   *)
(* block may be the next one allocated.  Even then a complete newfs makes  *)
(* a volume with this property, whose master block is there as long as it  *)
(* is mounted.                                                             *)
MetadataUntouched ==
  /\ diskHdr /\ (diskSound \/ ~tampered) => Spares(diskBits, diskPtr)
  /\ memHdr /\ (memSound \/ ~tampered) => Spares(memBits, memPtr)
  /\ mounted /\ (memSound \/ ~tampered) => master /\ held \cap Reserved = {}

(* What allocBlock hands out is nobody's data: until it is freed, the      *)
(* block stays marked and no inode takes it, across unmount and mount      *)
(* (testFSsmall.py:8, "shouldn't get an already allocated block").         *)
HeldBlocksKept ==
  mounted /\ memSound =>
    /\ held \subseteq memBits
    /\ \A i \in Inodes, s \in Slots : memPtr[i][s] \notin held

(* When unmount is about to print "unmount successful", and newfs about to *)
(* return 0, the device holds all of the volume (filesystem.c:141-154).    *)
(* The master block, which unmount does not write, is there unless it was  *)
(* freed and overwritten.                                                  *)
SuccessMeansSaved ==
  phase = "close" /\ ok =>
    /\ caller = "newfs" \/ memSound \/ ~tampered => master
    /\ diskHdr
    /\ diskBits = ImageBits
    /\ diskStatus = ImageStatus
    /\ diskPtr = ImagePtr

(* The file system never moves or drops a block of an inode: what a sound  *)
(* device says is where the data is, is true as long as the device stays   *)
(* sound (getDiskAddressOfBlock, inode.c:177-178, and unmount).            *)
PointerPermanent ==
  [][\A i \in Inodes, s \in Slots :
       diskSound /\ diskSound' /\ diskPtr[i][s] # NoBlock
         => diskPtr'[i][s] = diskPtr[i][s]]_vars

(* A newfs or an unmount that was begun ends, whatever it finds on the     *)
(* device and whichever of its writes fail, also on a block map without    *)
(* magic, where the assertion ends it (filesystem.c:63-82, 135-158; the    *)
(* loops of dylan_bit_set.c:91-98 and inode.c:144-151).                    *)
WritesEnd == ~Idle ~> Idle
=============================================================================

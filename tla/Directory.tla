----------------------------- MODULE Directory -----------------------------
(***************************************************************************)
(* The directory cache (directory_cache.c) under the commands mkdir, ls    *)
(* and cd of the two shells (my_shell.c, new_shell.c), from mount to       *)
(* unmount and over many sessions.                                         *)
(*                                                                         *)
(* The cache is a heap of DirectoryEntry structures.  The text of a        *)
(* directory goes straight through to the device when it is written; the   *)
(* inode map and the block map go there at unmount.  A block of an inode   *)
(* that is on the device is the block of that inode in memory (Volume:     *)
(* PointerPermanent, NoSharedBlock), so the volume is reduced to how many  *)
(* blocks each inode has and how many blocks are free.                     *)
(*                                                                         *)
(* Bounds: of the user's commands, newfs, freeBlock and write, any of      *)
(* which can destroy every directory, are left out; so is a failed write   *)
(* of the block map, after which inodes may share blocks (Volume:          *)
(* diskSound) and no directory is safe.                                    *)
(***************************************************************************)
EXTENDS Integers, Sequences, SequencesExt

CONSTANTS INodeCount,      \* master_block.inode_count
          INodesPerBlock,  \* inodes in a device block
          DataBlocks,      \* blocks newfs leaves free
          Names,           \* what a user calls a directory
          UserCommands,    \* of Optional: what the user does besides
          MaxEntries,      \* bound: mkdirs
          MaxNodes         \* bound: DirectoryEntry structures in a session

\* "when full" is to go on when the blocks or the inodes have run out,
\* "read error" to go on when getChildren could not read a directory, and
\* "write error" when a directory or the inode map could not be written.
Optional == {"cd .", "cd ..", "Ctrl+C", "when full", "read error",
             "write error", "allocBlock", "allocINode", "freeINode"}

ASSUME DirectoryAssumption ==
  /\ INodeCount \in Nat \ {0, 1} /\ INodesPerBlock \in Nat \ {0}
  /\ DataBlocks \in Nat
  /\ "." \notin Names /\ "/" \notin Names
  /\ UserCommands \subseteq Optional

INodes == 0 .. INodeCount - 1
Root   == 0
Null   == 0      \* the NULL pointer; entries are numbered from 1
RootDir == 1     \* fs->root_dir

\* iNodeWrite of bytes_per_block bytes at 0 runs two iterations (inode.c:56-57).
BlocksPerDirectory == 2

VARIABLES
  \* the device
  dAlloc,    \* inode map: inodes whose status is AllocatedStatus
  dType,     \* inode map: inodes whose type is DirectoryType
  dBlk,      \* inode map: blocks of each inode
  dFree,     \* block map: number of unmarked blocks
  data,      \* the text in the first block of each inode that has one
  \* the mounted FileSystem
  alloc, type, blk, free,
  nodes,     \* the DirectoryEntry structures
  \* the shell
  cwd,       \* main_current_dir, Null when nothing is mounted
  phase,     \* "idle", "getChildren", or where unmount is: "unmount", "inodes",
             \* then "close", or "failed" when the inode map could not be written
  todo,      \* the entries flushDirectoryCache has been called for, the next one first
  next,      \* loop index i of writeINodeMap
  \* ghosts
  made,      \* by directory: the entries its users made with mkdir
  committed  \* by directory: its text at the last completed unmount, unless a
             \* read of the directory has failed since

device == <<dAlloc, dType, dBlk, dFree, data>>
volume == <<alloc, type, blk, free>>
ghosts == <<made, committed>>
vars == <<device, volume, nodes, cwd, phase, todo, next, ghosts>>

Entry(name, ino) == [name |-> name, ino |-> ino]
Entries == [name : Names \cup {"."}, ino : INodes]
Nodes   == [ino : INodes, name : Names \cup {".", "/"},
            literal : BOOLEAN,   \* the name is the constant "." of getChildren
            kids : Seq(Nat),     \* maybe_children, and next_sibling from there
            dirty : BOOLEAN]

TypeOK ==
  /\ dAlloc \in [INodes -> BOOLEAN] /\ alloc \in [INodes -> BOOLEAN]
  /\ dType \in [INodes -> BOOLEAN] /\ type \in [INodes -> BOOLEAN]
  /\ dBlk \in [INodes -> 0 .. BlocksPerDirectory]
  /\ blk \in [INodes -> 0 .. BlocksPerDirectory]
  /\ dFree \in 0 .. DataBlocks /\ free \in 0 .. DataBlocks
  /\ data \in [INodes -> Seq(Entries)] /\ committed \in [INodes -> Seq(Entries)]
  /\ made \in [INodes -> Seq(Entries)]
  /\ nodes \in Seq(Nodes)
  /\ \A d \in DOMAIN nodes : nodes[d].kids \in Seq(DOMAIN nodes)
  /\ todo \in Seq(DOMAIN nodes)
  /\ cwd \in {Null} \cup DOMAIN nodes
  /\ phase \in {"idle", "getChildren", "unmount", "inodes", "close", "failed"} /\ next \in Nat

-----------------------------------------------------------------------------
(* The cache.                                                              *)

Mounted == nodes # <<>>

NewNode(name, ino, literal) ==
  [ino |-> ino, name |-> name, literal |-> literal, kids |-> <<>>, dirty |-> TRUE]

(* addChild, for each of the entries in turn: new structures at the end of *)
(* the heap and of the list of d.                                          *)
addChildren(d, entries, literal) ==
  LET count == Len(nodes)
      new   == [j \in DOMAIN entries |-> NewNode(entries[j].name, entries[j].ino, literal)]
      grown == [nodes EXCEPT ![d].kids = @ \o [j \in DOMAIN entries |-> count + j]]
  IN  /\ count + Len(entries) <= MaxNodes
      /\ nodes' = grown \o new

\* The text of d, as it is in the cache.
Text(d) == [j \in DOMAIN nodes[d].kids |->
              LET k == nodes[nodes[d].kids[j]] IN Entry(k.name, k.ino)]

\* d has entries whose flag says that they are to be written.
Unsaved(d) == \E k \in Range(nodes[d].kids) : nodes[k].dirty

\* Mutant: the blocks are allocated although they are there.
Allocated_Again(ino) == BlocksPerDirectory

\* What iNodeWrite allocates: the absent blocks, as long as there are any.
Allocated(ino) ==
  LET absent == BlocksPerDirectory - blk[ino]
  IN  IF absent <= free THEN absent ELSE free

\* The text of d is on the device afterwards if its first block is there.
iNodeWrite(d) ==
  LET ino == nodes[d].ino
      got == Allocated(ino)
  IN  /\ blk' = [blk EXCEPT ![ino] = @ + got]
      /\ free' = free - got
      /\ data' = [data EXCEPT ![ino] = IF blk[ino] + got > 0 THEN Text(d) ELSE @]

(* The first block cannot be written, or not read, which iNodeWrite does   *)
(* before it writes.  If it has just been allocated, it is taken to hold   *)
(* no text (a bound).                                                      *)
iNodeWriteFails(d) ==
  LET ino == nodes[d].ino
      got == IF blk[ino] = 0 THEN 1 ELSE 0
  IN  /\ "write error" \in UserCommands
      /\ got <= free
      /\ blk' = [blk EXCEPT ![ino] = @ + got]
      /\ free' = free - got
      /\ UNCHANGED data

\* writeDirectory: what iNodeWrite returns is not looked at.
writeDirectory(d) ==
  /\ nodes' = [k \in DOMAIN nodes |->
                 [nodes[k] EXCEPT !.dirty = @ /\ k # d /\ ~Contains(nodes[d].kids, k)]]
  /\ IF nodes[d].kids = <<>> THEN UNCHANGED <<blk, free, data>>
     ELSE iNodeWrite(d) \/ iNodeWriteFails(d)

\* Mutant: a directory is read only if all of its blocks are there.
iNodeRead_AllOrNothing(ino) ==
  IF blk[ino] = BlocksPerDirectory THEN data[ino] ELSE <<>>

\* iNodeRead zero-fills what is not on the device: no entries.
iNodeRead(ino) == IF blk[ino] > 0 THEN data[ino] ELSE <<>>

(* What flushDirectoryCache(d) goes through: the siblings behind d, from   *)
(* the last one back, and d.                                               *)
WithSiblings(d) ==
  LET above == { p \in DOMAIN nodes : Contains(nodes[p].kids, d) }
      kids  == nodes[CHOOSE p \in above : TRUE].kids
      here  == CHOOSE j \in DOMAIN kids : kids[j] = d
  IN  IF above = {} THEN <<d>> ELSE Reverse(SubSeq(kids, here, Len(kids)))

(* allocateINode returns ino: the first free inode, or 0.                  *)
allocateINode(ino) ==
  IF \A i \in INodes : alloc[i] THEN ino = 0
  ELSE ~alloc[ino] /\ \A i \in INodes : i < ino => alloc[i]

\* Mutant: the search goes by name alone.
dirParentSearch_ByName(seek) ==
  LET below[prev \in DOMAIN nodes] ==
        LET kids == nodes[prev].kids
            Met(j) == IF below[kids[j]] # Null THEN below[kids[j]]
                      ELSE IF nodes[kids[j]].name = nodes[seek].name THEN prev ELSE Null
            hits == { j \in DOMAIN kids : Met(j) # Null }
        IN  IF hits = {} THEN Null ELSE Met(Min(hits))
  IN  below[RootDir]

(* dirParentSearch: the entry under whose children the entry `seek` is     *)
(* met first; entries are told apart by inode number and by the address of *)
(* the name, which all the "." made by getChildren share.                  *)
dirParentSearch(seek) ==
  LET Same(k) == /\ nodes[k].ino = nodes[seek].ino
                 /\ k = seek \/ (nodes[k].literal /\ nodes[seek].literal)
      below[prev \in DOMAIN nodes] ==
        LET kids == nodes[prev].kids
            Met(j) == IF below[kids[j]] # Null THEN below[kids[j]]
                      ELSE IF Same(kids[j]) THEN prev ELSE Null
            hits == { j \in DOMAIN kids : Met(j) # Null }
        IN  IF hits = {} THEN Null ELSE Met(Min(hits))
  IN  below[RootDir]

-----------------------------------------------------------------------------
\* The text that a mount of the device finds for i.
Saved(i) == IF dBlk[i] > 0 THEN data[i] ELSE <<>>

NoText == [i \in INodes |-> <<>>]

\* A device that newfs has just made.
Init ==
  /\ dAlloc = [i \in INodes |-> i = Root] /\ dType = dAlloc
  /\ dBlk = [i \in INodes |-> 0]
  /\ dFree = DataBlocks /\ data = NoText
  /\ alloc = dAlloc /\ type = dType /\ blk = dBlk /\ free = dFree
  /\ nodes = <<>> /\ cwd = Null
  /\ phase = "idle" /\ todo = <<>> /\ next = 0
  /\ made = NoText /\ committed = NoText

\* Nothing is mounted; what is left in memory means nothing.
DropMemory ==
  /\ phase' = "idle" /\ todo' = <<>> /\ next' = 0
  /\ nodes' = <<>> /\ cwd' = Null
  /\ alloc' = dAlloc /\ type' = dType /\ blk' = dBlk /\ free' = dFree

(* mount.  Text in a block that the inode map on the device does not point *)
(* to is out of reach from now on.                                         *)
Mount ==
  /\ phase = "idle" /\ ~Mounted
  /\ alloc' = dAlloc /\ type' = dType /\ blk' = dBlk /\ free' = dFree
  /\ data' = [i \in INodes |-> Saved(i)]
  /\ nodes' = <<NewNode("/", Root, FALSE)>>
  /\ cwd' = RootDir
  /\ UNCHANGED <<dAlloc, dType, dBlk, dFree, phase, todo, next, ghosts>>

Ready == phase = "idle" /\ Mounted

-----------------------------------------------------------------------------
(* mkdir, ls and cd begin with getChildren(main_current_dir), which reads  *)
(* the directory if that has not been done and flushes the cache.          *)

\* What is read: the text, or else the entry that says that d was read.
Loaded(d) ==
  LET ino == nodes[d].ino
  IN  IF nodes[d].kids # <<>> THEN UNCHANGED nodes
      ELSE IF iNodeRead(ino) # <<>> THEN addChildren(d, iNodeRead(ino), FALSE)
      ELSE addChildren(d, <<Entry(".", ino)>>, TRUE)

\* The device has room for the text of d.
Room(d) == free > 0 \/ blk[nodes[d].ino] > 0

\* Mutant: what is cached is read again.
getChildren_Rereads ==
  /\ Ready /\ cwd # Null /\ type[nodes[cwd].ino]
  /\ "when full" \in UserCommands \/ Room(cwd)
  /\ IF iNodeRead(nodes[cwd].ino) # <<>>
       THEN addChildren(cwd, iNodeRead(nodes[cwd].ino), FALSE)
       ELSE Loaded(cwd)
  /\ phase' = "getChildren" /\ todo' = WithSiblings(cwd)
  /\ UNCHANGED <<device, volume, cwd, next, ghosts>>

\* Mutant: getChildren does not flush.
getChildren_NoFlush ==
  /\ Ready /\ cwd # Null /\ type[nodes[cwd].ino]
  /\ "when full" \in UserCommands \/ Room(cwd)
  /\ Loaded(cwd)
  /\ phase' = "getChildren" /\ todo' = <<>>
  /\ UNCHANGED <<device, volume, cwd, next, ghosts>>

getChildren ==
  /\ Ready /\ cwd # Null /\ type[nodes[cwd].ino]
  /\ "when full" \in UserCommands \/ Room(cwd)
  /\ Loaded(cwd)
  /\ phase' = "getChildren" /\ todo' = WithSiblings(cwd)
  /\ UNCHANGED <<device, volume, cwd, next, ghosts>>

(* The first block of the directory cannot be read, which getChildren does *)
(* not notice: it takes the directory to be empty, and its flush writes    *)
(* that over the text, which nothing protects any more.                    *)
getChildrenFails ==
  /\ Ready /\ cwd # Null /\ type[nodes[cwd].ino]
  /\ "read error" \in UserCommands
  /\ LET ino == nodes[cwd].ino
     IN  /\ nodes[cwd].kids = <<>> /\ blk[ino] > 0
         /\ addChildren(cwd, <<Entry(".", ino)>>, TRUE)
         /\ committed' = [committed EXCEPT ![ino] = <<>>]
  /\ phase' = "getChildren" /\ todo' = WithSiblings(cwd)
  /\ UNCHANGED <<device, volume, cwd, next, made>>

\* Mutant: the siblings are forgotten.
flushDirectoryCache_First ==
  /\ todo # <<>>
  /\ LET d     == Head(todo)
         below == IF nodes[d].kids = <<>> THEN <<>> ELSE <<Head(nodes[d].kids)>>
         stops == Unsaved(d) /\ ~nodes[d].dirty
     IN  /\ IF Unsaved(d) \/ nodes[d].dirty
              THEN writeDirectory(d) ELSE UNCHANGED <<nodes, blk, free, data>>
         /\ todo' = (IF stops THEN <<>> ELSE below) \o Tail(todo)
  /\ UNCHANGED <<dAlloc, dType, dBlk, dFree, alloc, type, cwd, phase, next, ghosts>>

\* Mutant: the flush goes below a directory before it looks at its entries.
flushDirectoryCache_BelowFirst ==
  /\ todo # <<>>
  /\ LET d == Head(todo)
     IN  /\ IF nodes[d].dirty
              THEN writeDirectory(d) ELSE UNCHANGED <<nodes, blk, free, data>>
         /\ todo' = Reverse(nodes[d].kids) \o Tail(todo)
  /\ UNCHANGED <<dAlloc, dType, dBlk, dFree, alloc, type, cwd, phase, next, ghosts>>

(* The body of a call of flushDirectoryCache, after its siblings.  A       *)
(* directory that was dirty itself is written and has no dirty entries any *)
(* more: only then, or when there were none, does the flush go below it.   *)
flushDirectoryCache ==
  /\ todo # <<>>
  /\ LET d     == Head(todo)
         stops == Unsaved(d) /\ ~nodes[d].dirty
     IN  /\ IF Unsaved(d) \/ nodes[d].dirty
              THEN writeDirectory(d) ELSE UNCHANGED <<nodes, blk, free, data>>
         /\ todo' = (IF stops THEN <<>> ELSE Reverse(nodes[d].kids)) \o Tail(todo)
  /\ UNCHANGED <<dAlloc, dType, dBlk, dFree, alloc, type, cwd, phase, next, ghosts>>

\* getChildren has returned; the command does what is left of it.
Served == phase = "getChildren" /\ todo = <<>>
Return == Served /\ phase' = "idle"

\* The sum of f over all inodes.
Total(f) == LET Sum[n \in Nat] == IF n = 0 THEN 0 ELSE Sum[n - 1] + f[n - 1]
            IN  Sum[INodeCount]

EntriesMade == Total([i \in INodes |-> Len(made[i])])

mkdir(name) ==
  /\ Return /\ EntriesMade < MaxEntries
  /\ \E ino \in INodes :
       /\ allocateINode(ino)
       /\ "when full" \in UserCommands \/ ~alloc[ino]
       /\ alloc' = [alloc EXCEPT ![ino] = TRUE]
       /\ type' = [type EXCEPT ![ino] = TRUE]
       /\ addChildren(cwd, <<Entry(name, ino)>>, FALSE)
       /\ made' = [made EXCEPT ![nodes[cwd].ino] = Append(@, Entry(name, ino))]
  /\ UNCHANGED <<device, blk, free, cwd, todo, next, committed>>

\* Also a cd that finds nothing.
ls ==
  /\ Return
  /\ UNCHANGED <<device, volume, nodes, cwd, todo, next, ghosts>>

\* The places in the current directory of directories called name.
Found(name) == { j \in DOMAIN nodes[cwd].kids :
                   LET k == nodes[nodes[cwd].kids[j]] IN k.name = name /\ type[k.ino] }

\* cd with the name of an entry: the first such entry that is a directory.
cd(name) ==
  /\ Return /\ (name = "." => "cd ." \in UserCommands)
  /\ \E j \in Found(name) : /\ \A l \in Found(name) : j <= l
                            /\ cwd' = nodes[cwd].kids[j]
  /\ UNCHANGED <<device, volume, nodes, todo, next, ghosts>>

\* cd .. of my_shell; the search returns an entry with children, or NULL.
cdUp ==
  /\ Return /\ "cd .." \in UserCommands
  /\ \E up \in {Null} \cup { p \in DOMAIN nodes : nodes[p].kids # <<>> } :
       /\ up = IF cwd = RootDir THEN cwd ELSE dirParentSearch(cwd)
       /\ cwd' = up
  /\ UNCHANGED <<device, volume, nodes, todo, next, ghosts>>

\* allocINode: the inode has no type, and no entry.
allocINode ==
  /\ Ready /\ "allocINode" \in UserCommands
  /\ \E ino \in INodes : /\ allocateINode(ino) /\ ~alloc[ino]
                         /\ alloc' = [alloc EXCEPT ![ino] = TRUE]
  /\ UNCHANGED <<device, type, blk, free, nodes, cwd, phase, todo, next, ghosts>>

(* freeINode of any allocated inode, also of one that has entries: it keeps *)
(* its type and its blocks.                                                 *)
freeINode(i) ==
  /\ Ready /\ "freeINode" \in UserCommands
  /\ alloc[i] /\ alloc' = [alloc EXCEPT ![i] = FALSE]
  /\ UNCHANGED <<device, type, blk, free, nodes, cwd, phase, todo, next, ghosts>>

\* allocBlock: the user keeps the block for good.
allocBlock ==
  /\ Ready /\ "allocBlock" \in UserCommands
  /\ free > 0 /\ free' = free - 1
  /\ UNCHANGED <<device, alloc, type, blk, nodes, cwd, phase, todo, next, ghosts>>

-----------------------------------------------------------------------------
\* Mutant: unmount does not flush the cache.
Unmount_NoFlush ==
  /\ Ready /\ phase' = "unmount" /\ todo' = <<>>
  /\ UNCHANGED <<device, volume, nodes, cwd, next, ghosts>>

\* unmount, or q: first the flush from the root directory.
Unmount ==
  /\ Ready /\ phase' = "unmount" /\ todo' = <<RootDir>>
  /\ UNCHANGED <<device, volume, nodes, cwd, next, ghosts>>

WriteBlockMap ==
  /\ phase = "unmount" /\ todo = <<>>
  /\ dFree' = free
  /\ phase' = "inodes" /\ next' = 0
  /\ UNCHANGED <<dAlloc, dType, dBlk, data, volume, nodes, cwd, todo, ghosts>>

\* Mutant: the number of blocks of the inode map is rounded down.
WriteINodeMap_OneShort ==
  /\ phase = "inodes"
  /\ LET here == { i \in INodes : i \div INodesPerBlock = next }
     IN  /\ dAlloc' = [i \in INodes |-> IF i \in here THEN alloc[i] ELSE dAlloc[i]]
         /\ dType'  = [i \in INodes |-> IF i \in here THEN type[i] ELSE dType[i]]
         /\ dBlk'   = [i \in INodes |-> IF i \in here THEN blk[i] ELSE dBlk[i]]
  /\ IF (next + 2) * INodesPerBlock <= INodeCount
       THEN next' = next + 1 /\ UNCHANGED phase
       ELSE next' = 0 /\ phase' = "close"
  /\ UNCHANGED <<dFree, data, volume, nodes, cwd, todo, ghosts>>

\* One iteration of writeINodeMap.
WriteINodeMap ==
  /\ phase = "inodes"
  /\ LET here == { i \in INodes : i \div INodesPerBlock = next }
     IN  /\ dAlloc' = [i \in INodes |-> IF i \in here THEN alloc[i] ELSE dAlloc[i]]
         /\ dType'  = [i \in INodes |-> IF i \in here THEN type[i] ELSE dType[i]]
         /\ dBlk'   = [i \in INodes |-> IF i \in here THEN blk[i] ELSE dBlk[i]]
  /\ IF (next + 1) * INodesPerBlock < INodeCount
       THEN next' = next + 1 /\ UNCHANGED phase
       ELSE next' = 0 /\ phase' = "close"
  /\ UNCHANGED <<dFree, data, volume, nodes, cwd, todo, ghosts>>

\* writeINodeMap gives up; the blocks before this one are on the device.
WriteINodeMapFails ==
  /\ phase = "inodes" /\ "write error" \in UserCommands
  /\ phase' = "failed" /\ next' = 0
  /\ UNCHANGED <<device, volume, nodes, cwd, todo, ghosts>>

\* From now on the users expect what the device says, behind the ".".
OnlyTheDevice ==
  made' = [i \in INodes |-> IF Saved(i) = <<>> THEN <<>> ELSE Tail(Saved(i))]

\* closeBlockDevice and the return of unmount, "unmount successful".
CloseBlockDevice ==
  /\ phase = "close"
  /\ committed' = [i \in INodes |-> Saved(i)]
  /\ DropMemory
  /\ UNCHANGED <<device, made>>

\* The same with "unmount error".
CloseWithError ==
  /\ phase = "failed"
  /\ OnlyTheDevice /\ DropMemory
  /\ UNCHANGED <<device, committed>>

(* The program ends without unmount: Ctrl+C, an end of input, an abort.    *)
Crash ==
  /\ Mounted /\ "Ctrl+C" \in UserCommands
  /\ OnlyTheDevice /\ DropMemory
  /\ UNCHANGED <<device, committed>>

Next ==
  \/ Mount \/ getChildren \/ getChildrenFails \/ flushDirectoryCache \/ ls \/ cdUp
  \/ Unmount \/ WriteBlockMap \/ WriteINodeMap \/ WriteINodeMapFails
  \/ CloseBlockDevice \/ CloseWithError \/ Crash
  \/ allocBlock \/ allocINode \/ \E i \in INodes : freeINode(i)
  \/ \E name \in Names : mkdir(name)
  \/ \E name \in Names \cup {"."} : cd(name)

Spec == Init /\ [][Next]_vars

-----------------------------------------------------------------------------
(* Properties.  Sessions are orderly where OrderlyDirectory says what the  *)
(* users do and the device bears: no block fails, nothing runs out, every  *)
(* session ends with unmount.                                              *)

\* What a directory holds when `entries` were made in it.
Contents(ino, entries) == <<Entry(".", ino)>> \o entries

Dirs(text) == { e.ino : e \in { e \in Range(text) : e.name # "." } }

(* In orderly sessions, what mkdir, ls and cd find in the current          *)
(* directory is what was made in it, in the order it was made, whatever    *)
(* part of it was cached, on the device or not written yet                 *)
(* (Readme.txt:52-55, "accurate contents").                                *)
AccurateContents ==
  Served => Text(cwd) = Contents(nodes[cwd].ino, made[nodes[cwd].ino])

(* In orderly sessions, only the current directory is ahead of the device: *)
(* every other directory that is cached, however the user left it, is on   *)
(* the device as it is in the cache.  Nothing else brings the flush, which *)
(* starts from the current directory, to the others                        *)
(* (directory_cache.c:95-97, 129-147).                                     *)
OnlyCwdUnwritten ==
  \A d \in DOMAIN nodes :
    nodes[d].kids # <<>> /\ d # cwd => iNodeRead(nodes[d].ino) = Text(d)

(* A flush leaves no flag up, although it stops at the first directory     *)
(* with a dirty entry and clears the flags of siblings on its way: it      *)
(* "recursively writes all of the dirty directory entries"                 *)
(* (directory_cache.c:128-147).  This is about the flags; that the text of *)
(* each of them is "back to disk" too is OnlyCwdUnwritten, which a full    *)
(* device (dir_full) or a failed write breaks.                             *)
FlushIsComplete ==
  phase # "idle" /\ todo = <<>> => \A d \in DOMAIN nodes : ~Unsaved(d)

(* The entries of a directory are ticked off only by the flush's visit to  *)
(* that directory, which calls iNodeWrite on it, although the flag that    *)
(* says so is a flag of the entry, which the flush clears when it comes to *)
(* the entry itself (directory_cache.c:119-125, 133-134).  Whether that    *)
(* iNodeWrite has room, and its blocks can be written, is another matter.  *)
OnlyWritingSaves ==
  [][\A d \in DOMAIN nodes :
       Unsaved(d) /\ Mounted' /\ ~Unsaved(d)' => todo # <<>> /\ d = Head(todo)]_vars

(* When unmount prints "unmount successful", and the session was orderly,  *)
(* the device has all entries of all directories (directory_cache.h,       *)
(* filesystem.c:136-154).                                                  *)
UnmountSavesAll ==
  phase = "close" => \A i \in INodes :
    made[i] # <<>> => Saved(i) = Contents(i, made[i])

(* cd .. leads to the directory the current one is an entry of             *)
(* (my_shell.c:24-42, which searches by inode and by address of the name). *)
DotDotLeadsUp ==
  Served /\ cwd # RootDir =>
    LET up == dirParentSearch(cwd)
    IN  up # Null /\ Contains(nodes[up].kids, cwd)

(* Between orderly sessions the device is a tree: every allocated inode    *)
(* but the root is an entry of exactly one directory, and every entry is   *)
(* of an allocated inode (inode.c:109-119, filesystem.c:138-147).          *)
DeviceIsATree ==
  phase = "idle" /\ ~Mounted =>
    /\ \A i \in INodes \ {Root} :
         dAlloc[i] <=> \E p \in INodes : i \in Dirs(Saved(p))
    /\ \A p, q \in INodes : \A k \in DOMAIN Saved(p), l \in DOMAIN Saved(q) :
         /\ Saved(p)[k].name # "." /\ Saved(q)[l].name # "."
         /\ Saved(p)[k].ino = Saved(q)[l].ino
         => p = q /\ k = l

(* What a completed unmount left on the device is never lost or changed by *)
(* mkdir, ls, cd and unmount, whatever later sessions do, and however they *)
(* end: with a full device, a failed write of a directory or of the inode  *)
(* map, or Ctrl+C.  Directories only grow behind it                        *)
(* (directory_cache.c:60-126, filesystem.c:135-157).  The exception is a   *)
(* directory that could not be read: getChildren overwrites it.            *)
CommittedIsDurable ==
  \A i \in INodes : committed[i] # <<>> =>
    /\ dBlk[i] > 0 /\ IsPrefix(committed[i], data[i])
    /\ Mounted => blk[i] > 0

(* Every entry on the device is of a directory that the inode map on the   *)
(* device knows, when nothing is mounted.                                  *)
EntriesAreDirectories ==
  phase = "idle" /\ ~Mounted =>
    \A p \in INodes : dBlk[p] > 0 => \A i \in Dirs(data[p]) : dAlloc[i]

(* A new directory is not one that was there already (my_shell.c:117,      *)
(* "create the new child directory").                                      *)
NewDirectoriesAreNew ==
  \A p, q \in INodes : \A k \in DOMAIN made[p], l \in DOMAIN made[q] :
    /\ made[p][k].ino # Root
    /\ made[p][k].ino = made[q][l].ino => p = q /\ k = l
=============================================================================

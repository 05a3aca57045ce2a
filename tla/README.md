# A verification of the CS393 file systems

The repository holds two student implementations of a small Unix-like file
system that lives in one ordinary file, the *device*: `src/dylblock/` (C, with
directories) and `src/my_Blocks_c++/` (C++, an earlier one without). This
project models both in TLA+ and checks them with TLC. With TLAPS it proves, for
all sizes, that the volume of the C one, the contents of its files, its
directory cache and the volume of the C++ one are safe, and that the volume of
the C one implements an abstract store.

## Inventory

| Component | State it keeps | Operations | What must be right |
|---|---|---|---|
| Block device (`block_device.c`) | a file handle, block size and count | `readBlock`, `writeBlock`, create, open, close | a block is read or written whole, or an error is returned |
| Master block (`master_block.c`) | geometry, place of the maps, root inode (block 0) | `allocMasterBlock`, `bootstrapDevice`, `read-/writeMasterBlock` | written once by newfs; everything else is found through it |
| Block map (`dylan_bit_set.c`) | magic, count, one bit per block (from block 1 on) | `allocateBlock`, `freeBlock`, `read-/writeBlockMap` | a block in use is marked; an allocation is of an unmarked block |
| Inode map (`inode.c`) | per inode: status, type, `num_bytes`, 16 block pointers | `allocateINode`, `freeINode`, `read-/writeINodeMap` | an inode has one owner; a pointer never moves |
| Inode I/O (`inode.c`) | the locals of a call; the contents of the data blocks | `iNodeRead`, `iNodeWrite`, `getDiskAddressOfBlock` | a file keeps what was written to it, a read returns it; `num_bytes` has blocks behind it |
| File system (`filesystem.c`) | the three above, and the root of the cache | `newfs`, `mount`, `unmount` | what unmount reports as saved is on the device |
| Directory cache (`directory_cache.c`) | linked `DirectoryEntry` structures with dirty flags | `addChild`, `addRoot`, `getChildren`, `writeDirectory`, `flushDirectoryCache` | the cache and the device together hold exactly what was made |
| Shells (`my_shell.c`, `new_shell.c`) | mounted file system, current directory | newfs, mount, unmount, q, mkdir, ls, cd; my_shell also cd .., allocBlock, freeBlock, allocINode, freeINode, write | a command leaves a state the next command can work with |
| Block cache (`block_cache.c`) | - | - | dead code: not in the Makefile, `flushBlockCache` has no definition |
| C++ file system (`my_Blocks_c++/`) | the same maps, no directories, no data | newfs, mount, unmount, quit, alloc/free/setBlock, alloc/free/setiNode, getBlockAddr | a mount reads back what was written; what was given to a user stays given |

**How they interact.** Everything is function calls in one process. A command
of the shell works on the file system in memory. Three kinds of data reach the
device at three different times: the text of a directory (and all file data) at
once, through `iNodeWrite`; the block map and then the inode map at `unmount`;
the master block at `newfs` only. `getChildren` flushes the cache every time it
is called, so the order of commands decides what is on the device.

**What is hard.** Nothing runs concurrently, but the program may end between any
two writes (the greeting of the shell invites it, `my_shell.c:47`; end of input,
assertions and NULL dereferences do it too), and the device then holds a mixture.
Writes may fail. The cache is a graph of pointers whose dirty flags mean "my
*parent's* text is old". Blocks and inodes run out, and the callers mostly do not
look. PROJECT.json lists each such place under `hazards`.

## Modules

| Module | Models | Checked by | Proved |
|---|---|---|---|
| `Store` | abstract: who owns which block, without block map and without writes that tear | as a property of `volume` | `StoreProofs` |
| `Volume` | master block, block map, inode map; newfs, mount, unmount, the block and inode commands; torn and failed writes | runs `volume`, `volume_freed` | `VolumeProofs` |
| `FittingVolume` | `Volume` with a block map that fits its blocks, and the mapping to `Store` | run `volume` | `VolumeRefinement` |
| `VolumeLayout` | the code's formulas for the places of bits and inodes | runs `volume`, `volume_header` | |
| `MCVolume` | `FittingVolume` and `VolumeLayout` together | runs `volume`, `volume_freed` | |
| `INodeIO` | `iNodeRead` and `iNodeWrite`, block by block, on a `Volume` | run `inode_io` | `INodeIOProofs`, `LengthProofs` |
| `MCINodeIO` | a small layout for `INodeIO` | run `inode_io` | |
| `Directory` | the directory cache under mkdir, ls, cd, mount, unmount, Ctrl+C, failed reads and writes, and the block and inode commands | runs `dir_*` | `DirectoryProofs` |
| `OrderlyDirectory` | `Directory` when users do nothing that the code has no answer to, and the device does not fail | run `dir_session` | `DirectorySessionProofs` |
| `MCDirectory` | `OrderlyDirectory` with names that are interchangeable | run `dir_session` | |
| `CxxVolume` | the volume and the shell of the C++ file system | runs `cxx_*` | |
| `FittingCxxVolume` | `CxxVolume` with a block map that fits its block | run `cxx_volume` | `CxxVolumeProofs` |

`INodeIO` is composed with `Volume`: its actions are conjunctions of `Volume`'s
and what they do to contents and lengths, and `FilesStandOnAVolume` proves that
it implements `Volume`.

`Volume` and `Directory` meet at the block pointers. `Directory` keeps only the
number of blocks of each inode and the number of free blocks, and says that the
text a mounted file system wrote is what a later mount reads, provided the inode
map on the device has the inode's block. That is so because a pointer on a
sound device is permanent (`PointersArePermanent`), its block is marked in the
map beside it (`CrashNeverFreesABlockInUse`) and nobody shares it
(`BlocksAreNotShared`), which are theorems about `Volume`; and what was written
to a block that the device points to is read from it later (`FilesSurvive`,
`ReadsAreTrue`), which are theorems about `INodeIO`.

### Volume

The device is `master`, `diskHdr` (the block map starts with its magic and
count), `diskBits`, `diskStatus`, `diskPtr`; the mounted `FileSystem` is
`memHdr`, `memBits`, `memStatus`, `memPtr`. `phase`, `caller`, `next` and `ok`
are the position in `newfs` or `unmount`, the loop index of `writeBlockMap` or
`writeINodeMap`, and `writeZero == 0 && inmZero == 0`.

| Action | Code |
|---|---|
| `Newfs`, `WriteMasterBlock`, `NewfsFails` | `newfs` up to its first write; block 0; the returns of -1 |
| `Unmount` | the call of `unmount`; the writes of its flush are `INodeWriteBlock` steps before it |
| `WriteBlockMap`, `WriteINodeMap` | one iteration of each loop: one device block |
| `WriteBlockMapFails`, `WriteINodeMapFails` | a failed `writeBlock` inside `unmount`, which goes on |
| `CloseBlockDevice` | the end of either |
| `Mount` | `mount`; it only warns of a block map without magic, whose count is 0 |
| `AllocateBlock`, `FreeBlock` | the shell's allocBlock and freeBlock |
| `AllocateINode`, `FreeINode` | `allocateINode` (of mkdir and allocINode), `freeINode` |
| `INodeWriteBlock` | an iteration of `iNodeWrite` that allocates |
| `INodeRewriteBlock` | one that finds its block, when that is one of the volume's own |
| `Crash` | the end of the process wherever it is |

The layout (which block of a map holds a bit or an inode) is a constant
function, so that the proofs cover every such layout. `LayoutAssumption` says
that the inode map fits the blocks the code counts for it, each inode in one of
them, and that the bits of the reserved blocks are in the first block of the
block map (a 512-byte block has 4032 bits behind its header; newfs reserves a
handful of blocks). Not covered are block sizes that are no multiple of 128,
which newfs takes: an inode is then in two blocks of the map. That the *block*
map fits its blocks is not assumed: the bits that do not are outside `Stored`,
they are not written, and a mount finds anything there. `VolumeLayout` computes
the layout as the code does, where the count leaves out the header. A failed
write leaves its block as it was.

Three ghosts say what users may rely on. `held` is what allocBlock handed out
and nobody freed (forgotten when the program dies). `diskSound` means that the
device was last written by a complete newfs, or by an unmount of a sound file
system whose block map was written; it is FALSE while newfs rewrites a device
and after a failed write of the block map. `memSound` means mounted from a sound
device and never told to free a block that was not handed out. `tampered` means
that freeBlock was ever given one of the reserved blocks.

freeBlock takes any number, and users give it those of `FreedBlocks`: any set of
blocks, for the proofs. A reserved block that was freed may be the next that
allocBlock or an inode gets (`testFSsmall.py` frees block 0 first thing), and
`Overwritten` is what a write to it does to the volume: the text has no magic,
and any bits and inodes it amounts to may be read from it. Left out of that are
pointers off the device, which the program would follow. A device that was never
written is zeros, `UnusedStatus` in every inode; `Status` knows it as one that
is not free, which is all `allocateINode` asks.

**Fairness.** `FairSpec` adds weak fairness of `Proceed`: the writes of newfs and
unmount, their end, and the assertion of `writeBlockMap` on a map without magic.
Once a newfs or an unmount has begun the shell reads no other command until it
returns, so the next write of the loop is all there is to do; nothing is said of
commands, failures or crashes. `WritesEnd` says that every newfs and every
unmount then ends, whatever fails on the way.

### Store, and its refinement

`Store` says what the maps are for. A block has one owner: a place of an inode,
or a user of allocBlock, or nobody. `good` says that the device keeps what it
was given, `dur` what owners it knows; a session (`open`) works on a copy `cur`
of them; `given` are the users' blocks. `Assign` and `Give` hand out any block
that has no owner; inodes reach the device in any groups at any time
(`Persist`), which is all that a torn or failed unmount can amount to; `Spoil`
is a newfs that did not end or a block map that was not written.

`FittingVolume` maps `Volume` to it: `good` is `diskSound`; `dur` and `cur` are
the pointers on the device and in memory, as long as those are sound, and
nothing otherwise; `given` is `held`. The block map does not occur: that looking
for the lowest clear bit gives a block without an owner, in memory as after a
mount of whatever a crash left, is what has to be shown. The refinement needs
`MapFits`, that all bits are stored; without it the promise is broken
(`volume_header`).

### INodeIO

| Action | Code |
|---|---|
| `iNodeRead`, `iNodeWrite` | the call, up to the head of its loop |
| `ReadBlock`, `ReadBlockFails` | an iteration of `iNodeRead`; its `readBlock` failing |
| `WriteBlock` | an iteration of `iNodeWrite`: find or allocate the block, read it, overlay the bytes, write it |
| `WriteBlockFails`, `WriteRefused` | a failed read or write, after a possible allocation; no block to be had, or no pointer left |
| `LoopEnds`, `Return` | the end of the loop, where a write may raise `num_bytes`; the caller goes on |
| `IOMount`, `IOWriteINodeMap`, `IOCloseBlockDevice`, `IOCrash`, `VolumeStep` | the steps of `Volume` under the files, with what they do to `num_bytes` |

`data` is the contents of the data blocks, `call` the locals of the running call,
`buffer` the caller's buffer, `diskLen` and `memLen` the `num_bytes`. The ghost
`file` holds, for each inode and offset, what was written there last; it forgets
at mount what no pointer on the device leads to. The loops run one iteration
more than needed when the bytes end at the end of a block, as the code's do; a
write that fills the last pointer's block exactly is therefore refused in its
last, empty, iteration, and then leaves `num_bytes` as it was although all
bytes are written.

Bounds of the environment: `start` is in the first block of the inode (every
caller passes 0; the code indexes the pointers by the loop index alone); newfs
is run on a device without a file system, and the write of the block map does
not fail and no reserved block is freed (what happens to an unsound volume is
`Volume`'s subject); allocINode,
freeINode, allocBlock and freeBlock, at which the calls do not look, are left to
`Volume`.

### Directory

`nodes` is the heap of `DirectoryEntry` structures, numbered as they are made:
inode, name, dirty flag, the list of children (`maybe_children` and the
`next_sibling`s from there), and `literal`, which says that the name is the
string constant of `getChildren` (`dirParentSearch` compares addresses).

| Action | Code |
|---|---|
| `Mount` | `mount`: the maps are read, `addRoot` |
| `getChildren` | the call at the start of mkdir, ls and cd, up to its flush: the current directory is read unless that was done; there is no step for the dereference of a NULL current directory |
| `getChildrenFails` | the same when the block of the directory cannot be read, which `getChildren` does not notice: the directory seems empty |
| `flushDirectoryCache` | one directory of a flush: look for dirty entries, `writeDirectory` (whose `iNodeWrite` may have no room, `iNodeWrite`, or fail, `iNodeWriteFails`), go below or not |
| `mkdir`, `ls`, `cd`, `cdUp` | what is left of the command when `getChildren` has returned |
| `Unmount`, `WriteBlockMap`, `WriteINodeMap`, `CloseBlockDevice` | the call of `unmount`, and after the flush from the root the writes of the maps, a device block a step |
| `WriteINodeMapFails`, `CloseWithError` | a block of the inode map cannot be written: no more of it is, and unmount reports an error |
| `allocBlock`, `allocINode`, `freeINode` | the commands of my_shell |
| `Crash` | the end of the process before any of these steps |

`flushDirectoryCache` is recursive: it goes to the siblings behind an entry
first, then looks at the entry, then goes below it. `todo` is what is left of
the recursion: the entries it was called for, the next one first. `phase` says
who flushes, `getChildren` or `unmount`, and which map is being written
("inodes", then "close", or "failed"). Between the steps of a flush only `Crash`
can happen. The write of one directory is one step, from the allocations to the text: an exit
within it leaves a text in a block that the inode map on the device does not
point to, which is what an exit after it leaves too, or an old text or a new one
in a block that it does point to, and a text is one block.

`UserCommands` says which of the things in `Optional` users do: "cd .", "cd ..",
"Ctrl+C", my_shell's allocBlock, allocINode and freeINode, "when full", which
is to go on when the blocks or the inodes have run out, and "read error" and
"write error", which are to go on when a directory could not be read, and when a
directory or the inode map could not be written; new_shell is without "cd .."
and those three. Without "when full" a directory is read only if there
is room for its text, and mkdir is done only if an inode is free: these two
guards bound the environment, the code has neither. An inode has a status and a
type, which are two things: mkdir sets both, allocINode only the status,
freeINode clears only the status, and `cd` looks only at the type. A directory
whose inode was freed therefore stays one for whoever has its entry, and its
text and blocks pass to the directory that gets the inode next. Users may make
two directories of one name, as the code lets them. Names with `|` or blanks are
not used, so a text is the list of its entries, and the text of a directory fits
its block (`MaxEntries` is far below both).

Bounds: newfs, freeBlock and write are not used, since each of them can destroy
any directory. The write of the block map does not fail: the device is then
unsound in the sense of `Volume`, inodes may share blocks from the next session
on, and no directory is safe. A block that was allocated for a text which could
then not be written is taken to hold no text. A mount that cannot read the maps
ends the program, as `Crash` does.

`made` is what was made with mkdir in each directory; after a crash, or an
unmount that reported an error, it is what the device says. `committed` is the
text at the last completed unmount; a directory whose read failed has none any
more, since the code then writes over it.

`OrderlyDirectory` assumes `SessionsAreOrderly`: no "cd .", no "Ctrl+C", no "when
full" and no freeINode, and that no read and no write fails. "cd ..", allocBlock
and allocINode are left to the user.

### CxxVolume

`dev` is the device block by block, `memBits` and `memUsed` what `bmp` and `imp`
hold. Where the maps are is computed as `MasterBlock`'s constructor does, from
`BytesPerBlock` and `BlockCount`; the other sizes (`CharBit`, `SizeOfINode`,
`MaxINodes`) are 8, 128 and 128 in the code and smaller in the runs, so that a
device of ten blocks has an inode map of two blocks of which the second is not
full. Each command is an action; newfs and unmount write a block a step, and a
write may fail, after which the code goes on. `live` says that the shell's
variables point to objects that exist: newfs uses them for its own and deletes
them. A command on deleted objects is undefined: it changes no device and may
end the program, which is `Quit`. What `getBlockAddr` reads through the address
of a local variable is undefined too; `GetBlockAddr` is the outcome that marks a
block, and every other one changes nothing.

Ghosts: `held` is what allocBlock and allociNode gave out and nobody freed,
`kept` the part that a completed unmount saved and no later unmount was told to
drop. Bounds of the environment: `LastBlock` and `Chosen` limit the blocks
commands name; mount is given a device with a master block. A failed write leaves
its block as it was; after a failed *seek* the code writes all the same, wherever
the device is positioned, which is not modelled.

## Runs

| Run | Bounds | Shows |
|---|---|---|
| `volume` | 7 blocks of 6 bits (5 reserved, 2 for data), header of one bit, 2 inodes of 2 pointers, one to a block: both maps take 2 blocks; freeBlock of the 2 data blocks | the properties of `Volume` but `MetadataUntouched`, that it implements `Store`, and that newfs and unmount end |
| `volume_freed` | 4 blocks (3 reserved, 1 for data), 2 inodes of one pointer in one block; freeBlock of block 0, of the block map and of the data block | the volume's own blocks stay its own until one of them is freed, and again after newfs |
| `volume_header` | 8 blocks of 8 bits, header of one bit, so 9 bits in the one block counted for them | finding: a block handed out twice |
| `inode_io` | 6 blocks (4 reserved, 2 for data) of 2 bytes, 2 inodes of 2 pointers, starts 0 and 1, lengths 1, 2 and 3, one text | files keep what was written, reads return it |
| `dir_session` | 5 inodes, two to a block, 6 data blocks, 4 mkdirs, 10 cache entries, names a and b (interchangeable), "cd .." and allocBlock | the cache is right in orderly sessions, without I/O errors |
| `dir_durable` | 2 inodes in 2 blocks, 2 data blocks, 2 entries of one name, 5 cache entries, all of `Optional` but "cd .." | what survives Ctrl+C, failed writes, exhaustion, freed inodes and "cd .", and what a flush does then |
| `dir_stale` | 4 inodes, 3 mkdirs, 9 cache entries, "cd .." and "cd ." | finding: a lost directory |
| `dir_exhausted` | 2 inodes, 2 mkdirs, "when full" | finding: a directory that is the root |
| `dir_full` | 2 data blocks, 3 mkdirs, "when full" | finding: success reported, entries lost |
| `dir_crash` | 4 inodes, 3 mkdirs, "Ctrl+C" | finding: entries of free inodes |
| `cxx_volume` | 10 blocks, 3 inodes in 2 blocks, blocks 3 and 4 to allocate, freeBlock and setBlock of 2 (the inode map) and 4 | the C++ volume keeps its promises |
| `cxx_bitmap` | 12 blocks, 10 bits to a block | finding: bits that are not saved |

Why the bounds are enough. In `volume` both maps are split over two device
blocks, so a write can be torn inside a map and between the maps; the second
data block's bit is in the second block of the map; two data blocks and four
places for a pointer make every kind of sharing, moving and freeing possible
(each property has a mutant of the code that breaks it there), and the theorems
cover all sizes. In `volume_freed` a freed block goes to a user or to an inode
that writes to it, and newfs may follow; that the block of the inode map is freed
too is left to the proof, which has any `FreedBlocks`. In `inode_io` a call
touches one or both blocks of an inode, starts and ends inside a block or at its end; two inodes compete for two blocks,
so that one may be full, have a hole's worth of absent block, or none at all;
each inode has its own block of the inode map, so that a crash leaves one saved
and one not. One text is enough to tell bytes apart, since a byte is a text and a
place in it. In `dir_session` four directories make all trees of depth up to
four, with equal names in different and in the same directory, a cache read back
from the device and a cache built by mkdir; allocBlock takes blocks until there
is just room, or none, for the text of the current directory. In
`dir_durable` two blocks leave the directory in the root with none, or with one
when a failed write has left the root with one, so that its text with two entries
can be committed; the two inodes are in different blocks of the map, so that a crash saves one and
not the other; the second inode is all that mkdir and allocINode can have, so
that the next `mkdir` makes the root an entry of itself or of its own child, and
freeINode gives back an inode that still has an entry, for another mkdir to take.
A flush crosses up to five entries in it, among them several of one inode. What
both runs check is proved for all sizes, and with "cd ..".

`CHECK_DEADLOCK` stays on in all passing runs: the shell always accepts another
command. Only `volume` has fairness (`FairSpec`), for `WritesEnd`.

### Properties

`Volume`: `PointersReserved` and `NoSharedBlock` say that the maps agree, in
memory and on the device after any prefix of unmount's writes: the block map is
written first, so a crash loses blocks and never frees one in use.
`MetadataUntouched` holds of unsound volumes too, those after a newfs that died
or a block map that was not written, up to the moment when a user frees a
reserved block; a sound volume has it even after that. `HeldBlocksKept` is the
promise to the user of allocBlock. `SuccessMeansSaved` is about the report of
unmount and the return value of newfs: of the two maps, and of the master block
unless it was freed and overwritten. `PointerPermanent` is an action property,
`PromiseKept` the refinement of `Store`, `WritesEnd` the liveness property.

`INodeIO`: `FilesAreKept` relates the ghost to the device through the pointers in
memory and through those on the device; `ReadsTheFile` relates what a read has
put in the buffer to the ghost; `NothingCutShort` says that the blocks counted
and the bytes taken from each add up; `LengthHasBlocks` that `num_bytes` never
exceeds what there are blocks for.

`Directory`, in orderly sessions: `AccurateContents` relates what a command finds
to all that was made since newfs; `UnmountSavesAll` says the same of the device
at the end of unmount; `DotDotLeadsUp` of the search by inode and address;
`DeviceIsATree` of what lies between sessions; `OnlyCwdUnwritten` says that every
cached directory but the current one is on the device as it is in the cache,
whatever the early return of `flushDirectoryCache` skipped. With all faults:
`FlushIsComplete` says that a flush leaves no flag up although it returns early
and clears flags on the way, and `OnlyWritingSaves` that only its visit to a
directory ticks off the entries there. Both are about flags: on a full device,
or when a write fails, the flags are cleared and the text is not written, which
is what `dir_full` shows. `CommittedIsDurable` says that what an unmount left
stays, as long as it can be read.

`CxxVolume`: `SavedIsReadBack` relates the loops that write to those that read,
through the layout; `PromisesKept` relates what users were told to the memory and
to the device over all sessions.

### Findings

1. `cd .` creates a second cache of a directory; two mkdirs, one through each,
   lose the first (`dir_stale`).
2. `mkdir` without free inodes creates an entry for the root (`dir_exhausted`).
3. On a full device entries are dropped and unmount prints "unmount successful"
   (`dir_full`).
4. After Ctrl+C the device lists directories whose inodes are free (`dir_crash`).
5. The C++ block map is cut off at the end of its one block (`cxx_bitmap`); the
   device of `tester5.py` has such a map.
6. `getBlocksInBlockMap` does not count the header of the block map: when the
   bits fill their last block, the last 64 are not saved, and a block can be
   handed out again after a remount (`volume_header`).

Two more are part of the model and of no run. A directory that cannot be read is
taken to be empty, and its text on the device is overwritten with that at once
(`getChildrenFails`). The C++ newfs deletes the objects of a mounted file system,
which the shell goes on to use (`live`).

## Proofs

| Module | Theorems |
|---|---|
| `VolumeProofs` | `TypeCorrect`, `CrashNeverFreesABlockInUse`, `BlocksAreNotShared`, `MetadataIsSafe`, `HeldBlocksAreKept`, `SuccessIsTrue`, `PointersArePermanent` |
| `VolumeRefinement` | `VolumeImplementsStore` |
| `StoreProofs` | `OwnersAreExclusive`, `OwnersArePermanent` |
| `INodeIOProofs` | `IOTypeCorrect`, `FilesStandOnAVolume`, `FilesSurvive`, `CallsAreComplete`, `ReadsAreTrue` |
| `LengthProofs` | `LengthsAreCovered` |
| `DirectoryProofs` | `DirectoryTypeCorrect`, `FlushesAreComplete`, `WritesAloneSave`, `CommittedTextsAreDurable` |
| `DirectorySessionProofs` | `ContentsAreAccurate`, `OthersAreWritten`, `EverythingIsSaved`, `TheDeviceIsATree`, `DotDotIsAbove` |
| `CxxVolumeProofs` | `CxxTypeCorrect`, `SavedMapsAreReadBack`, `CxxPromisesAreKept` |

Those about the C volume and its files hold for every number of blocks, inodes
and pointers, every block size and every layout that meets `SizeAssumption`, `LayoutAssumption` and `MapFits` (the
bits fit the blocks counted for them: without it `HeldBlocksKept` is false, as
finding 6 shows) and, where files are concerned, `IOAssumption`. `StoreProofs`
needs no assumption. `DirectoryProofs` needs `DirectoryAssumption` (two inodes or
more, names other than "." and "/") and nothing else: any number of inodes,
blocks and entries, any users and any failures within the bounds of `Directory`.
`DirectorySessionProofs` adds `SessionsAreOrderly`. Findings 1 to 4 show why
"cd .", going on when full and Ctrl+C are excluded; a failed read loses the
directory, a failed write loses entries as a full device does; and freeINode of a directory lets two
entries have one inode.
`TheDeviceIsATree` also excludes allocINode, whose inodes have no entry.
`CxxVolumeProofs` needs `MapFitsItsBlock`; without it `SavedIsReadBack` is false
(finding 5).

**Volume.** `IInv` strengthens the properties by `Control` (who writes what
when), `MapWritten` and `InodesWritten` (the part of the image before `next` is
on the device), and `Agreement`: on a sound device, a pointer that is there is
the same in the sound memory. Agreement holds because `INodeWriteBlock` only
fills absent pointers. It makes the mixture of old and new inodes safe: every
pointer of the mixture is a pointer of the memory, so the mixture shares no
block; and the memory's map, which is written before, marks it. `MetadataUntouched`
is inductive beside it: a write reaches a reserved block only through a pointer to
one, or an allocation of one, and either needs a clear bit there before. Each action has
a lemma with one step for each conjunct; `MemoryOnly` and `StatusOnly` do the
commands that change little.

**Refinement.** `InitMaps` and `StepMaps`, from `IInv`: each action is one
action of `Store`, or leaves its state alone (`SameIsStutter`). The heart is
`ClearBitMeansNoOwner`: in a sound session a clear bit is of a block that no
inode and no user has.

**Contents.** `IOInv` adds to `Volume`'s invariant `LoopInv` (the loop index,
the offset in the block and the bytes done determine each other), that the
device and a mounted memory are sound together, and `FilesAreKept` itself. The
arithmetic is in `Division`, `Iteration` and `Place`: an iteration moves by one
block and ends at a block's end, or at the end of the bytes. A partial write
changes bytes of its own block only, and by `BlocksAreNotShared` that block is
nobody else's, in memory or, by `Agreement`, on the device. `ReadsStep` follows a
read through the iterations, with the volume standing still (`VolumeWaits`).
`LengthInv` needs that what lies before an inode's last block is there too (the
loop of a write allocates in order), and that a length that grows has the
blocks of the call behind it (`EndHasBlock`).

**The cache and its flush.** `IInv` of `DirectoryProofs` says first that the
cache is a tree (`Heap`): entries are made after the directory they are in, each
is in one list once, and all are below the root, the last said with sets, as
"a set that has the root and with an entry all below it has every entry"
(`Closed`). That a step keeps this is shown for `addChildren` once (`HeapGrows`).
`WayOfFlush` is the heart: an unsaved directory is the current one, a flush under
way will come to it (every closed set that has what is in `todo` has it), and
will not come to one of its entries before, whose flag it would clear. With
`todo` empty the empty set is closed, so nothing is unsaved: `FlushDone`. The
flag of an entry is cleared at the visit to the entry too, but by then its
directory was written, or the flush has turned back: `FlushSaves`.

**What was committed.** `TextsGrow` says that what is cached of a directory begins
with what was committed of it, by whatever entry of whichever list: so the text
that is written does. `CommittedIsDurable` is inductive with it. A failed write
leaves the old text, of which that is true as well; a failed read makes the cache
shorter than the text, and ends what is said of that directory.

**Sessions.** `SInv` follows a text on its way. `OneNode`: entries in memory, but
for the ".", are of different inodes; `CachedIsMade`: what is cached of a
directory is what was made in it; `CleanIsMade`: what would be read of it is
that too, unless it has unsaved entries; `CleanIsWritten`: what is cached of it is
what would be read, unless it has; `Rooms`: the flush will find a block for
it; `MadeOnce`: directories that were made have inodes of their own;
`INodesWritten`: how far unmount has come. Each needs the others: a directory is
read rightly because a flush wrote all of it, and is the only cache of its inode
because no inode was given twice. `EachHasAnEntry` is added for the tree.
`DotDotIsAbove` unfolds the recursive function of `dirParentSearch`: that there is
one (`SearchExists`) and that it finds the right directory (`SearchIsRight`) are
shown from the last entry back to the first, with the least counterexample in
place of an induction rule (`Least`); that it finds one, because the entries below
which nothing is found would be closed (`SearchFinds`).

**The C++ volume.** `Layout` derives from the arithmetic of `MasterBlock`'s
constructor that the two maps are in different blocks of the device, in their
order. `DeviceKnows` says that what users were told is saved is in the maps on
the device, at any time, `MemoryKnows` the same of what they hold and the memory;
`KeptIsHeld` makes a torn unmount harmless (each block, old or new, has what is
kept), and `WrittenSoFar`, up to the last write, lets `ok` promise all of it.

TLC agreed with each inductive invariant on small instances before it was proved.

Only model-checked: `WritesEnd`, a liveness property, and the findings.

## Plan

Done: `Store`, `Volume`, `INodeIO`, `Directory`, `CxxVolume`, and the proofs of
every safety property that a passing run checks. Next, in this order:

1. Inodes that lie in two blocks of the map (`LayoutAssumption` without its
   second conjunct): a torn inode.
2. `Directory` over the blocks of `Volume` itself, with freeBlock and write on
   the blocks of a directory, and with a failing write of the block map.
3. The text of a directory, with separators in names and against its block.

## Not modelled

Parsing of command lines and of the text of directories (`breakWords`), file
permissions and times, `owner_uid` (nothing reads it) and `link_count` (read only
by an assertion of `freeINode`, `inode.c:123`, and set by nothing), the levels of indirect blocks (the code refuses them), memory management, the block
cache (dead code), the test scripts, and in the C++ file system failed reads, a
write after a failed seek, times and the mount of a file that is not a device (its size is then an uninitialised
read). The fs_* functions
of `filesystem.h:42-88` have no definition.

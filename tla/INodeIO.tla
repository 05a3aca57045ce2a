------------------------------- MODULE INodeIO -------------------------------
(***************************************************************************)
(* The contents of files: iNodeRead and iNodeWrite (inode.c:9-105), block  *)
(* by block, on the volume of module Volume.  What a file holds goes to    *)
(* the device at once; the pointers and the marks of its blocks go there   *)
(* when unmount writes the maps, and the program may die, or a block may   *)
(* not be had, in between.                                                 *)
(*                                                                         *)
(* iNodeRead and iNodeWrite look at no inode's status and never touch the  *)
(* blocks allocBlock hands out: allocINode, freeINode, allocBlock and      *)
(* freeBlock are left to Volume.                                           *)
(***************************************************************************)
EXTENDS Volume

CONSTANTS BytesPerBlock,  \* m_bytesPerBlock
          Starts,         \* the argument start of a call
          Lengths,        \* the argument num_bytes of a call
          Texts           \* what is written; each text has bytes of its own

Offsets    == 0 .. BytesPerBlock - 1
MaxLength  == PtrsPerInode * BytesPerBlock
FileBytes  == 0 .. MaxLength - 1
DataBlocks == Blocks \ Reserved

\* A block is found by the loop index alone (inode.c:27, 74), so start must be
\* in the first block of the inode.  All callers pass 0.
ASSUME IOAssumption ==
  /\ BytesPerBlock \in Nat \ {0}
  /\ Starts \subseteq Offsets /\ Lengths \subseteq Nat

\* A byte is a text and the byte's place in it, or zero.
Zero    == <<>>
Unknown == <<"?">>
Bytes   == (Texts \X Nat) \cup {Zero}

VARIABLES
  data,     \* the device: the bytes of every data block
  diskLen,  \* the device: num_bytes of every inode
  memLen,   \* the mounted FileSystem: num_bytes of every inode
  call,     \* the running call of iNodeRead or iNodeWrite: its locals
  buffer,   \* the caller's buffer
  file      \* ghost, by inode and offset: what was written there last

ioVars == <<vars, data, diskLen, memLen, call, buffer, file>>

Calls == [op : {"none", "read", "write"}, ino : Inodes, start : Offsets, len : Nat,
          i : Nat,                            \* the loop index
          at : Offsets,                       \* blockOffset
          done : Nat,                         \* buffOffset
          result : {"none", "all", "short"}]  \* returned from the end, or early

NoCall == [op |-> "none", ino |-> Root, start |-> 0, len |-> 0,
           i |-> 0, at |-> 0, done |-> 0, result |-> "none"]

\* The bytes of the caller's buffer that have a value.
Filled == IF call.op = "write" THEN call.len ELSE call.done

IOTypeOK ==
  /\ TypeOK
  /\ data \in [DataBlocks -> [Offsets -> Bytes]]
  /\ memLen \in [Inodes -> 0 .. MaxLength]
  /\ diskLen \in [Inodes -> 0 .. MaxLength]
  /\ call \in Calls
  /\ buffer \in [0 .. Filled - 1 -> Bytes]
  /\ file \in [Inodes -> [FileBytes -> Bytes \cup {Unknown}]]

NoBytes == [k \in 0 .. -1 |-> Zero]
Empty   == [i \in Inodes |-> 0]

IOInit ==
  /\ Init
  /\ data = [b \in DataBlocks |-> [o \in Offsets |-> Zero]]
  /\ diskLen = Empty /\ memLen = Empty
  /\ call = NoCall /\ buffer = NoBytes
  /\ file = [i \in Inodes |-> [o \in FileBytes |-> Unknown]]

-----------------------------------------------------------------------------
(* The calls.                                                              *)

\* Mutant: the last block is not counted.
NumBlocks_OneShort ==
  (call.start + call.len) \div BytesPerBlock - call.start \div BytesPerBlock

NumBlocks ==
  (call.start + call.len) \div BytesPerBlock - call.start \div BytesPerBlock + 1

\* byteCount of the current iteration.
ByteCount ==
  LET room == BytesPerBlock - call.at
      left == call.len - call.done
  IN  IF room <= left THEN room ELSE left

\* The end of an iteration.
Advanced == [call EXCEPT !.i = @ + 1, !.done = @ + ByteCount, !.at = 0]

\* An early return.
Short == [call EXCEPT !.result = "short"]

InLoop(op) == call.op = op /\ call.result = "none" /\ call.i < NumBlocks

\* getDiskAddressOfBlock: block i of the inode is on the device.
OnDevice == call.i < PtrsPerInode /\ ~Absent(call.ino, call.i)

\* A call, from its declarations to the head of its loop.
Called(op, ino, start, len) ==
  /\ Idle /\ mounted /\ call.op = "none"
  /\ call' = [NoCall EXCEPT !.op = op, !.ino = ino, !.start = start,
                            !.len = len, !.at = start]

iNodeRead(ino, start, len) ==
  /\ Called("read", ino, start, len)
  /\ UNCHANGED <<vars, data, diskLen, memLen, buffer, file>>

\* Mutant: the length is told before anything is written.
iNodeWrite_LengthFirst(ino, start, len, t) ==
  /\ Called("write", ino, start, len)
  /\ buffer' = [k \in 0 .. len - 1 |-> <<t, k>>]
  /\ memLen' = [memLen EXCEPT ![ino] = IF start + len > @ THEN start + len ELSE @]
  /\ UNCHANGED <<vars, data, diskLen, file>>

iNodeWrite(ino, start, len, t) ==
  /\ Called("write", ino, start, len)
  /\ buffer' = [k \in 0 .. len - 1 |-> <<t, k>>]
  /\ UNCHANGED <<vars, data, diskLen, memLen, file>>

\* Mutant: the block buffer is not zeroed and has the block before.
BlockRead_NotZeroed ==
  IF OnDevice THEN data[memPtr[call.ino][call.i]]
  ELSE IF call.i \in 1 .. PtrsPerInode /\ ~Absent(call.ino, call.i - 1)
    THEN data[memPtr[call.ino][call.i - 1]]
  ELSE [o \in Offsets |-> Zero]

\* tbuf: a block that is not on the device reads as zeros.
BlockRead ==
  IF OnDevice THEN data[memPtr[call.ino][call.i]] ELSE [o \in Offsets |-> Zero]

\* An iteration of iNodeRead.
ReadBlock ==
  /\ InLoop("read")
  /\ buffer' = [k \in 0 .. call.done + ByteCount - 1 |->
                  IF k < call.done THEN buffer[k]
                                   ELSE BlockRead[call.at + (k - call.done)]]
  /\ call' = Advanced
  /\ UNCHANGED <<vars, data, diskLen, memLen, file>>

\* readBlock failed: the bytes read so far are returned.
ReadBlockFails ==
  /\ InLoop("read") /\ OnDevice
  /\ call' = Short
  /\ UNCHANGED <<vars, data, diskLen, memLen, buffer, file>>

\* Mutant: the block is not read before it is written.
Overlaid_NotRead(tbuf) ==
  [o \in Offsets |-> IF o - call.at \in 0 .. ByteCount - 1
                       THEN buffer[call.done + (o - call.at)] ELSE Zero]

\* tbuf, once the caller's bytes are copied over what was read.
Overlaid(tbuf) ==
  [o \in Offsets |-> IF o - call.at \in 0 .. ByteCount - 1
                       THEN buffer[call.done + (o - call.at)] ELSE tbuf[o]]

\* The block of this iteration is found, or allocated.
Located ==
  /\ InLoop("write") /\ call.i < PtrsPerInode
  /\ \/ OnDevice /\ UNCHANGED vars
     \/ INodeWriteBlock(call.ino, call.i)

\* An iteration of iNodeWrite.
WriteBlock ==
  /\ Located
  /\ data' = [data EXCEPT ![memPtr'[call.ino][call.i]] = Overlaid(@)]
  /\ file' = [file EXCEPT ![call.ino] =
                [o \in FileBytes |->
                   IF o - call.start \in call.done .. call.done + ByteCount - 1
                     THEN buffer[o - call.start] ELSE @[o]]]
  /\ call' = Advanced
  /\ UNCHANGED <<diskLen, memLen, buffer>>

\* readBlock or writeBlock failed.  An allocated block stays with the inode.
WriteBlockFails ==
  /\ Located
  /\ call' = Short
  /\ UNCHANGED <<data, diskLen, memLen, buffer, file>>

\* The device is full, or the inode has no more pointers.
WriteRefused ==
  /\ InLoop("write")
  /\ call.i < PtrsPerInode => Absent(call.ino, call.i) /\ Unmarked = {}
  /\ call' = Short
  /\ UNCHANGED <<vars, data, diskLen, memLen, buffer, file>>

\* Mutant: the bytes written are added to the length.
Extended_Added == memLen[call.ino] + call.done

\* num_bytes only grows.
Extended ==
  LET end == call.start + call.done
  IN  IF end > memLen[call.ino] THEN end ELSE memLen[call.ino]

\* The end of the loop.  (All other returns leave num_bytes alone.)
LoopEnds ==
  /\ call.op # "none" /\ call.result = "none" /\ call.i = NumBlocks
  /\ memLen' = IF call.op = "write" THEN [memLen EXCEPT ![call.ino] = Extended]
                                    ELSE memLen
  /\ call' = [call EXCEPT !.result = "all"]
  /\ UNCHANGED <<vars, data, diskLen, buffer, file>>

\* The caller has looked at what was returned.
Return ==
  /\ call.result # "none"
  /\ call' = NoCall /\ buffer' = NoBytes
  /\ UNCHANGED <<vars, data, diskLen, memLen, file>>

-----------------------------------------------------------------------------
(* The volume under the files.                                             *)

IOMount ==
  /\ Mount
  /\ memLen' = diskLen
  /\ file' = [i \in Inodes |-> [o \in FileBytes |->
                IF diskPtr[i][o \div BytesPerBlock] # NoBlock THEN file[i][o] ELSE Unknown]]
  /\ UNCHANGED <<data, diskLen, call, buffer>>

IOWriteINodeMap ==
  /\ WriteINodeMap
  /\ diskLen' = [i \in Inodes |->
                   IF InodeBlockOf[i] # next THEN diskLen[i]
                   ELSE IF caller = "newfs" THEN 0 ELSE memLen[i]]
  /\ UNCHANGED <<data, memLen, call, buffer, file>>

IOCloseBlockDevice ==
  /\ CloseBlockDevice
  /\ memLen' = IF caller = "unmount" THEN Empty ELSE memLen
  /\ UNCHANGED <<data, diskLen, call, buffer, file>>

IOCrash ==
  /\ Crash
  /\ memLen' = Empty /\ call' = NoCall /\ buffer' = NoBytes
  /\ UNCHANGED <<data, diskLen, file>>

(* The steps of newfs and unmount that concern no file.  Environment bound: *)
(* newfs is run on a device without file system, and the write of the block *)
(* map does not fail; after either the volume may be unsound (Volume).      *)
VolumeStep ==
  /\ \/ ~master /\ Newfs
     \/ WriteMasterBlock \/ NewfsFails \/ WriteBlockMap \/ WriteINodeMapFails
     \/ call.op = "none" /\ Unmount
  /\ UNCHANGED <<data, diskLen, memLen, call, buffer, file>>

IONext ==
  \/ \E ino \in Inodes, start \in Starts, len \in Lengths :
       \/ iNodeRead(ino, start, len)
       \/ \E t \in Texts : iNodeWrite(ino, start, len, t)
  \/ ReadBlock \/ ReadBlockFails
  \/ WriteBlock \/ WriteBlockFails \/ WriteRefused
  \/ LoopEnds \/ Return
  \/ IOMount \/ IOWriteINodeMap \/ IOCloseBlockDevice \/ IOCrash \/ VolumeStep

IOSpec == IOInit /\ [][IONext]_ioVars

-----------------------------------------------------------------------------
(* Properties.                                                             *)

Slot(o) == o \div BytesPerBlock
At(o)   == o % BytesPerBlock

(* A file keeps what was written to it: by the writes of other files, by   *)
(* partial writes of its own blocks, on a device that is full or fails,    *)
(* and, for the blocks whose pointers were saved, through unmount, crashes *)
(* in unmount and after it, and mount, also when the device has since been *)
(* written by a session that died (inode.c:51-105, 172-194).               *)
FilesAreKept ==
  /\ mounted /\ memSound =>
       \A i \in Inodes, o \in FileBytes : file[i][o] # Unknown =>
         /\ memPtr[i][Slot(o)] # NoBlock
         /\ data[memPtr[i][Slot(o)]][At(o)] = file[i][o]
  /\ diskSound =>
       \A i \in Inodes, o \in FileBytes :
         diskPtr[i][Slot(o)] # NoBlock /\ file[i][o] # Unknown =>
           data[diskPtr[i][Slot(o)]][At(o)] = file[i][o]

(* iNodeRead "reads num_bytes from inode, starting @start" (inode.c:8):    *)
(* the buffer has the bytes of the file at start and behind, and zeros     *)
(* where the inode has no block.                                           *)
ReadsTheFile ==
  mounted /\ memSound /\ call.op = "read" =>
    \A k \in 0 .. call.done - 1 :
      LET o == call.start + k
      IN  IF o \notin FileBytes \/ memPtr[call.ino][Slot(o)] = NoBlock
            THEN buffer[k] = Zero
            ELSE file[call.ino][o] \in {Unknown, buffer[k]}

(* A call that returns from the end of its loop has read or written all of *)
(* num_bytes: the blocks counted for a request, the partial first and last *)
(* one and the bytes taken from each add up (inode.c:10-22, 53-66).        *)
NothingCutShort == call.result = "all" => call.done = call.len

(* num_bytes, in memory and on the device, is never beyond the blocks of   *)
(* the inode, also when a device is full, a write fails or the inode map   *)
(* is torn (inode.c:100-103, 146).                                         *)
LengthHasBlocks ==
  /\ mounted /\ memSound => \A i \in Inodes :
       memLen[i] > 0 => memPtr[i][Slot(memLen[i] - 1)] # NoBlock
  /\ diskSound => \A i \in Inodes :
       diskLen[i] > 0 => diskPtr[i][Slot(diskLen[i] - 1)] # NoBlock
=============================================================================

---------------------------- MODULE INodeIOProofs ----------------------------
(***************************************************************************)
(* What iNodeWrite and iNodeRead promise, for volumes, blocks and requests *)
(* of any size: the files stand on a volume of module Volume, what was     *)
(* written is kept, and a call that ends its loop has done all of it.      *)
(***************************************************************************)
EXTENDS INodeIO, VolumeProofs

(* Division by the block size: the place of byte r of block q. *)
LEMMA Division ==
  ASSUME NEW B \in Nat \ {0}, NEW q \in Nat, NEW r \in 0 .. B - 1
  PROVE  (q * B + r) \div B = q /\ (q * B + r) % B = r
<1> DEFINE x == q * B + r
<1>1. x \in Nat
  OBVIOUS
<1> DEFINE d == x \div B
           m == x % B
<1>2. d \in Nat /\ m \in 0 .. B - 1 /\ x = B * d + m
  BY <1>1
<1> HIDE DEF d, m
<1>3. ~(d > q)
  <2> SUFFICES ASSUME d >= q + 1 PROVE FALSE
    BY <1>2
  <2>1. B * d >= B * (q + 1)
    BY <1>2
  <2> QED BY <2>1, <1>2
<1>4. ~(d < q)
  <2> SUFFICES ASSUME d + 1 <= q PROVE FALSE
    BY <1>2
  <2>1. B * (d + 1) <= B * q
    BY <1>2
  <2> QED BY <2>1, <1>2
<1>5. d = q
  BY <1>2, <1>3, <1>4
<1> QED BY <1>2, <1>5 DEF d, m

(* What an iteration takes. *)
LEMMA Iteration ==
  ASSUME NEW B \in Nat \ {0}, NEW start \in 0 .. B - 1, NEW len \in Nat,
         NEW i \in Nat, NEW at \in 0 .. B - 1, NEW done \in 0 .. len,
         start + done = i * B + at,
         i < (start + len) \div B - start \div B + 1,
         NEW c, c = IF B - at <= len - done THEN B - at ELSE len - done
  PROVE  /\ c \in 0 .. B - at
         /\ done + c \in 0 .. len
         /\ i + 1 < (start + len) \div B - start \div B + 1
              => start + (done + c) = (i + 1) * B
         /\ i + 1 = (start + len) \div B - start \div B + 1 => done + c = len
<1>1. start \div B = 0
  BY Division, 0 * B + start = start
<1> DEFINE L == (start + len) \div B
           m == (start + len) % B
<1>2. L \in Nat /\ m \in 0 .. B - 1 /\ start + len = B * L + m
  OBVIOUS
<1> HIDE DEF L, m
<1>3. i <= L
  BY <1>1, <1>2 DEF L
<1>4. i * B \in Nat /\ (i + 1) * B = i * B + B
  OBVIOUS
<1>5. ASSUME i < L PROVE B - at <= len - done
  <2>1. B * (i + 1) <= B * L
    BY <1>5, <1>2
  <2> QED BY <2>1, <1>2, <1>4
<1>6. ASSUME i = L PROVE len - done < B - at
  BY <1>6, <1>2, <1>4
<1>7. c \in 0 .. B - at /\ done + c \in 0 .. len
  OBVIOUS
<1>8. i + 1 < L + 1 => start + (done + c) = (i + 1) * B
  BY <1>5, <1>4, <1>2
<1>9. i + 1 = L + 1 => done + c = len
  BY <1>6, <1>2
<1> QED BY <1>1, <1>7, <1>8, <1>9, <1>2 DEF L

-----------------------------------------------------------------------------
(* The invariant: how far the loop of a call is, and that with the commands *)
(* of INodeIO a mounted file system is sound when its device is.            *)

LoopInv ==
  /\ call.op # "none" => Idle /\ mounted
  /\ call.op = "none" => call = NoCall
  /\ call.done <= call.len
  /\ call.op = "write" => call.i <= PtrsPerInode
  /\ call.result = "all" => call.done = call.len
  /\ call.op # "none" /\ call.result = "none" =>
       /\ call.i <= NumBlocks
       /\ call.i < NumBlocks =>
            call.start + call.done = call.i * BytesPerBlock + call.at
       /\ call.i = NumBlocks => call.done = call.len

SoundTogether == mounted => (memSound <=> diskSound) /\ caller # "newfs"

Others == IOTypeOK /\ LoopInv /\ SoundTogether /\ FilesAreKept

\* The volume under the files; no command of INodeIO frees a block.
VInv == IInv /\ ~tampered

IOInv == VInv /\ Others

(* The volume under the files is a volume. *)
LEMMA VolumeStepsOnly == IOTypeOK /\ [IONext]_ioVars => [Next]_vars
<1> SUFFICES ASSUME IOTypeOK, [IONext]_ioVars PROVE [Next]_vars
  OBVIOUS
<1>1. CASE Located
  <2>1. CASE UNCHANGED vars BY <2>1
  <2>2. CASE INodeWriteBlock(call.ino, call.i)
    <3>1. call.ino \in Inodes /\ call.i \in Slots
      BY <1>1, SizeAssumption DEF Located, IOTypeOK, Calls, Slots
    <3> QED BY <2>2, <3>1 DEF Next
  <2> QED BY <1>1, <2>1, <2>2 DEF Located
<1>2. CASE IOMount \/ IOWriteINodeMap \/ IOCloseBlockDevice \/ IOCrash
  BY <1>2 DEF IOMount, IOWriteINodeMap, IOCloseBlockDevice, IOCrash, Next
<1>3. CASE VolumeStep
  BY <1>3 DEF VolumeStep, Next
<1>4. CASE UNCHANGED vars
  BY <1>4
<1> QED
  BY <1>1, <1>2, <1>3, <1>4
  DEF IONext, ioVars, iNodeRead, iNodeWrite, ReadBlock, ReadBlockFails, WriteBlock,
      WriteBlockFails, WriteRefused, LoopEnds, Return

LEMMA UntamperedStep == IOTypeOK /\ [IONext]_ioVars => tampered' = tampered
<1> SUFFICES ASSUME IOTypeOK, [IONext]_ioVars PROVE tampered' = tampered
  OBVIOUS
<1>1. CASE Located
  BY <1>1 DEF Located, INodeWriteBlock, vars, ghosts
<1>2. CASE IOMount \/ IOWriteINodeMap \/ IOCloseBlockDevice \/ IOCrash
  BY <1>2 DEF IOMount, IOWriteINodeMap, IOCloseBlockDevice, IOCrash,
              Mount, WriteINodeMap, CloseBlockDevice, Crash, ghosts
<1>3. CASE VolumeStep
  BY <1>3 DEF VolumeStep, Newfs, WriteMasterBlock, NewfsFails, WriteBlockMap,
              WriteINodeMapFails, Unmount, ghosts
<1>4. CASE UNCHANGED vars
  BY <1>4 DEF vars, ghosts
<1> QED
  BY <1>1, <1>2, <1>3, <1>4
  DEF IONext, ioVars, iNodeRead, iNodeWrite, ReadBlock, ReadBlockFails, WriteBlock,
      WriteBlockFails, WriteRefused, LoopEnds, Return

LEMMA Constants ==
  /\ BytesPerBlock \in Nat \ {0} /\ PtrsPerInode \in Nat /\ MaxLength \in Nat
  /\ Root \in Inodes /\ 0 \in Offsets /\ NoBytes \in [0 .. -1 -> Bytes]
  /\ NoCall \in Calls /\ Zero \in Bytes
  /\ Empty \in [Inodes -> 0 .. MaxLength]
<1>1. MaxLength \in Nat
  BY IOAssumption, SizeAssumption DEF MaxLength
<1> QED BY <1>1, IOAssumption, SizeAssumption
  DEF Root, Inodes, Offsets, NoBytes, Bytes, NoCall, Calls, Empty

LEMMA OthersInit == IOInit => Others
<1> SUFFICES ASSUME IOInit PROVE Others
  OBVIOUS
<1>1. TypeOK
  BY TypeInit DEF IOInit
<1>2. IOTypeOK
  BY <1>1, Constants DEF IOInit, IOTypeOK, NoCall, Filled
<1> QED BY <1>2 DEF IOInit, Init, Others, LoopInv, SoundTogether, FilesAreKept, NoCall

(* What the loop knows about its current iteration. *)
LEMMA Current ==
  ASSUME IOTypeOK, LoopInv, NEW op \in {"read", "write"}, InLoop(op)
  PROVE  /\ call.start + call.done = call.i * BytesPerBlock + call.at
         /\ ByteCount \in 0 .. BytesPerBlock - call.at
         /\ call.done + ByteCount \in 0 .. call.len
         /\ call.i + 1 <= NumBlocks
         /\ call.i + 1 < NumBlocks =>
              call.start + (call.done + ByteCount) = (call.i + 1) * BytesPerBlock
         /\ call.i + 1 = NumBlocks => call.done + ByteCount = call.len
<1> DEFINE B     == BytesPerBlock
           start == call.start
           len   == call.len
           i     == call.i
           at    == call.at
           done  == call.done
           c     == ByteCount
           n     == (start + len) \div B - start \div B + 1
<1>1. start + done = i * B + at
  BY DEF LoopInv, InLoop
<1>2. /\ B \in Nat \ {0} /\ start \in 0 .. B - 1 /\ len \in Nat
      /\ i \in Nat /\ at \in 0 .. B - 1 /\ done \in 0 .. len
  BY Constants DEF IOTypeOK, Calls, Offsets, LoopInv
<1>3. n = NumBlocks /\ n \in Int
  BY <1>2 DEF NumBlocks
<1>4. i < (start + len) \div B - start \div B + 1
  BY <1>3 DEF InLoop
<1>5. c = IF B - at <= len - done THEN B - at ELSE len - done
  BY DEF ByteCount
<1> HIDE DEF B, start, len, i, at, done, c
<1>6. /\ c \in 0 .. B - at
      /\ done + c \in 0 .. len
      /\ i + 1 < n => start + (done + c) = (i + 1) * B
      /\ i + 1 = n => done + c = len
  BY <1>1, <1>2, <1>4, <1>5, Iteration
<1> HIDE DEF n
<1>7. i + 1 <= n
  BY <1>2, <1>3, <1>4 DEF n
<1> QED BY <1>1, <1>3, <1>6, <1>7 DEF B, start, len, i, at, done, c

(* The loop goes on. *)
LEMMA AdvancedLoop ==
  ASSUME IOTypeOK, LoopInv, NEW op \in {"read", "write"}, InLoop(op),
         op = "write" => call.i < PtrsPerInode,
         call' = Advanced, UNCHANGED <<phase, mounted>>
  PROVE  call' \in Calls /\ LoopInv' /\ Filled' = IF op = "write" THEN call.len
                                                  ELSE call.done + ByteCount
<1>1. /\ ByteCount \in 0 .. BytesPerBlock - call.at
      /\ call.done + ByteCount \in 0 .. call.len
      /\ call.i + 1 <= NumBlocks
      /\ call.i + 1 < NumBlocks =>
           call.start + (call.done + ByteCount) = (call.i + 1) * BytesPerBlock
      /\ call.i + 1 = NumBlocks => call.done + ByteCount = call.len
  BY Current
<1>2. call \in Calls /\ call.op = op /\ call.result = "none"
  BY DEF IOTypeOK, InLoop
<1>0. call.done + ByteCount \in Nat /\ call.i + 1 \in Nat
  BY <1>1, <1>2 DEF Calls
<1>3. /\ call'.op = op /\ call'.result = "none" /\ call'.start = call.start
      /\ call'.len = call.len /\ call'.i = call.i + 1 /\ call'.at = 0
      /\ call'.done = call.done + ByteCount /\ call'.ino = call.ino
      /\ call' \in Calls
  BY <1>0, <1>2, Constants DEF Advanced, Calls
<1>4. NumBlocks' = NumBlocks
  BY <1>3 DEF NumBlocks
<1>5. (call.i + 1) * BytesPerBlock + 0 = (call.i + 1) * BytesPerBlock
  BY <1>2, Constants DEF Calls
<1> DEFINE sum == (call.i + 1) * BytesPerBlock
<1> HIDE DEF sum
<1>6. LoopInv'
  BY <1>1, <1>2, <1>3, <1>4, <1>5, Constants DEF LoopInv, Idle, Calls, NoCall
<1> QED BY <1>2, <1>3, <1>6 DEF Filled

LEMMA StartedLoop ==
  ASSUME NEW start \in Offsets, NEW len \in Nat
  PROVE  (start + len) \div BytesPerBlock - start \div BytesPerBlock + 1 \in Nat \ {0}
<1> DEFINE B == BytesPerBlock
<1>1. B \in Nat \ {0} /\ start \in 0 .. B - 1
  BY Constants DEF Offsets
<1>2. start \div B = 0
  <2> HIDE DEF B
  <2> QED BY <1>1, Division, 0 * B + start = start
<1>3. (start + len) \div B \in Nat
  BY <1>1
<1> QED BY <1>2, <1>3

(* Steps that leave the volume and the contents of the device alone.       *)
LEMMA QuietStep ==
  ASSUME Others, UNCHANGED <<vars, data, diskLen, memLen, file>>,
         call' \in Calls, buffer' \in [0 .. Filled' - 1 -> Bytes], LoopInv'
  PROVE  Others'
<1>1. TypeOK' /\ SoundTogether'
  BY DEF Others, IOTypeOK, TypeOK, SoundTogether, vars, disk, mem, write, ghosts
<1>2. IOTypeOK'
  BY <1>1 DEF Others, IOTypeOK
<1>3. FilesAreKept'
  BY DEF Others, FilesAreKept, vars, disk, mem, write, ghosts, Slot, At
<1> QED BY <1>1, <1>2, <1>3 DEF Others

LEMMA CalledStep ==
  ASSUME Others, NEW op \in {"read", "write"}, NEW ino \in Inodes,
         NEW start \in Starts, NEW len \in Lengths, Called(op, ino, start, len),
         UNCHANGED vars
  PROVE  /\ call' \in Calls /\ LoopInv'
         /\ Filled' = IF op = "write" THEN len ELSE 0
<1>1. start \in Offsets /\ len \in Nat
  BY IOAssumption
<1>2. /\ call'.op = op /\ call'.ino = ino /\ call'.start = start /\ call'.len = len
      /\ call'.i = 0 /\ call'.at = start /\ call'.done = 0 /\ call'.result = "none"
      /\ call' \in Calls
  BY <1>1, Constants DEF Called, NoCall, Calls
<1>3. NumBlocks' \in Nat \ {0}
  BY <1>1, <1>2, StartedLoop DEF NumBlocks
<1>4. call'.start + call'.done = call'.i * BytesPerBlock + call'.at
  BY <1>1, <1>2, Constants DEF Offsets
<1>5. phase' = "idle" /\ mounted'
  BY DEF Called, Idle, vars, write
<1>6. LoopInv'
  BY <1>1, <1>2, <1>3, <1>4, <1>5, Constants DEF LoopInv, Idle
<1> QED BY <1>2, <1>6 DEF Filled

LEMMA ReadSteps ==
  ASSUME Others, VInv,
         \/ \E ino \in Inodes, start \in Starts, len \in Lengths : iNodeRead(ino, start, len)
         \/ ReadBlock \/ ReadBlockFails
  PROVE  Others'
<1>1. ASSUME NEW ino \in Inodes, NEW start \in Starts, NEW len \in Lengths,
             iNodeRead(ino, start, len)
      PROVE  Others'
  <2>1. /\ Called("read", ino, start, len)
        /\ UNCHANGED <<vars, data, diskLen, memLen, buffer, file>>
    BY <1>1 DEF iNodeRead
  <2>2. call' \in Calls /\ LoopInv' /\ Filled' = 0
    BY <2>1, CalledStep
  <2>3. Filled = 0
    BY <2>1 DEF Called, Others, LoopInv, Filled, NoCall
  <2>4. buffer' \in [0 .. Filled' - 1 -> Bytes]
    BY <2>1, <2>2, <2>3 DEF Others, IOTypeOK
  <2> QED BY <2>1, <2>2, <2>4, QuietStep
<1>2. CASE ReadBlock
  <2>1. /\ InLoop("read") /\ call' = Advanced
        /\ UNCHANGED <<vars, data, diskLen, memLen, file>>
    BY <1>2 DEF ReadBlock
  <2>2. call' \in Calls /\ LoopInv' /\ Filled' = call.done + ByteCount
    BY <2>1, AdvancedLoop DEF Others, vars, write
  <2>3. /\ call.done + ByteCount \in Nat /\ call.done \in Nat /\ call.at \in Offsets
        /\ ByteCount \in 0 .. BytesPerBlock - call.at
    BY <2>1, Current DEF Others, IOTypeOK, Calls
  <2>4. BlockRead \in [Offsets -> Bytes]
    <3>1. CASE OnDevice
      <4>1. call.ino \in Inodes /\ call.i \in Slots
        BY <3>1, SizeAssumption DEF OnDevice, Others, IOTypeOK, Calls, Slots
      <4>2. memPtr[call.ino][call.i] \in DataBlocks
        BY <3>1, <4>1 DEF OnDevice, Absent, VInv, IInv, Rest, PointersToData, SparesReserved, TypeOK,
                          Pointers, DataBlocks
      <4> QED BY <3>1, <4>2 DEF BlockRead, Others, IOTypeOK
    <3>2. CASE ~OnDevice
      BY <3>2, Constants DEF BlockRead
    <3> QED BY <3>1, <3>2
  <2>5. Filled = call.done /\ buffer \in [0 .. call.done - 1 -> Bytes]
    BY <2>1 DEF InLoop, Filled, Others, IOTypeOK
  <2>6. buffer' \in [0 .. Filled' - 1 -> Bytes]
    <3> DEFINE byte(k) == IF k < call.done THEN buffer[k]
                                           ELSE BlockRead[call.at + (k - call.done)]
    <3>4. buffer' = [k \in 0 .. call.done + ByteCount - 1 |-> byte(k)]
      BY <1>2 DEF ReadBlock
    <3> SUFFICES ASSUME NEW k \in 0 .. call.done + ByteCount - 1
                 PROVE  byte(k) \in Bytes
      <4>1. 0 .. Filled' - 1 = 0 .. call.done + ByteCount - 1
        <5>1. Filled' = call.done + ByteCount
          BY <2>2
        <5> QED BY <5>1, <2>3
      <4> HIDE DEF byte
      <4> QED BY <4>1, <3>4, Zenon
    <3>1. CASE k < call.done
      BY <3>1, <2>3, <2>5
    <3>2. CASE ~(k < call.done)
      <4>1. /\ BytesPerBlock \in Nat /\ call.at \in Nat /\ call.done \in Nat
            /\ ByteCount \in Nat /\ call.at + ByteCount <= BytesPerBlock
        BY <2>3, Constants DEF Offsets
      <4>2. k - call.done \in 0 .. ByteCount - 1
        BY <3>2, <4>1
      <4>3. call.at + (k - call.done) \in Offsets
        BY <4>1, <4>2 DEF Offsets
      <4> QED BY <3>2, <4>3, <2>4
    <3> QED BY <3>1, <3>2
  <2> QED BY <2>1, <2>2, <2>6, QuietStep
<1>3. CASE ReadBlockFails
  <2>1. call' = Short /\ UNCHANGED <<vars, data, diskLen, memLen, buffer, file>>
    BY <1>3 DEF ReadBlockFails
  <2>2. call' \in Calls /\ Filled' = Filled
    BY <2>1 DEF Short, Calls, Others, IOTypeOK, Filled
  <2>3. call.op = "read" /\ call'.op = "read" /\ call'.done = call.done
        /\ call'.len = call.len /\ call'.result = "short"
    BY <1>3, <2>1 DEF ReadBlockFails, InLoop, Short, Calls, Others, IOTypeOK
  <2>4. LoopInv'
    BY <2>1, <2>3 DEF Others, LoopInv, Idle, vars, write
  <2> QED BY <2>1, <2>2, <2>4, QuietStep DEF Others, IOTypeOK
<1> QED BY <1>1, <1>2, <1>3

-----------------------------------------------------------------------------
(* Steps that write files.                                                 *)

MemFiles ==
  \A i \in Inodes, o \in FileBytes : file[i][o] # Unknown =>
    /\ memPtr[i][Slot(o)] # NoBlock
    /\ data[memPtr[i][Slot(o)]][At(o)] = file[i][o]

DiskFiles ==
  \A i \in Inodes, o \in FileBytes :
    diskPtr[i][Slot(o)] # NoBlock /\ file[i][o] # Unknown =>
      data[diskPtr[i][Slot(o)]][At(o)] = file[i][o]

LEMMA SlotFacts ==
  \A o \in FileBytes :
    /\ o \in Nat /\ Slot(o) \in Slots /\ At(o) \in Offsets
    /\ o = Slot(o) * BytesPerBlock + At(o)
<1> SUFFICES ASSUME NEW o \in FileBytes
             PROVE  /\ o \in Nat /\ Slot(o) \in Slots /\ At(o) \in Offsets
                    /\ o = Slot(o) * BytesPerBlock + At(o)
  OBVIOUS
<1> DEFINE B == BytesPerBlock
           d == o \div B
           m == o % B
<1>1. B \in Nat \ {0} /\ PtrsPerInode \in Nat /\ o \in Nat /\ o < PtrsPerInode * B
  BY Constants DEF FileBytes, MaxLength
<1>2. d \in Nat /\ m \in 0 .. B - 1 /\ o = B * d + m
  BY <1>1
<1> HIDE DEF d, m, B
<1>3. B * d = d * B
  BY <1>1, <1>2
<1>4. d < PtrsPerInode
  <2> SUFFICES ASSUME d >= PtrsPerInode PROVE FALSE
    BY <1>1, <1>2
  <2>1. d * B >= PtrsPerInode * B
    BY <1>1, <1>2
  <2> QED BY <2>1, <1>1, <1>2, <1>3
<1> QED BY <1>1, <1>2, <1>3, <1>4 DEF d, m, B, Slot, At, Slots, Offsets

(* Which bytes of the file the c bytes from byte at of block i are. *)
LEMMA Place ==
  ASSUME NEW B \in Nat \ {0}, NEW i \in Nat, NEW at \in 0 .. B - 1,
         NEW c \in 0 .. B - at, NEW o \in Nat, NEW x \in Int, x = i * B + at
  PROVE  /\ o - x \in 0 .. c - 1 => o \div B = i
         /\ o \div B = i => o - x = (o % B) - at
<1>1. ASSUME o - x \in 0 .. c - 1 PROVE o \div B = i
  <2> DEFINE r == at + (o - x)
  <2>1. i * B \in Int
    OBVIOUS
  <2>2. r \in 0 .. B - 1 /\ o = i * B + r
    BY <1>1, <2>1
  <2> HIDE DEF r
  <2>3. (i * B + r) \div B = i
    BY <2>2, Division
  <2> QED BY <2>2, <2>3
<1>2. ASSUME o \div B = i PROVE o - x = (o % B) - at
  <2> DEFINE p == i * B
             m == o % B
             d == o \div B
  <2>1. o = B * d + m /\ m \in Int
    OBVIOUS
  <2>2. d = i
    BY <1>2
  <2> HIDE DEF d, m
  <2>3. B * i = p /\ p \in Int
    OBVIOUS
  <2>4. x = p + at /\ o = p + m /\ p \in Int /\ m \in Int
    BY <2>1, <2>2, <2>3
  <2> HIDE DEF p
  <2>5. o - x = m - at
    BY <2>4
  <2> QED BY <2>5 DEF m
<1> QED BY <1>1, <1>2

(* With a file system mounted, what is in memory decides for both. *)
LEMMA MountedFiles ==
  ASSUME VInv', SoundTogether', mounted', memSound' => MemFiles'
  PROVE  FilesAreKept'
<1>1. ASSUME diskSound' PROVE DiskFiles'
  <2>1. memSound' /\ MemFiles' /\ Agreement'
    BY <1>1 DEF SoundTogether, VInv, IInv, Rest
  <2> SUFFICES ASSUME NEW i \in Inodes, NEW o \in FileBytes,
                      diskPtr'[i][Slot(o)] # NoBlock, file'[i][o] # Unknown
               PROVE  data'[diskPtr'[i][Slot(o)]][At(o)] = file'[i][o]
    BY DEF DiskFiles, Slot, At
  <2>2. Slot(o) \in Slots
    BY SlotFacts
  <2>3. memPtr'[i][Slot(o)] = diskPtr'[i][Slot(o)]
    BY <1>1, <2>1, <2>2 DEF Agreement
  <2>4. data'[memPtr'[i][Slot(o)]][At(o)] = file'[i][o]
    BY <2>1 DEF MemFiles, Slot, At
  <2> QED BY <2>3, <2>4
<1> QED BY <1>1 DEF FilesAreKept, MemFiles, DiskFiles

(* The block of an iteration of iNodeWrite. *)
LEMMA LocatedFacts ==
  ASSUME VInv, Others, Located
  PROVE  /\ call.ino \in Inodes /\ call.i \in Slots
         /\ memPtr' \in Pointers /\ memPtr'[call.ino][call.i] \in DataBlocks
         /\ \A j \in Inodes, s \in Slots :
              j # call.ino \/ s # call.i \/ memPtr[j][s] # NoBlock
                => memPtr'[j][s] = memPtr[j][s]
         /\ UNCHANGED <<diskPtr, write, diskSound, memSound, mounted>>
         /\ mounted
<1>1. call.ino \in Inodes /\ call.i \in Slots /\ memPtr \in Pointers
  BY SizeAssumption DEF Located, Others, IOTypeOK, Calls, Slots, VInv, IInv, TypeOK
<1>2. mounted
  BY DEF Located, InLoop, Others, LoopInv
<1>3. CASE OnDevice /\ UNCHANGED vars
  <2>1. memPtr[call.ino][call.i] \in DataBlocks
    BY <1>1, <1>3 DEF OnDevice, Absent, VInv, IInv, Rest, PointersToData, SparesReserved, TypeOK,
                      Pointers, DataBlocks
  <2> QED BY <1>1, <1>2, <1>3, <2>1 DEF vars, disk, mem, write, ghosts
<1>4. CASE INodeWriteBlock(call.ino, call.i)
  <2> PICK b \in Blocks :
         /\ Lowest(b)
         /\ memPtr' = [memPtr EXCEPT ![call.ino] = [memPtr[call.ino] EXCEPT ![call.i] = b]]
         /\ WrittenTo(b)
    BY <1>4 DEF INodeWriteBlock
  <2>1. b \in DataBlocks /\ UNCHANGED <<disk, diskSound>>
    BY DEF Lowest, Unmarked, VInv, IInv, Rest, ReservedMarked, DataBlocks, WrittenTo
  <2>2. memPtr'[call.ino][call.i] = b /\ memPtr' \in Pointers
    BY <1>1 DEF Pointers
  <2>3. memPtr[call.ino][call.i] = NoBlock
    BY <1>4 DEF INodeWriteBlock, Absent
  <2>4. \A j \in Inodes, s \in Slots :
          j # call.ino \/ s # call.i => memPtr'[j][s] = memPtr[j][s]
    BY <1>1 DEF Pointers
  <2> QED BY <1>1, <1>2, <1>4, <2>1, <2>2, <2>3, <2>4
      DEF INodeWriteBlock, disk, ghosts
<1> QED BY <1>3, <1>4 DEF Located

(* An early return. *)
LEMMA ShortLoop ==
  ASSUME Others, call' = Short, call.op # "none", phase' = phase, mounted' = mounted
  PROVE  call' \in Calls /\ LoopInv' /\ Filled' = Filled
<1>1. call \in Calls
  BY DEF Others, IOTypeOK
<1>2. /\ call'.op = call.op /\ call'.done = call.done /\ call'.i = call.i
      /\ call'.len = call.len /\ call'.result = "short" /\ call' \in Calls
  BY <1>1 DEF Short, Calls
<1>3. LoopInv'
  BY <1>2 DEF Others, LoopInv, Idle
<1> QED BY <1>2, <1>3 DEF Filled

LEMMA WriteBlockStep ==
  ASSUME VInv, VInv', Others, WriteBlock
  PROVE  Others'
<1> DEFINE ino == call.ino
           n   == call.i
           b   == memPtr'[ino][n]
           x   == call.start + call.done
           put(o) == IF o - call.start \in call.done .. call.done + ByteCount - 1
                       THEN buffer[o - call.start] ELSE file[ino][o]
<1>1. /\ ino \in Inodes /\ n \in Slots /\ b \in DataBlocks
      /\ \A j \in Inodes, s \in Slots :
           j # ino \/ s # n \/ memPtr[j][s] # NoBlock => memPtr'[j][s] = memPtr[j][s]
      /\ UNCHANGED <<diskPtr, write, diskSound, memSound, mounted>>
      /\ mounted
  BY LocatedFacts DEF WriteBlock
<1>2. /\ InLoop("write") /\ n < PtrsPerInode /\ call' = Advanced
      /\ data' = [data EXCEPT ![b] = Overlaid(@)]
      /\ file' = [file EXCEPT ![ino] = [o \in FileBytes |-> put(o)]]
      /\ UNCHANGED <<diskLen, memLen, buffer>>
  BY DEF WriteBlock, Located
<1>3. /\ call' \in Calls /\ LoopInv' /\ Filled' = call.len
  BY <1>1, <1>2, AdvancedLoop DEF Others, write
<1>4. /\ x = n * BytesPerBlock + call.at
      /\ ByteCount \in 0 .. BytesPerBlock - call.at
      /\ call.done + ByteCount \in 0 .. call.len
      /\ call.start \in Nat /\ call.done \in Nat /\ n \in Nat
      /\ call.at \in 0 .. BytesPerBlock - 1
  BY <1>2, Current DEF Others, IOTypeOK, Calls, Offsets
<1>11. /\ ByteCount \in Nat /\ ByteCount <= BytesPerBlock - call.at
       /\ call.done + ByteCount <= call.len
       /\ call.start \in Nat /\ call.done \in Nat /\ call.at \in Nat
       /\ BytesPerBlock \in Nat /\ call.len \in Nat
  BY <1>4, Constants DEF Others, IOTypeOK, Calls
<1>5. Filled = call.len /\ buffer \in [0 .. call.len - 1 -> Bytes] /\ call.len \in Nat
  BY <1>2 DEF InLoop, Filled, Others, IOTypeOK, Calls
<1>6. /\ data \in [DataBlocks -> [Offsets -> Bytes]]
      /\ file \in [Inodes -> [FileBytes -> Bytes \cup {Unknown}]]
  BY DEF Others, IOTypeOK
<1> HIDE DEF ino, n, b, x
<1>7. IOTypeOK'
  <2>1. Overlaid(data[b]) \in [Offsets -> Bytes]
    <3> SUFFICES ASSUME NEW o \in Offsets, o - call.at \in 0 .. ByteCount - 1
                 PROVE  buffer[call.done + (o - call.at)] \in Bytes
      BY <1>1, <1>6 DEF Overlaid
    <3>1. call.done + (o - call.at) \in 0 .. call.len - 1
      BY <1>11 DEF Offsets
    <3> QED BY <3>1, <1>5
  <2>2. data' \in [DataBlocks -> [Offsets -> Bytes]]
    BY <2>1, <1>1, <1>2, <1>6
  <2>3. ASSUME NEW o \in FileBytes PROVE put(o) \in Bytes \cup {Unknown}
    <3>1. CASE o - call.start \in call.done .. call.done + ByteCount - 1
      <4>1. o - call.start \in 0 .. call.len - 1
        BY <3>1, <1>11
      <4> QED BY <3>1, <4>1, <1>5
    <3>2. CASE o - call.start \notin call.done .. call.done + ByteCount - 1
      BY <3>2, <1>1, <1>6
    <3> QED BY <3>1, <3>2
  <2> HIDE DEF put
  <2>4. file' \in [Inodes -> [FileBytes -> Bytes \cup {Unknown}]]
    BY <2>3, <1>1, <1>2, <1>6
  <2>5. buffer' \in [0 .. Filled' - 1 -> Bytes]
    BY <1>2, <1>3, <1>5
  <2> QED BY <2>2, <2>4, <2>5, <1>2, <1>3 DEF VInv, IInv, Others, IOTypeOK
<1>8. SoundTogether'
  BY <1>1 DEF Others, SoundTogether, write
<1>9. ASSUME memSound' PROVE MemFiles'
  <2>1. MemFiles /\ OwnerUnique(memPtr')
    BY <1>1, <1>9 DEF Others, FilesAreKept, MemFiles, VInv, IInv, Rest, MemGood, OwnerUnique
  <2> SUFFICES ASSUME NEW j \in Inodes, NEW o \in FileBytes, file'[j][o] # Unknown
               PROVE  /\ memPtr'[j][Slot(o)] # NoBlock
                      /\ data'[memPtr'[j][Slot(o)]][At(o)] = file'[j][o]
    BY DEF MemFiles, Slot, At
  <2> DEFINE s == Slot(o)
  <2>2. /\ o \in Nat /\ s \in Slots /\ At(o) \in Offsets
    BY SlotFacts
  <2>3. x \in Int
    BY <1>4 DEF x
  <2>4. /\ o - x \in 0 .. ByteCount - 1 => s = n
        /\ s = n => o - x = At(o) - call.at
    <3> DEFINE at == call.at
               c  == ByteCount
               B  == BytesPerBlock
    <3>1. /\ B \in Nat \ {0} /\ n \in Nat /\ at \in 0 .. B - 1 /\ c \in 0 .. B - at
          /\ x = n * B + at
      BY <1>4, Constants
    <3> HIDE DEF at, c, B
    <3>2. /\ o - x \in 0 .. c - 1 => o \div B = n
          /\ o \div B = n => o - x = (o % B) - at
      BY <2>2, <2>3, <3>1, Place
    <3> QED BY <3>2 DEF Slot, At, at, c, B
  <2>5. /\ o - call.start \in call.done .. call.done + ByteCount - 1
             <=> o - x \in 0 .. ByteCount - 1
        /\ o - call.start = call.done + (o - x)
    BY <2>2, <1>11 DEF x
  <2>6. b # NoBlock
    BY <1>1, ConstantFacts DEF DataBlocks
  <2> HIDE DEF s
  <2>7. CASE j = ino /\ s = n
    <3>1. memPtr'[j][s] = b
      BY <2>7 DEF b
    <3>2. data'[b][At(o)] = Overlaid(data[b])[At(o)]
      BY <1>1, <1>2, <1>6
    <3>3. file'[j][o] = put(o)
      BY <1>1, <1>2, <1>6, <2>7
    <3>4. CASE o - x \in 0 .. ByteCount - 1
      <4>1. put(o) = buffer[call.done + (o - x)]
        BY <3>4, <2>5
      <4>2. Overlaid(data[b])[At(o)] = buffer[call.done + (At(o) - call.at)]
        BY <3>4, <2>2, <2>4, <2>7 DEF Overlaid
      <4> QED BY <3>1, <3>2, <3>3, <4>1, <4>2, <2>4, <2>6, <2>7 DEF s
    <3>5. CASE o - x \notin 0 .. ByteCount - 1
      <4>1. put(o) = file[ino][o]
        BY <3>5, <2>5
      <4>2. Overlaid(data[b])[At(o)] = data[b][At(o)]
        BY <3>5, <2>2, <2>4, <2>7 DEF Overlaid
      <4>3. memPtr[j][s] # NoBlock /\ data[memPtr[j][s]][At(o)] = file[j][o]
        BY <2>1, <2>7, <3>3, <4>1 DEF MemFiles, s
      <4>4. memPtr[j][s] = b
        BY <4>3, <3>1, <1>1, <2>2
      <4> QED BY <3>1, <3>2, <3>3, <4>1, <4>2, <4>3, <4>4, <2>6, <2>7 DEF s
    <3> QED BY <3>4, <3>5
  <2>8. CASE j # ino \/ s # n
    <3>1. file'[j][o] = file[j][o]
      <4>1. CASE j # ino
        BY <4>1, <1>1, <1>2, <1>6
      <4>2. CASE j = ino
        <5>1. put(o) = file[j][o]
          BY <4>2, <2>4, <2>5, <2>8
        <5> QED BY <4>2, <5>1, <1>1, <1>2, <1>6
      <4> QED BY <4>1, <4>2
    <3>2. memPtr'[j][s] = memPtr[j][s]
      BY <1>1, <2>2, <2>8
    <3>3. memPtr[j][s] # NoBlock /\ data[memPtr[j][s]][At(o)] = file[j][o]
      BY <2>1, <3>1 DEF MemFiles, s
    <3>4. memPtr'[j][s] # b
      BY <3>2, <3>3, <2>1, <2>2, <2>8, <1>1 DEF OwnerUnique, b
    <3>5. data'[memPtr'[j][s]] = data[memPtr[j][s]]
      <4>1. memPtr[j][s] \in DataBlocks
        BY <3>3, <2>2 DEF VInv, IInv, Rest, PointersToData, SparesReserved, TypeOK, Pointers, DataBlocks
      <4> QED BY <4>1, <3>2, <3>4, <1>2, <1>6
    <3> QED BY <3>1, <3>2, <3>3, <3>5 DEF s
  <2> QED BY <2>7, <2>8
<1>10. mounted'
  BY <1>1
<1> QED BY <1>3, <1>7, <1>8, <1>9, <1>10, MountedFiles DEF Others

LEMMA WriteSteps ==
  ASSUME VInv, VInv', Others,
         \/ \E ino \in Inodes, start \in Starts, len \in Lengths, t \in Texts :
              iNodeWrite(ino, start, len, t)
         \/ WriteBlockFails \/ WriteRefused \/ Return
  PROVE  Others'
<1>1. ASSUME NEW ino \in Inodes, NEW start \in Starts, NEW len \in Lengths,
             NEW t \in Texts, iNodeWrite(ino, start, len, t)
      PROVE  Others'
  <2>1. /\ Called("write", ino, start, len)
        /\ buffer' = [k \in 0 .. len - 1 |-> <<t, k>>]
        /\ UNCHANGED <<vars, data, diskLen, memLen, file>>
    BY <1>1 DEF iNodeWrite
  <2>2. call' \in Calls /\ LoopInv' /\ Filled' = len
    BY <2>1, CalledStep
  <2>3. \A k \in 0 .. len - 1 : <<t, k>> \in Bytes
    BY IOAssumption DEF Bytes
  <2>4. buffer' \in [0 .. len - 1 -> Bytes]
    BY <2>1, <2>3
  <2>5. buffer' \in [0 .. Filled' - 1 -> Bytes]
    BY <2>2, <2>4
  <2> QED BY <2>1, <2>2, <2>5, QuietStep
<1>2. CASE WriteBlockFails
  <2>1. /\ call' = Short /\ call.op # "none"
        /\ UNCHANGED <<data, diskLen, memLen, buffer, file>>
    BY <1>2 DEF WriteBlockFails, Located, InLoop
  <2>2. /\ memPtr' \in Pointers
        /\ \A j \in Inodes, s \in Slots :
             memPtr[j][s] # NoBlock => memPtr'[j][s] = memPtr[j][s]
        /\ UNCHANGED <<diskPtr, write, diskSound, memSound, mounted>>
        /\ mounted
    BY <1>2, LocatedFacts DEF WriteBlockFails
  <2>3. call' \in Calls /\ LoopInv' /\ Filled' = Filled
    BY <2>1, <2>2, ShortLoop DEF write
  <2>4. IOTypeOK'
    BY <2>1, <2>3 DEF VInv, IInv, Others, IOTypeOK
  <2>5. SoundTogether'
    BY <2>2 DEF Others, SoundTogether, write
  <2>6. ASSUME memSound' PROVE MemFiles'
    <3>1. MemFiles
      BY <2>2, <2>6 DEF Others, FilesAreKept, MemFiles
    <3> QED BY <2>1, <2>2, <3>1, SlotFacts DEF MemFiles, Slot, At
  <2> QED BY <2>2, <2>3, <2>4, <2>5, <2>6, MountedFiles DEF Others
<1>3. CASE WriteRefused
  <2>1. /\ call' = Short /\ call.op # "none"
        /\ UNCHANGED <<vars, data, diskLen, memLen, buffer, file>>
    BY <1>3 DEF WriteRefused, InLoop
  <2>2. call' \in Calls /\ LoopInv' /\ Filled' = Filled
    BY <2>1, ShortLoop DEF vars, write
  <2> QED BY <2>1, <2>2, QuietStep DEF Others, IOTypeOK
<1>4. CASE Return
  <2>1. /\ call' = NoCall /\ buffer' = NoBytes
        /\ UNCHANGED <<vars, data, diskLen, memLen, file>>
    BY <1>4 DEF Return
  <2>2. call' \in Calls /\ LoopInv' /\ Filled' = 0
    BY <2>1, Constants DEF LoopInv, NoCall, Filled
  <2>3. buffer' \in [0 .. Filled' - 1 -> Bytes]
    BY <2>1, <2>2, Constants
  <2> QED BY <2>1, <2>2, <2>3, QuietStep
<1> QED BY <1>1, <1>2, <1>3, <1>4

(* The length told at the end of a call fits the pointers of an inode. *)
LEMMA ExtendedFits ==
  ASSUME Others, LoopEnds, call.op = "write"
  PROVE  Extended \in 0 .. MaxLength
<1> DEFINE B == BytesPerBlock
           s == call.start
           l == call.len
           e == s + l
<1>1. /\ B \in Nat \ {0} /\ s \in 0 .. B - 1 /\ l \in Nat /\ PtrsPerInode \in Nat
      /\ MaxLength = PtrsPerInode * B
  BY Constants DEF Others, IOTypeOK, Calls, Offsets, MaxLength
<1>2. call.done = l /\ NumBlocks <= PtrsPerInode
  BY DEF Others, LoopInv, LoopEnds
<1>3. NumBlocks = e \div B - s \div B + 1
  BY DEF NumBlocks
<1> HIDE DEF B, s, l
<1>4. s \div B = 0
  BY <1>1, Division, 0 * B + s = s
<1> DEFINE d == e \div B
<1>5. d \in Nat /\ e \in Nat /\ e < B * d + B
  BY <1>1
<1>6. d + 1 <= PtrsPerInode
  BY <1>2, <1>3, <1>4, <1>5
<1> HIDE DEF d, e
<1>7. e <= PtrsPerInode * B
  <2>1. (d + 1) * B <= PtrsPerInode * B
    BY <1>1, <1>5, <1>6
  <2>2. (d + 1) * B = B * d + B
    BY <1>1, <1>5
  <2> QED BY <2>1, <2>2, <1>1, <1>5
<1>8. memLen[call.ino] \in 0 .. MaxLength
  BY DEF Others, IOTypeOK, Calls
<1>9. call.start + call.done \in 0 .. MaxLength
  BY <1>1, <1>2, <1>5, <1>7, Constants DEF s, e
<1> QED BY <1>8, <1>9 DEF Extended

LEMMA LoopEndsStep ==
  ASSUME Others, LoopEnds
  PROVE  Others'
<1>1. /\ call.op # "none" /\ call.result = "none" /\ call.i = NumBlocks
      /\ call' = [call EXCEPT !.result = "all"]
      /\ UNCHANGED <<vars, data, diskLen, buffer, file>>
  BY DEF LoopEnds
<1>2. call \in Calls
  BY DEF Others, IOTypeOK
<1>3. /\ call'.op = call.op /\ call'.done = call.done /\ call'.i = call.i
      /\ call'.len = call.len /\ call'.result = "all" /\ call' \in Calls
  BY <1>1, <1>2 DEF Calls
<1>4. call.done = call.len
  BY <1>1 DEF Others, LoopInv
<1>5. LoopInv'
  BY <1>1, <1>3, <1>4 DEF Others, LoopInv, Idle, vars, write
<1>6. memLen' \in [Inodes -> 0 .. MaxLength]
  <2>1. CASE call.op = "write"
    BY <2>1, <1>2, ExtendedFits DEF LoopEnds, Others, IOTypeOK, Calls
  <2>2. CASE call.op # "write"
    BY <2>2 DEF LoopEnds, Others, IOTypeOK
  <2> QED BY <2>1, <2>2
<1>7. TypeOK' /\ SoundTogether'
  BY <1>1 DEF Others, IOTypeOK, TypeOK, SoundTogether, vars, disk, mem, write, ghosts
<1>8. IOTypeOK'
  BY <1>1, <1>3, <1>6, <1>7 DEF Others, IOTypeOK, Filled
<1>9. FilesAreKept'
  BY <1>1 DEF Others, FilesAreKept, vars, disk, mem, write, ghosts, Slot, At
<1> QED BY <1>5, <1>7, <1>8, <1>9 DEF Others

-----------------------------------------------------------------------------
(* Steps of the volume.                                                    *)

LEMMA IOMountStep ==
  ASSUME VInv, VInv', Others, IOMount
  PROVE  Others'
<1> DEFINE kept(i, o) ==
             IF diskPtr[i][o \div BytesPerBlock] # NoBlock THEN file[i][o] ELSE Unknown
<1>1. /\ ~mounted /\ phase = "idle" /\ mounted' /\ memPtr' = diskPtr
      /\ memSound' = diskSound
      /\ UNCHANGED <<disk, write, diskSound>>
      /\ memLen' = diskLen /\ file' = [i \in Inodes |-> [o \in FileBytes |-> kept(i, o)]]
      /\ UNCHANGED <<data, diskLen, call, buffer>>
  BY DEF IOMount, Mount, Idle
<1>2. call.op = "none" /\ LoopInv'
  BY <1>1 DEF Others, LoopInv, NumBlocks, Idle
<1>3. SoundTogether'
  BY <1>1 DEF SoundTogether, VInv, IInv, Rest, Control, write
<1>4. \A i \in Inodes, o \in FileBytes : kept(i, o) \in Bytes \cup {Unknown}
  BY DEF Others, IOTypeOK
<1> HIDE DEF kept
<1>5. file' \in [Inodes -> [FileBytes -> Bytes \cup {Unknown}]]
  BY <1>1, <1>4
<1>6. IOTypeOK'
  BY <1>1, <1>5 DEF VInv, IInv, Others, IOTypeOK, Filled
<1>7. ASSUME memSound' PROVE MemFiles'
  <2> SUFFICES ASSUME NEW i \in Inodes, NEW o \in FileBytes, file'[i][o] # Unknown
               PROVE  /\ memPtr'[i][Slot(o)] # NoBlock
                      /\ data'[memPtr'[i][Slot(o)]][At(o)] = file'[i][o]
    BY DEF MemFiles, Slot, At
  <2>1. file'[i][o] = kept(i, o)
    BY <1>1
  <2>2. diskPtr[i][Slot(o)] # NoBlock /\ file'[i][o] = file[i][o]
    BY <2>1 DEF kept, Slot
  <2>3. data[diskPtr[i][Slot(o)]][At(o)] = file[i][o]
    BY <2>2, <1>1, <1>7 DEF Others, FilesAreKept
  <2> QED BY <1>1, <2>2, <2>3
<1> QED BY <1>1, <1>2, <1>3, <1>6, <1>7, MountedFiles DEF Others

LEMMA IOWriteINodeMapStep ==
  ASSUME VInv, VInv', Others, IOWriteINodeMap
  PROVE  Others'
<1>1. /\ phase = "inodes"
      /\ UNCHANGED <<mounted, memPtr, memSound, diskSound, caller>>
      /\ UNCHANGED <<data, memLen, call, buffer, file>>
  BY DEF IOWriteINodeMap, WriteINodeMap, mem, ghosts
<1>2. call.op = "none" /\ LoopInv'
  BY <1>1 DEF Others, LoopInv, NumBlocks, Idle
<1>3. SoundTogether'
  BY <1>1 DEF Others, SoundTogether
<1>4. diskLen' \in [Inodes -> 0 .. MaxLength]
  BY Constants DEF IOWriteINodeMap, Others, IOTypeOK
<1>5. IOTypeOK'
  BY <1>1, <1>4 DEF VInv, IInv, Others, IOTypeOK, Filled
<1>6. CASE mounted
  <2>1. memSound' => MemFiles'
    BY <1>1, <1>6 DEF Others, FilesAreKept, MemFiles, Slot, At
  <2> QED BY <1>1, <1>2, <1>3, <1>5, <1>6, <2>1, MountedFiles DEF Others
<1>7. CASE ~mounted
  <2>1. ~diskSound' /\ ~mounted'
    BY <1>1, <1>7 DEF VInv, IInv, Rest, Control, TypeOK
  <2> QED BY <1>2, <1>3, <1>5, <2>1 DEF Others, FilesAreKept
<1> QED BY <1>6, <1>7

LEMMA IOCloseBlockDeviceStep ==
  ASSUME VInv, VInv', Others, IOCloseBlockDevice
  PROVE  Others'
<1>1. /\ phase = "close" /\ phase' = "idle" /\ caller' = "none"
      /\ UNCHANGED <<disk, data, diskLen, call, buffer, file>>
  BY DEF IOCloseBlockDevice, CloseBlockDevice, EndWrite
<1>2. call.op = "none" /\ LoopInv'
  BY <1>1 DEF Others, LoopInv, NumBlocks, Idle
<1>3. memLen' \in [Inodes -> 0 .. MaxLength]
  BY Constants DEF IOCloseBlockDevice, Others, IOTypeOK
<1>4. IOTypeOK'
  BY <1>1, <1>3 DEF VInv, IInv, Others, IOTypeOK, Filled
<1>5. CASE caller = "newfs"
  <2>1. ~mounted /\ ~mounted'
    BY <1>5 DEF Others, SoundTogether, IOCloseBlockDevice, CloseBlockDevice
  <2>2. diskPtr' = FreshPtr
    BY <1>1, <1>5 DEF VInv, IInv, Rest, Control, InodesWritten, ImagePtr, disk
  <2>3. FilesAreKept'
    BY <2>1, <2>2, ConstantFacts, SlotFacts DEF FilesAreKept, Slot, At
  <2> QED BY <1>2, <1>4, <2>1, <2>3 DEF Others, SoundTogether
<1>6. CASE caller # "newfs"
  <2>1. caller = "unmount"
    BY <1>6 DEF IOCloseBlockDevice, CloseBlockDevice
  <2>2. mounted /\ ~mounted'
    BY <2>1 DEF VInv, IInv, Rest, Control, IOCloseBlockDevice, CloseBlockDevice, DropMemory
  <2>3. diskSound' => diskSound
    BY <2>1, <2>2 DEF Others, SoundTogether, IOCloseBlockDevice, CloseBlockDevice
  <2>4. FilesAreKept'
    BY <1>1, <2>2, <2>3 DEF Others, FilesAreKept, disk, Slot, At
  <2> QED BY <1>2, <1>4, <2>2, <2>4 DEF Others, SoundTogether
<1> QED BY <1>5, <1>6

LEMMA IOCrashStep ==
  ASSUME VInv', Others, IOCrash
  PROVE  Others'
<1>1. /\ ~mounted' /\ memLen' = Empty /\ call' = NoCall /\ buffer' = NoBytes
      /\ UNCHANGED <<disk, diskSound, data, diskLen, file>>
  BY DEF IOCrash, Crash, DropMemory
<1>2. LoopInv'
  BY <1>1, Constants DEF LoopInv, NoCall
<1>3. Filled' = 0
  BY <1>1 DEF Filled, NoCall
<1>4. buffer' \in [0 .. Filled' - 1 -> Bytes]
  BY <1>1, <1>3, Constants
<1>5. IOTypeOK'
  BY <1>1, <1>4, Constants DEF VInv, IInv, Others, IOTypeOK
<1>6. FilesAreKept'
  BY <1>1 DEF Others, FilesAreKept, disk, Slot, At
<1> QED BY <1>1, <1>2, <1>5, <1>6 DEF Others, SoundTogether

(* The other steps of newfs and unmount change neither pointers nor data. *)
LEMMA VolumeStepStep ==
  ASSUME VInv, VInv', Others, VolumeStep
  PROVE  Others'
<1>1. /\ UNCHANGED <<mounted, memPtr, memSound, diskPtr>>
      /\ UNCHANGED <<data, diskLen, memLen, call, buffer, file>>
      /\ diskSound' => diskSound
  <2>1. UNCHANGED <<data, diskLen, memLen, call, buffer, file>>
    BY DEF VolumeStep
  <2>2. CASE Newfs BY <2>1, <2>2 DEF Newfs, disk, mem
  <2>3. CASE WriteMasterBlock BY <2>1, <2>3 DEF WriteMasterBlock, mem
  <2>4. CASE NewfsFails BY <2>1, <2>4 DEF NewfsFails, disk, mem, ghosts
  <2>5. CASE WriteBlockMap BY <2>1, <2>5 DEF WriteBlockMap, mem, ghosts
  <2>6. CASE WriteINodeMapFails BY <2>1, <2>6 DEF WriteINodeMapFails, disk, mem, ghosts
  <2>7. CASE Unmount BY <2>1, <2>7 DEF Unmount, disk, mem, VInv, IInv, TypeOK
  <2> QED BY <2>2, <2>3, <2>4, <2>5, <2>6, <2>7 DEF VolumeStep
<1>2. SoundTogether'
  BY <1>1 DEF VolumeStep, Newfs, WriteMasterBlock, NewfsFails, WriteBlockMap,
         WriteINodeMapFails, Unmount, StartWrite, EndWrite, disk, mem, ghosts,
         Others, SoundTogether, VInv, IInv, Rest, Control
<1>3. call.op = "none"
  <2>1. \/ ~master
        \/ phase # "idle"
        \/ call.op = "none"
    BY DEF VolumeStep, WriteMasterBlock, NewfsFails, WriteBlockMap, WriteINodeMapFails
  <2>2. mounted => master
    BY DEF VInv, IInv, Rest, Control
  <2> QED BY <2>1, <2>2 DEF Others, LoopInv, Idle
<1>4. LoopInv'
  BY <1>1, <1>3 DEF Others, LoopInv, NumBlocks
<1>5. IOTypeOK'
  BY <1>1 DEF VInv, IInv, Others, IOTypeOK, Filled
<1>6. FilesAreKept'
  BY <1>1 DEF Others, FilesAreKept, Slot, At
<1> QED BY <1>2, <1>4, <1>5, <1>6 DEF Others

-----------------------------------------------------------------------------
(* The theorems.                                                           *)

LEMMA IOStep == IOInv /\ [IONext]_ioVars => IOInv'
<1> SUFFICES ASSUME VInv, Others, [IONext]_ioVars PROVE VInv' /\ Others'
  BY DEF IOInv
<1>1. [Next]_vars
  BY VolumeStepsOnly DEF Others
<1>2. VInv'
  BY <1>1, InvStep, UntamperedStep DEF VInv, Others
<1>3. CASE UNCHANGED ioVars
  <2>1. UNCHANGED <<vars, data, diskLen, memLen, call, buffer, file>>
    BY <1>3 DEF ioVars
  <2>2. Filled' = Filled /\ LoopInv'
    BY <2>1 DEF Filled, Others, LoopInv, NumBlocks, Idle, vars, write
  <2> QED BY <1>2, <2>1, <2>2, QuietStep DEF Others, IOTypeOK
<1>4. CASE IONext
  BY <1>2, <1>4, ReadSteps, WriteSteps, WriteBlockStep, LoopEndsStep, IOMountStep,
     IOWriteINodeMapStep, IOCloseBlockDeviceStep, IOCrashStep, VolumeStepStep
  DEF IONext
<1> QED BY <1>2, <1>3, <1>4

LEMMA IOInvariant == IOSpec => []IOInv
<1>1. IOInit => IOInv
  BY OthersInit, TypeInit, InvInit DEF IOInit, Init, IOInv, VInv, IInv
<1> QED BY <1>1, IOStep, PTL DEF IOSpec

(* The calls never leave the types of their locals: no index is beyond the *)
(* pointers, the block or the buffer (inode.c:9-105).                      *)
THEOREM IOTypeCorrect == IOSpec => []IOTypeOK
<1>1. IOInv => IOTypeOK
  BY DEF IOInv, Others
<1> QED BY <1>1, IOInvariant, PTL

(* What the calls do to the volume are steps of Volume, so what is proved  *)
(* of Volume is true under the files (inode.c:172-194).                    *)
THEOREM FilesStandOnAVolume == IOSpec => Spec
<1>1. IOInit => Init
  BY DEF IOInit
<1>2. IOInv /\ [IONext]_ioVars => [Next]_vars
  BY VolumeStepsOnly DEF IOInv, Others
<1> QED BY <1>1, <1>2, IOInvariant, PTL DEF IOSpec, Spec

(* A file keeps its bytes, in memory and on a sound device, whatever other *)
(* files do and wherever the program dies (inode.c:51-105, 172-194).       *)
THEOREM FilesSurvive == IOSpec => []FilesAreKept
<1>1. IOInv => FilesAreKept
  BY DEF IOInv, Others
<1> QED BY <1>1, IOInvariant, PTL

(* A call that ends its loop has read or written num_bytes bytes, for any  *)
(* block size, start and length (inode.c:10-22, 53-66).                    *)
THEOREM CallsAreComplete == IOSpec => []NothingCutShort
<1>1. IOInv => NothingCutShort
  BY DEF IOInv, Others, LoopInv, NothingCutShort
<1> QED BY <1>1, IOInvariant, PTL

-----------------------------------------------------------------------------
(* What iNodeRead returns.                                                 *)

(* The volume is not touched while a call runs, but by the call. *)
LEMMA VolumeWaits ==
  ASSUME VInv, Others,
         IOMount \/ IOWriteINodeMap \/ IOCloseBlockDevice \/ VolumeStep
  PROVE  call.op = "none"
<1>1. \/ ~mounted \/ ~master
      \/ phase # "idle"
      \/ call.op = "none"
  BY DEF VolumeStep, WriteMasterBlock, NewfsFails, WriteBlockMap, WriteINodeMapFails,
         IOMount, Mount, IOWriteINodeMap, WriteINodeMap, IOCloseBlockDevice,
         CloseBlockDevice
<1>2. mounted => master
  BY DEF VInv, IInv, Rest, Control
<1> QED BY <1>1, <1>2 DEF Others, LoopInv, Idle

LEMMA ReadBlockReads ==
  ASSUME VInv, Others, ReadsTheFile, ReadBlock
  PROVE  ReadsTheFile'
<1> DEFINE ino == call.ino
           n   == call.i
           x   == call.start + call.done
<1>1. /\ InLoop("read") /\ call' = Advanced
      /\ UNCHANGED <<vars, data, diskLen, memLen, file>>
  BY DEF ReadBlock
<1>2. /\ x = n * BytesPerBlock + call.at
      /\ ByteCount \in 0 .. BytesPerBlock - call.at
      /\ call.start \in Nat /\ call.done \in Nat /\ n \in Nat /\ ino \in Inodes
      /\ call.at \in 0 .. BytesPerBlock - 1
  BY <1>1, Current DEF Others, IOTypeOK, Calls, Offsets
<1>3. /\ ByteCount \in Nat /\ ByteCount <= BytesPerBlock - call.at
      /\ call.at \in Nat /\ BytesPerBlock \in Nat /\ x \in Int
  BY <1>2, Constants
<1>4. /\ call'.op = "read" /\ call'.ino = ino /\ call'.start = call.start
      /\ call'.done = call.done + ByteCount
  BY <1>1, <1>2, <1>3 DEF Advanced, Others, IOTypeOK, Calls, InLoop
<1>5. /\ memPtr' = memPtr /\ mounted' = mounted /\ memSound' = memSound /\ file' = file
  BY <1>1 DEF vars, mem, ghosts
<1> DEFINE RightByte(k) == LET o == call.start + k
                      IN  IF o \notin FileBytes \/ memPtr[ino][Slot(o)] = NoBlock
                            THEN buffer'[k] = Zero
                            ELSE file[ino][o] \in {Unknown, buffer'[k]}
<1> SUFFICES ASSUME mounted, memSound, NEW k \in 0 .. call.done + ByteCount - 1
             PROVE  RightByte(k)
  <2>1. ASSUME mounted, memSound PROVE \A k \in 0 .. call.done + ByteCount - 1 : RightByte(k)
    BY <2>1
  <2>2. 0 .. call'.done - 1 = 0 .. call.done + ByteCount - 1
    <3>1. call'.done = call.done + ByteCount
      BY <1>4
    <3>2. call.done \in Nat /\ ByteCount \in Nat
      BY <1>2, <1>3
    <3> QED BY <3>1, <3>2
  <2>3. \A k \in 0 .. call'.done - 1 : RightByte(k) <=>
          LET o == call'.start + k
          IN  IF o \notin FileBytes \/ memPtr'[call'.ino][Slot(o)] = NoBlock
                THEN buffer'[k] = Zero
                ELSE file'[call'.ino][o] \in {Unknown, buffer'[k]}
    BY <1>4, <1>5
  <2> HIDE DEF RightByte
  <2>4. ASSUME mounted, memSound PROVE \A k \in 0 .. call'.done - 1 : RightByte(k)
    BY <2>1, <2>2, <2>4
  <2> QED BY <1>5, <2>3, <2>4 DEF ReadsTheFile, Slot
<1> HIDE DEF ino, n, x
<1> DEFINE o == call.start + k
<1>6. buffer'[k] = IF k < call.done THEN buffer[k]
                                    ELSE BlockRead[call.at + (k - call.done)]
  BY DEF ReadBlock
<1>7. CASE k < call.done
  <2>1. k \in 0 .. call.done - 1
    BY <1>2, <1>3, <1>7
  <2>2. buffer'[k] = buffer[k]
    BY <1>6, <1>7
  <2>3. IF o \notin FileBytes \/ memPtr[ino][Slot(o)] = NoBlock
          THEN buffer[k] = Zero
          ELSE file[ino][o] \in {Unknown, buffer[k]}
    BY <2>1, <1>1 DEF ReadsTheFile, InLoop, ino
  <2> QED BY <2>2, <2>3
<1>8. CASE ~(k < call.done)
  <2> DEFINE a == call.at + (k - call.done)
  <2>1. /\ o \in Nat /\ o - x \in 0 .. ByteCount - 1
        /\ a = call.at + (o - x) /\ a \in Offsets
    BY <1>2, <1>3, <1>8 DEF x, Offsets
  <2>2. Slot(o) = n /\ At(o) = a
    <3> DEFINE at == call.at
               c  == ByteCount
               B  == BytesPerBlock
               m  == o % B
    <3>1. /\ B \in Nat \ {0} /\ n \in Nat /\ at \in 0 .. B - 1 /\ c \in 0 .. B - at
          /\ x = n * B + at
      BY <1>2, Constants
    <3> HIDE DEF at, c, B, o
    <3>2. /\ o - x \in 0 .. c - 1 => o \div B = n
          /\ o \div B = n => o - x = (o % B) - at
      <4>1. o \in Nat /\ x \in Int
        BY <2>1, <1>3
      <4>2. ASSUME NEW p \in Nat
            PROVE  /\ p - x \in 0 .. c - 1 => p \div B = n
                   /\ p \div B = n => p - x = (p % B) - at
        BY <3>1, <4>1, Place
      <4> QED BY <4>1, <4>2
    <3>3. o \div B = n /\ o - x = m - at
      BY <2>1, <3>2 DEF c
    <3>4. m \in Int /\ at \in Int
      BY <2>1, <3>1
    <3> HIDE DEF m
    <3>5. a = at + (o - x)
      BY <2>1 DEF at
    <3>6. a = m
      BY <3>3, <3>4, <3>5
    <3> QED BY <3>3, <3>6 DEF Slot, At, m, B
  <2>3. buffer'[k] = BlockRead[a]
    BY <1>6, <1>8
  <2> HIDE DEF a, o
  <2>4. CASE o \notin FileBytes \/ memPtr[ino][Slot(o)] = NoBlock
    <3>1. ~OnDevice
      <4> SUFFICES ASSUME OnDevice PROVE FALSE
        OBVIOUS
      <4>1. n < PtrsPerInode /\ memPtr[ino][n] # NoBlock
        BY DEF OnDevice, Absent, ino, n
      <4>2. o \notin FileBytes
        BY <2>2, <2>4, <4>1
      <4> DEFINE B == BytesPerBlock
      <4>3. /\ B \in Nat \ {0} /\ PtrsPerInode \in Nat /\ o = B * n + a
            /\ a \in 0 .. B - 1
        <5>1. o = B * (o \div B) + (o % B)
          BY <2>1, Constants
        <5> QED BY <5>1, <2>1, <2>2, Constants DEF Slot, At, Offsets
      <4>4. MaxLength = PtrsPerInode * B
        BY DEF MaxLength
      <4> HIDE DEF B
      <4>5. (n + 1) * B <= PtrsPerInode * B
        BY <4>1, <4>3, <1>2
      <4>6. (n + 1) * B = B * n + B
        BY <4>3, <1>2
      <4>7. o \in FileBytes
        <5> DEFINE p == B * n
        <5>1. p \in Int
          BY <4>3, <1>2
        <5> DEFINE q == PtrsPerInode * B
        <5>2. q \in Int
          BY <4>3
        <5>3. p + B <= q /\ o = p + a
          BY <4>3, <4>5, <4>6
        <5> HIDE DEF p, q
        <5>4. o < q
          BY <5>1, <5>2, <5>3, <4>3
        <5> QED BY <5>2, <5>4, <4>4, <2>1 DEF FileBytes, q
      <4> QED BY <4>2, <4>7
    <3>2. BlockRead[a] = Zero
      BY <3>1, <2>1 DEF BlockRead
    <3> QED BY <3>2, <2>3, <2>4 DEF o
  <2>5. CASE o \in FileBytes /\ memPtr[ino][Slot(o)] # NoBlock
    <3>1. n \in Slots
      BY <2>2, <2>5, SlotFacts
    <3>2. OnDevice
      BY <3>1, <2>2, <2>5, SizeAssumption DEF OnDevice, Absent, ino, n, Slots
    <3>3. BlockRead[a] = data[memPtr[ino][Slot(o)]][At(o)]
      BY <3>2, <2>2 DEF BlockRead, ino, n
    <3>4. file[ino][o] # Unknown => data[memPtr[ino][Slot(o)]][At(o)] = file[ino][o]
      BY <1>2, <2>5 DEF Others, FilesAreKept
    <3> QED BY <3>3, <3>4, <2>3, <2>5 DEF o
  <2> QED BY <2>4, <2>5
<1> QED BY <1>7, <1>8

LEMMA ReadsStep ==
  ASSUME VInv, Others, ReadsTheFile, [IONext]_ioVars
  PROVE  ReadsTheFile'
<1>1. CASE ReadBlock
  BY <1>1, ReadBlockReads
<1>2. ASSUME call'.op # "read" PROVE ReadsTheFile'
  BY <1>2 DEF ReadsTheFile
<1>3. ASSUME NEW ino \in Inodes, NEW start \in Starts, NEW len \in Lengths,
             iNodeRead(ino, start, len)
      PROVE  ReadsTheFile'
  <2>1. call'.done = 0
    BY <1>3, Constants DEF iNodeRead, Called, NoCall, Calls
  <2>2. 0 .. call'.done - 1 = {}
    BY <2>1
  <2> QED BY <2>2 DEF ReadsTheFile
<1>4. ASSUME NEW ino \in Inodes, NEW start \in Starts, NEW len \in Lengths,
             NEW t \in Texts, iNodeWrite(ino, start, len, t)
      PROVE  ReadsTheFile'
  <2>1. call'.op = "write"
    BY <1>4, Constants DEF iNodeWrite, Called, NoCall, Calls
  <2> QED BY <2>1, <1>2
<1>5. CASE ReadBlockFails \/ LoopEnds
  <2>1. /\ call'.op = call.op /\ call'.ino = call.ino /\ call'.start = call.start
        /\ call'.done = call.done /\ UNCHANGED <<vars, buffer, file>>
    BY <1>5 DEF ReadBlockFails, LoopEnds, Short, Others, IOTypeOK, Calls
  <2> QED BY <2>1 DEF ReadsTheFile, Slot, vars, mem, ghosts
<1>6. CASE WriteBlock \/ WriteBlockFails \/ WriteRefused
  <2>1. call.op = "write"
    BY <1>6 DEF WriteBlock, WriteBlockFails, WriteRefused, Located, InLoop
  <2>2. call'.op = "write"
    BY <1>6, <2>1 DEF WriteBlock, WriteBlockFails, WriteRefused, Short, Advanced,
       Others, IOTypeOK, Calls
  <2> QED BY <2>2, <1>2
<1>7. CASE Return \/ IOCrash
  BY <1>7, <1>2 DEF Return, IOCrash, NoCall
<1>8. CASE IOMount \/ IOWriteINodeMap \/ IOCloseBlockDevice \/ VolumeStep
  <2>1. call.op = "none"
    BY <1>8, VolumeWaits
  <2>2. call' = call
    BY <1>8 DEF IOMount, IOWriteINodeMap, IOCloseBlockDevice, VolumeStep
  <2> QED BY <2>1, <2>2, <1>2
<1>9. CASE UNCHANGED ioVars
  BY <1>9 DEF ioVars, ReadsTheFile, Slot, vars, mem, ghosts
<1> QED
  BY <1>1, <1>3, <1>4, <1>5, <1>6, <1>7, <1>8, <1>9 DEF IONext

(* iNodeRead returns the bytes of the file, and zeros where it has none,   *)
(* for any start, length and block size (inode.c:8-49).                    *)
THEOREM ReadsAreTrue == IOSpec => []ReadsTheFile
<1>1. IOInit => ReadsTheFile
  BY DEF IOInit, ReadsTheFile, NoCall
<1>2. IOInv /\ ReadsTheFile /\ [IONext]_ioVars => ReadsTheFile'
  BY ReadsStep DEF IOInv
<1> QED BY <1>1, <1>2, IOInvariant, PTL DEF IOSpec
=============================================================================

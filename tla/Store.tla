------------------------------- MODULE Store -------------------------------
(***************************************************************************)
(* What a volume promises, with no block map and no writes that can tear:  *)
(* who owns which block.  An inode owns the blocks at its places, a user   *)
(* owns the blocks allocBlock gave him, and nobody owns a block of the     *)
(* volume itself.  A session works on a copy of the ownership the device   *)
(* has, and the inodes go back to the device in any groups and at any time *)
(* until the session is over.                                              *)
(*                                                                         *)
(* After a crash of newfs, a failed write of the block map, or a freeBlock *)
(* of a block that belongs to an inode, nothing is promised any more, of   *)
(* the device (~good) or of the session (~open), until a newfs completes   *)
(* or a session that is open is saved.                                     *)
(***************************************************************************)
CONSTANTS DataBlocks,  \* the blocks that are not the volume's own
          Inodes,
          Slots,       \* the places of an inode
          Unassigned   \* what a place without a block holds

VARIABLES good,   \* the device keeps what it was given
          dur,    \* the owners the device knows, Nothing if it is not good
          open,   \* a session on a good device
          cur,    \* the owners the session knows, Nothing if it is not open
          given   \* the blocks users have

vars == <<good, dur, open, cur, given>>

Nothing   == [i \in Inodes |-> [s \in Slots |-> Unassigned]]
Owners    == [Inodes -> [Slots -> DataBlocks \cup {Unassigned}]]
Owned(ow) == { ow[i][s] : i \in Inodes, s \in Slots } \ {Unassigned}

TypeOK ==
  /\ good \in BOOLEAN /\ open \in BOOLEAN
  /\ dur \in Owners /\ cur \in Owners
  /\ given \in SUBSET DataBlocks

Init ==
  /\ good = FALSE /\ dur = Nothing
  /\ open = FALSE /\ cur = Nothing
  /\ given = {}

\* newfs has completed.
Format ==
  /\ ~good
  /\ good' = TRUE /\ dur' = Nothing
  /\ UNCHANGED <<open, cur, given>>

\* The device is not to be relied on from now on.
Spoil ==
  /\ good' = FALSE /\ dur' = Nothing
  /\ UNCHANGED <<open, cur, given>>

\* A session begins on a good device of which no user has a block.
Open ==
  /\ good /\ ~open
  /\ Owned(dur) \cap given = {}
  /\ open' = TRUE /\ cur' = dur
  /\ UNCHANGED <<good, dur, given>>

\* A place of an inode gets a block that nobody owns.
Assign(i, s, b) ==
  /\ open /\ cur[i][s] = Unassigned
  /\ b \notin Owned(cur) \cup given
  /\ cur' = [cur EXCEPT ![i] = [cur[i] EXCEPT ![s] = b]]
  /\ UNCHANGED <<good, dur, open, given>>

\* A user gets a block that nobody owns, as far as the session knows.
Give(b) ==
  /\ b \notin Owned(cur) \cup given
  /\ given' = given \cup {b}
  /\ UNCHANGED <<good, dur, open, cur>>

TakeBack(b) ==
  /\ given' = given \ {b}
  /\ UNCHANGED <<good, dur, open, cur>>

\* Some inodes of the session reach the device.
Persist(I) ==
  /\ good /\ open
  /\ dur' = [i \in Inodes |-> IF i \in I THEN cur[i] ELSE dur[i]]
  /\ UNCHANGED <<good, open, cur, given>>

\* The session ends, saved on a device that was not good before.
Save ==
  /\ open
  /\ good' = TRUE /\ dur' = cur
  /\ open' = FALSE /\ cur' = Nothing
  /\ UNCHANGED given

\* The session ends, with or without what users were given.
Leave ==
  /\ open' = FALSE /\ cur' = Nothing
  /\ given' \in {given, {}}
  /\ UNCHANGED <<good, dur>>

Next ==
  \/ Format \/ Spoil \/ Open \/ Save \/ Leave
  \/ \E i \in Inodes, s \in Slots, b \in DataBlocks : Assign(i, s, b)
  \/ \E b \in DataBlocks : Give(b) \/ TakeBack(b)
  \/ \E I \in SUBSET Inodes : Persist(I)

Spec == Init /\ [][Next]_vars

-----------------------------------------------------------------------------
(* What follows from the promise.                                          *)

Unique(ow) ==
  \A i, j \in Inodes : \A s, t \in Slots :
    ow[i][s] # Unassigned /\ ow[i][s] = ow[j][t] => i = j /\ s = t

(* A block has one owner: one place of one inode, or a user, or nobody.    *)
(* The same is true of the device, whatever part of a session reached it.  *)
Exclusive ==
  /\ Unique(cur) /\ Unique(dur)
  /\ Owned(cur) \cap given = {}

(* What a good device knows of a place is never changed.                   *)
Permanent ==
  [][\A i \in Inodes, s \in Slots :
       good /\ good' /\ dur[i][s] # Unassigned => dur'[i][s] = dur[i][s]]_vars
=============================================================================

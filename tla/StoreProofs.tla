----------------------------- MODULE StoreProofs -----------------------------
(***************************************************************************)
(* Store promises that a block has one owner and that owners on a good     *)
(* device never change.  Ahead: as long as a session is open on a good     *)
(* device it knows all that the device knows.                              *)
(***************************************************************************)
EXTENDS Store, TLAPS

Ahead ==
  good /\ open =>
    \A i \in Inodes, s \in Slots : dur[i][s] # Unassigned => cur[i][s] = dur[i][s]

Inv == TypeOK /\ Exclusive /\ Ahead /\ (~open => cur = Nothing)

LEMMA NothingFacts ==
  /\ Nothing \in Owners /\ Unique(Nothing) /\ Owned(Nothing) = {}
  /\ \A i \in Inodes, s \in Slots : Nothing[i][s] = Unassigned
BY DEF Nothing, Owners, Unique, Owned

LEMMA StoreInit == Init => Inv
BY NothingFacts DEF Init, Inv, TypeOK, Exclusive, Ahead

LEMMA AssignStep ==
  ASSUME Inv, NEW i \in Inodes, NEW s \in Slots, NEW b \in DataBlocks, Assign(i, s, b)
  PROVE  Inv'
<1> USE DEF Inv, TypeOK
<1>1. \A j \in Inodes, t \in Slots :
         cur'[j][t] = IF j = i /\ t = s THEN b ELSE cur[j][t]
  BY DEF Assign, Owners
<1>2. cur' \in Owners
  BY DEF Assign, Owners
<1>3. \A j \in Inodes, t \in Slots : b # Unassigned => cur[j][t] # b
  BY DEF Assign, Owned
<1>4. Unique(cur)'
  BY <1>1, <1>3 DEF Exclusive, Unique
<1>5. (Owned(cur) \cap given = {})'
  <2>1. Owned(cur)' \subseteq Owned(cur) \cup {b}
    BY <1>1 DEF Owned
  <2> QED BY <2>1 DEF Assign, Exclusive
<1>6. Unique(dur)' BY DEF Assign, Exclusive, Unique
<1>7. Ahead' BY <1>1 DEF Assign, Ahead
<1> QED BY <1>2, <1>4, <1>5, <1>6, <1>7 DEF Assign, Exclusive

LEMMA PersistStep ==
  ASSUME Inv, NEW I \in SUBSET Inodes, Persist(I) PROVE Inv'
<1> USE DEF Inv, TypeOK
<1>1. \A j \in Inodes : dur'[j] = IF j \in I THEN cur[j] ELSE dur[j]
  BY DEF Persist
<1>2. dur' \in Owners
  BY DEF Persist, Owners
<1>3. \A j \in Inodes, t \in Slots :
         dur'[j][t] # Unassigned => cur[j][t] = dur'[j][t]
  BY <1>1 DEF Persist, Ahead
<1>4. Unique(dur)'
  BY <1>3 DEF Exclusive, Unique
<1>5. Unique(cur)' /\ (Owned(cur) \cap given = {})'
  BY DEF Persist, Exclusive, Unique, Owned
<1>6. Ahead' BY <1>3 DEF Persist, Ahead
<1> QED BY <1>2, <1>4, <1>5, <1>6 DEF Persist, Exclusive

LEMMA StoreStep == Inv /\ [Next]_vars => Inv'
<1> SUFFICES ASSUME Inv, [Next]_vars PROVE Inv'
  OBVIOUS
<1> USE NothingFacts DEF Inv, TypeOK, Exclusive, Ahead
<1>1. CASE Format
  <2>1. Unique(dur)' BY <1>1 DEF Format, Unique
  <2>2. Unique(cur)' /\ (Owned(cur) \cap given = {})' BY <1>1 DEF Format, Unique, Owned
  <2>3. Ahead' BY <1>1 DEF Format
  <2>4. good' \in BOOLEAN /\ dur' \in Owners BY <1>1 DEF Format
  <2> QED BY <1>1, <2>1, <2>2, <2>3, <2>4 DEF Format
<1>2. CASE Spoil
  <2>1. Unique(dur)' BY <1>2 DEF Spoil, Unique
  <2>2. Unique(cur)' /\ (Owned(cur) \cap given = {})' BY <1>2 DEF Spoil, Unique, Owned
  <2>3. good' \in BOOLEAN /\ dur' \in Owners BY <1>2 DEF Spoil
  <2> QED BY <1>2, <2>1, <2>2, <2>3 DEF Spoil
<1>3. CASE Open
  <2>1. Unique(cur)' /\ Unique(dur)' BY <1>3 DEF Open, Unique
  <2>2. (Owned(cur) \cap given = {})' BY <1>3 DEF Open, Owned
  <2> QED BY <1>3, <2>1, <2>2 DEF Open
<1>4. CASE Save
  <2>1. Unique(cur)' /\ Unique(dur)' BY <1>4 DEF Save, Unique
  <2>2. (Owned(cur) \cap given = {})' BY <1>4 DEF Save, Owned
  <2>3. Ahead' BY <1>4 DEF Save
  <2>4. /\ good' \in BOOLEAN /\ dur' \in Owners
        /\ open' \in BOOLEAN /\ cur' \in Owners
    BY <1>4 DEF Save
  <2> QED BY <1>4, <2>1, <2>2, <2>3, <2>4 DEF Save
<1>5. CASE Leave
  <2>1. Unique(cur)' /\ Unique(dur)' BY <1>5 DEF Leave, Unique
  <2>2. (Owned(cur) \cap given = {})' BY <1>5 DEF Leave, Owned
  <2>3. cur' \in Owners /\ given' \in SUBSET DataBlocks BY <1>5 DEF Leave
  <2> QED BY <1>5, <2>1, <2>2, <2>3 DEF Leave
<1>6. ASSUME NEW i \in Inodes, NEW s \in Slots, NEW b \in DataBlocks, Assign(i, s, b)
      PROVE  Inv'
  BY <1>6, AssignStep
<1>7. ASSUME NEW b \in DataBlocks, Give(b) PROVE Inv'
  BY <1>7 DEF Give, Unique, Owned
<1>8. ASSUME NEW b \in DataBlocks, TakeBack(b) PROVE Inv'
  BY <1>8 DEF TakeBack, Unique, Owned
<1>9. ASSUME NEW I \in SUBSET Inodes, Persist(I) PROVE Inv'
  BY <1>9, PersistStep
<1>10. CASE UNCHANGED vars BY <1>10 DEF vars, Unique, Owned
<1> QED
  BY <1>1, <1>2, <1>3, <1>4, <1>5, <1>6, <1>7, <1>8, <1>9, <1>10 DEF Next

LEMMA StoreInvariant == Spec => []Inv
BY StoreInit, StoreStep, PTL DEF Spec

(* One owner for a block: what inode.c:172-194 and the block map are for.  *)
THEOREM OwnersAreExclusive == Spec => []Exclusive
<1>1. Inv => Exclusive BY DEF Inv
<1> QED BY <1>1, StoreInvariant, PTL

(* Owners on a good device stay: unmount only ever adds (filesystem.c:144).*)
THEOREM OwnersArePermanent == Spec => Permanent
<1> DEFINE Kept == \A i \in Inodes, s \in Slots :
                     good /\ good' /\ dur[i][s] # Unassigned => dur'[i][s] = dur[i][s]
<1>1. Inv /\ [Next]_vars => [Kept]_vars
  <2> SUFFICES ASSUME Inv, Next, good, good', NEW i \in Inodes, NEW s \in Slots,
                      dur[i][s] # Unassigned
               PROVE  dur'[i][s] = dur[i][s]
    OBVIOUS
  <2>1. CASE Save
    BY <2>1 DEF Save, Inv, Ahead
  <2>2. ASSUME NEW I \in SUBSET Inodes, Persist(I) PROVE dur'[i][s] = dur[i][s]
    BY <2>2 DEF Persist, Inv, Ahead
  <2>3. CASE dur' = dur BY <2>3
  <2>4. Save \/ (\E I \in SUBSET Inodes : Persist(I)) \/ dur' = dur
    BY DEF Next, Format, Spoil, Open, Leave, Assign, Give, TakeBack
  <2> QED BY <2>1, <2>2, <2>3, <2>4
<1> QED BY <1>1, StoreInvariant, PTL DEF Spec, Permanent
=============================================================================

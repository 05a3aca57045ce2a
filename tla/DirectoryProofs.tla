--------------------------- MODULE DirectoryProofs ---------------------------
(***************************************************************************)
(* What holds of the directory cache whatever its users do and however the *)
(* program ends: a flush misses nothing, and what an unmount left on the   *)
(* device stays there.  First the lists of the cache, then its shape (a    *)
(* tree below the root), then the way of a flush through it.               *)
(***************************************************************************)
EXTENDS Directory, TLAPS

-----------------------------------------------------------------------------
(* Sequences.                                                              *)

(* The elements of a list read backwards are its elements. *)
LEMMA ReverseFacts ==
  ASSUME NEW S, NEW s \in Seq(S)
  PROVE  /\ Reverse(s) \in Seq(S)
         /\ Range(Reverse(s)) = Range(s)
<1> DEFINE r == Reverse(s)
<1>1. /\ Len(s) \in Nat /\ DOMAIN s = 1 .. Len(s) 
      /\ \A i \in 1 .. Len(s) : s[i] \in S
  OBVIOUS
<1>2. r = [i \in 1 .. Len(s) |-> s[(Len(s) - i) + 1]]
  BY DEF Reverse
<1>3. r \in [1 .. Len(s) -> S]
  BY <1>1, <1>2
<1>4. r \in Seq(S)
  BY <1>1, <1>3
<1>5. ASSUME NEW i \in DOMAIN s PROVE \E j \in DOMAIN r : r[j] = s[i]
  <2>1. (Len(s) - i) + 1 \in 1 .. Len(s) /\ (Len(s) - ((Len(s) - i) + 1)) + 1 = i
    BY <1>1
  <2> QED BY <1>2, <2>1
<1>6. ASSUME NEW i \in DOMAIN r PROVE \E j \in DOMAIN s : s[j] = r[i]
  BY <1>1, <1>2
<1> QED BY <1>4, <1>5, <1>6 DEF Range

(* A text that grows at its end keeps what it had as a prefix. *)
LEMMA PrefixFacts ==
  ASSUME NEW S, NEW s \in Seq(S), NEW t \in Seq(S)
  PROVE  IsPrefix(s, t) <=> /\ Len(s) <= Len(t)
                            /\ \A j \in DOMAIN s : s[j] = t[j]
<1>1. SubSeq(s, 1, Len(s)) = [j \in 1 .. Len(s) |-> s[j]]
  OBVIOUS
<1>2. ASSUME Len(s) <= Len(t)
      PROVE  SubSeq(t, 1, Len(s)) = [j \in 1 .. Len(s) |-> t[j]]
  BY <1>2
<1> QED BY <1>1, <1>2 DEF IsPrefix

(* A list is empty or it has a first element and a rest. *)
LEMMA HeadFacts ==
  ASSUME NEW S, NEW s \in Seq(S), s # <<>>
  PROVE  /\ Head(s) \in S /\ Head(s) \in Range(s)
         /\ Tail(s) \in Seq(S)
         /\ Range(s) = {Head(s)} \cup Range(Tail(s))
<1>1. /\ Len(s) \in Nat \ {0} /\ DOMAIN s = 1 .. Len(s)
      /\ Head(s) = s[1] /\ 1 \in DOMAIN s
      /\ Tail(s) \in Seq(S) /\ Len(Tail(s)) = Len(s) - 1
      /\ \A j \in 1 .. Len(s) - 1 : Tail(s)[j] = s[j + 1]
  OBVIOUS
<1>2. DOMAIN Tail(s) = 1 .. Len(s) - 1
  BY <1>1
<1>3. ASSUME NEW j \in DOMAIN s, j # 1 PROVE j - 1 \in DOMAIN Tail(s) /\ Tail(s)[j - 1] = s[j]
  BY <1>1, <1>2, <1>3
<1>4. ASSUME NEW j \in DOMAIN Tail(s) PROVE j + 1 \in DOMAIN s /\ s[j + 1] = Tail(s)[j]
  BY <1>1, <1>2
<1> QED BY <1>1, <1>3, <1>4 DEF Range

(* The elements of two lists one behind the other. *)
LEMMA ConcatFacts ==
  ASSUME NEW S, NEW s \in Seq(S), NEW t \in Seq(S)
  PROVE  /\ s \o t \in Seq(S) /\ Len(s \o t) = Len(s) + Len(t)
         /\ \A j \in DOMAIN s : (s \o t)[j] = s[j]
         /\ \A j \in 1 .. Len(t) : (s \o t)[Len(s) + j] = t[j]
         /\ Range(s \o t) = Range(s) \cup Range(t)
<1>1. /\ s \o t \in Seq(S) /\ Len(s \o t) = Len(s) + Len(t)
      /\ \A j \in 1 .. Len(s) + Len(t) :
           (s \o t)[j] = IF j <= Len(s) THEN s[j] ELSE t[j - Len(s)]
      /\ Len(s) \in Nat /\ Len(t) \in Nat
      /\ DOMAIN s = 1 .. Len(s) /\ DOMAIN t = 1 .. Len(t)
      /\ DOMAIN (s \o t) = 1 .. Len(s) + Len(t)
  OBVIOUS
<1>2. ASSUME NEW j \in DOMAIN t PROVE Len(s) + j \in DOMAIN (s \o t) /\ (s \o t)[Len(s) + j] = t[j]
  BY <1>1
<1>3. ASSUME NEW j \in DOMAIN s PROVE j \in DOMAIN (s \o t) /\ (s \o t)[j] = s[j]
  BY <1>1
<1>4. ASSUME NEW j \in DOMAIN (s \o t)
      PROVE  (s \o t)[j] \in {s[k] : k \in DOMAIN s} \cup {t[k] : k \in DOMAIN t}
  <2>1. CASE j <= Len(s) BY <1>1, <2>1
  <2>2. CASE j > Len(s)
    <3>1. j - Len(s) \in DOMAIN t /\ (s \o t)[j] = t[j - Len(s)]
      BY <1>1, <2>2
    <3> QED BY <3>1
  <2> QED BY <1>1, <2>1, <2>2
<1>5. Range(s \o t) \subseteq Range(s) \cup Range(t)
  BY <1>4 DEF Range
<1>6. Range(s) \subseteq Range(s \o t)
  BY <1>3 DEF Range
<1>7. Range(t) \subseteq Range(s \o t)
  BY <1>2 DEF Range
<1> QED BY <1>1, <1>2, <1>3, <1>5, <1>6, <1>7

-----------------------------------------------------------------------------
(* The cache and what the two operators that change it do.                 *)

LEMMA NodeFacts ==
  ASSUME TypeOK
  PROVE  /\ Len(nodes) \in Nat /\ DOMAIN nodes = 1 .. Len(nodes)
         /\ \A d \in DOMAIN nodes :
              /\ nodes[d].ino \in INodes /\ nodes[d].name \in Names \cup {".", "/"}
              /\ nodes[d].literal \in BOOLEAN /\ nodes[d].dirty \in BOOLEAN
              /\ nodes[d].kids \in Seq(DOMAIN nodes)
              /\ nodes[d] = [ino |-> nodes[d].ino, name |-> nodes[d].name,
                             literal |-> nodes[d].literal, kids |-> nodes[d].kids,
                             dirty |-> nodes[d].dirty]
<1>1. Len(nodes) \in Nat /\ DOMAIN nodes = 1 .. Len(nodes)
  BY DEF TypeOK
<1>2. ASSUME NEW d \in DOMAIN nodes
      PROVE  nodes[d] \in Nodes /\ nodes[d].kids \in Seq(DOMAIN nodes)
  BY <1>1 DEF TypeOK
<1>3. ASSUME NEW x \in Nodes
      PROVE  /\ x.ino \in INodes /\ x.name \in Names \cup {".", "/"}
             /\ x.literal \in BOOLEAN /\ x.dirty \in BOOLEAN
             /\ x = [ino |-> x.ino, name |-> x.name, literal |-> x.literal,
                     kids |-> x.kids, dirty |-> x.dirty]
  BY DEF Nodes
<1> QED BY <1>1, <1>2, <1>3

(* The structures that addChild makes are at the end of the heap and at    *)
(* the end of the list; the others stay as they are.                       *)
LEMMA AddChildrenFacts ==
  ASSUME TypeOK, NEW d \in DOMAIN nodes, NEW entries \in Seq(Entries),
         NEW literal \in BOOLEAN, addChildren(d, entries, literal)
  PROVE  /\ nodes' \in Seq(Nodes) /\ Len(nodes') = Len(nodes) + Len(entries)
         /\ \A k \in DOMAIN nodes' : nodes'[k].kids \in Seq(DOMAIN nodes')
         /\ \A k \in DOMAIN nodes : k # d => nodes'[k] = nodes[k]
         /\ nodes'[d].ino = nodes[d].ino /\ nodes'[d].name = nodes[d].name
         /\ nodes'[d].literal = nodes[d].literal /\ nodes'[d].dirty = nodes[d].dirty
         /\ Len(nodes'[d].kids) = Len(nodes[d].kids) + Len(entries)
         /\ \A j \in DOMAIN nodes[d].kids : nodes'[d].kids[j] = nodes[d].kids[j]
         /\ \A j \in 1 .. Len(entries) :
              /\ nodes'[d].kids[Len(nodes[d].kids) + j] = Len(nodes) + j
              /\ nodes'[Len(nodes) + j] = NewNode(entries[j].name, entries[j].ino, literal)
<1> DEFINE n    == Len(nodes)
           m    == Len(entries)
           old  == nodes[d].kids
           fresh == [j \in DOMAIN entries |-> n + j]
           new  == [j \in DOMAIN entries |-> NewNode(entries[j].name, entries[j].ino, literal)]
           grown == [nodes EXCEPT ![d].kids = @ \o fresh]
<1>1. /\ n \in Nat /\ m \in Nat /\ DOMAIN nodes = 1 .. n /\ DOMAIN entries = 1 .. m
      /\ nodes \in Seq(Nodes) /\ old \in Seq(1 .. n)
      /\ \A j \in 1 .. m : entries[j] \in Entries
  BY NodeFacts DEF TypeOK
<1>2. /\ old \o fresh \in Seq(1 .. n + m) /\ Len(old \o fresh) = Len(old) + m
      /\ \A j \in DOMAIN old : (old \o fresh)[j] = old[j]
      /\ \A j \in 1 .. m : (old \o fresh)[Len(old) + j] = n + j
  <2>1. old \in Seq(1 .. n + m) /\ fresh \in Seq(1 .. n + m) /\ Len(fresh) = m
        /\ \A j \in 1 .. m : fresh[j] = n + j
    BY <1>1
  <2> DEFINE all == 1 .. n + m
  <2> HIDE DEF old, fresh, all
  <2>2. old \in Seq(all) /\ fresh \in Seq(all)
    BY <2>1 DEF all
  <2>3. /\ old \o fresh \in Seq(all) /\ Len(old \o fresh) = Len(old) + Len(fresh)
        /\ \A j \in DOMAIN old : (old \o fresh)[j] = old[j]
        /\ \A j \in 1 .. Len(fresh) : (old \o fresh)[Len(old) + j] = fresh[j]
    BY <2>2, ConcatFacts
  <2> QED BY <2>1, <2>3 DEF all
<1>3. new \in Seq(Nodes) /\ Len(new) = m
  <2>1. \A j \in 1 .. m : NewNode(entries[j].name, entries[j].ino, literal) \in Nodes
    BY <1>1 DEF NewNode, Nodes, Entries
  <2> QED BY <1>1, <2>1
<1>4. /\ DOMAIN grown = 1 .. n
      /\ \A k \in 1 .. n : k # d => grown[k] = nodes[k]
      /\ grown[d] = [ino |-> nodes[d].ino, name |-> nodes[d].name,
                     literal |-> nodes[d].literal, kids |-> old \o fresh,
                     dirty |-> nodes[d].dirty]
  <2>1. nodes[d] = [ino |-> nodes[d].ino, name |-> nodes[d].name,
                    literal |-> nodes[d].literal, kids |-> old,
                    dirty |-> nodes[d].dirty]
    BY NodeFacts
  <2>2. grown = [k \in DOMAIN nodes |->
                   IF k = d THEN [nodes[d] EXCEPT !.kids = @ \o fresh] ELSE nodes[k]]
    OBVIOUS
  <2>3. ASSUME NEW x, NEW k,
               x = [ino |-> x.ino, name |-> x.name, literal |-> x.literal,
                    kids |-> x.kids, dirty |-> x.dirty]
        PROVE  [x EXCEPT !.kids = k] = [ino |-> x.ino, name |-> x.name, literal |-> x.literal,
                                        kids |-> k, dirty |-> x.dirty]
    BY <2>3
  <2>4. grown[d] = [nodes[d] EXCEPT !.kids = old \o fresh]
    BY <2>2
  <2> HIDE DEF grown, old, fresh
  <2>5. grown[d] = [ino |-> nodes[d].ino, name |-> nodes[d].name,
                    literal |-> nodes[d].literal, kids |-> old \o fresh,
                    dirty |-> nodes[d].dirty]
    BY <2>1, <2>3, <2>4 DEF old
  <2> QED BY <1>1, <2>2, <2>5
<1>5. old \o fresh \in Seq(Nat)
  BY <1>1, <1>2
<1>6. grown \in Seq(Nodes) /\ Len(grown) = n
  <2>1. grown[d] \in Nodes
    <3>1. /\ nodes[d].ino \in INodes /\ nodes[d].name \in Names \cup {".", "/"}
          /\ nodes[d].literal \in BOOLEAN /\ nodes[d].dirty \in BOOLEAN
      BY NodeFacts
    <3> HIDE DEF grown, old, fresh
    <3> QED BY <1>4, <1>5, <3>1 DEF Nodes
  <2>2. grown = [k \in 1 .. n |-> grown[k]]
    BY <1>1
  <2>3. \A k \in 1 .. n : nodes[k] \in Nodes
    BY <1>1
  <2> HIDE DEF grown, n
  <2>4. \A k \in 1 .. n : grown[k] \in Nodes
    BY <1>4, <2>1, <2>3
  <2>5. ASSUME NEW S, NEW k \in Nat, NEW g, g = [i \in 1 .. k |-> g[i]], \A i \in 1 .. k : g[i] \in S
        PROVE  g \in Seq(S) /\ Len(g) = k
    <3>1. g \in Seq(S)
      BY <2>5
    <3> QED BY <2>5, <3>1
  <2>6. n \in Nat
    BY <1>1
  <2> QED BY <2>2, <2>4, <2>5, <2>6
<1>7. nodes' = grown \o new
  BY DEF addChildren
<1>8. \A j \in 1 .. m : new[j] = NewNode(entries[j].name, entries[j].ino, literal)
  BY <1>1
<1> HIDE DEF grown, new, old, fresh, n, m
<1>9. /\ nodes' \in Seq(Nodes) /\ Len(nodes') = n + m /\ DOMAIN nodes' = 1 .. n + m
      /\ \A k \in 1 .. n : nodes'[k] = grown[k]
      /\ \A j \in 1 .. m : nodes'[n + j] = new[j]
  <2>1. /\ grown \o new \in Seq(Nodes) /\ Len(grown \o new) = Len(grown) + Len(new)
        /\ \A j \in DOMAIN grown : (grown \o new)[j] = grown[j]
        /\ \A j \in 1 .. Len(new) : (grown \o new)[Len(grown) + j] = new[j]
    <3>1. grown \in Seq(Nodes) /\ new \in Seq(Nodes)
      BY <1>3, <1>6
    <3> QED BY <3>1, ConcatFacts
  <2>2. DOMAIN nodes' = 1 .. Len(nodes')
    BY <1>7, <2>1
  <2>3. Len(grown) = n /\ DOMAIN grown = 1 .. n /\ Len(new) = m
    BY <1>1, <1>3, <1>4, <1>6
  <2>4. nodes' \in Seq(Nodes) /\ Len(nodes') = n + m
    BY <1>7, <2>1, <2>3
  <2> QED BY <1>7, <2>1, <2>2, <2>3, <2>4
<1>10. ASSUME NEW k \in DOMAIN nodes' PROVE nodes'[k].kids \in Seq(1 .. n + m)
  <2>1. CASE k = d
    <3>1. nodes'[k].kids = old \o fresh
      BY <1>1, <1>4, <1>9, <2>1
    <3> QED BY <1>2, <3>1
  <2>2. CASE k \in 1 .. n /\ k # d
    <3>1. nodes'[k].kids \in Seq(1 .. n)
      BY <1>1, <1>4, <1>9, <2>2, NodeFacts
    <3> QED BY <3>1, <1>1
  <2>3. CASE k \notin 1 .. n
    <3>1. PICK j \in 1 .. m : k = n + j
      <4>1. k - n \in 1 .. m /\ k = n + (k - n)
        BY <1>1, <1>9, <2>3
      <4> QED BY <4>1
    <3>2. nodes'[k] = NewNode(entries[j].name, entries[j].ino, literal)
      BY <1>8, <1>9, <3>1
    <3>3. nodes'[k].kids = <<>>
      BY <3>2 DEF NewNode
    <3> QED BY <3>3
  <2> QED BY <2>1, <2>2, <2>3
<1>11. /\ nodes'[d].ino = nodes[d].ino /\ nodes'[d].name = nodes[d].name
       /\ nodes'[d].literal = nodes[d].literal /\ nodes'[d].dirty = nodes[d].dirty
       /\ nodes'[d].kids = old \o fresh
  <2>1. nodes'[d] = [ino |-> nodes[d].ino, name |-> nodes[d].name,
                     literal |-> nodes[d].literal, kids |-> old \o fresh,
                     dirty |-> nodes[d].dirty]
    <3>1. d \in 1 .. n
      BY <1>1
    <3>2. nodes'[d] = grown[d]
      BY <1>9, <3>1
    <3> QED BY <1>4, <3>2
  <2> QED BY <2>1
<1>12. \A k \in DOMAIN nodes : k # d => nodes'[k] = nodes[k]
  <2>1. \A k \in 1 .. n : k # d => nodes'[k] = nodes[k]
    BY <1>4, <1>9
  <2> QED BY <1>1, <2>1
<1>13. \A j \in 1 .. m : nodes'[n + j] = NewNode(entries[j].name, entries[j].ino, literal)
  BY <1>8, <1>9
<1> QED
  BY <1>2, <1>9, <1>10, <1>11, <1>12, <1>13 DEF n, m, old

(* A flush changes no list and no entry but for the dirty flags.  It only  *)
(* clears flags: those of the directory it has come to and, if that is     *)
(* written, of its entries.                                                *)
LEMMA FlushFacts ==
  ASSUME TypeOK, flushDirectoryCache
  PROVE  LET d == Head(todo) IN
         /\ d \in DOMAIN nodes /\ d \in Range(todo)
         /\ nodes' \in Seq(Nodes) /\ DOMAIN nodes' = DOMAIN nodes
         /\ \A k \in DOMAIN nodes :
              /\ nodes'[k].ino = nodes[k].ino /\ nodes'[k].name = nodes[k].name
              /\ nodes'[k].literal = nodes[k].literal /\ nodes'[k].kids = nodes[k].kids
              /\ nodes'[k].dirty => nodes[k].dirty
              /\ nodes[k].dirty /\ ~nodes'[k].dirty => k = d \/ k \in Range(nodes[d].kids)
         /\ ~nodes'[d].dirty
         /\ \A k \in Range(nodes[d].kids) : ~nodes'[k].dirty
         /\ todo' \in Seq(DOMAIN nodes)
         /\ Range(todo') \subseteq Range(todo) \cup Range(nodes[d].kids)
         /\ ~Unsaved(d) => Range(todo') \cup {d} = Range(todo) \cup Range(nodes[d].kids) \cup {d}
<1> DEFINE d == Head(todo)
           kids == nodes[d].kids
           Flags == /\ nodes' \in Seq(Nodes) /\ DOMAIN nodes' = DOMAIN nodes
                    /\ \A k \in DOMAIN nodes :
                         /\ nodes'[k].ino = nodes[k].ino /\ nodes'[k].name = nodes[k].name
                         /\ nodes'[k].literal = nodes[k].literal
                         /\ nodes'[k].kids = nodes[k].kids
                         /\ nodes'[k].dirty => nodes[k].dirty
                         /\ nodes[k].dirty /\ ~nodes'[k].dirty => k = d \/ k \in Range(kids)
                    /\ ~nodes'[d].dirty
                    /\ \A k \in Range(kids) : ~nodes'[k].dirty
<1>1. /\ d \in DOMAIN nodes /\ d \in Range(todo)
      /\ Tail(todo) \in Seq(DOMAIN nodes)
      /\ Range(todo) = {d} \cup Range(Tail(todo))
  BY HeadFacts DEF TypeOK, flushDirectoryCache
<1>2. kids \in Seq(DOMAIN nodes) /\ Range(kids) \subseteq DOMAIN nodes
  BY <1>1, NodeFacts DEF Range
<1>3. \A k : Contains(kids, k) <=> k \in Range(kids)
  BY <1>2 DEF Contains, Range
<1>4. ASSUME Unsaved(d) \/ nodes[d].dirty PROVE Flags
  <2>1. nodes' = [k \in DOMAIN nodes |->
                    [nodes[k] EXCEPT !.dirty = @ /\ k # d /\ ~Contains(kids, k)]]
    BY <1>4 DEF flushDirectoryCache, writeDirectory
  <2>2. ASSUME NEW k \in DOMAIN nodes
        PROVE  /\ nodes'[k] \in Nodes
               /\ nodes'[k].ino = nodes[k].ino /\ nodes'[k].name = nodes[k].name
               /\ nodes'[k].literal = nodes[k].literal /\ nodes'[k].kids = nodes[k].kids
               /\ nodes'[k].dirty <=> nodes[k].dirty /\ k # d /\ k \notin Range(kids)
    <3> DEFINE flag == nodes[k].dirty /\ k # d /\ ~Contains(kids, k)
    <3>1. nodes'[k] = [nodes[k] EXCEPT !.dirty = flag]
      BY <2>1
    <3>2. nodes[k] \in Nodes /\ flag \in BOOLEAN
      BY NodeFacts DEF TypeOK
    <3>3. flag <=> nodes[k].dirty /\ k # d /\ k \notin Range(kids)
      BY <1>3
    <3> HIDE DEF flag
    <3> QED BY <3>1, <3>2, <3>3 DEF Nodes
  <2>3. nodes' \in Seq(Nodes) /\ DOMAIN nodes' = DOMAIN nodes
    <3>1. nodes' = [k \in 1 .. Len(nodes) |-> nodes'[k]] /\ Len(nodes) \in Nat
      BY <2>1, NodeFacts
    <3>2. \A k \in 1 .. Len(nodes) : nodes'[k] \in Nodes
      BY <2>2, NodeFacts
    <3>3. DOMAIN nodes' = DOMAIN nodes
      BY <2>1
    <3> QED BY <3>1, <3>2, <3>3
  <2> QED BY <1>1, <1>2, <2>2, <2>3
<1>5. ASSUME ~(Unsaved(d) \/ nodes[d].dirty) PROVE Flags
  BY <1>1, <1>2, <1>5, NodeFacts DEF TypeOK, flushDirectoryCache, Unsaved
<1>6. Reverse(kids) \in Seq(DOMAIN nodes) /\ Range(Reverse(kids)) = Range(kids)
  BY <1>2, ReverseFacts
<1>7. todo' = (IF Unsaved(d) /\ ~nodes[d].dirty THEN <<>> ELSE Reverse(kids)) \o Tail(todo)
  BY DEF flushDirectoryCache
<1>8. /\ todo' \in Seq(DOMAIN nodes)
      /\ Range(todo') \subseteq Range(Tail(todo)) \cup Range(kids)
      /\ ~Unsaved(d) => Range(todo') = Range(Tail(todo)) \cup Range(kids)
  <2>1. CASE Unsaved(d) /\ ~nodes[d].dirty
    <3>1. todo' = <<>> \o Tail(todo)
      BY <1>7, <2>1
    <3>2. todo' = Tail(todo)
      BY <1>1, <3>1
    <3> QED BY <1>1, <2>1, <3>2
  <2>2. CASE ~(Unsaved(d) /\ ~nodes[d].dirty)
    <3>1. todo' = Reverse(kids) \o Tail(todo)
      BY <1>7, <2>2
    <3>2. /\ Reverse(kids) \o Tail(todo) \in Seq(DOMAIN nodes)
          /\ Range(Reverse(kids) \o Tail(todo)) = Range(Reverse(kids)) \cup Range(Tail(todo))
      <4> DEFINE S == DOMAIN nodes
                 r == Reverse(kids)
                 t == Tail(todo)
      <4>1. r \in Seq(S) /\ t \in Seq(S)
        BY <1>1, <1>6
      <4> HIDE DEF S, r, t
      <4>2. r \o t \in Seq(S) /\ Range(r \o t) = Range(r) \cup Range(t)
        BY <4>1, ConcatFacts
      <4> QED BY <4>2 DEF S, r, t
    <3> HIDE DEF kids
    <3> QED BY <1>6, <3>1, <3>2
  <2> QED BY <2>1, <2>2
<1> QED
  BY <1>1, <1>4, <1>5, <1>8

(* Where getChildren(d) starts to flush: at d and its siblings. *)
LEMMA SiblingFacts ==
  ASSUME TypeOK, NEW d \in DOMAIN nodes
  PROVE  /\ WithSiblings(d) \in Seq(DOMAIN nodes)
         /\ d \in Range(WithSiblings(d))
         /\ \A k \in Range(WithSiblings(d)) :
              k = d \/ \E p \in DOMAIN nodes : {d, k} \subseteq Range(nodes[p].kids)
<1> DEFINE above == { p \in DOMAIN nodes : Contains(nodes[p].kids, d) }
           p     == CHOOSE p \in above : TRUE
           kids  == nodes[p].kids
           here  == CHOOSE j \in DOMAIN kids : kids[j] = d
           later == SubSeq(kids, here, Len(kids))
<1>1. CASE above = {}
  <2>1. WithSiblings(d) = <<d>>
    BY <1>1 DEF WithSiblings
  <2> QED BY <2>1 DEF Range
<1>2. CASE above # {}
  <2>1. p \in DOMAIN nodes /\ Contains(kids, d)
    BY <1>2
  <2>2. kids \in Seq(DOMAIN nodes)
    BY <2>1, NodeFacts
  <2>3. here \in DOMAIN kids /\ kids[here] = d
    <3>1. \E j \in DOMAIN kids : kids[j] = d
      <4>1. DOMAIN kids = 1 .. Len(kids)
        BY <2>2
      <4> HIDE DEF kids
      <4> QED BY <2>1, <4>1 DEF Contains
    <3> QED BY <3>1
  <2>4. WithSiblings(d) = Reverse(later)
    BY <1>2 DEF WithSiblings
  <2> HIDE DEF above, p, kids, here
  <2>5. /\ later \in Seq(DOMAIN nodes) /\ Range(later) \subseteq Range(kids) /\ d \in Range(later)
    <3>1. here \in 1 .. Len(kids) /\ Len(kids) \in Nat /\ DOMAIN kids = 1 .. Len(kids)
      BY <2>2, <2>3
    <3>2. later = [j \in 1 .. Len(kids) - here + 1 |-> kids[here + j - 1]]
      BY <2>2, <3>1
    <3>3. \A j \in 1 .. Len(kids) - here + 1 : here + j - 1 \in DOMAIN kids
      BY <3>1
    <3>4. 1 \in 1 .. Len(kids) - here + 1 /\ here + 1 - 1 = here
      BY <3>1
    <3>5. later \in Seq(DOMAIN nodes)
      BY <2>2, <3>1
    <3> HIDE DEF later
    <3>6. Range(later) \subseteq Range(kids)
      BY <3>2, <3>3 DEF Range
    <3>7. d \in Range(later)
      BY <2>3, <3>2, <3>4 DEF Range
    <3> QED BY <3>5, <3>6, <3>7
  <2>6. d \in Range(kids)
    BY <2>5
  <2> HIDE DEF later
  <2> QED BY <2>1, <2>4, <2>5, <2>6, ReverseFacts DEF kids
<1> QED BY <1>1, <1>2

-----------------------------------------------------------------------------
(* The invariant.                                                          *)

\* Where the shell and a flush are.
Control ==
  /\ phase # "idle" => Mounted
  /\ phase \in {"idle", "inodes", "close", "failed"} => todo = <<>>
  /\ phase = "getChildren" => cwd # Null /\ nodes[cwd].kids # <<>>

\* A set of entries with all that is below them.
Closed(S) == \A d \in S : Range(nodes[d].kids) \subseteq S

\* An entry is made after the directory it is in.
Ordered == \A p \in DOMAIN nodes : \A j \in DOMAIN nodes[p].kids : nodes[p].kids[j] > p

\* An entry is in one list, once.
OneParent ==
  \A p, q \in DOMAIN nodes : \A j \in DOMAIN nodes[p].kids, l \in DOMAIN nodes[q].kids :
    nodes[p].kids[j] = nodes[q].kids[l] => p = q /\ j = l

\* Every entry is below the root.
Reachable ==
  \A S \in SUBSET DOMAIN nodes : RootDir \in S /\ Closed(S) => S = DOMAIN nodes

\* Only the root has the name of the root.
OneRoot == \A k \in DOMAIN nodes : k # RootDir => nodes[k].name # "/"

Heap == Ordered /\ OneParent /\ Reachable /\ OneRoot

(* An unsaved directory is the current one, and a flush that is under way  *)
(* will come to it, not to its entries.                                    *)
WayOfFlush ==
  \A d \in DOMAIN nodes : Unsaved(d) =>
    /\ d = cwd
    /\ Range(todo) \cap Range(nodes[d].kids) = {}
    /\ phase # "idle" => \A S \in SUBSET DOMAIN nodes :
                           Range(todo) \subseteq S /\ Closed(S) => d \in S

\* What is cached of a directory begins with what was committed of it.
TextsGrow ==
  \A d \in DOMAIN nodes :
    nodes[d].kids # <<>> => IsPrefix(committed[nodes[d].ino], Text(d))

IInv == TypeOK /\ Control /\ Heap /\ WayOfFlush /\ TextsGrow /\ CommittedIsDurable

(* The text of a directory is a list of entries, one for each kid. *)
LEMMA TextFacts ==
  ASSUME TypeOK, Heap, NEW d \in DOMAIN nodes
  PROVE  /\ Text(d) \in Seq(Entries) /\ Len(Text(d)) = Len(nodes[d].kids)
         /\ DOMAIN Text(d) = DOMAIN nodes[d].kids
         /\ \A j \in DOMAIN Text(d) :
              Text(d)[j] = Entry(nodes[nodes[d].kids[j]].name, nodes[nodes[d].kids[j]].ino)
<1> DEFINE kids == nodes[d].kids
<1>1. /\ kids \in Seq(DOMAIN nodes) /\ Len(kids) \in Nat /\ DOMAIN kids = 1 .. Len(kids)
      /\ \A j \in DOMAIN kids : kids[j] \in DOMAIN nodes
  BY NodeFacts
<1>2. ASSUME NEW j \in DOMAIN kids PROVE Entry(nodes[kids[j]].name, nodes[kids[j]].ino) \in Entries
  <2>1. kids[j] > d /\ d >= 1
    BY NodeFacts DEF Heap, Ordered
  <2>2. nodes[kids[j]].name # "/"
    BY <1>1, <2>1 DEF Heap, OneRoot, RootDir
  <2> QED BY <1>1, <2>2, NodeFacts DEF Entry, Entries
<1>3. Text(d) = [j \in 1 .. Len(kids) |-> Entry(nodes[kids[j]].name, nodes[kids[j]].ino)]
  BY <1>1 DEF Text
<1> HIDE DEF kids
<1>4. Text(d) \in Seq(Entries) /\ Len(Text(d)) = Len(kids)
  BY <1>1, <1>2, <1>3
<1> QED BY <1>1, <1>3, <1>4 DEF kids

(* The last of what addChild leaves: the new entries, one by one. *)
LEMMA NewFacts ==
  ASSUME TypeOK, NEW d \in DOMAIN nodes, NEW entries \in Seq(Entries),
         NEW literal \in BOOLEAN, addChildren(d, entries, literal),
         NEW m \in 1 .. Len(entries)
  PROVE  /\ nodes'[d].kids[Len(nodes[d].kids) + m] = Len(nodes) + m
         /\ nodes'[Len(nodes) + m] = NewNode(entries[m].name, entries[m].ino, literal)
<1>1. \A j \in 1 .. Len(entries) :
        /\ nodes'[d].kids[Len(nodes[d].kids) + j] = Len(nodes) + j
        /\ nodes'[Len(nodes) + j] = NewNode(entries[j].name, entries[j].ino, literal)
  BY AddChildrenFacts
<1> QED BY <1>1

(* A list after addChild has the kids it had and the new structures. *)
LEMMA KidCases ==
  ASSUME TypeOK, NEW d \in DOMAIN nodes, NEW entries \in Seq(Entries),
         NEW literal \in BOOLEAN, addChildren(d, entries, literal),
         NEW p \in DOMAIN nodes', NEW j \in DOMAIN nodes'[p].kids
  PROVE  \/ /\ p \in DOMAIN nodes /\ j \in DOMAIN nodes[p].kids
            /\ nodes'[p].kids[j] = nodes[p].kids[j]
            /\ nodes[p].kids[j] \in DOMAIN nodes
         \/ /\ p = d
            /\ \E m \in 1 .. Len(entries) : /\ j = Len(nodes[d].kids) + m
                                           /\ nodes'[p].kids[j] = Len(nodes) + m
<1>1. /\ Len(nodes) \in Nat /\ DOMAIN nodes = 1 .. Len(nodes)
      /\ \A k \in DOMAIN nodes : /\ nodes[k].kids \in Seq(DOMAIN nodes)
                               /\ DOMAIN nodes[k].kids = 1 .. Len(nodes[k].kids)
                               /\ Len(nodes[k].kids) \in Nat
  BY NodeFacts
<1>2. Len(entries) \in Nat
  OBVIOUS
<1>3. /\ DOMAIN nodes' = 1 .. Len(nodes) + Len(entries)
      /\ nodes'[p].kids \in Seq(DOMAIN nodes')
  BY AddChildrenFacts
<1>4. DOMAIN nodes'[p].kids = 1 .. Len(nodes'[p].kids)
  BY <1>3
<1>5. CASE p \in DOMAIN nodes /\ p # d
  <2>1. nodes'[p] = nodes[p]
    BY <1>5, AddChildrenFacts
  <2>2. nodes[p].kids[j] \in DOMAIN nodes
    BY <1>1, <1>5, <2>1
  <2> QED BY <1>5, <2>1, <2>2
<1>6. CASE p = d
  <2>1. Len(nodes'[d].kids) = Len(nodes[d].kids) + Len(entries)
    BY AddChildrenFacts
  <2>2. CASE j \in DOMAIN nodes[d].kids
    <3>1. nodes'[d].kids[j] = nodes[d].kids[j]
      BY <2>2, AddChildrenFacts
    <3>2. nodes[d].kids[j] \in DOMAIN nodes
      BY <1>1, <2>2
    <3> QED BY <1>6, <2>2, <3>1, <3>2
  <2>3. CASE j \notin DOMAIN nodes[d].kids
    <3> DEFINE m == j - Len(nodes[d].kids)
    <3>1. m \in 1 .. Len(entries) /\ j = Len(nodes[d].kids) + m
      BY <1>1, <1>2, <1>4, <1>6, <2>1, <2>3
    <3>2. nodes'[d].kids[j] = Len(nodes) + m
      <4>1. m \in 1 .. Len(entries)
        BY <3>1
      <4> HIDE DEF m
      <4>2. nodes'[d].kids[Len(nodes[d].kids) + m] = Len(nodes) + m
        BY <4>1, NewFacts
      <4> QED BY <3>1, <4>2
    <3> QED BY <1>6, <3>1, <3>2
  <2> QED BY <2>2, <2>3
<1>7. CASE p \notin DOMAIN nodes
  <2> DEFINE m == p - Len(nodes)
  <2>1. m \in 1 .. Len(entries) /\ p = Len(nodes) + m
    BY <1>1, <1>2, <1>3, <1>7
  <2> HIDE DEF m
  <2>2. nodes'[p] = NewNode(entries[m].name, entries[m].ino, literal)
    BY <2>1, NewFacts
  <2>3. nodes'[p].kids = <<>>
    BY <2>2 DEF NewNode
  <2> QED BY <2>3
<1> QED BY <1>5, <1>6, <1>7

(* What was in a list before addChild is in it afterwards. *)
LEMMA KidsStay ==
  ASSUME TypeOK, NEW d \in DOMAIN nodes, NEW entries \in Seq(Entries),
         NEW literal \in BOOLEAN, addChildren(d, entries, literal)
  PROVE  /\ DOMAIN nodes \subseteq DOMAIN nodes'
         /\ \A p \in DOMAIN nodes : Range(nodes[p].kids) \subseteq Range(nodes'[p].kids)
         /\ \A k \in DOMAIN nodes' \ DOMAIN nodes :
              k \in Range(nodes'[d].kids) /\ \E j \in 1 .. Len(entries) :
                nodes'[k] = NewNode(entries[j].name, entries[j].ino, literal)
         /\ \A p \in DOMAIN nodes : /\ nodes'[p].ino = nodes[p].ino
                                  /\ nodes'[p].name = nodes[p].name
                                  /\ nodes'[p].literal = nodes[p].literal
                                  /\ nodes'[p].dirty = nodes[p].dirty
<1>1. /\ Len(nodes) \in Nat /\ DOMAIN nodes = 1 .. Len(nodes) /\ Len(entries) \in Nat
      /\ DOMAIN nodes' = 1 .. Len(nodes) + Len(entries)
      /\ nodes[d].kids \in Seq(DOMAIN nodes) /\ nodes'[d].kids \in Seq(DOMAIN nodes')
      /\ Len(nodes'[d].kids) = Len(nodes[d].kids) + Len(entries)
  BY NodeFacts, AddChildrenFacts
<1>2. DOMAIN nodes[d].kids \subseteq DOMAIN nodes'[d].kids
  BY <1>1
<1>3. ASSUME NEW p \in DOMAIN nodes PROVE Range(nodes[p].kids) \subseteq Range(nodes'[p].kids)
  <2>1. CASE p = d
    <3>1. \A j \in DOMAIN nodes[d].kids : nodes'[d].kids[j] = nodes[d].kids[j]
      BY AddChildrenFacts
    <3> QED BY <1>2, <2>1, <3>1 DEF Range
  <2>2. CASE p # d
    BY <2>2, AddChildrenFacts
  <2> QED BY <2>1, <2>2
<1>4. ASSUME NEW k \in DOMAIN nodes', k \notin DOMAIN nodes
      PROVE  k \in Range(nodes'[d].kids) /\ \E j \in 1 .. Len(entries) :
                nodes'[k] = NewNode(entries[j].name, entries[j].ino, literal)
  <2> DEFINE j == k - Len(nodes)
  <2>1. j \in 1 .. Len(entries) /\ k = Len(nodes) + j
    BY <1>1, <1>4
  <2>2. Len(nodes[d].kids) + j \in DOMAIN nodes'[d].kids
    BY <1>1, <2>1
  <2> HIDE DEF j
  <2>3. /\ nodes'[d].kids[Len(nodes[d].kids) + j] = Len(nodes) + j
        /\ nodes'[Len(nodes) + j] = NewNode(entries[j].name, entries[j].ino, literal)
    BY <2>1, AddChildrenFacts
  <2>4. k \in Range(nodes'[d].kids)
    BY <2>1, <2>2, <2>3 DEF Range
  <2> QED BY <2>1, <2>3, <2>4
<1>5. ASSUME NEW p \in DOMAIN nodes
      PROVE  /\ nodes'[p].ino = nodes[p].ino /\ nodes'[p].name = nodes[p].name
             /\ nodes'[p].literal = nodes[p].literal /\ nodes'[p].dirty = nodes[p].dirty
  BY AddChildrenFacts
<1>6. DOMAIN nodes \subseteq DOMAIN nodes'
  BY <1>1
<1> QED BY <1>3, <1>4, <1>5, <1>6

(* addChild keeps the cache a tree below the root. *)
LEMMA HeapGrows ==
  ASSUME TypeOK, Heap, NEW d \in DOMAIN nodes, NEW entries \in Seq(Entries),
         NEW literal \in BOOLEAN, addChildren(d, entries, literal)
  PROVE  Heap'
<1>1. /\ Len(nodes) \in Nat /\ DOMAIN nodes = 1 .. Len(nodes)
      /\ \A k \in DOMAIN nodes : /\ nodes[k].kids \in Seq(DOMAIN nodes)
                               /\ DOMAIN nodes[k].kids = 1 .. Len(nodes[k].kids)
  BY NodeFacts
<1>2. Ordered'
  <2> SUFFICES ASSUME NEW p \in DOMAIN nodes', NEW j \in DOMAIN nodes'[p].kids
               PROVE  nodes'[p].kids[j] > p
    BY DEF Ordered
  <2> QED BY <1>1, KidCases DEF Heap, Ordered
<1>3. OneParent'
  <2> SUFFICES ASSUME NEW p \in DOMAIN nodes', NEW q \in DOMAIN nodes',
                      NEW j \in DOMAIN nodes'[p].kids, NEW l \in DOMAIN nodes'[q].kids,
                      nodes'[p].kids[j] = nodes'[q].kids[l]
               PROVE  p = q /\ j = l
    BY DEF OneParent
  <2>1. CASE /\ p \in DOMAIN nodes /\ j \in DOMAIN nodes[p].kids
             /\ nodes'[p].kids[j] = nodes[p].kids[j] /\ nodes[p].kids[j] \in DOMAIN nodes
    <3>1. nodes'[q].kids[l] \in DOMAIN nodes
      BY <2>1
    <3>2. /\ q \in DOMAIN nodes /\ l \in DOMAIN nodes[q].kids
          /\ nodes'[q].kids[l] = nodes[q].kids[l]
      BY <1>1, <3>1, KidCases
    <3>3. nodes[p].kids[j] = nodes[q].kids[l]
      BY <2>1, <3>2
    <3> QED BY <2>1, <3>2, <3>3 DEF Heap, OneParent
  <2>2. CASE p = d /\ \E m \in 1 .. Len(entries) : /\ j = Len(nodes[d].kids) + m
                                                  /\ nodes'[p].kids[j] = Len(nodes) + m
    <3>1. PICK m \in 1 .. Len(entries) : j = Len(nodes[d].kids) + m /\ nodes'[p].kids[j] = Len(nodes) + m
      BY <2>2
    <3>2. nodes'[q].kids[l] \notin DOMAIN nodes
      BY <1>1, <3>1
    <3>3. q = d /\ \E i \in 1 .. Len(entries) : /\ l = Len(nodes[d].kids) + i
                                              /\ nodes'[q].kids[l] = Len(nodes) + i
      BY <3>2, KidCases
    <3>4. PICK i \in 1 .. Len(entries) : l = Len(nodes[d].kids) + i /\ nodes'[q].kids[l] = Len(nodes) + i
      BY <3>3
    <3>5. Len(nodes) + i = Len(nodes) + m
      BY <3>1, <3>4
    <3>6. i = m
      BY <1>1, <3>5
    <3> QED BY <2>2, <3>1, <3>3, <3>4, <3>6
  <2> QED BY <2>1, <2>2, KidCases
<1>4. Reachable'
  <2> SUFFICES ASSUME NEW S \in SUBSET DOMAIN nodes', RootDir \in S, Closed(S)'
               PROVE  S = DOMAIN nodes'
    BY DEF Reachable
  <2> DEFINE T == S \cap DOMAIN nodes
  <2>1. RootDir \in T
    BY <1>1 DEF RootDir
  <2>2. Closed(T)
    <3> SUFFICES ASSUME NEW p \in T PROVE Range(nodes[p].kids) \subseteq T
      BY DEF Closed
    <3>1. Range(nodes'[p].kids) \subseteq S
      BY DEF Closed
    <3>2. Range(nodes[p].kids) \subseteq DOMAIN nodes
      BY <1>1 DEF Range
    <3> QED BY <3>1, <3>2, KidsStay
  <2>3. T = DOMAIN nodes
    BY <2>1, <2>2 DEF Heap, Reachable
  <2>4. Range(nodes'[d].kids) \subseteq S
    BY <2>3 DEF Closed
  <2>5. DOMAIN nodes' \ DOMAIN nodes \subseteq Range(nodes'[d].kids)
    BY KidsStay
  <2> QED BY <2>3, <2>4, <2>5
<1>5. OneRoot'
  <2> SUFFICES ASSUME NEW k \in DOMAIN nodes', k # RootDir PROVE nodes'[k].name # "/"
    BY DEF OneRoot
  <2>1. CASE k \in DOMAIN nodes
    BY <2>1, KidsStay DEF Heap, OneRoot
  <2>2. CASE k \notin DOMAIN nodes
    <3>1. PICK j \in 1 .. Len(entries) : nodes'[k] = NewNode(entries[j].name, entries[j].ino, literal)
      BY <2>2, KidsStay
    <3>2. nodes'[k].name = entries[j].name /\ entries[j] \in Entries
      BY <3>1 DEF NewNode
    <3> QED BY <3>2, DirectoryAssumption DEF Entries
  <2> QED BY <2>1, <2>2
<1> QED BY <1>2, <1>3, <1>4, <1>5 DEF Heap

(* addChild puts the entries behind the text. *)
LEMMA TextGrows ==
  ASSUME TypeOK, Heap, NEW d \in DOMAIN nodes, NEW entries \in Seq(Entries),
         NEW literal \in BOOLEAN, addChildren(d, entries, literal), TypeOK'
  PROVE  /\ Text(d)' = Text(d) \o entries
         /\ \A e \in DOMAIN nodes : e # d => Text(e)' = Text(e)
         /\ \A e \in DOMAIN nodes' \ DOMAIN nodes : nodes'[e].kids = <<>>
<1>1. /\ Len(nodes) \in Nat /\ DOMAIN nodes = 1 .. Len(nodes) /\ Len(entries) \in Nat
      /\ nodes[d].kids \in Seq(DOMAIN nodes)
      /\ DOMAIN nodes[d].kids = 1 .. Len(nodes[d].kids) /\ Len(nodes[d].kids) \in Nat
      /\ nodes'[d].kids \in Seq(DOMAIN nodes')
      /\ Len(nodes'[d].kids) = Len(nodes[d].kids) + Len(entries)
      /\ \A j \in 1 .. Len(entries) : entries[j] \in Entries
  BY NodeFacts, AddChildrenFacts
<1>2. \A k \in DOMAIN nodes : nodes'[k].name = nodes[k].name /\ nodes'[k].ino = nodes[k].ino
  BY KidsStay
<1>3. ASSUME NEW e \in DOMAIN nodes, e # d PROVE Text(e)' = Text(e)
  <2>1. nodes'[e].kids = nodes[e].kids
    BY <1>3, AddChildrenFacts
  <2>2. \A j \in DOMAIN nodes[e].kids : nodes[e].kids[j] \in DOMAIN nodes
    BY NodeFacts
  <2> QED BY <1>2, <2>1, <2>2 DEF Text
<1>4. ASSUME NEW e \in DOMAIN nodes', e \notin DOMAIN nodes PROVE nodes'[e].kids = <<>>
  <2>1. PICK j \in 1 .. Len(entries) : nodes'[e] = NewNode(entries[j].name, entries[j].ino, literal)
    BY <1>4, KidsStay
  <2> QED BY <2>1 DEF NewNode
<1>5. Text(d)' = Text(d) \o entries
  <2> DEFINE s == Text(d)'
             t == Text(d) \o entries
  <2>1. /\ Text(d) \in Seq(Entries) /\ Len(Text(d)) = Len(nodes[d].kids)
        /\ \A j \in DOMAIN nodes[d].kids :
             Text(d)[j] = Entry(nodes[nodes[d].kids[j]].name, nodes[nodes[d].kids[j]].ino)
    BY TextFacts
  <2>2. /\ t \in Seq(Entries) /\ Len(t) = Len(nodes[d].kids) + Len(entries)
        /\ \A j \in DOMAIN nodes[d].kids : t[j] = Text(d)[j]
        /\ \A j \in 1 .. Len(entries) : t[Len(nodes[d].kids) + j] = entries[j]
    <3> DEFINE u == Text(d)
               E == Entries
    <3>1. /\ u \in Seq(E) /\ entries \in Seq(E)
          /\ Len(u) = Len(nodes[d].kids) /\ DOMAIN u = DOMAIN nodes[d].kids
      BY TextFacts
    <3> HIDE DEF u, E
    <3>2. /\ u \o entries \in Seq(E) /\ Len(u \o entries) = Len(u) + Len(entries)
          /\ \A j \in DOMAIN u : (u \o entries)[j] = u[j]
          /\ \A j \in 1 .. Len(entries) : (u \o entries)[Len(u) + j] = entries[j]
      <4>1. u \in Seq(E) /\ entries \in Seq(E)
        BY <3>1
      <4> QED BY <4>1, ConcatFacts
    <3> QED BY <3>1, <3>2 DEF u, E
  <2>3. s = [j \in 1 .. Len(nodes[d].kids) + Len(entries) |->
               Entry(nodes'[nodes'[d].kids[j]].name, nodes'[nodes'[d].kids[j]].ino)]
    <3>1. DOMAIN nodes'[d].kids = 1 .. Len(nodes[d].kids) + Len(entries)
      BY <1>1
    <3> QED BY <3>1 DEF Text
  <2>4. ASSUME NEW j \in DOMAIN nodes[d].kids PROVE s[j] = t[j]
    <3>1. t[j] = Text(d)[j]
      BY <2>2
    <3>2. nodes'[d].kids[j] = nodes[d].kids[j] /\ nodes[d].kids[j] \in DOMAIN nodes
      <4>1. nodes[d].kids \in Seq(DOMAIN nodes)
        BY <1>1
      <4>2. nodes[d].kids[j] \in DOMAIN nodes
        BY <4>1
      <4>3. nodes'[d].kids[j] = nodes[d].kids[j]
        BY AddChildrenFacts
      <4> QED BY <4>2, <4>3
    <3>3. s[j] = Entry(nodes'[nodes'[d].kids[j]].name, nodes'[nodes'[d].kids[j]].ino)
      BY <1>1, <2>3
    <3> HIDE DEF s, t
    <3> QED BY <1>2, <2>1, <3>1, <3>2, <3>3
  <2>5. ASSUME NEW m \in 1 .. Len(entries)
        PROVE  s[Len(nodes[d].kids) + m] = t[Len(nodes[d].kids) + m]
    <3>1. t[Len(nodes[d].kids) + m] = entries[m]
      BY <2>2
    <3>2. /\ nodes'[d].kids[Len(nodes[d].kids) + m] = Len(nodes) + m
          /\ nodes'[Len(nodes) + m] = NewNode(entries[m].name, entries[m].ino, literal)
      BY NewFacts
    <3>3. /\ nodes'[Len(nodes) + m].name = entries[m].name
          /\ nodes'[Len(nodes) + m].ino = entries[m].ino
      BY <3>2 DEF NewNode
    <3>4. Len(nodes[d].kids) + m \in 1 .. Len(nodes[d].kids) + Len(entries)
      BY <1>1
    <3>5. s[Len(nodes[d].kids) + m]
            = Entry(nodes'[nodes'[d].kids[Len(nodes[d].kids) + m]].name,
                    nodes'[nodes'[d].kids[Len(nodes[d].kids) + m]].ino)
      BY <2>3, <3>4
    <3> HIDE DEF s, t
    <3>6. Entry(entries[m].name, entries[m].ino) = entries[m]
      BY <1>1 DEF Entry, Entries
    <3> QED BY <3>1, <3>2, <3>3, <3>5, <3>6
  <2>6. DOMAIN t = 1 .. Len(nodes[d].kids) + Len(entries)
    BY <2>2
  <2>7. \A j \in 1 .. Len(nodes[d].kids) + Len(entries) : s[j] = t[j]
    <3> SUFFICES ASSUME NEW j \in 1 .. Len(nodes[d].kids) + Len(entries) PROVE s[j] = t[j]
      OBVIOUS
    <3>1. CASE j \in DOMAIN nodes[d].kids
      BY <2>4, <3>1
    <3>2. CASE j \notin DOMAIN nodes[d].kids
      <4> DEFINE m == j - Len(nodes[d].kids)
      <4>1. m \in 1 .. Len(entries) /\ j = Len(nodes[d].kids) + m
        BY <1>1, <3>2
      <4> HIDE DEF m, s, t
      <4> QED BY <2>5, <4>1
    <3> QED BY <3>1, <3>2
  <2>8. s = [j \in 1 .. Len(nodes[d].kids) + Len(entries) |-> s[j]]
    BY <2>3
  <2> HIDE DEF s, t
  <2>9. t = [j \in 1 .. Len(nodes[d].kids) + Len(entries) |-> t[j]]
    BY <2>2, <2>6
  <2>10. s = t
    BY <2>7, <2>8, <2>9
  <2> QED BY <2>10 DEF s, t
<1> QED BY <1>3, <1>4, <1>5


(* What getChildren adds to a directory that was not read yet. *)
LEMMA LoadFacts ==
  ASSUME TypeOK, NEW d \in DOMAIN nodes, Loaded(d)
  PROVE  \/ nodes[d].kids # <<>> /\ nodes' = nodes
         \/ /\ nodes[d].kids = <<>>
            /\ \E entries \in Seq(Entries), literal \in BOOLEAN :
                 /\ entries # <<>> /\ addChildren(d, entries, literal)
                 /\ entries = IF iNodeRead(nodes[d].ino) # <<>> THEN iNodeRead(nodes[d].ino)
                              ELSE <<Entry(".", nodes[d].ino)>>
<1> DEFINE ino == nodes[d].ino
<1>1. ino \in INodes
  BY NodeFacts
<1>2. iNodeRead(ino) \in Seq(Entries)
  BY <1>1 DEF iNodeRead, TypeOK
<1>3. <<Entry(".", ino)>> \in Seq(Entries)
  BY <1>1 DEF Entry, Entries
<1>4. CASE nodes[d].kids # <<>>
  BY <1>4 DEF Loaded
<1>5. CASE nodes[d].kids = <<>> /\ iNodeRead(ino) # <<>>
  BY <1>2, <1>5 DEF Loaded
<1>6. CASE nodes[d].kids = <<>> /\ iNodeRead(ino) = <<>>
  <2>1. addChildren(d, <<Entry(".", ino)>>, TRUE)
    BY <1>6 DEF Loaded
  <2>2. <<Entry(".", ino)>> # <<>>
    OBVIOUS
  <2> QED BY <1>3, <1>6, <2>1, <2>2
<1> QED BY <1>4, <1>5, <1>6

\* getChildren, however the read of its directory goes.
Reads == getChildren \/ getChildrenFails

(* Either adds entries to a directory that has none, or changes nothing. *)
LEMMA ReadFacts ==
  ASSUME TypeOK, Reads
  PROVE  /\ cwd \in DOMAIN nodes /\ Ready
         /\ phase' = "getChildren" /\ todo' = WithSiblings(cwd)
         /\ UNCHANGED <<device, volume, cwd, next, made>>
         /\ committed' \in [INodes -> Seq(Entries)]
         /\ \A i \in INodes : committed'[i] \in {committed[i], <<>>}
         /\ \/ nodes[cwd].kids # <<>> /\ nodes' = nodes
            \/ /\ nodes[cwd].kids = <<>>
               /\ \E entries \in Seq(Entries), literal \in BOOLEAN :
                    entries # <<>> /\ addChildren(cwd, entries, literal)
<1>1. cwd \in DOMAIN nodes
  BY DEF Reads, TypeOK, getChildren, getChildrenFails
<1>2. CASE getChildren
  <2>1. committed' = committed /\ Loaded(cwd)
    BY <1>2 DEF getChildren, ghosts
  <2> QED BY <1>1, <1>2, <2>1, LoadFacts DEF getChildren, ghosts, TypeOK
<1>3. CASE getChildrenFails
  <2> DEFINE ino == nodes[cwd].ino
  <2>1. ino \in INodes
    BY <1>1, NodeFacts
  <2>2. /\ nodes[cwd].kids = <<>> /\ addChildren(cwd, <<Entry(".", ino)>>, TRUE)
        /\ committed' = [committed EXCEPT ![ino] = <<>>]
    BY <1>3 DEF getChildrenFails
  <2> HIDE DEF ino
  <2>3. <<Entry(".", ino)>> \in Seq(Entries) /\ <<Entry(".", ino)>> # <<>>
    BY <2>1 DEF Entry, Entries
  <2>4. /\ committed' \in [INodes -> Seq(Entries)]
        /\ \A i \in INodes : committed'[i] \in {committed[i], <<>>}
    BY <2>1, <2>2 DEF TypeOK
  <2> QED BY <1>1, <1>3, <2>2, <2>3, <2>4 DEF getChildrenFails
<1> QED BY <1>2, <1>3 DEF Reads

(* A flush leaves the lists and the texts as they are. *)
LEMMA FlushKeepsTexts ==
  ASSUME TypeOK, Heap, flushDirectoryCache
  PROVE  /\ Heap' /\ DOMAIN nodes' = DOMAIN nodes
         /\ \A d \in DOMAIN nodes : Text(d)' = Text(d) /\ (Unsaved(d)' => Unsaved(d))
<1>1. /\ DOMAIN nodes' = DOMAIN nodes
      /\ \A k \in DOMAIN nodes :
           /\ nodes'[k].ino = nodes[k].ino /\ nodes'[k].name = nodes[k].name
           /\ nodes'[k].kids = nodes[k].kids
           /\ nodes'[k].dirty => nodes[k].dirty
  BY FlushFacts
<1>2. Ordered' /\ OneParent' /\ OneRoot'
  BY <1>1 DEF Heap, Ordered, OneParent, OneRoot
<1>3. Reachable'
  <2>1. ASSUME NEW S \in SUBSET DOMAIN nodes, Closed(S)' PROVE Closed(S)
    BY <1>1, <2>1 DEF Closed
  <2> QED BY <1>1, <2>1 DEF Heap, Reachable
<1>4. ASSUME NEW d \in DOMAIN nodes
      PROVE  Text(d)' = Text(d) /\ (Unsaved(d)' => Unsaved(d))
  <2>1. nodes[d].kids \in Seq(DOMAIN nodes)
    BY NodeFacts
  <2>2. \A j \in DOMAIN nodes[d].kids : nodes[d].kids[j] \in DOMAIN nodes
    BY <2>1
  <2>3. Text(d)' = Text(d)
    BY <1>1, <2>2 DEF Text
  <2>4. Unsaved(d)' => Unsaved(d)
    BY <1>1, <2>2 DEF Unsaved, Range
  <2> QED BY <2>3, <2>4
<1> QED BY <1>1, <1>2, <1>3, <1>4 DEF Heap

(* mkdir, of a name that a user may give. *)
LEMMA MkdirFacts ==
  ASSUME TypeOK, Control, NEW name \in Names, mkdir(name)
  PROVE  /\ cwd \in DOMAIN nodes /\ nodes[cwd].kids # <<>>
         /\ \E ino \in INodes :
              /\ allocateINode(ino)
              /\ "when full" \in UserCommands \/ ~alloc[ino]
              /\ alloc' = [alloc EXCEPT ![ino] = TRUE]
              /\ type' = [type EXCEPT ![ino] = TRUE]
              /\ made' = [made EXCEPT ![nodes[cwd].ino] = Append(@, Entry(name, ino))]
              /\ <<Entry(name, ino)>> \in Seq(Entries) /\ Entry(name, ino) \in Entries
              /\ addChildren(cwd, <<Entry(name, ino)>>, FALSE)
<1>1. cwd \in DOMAIN nodes /\ nodes[cwd].kids # <<>>
  BY DEF TypeOK, Control, mkdir, Return, Served
<1>2. \A ino \in INodes : Entry(name, ino) \in Entries
  BY DEF Entry, Entries
<1>3. \A e \in Entries : <<e>> \in Seq(Entries)
  OBVIOUS
<1> QED BY <1>1, <1>2, <1>3 DEF mkdir

-----------------------------------------------------------------------------
(* Every step keeps the invariant, one part of it after the other.         *)

(* A flush writes texts of entries, in blocks that are free. *)
LEMMA FlushType ==
  ASSUME TypeOK, Control, Heap, flushDirectoryCache
  PROVE  TypeOK'
<1> DEFINE d == Head(todo)
           ino == nodes[d].ino
           got == Allocated(ino)
<1>1. /\ d \in DOMAIN nodes /\ nodes' \in Seq(Nodes) /\ DOMAIN nodes' = DOMAIN nodes
      /\ \A k \in DOMAIN nodes : nodes'[k].kids = nodes[k].kids
      /\ todo' \in Seq(DOMAIN nodes)
  BY FlushFacts
<1>2. \A k \in DOMAIN nodes' : nodes'[k].kids \in Seq(DOMAIN nodes')
  BY <1>1, NodeFacts
<1>3. ino \in INodes /\ Text(d) \in Seq(Entries)
  BY <1>1, NodeFacts, TextFacts
<1>4. /\ blk[ino] \in 0 .. BlocksPerDirectory /\ free \in 0 .. DataBlocks
      /\ BlocksPerDirectory = 2 /\ DataBlocks \in Nat
  BY <1>3, DirectoryAssumption DEF TypeOK, BlocksPerDirectory
<1>5. got \in 0 .. 2 /\ blk[ino] + got \in 0 .. BlocksPerDirectory /\ free - got \in 0 .. DataBlocks
  BY <1>4 DEF Allocated
<1>6. /\ blk' \in [INodes -> 0 .. BlocksPerDirectory]
      /\ free' \in 0 .. DataBlocks
      /\ data' \in [INodes -> Seq(Entries)]
  <2>1. CASE UNCHANGED <<blk, free, data>>
    BY <2>1 DEF TypeOK
  <2>2. CASE iNodeWrite(d)
    <3>0. /\ blk' = [blk EXCEPT ![ino] = @ + got] /\ free' = free - got
          /\ data' = [data EXCEPT ![ino] = IF blk[ino] + got > 0 THEN Text(d) ELSE @]
      BY <2>2 DEF iNodeWrite
    <3>1. data' \in [INodes -> Seq(Entries)]
      BY <1>3, <3>0 DEF TypeOK
    <3>2. blk' = [blk EXCEPT ![ino] = blk[ino] + got]
      BY <3>0
    <3> HIDE DEF ino, got
    <3>3. blk' \in [INodes -> 0 .. BlocksPerDirectory] /\ free' \in 0 .. DataBlocks
      BY <1>3, <1>5, <3>0, <3>2 DEF TypeOK
    <3> QED BY <3>1, <3>3
  <2>3. CASE iNodeWriteFails(d)
    <3> DEFINE first == IF blk[ino] = 0 THEN 1 ELSE 0
    <3>1. /\ blk' = [blk EXCEPT ![ino] = @ + first] /\ free' = free - first
          /\ first <= free /\ data' = data
      BY <2>3 DEF iNodeWriteFails
    <3>2. blk[ino] + first \in 0 .. BlocksPerDirectory /\ free - first \in 0 .. DataBlocks
      BY <1>4, <3>1
    <3> HIDE DEF ino, first
    <3> QED BY <1>3, <3>1, <3>2 DEF TypeOK
  <2> QED BY <2>1, <2>2, <2>3 DEF flushDirectoryCache, writeDirectory
<1>7. UNCHANGED <<dAlloc, dType, dBlk, dFree, alloc, type, cwd, phase, next, ghosts>>
  BY DEF flushDirectoryCache
<1> QED BY <1>1, <1>2, <1>6, <1>7 DEF TypeOK, ghosts

(* addChild of entries. *)
LEMMA GrowthType ==
  ASSUME TypeOK, NEW d \in DOMAIN nodes, NEW entries \in Seq(Entries),
         NEW literal \in BOOLEAN, addChildren(d, entries, literal)
  PROVE  /\ nodes' \in Seq(Nodes) /\ DOMAIN nodes \subseteq DOMAIN nodes'
         /\ \A k \in DOMAIN nodes' : nodes'[k].kids \in Seq(DOMAIN nodes')
  BY AddChildrenFacts, KidsStay

LEMMA getChildrenType ==
  ASSUME TypeOK, Reads
  PROVE  TypeOK'
<1>1. cwd \in DOMAIN nodes
  BY ReadFacts
<1>2. /\ nodes' \in Seq(Nodes) /\ DOMAIN nodes \subseteq DOMAIN nodes'
      /\ \A k \in DOMAIN nodes' : nodes'[k].kids \in Seq(DOMAIN nodes')
  <2>1. CASE nodes' = nodes
    BY <2>1 DEF TypeOK
  <2>2. CASE \E entries \in Seq(Entries), literal \in BOOLEAN : addChildren(cwd, entries, literal)
    BY <1>1, <2>2, GrowthType
  <2> QED BY <2>1, <2>2, ReadFacts
<1>3. todo' \in Seq(DOMAIN nodes')
  <2>1. todo' \in Seq(DOMAIN nodes)
    BY <1>1, SiblingFacts, ReadFacts
  <2> QED BY <1>2, <2>1
<1>4. /\ cwd' \in {Null} \cup DOMAIN nodes'
      /\ phase' = "getChildren" /\ UNCHANGED <<device, volume, next, made>>
      /\ committed' \in [INodes -> Seq(Entries)]
  BY <1>1, <1>2, ReadFacts
<1> QED BY <1>2, <1>3, <1>4 DEF TypeOK, device, volume

LEMMA mkdirType ==
  ASSUME TypeOK, Control, NEW name \in Names, mkdir(name)
  PROVE  TypeOK'
<1>1. PICK ino \in INodes :
        /\ alloc' = [alloc EXCEPT ![ino] = TRUE]
        /\ type' = [type EXCEPT ![ino] = TRUE]
        /\ made' = [made EXCEPT ![nodes[cwd].ino] = Append(@, Entry(name, ino))]
        /\ Entry(name, ino) \in Entries /\ <<Entry(name, ino)>> \in Seq(Entries)
        /\ addChildren(cwd, <<Entry(name, ino)>>, FALSE)
  BY MkdirFacts
<1>2. cwd \in DOMAIN nodes
  BY MkdirFacts
<1>3. /\ nodes' \in Seq(Nodes) /\ DOMAIN nodes \subseteq DOMAIN nodes'
      /\ \A k \in DOMAIN nodes' : nodes'[k].kids \in Seq(DOMAIN nodes')
  BY <1>1, <1>2, GrowthType
<1>4. alloc' \in [INodes -> BOOLEAN] /\ type' \in [INodes -> BOOLEAN]
  BY <1>1 DEF TypeOK
<1>5. made' \in [INodes -> Seq(Entries)]
  <2>1. ASSUME NEW s \in Seq(Entries) PROVE Append(s, Entry(name, ino)) \in Seq(Entries)
    BY <1>1
  <2> QED BY <1>1, <2>1 DEF TypeOK
<1>6. todo = <<>> /\ todo' = <<>> /\ phase' = "idle" /\ cwd' = cwd
  BY DEF mkdir, Return, Served
<1>7. todo' \in Seq(DOMAIN nodes') /\ cwd' \in {Null} \cup DOMAIN nodes'
  BY <1>2, <1>3, <1>6
<1>8. UNCHANGED <<device, blk, free, next, committed>>
  BY DEF mkdir
<1> QED BY <1>3, <1>4, <1>5, <1>6, <1>7, <1>8 DEF TypeOK, device

(* What a mount finds on the device. *)
LEMMA SavedType ==
  ASSUME TypeOK
  PROVE  \A i \in INodes : Saved(i) \in Seq(Entries)
  BY DEF TypeOK, Saved

LEMMA DropMemoryType ==
  ASSUME TypeOK, DropMemory, UNCHANGED device,
         made' \in [INodes -> Seq(Entries)], committed' \in [INodes -> Seq(Entries)]
  PROVE  TypeOK'
<1>1. nodes' = <<>> /\ todo' = <<>> /\ cwd' = Null /\ phase' = "idle" /\ next' = 0
  BY DEF DropMemory
<1>2. /\ nodes' \in Seq(Nodes) /\ todo' \in Seq(DOMAIN nodes')
      /\ \A k \in DOMAIN nodes' : nodes'[k].kids \in Seq(DOMAIN nodes')
  BY <1>1
<1> QED BY <1>1, <1>2 DEF TypeOK, DropMemory, device

LEMMA CrashType ==
  ASSUME TypeOK, Crash \/ CloseWithError
  PROVE  TypeOK'
<1>1. ASSUME NEW s \in Seq(Entries) PROVE (IF s = <<>> THEN <<>> ELSE Tail(s)) \in Seq(Entries)
  BY HeadFacts
<1>2. made' \in [INodes -> Seq(Entries)]
  BY <1>1, SavedType DEF Crash, CloseWithError, OnlyTheDevice
<1> QED BY <1>2, DropMemoryType DEF Crash, CloseWithError, TypeOK

LEMMA MountType ==
  ASSUME TypeOK, Mount
  PROVE  TypeOK'
<1>1. nodes' = <<NewNode("/", Root, FALSE)>> /\ todo' = todo /\ cwd' = RootDir /\ todo \in Seq({})
  BY DEF Mount, Mounted, TypeOK
<1>2. NewNode("/", Root, FALSE) \in Nodes /\ NewNode("/", Root, FALSE).kids = <<>>
  BY DirectoryAssumption DEF NewNode, Nodes, Root, INodes
<1>3. nodes' \in Seq(Nodes) /\ DOMAIN nodes' = {1} /\ nodes'[1].kids = <<>>
  <2>1. ASSUME NEW x \in Nodes PROVE <<x>> \in Seq(Nodes) /\ DOMAIN <<x>> = {1} /\ <<x>>[1] = x
    OBVIOUS
  <2> QED BY <1>1, <1>2, <2>1
<1>4. todo' \in Seq(DOMAIN nodes') /\ \A k \in DOMAIN nodes' : nodes'[k].kids \in Seq(DOMAIN nodes')
  <2>1. ASSUME NEW S, NEW t \in Seq({}) PROVE t \in Seq(S) /\ <<>> \in Seq(S)
    <3>1. Len(t) = 0
      OBVIOUS
    <3> QED BY <3>1
  <2> QED BY <1>1, <1>3, <2>1
<1>5. data' \in [INodes -> Seq(Entries)]
  BY SavedType DEF Mount
<1> QED BY <1>1, <1>3, <1>4, <1>5 DEF TypeOK, Mount, RootDir, ghosts

LEMMA TypeStep ==
  ASSUME TypeOK, Control, Heap, [Next]_vars
  PROVE  TypeOK'
<1>1. CASE Mount
  BY <1>1, MountType
<1>2. CASE getChildren \/ getChildrenFails
  BY <1>2, getChildrenType DEF Reads
<1>3. CASE flushDirectoryCache
  BY <1>3, FlushType
<1>4. CASE ls
  BY <1>4 DEF TypeOK, ls, Return, Served, device, volume, ghosts
<1>5. CASE cdUp
  BY <1>5 DEF TypeOK, cdUp, Return, Served, device, volume, ghosts
<1>6. CASE Unmount
  <2>1. RootDir \in DOMAIN nodes
    BY <1>6, NodeFacts DEF Unmount, Ready, Mounted, RootDir, TypeOK
  <2> QED BY <1>6, <2>1 DEF TypeOK, Unmount, device, volume, ghosts
<1>7. CASE WriteBlockMap
  BY <1>7 DEF TypeOK, WriteBlockMap, volume, ghosts
<1>8. CASE WriteINodeMap
  BY <1>8 DEF TypeOK, WriteINodeMap, volume, ghosts
<1>17. CASE WriteINodeMapFails
  BY <1>17 DEF TypeOK, WriteINodeMapFails, device, volume, ghosts
<1>9. CASE CloseBlockDevice
  <2>1. committed' \in [INodes -> Seq(Entries)]
    BY <1>9, SavedType DEF CloseBlockDevice
  <2> QED BY <1>9, <2>1, DropMemoryType DEF CloseBlockDevice, TypeOK
<1>10. CASE Crash \/ CloseWithError
  BY <1>10, CrashType
<1>11. CASE allocBlock
  BY <1>11, DirectoryAssumption DEF TypeOK, allocBlock, device, ghosts
<1>12. CASE allocINode
  BY <1>12 DEF TypeOK, allocINode, device, ghosts
<1>13. CASE \E i \in INodes : freeINode(i)
  BY <1>13 DEF TypeOK, freeINode, device, ghosts
<1>14. CASE \E name \in Names : mkdir(name)
  BY <1>14, mkdirType
<1>15. CASE \E name \in Names \cup {"."} : cd(name)
  <2>1. PICK name \in Names \cup {"."} : cd(name)
    BY <1>15
  <2>2. cwd \in DOMAIN nodes
    BY <2>1 DEF TypeOK, Control, cd, Return, Served
  <2>3. cwd' \in DOMAIN nodes
    <3>1. PICK j \in DOMAIN nodes[cwd].kids : cwd' = nodes[cwd].kids[j]
      BY <2>1 DEF cd, Found
    <3>2. nodes[cwd].kids \in Seq(DOMAIN nodes)
      BY <2>2, NodeFacts
    <3> QED BY <3>1, <3>2
  <2> QED BY <2>1, <2>3 DEF TypeOK, cd, Return, Served, device, volume, ghosts
<1>16. CASE UNCHANGED vars
  BY <1>16 DEF TypeOK, vars, device, volume, ghosts
<1> QED
  BY <1>1, <1>2, <1>3, <1>4, <1>5, <1>6, <1>7, <1>8, <1>9, <1>10, <1>11, <1>12,
     <1>13, <1>14, <1>15, <1>16, <1>17 DEF Next

(* Nothing but these five steps changes the cache. *)
LEMMA NodesStay ==
  ASSUME [Next]_vars
  PROVE  \/ nodes' = nodes \/ nodes' = <<>> \/ Mount \/ Reads \/ flushDirectoryCache
         \/ \E name \in Names : mkdir(name)
  BY DEF Next, Reads, vars, ls, cdUp, Unmount, WriteBlockMap, WriteINodeMap,
         WriteINodeMapFails, CloseBlockDevice, CloseWithError, Crash, DropMemory, allocBlock, allocINode, freeINode, cd

LEMMA ControlStep ==
  ASSUME TypeOK, Control, Heap, [Next]_vars
  PROVE  Control'
<1>1. CASE Mount
  BY <1>1 DEF Control, Mount, Mounted
<1>2. CASE Reads
  <2>1. cwd \in DOMAIN nodes
    BY <1>2, ReadFacts
  <2>2. nodes'[cwd].kids # <<>> /\ nodes' # <<>>
    <3>1. CASE nodes[cwd].kids # <<>> /\ nodes' = nodes
      BY <1>2, <3>1, ReadFacts DEF Ready, Mounted
    <3>2. CASE \E entries \in Seq(Entries), literal \in BOOLEAN :
                 entries # <<>> /\ addChildren(cwd, entries, literal)
      <4>1. PICK entries \in Seq(Entries), literal \in BOOLEAN :
                   entries # <<>> /\ addChildren(cwd, entries, literal)
        BY <3>2
      <4>2. Len(entries) \in Nat \ {0}
        BY <4>1
      <4>3. Len(nodes'[cwd].kids) = Len(nodes[cwd].kids) + Len(entries)
            /\ Len(nodes') = Len(nodes) + Len(entries)
        BY <2>1, <4>1, AddChildrenFacts
      <4>4. Len(nodes[cwd].kids) \in Nat /\ Len(nodes) \in Nat
        BY <2>1, NodeFacts
      <4> QED BY <4>2, <4>3, <4>4
    <3> QED BY <1>2, <3>1, <3>2, ReadFacts
  <2>3. phase' = "getChildren" /\ cwd' = cwd /\ cwd # Null
    BY <1>2, <2>1, ReadFacts, NodeFacts DEF Null
  <2> QED BY <2>2, <2>3 DEF Control, Mounted
<1>3. CASE flushDirectoryCache
  <2>1. DOMAIN nodes' = DOMAIN nodes /\ \A k \in DOMAIN nodes : nodes'[k].kids = nodes[k].kids
    BY <1>3, FlushFacts
  <2>2. todo # <<>> /\ cwd' = cwd /\ phase' = phase /\ nodes # <<>>
    BY <1>3 DEF flushDirectoryCache, Control, Mounted
  <2>3. cwd # Null => cwd \in DOMAIN nodes
    BY DEF TypeOK
  <2>4. nodes' # <<>>
    <3>1. 1 \in DOMAIN nodes
      BY <2>2, NodeFacts DEF TypeOK
    <3> QED BY <2>1, <3>1
  <2> QED BY <2>1, <2>2, <2>3, <2>4 DEF Control, Mounted
<1>4. CASE \E name \in Names : mkdir(name)
  BY <1>4 DEF Control, mkdir, Return, Served
<1>5. CASE ls \/ cdUp \/ \E name \in Names \cup {"."} : cd(name)
  BY <1>5 DEF Control, ls, cdUp, cd, Return, Served
<1>6. CASE Unmount \/ WriteBlockMap \/ WriteINodeMap \/ WriteINodeMapFails
  BY <1>6 DEF Control, Unmount, WriteBlockMap, WriteINodeMap, WriteINodeMapFails, Ready, Mounted
<1>7. CASE CloseBlockDevice \/ CloseWithError \/ Crash
  BY <1>7 DEF Control, CloseBlockDevice, CloseWithError, Crash, DropMemory
<1>8. CASE allocBlock \/ allocINode \/ \E i \in INodes : freeINode(i)
  BY <1>8 DEF Control, Mounted, allocBlock, allocINode, freeINode
<1>9. CASE UNCHANGED vars
  BY <1>9 DEF Control, Mounted, vars
<1> QED
  BY <1>1, <1>2, <1>3, <1>4, <1>5, <1>6, <1>7, <1>8, <1>9 DEF Next, Reads

LEMMA HeapStep ==
  ASSUME TypeOK, Control, Heap, [Next]_vars
  PROVE  Heap'
<1>1. CASE nodes' = nodes
  BY <1>1 DEF Heap, Ordered, OneParent, Reachable, Closed, OneRoot
<1>2. CASE nodes' = <<>>
  BY <1>2 DEF Heap, Ordered, OneParent, Reachable, OneRoot
<1>3. CASE Mount
  <2>1. DOMAIN nodes' = {RootDir} /\ nodes'[RootDir] = NewNode("/", Root, FALSE)
    BY <1>3 DEF Mount, RootDir
  <2>2. nodes'[RootDir].kids = <<>>
    BY <2>1 DEF NewNode
  <2>3. Ordered' /\ OneParent' /\ OneRoot'
    <3>1. \A p \in DOMAIN nodes' : DOMAIN nodes'[p].kids = {}
      <4>1. \A x : x = <<>> => DOMAIN x = {}
        OBVIOUS
      <4>2. DOMAIN nodes'[RootDir].kids = {}
        BY <2>2, <4>1
      <4> QED BY <2>1, <4>2
    <3>2. Ordered' /\ OneParent'
      BY <3>1 DEF Ordered, OneParent
    <3>3. OneRoot'
      BY <2>1 DEF OneRoot
    <3> QED BY <3>2, <3>3
  <2>4. Reachable'
    BY <2>1 DEF Reachable
  <2> QED BY <2>3, <2>4 DEF Heap
<1>4. CASE Reads
  <2>1. cwd \in DOMAIN nodes
    BY <1>4, ReadFacts
  <2>2. ASSUME NEW entries \in Seq(Entries), NEW literal \in BOOLEAN,
               addChildren(cwd, entries, literal)
        PROVE  Heap'
    BY <2>1, <2>2, HeapGrows
  <2> QED BY <1>1, <1>4, <2>2, ReadFacts
<1>5. CASE flushDirectoryCache
  BY <1>5, FlushKeepsTexts
<1>6. CASE \E name \in Names : mkdir(name)
  BY <1>6, MkdirFacts, HeapGrows
<1> QED
  BY <1>1, <1>2, <1>3, <1>4, <1>5, <1>6, NodesStay

(* When a flush has come to its end, nothing is unsaved. *)
LEMMA FlushDone ==
  ASSUME WayOfFlush, phase # "idle", todo = <<>>
  PROVE  \A d \in DOMAIN nodes : ~Unsaved(d)
<1>1. Range(todo) \subseteq {} /\ Closed({})
  BY DEF Range, Closed
<1> QED BY <1>1 DEF WayOfFlush

(* In a tree, an entry is not below itself, and not below its siblings. *)
LEMMA NotItsOwnChild ==
  ASSUME TypeOK, Heap, NEW d \in DOMAIN nodes
  PROVE  d \notin Range(nodes[d].kids)
<1>1. d \in Nat
  BY NodeFacts
<1> QED BY <1>1 DEF Heap, Ordered, Range

LEMMA ParentsAreEqual ==
  ASSUME Heap, NEW p \in DOMAIN nodes, NEW q \in DOMAIN nodes,
         NEW k \in Range(nodes[p].kids) \cap Range(nodes[q].kids)
  PROVE  p = q
  BY DEF Heap, OneParent, Range

(* After addChild, d is the only directory that can be newly unsaved, and  *)
(* what was unsaved still is.                                              *)
LEMMA UnsavedGrows ==
  ASSUME TypeOK, NEW d \in DOMAIN nodes, NEW entries \in Seq(Entries),
         NEW literal \in BOOLEAN, addChildren(d, entries, literal)
  PROVE  /\ \A e \in DOMAIN nodes : Unsaved(e) => Unsaved(e)'
         /\ \A e \in DOMAIN nodes' : Unsaved(e)' => e = d \/ (e \in DOMAIN nodes /\ Unsaved(e))
<1>1. ASSUME NEW e \in DOMAIN nodes PROVE Range(nodes[e].kids) \subseteq DOMAIN nodes
  <2>1. nodes[e].kids \in Seq(DOMAIN nodes)
    BY NodeFacts
  <2> QED BY <2>1 DEF Range
<1>2. ASSUME NEW e \in DOMAIN nodes, Unsaved(e) PROVE Unsaved(e)'
  <2>1. PICK k \in Range(nodes[e].kids) : nodes[k].dirty
    BY <1>2 DEF Unsaved
  <2>2. k \in DOMAIN nodes /\ k \in Range(nodes'[e].kids)
    BY <1>1, KidsStay
  <2>3. nodes'[k].dirty
    BY <2>1, <2>2, KidsStay
  <2> QED BY <2>2, <2>3 DEF Unsaved
<1>3. ASSUME NEW e \in DOMAIN nodes', e # d, Unsaved(e)' PROVE e \in DOMAIN nodes /\ Unsaved(e)
  <2>1. PICK k \in Range(nodes'[e].kids) : nodes'[k].dirty
    BY <1>3 DEF Unsaved
  <2>2. e \in DOMAIN nodes
    <3> SUFFICES ASSUME e \notin DOMAIN nodes PROVE FALSE
      OBVIOUS
    <3>1. PICK j \in 1 .. Len(entries) : nodes'[e] = NewNode(entries[j].name, entries[j].ino, literal)
      BY KidsStay
    <3>2. nodes'[e].kids = <<>>
      BY <3>1 DEF NewNode
    <3> QED BY <2>1, <3>2 DEF Range
  <2>3. nodes'[e] = nodes[e]
    BY <1>3, <2>2, AddChildrenFacts
  <2>4. k \in Range(nodes[e].kids) /\ k \in DOMAIN nodes
    BY <1>1, <2>1, <2>2, <2>3
  <2>5. nodes[k].dirty
    BY <2>1, <2>4, KidsStay
  <2> QED BY <2>2, <2>4, <2>5 DEF Unsaved
<1> QED BY <1>2, <1>3

(* The flush of getChildren begins at the current directory, and with none *)
(* of its entries.                                                         *)
LEMMA getChildrenFlushes ==
  ASSUME TypeOK, Control, Heap, WayOfFlush, Reads, TypeOK', Heap'
  PROVE  WayOfFlush'
<1>1. cwd \in DOMAIN nodes /\ cwd' = cwd /\ todo' = WithSiblings(cwd)
  BY ReadFacts
<1>2. /\ DOMAIN nodes \subseteq DOMAIN nodes'
      /\ \A p \in DOMAIN nodes : Range(nodes[p].kids) \subseteq Range(nodes'[p].kids)
      /\ \A e \in DOMAIN nodes' : Unsaved(e)' => e = cwd \/ (e \in DOMAIN nodes /\ Unsaved(e))
  <2>1. CASE nodes' = nodes
    BY <2>1 DEF Unsaved
  <2>2. CASE \E entries \in Seq(Entries), literal \in BOOLEAN : addChildren(cwd, entries, literal)
    BY <1>1, <2>2, KidsStay, UnsavedGrows
  <2> QED BY <2>1, <2>2, ReadFacts
<1>3. cwd \in Range(todo')
  BY <1>1, SiblingFacts
<1>4. Range(todo') \cap Range(nodes'[cwd].kids) = {}
  <2> SUFFICES ASSUME NEW k \in Range(todo'), k \in Range(nodes'[cwd].kids) PROVE FALSE
    OBVIOUS
  <2>1. cwd \in DOMAIN nodes' /\ cwd \notin Range(nodes'[cwd].kids)
    <3>1. cwd \in DOMAIN nodes'
      BY <1>1, <1>2
    <3>2. nodes'[cwd].kids \in Seq(DOMAIN nodes')
      BY <3>1 DEF TypeOK
    <3>3. cwd \in Nat
      BY <1>1, NodeFacts
    <3> QED BY <3>1, <3>2, <3>3 DEF Heap, Ordered, Range
  <2>2. k # cwd
    BY <2>1
  <2>3. PICK p \in DOMAIN nodes : {cwd, k} \subseteq Range(nodes[p].kids)
    BY <1>1, <2>2, SiblingFacts
  <2>4. p \in DOMAIN nodes' /\ {cwd, k} \subseteq Range(nodes'[p].kids)
    BY <1>2, <2>3
  <2>5. p = cwd
    BY <2>1, <2>4 DEF Heap, OneParent, Range
  <2> QED BY <2>1, <2>4, <2>5
<1>5. \A e \in DOMAIN nodes' : Unsaved(e)' => e = cwd
  BY <1>2 DEF WayOfFlush
<1> QED BY <1>1, <1>3, <1>4, <1>5 DEF WayOfFlush

(* A call of flushDirectoryCache writes the directory it was called for,   *)
(* or its children are next.                                               *)
LEMMA FlushGoesOn ==
  ASSUME TypeOK, Control, Heap, WayOfFlush, flushDirectoryCache
  PROVE  WayOfFlush'
<1>0. Head(todo) \in DOMAIN nodes
  BY FlushFacts
<1> PICK h \in DOMAIN nodes : h = Head(todo)
  BY <1>0
<1>1. /\ h \in DOMAIN nodes /\ h \in Range(todo)
      /\ DOMAIN nodes' = DOMAIN nodes
      /\ \A k \in DOMAIN nodes : nodes'[k].kids = nodes[k].kids
      /\ \A k \in Range(nodes[h].kids) : ~nodes'[k].dirty
      /\ Range(todo') \subseteq Range(todo) \cup Range(nodes[h].kids)
      /\ ~Unsaved(h) => Range(todo') \cup {h} = Range(todo) \cup Range(nodes[h].kids) \cup {h}
  BY FlushFacts
<1>2. phase # "idle" /\ phase' = phase /\ cwd' = cwd
  BY DEF Control, flushDirectoryCache
<1> SUFFICES ASSUME NEW d \in DOMAIN nodes, Unsaved(d)'
             PROVE  /\ d = cwd
                    /\ Range(todo') \cap Range(nodes[d].kids) = {}
                    /\ \A S \in SUBSET DOMAIN nodes :
                         Range(todo') \subseteq S /\ Closed(S) => d \in S
  <2>1. \A S \in SUBSET DOMAIN nodes : Closed(S)' => Closed(S)
    BY <1>1 DEF Closed
  <2> QED BY <1>1, <1>2, <2>1 DEF WayOfFlush
<1>3. Unsaved(d)
  BY FlushKeepsTexts
<1>4. d = cwd /\ Range(todo) \cap Range(nodes[d].kids) = {}
  BY <1>3 DEF WayOfFlush
<1>5. ~Unsaved(h)'
  BY <1>1 DEF Unsaved
<1>6. d # h
  BY <1>5
<1>7. ~Unsaved(h)
  BY <1>1, <1>4, <1>6 DEF WayOfFlush
<1>8. Range(todo') \cap Range(nodes[d].kids) = {}
  BY <1>1, <1>4, <1>6, ParentsAreEqual
<1>9. ASSUME NEW S \in SUBSET DOMAIN nodes, Range(todo') \subseteq S, Closed(S)
      PROVE  d \in S
  <2> DEFINE T == S \cup {h}
  <2>1. Range(todo) \subseteq T /\ Range(nodes[h].kids) \subseteq T
    BY <1>1, <1>7, <1>9
  <2>2. Closed(T)
    BY <1>9, <2>1 DEF Closed
  <2>3. T \in SUBSET DOMAIN nodes
    BY <1>1
  <2>4. d \in T
    BY <1>2, <1>3, <2>1, <2>2, <2>3 DEF WayOfFlush
  <2> QED BY <1>6, <2>4
<1> QED BY <1>4, <1>8, <1>9

(* It saves what is in the directory it was called for, and nothing else. *)
LEMMA FlushSaves ==
  ASSUME TypeOK, Heap, WayOfFlush, flushDirectoryCache,
         NEW d \in DOMAIN nodes, Unsaved(d), ~Unsaved(d)'
  PROVE  d = Head(todo)
<1>1. Head(todo) \in DOMAIN nodes /\ Head(todo) \in Range(todo)
  BY FlushFacts
<1>2. PICK k \in Range(nodes[d].kids) : nodes[k].dirty
  BY DEF Unsaved
<1>3. k \in DOMAIN nodes
  <2>1. nodes[d].kids \in Seq(DOMAIN nodes)
    BY NodeFacts
  <2> QED BY <2>1 DEF Range
<1>4. ~nodes'[k].dirty
  <2>1. nodes'[d].kids = nodes[d].kids
    BY FlushFacts
  <2> QED BY <1>2, <2>1 DEF Unsaved
<1>5. k = Head(todo) \/ k \in Range(nodes[Head(todo)].kids)
  BY <1>2, <1>3, <1>4, FlushFacts
<1>6. k \notin Range(todo)
  BY <1>2 DEF WayOfFlush
<1> QED BY <1>1, <1>2, <1>5, <1>6, ParentsAreEqual

(* The flush of unmount begins at the root, above everything. *)
LEMMA UnmountFlushes ==
  ASSUME TypeOK, Heap, WayOfFlush, Unmount
  PROVE  WayOfFlush'
<1>1. nodes' = nodes /\ cwd' = cwd /\ todo' = <<RootDir>>
  BY DEF Unmount
<1>2. Range(todo') = {RootDir}
  BY <1>1 DEF Range
<1>3. \A d \in DOMAIN nodes : RootDir \notin Range(nodes[d].kids)
  BY NodeFacts DEF Heap, Ordered, Range, RootDir
<1>4. \A S \in SUBSET DOMAIN nodes : RootDir \in S /\ Closed(S) => S = DOMAIN nodes
  BY DEF Heap, Reachable
<1>5. \A d \in DOMAIN nodes : Unsaved(d)' <=> Unsaved(d)
  BY <1>1 DEF Unsaved
<1>6. \A S : Closed(S)' <=> Closed(S)
  BY <1>1 DEF Closed
<1> QED BY <1>1, <1>2, <1>3, <1>4, <1>5, <1>6 DEF WayOfFlush

LEMMA WayOfFlushStep ==
  ASSUME TypeOK, Control, Heap, WayOfFlush, [Next]_vars, TypeOK', Heap'
  PROVE  WayOfFlush'
<1>1. CASE nodes' = <<>>
  BY <1>1 DEF WayOfFlush
<1>2. CASE Mount
  <2>1. DOMAIN nodes' = {1} /\ nodes'[1].kids = <<>>
    BY <1>2 DEF Mount, NewNode
  <2> QED BY <2>1 DEF WayOfFlush, Unsaved, Range
<1>3. CASE getChildren \/ getChildrenFails
  BY <1>3, getChildrenFlushes DEF Reads
<1>4. CASE flushDirectoryCache
  BY <1>4, FlushGoesOn
<1>5. CASE \E name \in Names : mkdir(name)
  <2>1. phase # "idle" /\ todo = <<>> /\ phase' = "idle" /\ todo' = <<>> /\ cwd' = cwd
    BY <1>5 DEF mkdir, Return, Served
  <2>2. \A d \in DOMAIN nodes : ~Unsaved(d)
    BY <2>1, FlushDone
  <2>3. \A d \in DOMAIN nodes' : Unsaved(d)' => d = cwd
    BY <1>5, <2>2, MkdirFacts, UnsavedGrows
  <2> QED BY <2>1, <2>3 DEF WayOfFlush, Range
<1>6. CASE Unmount
  BY <1>6, UnmountFlushes
<1>7. CASE phase # "idle" /\ todo = <<>> /\ nodes' = nodes
  <2>1. \A d \in DOMAIN nodes : ~Unsaved(d)
    BY <1>7, FlushDone
  <2> QED BY <1>7, <2>1 DEF WayOfFlush, Unsaved
<1>8. CASE UNCHANGED <<nodes, todo, phase, cwd>>
  BY <1>8 DEF WayOfFlush, Unsaved, Closed
<1>9. CASE ls \/ cdUp \/ (\E name \in Names \cup {"."} : cd(name)) \/ WriteBlockMap
  BY <1>7, <1>9 DEF ls, cdUp, cd, Return, Served, WriteBlockMap
<1>10. CASE WriteINodeMap \/ WriteINodeMapFails
  BY <1>7, <1>10 DEF WriteINodeMap, WriteINodeMapFails, Control
<1>11. CASE CloseBlockDevice \/ CloseWithError \/ Crash
  BY <1>1, <1>11 DEF CloseBlockDevice, CloseWithError, Crash, DropMemory
<1>12. CASE allocBlock \/ allocINode \/ (\E i \in INodes : freeINode(i)) \/ UNCHANGED vars
  BY <1>8, <1>12 DEF allocBlock, allocINode, freeINode, vars
<1> QED
  BY <1>2, <1>3, <1>4, <1>5, <1>6, <1>9, <1>10, <1>11, <1>12 DEF Next

(* What begins with a committed text is not empty when that is not, and    *)
(* goes on beginning with it when entries are added.                       *)
LEMMA PrefixGrows ==
  ASSUME NEW S, NEW s \in Seq(S), NEW t \in Seq(S), NEW u \in Seq(S), IsPrefix(s, t)
  PROVE  IsPrefix(s, t \o u) /\ (s # <<>> => t # <<>>)
<1>1. /\ Len(s) \in Nat /\ Len(t) \in Nat /\ Len(u) \in Nat
      /\ DOMAIN s = 1 .. Len(s) /\ DOMAIN t = 1 .. Len(t)
  OBVIOUS
<1>2. Len(s) <= Len(t) /\ \A j \in DOMAIN s : s[j] = t[j]
  BY PrefixFacts
<1>3. t \o u \in Seq(S) /\ Len(t \o u) = Len(t) + Len(u) /\ \A j \in DOMAIN t : (t \o u)[j] = t[j]
  BY ConcatFacts
<1>4. Len(s) <= Len(t \o u) /\ \A j \in DOMAIN s : s[j] = (t \o u)[j]
  BY <1>1, <1>2, <1>3
<1>5. IsPrefix(s, t \o u)
  BY <1>3, <1>4, PrefixFacts
<1>6. s # <<>> => t # <<>>
  BY <1>1, <1>2
<1> QED BY <1>5, <1>6

LEMMA NothingIsAPrefix ==
  ASSUME NEW S, NEW t \in Seq(S)
  PROVE  IsPrefix(<<>>, t) /\ IsPrefix(t, t)
<1>1. Len(t) \in Nat
  OBVIOUS
<1>2. IsPrefix(<<>>, t)
  <2>1. ASSUME NEW s \in Seq(S), Len(s) = 0 PROVE IsPrefix(s, t)
    <3>1. DOMAIN s = {} /\ Len(s) <= Len(t)
      BY <1>1, <2>1
    <3> QED BY <3>1, PrefixFacts
  <2>2. <<>> \in Seq(S) /\ Len(<<>>) = 0
    OBVIOUS
  <2> QED BY <2>1, <2>2
<1>3. IsPrefix(t, t)
  BY <1>1, PrefixFacts
<1> QED BY <1>2, <1>3

(* getChildren reads what was committed, or more. *)
LEMMA getChildrenGrows ==
  ASSUME TypeOK, Heap, TextsGrow, CommittedIsDurable, getChildren, TypeOK'
  PROVE  TextsGrow'
<1>1. cwd \in DOMAIN nodes /\ Loaded(cwd) /\ committed' = committed /\ Mounted
  BY DEF TypeOK, getChildren, Ready, ghosts
<1> PICK c \in DOMAIN nodes : c = cwd
  BY <1>1
<1>2. CASE nodes' = nodes
  BY <1>1, <1>2 DEF TextsGrow, Text
<1>3. ASSUME NEW entries \in Seq(Entries), NEW literal \in BOOLEAN, nodes[c].kids = <<>>,
             addChildren(c, entries, literal),
             entries = IF iNodeRead(nodes[c].ino) # <<>> THEN iNodeRead(nodes[c].ino)
                       ELSE <<Entry(".", nodes[c].ino)>>
      PROVE  TextsGrow'
  <2> DEFINE ino == nodes[c].ino
             was == committed[ino]
  <2>1. /\ Text(c)' = Text(c) \o entries
        /\ \A e \in DOMAIN nodes : e # c => Text(e)' = Text(e)
        /\ \A e \in DOMAIN nodes' \ DOMAIN nodes : nodes'[e].kids = <<>>
    BY <1>3, TextGrows
  <2>2. Text(c)' = entries
    <3>1. Text(c) = <<>>
      BY <1>3 DEF Text
    <3> QED BY <2>1, <3>1
  <2>3. ino \in INodes /\ was \in Seq(Entries)
    BY NodeFacts DEF TypeOK
  <2>4. IsPrefix(was, entries)
    <3>1. CASE was = <<>>
      BY <2>3, <3>1, NothingIsAPrefix
    <3>2. CASE was # <<>>
      <4>1. blk[ino] > 0 /\ IsPrefix(was, data[ino])
        BY <1>1, <2>3, <3>2 DEF CommittedIsDurable
      <4>2. data[ino] # <<>>
        <5>1. data[ino] \in Seq(Entries)
          BY <2>3 DEF TypeOK
        <5> QED BY <2>3, <3>2, <4>1, <5>1, PrefixGrows
      <4>3. entries = data[ino]
        BY <1>3, <4>1, <4>2 DEF iNodeRead
      <4> QED BY <4>1, <4>3
    <3> QED BY <3>1, <3>2
  <2> SUFFICES ASSUME NEW e \in DOMAIN nodes', nodes'[e].kids # <<>>
               PROVE  IsPrefix(committed[nodes'[e].ino], Text(e)')
    BY <1>1 DEF TextsGrow
  <2>5. e \in DOMAIN nodes /\ nodes'[e].ino = nodes[e].ino
    BY <1>3, <2>1, KidsStay
  <2>6. CASE e = c
    BY <2>2, <2>4, <2>5, <2>6
  <2>7. CASE e # c
    <3>1. nodes'[e] = nodes[e]
      BY <1>3, <2>5, <2>7, AddChildrenFacts
    <3>2. nodes'[e].kids = nodes[e].kids
      BY <3>1
    <3> QED BY <2>1, <2>5, <2>7, <3>2 DEF TextsGrow
  <2> QED BY <2>6, <2>7
<1> QED BY <1>1, <1>2, <1>3, LoadFacts

(* A read that fails leaves nothing to begin with. *)
LEMMA getChildrenFailsGrows ==
  ASSUME TypeOK, Heap, TextsGrow, getChildrenFails, TypeOK'
  PROVE  TextsGrow'
<1>1. cwd \in DOMAIN nodes
  BY ReadFacts DEF Reads
<1> PICK c \in DOMAIN nodes : c = cwd
  BY <1>1
<1> DEFINE ino == nodes[c].ino
           entries == <<Entry(".", ino)>>
<1>2. ino \in INodes
  BY NodeFacts
<1>3. /\ addChildren(c, entries, TRUE)
      /\ committed' = [committed EXCEPT ![ino] = <<>>]
  BY DEF getChildrenFails
<1>4. entries \in Seq(Entries)
  BY <1>2 DEF Entry, Entries
<1> HIDE DEF ino, entries
<1>5. /\ \A e \in DOMAIN nodes : e # c => Text(e)' = Text(e)
      /\ \A e \in DOMAIN nodes' \ DOMAIN nodes : nodes'[e].kids = <<>>
      /\ Heap'
  BY <1>3, <1>4, TextGrows, HeapGrows
<1> SUFFICES ASSUME NEW e \in DOMAIN nodes', nodes'[e].kids # <<>>
             PROVE  IsPrefix(committed'[nodes'[e].ino], Text(e)')
  BY DEF TextsGrow
<1>6. e \in DOMAIN nodes /\ nodes'[e].ino = nodes[e].ino /\ nodes[e].ino \in INodes
  BY <1>3, <1>4, <1>5, KidsStay, NodeFacts
<1>7. CASE nodes[e].ino = ino
  <2>1. committed'[nodes'[e].ino] = <<>>
    BY <1>2, <1>3, <1>6, <1>7 DEF TypeOK
  <2>2. \E t \in Seq(Entries) : t = Text(e)'
    <3> DEFINE u == Text(e)
               E == Entries
    <3>1. u \in Seq(E) /\ entries \in Seq(E)
      BY <1>4, <1>6, TextFacts
    <3>2. Text(e)' = u \/ Text(e)' = u \o entries
      BY <1>3, <1>4, <1>5, <1>6, TextGrows
    <3> HIDE DEF u, E
    <3>3. u \o entries \in Seq(E)
      BY <3>1
    <3> QED BY <3>1, <3>2, <3>3 DEF E
  <2> QED BY <2>1, <2>2, NothingIsAPrefix
<1>8. CASE nodes[e].ino # ino
  <2>1. e # c
    BY <1>8 DEF ino
  <2>2. nodes'[e].kids = nodes[e].kids
    BY <1>3, <1>4, <1>6, <2>1, AddChildrenFacts
  <2>3. committed'[nodes'[e].ino] = committed[nodes[e].ino]
    BY <1>2, <1>3, <1>6, <1>8 DEF TypeOK
  <2> QED BY <1>5, <1>6, <2>1, <2>2, <2>3 DEF TextsGrow
<1> QED BY <1>7, <1>8

(* mkdir adds to a text that was read before. *)
LEMMA mkdirGrows ==
  ASSUME TypeOK, Control, Heap, TextsGrow, NEW name \in Names, mkdir(name), TypeOK'
  PROVE  TextsGrow'
<1>1. cwd \in DOMAIN nodes /\ nodes[cwd].kids # <<>>
  BY MkdirFacts
<1> PICK c \in DOMAIN nodes : c = cwd
  BY <1>1
<1>2. PICK ino \in INodes : /\ <<Entry(name, ino)>> \in Seq(Entries)
                            /\ addChildren(c, <<Entry(name, ino)>>, FALSE)
  BY MkdirFacts
<1> DEFINE entries == <<Entry(name, ino)>>
<1>3. entries \in Seq(Entries) /\ addChildren(c, entries, FALSE)
  BY <1>2
<1> HIDE DEF entries
<1>4. /\ Text(c)' = Text(c) \o entries
      /\ \A e \in DOMAIN nodes : e # c => Text(e)' = Text(e)
      /\ \A e \in DOMAIN nodes' \ DOMAIN nodes : nodes'[e].kids = <<>>
  BY <1>3, TextGrows
<1>5. committed' = committed
  BY DEF mkdir
<1> SUFFICES ASSUME NEW e \in DOMAIN nodes', nodes'[e].kids # <<>>
             PROVE  IsPrefix(committed[nodes'[e].ino], Text(e)')
  BY <1>5 DEF TextsGrow
<1>6. e \in DOMAIN nodes /\ nodes'[e].ino = nodes[e].ino
  BY <1>3, <1>4, KidsStay
<1>7. CASE e = c
  <2>1. IsPrefix(committed[nodes[c].ino], Text(c))
    BY <1>1 DEF TextsGrow
  <2>2. committed[nodes[c].ino] \in Seq(Entries) /\ Text(c) \in Seq(Entries)
    BY NodeFacts, TextFacts DEF TypeOK
  <2> DEFINE s == committed[nodes[c].ino]
             t == Text(c)
             E == Entries
  <2>3. s \in Seq(E) /\ t \in Seq(E) /\ entries \in Seq(E) /\ IsPrefix(s, t)
    BY <1>3, <2>1, <2>2
  <2> HIDE DEF s, t, E
  <2>4. IsPrefix(s, t \o entries)
    BY <2>3, PrefixGrows
  <2> QED BY <1>4, <1>6, <1>7, <2>4 DEF s, t
<1>8. CASE e # c
  <2>1. nodes'[e].kids = nodes[e].kids
    BY <1>3, <1>6, <1>8, AddChildrenFacts
  <2> QED BY <1>4, <1>6, <1>8, <2>1 DEF TextsGrow
<1> QED BY <1>7, <1>8

LEMMA TextsGrowStep ==
  ASSUME TypeOK, Control, Heap, TextsGrow, CommittedIsDurable, [Next]_vars, TypeOK'
  PROVE  TextsGrow'
<1>1. CASE nodes' = <<>>
  BY <1>1 DEF TextsGrow
<1>2. CASE nodes' = nodes /\ committed' = committed
  BY <1>2 DEF TextsGrow, Text
<1>3. CASE Mount
  <2>1. DOMAIN nodes' = {1} /\ nodes'[1].kids = <<>>
    BY <1>3 DEF Mount, NewNode
  <2> QED BY <2>1 DEF TextsGrow
<1>4. CASE getChildren
  BY <1>4, getChildrenGrows
<1>9. CASE getChildrenFails
  BY <1>9, getChildrenFailsGrows
<1>5. CASE flushDirectoryCache
  <2>1. /\ DOMAIN nodes' = DOMAIN nodes /\ committed' = committed
        /\ \A d \in DOMAIN nodes : /\ nodes'[d].kids = nodes[d].kids
                                 /\ nodes'[d].ino = nodes[d].ino
    BY <1>5, FlushFacts DEF flushDirectoryCache, ghosts
  <2>2. \A d \in DOMAIN nodes : Text(d)' = Text(d)
    BY <1>5, FlushKeepsTexts
  <2> QED BY <2>1, <2>2 DEF TextsGrow
<1>6. CASE \E name \in Names : mkdir(name)
  BY <1>6, mkdirGrows
<1>7. CASE ls \/ cdUp \/ (\E name \in Names \cup {"."} : cd(name)) \/ Unmount
           \/ WriteBlockMap \/ WriteINodeMap \/ WriteINodeMapFails \/ allocBlock \/ allocINode
           \/ (\E i \in INodes : freeINode(i)) \/ UNCHANGED vars
  BY <1>2, <1>7 DEF ls, cdUp, cd, Unmount, WriteBlockMap, WriteINodeMap,
                    WriteINodeMapFails, allocBlock, allocINode, freeINode, vars, ghosts
<1>8. CASE CloseBlockDevice \/ CloseWithError \/ Crash
  BY <1>1, <1>8 DEF CloseBlockDevice, CloseWithError, Crash, DropMemory
<1> QED
  BY <1>3, <1>4, <1>5, <1>6, <1>7, <1>8, <1>9 DEF Next

(* The text that is written begins with what was committed. *)
LEMMA FlushIsDurable ==
  ASSUME TypeOK, TextsGrow, CommittedIsDurable, flushDirectoryCache
  PROVE  CommittedIsDurable'
<1>1. Head(todo) \in DOMAIN nodes
  BY FlushFacts
<1> PICK d \in DOMAIN nodes : d = Head(todo)
  BY <1>1
<1> DEFINE ino == nodes[d].ino
           got == Allocated(ino)
<1>2. committed' = committed /\ dBlk' = dBlk
  BY DEF flushDirectoryCache, ghosts
<1>3. Mounted
  BY NodeFacts DEF Mounted
<1>4. CASE UNCHANGED <<blk, data>>
  BY <1>2, <1>3, <1>4 DEF CommittedIsDurable
<1>5. CASE nodes[d].kids # <<>> /\ iNodeWrite(d)
  <2>0. /\ blk' = [blk EXCEPT ![ino] = @ + got]
        /\ data' = [data EXCEPT ![ino] = IF blk[ino] + got > 0 THEN Text(d) ELSE @]
    BY <1>5 DEF iNodeWrite
  <2>1. ino \in INodes
    BY NodeFacts
  <2>2. blk[ino] \in 0 .. 2 /\ free \in Nat
    BY <2>1, DirectoryAssumption DEF TypeOK, BlocksPerDirectory
  <2>3. got \in Nat
    BY <2>2 DEF Allocated, BlocksPerDirectory
  <2>4. IsPrefix(committed[ino], Text(d))
    BY <1>5 DEF TextsGrow
  <2> HIDE DEF ino, got
  <2> SUFFICES ASSUME NEW i \in INodes, committed[i] # <<>>
               PROVE  dBlk[i] > 0 /\ IsPrefix(committed[i], data'[i]) /\ blk'[i] > 0
    BY <1>2 DEF CommittedIsDurable
  <2>5. dBlk[i] > 0 /\ IsPrefix(committed[i], data[i]) /\ blk[i] > 0
    BY <1>3 DEF CommittedIsDurable
  <2>6. CASE i = ino
    <3>1. blk'[i] = blk[ino] + got /\ blk[ino] + got > 0
      BY <2>0, <2>1, <2>2, <2>3, <2>5, <2>6 DEF TypeOK
    <3>2. data'[i] = Text(d)
      BY <2>0, <2>1, <2>6, <3>1 DEF TypeOK
    <3> QED BY <2>4, <2>5, <2>6, <3>1, <3>2
  <2>7. CASE i # ino
    BY <2>0, <2>5, <2>7 DEF TypeOK
  <2> QED BY <2>6, <2>7
<1>6. CASE iNodeWriteFails(d)
  <2> DEFINE first == IF blk[ino] = 0 THEN 1 ELSE 0
  <2>1. blk' = [blk EXCEPT ![ino] = @ + first] /\ data' = data
    BY <1>6 DEF iNodeWriteFails
  <2>2. ino \in INodes /\ first \in Nat
    BY NodeFacts
  <2> HIDE DEF ino, first
  <2>3. \A i \in INodes : blk[i] \in Nat
    <3>1. blk \in [INodes -> 0 .. 2]
      BY DEF TypeOK, BlocksPerDirectory
    <3> QED BY <3>1
  <2>4. \A i \in INodes : blk[i] > 0 => blk'[i] > 0
    BY <2>1, <2>2, <2>3 DEF TypeOK
  <2> QED BY <1>2, <1>3, <2>1, <2>4 DEF CommittedIsDurable
<1> QED BY <1>4, <1>5, <1>6 DEF flushDirectoryCache, writeDirectory

LEMMA DurableStep ==
  ASSUME TypeOK, Control, TextsGrow, CommittedIsDurable, [Next]_vars
  PROVE  CommittedIsDurable'
<1>1. CASE Mount
  <2>1. dBlk' = dBlk /\ committed' = committed /\ blk' = dBlk /\ data' = [i \in INodes |-> Saved(i)]
    BY <1>1 DEF Mount, ghosts
  <2>2. \A i \in INodes : dBlk[i] > 0 => data'[i] = data[i]
    BY <2>1 DEF Saved
  <2> QED BY <2>1, <2>2 DEF CommittedIsDurable
<1>2. CASE flushDirectoryCache
  BY <1>2, FlushIsDurable
<1>3. CASE WriteINodeMap
  <2>1. Mounted /\ data' = data /\ committed' = committed /\ blk' = blk
    BY <1>3 DEF WriteINodeMap, Control, volume, ghosts
  <2>2. \A i \in INodes : dBlk'[i] = blk[i] \/ dBlk'[i] = dBlk[i]
    BY <1>3 DEF WriteINodeMap
  <2> QED BY <2>1, <2>2 DEF CommittedIsDurable
<1>4. CASE CloseBlockDevice
  <2>1. ~Mounted' /\ dBlk' = dBlk /\ data' = data /\ committed' = [i \in INodes |-> Saved(i)]
    BY <1>4 DEF CloseBlockDevice, DropMemory, Mounted, device
  <2>2. ASSUME NEW i \in INodes, Saved(i) # <<>>
        PROVE  dBlk[i] > 0 /\ IsPrefix(Saved(i), data[i])
    <3>1. dBlk[i] > 0 /\ Saved(i) = data[i]
      BY <2>2 DEF Saved
    <3>2. data[i] \in Seq(Entries)
      BY DEF TypeOK
    <3> QED BY <3>1, <3>2, NothingIsAPrefix
  <2> QED BY <2>1, <2>2 DEF CommittedIsDurable
<1>5. CASE Crash \/ CloseWithError
  BY <1>5 DEF CommittedIsDurable, Crash, CloseWithError, DropMemory, Mounted, device
<1>6. CASE UNCHANGED <<dBlk, data, blk, committed>> /\ (Mounted' => Mounted)
  BY <1>6 DEF CommittedIsDurable
<1>7. CASE ls \/ cdUp \/ (\E name \in Names \cup {"."} : cd(name)) \/ Unmount
           \/ WriteBlockMap \/ WriteINodeMapFails \/ allocBlock \/ allocINode
           \/ (\E i \in INodes : freeINode(i)) \/ UNCHANGED vars
  BY <1>6, <1>7 DEF ls, cdUp, cd, Unmount, WriteBlockMap, WriteINodeMapFails,
                    allocBlock, allocINode, freeINode, vars, device, volume, ghosts, Mounted
<1>8. CASE getChildren \/ \E name \in Names : mkdir(name)
  <2>1. Mounted
    BY <1>8 DEF getChildren, Ready, mkdir, Return, Served, Control
  <2> QED BY <1>6, <1>8, <2>1 DEF getChildren, mkdir, device, volume, ghosts
<1>9. CASE getChildrenFails
  <2>1. /\ dBlk' = dBlk /\ data' = data /\ blk' = blk /\ Mounted
        /\ \A i \in INodes : committed'[i] # <<>> => committed'[i] = committed[i]
    BY <1>9, ReadFacts DEF Reads, device, volume, Ready
  <2> QED BY <2>1 DEF CommittedIsDurable
<1> QED
  BY <1>1, <1>2, <1>3, <1>4, <1>5, <1>7, <1>8, <1>9 DEF Next

-----------------------------------------------------------------------------
(* The invariant holds in every state.                                     *)

LEMMA InvInit ==
  ASSUME Init
  PROVE  IInv
<1>1. /\ [i \in INodes |-> i = Root] \in [INodes -> BOOLEAN]
      /\ [i \in INodes |-> 0] \in [INodes -> 0 .. BlocksPerDirectory]
      /\ DataBlocks \in 0 .. DataBlocks
  BY DirectoryAssumption DEF BlocksPerDirectory
<1>2. NoText \in [INodes -> Seq(Entries)] /\ \A i \in INodes : NoText[i] = <<>>
  BY DEF NoText
<1>3. nodes = <<>> /\ todo = <<>> /\ DOMAIN nodes = {}
  BY DEF Init
<1>4. nodes \in Seq(Nodes) /\ todo \in Seq(DOMAIN nodes)
  BY <1>3
<1>5. TypeOK
  BY <1>1, <1>2, <1>3, <1>4 DEF TypeOK, Init
<1>6. Control
  BY DEF Control, Init
<1>7. Heap /\ WayOfFlush /\ TextsGrow
  BY <1>3 DEF Heap, Ordered, OneParent, Reachable, OneRoot, WayOfFlush, TextsGrow, RootDir
<1>8. CommittedIsDurable
  BY <1>2 DEF CommittedIsDurable, Init
<1> QED BY <1>5, <1>6, <1>7, <1>8 DEF IInv

LEMMA InvStep ==
  ASSUME IInv, [Next]_vars
  PROVE  IInv'
<1>1. TypeOK /\ Control /\ Heap /\ WayOfFlush /\ TextsGrow /\ CommittedIsDurable
  BY DEF IInv
<1>2. TypeOK'
  BY <1>1, TypeStep
<1>3. Control'
  BY <1>1, ControlStep
<1>4. Heap'
  BY <1>1, HeapStep
<1>5. WayOfFlush'
  BY <1>1, <1>2, <1>4, WayOfFlushStep
<1>6. TextsGrow'
  BY <1>1, <1>2, TextsGrowStep
<1>7. CommittedIsDurable'
  BY <1>1, DurableStep
<1> QED BY <1>2, <1>3, <1>4, <1>5, <1>6, <1>7 DEF IInv

LEMMA Invariance == Spec => []IInv
BY InvInit, InvStep, PTL DEF Spec

(* The entries in memory are lists of entries in memory, the blocks of an  *)
(* inode are at most two and at most as many were allocated as there are   *)
(* (directory_cache.c, inode.c:55-69).                                     *)
THEOREM DirectoryTypeCorrect == Spec => []TypeOK
<1>1. IInv => TypeOK
  BY DEF IInv
<1> QED BY <1>1, Invariance, PTL

(* flushDirectoryCache, from the siblings of the current directory or from *)
(* the root, leaves no flag up (directory_cache.c:128-147).                *)
THEOREM FlushesAreComplete == Spec => []FlushIsComplete
<1>1. IInv => FlushIsComplete
  BY FlushDone DEF IInv, FlushIsComplete
<1> QED BY <1>1, Invariance, PTL

(* The flags of a list are cleared by the visit to the directory that has  *)
(* the list, which calls iNodeWrite on it, never by the visits to its      *)
(* entries (directory_cache.c:119-125, 133-134).                           *)
THEOREM WritesAloneSave == Spec => OnlyWritingSaves
<1> DEFINE Saves == \A d \in DOMAIN nodes :
                      Unsaved(d) /\ Mounted' /\ ~Unsaved(d)' => todo # <<>> /\ d = Head(todo)
<1>1. ASSUME IInv, [Next]_vars
      PROVE  Saves \/ UNCHANGED vars
  <2>1. TypeOK /\ Control /\ Heap /\ WayOfFlush
    BY <1>1 DEF IInv
  <2> SUFFICES ASSUME NEW d \in DOMAIN nodes, Unsaved(d), Mounted', ~Unsaved(d)'
               PROVE  todo # <<>> /\ d = Head(todo)
    OBVIOUS
  <2>2. CASE nodes' = nodes \/ nodes' = <<>>
    BY <2>2 DEF Unsaved, Mounted
  <2>3. CASE Mount
    BY <2>3 DEF Mount, Mounted
  <2>4. CASE Reads
    <3>1. cwd \in DOMAIN nodes
      BY <2>1, <2>4, ReadFacts
    <3>2. CASE \E entries \in Seq(Entries), literal \in BOOLEAN : addChildren(cwd, entries, literal)
      BY <2>1, <3>1, <3>2, UnsavedGrows
    <3> QED BY <2>1, <2>2, <2>4, <3>2, ReadFacts
  <2>5. CASE flushDirectoryCache
    BY <2>1, <2>5, FlushSaves DEF flushDirectoryCache
  <2>6. CASE \E name \in Names : mkdir(name)
    <3>1. todo = <<>> /\ phase # "idle"
      BY <2>6 DEF mkdir, Return, Served
    <3> QED BY <2>1, <3>1, FlushDone
  <2> QED BY <1>1, <2>2, <2>3, <2>4, <2>5, <2>6, NodesStay
<1>2. IInv /\ [Next]_vars => [Saves]_vars
  BY <1>1
<1>3. Spec => [][Saves]_vars
  BY <1>2, Invariance, PTL DEF Spec
<1> QED BY <1>3 DEF OnlyWritingSaves

(* What a completed unmount left of a directory stays on the device while  *)
(* mkdir, ls, cd and unmount go on, however often the program ends in      *)
(* between, and whichever writes of directories and of the inode map fail; *)
(* until a read of that directory fails, after which getChildren           *)
(* overwrites it (filesystem.c:135-157, directory_cache.c:60-126).         *)
THEOREM CommittedTextsAreDurable == Spec => []CommittedIsDurable
<1>1. IInv => CommittedIsDurable
  BY DEF IInv
<1> QED BY <1>1, Invariance, PTL

=============================================================================

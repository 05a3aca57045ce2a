----------------------- MODULE DirectorySessionProofs -----------------------
(***************************************************************************)
(* What a user who keeps to SessionsAreOrderly can rely on: a command      *)
(* finds in a directory what was made in it, an unmount saves all of it,   *)
(* and between sessions the device is a tree.  The argument follows a text *)
(* on its way: what is cached of a directory is what was made in it, what  *)
(* is saved of it is that too unless the flush is still to come, and the   *)
(* flush finds a block for it.                                             *)
(***************************************************************************)
EXTENDS OrderlyDirectory, DirectoryProofs, WellFoundedInduction

Named(d) == nodes[d].name # "."

-----------------------------------------------------------------------------
(* The invariant.                                                          *)

\* The entries in memory, but for the ".", are of different directories.
OneNode ==
  /\ Mounted => nodes[RootDir].ino = Root
  /\ cwd # Null => Named(cwd)
  /\ \A d \in DOMAIN nodes : nodes[d].kids # <<>> => Named(d)
  /\ \A k, l \in DOMAIN nodes :
       Named(k) /\ Named(l) /\ nodes[k].ino = nodes[l].ino => k = l

\* What is in memory of a directory is what was made in it.
CachedIsMade ==
  \A d \in DOMAIN nodes : nodes[d].kids # <<>> =>
    Text(d) = Contents(nodes[d].ino, made[nodes[d].ino])

\* Every directory that was made has an inode of its own.
MadeOnce ==
  /\ \A p \in INodes : \A k \in DOMAIN made[p] : made[p][k].name \in Names
  /\ NewDirectoriesAreNew
  /\ alloc[Root]
  /\ \A p \in INodes : \A k \in DOMAIN made[p] : alloc[made[p][k].ino]

\* What is read of a directory, if a flush is not still to come.
ReadIsMade(i) ==
  \/ iNodeRead(i) = Contents(i, made[i])
  \/ iNodeRead(i) = <<>> /\ made[i] = <<>>

Clean(i) == \A d \in DOMAIN nodes : nodes[d].ino = i => ~Unsaved(d)

CleanIsMade == \A i \in INodes : Clean(i) => ReadIsMade(i)

\* A directory that has been read is on the device when its flags are down.
CleanIsWritten ==
  \A d \in DOMAIN nodes :
    nodes[d].kids # <<>> /\ ~Unsaved(d) => iNodeRead(nodes[d].ino) = Text(d)

\* The text of a directory has a block, or there will be one.
Rooms ==
  \A d \in DOMAIN nodes : nodes[d].kids # <<>> =>
    /\ nodes[d].dirty => Unsaved(d)
    /\ blk[nodes[d].ino] > 0 \/ (phase = "getChildren" /\ d = cwd /\ Unsaved(d) /\ free > 0)

\* How far writeINodeMap has come; it has not failed.
INodesWritten ==
  /\ phase # "failed"
  /\ phase = "inodes" => \A i \in INodes : i \div INodesPerBlock < next =>
                           dAlloc[i] = alloc[i] /\ dBlk[i] = blk[i]
  /\ phase = "close" \/ ~Mounted => dAlloc = alloc /\ dBlk = blk

SInv == /\ IInv /\ OneNode /\ CachedIsMade /\ MadeOnce
        /\ CleanIsMade /\ CleanIsWritten /\ Rooms /\ INodesWritten

\* No inode is allocated but for a directory.
EachHasAnEntry == \A i \in INodes \ {Root} : alloc[i] => \E p \in INodes : i \in Dirs(made[p])

-----------------------------------------------------------------------------
(* Contents is the "." and what was made, one behind the other.            *)
LEMMA ContentsFacts ==
  ASSUME NEW i \in INodes, NEW e \in Seq(Entries)
  PROVE  /\ Contents(i, e) \in Seq(Entries) /\ Len(Contents(i, e)) = Len(e) + 1
         /\ Contents(i, e)[1] = Entry(".", i)
         /\ \A j \in 1 .. Len(e) : Contents(i, e)[j + 1] = e[j]
<1> DEFINE dot == <<Entry(".", i)>>
           E   == Entries
<1>1. dot \in Seq(E) /\ e \in Seq(E) /\ Len(dot) = 1 /\ dot[1] = Entry(".", i)
      /\ 1 \in DOMAIN dot /\ Len(e) \in Nat
  BY DEF Entry, Entries
<1> HIDE DEF dot, E
<1>2. /\ dot \o e \in Seq(E) /\ Len(dot \o e) = Len(dot) + Len(e)
      /\ \A j \in DOMAIN dot : (dot \o e)[j] = dot[j]
      /\ \A j \in 1 .. Len(e) : (dot \o e)[Len(dot) + j] = e[j]
  <2>1. dot \in Seq(E) /\ e \in Seq(E)
    BY <1>1
  <2> QED BY <2>1, ConcatFacts
<1>3. Contents(i, e) = dot \o e
  BY DEF Contents, dot
<1>4. \A j \in 1 .. Len(e) : Len(dot) + j = j + 1
  BY <1>1
<1> QED BY <1>1, <1>2, <1>3, <1>4 DEF E

(* mkdir adds to the contents what it adds to what was made. *)
LEMMA ContentsGrow ==
  ASSUME NEW i \in INodes, NEW e \in Seq(Entries), NEW x \in Entries
  PROVE  /\ Contents(i, e) \o <<x>> = Contents(i, Append(e, x))
         /\ Contents(i, <<>>) = <<Entry(".", i)>>
<1>1. Entry(".", i) \in Entries
  BY DEF Entry, Entries
<1>2. ASSUME NEW S, NEW a \in S, NEW s \in Seq(S), NEW b \in S
      PROVE  /\ (<<a>> \o s) \o <<b>> = <<a>> \o Append(s, b)
             /\ <<a>> \o <<>> = <<a>>
  OBVIOUS
<1> QED BY <1>1, <1>2 DEF Contents

-----------------------------------------------------------------------------
(* Every entry but the root is one that was made, or a "."; so an inode    *)
(* says which entry it is.                                                 *)

(* Every entry but the root is in some list. *)
LEMMA InSomeList ==
  ASSUME TypeOK, Heap, NEW k \in DOMAIN nodes, k # RootDir
  PROVE  \E p \in DOMAIN nodes : \E j \in DOMAIN nodes[p].kids : nodes[p].kids[j] = k
<1> DEFINE S == {RootDir} \cup UNION {Range(nodes[p].kids) : p \in DOMAIN nodes}
<1>1. \A p \in DOMAIN nodes : Range(nodes[p].kids) \subseteq DOMAIN nodes
  <2> SUFFICES ASSUME NEW p \in DOMAIN nodes PROVE Range(nodes[p].kids) \subseteq DOMAIN nodes
    OBVIOUS
  <2>1. nodes[p].kids \in Seq(DOMAIN nodes)
    BY NodeFacts
  <2> QED BY <2>1 DEF Range
<1>2. RootDir \in DOMAIN nodes
  BY NodeFacts DEF RootDir
<1>3. S \in SUBSET DOMAIN nodes /\ RootDir \in S /\ Closed(S)
  BY <1>1, <1>2 DEF Closed
<1>4. S = DOMAIN nodes
  BY <1>3 DEF Heap, Reachable
<1>5. PICK p \in DOMAIN nodes : k \in Range(nodes[p].kids)
  BY <1>4
<1> QED BY <1>5 DEF Range

LEMMA NamedFacts ==
  ASSUME TypeOK, Heap, OneNode, CachedIsMade, NEW k \in DOMAIN nodes, Named(k)
  PROVE  \/ k = RootDir /\ nodes[k].ino = Root
         \/ \E p \in DOMAIN nodes : /\ nodes[p].kids # <<>>
              /\ \E m \in DOMAIN made[nodes[p].ino] :
                   nodes[k].ino = made[nodes[p].ino][m].ino
<1>1. CASE k = RootDir
  <2>1. Mounted
    BY NodeFacts DEF Mounted
  <2> QED BY <1>1, <2>1 DEF OneNode
<1>2. CASE k # RootDir
  <2>1. PICK p \in DOMAIN nodes : \E j \in DOMAIN nodes[p].kids : nodes[p].kids[j] = k
    BY <1>2, InSomeList
  <2>2. PICK j \in DOMAIN nodes[p].kids : nodes[p].kids[j] = k
    BY <2>1
  <2> DEFINE ino == nodes[p].ino
             e   == made[ino]
  <2>3. nodes[p].kids # <<>>
    BY <2>2
  <2>4. ino \in INodes /\ e \in Seq(Entries) /\ Len(e) \in Nat /\ DOMAIN e = 1 .. Len(e)
    <3>1. ino \in INodes
      BY NodeFacts
    <3>2. e \in Seq(Entries)
      BY <3>1 DEF TypeOK
    <3> HIDE DEF e
    <3> QED BY <3>1, <3>2
  <2>5. /\ Text(p) \in Seq(Entries) /\ DOMAIN Text(p) = DOMAIN nodes[p].kids
        /\ Text(p)[j] = Entry(nodes[k].name, nodes[k].ino)
    BY <2>2, TextFacts
  <2>6. Text(p) = Contents(ino, e)
    BY <2>3 DEF CachedIsMade
  <2> HIDE DEF ino, e
  <2>7. /\ Len(Contents(ino, e)) = Len(e) + 1
        /\ Contents(ino, e)[1] = Entry(".", ino)
        /\ \A m \in 1 .. Len(e) : Contents(ino, e)[m + 1] = e[m]
    BY <2>4, ContentsFacts
  <2>8. j \in 1 .. Len(e) + 1
    BY <2>5, <2>6, <2>7
  <2>9. j # 1
    BY <2>5, <2>6, <2>7 DEF Named, Entry
  <2>10. j - 1 \in DOMAIN e /\ (j - 1) + 1 = j
    BY <2>4, <2>8, <2>9
  <2>11. e[j - 1] = Entry(nodes[k].name, nodes[k].ino)
    BY <2>4, <2>5, <2>6, <2>7, <2>10
  <2>12. nodes[k].ino = e[j - 1].ino
    BY <2>11 DEF Entry
  <2> QED BY <2>3, <2>10, <2>12 DEF ino, e
<1> QED BY <1>1, <1>2

(* Lists that are cached belong to different inodes. *)
LEMMA OneList ==
  ASSUME OneNode, NEW d \in DOMAIN nodes, NEW c \in DOMAIN nodes, nodes[d].kids # <<>>,
         Named(c), nodes[d].ino = nodes[c].ino
  PROVE  d = c
  BY DEF OneNode

(* getChildren reads what was made. *)
LEMMA LoadsWhatWasMade ==
  ASSUME TypeOK, OneNode, CleanIsMade, NEW c \in DOMAIN nodes, c = cwd, Loaded(c)
  PROVE  \/ nodes[c].kids # <<>> /\ nodes' = nodes
         \/ /\ nodes[c].kids = <<>>
            /\ \E literal \in BOOLEAN :
                 addChildren(c, Contents(nodes[c].ino, made[nodes[c].ino]), literal)
<1> DEFINE ino == nodes[c].ino
<1>1. ASSUME NEW entries \in Seq(Entries), NEW literal \in BOOLEAN, nodes[c].kids = <<>>,
             addChildren(c, entries, literal),
             entries = IF iNodeRead(ino) # <<>> THEN iNodeRead(ino) ELSE <<Entry(".", ino)>>
      PROVE  entries = Contents(ino, made[ino])
  <2>1. ino \in INodes /\ made[ino] \in Seq(Entries)
    BY NodeFacts DEF TypeOK
  <2>2. Named(c)
    BY NodeFacts DEF OneNode, Null
  <2>3. Clean(ino)
    <3>1. \A d \in DOMAIN nodes : Unsaved(d) => nodes[d].kids # <<>>
      BY DEF Unsaved, Range
    <3> QED BY <1>1, <2>2, <3>1, OneList DEF Clean
  <2>4. ReadIsMade(ino)
    BY <2>1, <2>3 DEF CleanIsMade
  <2>5. CASE iNodeRead(ino) = Contents(ino, made[ino])
    <3>1. Contents(ino, made[ino]) # <<>>
      <4>1. Len(Contents(ino, made[ino])) = Len(made[ino]) + 1 /\ Len(made[ino]) \in Nat
        <5> DEFINE e == made[ino]
        <5>1. ino \in INodes /\ e \in Seq(Entries)
          BY <2>1
        <5> HIDE DEF ino, e
        <5>2. Len(Contents(ino, e)) = Len(e) + 1
          BY <5>1, ContentsFacts
        <5>3. Len(e) \in Nat
          BY <5>1
        <5> QED BY <5>2, <5>3 DEF e
      <4>2. Len(Contents(ino, made[ino])) # 0
        BY <4>1
      <4> QED BY <4>2
    <3> QED BY <1>1, <2>5, <3>1
  <2>6. CASE iNodeRead(ino) = <<>> /\ made[ino] = <<>>
    <3>1. Contents(ino, <<>>) = <<Entry(".", ino)>>
      BY DEF Contents
    <3> QED BY <1>1, <2>6, <3>1
  <2> QED BY <2>4, <2>5, <2>6 DEF ReadIsMade
<1> QED BY <1>1, LoadFacts

(* addChild of entries for directories that no other entry is for. *)
LEMMA OneNodeGrows ==
  ASSUME TypeOK, Heap, OneNode, NEW d \in DOMAIN nodes, NEW entries \in Seq(Entries),
         NEW literal \in BOOLEAN, addChildren(d, entries, literal), cwd' = cwd,
         Named(d),
         \A j \in DOMAIN entries : entries[j].name # "." =>
           /\ \A k \in DOMAIN nodes : Named(k) => nodes[k].ino # entries[j].ino
           /\ \A l \in DOMAIN entries :
                entries[l].name # "." /\ entries[l].ino = entries[j].ino => l = j
  PROVE  OneNode'
<1> DEFINE n == Len(nodes)
           m == Len(entries)
<1>1. /\ n \in Nat /\ m \in Nat /\ DOMAIN nodes = 1 .. n /\ DOMAIN entries = 1 .. m
      /\ DOMAIN nodes' = 1 .. n + m
  BY NodeFacts, AddChildrenFacts
<1>2. \A k \in DOMAIN nodes : nodes'[k].ino = nodes[k].ino /\ nodes'[k].name = nodes[k].name
  BY KidsStay
<1>3. \A j \in 1 .. m : nodes'[n + j] = NewNode(entries[j].name, entries[j].ino, literal)
  BY AddChildrenFacts
<1>4. ASSUME NEW k \in DOMAIN nodes', k \notin DOMAIN nodes
      PROVE  \E j \in DOMAIN entries : /\ k = n + j /\ nodes'[k].kids = <<>>
                                       /\ nodes'[k].name = entries[j].name
                                       /\ nodes'[k].ino = entries[j].ino
  <2> DEFINE j == k - n
  <2>1. j \in 1 .. m /\ k = n + j
    BY <1>1, <1>4
  <2> HIDE DEF j, n, m
  <2>2. nodes'[k] = NewNode(entries[j].name, entries[j].ino, literal)
    BY <1>3, <2>1
  <2>3. /\ nodes'[k].kids = <<>> /\ nodes'[k].name = entries[j].name
        /\ nodes'[k].ino = entries[j].ino
    BY <2>2 DEF NewNode
  <2> QED BY <1>1, <2>1, <2>3
<1> HIDE DEF n, m
<1>5. Mounted' => nodes'[RootDir].ino = Root
  <2>1. Mounted /\ RootDir \in DOMAIN nodes
    BY NodeFacts DEF Mounted, RootDir
  <2> QED BY <1>2, <2>1 DEF OneNode
<1>6. (cwd # Null => Named(cwd))'
  BY <1>2 DEF OneNode, Named, TypeOK
<1>7. ASSUME NEW e \in DOMAIN nodes', nodes'[e].kids # <<>>
      PROVE  nodes'[e].name # "."
  <2>1. e \in DOMAIN nodes
    BY <1>4, <1>7
  <2>2. CASE e = d
    BY <1>2, <2>2 DEF Named
  <2>3. CASE e # d
    <3>1. nodes[e].kids # <<>>
      BY <1>7, <2>1, <2>3, AddChildrenFacts
    <3> QED BY <1>2, <2>1, <3>1 DEF OneNode, Named
  <2> QED BY <2>2, <2>3
<1>8. ASSUME NEW k \in DOMAIN nodes', NEW l \in DOMAIN nodes',
             nodes'[k].name # ".", nodes'[l].name # ".", nodes'[k].ino = nodes'[l].ino
      PROVE  k = l
  <2>1. CASE k \in DOMAIN nodes /\ l \in DOMAIN nodes
    BY <1>2, <1>8, <2>1 DEF OneNode, Named
  <2>2. CASE k \in DOMAIN nodes /\ l \notin DOMAIN nodes
    BY <1>2, <1>4, <1>8, <2>2 DEF Named
  <2>3. CASE k \notin DOMAIN nodes /\ l \in DOMAIN nodes
    BY <1>2, <1>4, <1>8, <2>3 DEF Named
  <2>4. CASE k \notin DOMAIN nodes /\ l \notin DOMAIN nodes
    <3>1. PICK i \in DOMAIN entries : /\ k = n + i /\ nodes'[k].name = entries[i].name
                                      /\ nodes'[k].ino = entries[i].ino
      BY <1>4, <2>4
    <3>2. PICK j \in DOMAIN entries : /\ l = n + j /\ nodes'[l].name = entries[j].name
                                      /\ nodes'[l].ino = entries[j].ino
      BY <1>4, <2>4
    <3>3. i = j
      BY <1>8, <3>1, <3>2
    <3> QED BY <3>1, <3>2, <3>3
  <2> QED BY <2>1, <2>2, <2>3, <2>4
<1> QED BY <1>5, <1>6, <1>7, <1>8 DEF OneNode, Named

(* addChild of what belongs there. *)
LEMMA CachedGrows ==
  ASSUME TypeOK, Heap, OneNode, CachedIsMade, TypeOK', NEW d \in DOMAIN nodes,
         NEW entries \in Seq(Entries),
         NEW literal \in BOOLEAN, addChildren(d, entries, literal), Named(d),
         Text(d) \o entries = Contents(nodes[d].ino, made'[nodes[d].ino]),
         \A i \in INodes : i # nodes[d].ino => made'[i] = made[i]
  PROVE  CachedIsMade'
<1>1. /\ Text(d)' = Text(d) \o entries
      /\ \A e \in DOMAIN nodes : e # d => Text(e)' = Text(e)
      /\ \A e \in DOMAIN nodes' \ DOMAIN nodes : nodes'[e].kids = <<>>
  BY TextGrows
<1> SUFFICES ASSUME NEW e \in DOMAIN nodes', nodes'[e].kids # <<>>
             PROVE  Text(e)' = Contents(nodes'[e].ino, made'[nodes'[e].ino])
  BY DEF CachedIsMade
<1>2. e \in DOMAIN nodes /\ nodes'[e].ino = nodes[e].ino
  BY <1>1, KidsStay
<1>3. CASE e = d
  BY <1>1, <1>2, <1>3
<1>4. CASE e # d
  <2>1. nodes[e].kids # <<>>
    BY <1>2, <1>4, AddChildrenFacts
  <2>2. nodes[e].ino # nodes[d].ino
    BY <1>2, <1>4, <2>1, OneList
  <2>3. nodes[e].ino \in INodes
    BY <1>2, NodeFacts
  <2> QED BY <1>1, <1>2, <1>4, <2>1, <2>2, <2>3 DEF CachedIsMade
<1> QED BY <1>3, <1>4

-----------------------------------------------------------------------------
(* mkdir makes a directory of an inode that is not in use.                 *)

LEMMA NotOrderly ==
  ~("cd ." \in UserCommands) /\ ~("Ctrl+C" \in UserCommands)
  /\ ~("when full" \in UserCommands) /\ ~("freeINode" \in UserCommands)
  /\ ~("read error" \in UserCommands) /\ ~("write error" \in UserCommands)
BY SessionsAreOrderly

(* What does not happen in orderly sessions. *)
LEMMA NothingFails ==
  /\ ~Crash /\ ~getChildrenFails /\ ~WriteINodeMapFails
  /\ \A i \in INodes : ~freeINode(i)
  /\ \A d : ~iNodeWriteFails(d)
BY NotOrderly DEF Crash, getChildrenFails, WriteINodeMapFails, freeINode, iNodeWriteFails

LEMMA OrderlyMkdir ==
  ASSUME TypeOK, Control, NEW name \in Names, mkdir(name)
  PROVE  \E c \in DOMAIN nodes, ino \in INodes :
           /\ c = cwd /\ nodes[c].kids # <<>> /\ ~alloc[ino]
           /\ alloc' = [alloc EXCEPT ![ino] = TRUE]
           /\ made' = [made EXCEPT ![nodes[c].ino] = Append(@, Entry(name, ino))]
           /\ <<Entry(name, ino)>> \in Seq(Entries) /\ Entry(name, ino) \in Entries
           /\ addChildren(c, <<Entry(name, ino)>>, FALSE)
  BY MkdirFacts, NotOrderly

(* The directories that the entries in memory are for are allocated. *)
LEMMA NamedIsAllocated ==
  ASSUME TypeOK, Heap, OneNode, CachedIsMade, MadeOnce, NEW k \in DOMAIN nodes, Named(k)
  PROVE  alloc[nodes[k].ino]
<1>1. \A p \in DOMAIN nodes : nodes[p].ino \in INodes
  BY NodeFacts
<1> QED BY <1>1, NamedFacts DEF MadeOnce

(* The list of what was made, after mkdir. *)
LEMMA AppendFacts ==
  ASSUME NEW e \in Seq(Entries), NEW x \in Entries
  PROVE  /\ DOMAIN Append(e, x) = 1 .. Len(e) + 1 /\ DOMAIN e = 1 .. Len(e) /\ Len(e) \in Nat
         /\ \A j \in DOMAIN e : Append(e, x)[j] = e[j]
         /\ Append(e, x)[Len(e) + 1] = x
  OBVIOUS

LEMMA MadeOnceGrows ==
  ASSUME TypeOK, MadeOnce, NEW name \in Names, NEW i \in INodes, NEW ino \in INodes,
         Entry(name, ino) \in Entries, ~alloc[ino], alloc' = [alloc EXCEPT ![ino] = TRUE],
         made' = [made EXCEPT ![i] = Append(@, Entry(name, ino))]
  PROVE  MadeOnce'
<1> DEFINE x == Entry(name, ino)
<1>1. /\ made'[i] = Append(made[i], x) /\ made[i] \in Seq(Entries) /\ x \in Entries
      /\ \A p \in INodes : p # i => made'[p] = made[p]
  BY DEF TypeOK
<1>2. x.name \in Names /\ x.ino = ino
  BY DEF Entry
<1>3. /\ alloc'[ino] /\ \A j \in INodes : alloc[j] => alloc'[j]
  BY DEF TypeOK
<1> HIDE DEF x
<1>4. /\ DOMAIN made'[i] = 1 .. Len(made[i]) + 1 /\ DOMAIN made[i] = 1 .. Len(made[i])
      /\ Len(made[i]) \in Nat
      /\ \A j \in DOMAIN made[i] : made'[i][j] = made[i][j]
      /\ made'[i][Len(made[i]) + 1] = x
  BY <1>1, AppendFacts
<1>5. ASSUME NEW p \in INodes, NEW k \in DOMAIN made'[p]
      PROVE  \/ k \in DOMAIN made[p] /\ made'[p][k] = made[p][k]
             \/ p = i /\ k = Len(made[i]) + 1 /\ made'[p][k] = x
  <2>1. CASE p # i
    BY <1>1, <2>1
  <2>2. CASE p = i
    <3>1. k \in DOMAIN made[i] \/ k = Len(made[i]) + 1
      BY <1>4, <2>2
    <3> QED BY <1>4, <2>2, <3>1
  <2> QED BY <2>1, <2>2
<1>6. \A p \in INodes : \A k \in DOMAIN made[p] : made[p][k].ino # Root /\ made[p][k].ino # ino
  <2>1. \A p \in INodes : \A k \in DOMAIN made[p] : made[p][k].ino # Root
    BY DEF MadeOnce, NewDirectoriesAreNew
  <2>2. \A p \in INodes : \A k \in DOMAIN made[p] : alloc[made[p][k].ino]
    BY DEF MadeOnce
  <2> QED BY <2>1, <2>2
<1>7. ino # Root
  BY DEF MadeOnce
<1>8. \A p \in INodes : \A k \in DOMAIN made'[p] : made'[p][k].name \in Names
  BY <1>2, <1>5 DEF MadeOnce
<1>9. \A p \in INodes : \A k \in DOMAIN made'[p] : alloc'[made'[p][k].ino]
  <2> SUFFICES ASSUME NEW p \in INodes, NEW k \in DOMAIN made'[p] PROVE alloc'[made'[p][k].ino]
    OBVIOUS
  <2>1. CASE k \in DOMAIN made[p] /\ made'[p][k] = made[p][k]
    <3>1. made[p][k].ino \in INodes
      <4>1. made[p] \in Seq(Entries)
        BY DEF TypeOK
      <4>2. made[p][k] \in Entries
        BY <2>1, <4>1
      <4> QED BY <4>2 DEF Entries
    <3> QED BY <1>3, <2>1, <3>1 DEF MadeOnce
  <2>2. CASE made'[p][k] = x
    BY <1>2, <1>3, <2>2
  <2> QED BY <1>5, <2>1, <2>2
<1>10. NewDirectoriesAreNew'
  <2> SUFFICES ASSUME NEW p \in INodes, NEW q \in INodes,
                      NEW k \in DOMAIN made'[p], NEW l \in DOMAIN made'[q]
               PROVE  /\ made'[p][k].ino # Root
                      /\ made'[p][k].ino = made'[q][l].ino => p = q /\ k = l
    BY DEF NewDirectoriesAreNew
  <2>1. made'[p][k].ino # Root
    BY <1>2, <1>5, <1>6, <1>7
  <2>2. ASSUME made'[p][k].ino = made'[q][l].ino PROVE p = q /\ k = l
    <3>1. CASE /\ k \in DOMAIN made[p] /\ made'[p][k] = made[p][k]
               /\ l \in DOMAIN made[q] /\ made'[q][l] = made[q][l]
      BY <2>2, <3>1 DEF MadeOnce, NewDirectoriesAreNew
    <3>2. CASE /\ p = i /\ k = Len(made[i]) + 1 /\ made'[p][k] = x
               /\ q = i /\ l = Len(made[i]) + 1 /\ made'[q][l] = x
      BY <3>2
    <3>3. CASE made'[p][k] = x /\ l \in DOMAIN made[q] /\ made'[q][l] = made[q][l]
      BY <1>2, <1>6, <2>2, <3>3
    <3>4. CASE made'[q][l] = x /\ k \in DOMAIN made[p] /\ made'[p][k] = made[p][k]
      BY <1>2, <1>6, <2>2, <3>4
    <3> QED BY <1>5, <3>1, <3>2, <3>3, <3>4
  <2> QED BY <2>1, <2>2
<1>11. alloc'[Root]
  BY <1>3, DirectoryAssumption DEF MadeOnce, Root, INodes
<1> QED BY <1>8, <1>9, <1>10, <1>11 DEF MadeOnce

LEMMA mkdirOneNode ==
  ASSUME TypeOK, TypeOK', Control, Heap, OneNode, CachedIsMade, MadeOnce,
         NEW name \in Names, mkdir(name)
  PROVE  OneNode' /\ CachedIsMade' /\ MadeOnce'
<1>1. PICK c \in DOMAIN nodes, ino \in INodes :
           /\ c = cwd /\ nodes[c].kids # <<>> /\ ~alloc[ino]
           /\ alloc' = [alloc EXCEPT ![ino] = TRUE]
           /\ made' = [made EXCEPT ![nodes[c].ino] = Append(@, Entry(name, ino))]
           /\ <<Entry(name, ino)>> \in Seq(Entries) /\ Entry(name, ino) \in Entries
           /\ addChildren(c, <<Entry(name, ino)>>, FALSE)
  BY OrderlyMkdir
<1> DEFINE x == Entry(name, ino)
           i == nodes[c].ino
           entries == <<x>>
<1>2. i \in INodes /\ Named(c)
  BY <1>1, NodeFacts DEF OneNode
<1>3. /\ entries \in Seq(Entries) /\ DOMAIN entries = {1}
      /\ entries[1].ino = ino /\ addChildren(c, entries, FALSE)
  <2>1. x.ino = ino
    BY DEF Entry
  <2> HIDE DEF x
  <2>2. entries[1] = x /\ DOMAIN entries = {1}
    OBVIOUS
  <2> QED BY <1>1, <2>1, <2>2 DEF x
<1>4. cwd' = cwd
  BY DEF mkdir
<1>5. \A k \in DOMAIN nodes : Named(k) => nodes[k].ino # ino
  BY <1>1, NamedIsAllocated
<1> HIDE DEF entries
<1>6. OneNode'
  BY <1>2, <1>3, <1>4, <1>5, OneNodeGrows
<1>7. MadeOnce'
  BY <1>1, <1>2, MadeOnceGrows
<1>8. \A j \in INodes : j # i => made'[j] = made[j]
  BY <1>1
<1>9. Text(c) \o entries = Contents(i, made'[i])
  <2>1. Text(c) = Contents(i, made[i])
    BY <1>1 DEF CachedIsMade
  <2>2. made[i] \in Seq(Entries) /\ made'[i] = Append(made[i], x)
    BY <1>1, <1>2 DEF TypeOK
  <2>3. Contents(i, made[i]) \o <<x>> = Contents(i, Append(made[i], x))
    BY <1>1, <1>2, <2>2, ContentsGrow
  <2> QED BY <2>1, <2>2, <2>3 DEF entries
<1>10. CachedIsMade'
  <2> HIDE DEF i
  <2>1. Text(c) \o entries = Contents(nodes[c].ino, made'[nodes[c].ino])
        /\ \A j \in INodes : j # nodes[c].ino => made'[j] = made[j]
    BY <1>8, <1>9 DEF i
  <2> QED BY <1>2, <1>3, <2>1, CachedGrows
<1> QED BY <1>6, <1>7, <1>10

-----------------------------------------------------------------------------
(* getChildren finds what was made; the others leave the lists alone.      *)
LEMMA getChildrenOneNode ==
  ASSUME TypeOK, TypeOK', Control, Heap, OneNode, CachedIsMade, MadeOnce, CleanIsMade,
         getChildren
  PROVE  OneNode' /\ CachedIsMade'
<1>1. cwd \in DOMAIN nodes /\ Loaded(cwd) /\ cwd' = cwd /\ made' = made /\ cwd # Null
  BY DEF TypeOK, getChildren, ghosts
<1> PICK c \in DOMAIN nodes : c = cwd
  BY <1>1
<1>2. CASE nodes' = nodes
  BY <1>1, <1>2 DEF OneNode, CachedIsMade, Named, Mounted, Text
<1>3. ASSUME NEW literal \in BOOLEAN, nodes[c].kids = <<>>,
             addChildren(c, Contents(nodes[c].ino, made[nodes[c].ino]), literal)
      PROVE  OneNode' /\ CachedIsMade'
  <2> DEFINE i == nodes[c].ino
             e == made[i]
             entries == Contents(i, e)
  <2>1. i \in INodes /\ Named(c)
    BY <1>1, NodeFacts DEF OneNode
  <2>2. e \in Seq(Entries)
    BY <2>1 DEF TypeOK
  <2>3. /\ entries \in Seq(Entries) /\ Len(entries) = Len(e) + 1 /\ Len(e) \in Nat
        /\ entries[1] = Entry(".", i)
        /\ \A j \in 1 .. Len(e) : entries[j + 1] = e[j]
    BY <2>1, <2>2, ContentsFacts, SMTT(30)
  <2>4. addChildren(c, entries, literal)
    BY <1>3
  <2> HIDE DEF entries
  <2>5. ASSUME NEW j \in DOMAIN entries, entries[j].name # "."
        PROVE  \E m \in DOMAIN e : j = m + 1 /\ entries[j] = e[m]
    <3>1. DOMAIN entries = 1 .. Len(e) + 1 /\ DOMAIN e = 1 .. Len(e)
      BY <2>2, <2>3
    <3>2. j # 1
      BY <2>3, <2>5 DEF Entry
    <3>3. j - 1 \in DOMAIN e /\ j = (j - 1) + 1
      BY <2>3, <3>1, <3>2
    <3> QED BY <2>3, <3>1, <3>3
  <2>6. ASSUME NEW j \in DOMAIN entries, entries[j].name # ".",
               NEW k \in DOMAIN nodes, Named(k)
        PROVE  nodes[k].ino # entries[j].ino
    <3>1. PICK m \in DOMAIN e : entries[j] = e[m]
      BY <2>5, <2>6
    <3>2. CASE nodes[k].ino = Root
      BY <2>1, <3>1, <3>2 DEF MadeOnce, NewDirectoriesAreNew
    <3>3. ASSUME NEW p \in DOMAIN nodes, nodes[p].kids # <<>>,
                 NEW l \in DOMAIN made[nodes[p].ino],
                 nodes[k].ino = made[nodes[p].ino][l].ino, nodes[k].ino = entries[j].ino
          PROVE  FALSE
      <4>1. nodes[p].ino \in INodes
        BY NodeFacts
      <4>2. nodes[p].ino = i
        <5>1. NewDirectoriesAreNew
          BY DEF MadeOnce
        <5>2. made[i][m].ino = made[nodes[p].ino][l].ino
          BY <3>1, <3>3
        <5>3. m \in DOMAIN made[i] /\ l \in DOMAIN made[nodes[p].ino]
          BY <3>1, <3>3
        <5>4. i \in INodes
          BY <2>1
        <5> HIDE DEF i, e
        <5> QED BY <4>1, <5>1, <5>2, <5>3, <5>4 DEF NewDirectoriesAreNew
      <4>3. p = c
        BY <2>1, <3>3, <4>2, OneList
      <4> QED BY <1>3, <3>3, <4>3
    <3> QED BY <2>6, <3>2, <3>3, NamedFacts
  <2>7. ASSUME NEW j \in DOMAIN entries, entries[j].name # ".",
               NEW l \in DOMAIN entries, entries[l].name # ".",
               entries[l].ino = entries[j].ino
        PROVE  l = j
    <3>1. PICK m \in DOMAIN e : j = m + 1 /\ entries[j] = e[m]
      BY <2>5, <2>7
    <3>2. PICK n \in DOMAIN e : l = n + 1 /\ entries[l] = e[n]
      BY <2>5, <2>7
    <3>3. m = n
      BY <2>1, <2>7, <3>1, <3>2 DEF MadeOnce, NewDirectoriesAreNew
    <3> QED BY <3>1, <3>2, <3>3
  <2>8. OneNode'
    BY <1>1, <2>1, <2>3, <2>4, <2>6, <2>7, OneNodeGrows
  <2>9. Text(c) \o entries = entries
    <3>1. Text(c) = <<>>
      BY <1>3 DEF Text
    <3> QED BY <2>3, <3>1
  <2>10. CachedIsMade'
    <3>1. Text(c) \o entries = Contents(nodes[c].ino, made'[nodes[c].ino])
      BY <1>1, <2>9 DEF entries
    <3> HIDE DEF e, i
    <3> QED BY <1>1, <2>1, <2>3, <2>4, <3>1, CachedGrows
  <2> QED BY <2>8, <2>10
<1> QED BY <1>1, <1>2, <1>3, LoadsWhatWasMade

LEMMA cdOneNode ==
  ASSUME TypeOK, Control, Heap, OneNode, NEW name \in Names \cup {"."}, cd(name)
  PROVE  OneNode'
<1>1. name # "."
  BY NotOrderly DEF cd
<1>2. nodes' = nodes
  BY DEF cd
<1>3. PICK j \in Found(name) : cwd' = nodes[cwd].kids[j]
  BY DEF cd
<1>4. nodes[cwd'].name = name
  BY <1>3 DEF Found
<1>5. nodes'[cwd'].name # "."
  BY <1>1, <1>2, <1>4
<1> QED BY <1>2, <1>5 DEF OneNode, Named, Mounted

LEMMA OneNodeStep ==
  ASSUME IInv, OneNode, CachedIsMade, MadeOnce, CleanIsMade, INodesWritten,
         [Next]_vars, TypeOK'
  PROVE  OneNode' /\ CachedIsMade' /\ MadeOnce'
<1>1. TypeOK /\ Control /\ Heap
  BY DEF IInv
<1>2. ASSUME ~\E name \in Names : mkdir(name) PROVE MadeOnce'
  <2>1. CASE UNCHANGED <<alloc, made>>
    BY <2>1 DEF MadeOnce, NewDirectoriesAreNew
  <2>2. CASE Mount
    <3>1. alloc' = alloc
      BY <2>2 DEF Mount, INodesWritten
    <3> QED BY <2>1, <2>2, <3>1 DEF Mount, ghosts
  <2>3. CASE CloseBlockDevice
    <3>1. alloc' = alloc
      BY <2>3 DEF CloseBlockDevice, DropMemory, INodesWritten
    <3> QED BY <2>1, <2>3, <3>1 DEF CloseBlockDevice
  <2>4. CASE allocINode
    <3>1. made' = made /\ \A i \in INodes : alloc[i] => alloc'[i]
      BY <1>1, <2>4 DEF allocINode, ghosts, TypeOK
    <3>2. \A p \in INodes : \A k \in DOMAIN made[p] : made[p][k].ino \in INodes
      <4>1. ASSUME NEW p \in INodes, NEW k \in DOMAIN made[p] PROVE made[p][k] \in Entries
        <5>1. made[p] \in Seq(Entries)
          BY <1>1 DEF TypeOK
        <5> QED BY <5>1
      <4> QED BY <4>1 DEF Entries
    <3>3. Root \in INodes
      BY DirectoryAssumption DEF Root, INodes
    <3> QED BY <3>1, <3>2, <3>3 DEF MadeOnce, NewDirectoriesAreNew
  <2>5. ~CloseWithError
    BY DEF CloseWithError, INodesWritten
  <2>6. CASE getChildren \/ flushDirectoryCache \/ ls \/ cdUp \/ Unmount \/ WriteBlockMap
             \/ WriteINodeMap \/ allocBlock \/ (\E name \in Names \cup {"."} : cd(name))
             \/ UNCHANGED vars
    BY <2>1, <2>6 DEF getChildren, flushDirectoryCache, ls, cdUp, Unmount, WriteBlockMap,
                      WriteINodeMap, allocBlock, cd, vars, volume, ghosts
  <2> QED BY <1>2, <2>2, <2>3, <2>4, <2>5, <2>6, NothingFails DEF Next
<1>3. CASE \E name \in Names : mkdir(name)
  BY <1>1, <1>3, mkdirOneNode
<1> SUFFICES ASSUME ~\E name \in Names : mkdir(name)
             PROVE  OneNode' /\ CachedIsMade'
  BY <1>2, <1>3
<1>4. CASE getChildren
  BY <1>1, <1>4, getChildrenOneNode
<1>5. CASE nodes' = <<>> /\ cwd' = Null
  BY <1>5 DEF OneNode, CachedIsMade, Mounted
<1>6. CASE Mount
  <2>1. DOMAIN nodes' = {1} /\ nodes'[1] = NewNode("/", Root, FALSE) /\ cwd' = 1
    BY <1>6 DEF Mount, RootDir
  <2>2. nodes'[1].kids = <<>> /\ nodes'[1].name = "/" /\ nodes'[1].ino = Root
    BY <2>1 DEF NewNode
  <2> QED BY <2>1, <2>2 DEF OneNode, CachedIsMade, Named, RootDir
<1>7. CASE flushDirectoryCache
  <2>1. /\ DOMAIN nodes' = DOMAIN nodes
        /\ \A d \in DOMAIN nodes : /\ nodes'[d].kids = nodes[d].kids
                                 /\ nodes'[d].ino = nodes[d].ino
                                 /\ nodes'[d].name = nodes[d].name
    BY <1>1, <1>7, FlushFacts
  <2>2. \A d \in DOMAIN nodes : Text(d)' = Text(d)
    BY <1>1, <1>7, FlushKeepsTexts
  <2>3. cwd' = cwd /\ made' = made
    BY <1>7 DEF flushDirectoryCache, ghosts
  <2>4. (cwd # Null => cwd \in DOMAIN nodes) /\ (nodes' # <<>> => RootDir \in DOMAIN nodes')
    BY <1>1, <2>1, NodeFacts DEF TypeOK, RootDir
  <2>5. nodes # <<>>
    BY <1>1, <1>7 DEF flushDirectoryCache, Control, Mounted
  <2>6. OneNode'
    BY <2>1, <2>3, <2>4, <2>5 DEF OneNode, Named, Mounted
  <2>7. CachedIsMade'
    BY <2>1, <2>2, <2>3 DEF CachedIsMade
  <2> QED BY <2>6, <2>7
<1>8. ASSUME nodes' = nodes, made' = made PROVE CachedIsMade'
  BY <1>8 DEF CachedIsMade, Text
<1>9. ASSUME nodes' = nodes, cwd' = cwd PROVE OneNode'
  BY <1>9 DEF OneNode, Named, Mounted
<1>10. CASE cdUp
  BY <1>8, <1>10 DEF cdUp, ghosts, OneNode, Named, Mounted
<1>11. CASE \E name \in Names \cup {"."} : cd(name)
  BY <1>1, <1>8, <1>11, cdOneNode DEF cd, ghosts
<1>12. CASE ls \/ Unmount \/ WriteBlockMap \/ WriteINodeMap \/ allocBlock \/ allocINode
            \/ UNCHANGED vars
  BY <1>8, <1>9, <1>12 DEF ls, Unmount, WriteBlockMap, WriteINodeMap, allocBlock, allocINode,
                           vars, ghosts
<1>13. CASE CloseBlockDevice
  BY <1>5, <1>13 DEF CloseBlockDevice, DropMemory
<1>14. ~CloseWithError
  BY DEF CloseWithError, INodesWritten
<1> QED
  BY <1>4, <1>6, <1>7, <1>10, <1>11, <1>12, <1>13, <1>14, NothingFails DEF Next

-----------------------------------------------------------------------------
(* What is on the device.                                                  *)

(* A directory that is written has, or gets, a block for its text. *)
LEMMA WriteFindsABlock ==
  ASSUME TypeOK, Rooms, NEW d \in DOMAIN nodes, nodes[d].kids # <<>>
  PROVE  /\ Allocated(nodes[d].ino) \in Nat
         /\ blk[nodes[d].ino] + Allocated(nodes[d].ino) > 0
<1>1. nodes[d].ino \in INodes
  BY NodeFacts
<1>2. blk[nodes[d].ino] \in 0 .. 2 /\ free \in Nat
  BY <1>1, DirectoryAssumption DEF TypeOK, BlocksPerDirectory
<1>3. blk[nodes[d].ino] > 0 \/ free > 0
  BY DEF Rooms
<1> HIDE DEF Rooms, TypeOK
<1> QED BY <1>2, <1>3 DEF Allocated, BlocksPerDirectory

(* What a call of flushDirectoryCache writes, and where. *)
LEMMA FlushWrites ==
  ASSUME TypeOK, CachedIsMade, Rooms, flushDirectoryCache, NEW h \in DOMAIN nodes, h = Head(todo)
  PROVE  LET ino == nodes[h].ino
             wrote == nodes[h].kids # <<>> /\ (Unsaved(h) \/ nodes[h].dirty)
         IN  /\ ~wrote => UNCHANGED <<blk, free, data>>
             /\ wrote => /\ blk'[ino] > 0 /\ data'[ino] = Contents(ino, made[ino])
                         /\ \A i \in INodes : i # ino => blk'[i] = blk[i] /\ data'[i] = data[i]
             /\ \A i \in INodes : blk[i] > 0 => blk'[i] > 0
<1> DEFINE ino == nodes[h].ino
           wrote == nodes[h].kids # <<>> /\ (Unsaved(h) \/ nodes[h].dirty)
<1>1. CASE ~wrote
  BY <1>1 DEF flushDirectoryCache, writeDirectory
<1>2. CASE wrote
  <2>1. /\ blk' = [blk EXCEPT ![ino] = @ + Allocated(ino)]
        /\ data' = [data EXCEPT ![ino] = IF blk[ino] + Allocated(ino) > 0 THEN Text(h) ELSE @]
    BY <1>2, NothingFails DEF flushDirectoryCache, writeDirectory, iNodeWrite
  <2>2. Allocated(ino) \in Nat /\ blk[ino] + Allocated(ino) > 0
    BY <1>2, WriteFindsABlock
  <2>3. Text(h) = Contents(ino, made[ino])
    BY <1>2 DEF CachedIsMade
  <2>4. ino \in INodes
    BY NodeFacts
  <2> HIDE DEF ino
  <2>5. blk'[ino] > 0 /\ data'[ino] = Text(h)
    BY <2>1, <2>2, <2>4 DEF TypeOK
  <2>6. \A i \in INodes : i # ino => blk'[i] = blk[i] /\ data'[i] = data[i]
    BY <2>1 DEF TypeOK
  <2>7. \A i \in INodes : blk[i] > 0 => blk'[i] > 0
    BY <2>5, <2>6
  <2> QED BY <1>2, <2>3, <2>5, <2>6, <2>7 DEF ino
<1> QED BY <1>1, <1>2

LEMMA FlushClean ==
  ASSUME IInv, CachedIsMade, CleanIsMade, Rooms, flushDirectoryCache
  PROVE  CleanIsMade'
<1>1. TypeOK /\ Control /\ Heap /\ WayOfFlush
  BY DEF IInv
<1>2. Head(todo) \in DOMAIN nodes
  BY <1>1, FlushFacts
<1> PICK h \in DOMAIN nodes : h = Head(todo)
  BY <1>2
<1> DEFINE ino == nodes[h].ino
           wrote == nodes[h].kids # <<>> /\ (Unsaved(h) \/ nodes[h].dirty)
<1>3. made' = made
  BY DEF flushDirectoryCache, ghosts
<1>4. /\ ~wrote => UNCHANGED <<blk, free, data>>
      /\ wrote => /\ blk'[ino] > 0 /\ data'[ino] = Contents(ino, made[ino])
                  /\ \A i \in INodes : i # ino => blk'[i] = blk[i] /\ data'[i] = data[i]
  BY <1>1, FlushWrites
<1>5. Unsaved(h) => nodes[h].kids # <<>>
  BY DEF Unsaved, Range
<1>6. ASSUME NEW d \in DOMAIN nodes, Unsaved(d), ~Unsaved(d)'
      PROVE  d = h
  BY <1>1, <1>6, FlushSaves
<1> SUFFICES ASSUME NEW i \in INodes, Clean(i)' PROVE ReadIsMade(i)'
  BY DEF CleanIsMade
<1>7. CASE wrote /\ i = ino
  BY <1>3, <1>4, <1>7 DEF ReadIsMade, iNodeRead
<1>8. CASE ~(wrote /\ i = ino)
  <2>1. Clean(i)
    <3> SUFFICES ASSUME NEW d \in DOMAIN nodes, nodes[d].ino = i, Unsaved(d) PROVE FALSE
      BY DEF Clean
    <3>1. d # h
      BY <1>5, <1>8
    <3>2. Unsaved(d)'
      BY <1>6, <3>1
    <3>3. d \in DOMAIN nodes' /\ nodes'[d].ino = i
      BY <1>1, FlushFacts
    <3> QED BY <3>2, <3>3 DEF Clean
  <2>2. ReadIsMade(i)
    BY <2>1 DEF CleanIsMade
  <2>3. blk'[i] = blk[i] /\ data'[i] = data[i]
    BY <1>4, <1>8
  <2> QED BY <1>3, <2>2, <2>3 DEF ReadIsMade, iNodeRead
<1> QED BY <1>7, <1>8

(* The entries that addChild makes are to be written. *)
LEMMA GrowthUnsaved ==
  ASSUME TypeOK, NEW d \in DOMAIN nodes, NEW entries \in Seq(Entries),
         NEW literal \in BOOLEAN, addChildren(d, entries, literal), entries # <<>>
  PROVE  Unsaved(d)'
<1>1. /\ Len(entries) \in Nat \ {0} /\ Len(nodes) \in Nat /\ DOMAIN nodes = 1 .. Len(nodes)
      /\ DOMAIN nodes' = 1 .. Len(nodes) + Len(entries)
  BY NodeFacts, AddChildrenFacts
<1>2. Len(nodes) + 1 \in DOMAIN nodes' \ DOMAIN nodes
  BY <1>1
<1> PICK k \in DOMAIN nodes' \ DOMAIN nodes : TRUE
  BY <1>2
<1>3. k \in Range(nodes'[d].kids) /\ nodes'[k].dirty
  BY KidsStay DEF NewNode
<1> QED BY <1>3 DEF Unsaved

(* After addChild, a directory is clean only if it was before. *)
LEMMA GrowthClean ==
  ASSUME TypeOK, NEW d \in DOMAIN nodes, NEW entries \in Seq(Entries),
         NEW literal \in BOOLEAN, addChildren(d, entries, literal), NEW i \in INodes, Clean(i)'
  PROVE  Clean(i) /\ (entries # <<>> => i # nodes[d].ino)
<1>1. Clean(i)
  <2> SUFFICES ASSUME NEW e \in DOMAIN nodes, nodes[e].ino = i, Unsaved(e) PROVE FALSE
    BY DEF Clean
  <2>1. Unsaved(e)'
    BY UnsavedGrows
  <2>2. e \in DOMAIN nodes' /\ nodes'[e].ino = i
    BY KidsStay
  <2> QED BY <2>1, <2>2 DEF Clean
<1>2. entries # <<>> => Unsaved(d)'
  BY GrowthUnsaved
<1>3. d \in DOMAIN nodes' /\ nodes'[d].ino = nodes[d].ino
  BY KidsStay
<1> QED BY <1>1, <1>2, <1>3 DEF Clean

LEMMA CleanStep ==
  ASSUME IInv, OneNode, CachedIsMade, CleanIsMade, Rooms, INodesWritten, [Next]_vars
  PROVE  CleanIsMade'
<1>1. TypeOK /\ Control /\ Heap /\ WayOfFlush
  BY DEF IInv
<1>2. CASE getChildren
  <2>1. cwd \in DOMAIN nodes /\ Loaded(cwd) /\ UNCHANGED <<blk, data, made>>
    BY <1>1, <1>2 DEF TypeOK, getChildren, device, volume, ghosts
  <2>2. ASSUME NEW i \in INodes, Clean(i)' PROVE Clean(i)
    <3> PICK c \in DOMAIN nodes : c = cwd
      BY <2>1
    <3>1. CASE nodes' = nodes
      BY <2>2, <3>1 DEF Clean, Unsaved
    <3>2. ASSUME NEW entries \in Seq(Entries), NEW literal \in BOOLEAN,
                 addChildren(c, entries, literal)
          PROVE  Clean(i)
      BY <1>1, <2>2, <3>2, GrowthClean
    <3> QED BY <1>1, <2>1, <3>1, <3>2, LoadFacts
  <2> QED BY <2>1, <2>2 DEF CleanIsMade, ReadIsMade, iNodeRead
<1>3. CASE \E name \in Names : mkdir(name)
  <2> PICK name \in Names : mkdir(name)
    BY <1>3
  <2>1. PICK c \in DOMAIN nodes, ino \in INodes :
           /\ made' = [made EXCEPT ![nodes[c].ino] = Append(@, Entry(name, ino))]
           /\ <<Entry(name, ino)>> \in Seq(Entries)
           /\ addChildren(c, <<Entry(name, ino)>>, FALSE)
    BY <1>1, OrderlyMkdir
  <2>2. blk' = blk /\ data' = data
    BY DEF mkdir, device
  <2> SUFFICES ASSUME NEW i \in INodes, Clean(i)' PROVE ReadIsMade(i)'
    BY DEF CleanIsMade
  <2>3. <<Entry(name, ino)>> # <<>>
    OBVIOUS
  <2>4. Clean(i) /\ i # nodes[c].ino
    BY <1>1, <2>1, <2>3, GrowthClean
  <2>5. made'[i] = made[i]
    BY <1>1, <2>1, <2>4 DEF TypeOK
  <2> QED BY <2>2, <2>4, <2>5 DEF CleanIsMade, ReadIsMade, iNodeRead
<1>4. CASE flushDirectoryCache
  BY <1>4, FlushClean
<1>5. CASE Mount
  <2>1. /\ nodes = <<>> /\ blk = dBlk /\ blk' = dBlk /\ made' = made
        /\ data' = [i \in INodes |-> Saved(i)]
    BY <1>5 DEF Mount, Mounted, INodesWritten, ghosts
  <2>2. \A i \in INodes : Clean(i)
    BY <2>1 DEF Clean
  <2>3. \A i \in INodes : iNodeRead(i)' = iNodeRead(i)
    BY <2>1 DEF iNodeRead, Saved
  <2> QED BY <2>1, <2>2, <2>3 DEF CleanIsMade, ReadIsMade
<1>6. CASE CloseBlockDevice
  <2>1. phase = "close" /\ blk' = dBlk /\ blk = dBlk /\ data' = data /\ made' = made
    BY <1>6 DEF CloseBlockDevice, DropMemory, INodesWritten, device
  <2>2. \A i \in INodes : Clean(i)
    BY <1>1, <2>1, FlushDone DEF Clean, Control
  <2> QED BY <2>1, <2>2 DEF CleanIsMade, ReadIsMade, iNodeRead
<1>7. CASE UNCHANGED <<nodes, blk, data, made>>
  BY <1>7 DEF CleanIsMade, Clean, Unsaved, ReadIsMade, iNodeRead
<1>8. CASE ls \/ cdUp \/ (\E name \in Names \cup {"."} : cd(name)) \/ Unmount \/ WriteBlockMap
           \/ WriteINodeMap \/ allocBlock \/ allocINode \/ UNCHANGED vars
  BY <1>7, <1>8 DEF ls, cdUp, cd, Unmount, WriteBlockMap, WriteINodeMap, allocBlock, allocINode,
                    vars, device, volume, ghosts
<1>9. ~CloseWithError
  BY DEF CloseWithError, INodesWritten
<1> QED
  BY <1>2, <1>3, <1>4, <1>5, <1>6, <1>8, <1>9, NothingFails DEF Next

(* What the flush has written of a directory is all that is cached of it. *)
LEMMA FlushWritten ==
  ASSUME IInv, OneNode, CachedIsMade, CleanIsWritten, Rooms, flushDirectoryCache
  PROVE  CleanIsWritten'
<1>1. TypeOK /\ Control /\ Heap /\ WayOfFlush
  BY DEF IInv
<1>2. Head(todo) \in DOMAIN nodes
  BY <1>1, FlushFacts
<1> PICK h \in DOMAIN nodes : h = Head(todo)
  BY <1>2
<1> DEFINE ino == nodes[h].ino
           wrote == nodes[h].kids # <<>> /\ (Unsaved(h) \/ nodes[h].dirty)
<1>3. /\ ~wrote => UNCHANGED <<blk, free, data>>
      /\ wrote => /\ blk'[ino] > 0 /\ data'[ino] = Contents(ino, made[ino])
                  /\ \A i \in INodes : i # ino => blk'[i] = blk[i] /\ data'[i] = data[i]
  BY <1>1, FlushWrites
<1>4. /\ DOMAIN nodes' = DOMAIN nodes
      /\ \A k \in DOMAIN nodes : /\ nodes'[k].ino = nodes[k].ino /\ nodes[k].ino \in INodes
                               /\ nodes'[k].kids = nodes[k].kids
  BY <1>1, FlushFacts, NodeFacts
<1>5. \A k \in DOMAIN nodes : Text(k)' = Text(k)
  BY <1>1, FlushKeepsTexts
<1> SUFFICES ASSUME NEW d \in DOMAIN nodes, nodes[d].kids # <<>>, ~Unsaved(d)'
             PROVE  iNodeRead(nodes[d].ino)' = Text(d)
  BY <1>4, <1>5 DEF CleanIsWritten, iNodeRead
<1>6. CASE d = h /\ wrote
  <2>1. Text(d) = Contents(ino, made[ino])
    BY <1>6 DEF CachedIsMade
  <2> QED BY <1>3, <1>4, <1>6, <2>1 DEF iNodeRead
<1>7. CASE ~(d = h /\ wrote)
  <2>1. ~Unsaved(d)
    BY <1>1, <1>7, FlushSaves
  <2>2. iNodeRead(nodes[d].ino) = Text(d)
    BY <2>1 DEF CleanIsWritten
  <2>3. wrote => nodes[d].ino # ino
    <3>1. wrote => Named(h) /\ d # h
      BY <1>7 DEF OneNode
    <3> QED BY <3>1, OneList
  <2>4. blk'[nodes[d].ino] = blk[nodes[d].ino] /\ data'[nodes[d].ino] = data[nodes[d].ino]
    BY <1>3, <1>4, <2>3
  <2> QED BY <1>4, <2>2, <2>4 DEF iNodeRead
<1> QED BY <1>6, <1>7

(* A directory that entries are added to has its flags up. *)
LEMMA GrowthWritten ==
  ASSUME TypeOK, Heap, CleanIsWritten, NEW d \in DOMAIN nodes, NEW entries \in Seq(Entries),
         NEW literal \in BOOLEAN, addChildren(d, entries, literal), entries # <<>>,
         TypeOK', UNCHANGED <<blk, data>>
  PROVE  CleanIsWritten'
<1>1. Unsaved(d)'
  BY GrowthUnsaved
<1>2. /\ \A e \in DOMAIN nodes : e # d => Text(e)' = Text(e)
      /\ \A e \in DOMAIN nodes' \ DOMAIN nodes : nodes'[e].kids = <<>>
  BY TextGrows
<1> SUFFICES ASSUME NEW e \in DOMAIN nodes', nodes'[e].kids # <<>>, ~Unsaved(e)'
             PROVE  iNodeRead(nodes[e].ino)' = Text(e)'
  BY DEF CleanIsWritten
<1>3. e \in DOMAIN nodes /\ e # d
  BY <1>1, <1>2
<1>4. nodes'[e] = nodes[e] /\ ~Unsaved(e)
  BY <1>3, AddChildrenFacts, UnsavedGrows
<1>5. iNodeRead(nodes[e].ino) = Text(e)
  <2>1. nodes[e].kids # <<>>
    BY <1>4
  <2> QED BY <1>3, <1>4, <2>1 DEF CleanIsWritten
<1> QED BY <1>2, <1>3, <1>4, <1>5 DEF iNodeRead

LEMMA WrittenStep ==
  ASSUME IInv, OneNode, CachedIsMade, CleanIsWritten, Rooms, [Next]_vars, TypeOK'
  PROVE  CleanIsWritten'
<1>1. TypeOK /\ Control /\ Heap
  BY DEF IInv
<1>2. CASE getChildren
  <2>1. cwd \in DOMAIN nodes /\ UNCHANGED <<blk, data>>
    BY <1>1, <1>2, ReadFacts DEF Reads, device, volume
  <2>2. CASE nodes' = nodes
    BY <2>1, <2>2 DEF CleanIsWritten, Unsaved, Text, iNodeRead
  <2>3. ASSUME NEW entries \in Seq(Entries), NEW literal \in BOOLEAN,
               entries # <<>>, addChildren(cwd, entries, literal)
        PROVE  CleanIsWritten'
    BY <1>1, <2>1, <2>3, GrowthWritten
  <2> QED BY <1>1, <1>2, <2>2, <2>3, ReadFacts DEF Reads
<1>3. CASE \E name \in Names : mkdir(name)
  <2> PICK name \in Names : mkdir(name)
    BY <1>3
  <2>1. PICK c \in DOMAIN nodes, ino \in INodes :
           /\ <<Entry(name, ino)>> \in Seq(Entries)
           /\ addChildren(c, <<Entry(name, ino)>>, FALSE)
    BY <1>1, OrderlyMkdir
  <2>2. blk' = blk /\ data' = data
    BY DEF mkdir, device
  <2>3. <<Entry(name, ino)>> # <<>>
    OBVIOUS
  <2> QED BY <1>1, <2>1, <2>2, <2>3, GrowthWritten
<1>4. CASE flushDirectoryCache
  BY <1>4, FlushWritten
<1>5. CASE Mount
  <2>1. DOMAIN nodes' = {1} /\ nodes'[1].kids = <<>>
    BY <1>5 DEF Mount, NewNode
  <2> QED BY <2>1 DEF CleanIsWritten
<1>6. CASE nodes' = <<>>
  BY <1>6 DEF CleanIsWritten
<1>7. CASE UNCHANGED <<nodes, blk, data>>
  BY <1>7 DEF CleanIsWritten, Unsaved, Text, iNodeRead
<1>8. CASE ls \/ cdUp \/ (\E name \in Names \cup {"."} : cd(name)) \/ Unmount \/ WriteBlockMap
           \/ WriteINodeMap \/ allocBlock \/ allocINode \/ UNCHANGED vars
  BY <1>7, <1>8 DEF ls, cdUp, cd, Unmount, WriteBlockMap, WriteINodeMap, allocBlock, allocINode,
                    vars, device, volume
<1>9. CASE CloseBlockDevice \/ CloseWithError
  BY <1>6, <1>9 DEF CloseBlockDevice, CloseWithError, DropMemory
<1> QED
  BY <1>2, <1>3, <1>4, <1>5, <1>8, <1>9, NothingFails DEF Next

-----------------------------------------------------------------------------
(* There is always room for a text that is not written yet.                *)
LEMMA FlushRooms ==
  ASSUME IInv, CachedIsMade, Rooms, flushDirectoryCache
  PROVE  Rooms'
<1>1. TypeOK /\ Control /\ Heap /\ WayOfFlush
  BY DEF IInv
<1>2. Head(todo) \in DOMAIN nodes
  BY <1>1, FlushFacts
<1> PICK h \in DOMAIN nodes : h = Head(todo)
  BY <1>2
<1> DEFINE wrote == nodes[h].kids # <<>> /\ (Unsaved(h) \/ nodes[h].dirty)
<1>3. /\ ~wrote => UNCHANGED <<blk, free, data>>
      /\ wrote => blk'[nodes[h].ino] > 0
      /\ \A i \in INodes : blk[i] > 0 => blk'[i] > 0
  BY <1>1, FlushWrites
<1>4. /\ DOMAIN nodes' = DOMAIN nodes /\ phase' = phase /\ cwd' = cwd
      /\ \A k \in DOMAIN nodes :
           /\ nodes'[k].ino = nodes[k].ino /\ nodes'[k].kids = nodes[k].kids
           /\ nodes'[k].dirty => nodes[k].dirty
      /\ ~nodes'[h].dirty
  BY <1>1, FlushFacts DEF flushDirectoryCache
<1> SUFFICES ASSUME NEW d \in DOMAIN nodes, nodes[d].kids # <<>>
             PROVE  /\ nodes'[d].dirty => Unsaved(d)'
                    /\ \/ blk'[nodes[d].ino] > 0
                       \/ phase = "getChildren" /\ d = cwd /\ Unsaved(d)' /\ free' > 0
  BY <1>4 DEF Rooms
<1>5. nodes[d].ino \in INodes
  BY <1>1, NodeFacts
<1>6. /\ nodes[d].dirty => Unsaved(d)
      /\ \/ blk[nodes[d].ino] > 0
         \/ phase = "getChildren" /\ d = cwd /\ Unsaved(d) /\ free > 0
  BY DEF Rooms
<1>7. CASE d = h
  <2>1. ~nodes'[d].dirty
    BY <1>4, <1>7
  <2>2. CASE wrote
    BY <1>3, <1>7, <2>1, <2>2
  <2>3. CASE ~wrote
    BY <1>3, <1>5, <1>6, <1>7, <2>1, <2>3
  <2> QED BY <2>2, <2>3
<1>8. CASE d # h
  <2>1. Unsaved(d) => Unsaved(d)'
    BY <1>1, <1>8, FlushSaves
  <2>2. CASE blk[nodes[d].ino] > 0
    BY <1>3, <1>4, <1>5, <1>6, <2>1, <2>2
  <2>3. CASE phase = "getChildren" /\ d = cwd /\ Unsaved(d) /\ free > 0
    <3>1. ~Unsaved(h)
      BY <1>1, <1>8, <2>3 DEF WayOfFlush
    <3>2. nodes[h].kids # <<>> => ~nodes[h].dirty
      BY <3>1 DEF Rooms
    <3>3. free' = free
      BY <1>3, <3>1, <3>2
    <3> QED BY <1>4, <1>6, <2>1, <2>3, <3>3
  <2> QED BY <1>6, <2>2, <2>3
<1> QED BY <1>7, <1>8

(* addChild makes its directory unsaved, and no other is as it was not. *)
LEMMA GrowthRooms ==
  ASSUME TypeOK, Rooms, NEW d \in DOMAIN nodes, NEW entries \in Seq(Entries),
         NEW literal \in BOOLEAN, addChildren(d, entries, literal), entries # <<>>,
         blk' = blk,
         \A e \in DOMAIN nodes : nodes[e].kids # <<>> => blk[nodes[e].ino] > 0,
         \/ blk[nodes[d].ino] > 0
         \/ phase' = "getChildren" /\ d = cwd' /\ free' > 0
  PROVE  Rooms'
<1>1. Unsaved(d)'
  BY GrowthUnsaved
<1> SUFFICES ASSUME NEW e \in DOMAIN nodes', nodes'[e].kids # <<>>
             PROVE  /\ nodes'[e].dirty => Unsaved(e)'
                    /\ \/ blk[nodes'[e].ino] > 0
                       \/ phase' = "getChildren" /\ e = cwd' /\ Unsaved(e)' /\ free' > 0
  BY DEF Rooms
<1>2. e \in DOMAIN nodes
  <2> SUFFICES ASSUME e \notin DOMAIN nodes PROVE FALSE
    OBVIOUS
  <2>1. PICK j \in 1 .. Len(entries) : nodes'[e] = NewNode(entries[j].name, entries[j].ino, literal)
    BY KidsStay
  <2> QED BY <2>1 DEF NewNode
<1>3. nodes'[e].ino = nodes[e].ino /\ nodes'[e].dirty = nodes[e].dirty
  BY <1>2, KidsStay
<1>4. CASE e = d
  BY <1>1, <1>3, <1>4
<1>5. CASE e # d
  <2>1. nodes[e].kids # <<>>
    BY <1>2, <1>5, AddChildrenFacts
  <2>2. Unsaved(e) => Unsaved(e)'
    BY <1>2, UnsavedGrows
  <2> QED BY <1>2, <1>3, <2>1, <2>2 DEF Rooms
<1> QED BY <1>4, <1>5

LEMMA RoomsStep ==
  ASSUME IInv, CachedIsMade, Rooms, [Next]_vars
  PROVE  Rooms'
<1>1. TypeOK /\ Control /\ Heap /\ WayOfFlush
  BY DEF IInv
<1>2. ASSUME phase # "getChildren" \/ todo = <<>>
      PROVE  \A e \in DOMAIN nodes : nodes[e].kids # <<>> => blk[nodes[e].ino] > 0
  <2> SUFFICES ASSUME NEW e \in DOMAIN nodes, nodes[e].kids # <<>>
               PROVE  blk[nodes[e].ino] > 0
    OBVIOUS
  <2>1. phase = "getChildren" => ~Unsaved(e)
    BY <1>1, <1>2, FlushDone
  <2> QED BY <2>1 DEF Rooms
<1>3. CASE getChildren
  <2>1. /\ cwd \in DOMAIN nodes /\ Loaded(cwd) /\ phase = "idle" /\ phase' = "getChildren"
        /\ UNCHANGED <<blk, free, cwd>>
    BY <1>1, <1>3 DEF TypeOK, getChildren, Ready, volume
  <2>2. free > 0 \/ blk[nodes[cwd].ino] > 0
    BY <1>3, NotOrderly DEF getChildren, Room
  <2> PICK c \in DOMAIN nodes : c = cwd
    BY <2>1
  <2>3. CASE nodes' = nodes
    <3>1. \A e \in DOMAIN nodes : nodes[e].kids # <<>> => blk[nodes[e].ino] > 0
      BY <1>2, <2>1
    <3> QED BY <2>1, <2>3, <3>1 DEF Rooms, Unsaved
  <2>4. ASSUME NEW entries \in Seq(Entries), NEW literal \in BOOLEAN,
               entries # <<>>, addChildren(c, entries, literal)
        PROVE  Rooms'
    BY <1>1, <1>2, <2>1, <2>2, <2>4, GrowthRooms
  <2> QED BY <1>1, <2>1, <2>3, <2>4, LoadFacts
<1>4. CASE \E name \in Names : mkdir(name)
  <2> PICK name \in Names : mkdir(name)
    BY <1>4
  <2>1. PICK c \in DOMAIN nodes, ino \in INodes :
           /\ nodes[c].kids # <<>> /\ <<Entry(name, ino)>> \in Seq(Entries)
           /\ addChildren(c, <<Entry(name, ino)>>, FALSE)
    BY <1>1, OrderlyMkdir
  <2>2. todo = <<>> /\ blk' = blk
    BY DEF mkdir, Return, Served
  <2>3. \A e \in DOMAIN nodes : nodes[e].kids # <<>> => blk[nodes[e].ino] > 0
    BY <1>2, <2>2
  <2>4. <<Entry(name, ino)>> # <<>>
    OBVIOUS
  <2> QED BY <1>1, <2>1, <2>2, <2>3, <2>4, GrowthRooms
<1>5. CASE flushDirectoryCache
  BY <1>5, FlushRooms
<1>6. CASE Mount
  <2>1. DOMAIN nodes' = {1} /\ nodes'[1].kids = <<>>
    BY <1>6 DEF Mount, NewNode
  <2> QED BY <2>1 DEF Rooms
<1>7. CASE nodes' = <<>>
  BY <1>7 DEF Rooms
<1>8. ASSUME phase # "getChildren" \/ todo = <<>>, UNCHANGED <<nodes, blk>>
      PROVE  Rooms'
  <2>1. \A e \in DOMAIN nodes : nodes[e].kids # <<>> => blk[nodes[e].ino] > 0
    BY <1>2, <1>8
  <2> QED BY <1>8, <2>1 DEF Rooms, Unsaved
<1>9. CASE ls \/ cdUp \/ (\E name \in Names \cup {"."} : cd(name)) \/ Unmount \/ WriteBlockMap
           \/ WriteINodeMap \/ allocBlock \/ allocINode
  BY <1>8, <1>9 DEF ls, cdUp, cd, Return, Served, Ready, Unmount, WriteBlockMap, WriteINodeMap,
                    allocBlock, allocINode, device, volume
<1>10. CASE UNCHANGED vars
  BY <1>10 DEF Rooms, Unsaved, vars, volume
<1>11. CASE CloseBlockDevice \/ CloseWithError
  BY <1>7, <1>11 DEF CloseBlockDevice, CloseWithError, DropMemory
<1> QED
  BY <1>3, <1>4, <1>5, <1>6, <1>9, <1>10, <1>11, NothingFails DEF Next

-----------------------------------------------------------------------------
(* writeINodeMap writes every block of the map. *)
LEMMA BlockOfINode ==
  ASSUME NEW i \in INodes, NEW n \in Nat
  PROVE  /\ i \div INodesPerBlock \in Nat
         /\ INodeCount <= (n + 1) * INodesPerBlock => i \div INodesPerBlock <= n
<1> DEFINE B == INodesPerBlock
           d == i \div B
<1>1. B \in Nat \ {0} /\ INodeCount \in Nat /\ i \in Nat /\ i < INodeCount
  BY DirectoryAssumption DEF INodes
<1>2. d \in Nat /\ d * B <= i
  <2> HIDE DEF B
  <2> QED BY <1>1
<1>3. ASSUME INodeCount <= (n + 1) * B, d > n PROVE FALSE
  <2> HIDE DEF B, d
  <2>1. d >= n + 1
    BY <1>2, <1>3
  <2>2. d * B >= (n + 1) * B
    BY <1>1, <1>2, <2>1
  <2>3. (n + 1) * B \in Nat /\ d * B \in Nat
    BY <1>1, <1>2
  <2> QED BY <1>1, <1>2, <1>3, <2>2, <2>3
<1> QED BY <1>2, <1>3

LEMMA WriteINodeMapStep ==
  ASSUME TypeOK, Control, INodesWritten, WriteINodeMap
  PROVE  INodesWritten'
<1>1. next \in Nat /\ INodeCount \in Nat /\ INodesPerBlock \in Nat
      /\ (next + 1) * INodesPerBlock \in Nat
  BY DirectoryAssumption DEF TypeOK
<1>2. alloc' = alloc /\ blk' = blk /\ nodes' = nodes /\ Mounted
  BY DEF WriteINodeMap, volume, Control
<1>3. ASSUME NEW i \in INodes, i \div INodesPerBlock < next + 1
      PROVE  dAlloc'[i] = alloc[i] /\ dBlk'[i] = blk[i]
  <2>1. i \div INodesPerBlock \in Nat
    BY BlockOfINode
  <2>2. CASE i \div INodesPerBlock = next
    BY <2>2 DEF WriteINodeMap
  <2>3. CASE i \div INodesPerBlock < next
    <3>1. i \div INodesPerBlock # next
      BY <1>1, <2>1, <2>3
    <3>2. dAlloc'[i] = dAlloc[i] /\ dBlk'[i] = dBlk[i]
      BY <3>1 DEF WriteINodeMap
    <3> QED BY <2>3, <3>2 DEF INodesWritten, WriteINodeMap
  <2> QED BY <1>1, <1>3, <2>1, <2>2, <2>3
<1>4. CASE (next + 1) * INodesPerBlock < INodeCount
  <2>1. next' = next + 1 /\ phase' = "inodes"
    BY <1>4 DEF WriteINodeMap
  <2> QED BY <1>2, <1>3, <2>1 DEF INodesWritten, Mounted
<1>5. CASE ~((next + 1) * INodesPerBlock < INodeCount)
  <2>1. phase' = "close"
    BY <1>5 DEF WriteINodeMap
  <2>2. ASSUME NEW i \in INodes PROVE dAlloc'[i] = alloc[i] /\ dBlk'[i] = blk[i]
    <3>1. i \div INodesPerBlock <= next /\ i \div INodesPerBlock \in Nat
      BY <1>1, <1>5, BlockOfINode
    <3> QED BY <1>1, <1>3, <3>1
  <2>3. /\ dAlloc' = [i \in INodes |-> dAlloc'[i]] /\ dBlk' = [i \in INodes |-> dBlk'[i]]
        /\ alloc = [i \in INodes |-> alloc[i]] /\ blk = [i \in INodes |-> blk[i]]
    BY DEF WriteINodeMap, TypeOK
  <2>4. dAlloc' = alloc /\ dBlk' = blk
    BY <2>2, <2>3
  <2> QED BY <1>2, <2>1, <2>4 DEF INodesWritten
<1> QED BY <1>4, <1>5

(* What is mounted stays mounted while the cache grows or is flushed. *)
LEMMA GrowsMounted ==
  ASSUME TypeOK, Control, Mounted,
         getChildren \/ flushDirectoryCache \/ \E name \in Names : mkdir(name)
  PROVE  Mounted'
<1>1. RootDir \in DOMAIN nodes
  BY NodeFacts DEF Mounted, RootDir
<1>2. ASSUME RootDir \in DOMAIN nodes' PROVE Mounted'
  BY <1>2 DEF Mounted
<1>3. CASE flushDirectoryCache
  BY <1>1, <1>2, <1>3, FlushFacts
<1>4. CASE \E name \in Names : mkdir(name)
  BY <1>1, <1>2, <1>4, OrderlyMkdir, KidsStay
<1>5. CASE getChildren
  <2>1. cwd \in DOMAIN nodes /\ Loaded(cwd)
    BY <1>5 DEF TypeOK, getChildren
  <2>2. ASSUME NEW entries \in Seq(Entries), NEW literal \in BOOLEAN,
               addChildren(cwd, entries, literal)
        PROVE  Mounted'
    BY <1>1, <1>2, <2>1, <2>2, KidsStay
  <2> QED BY <1>1, <1>2, <2>1, <2>2, LoadFacts
<1> QED BY <1>3, <1>4, <1>5

LEMMA INodesWrittenStep ==
  ASSUME TypeOK, Control, INodesWritten, [Next]_vars
  PROVE  INodesWritten'
<1>1. CASE WriteINodeMap
  BY <1>1, WriteINodeMapStep
<1>2. CASE WriteBlockMap
  <2>1. /\ next' = 0 /\ phase' = "inodes" /\ nodes' = nodes /\ Mounted
    BY <1>2 DEF WriteBlockMap, Control
  <2>2. \A i \in INodes : ~(i \div INodesPerBlock < 0)
    <3>1. ASSUME NEW i \in INodes PROVE ~(i \div INodesPerBlock < 0)
      <4>1. i \div INodesPerBlock \in Nat
        BY BlockOfINode
      <4> QED BY <4>1
    <3> QED BY <3>1
  <2> QED BY <2>1, <2>2 DEF INodesWritten, Mounted
<1>3. CASE CloseBlockDevice \/ CloseWithError
  BY <1>3 DEF INodesWritten, CloseBlockDevice, CloseWithError, DropMemory, device
<1>4. CASE Mount
  BY <1>4 DEF INodesWritten, Mount, Mounted
<1>5. ASSUME phase' \notin {"inodes", "close", "failed"}, nodes' # <<>> PROVE INodesWritten'
  BY <1>5 DEF INodesWritten, Mounted
<1>6. CASE getChildren \/ flushDirectoryCache \/ (\E name \in Names : mkdir(name)) \/ ls \/ cdUp
           \/ (\E name \in Names \cup {"."} : cd(name)) \/ Unmount
  <2>1. phase' \notin {"inodes", "close", "failed"} /\ Mounted
    BY <1>6 DEF getChildren, flushDirectoryCache, mkdir, ls, cdUp, cd, Unmount, Return, Served,
                Ready, Control, INodesWritten
  <2>2. Mounted'
    <3>1. CASE nodes' = nodes
      BY <2>1, <3>1 DEF Mounted
    <3>2. CASE getChildren \/ flushDirectoryCache \/ (\E name \in Names : mkdir(name))
      BY <2>1, <3>2, GrowsMounted
    <3> QED BY <1>6, <3>1, <3>2 DEF ls, cdUp, cd, Unmount
  <2> QED BY <1>5, <2>1, <2>2 DEF Mounted
<1>7. CASE allocBlock \/ allocINode
  <2>1. phase' = "idle" /\ nodes' = nodes /\ Mounted
    BY <1>7 DEF allocBlock, allocINode, Ready
  <2> QED BY <1>5, <2>1 DEF Mounted
<1>8. CASE UNCHANGED vars
  BY <1>8 DEF INodesWritten, Mounted, vars, device, volume
<1> QED
  BY <1>1, <1>2, <1>3, <1>4, <1>6, <1>7, <1>8, NothingFails DEF Next

-----------------------------------------------------------------------------
(* The invariant holds in every state.                                     *)

LEMMA SInvInit ==
  ASSUME Init
  PROVE  SInv
<1>1. IInv
  BY InvInit
<1>2. nodes = <<>> /\ DOMAIN nodes = {} /\ cwd = Null /\ phase = "idle"
  BY DEF Init
<1>3. \A i \in INodes : made[i] = <<>> /\ DOMAIN made[i] = {}
  BY DEF Init, NoText
<1>4. \A i \in INodes : blk[i] = 0
  BY DEF Init
<1>5. OneNode /\ CachedIsMade /\ CleanIsWritten /\ Rooms
  BY <1>2 DEF OneNode, CachedIsMade, CleanIsWritten, Rooms, Mounted
<1>6. MadeOnce
  <2>1. alloc[Root]
    <3>1. Root \in INodes
      BY DirectoryAssumption DEF Root, INodes
    <3>2. alloc = [i \in INodes |-> i = Root]
      BY DEF Init
    <3> QED BY <3>1, <3>2
  <2> QED BY <1>3, <2>1 DEF MadeOnce, NewDirectoriesAreNew
<1>7. CleanIsMade
  BY <1>3, <1>4 DEF CleanIsMade, ReadIsMade, iNodeRead
<1>8. INodesWritten
  BY <1>2 DEF INodesWritten, Init
<1> QED BY <1>1, <1>5, <1>6, <1>7, <1>8 DEF SInv

LEMMA SInvStep ==
  ASSUME SInv, [Next]_vars
  PROVE  SInv'
<1>1. /\ IInv /\ OneNode /\ CachedIsMade /\ MadeOnce /\ CleanIsMade /\ CleanIsWritten
      /\ Rooms /\ INodesWritten /\ TypeOK /\ Control
  BY DEF SInv, IInv
<1>2. IInv'
  BY <1>1, InvStep
<1>3. TypeOK'
  BY <1>2 DEF IInv
<1>4. OneNode' /\ CachedIsMade' /\ MadeOnce'
  BY <1>1, <1>3, OneNodeStep
<1>5. CleanIsMade'
  BY <1>1, CleanStep
<1>6. Rooms'
  BY <1>1, RoomsStep
<1>7. INodesWritten'
  BY <1>1, INodesWrittenStep
<1>8. CleanIsWritten'
  BY <1>1, <1>3, WrittenStep
<1> QED BY <1>2, <1>4, <1>5, <1>6, <1>7, <1>8 DEF SInv

LEMMA OrderlyInvariance == Spec => []SInv
BY SInvInit, SInvStep, PTL DEF Spec

(* In orderly sessions, what mkdir, ls and cd find in the current          *)
(* directory is what was made in it, in any session and in this order      *)
(* (directory_cache.c:60-101).                                             *)
THEOREM ContentsAreAccurate == Spec => []AccurateContents
<1>1. ASSUME SInv PROVE AccurateContents
  <2>1. TypeOK /\ Control /\ CachedIsMade
    BY <1>1 DEF SInv, IInv
  <2>2. Served => cwd \in DOMAIN nodes /\ nodes[cwd].kids # <<>>
    BY <2>1 DEF Served, Control, TypeOK
  <2> QED BY <2>1, <2>2 DEF AccurateContents, CachedIsMade
<1> QED BY <1>1, OrderlyInvariance, PTL

(* In orderly sessions, every directory that is cached is on the device as *)
(* it is in the cache, but for the one that the shell is in                *)
(* (directory_cache.c:60-147).                                             *)
THEOREM OthersAreWritten == Spec => []OnlyCwdUnwritten
<1>1. SInv => OnlyCwdUnwritten
  BY DEF SInv, IInv, WayOfFlush, CleanIsWritten, OnlyCwdUnwritten
<1> QED BY <1>1, OrderlyInvariance, PTL

(* In orderly sessions, when unmount is about to say that it was           *)
(* successful, every entry of every directory is on the device             *)
(* (filesystem.c:135-157).                                                 *)
THEOREM EverythingIsSaved == Spec => []UnmountSavesAll
<1>1. ASSUME SInv PROVE UnmountSavesAll
  <2>1. Control /\ WayOfFlush /\ CleanIsMade /\ INodesWritten
    BY <1>1 DEF SInv, IInv
  <2> SUFFICES ASSUME phase = "close", NEW i \in INodes, made[i] # <<>>
               PROVE  Saved(i) = Contents(i, made[i])
    BY DEF UnmountSavesAll
  <2>2. Clean(i)
    BY <2>1, FlushDone DEF Clean, Control
  <2>3. iNodeRead(i) = Contents(i, made[i])
    BY <2>1, <2>2 DEF CleanIsMade, ReadIsMade
  <2>4. Saved(i) = iNodeRead(i)
    BY <2>1 DEF INodesWritten, Saved, iNodeRead
  <2> QED BY <2>3, <2>4
<1> QED BY <1>1, OrderlyInvariance, PTL

-----------------------------------------------------------------------------
(* The tree on the device.                                                 *)

LEMMA EachHasAnEntryStep ==
  ASSUME SInv, EachHasAnEntry, "allocINode" \notin UserCommands, [Next]_vars
  PROVE  EachHasAnEntry'
<1>1. TypeOK /\ Control /\ INodesWritten
  BY DEF SInv, IInv
<1>2. CASE \E name \in Names : mkdir(name)
  <2> PICK name \in Names : mkdir(name)
    BY <1>2
  <2>1. PICK c \in DOMAIN nodes, ino \in INodes :
           /\ alloc' = [alloc EXCEPT ![ino] = TRUE]
           /\ made' = [made EXCEPT ![nodes[c].ino] = Append(@, Entry(name, ino))]
           /\ Entry(name, ino) \in Entries
    BY <1>1, OrderlyMkdir
  <2> DEFINE x == Entry(name, ino)
             p == nodes[c].ino
  <2>2. p \in INodes /\ made[p] \in Seq(Entries)
    BY <1>1, NodeFacts DEF TypeOK
  <2>3. made'[p] = Append(made[p], x) /\ \A q \in INodes : q # p => made'[q] = made[q]
    BY <1>1, <2>1, <2>2 DEF TypeOK
  <2>4. x.ino = ino /\ x.name # "."
    BY DirectoryAssumption DEF Entry
  <2>5. /\ DOMAIN made'[p] = 1 .. Len(made[p]) + 1 /\ DOMAIN made[p] = 1 .. Len(made[p])
        /\ Len(made[p]) \in Nat
        /\ \A j \in DOMAIN made[p] : made'[p][j] = made[p][j]
        /\ made'[p][Len(made[p]) + 1] = x
    BY <2>1, <2>2, <2>3, AppendFacts
  <2> HIDE DEF x, p
  <2>6. x \in Range(made'[p]) /\ Range(made[p]) \subseteq Range(made'[p])
    BY <2>5 DEF Range
  <2>7. \A q \in INodes : Range(made[q]) \subseteq Range(made'[q])
    BY <2>3, <2>6
  <2> SUFFICES ASSUME NEW i \in INodes \ {Root}, alloc'[i]
               PROVE  \E q \in INodes : i \in Dirs(made'[q])
    BY DEF EachHasAnEntry, Dirs
  <2>8. CASE i = ino
    BY <2>2, <2>4, <2>6, <2>8 DEF Dirs
  <2>9. CASE i # ino
    <3>1. alloc[i]
      BY <1>1, <2>1, <2>9 DEF TypeOK
    <3>2. PICK q \in INodes : i \in Dirs(made[q])
      BY <3>1 DEF EachHasAnEntry
    <3> QED BY <2>7, <3>2 DEF Dirs
  <2> QED BY <2>8, <2>9
<1>3. CASE UNCHANGED <<alloc, made>>
  BY <1>3 DEF EachHasAnEntry
<1>4. CASE Mount \/ CloseBlockDevice
  <2>1. alloc' = alloc /\ made' = made
    BY <1>1, <1>4 DEF Mount, CloseBlockDevice, DropMemory, INodesWritten, ghosts
  <2> QED BY <1>3, <2>1
<1>5. CASE getChildren \/ flushDirectoryCache \/ ls \/ cdUp \/ Unmount \/ WriteBlockMap
           \/ WriteINodeMap \/ allocBlock \/ (\E name \in Names \cup {"."} : cd(name))
           \/ UNCHANGED vars
  BY <1>3, <1>5 DEF getChildren, flushDirectoryCache, ls, cdUp, Unmount, WriteBlockMap,
                    WriteINodeMap, allocBlock, cd, vars, volume, ghosts
<1>6. ~allocINode /\ ~CloseWithError
  BY <1>1 DEF allocINode, CloseWithError, INodesWritten
<1> QED BY <1>2, <1>4, <1>5, <1>6, NothingFails DEF Next

(* When nothing is mounted, the entries on the device are the "." and what *)
(* was made.                                                               *)
LEMMA SavedEntries ==
  ASSUME SInv, ~Mounted, NEW p \in INodes
  PROVE  /\ \A k \in DOMAIN Saved(p) : Saved(p)[k].name # "." =>
              k - 1 \in DOMAIN made[p] /\ k = (k - 1) + 1 /\ Saved(p)[k] = made[p][k - 1]
         /\ \A m \in DOMAIN made[p] :
              m + 1 \in DOMAIN Saved(p) /\ Saved(p)[m + 1] = made[p][m]
<1>1. TypeOK /\ CleanIsMade /\ INodesWritten
  BY DEF SInv, IInv
<1>2. Clean(p)
  BY DEF Clean, Mounted
<1>3. Saved(p) = iNodeRead(p)
  BY <1>1 DEF INodesWritten, Saved, iNodeRead
<1>4. ReadIsMade(p)
  BY <1>1, <1>2 DEF CleanIsMade
<1>5. CASE Saved(p) = <<>> /\ made[p] = <<>>
  BY <1>5
<1>6. CASE Saved(p) = Contents(p, made[p])
  <2> DEFINE e == made[p]
             s == Saved(p)
  <2>1. e \in Seq(Entries)
    BY <1>1 DEF TypeOK
  <2>2. /\ Contents(p, e) \in Seq(Entries) /\ Len(Contents(p, e)) = Len(e) + 1
        /\ Contents(p, e)[1] = Entry(".", p)
        /\ \A j \in 1 .. Len(e) : Contents(p, e)[j + 1] = e[j]
    BY <2>1, ContentsFacts
  <2>3. s \in Seq(Entries) /\ Len(s) = Len(e) + 1 /\ s[1] = Entry(".", p)
        /\ \A j \in 1 .. Len(e) : s[j + 1] = e[j]
    BY <1>6, <2>2
  <2> HIDE DEF e, s
  <2>4. DOMAIN s = 1 .. Len(e) + 1 /\ DOMAIN e = 1 .. Len(e) /\ Len(e) \in Nat
    BY <2>1, <2>3
  <2>5. ASSUME NEW k \in DOMAIN s, s[k].name # "."
        PROVE  k - 1 \in DOMAIN e /\ k = (k - 1) + 1 /\ s[k] = e[k - 1]
    <3>1. k # 1
      BY <2>3, <2>5 DEF Entry
    <3>2. k - 1 \in DOMAIN e /\ k = (k - 1) + 1
      BY <2>4, <3>1
    <3> QED BY <2>3, <2>4, <3>2
  <2>6. ASSUME NEW m \in DOMAIN e PROVE m + 1 \in DOMAIN s /\ s[m + 1] = e[m]
    BY <2>3, <2>4
  <2> QED BY <2>5, <2>6 DEF e, s
<1> QED BY <1>3, <1>4, <1>5, <1>6 DEF ReadIsMade

(* In orderly sessions in which nobody takes an inode for something else,  *)
(* the device is a tree whenever nothing is mounted: an inode is allocated *)
(* if and only if it is the root or has an entry, and it has one entry     *)
(* (inode.c:109-119, filesystem.c:138-147, my_shell.c:112-127).            *)
THEOREM TheDeviceIsATree ==
  ASSUME "allocINode" \notin UserCommands
  PROVE  Spec => []DeviceIsATree
<1>1. ASSUME SInv, EachHasAnEntry PROVE DeviceIsATree
  <2>1. TypeOK /\ MadeOnce /\ INodesWritten
    BY <1>1 DEF SInv, IInv
  <2> SUFFICES ASSUME ~Mounted
               PROVE  /\ \A i \in INodes \ {Root} :
                           dAlloc[i] <=> \E p \in INodes : i \in Dirs(Saved(p))
                      /\ \A p, q \in INodes : \A k \in DOMAIN Saved(p), l \in DOMAIN Saved(q) :
                           /\ Saved(p)[k].name # "." /\ Saved(q)[l].name # "."
                           /\ Saved(p)[k].ino = Saved(q)[l].ino
                           => p = q /\ k = l
    BY DEF DeviceIsATree
  <2>2. dAlloc = alloc
    BY <2>1 DEF INodesWritten
  <2>3. ASSUME NEW i \in INodes \ {Root}, alloc[i]
        PROVE  \E p \in INodes : i \in Dirs(Saved(p))
    <3>1. PICK p \in INodes : i \in Dirs(made[p])
      BY <1>1, <2>3 DEF EachHasAnEntry
    <3>2. PICK m \in DOMAIN made[p] : made[p][m].name # "." /\ i = made[p][m].ino
      BY <3>1 DEF Dirs, Range
    <3>3. m + 1 \in DOMAIN Saved(p) /\ Saved(p)[m + 1] = made[p][m]
      BY <1>1, SavedEntries
    <3>4. made[p][m] \in Range(Saved(p))
      BY <3>3 DEF Range
    <3> QED BY <3>2, <3>4 DEF Dirs
  <2>4. ASSUME NEW i \in INodes \ {Root}, NEW p \in INodes, i \in Dirs(Saved(p))
        PROVE  alloc[i]
    <3>1. PICK k \in DOMAIN Saved(p) : Saved(p)[k].name # "." /\ i = Saved(p)[k].ino
      BY <2>4 DEF Dirs, Range
    <3>2. k - 1 \in DOMAIN made[p] /\ i = made[p][k - 1].ino
      BY <1>1, <3>1, SavedEntries
    <3> QED BY <2>1, <3>2 DEF MadeOnce
  <2>5. ASSUME NEW p \in INodes, NEW q \in INodes,
               NEW k \in DOMAIN Saved(p), NEW l \in DOMAIN Saved(q),
               Saved(p)[k].name # ".", Saved(q)[l].name # ".",
               Saved(p)[k].ino = Saved(q)[l].ino
        PROVE  p = q /\ k = l
    <3>1. k - 1 \in DOMAIN made[p] /\ k = (k - 1) + 1 /\ Saved(p)[k] = made[p][k - 1]
      BY <1>1, <2>5, SavedEntries
    <3>2. l - 1 \in DOMAIN made[q] /\ l = (l - 1) + 1 /\ Saved(q)[l] = made[q][l - 1]
      BY <1>1, <2>5, SavedEntries
    <3>3. p = q /\ k - 1 = l - 1
      BY <2>1, <2>5, <3>1, <3>2 DEF MadeOnce, NewDirectoriesAreNew
    <3> QED BY <3>1, <3>2, <3>3
  <2> QED BY <2>2, <2>3, <2>4, <2>5
<1>2. Init => SInv /\ EachHasAnEntry
  <2>1. Init => EachHasAnEntry
    BY DEF Init, EachHasAnEntry
  <2> QED BY <2>1, SInvInit
<1>3. SInv /\ EachHasAnEntry /\ [Next]_vars => (SInv /\ EachHasAnEntry)'
  BY SInvStep, EachHasAnEntryStep
<1>4. SInv /\ EachHasAnEntry => DeviceIsATree
  BY <1>1
<1> QED BY <1>2, <1>3, <1>4, PTL DEF Spec

-----------------------------------------------------------------------------
(* The search for the directory above.                                     *)

(* A set of numbers that is not empty has a least element. *)
LEMMA Least ==
  ASSUME NEW T \in SUBSET Nat, T # {}
  PROVE  /\ \E n \in T : \A m \in T : n <= m
         /\ Min(T) \in T
<1> DEFINE R == { ss \in Nat \X Nat : ss[1] < ss[2] }
<1>1. IsWellFoundedOn(R, Nat)
  BY NatLessThanWellFounded DEF OpToRel
<1>2. \E n \in T : \A m \in T : ~ (<<m, n>> \in R)
  BY <1>1, WFMin
<1>3. \E n \in T : \A m \in T : n <= m
  <2>1. PICK n \in T : \A m \in T : ~ (<<m, n>> \in R)
    BY <1>2
  <2>2. \A m \in T : m \in Nat /\ n \in Nat /\ ~(m < n)
    BY <2>1
  <2> QED BY <2>2
<1> QED BY <1>3 DEF Min

\* What dirParentSearch finds below prev, if f says what it finds below the entries of prev.
Same(seek, k) == /\ nodes[k].ino = nodes[seek].ino
                 /\ k = seek \/ (nodes[k].literal /\ nodes[seek].literal)

Met(seek, f, prev, j) ==
  LET k == nodes[prev].kids[j]
  IN  IF f[k] # Null THEN f[k] ELSE IF Same(seek, k) THEN prev ELSE Null

Hits(seek, f, prev) == { j \in DOMAIN nodes[prev].kids : Met(seek, f, prev, j) # Null }

FoundBelow(seek, f, prev) ==
  IF Hits(seek, f, prev) = {} THEN Null ELSE Met(seek, f, prev, Min(Hits(seek, f, prev)))

Searches(seek, f) == f = [prev \in DOMAIN nodes |-> FoundBelow(seek, f, prev)]

LEMMA SearchUnfolds ==
  ASSUME NEW seek
  PROVE  dirParentSearch(seek) = (CHOOSE f : Searches(seek, f))[RootDir]
BY DEF dirParentSearch, Searches, FoundBelow, Hits, Met, Same

(* The entries of a directory were made after it. *)
LEMMA KidsAreLater ==
  ASSUME TypeOK, Heap, NEW p \in DOMAIN nodes, NEW j \in DOMAIN nodes[p].kids
  PROVE  nodes[p].kids[j] \in DOMAIN nodes /\ nodes[p].kids[j] > p
<1>1. nodes[p].kids \in Seq(DOMAIN nodes)
  BY NodeFacts
<1> QED BY <1>1 DEF Heap, Ordered

(* The entry whose answer counts is the first that has one. *)
LEMMA FirstHit ==
  ASSUME TypeOK, NEW seek, NEW f, NEW p \in DOMAIN nodes, Hits(seek, f, p) # {}
  PROVE  /\ Min(Hits(seek, f, p)) \in DOMAIN nodes[p].kids
         /\ Met(seek, f, p, Min(Hits(seek, f, p))) # Null
<1>1. DOMAIN nodes[p].kids \in SUBSET Nat
  <2>1. nodes[p].kids \in Seq(DOMAIN nodes)
    BY NodeFacts
  <2> QED BY <2>1
<1>2. Hits(seek, f, p) \in SUBSET Nat
  BY <1>1 DEF Hits
<1>3. Min(Hits(seek, f, p)) \in Hits(seek, f, p)
  BY <1>2, Least
<1> QED BY <1>3 DEF Hits

(* What is found below a directory depends on what is found below entries  *)
(* that were made after it.                                                *)
LEMMA FoundAgrees ==
  ASSUME TypeOK, Heap, NEW seek, NEW f, NEW g, NEW p \in DOMAIN nodes,
         \A k \in DOMAIN nodes : k > p => f[k] = g[k]
  PROVE  FoundBelow(seek, f, p) = FoundBelow(seek, g, p)
<1>1. \A j \in DOMAIN nodes[p].kids : Met(seek, f, p, j) = Met(seek, g, p, j)
  BY KidsAreLater DEF Met
<1>2. Hits(seek, f, p) = Hits(seek, g, p)
  BY <1>1 DEF Hits
<1>3. ASSUME Hits(seek, f, p) # {}
      PROVE  Min(Hits(seek, f, p)) \in DOMAIN nodes[p].kids
  BY <1>3, FirstHit
<1> QED BY <1>1, <1>2, <1>3 DEF FoundBelow

(* There is a function that says what is found below each entry: it is     *)
(* made from the last entry back to the first.                             *)
LEMMA SearchExists ==
  ASSUME TypeOK, Heap, NEW seek
  PROVE  \E f : Searches(seek, f)
<1> DEFINE n == Len(nodes)
           From(m) == (n - m) + 1 .. n
           Partial(m, f) == f = [p \in From(m) |-> FoundBelow(seek, f, p)]
           T == { m \in 0 .. n : \A f : ~ Partial(m, f) }
<1>1. n \in Nat /\ DOMAIN nodes = 1 .. n
  BY NodeFacts
<1>2. ASSUME T # {} PROVE FALSE
  <2>1. PICK m \in T : \A l \in T : m <= l
    <3>1. T \in SUBSET Nat
      BY <1>1
    <3> HIDE DEF T
    <3> QED BY <1>2, <3>1, Least
  <2>2. m \in 0 .. n /\ \A f : ~ Partial(m, f)
    BY <2>1
  <2>3. m # 0
    <3> SUFFICES ASSUME m = 0 PROVE FALSE
      OBVIOUS
    <3>1. From(0) = {}
      BY <1>1
    <3> DEFINE e == [p \in From(0) |-> Null]
    <3>2. e = [p \in From(0) |-> FoundBelow(seek, e, p)]
      BY <3>1
    <3> QED BY <2>2, <3>2
  <2>4. m - 1 \in 0 .. n /\ m - 1 \notin T
    <3>1. m - 1 \in 0 .. n /\ ~(m <= m - 1)
      BY <1>1, <2>2, <2>3
    <3> HIDE DEF T
    <3> QED BY <2>1, <3>1
  <2>5. PICK f : Partial(m - 1, f)
    BY <2>4
  <2> DEFINE first == (n - m) + 1
             g == [p \in From(m) |-> IF p = first THEN FoundBelow(seek, f, p) ELSE f[p]]
  <2>6. /\ From(m) \subseteq DOMAIN nodes /\ From(m) = {first} \cup From(m - 1)
        /\ \A p \in From(m) : \A k \in DOMAIN nodes : k > p => k \in From(m - 1) /\ k # first
    BY <1>1, <2>2, <2>3
  <2>7. \A p \in From(m - 1) : f[p] = FoundBelow(seek, f, p)
    <3> HIDE DEF From
    <3> QED BY <2>5
  <2> HIDE DEF From, first
  <2>8. ASSUME NEW p \in From(m) PROVE g[p] = FoundBelow(seek, g, p)
    <3>1. g[p] = FoundBelow(seek, f, p)
      BY <2>6, <2>7
    <3>2. \A k \in DOMAIN nodes : k > p => f[k] = g[k]
      BY <2>6
    <3> HIDE DEF g
    <3>3. FoundBelow(seek, f, p) = FoundBelow(seek, g, p)
      BY <2>6, <3>2, FoundAgrees
    <3> QED BY <3>1, <3>3
  <2>9. g = [p \in From(m) |-> g[p]]
    OBVIOUS
  <2> HIDE DEF g
  <2>10. Partial(m, g)
    BY <2>8, <2>9
  <2> QED BY <2>2, <2>10
<1>3. n \in 0 .. n /\ From(n) = DOMAIN nodes
  BY <1>1
<1>4. PICK f : Partial(n, f)
  BY <1>2, <1>3
<1>5. f = [p \in DOMAIN nodes |-> FoundBelow(seek, f, p)]
  BY <1>3, <1>4
<1> QED BY <1>5 DEF Searches

(* What the search finds is the directory that has the entry sought: the   *)
(* entry is not a ".", so that no other entry is taken for it.             *)
LEMMA SearchIsRight ==
  ASSUME TypeOK, Heap, NEW seek \in DOMAIN nodes, ~nodes[seek].literal,
         NEW f, Searches(seek, f), NEW prev \in DOMAIN nodes, f[prev] # Null
  PROVE  f[prev] \in DOMAIN nodes /\ Contains(nodes[f[prev]].kids, seek)
<1> DEFINE n == Len(nodes)
           Right(p) == f[p] # Null => f[p] \in DOMAIN nodes /\ Contains(nodes[f[p]].kids, seek)
           T == { m \in 0 .. n : \E p \in DOMAIN nodes : m = n - p /\ ~Right(p) }
<1>1. n \in Nat /\ DOMAIN nodes = 1 .. n
  BY NodeFacts
<1>2. ASSUME T # {} PROVE FALSE
  <2>1. PICK m \in T : \A l \in T : m <= l
    <3>1. T \in SUBSET Nat
      BY <1>1
    <3> HIDE DEF T
    <3> QED BY <1>2, <3>1, Least
  <2>2. PICK p \in DOMAIN nodes : m = n - p /\ ~Right(p)
    BY <2>1
  <2>3. \A k \in DOMAIN nodes : k > p => Right(k)
    <3> SUFFICES ASSUME NEW k \in DOMAIN nodes, k > p, ~Right(k) PROVE FALSE
      OBVIOUS
    <3>1. n - k \in 0 .. n /\ n - k < m
      BY <1>1, <2>2
    <3> HIDE DEF Right, n
    <3>2. n - k \in T
      BY <3>1
    <3> HIDE DEF T
    <3>3. m <= n - k
      BY <2>1, <3>2
    <3> QED BY <1>1, <2>2, <3>1, <3>3
  <2> HIDE DEF T
  <2>4. f[p] = FoundBelow(seek, f, p) /\ f[p] # Null
    BY <2>2 DEF Searches
  <2> DEFINE j == Min(Hits(seek, f, p))
             k == nodes[p].kids[j]
  <2>5. /\ Hits(seek, f, p) # {} /\ f[p] = Met(seek, f, p, j)
    BY <2>4 DEF FoundBelow
  <2>6. j \in DOMAIN nodes[p].kids
    BY <2>5, FirstHit
  <2> HIDE DEF j
  <2>7. k \in DOMAIN nodes /\ k > p
    BY <2>6, KidsAreLater
  <2>8. CASE f[k] # Null
    <3>1. f[p] = f[k]
      BY <2>5, <2>8 DEF Met
    <3> QED BY <2>2, <2>3, <2>7, <2>8, <3>1
  <2>9. CASE f[k] = Null
    <3>1. Same(seek, k) /\ f[p] = p
      BY <2>4, <2>5, <2>9 DEF Met
    <3>2. k = seek
      BY <3>1 DEF Same
    <3>3. nodes[p].kids \in Seq(DOMAIN nodes) /\ j \in 1 .. Len(nodes[p].kids)
      BY <2>6, NodeFacts
    <3>4. Contains(nodes[p].kids, seek)
      BY <3>2, <3>3 DEF Contains
    <3> QED BY <2>2, <3>1, <3>4
  <2> QED BY <2>8, <2>9
<1>3. n - prev \in 0 .. n
  BY <1>1
<1>4. Right(prev)
  <2> HIDE DEF Right
  <2> QED BY <1>2, <1>3
<1> QED BY <1>4

(* The search finds something: else nothing would be found below any entry. *)
LEMMA SearchFinds ==
  ASSUME TypeOK, Heap, NEW seek \in DOMAIN nodes, seek # RootDir,
         NEW f, Searches(seek, f)
  PROVE  f[RootDir] # Null
<1> DEFINE S == { p \in DOMAIN nodes : f[p] = Null }
<1> SUFFICES ASSUME f[RootDir] = Null PROVE FALSE
  OBVIOUS
<1>1. ASSUME NEW p \in S, NEW j \in DOMAIN nodes[p].kids
      PROVE  Met(seek, f, p, j) = Null
  <2>1. f[p] = FoundBelow(seek, f, p) /\ f[p] = Null
    BY DEF Searches
  <2>2. CASE Hits(seek, f, p) = {}
    BY <2>2 DEF Hits
  <2>3. CASE Hits(seek, f, p) # {}
    <3>1. Met(seek, f, p, Min(Hits(seek, f, p))) # Null
      BY <2>3, FirstHit
    <3> QED BY <2>1, <2>3, <3>1 DEF FoundBelow
  <2> QED BY <2>2, <2>3
<1>2. ASSUME NEW p \in S, NEW j \in DOMAIN nodes[p].kids
      PROVE  nodes[p].kids[j] \in S /\ nodes[p].kids[j] # seek
  <2> DEFINE k == nodes[p].kids[j]
  <2>1. k \in DOMAIN nodes /\ p # Null
    BY KidsAreLater, NodeFacts DEF Null
  <2>2. f[k] = Null /\ ~Same(seek, k)
    BY <1>1, <2>1 DEF Met
  <2> QED BY <2>1, <2>2 DEF Same
<1>3. Closed(S)
  BY <1>2 DEF Closed, Range
<1>4. RootDir \in S
  <2>1. RootDir \in DOMAIN nodes
    BY NodeFacts DEF RootDir
  <2> QED BY <2>1
<1>5. S = DOMAIN nodes
  BY <1>3, <1>4 DEF Heap, Reachable
<1>6. PICK p \in DOMAIN nodes : \E j \in DOMAIN nodes[p].kids : nodes[p].kids[j] = seek
  BY InSomeList
<1> QED BY <1>2, <1>5, <1>6

(* So dirParentSearch returns the directory above. *)
LEMMA SearchFacts ==
  ASSUME TypeOK, Heap, NEW seek \in DOMAIN nodes, seek # RootDir, ~nodes[seek].literal
  PROVE  LET up == dirParentSearch(seek)
         IN  up # Null /\ Contains(nodes[up].kids, seek)
<1> DEFINE f == CHOOSE g : Searches(seek, g)
<1>1. Searches(seek, f)
  BY SearchExists
<1>2. dirParentSearch(seek) = f[RootDir]
  BY SearchUnfolds
<1>3. RootDir \in DOMAIN nodes
  BY NodeFacts DEF RootDir
<1> HIDE DEF f
<1>4. f[RootDir] # Null
  BY <1>1, SearchFinds
<1>5. Contains(nodes[f[RootDir]].kids, seek)
  BY <1>1, <1>3, <1>4, SearchIsRight
<1> QED BY <1>2, <1>4, <1>5

\* The constant "." is the name of no entry but a ".".
LiteralIsDot == \A k \in DOMAIN nodes : nodes[k].literal => ~Named(k)

LEMMA LiteralGrows ==
  ASSUME TypeOK, LiteralIsDot, NEW d \in DOMAIN nodes, NEW entries \in Seq(Entries),
         NEW literal \in BOOLEAN, addChildren(d, entries, literal),
         literal => \A j \in 1 .. Len(entries) : entries[j].name = "."
  PROVE  LiteralIsDot'
<1> SUFFICES ASSUME NEW k \in DOMAIN nodes', nodes'[k].literal PROVE nodes'[k].name = "."
  BY DEF LiteralIsDot, Named
<1>1. CASE k \in DOMAIN nodes
  <2>1. nodes'[k].literal = nodes[k].literal /\ nodes'[k].name = nodes[k].name
    BY <1>1, KidsStay
  <2> QED BY <1>1, <2>1 DEF LiteralIsDot, Named
<1>2. CASE k \notin DOMAIN nodes
  <2>1. \E j \in 1 .. Len(entries) :
           nodes'[k] = NewNode(entries[j].name, entries[j].ino, literal)
    BY <1>2, KidsStay
  <2>2. PICK j \in 1 .. Len(entries) :
           nodes'[k] = NewNode(entries[j].name, entries[j].ino, literal)
    BY <2>1
  <2>3. nodes'[k].literal = literal /\ nodes'[k].name = entries[j].name
    BY <2>2 DEF NewNode
  <2> QED BY <2>3
<1> QED BY <1>1, <1>2

LEMMA LiteralStep ==
  ASSUME TypeOK, Control, LiteralIsDot, [Next]_vars
  PROVE  LiteralIsDot'
<1>1. CASE nodes' = nodes \/ nodes' = <<>>
  BY <1>1 DEF LiteralIsDot, Named
<1>2. CASE Mount
  <2>1. nodes' = <<NewNode("/", Root, FALSE)>>
    BY <1>2 DEF Mount
  <2> QED BY <2>1 DEF LiteralIsDot, NewNode
<1>3. CASE getChildren
  <2>1. cwd \in DOMAIN nodes /\ Loaded(cwd)
    BY <1>3 DEF TypeOK, getChildren
  <2> DEFINE ino == nodes[cwd].ino
  <2>2. CASE nodes[cwd].kids # <<>>
    BY <1>1, <2>1, <2>2 DEF Loaded
  <2>3. CASE nodes[cwd].kids = <<>> /\ iNodeRead(ino) # <<>>
    <3>1. addChildren(cwd, iNodeRead(ino), FALSE)
      BY <2>1, <2>3 DEF Loaded
    <3>2. iNodeRead(ino) \in Seq(Entries)
      BY <2>1, NodeFacts DEF TypeOK, iNodeRead
    <3> HIDE DEF ino
    <3> QED BY <2>1, <3>1, <3>2, LiteralGrows
  <2>4. CASE nodes[cwd].kids = <<>> /\ iNodeRead(ino) = <<>>
    <3> DEFINE dot == <<Entry(".", ino)>>
    <3>1. addChildren(cwd, dot, TRUE)
      BY <2>1, <2>4 DEF Loaded
    <3>2. ino \in INodes
      BY <2>1, NodeFacts
    <3>3. dot \in Seq(Entries) /\ \A j \in 1 .. Len(dot) : dot[j].name = "."
      <4> HIDE DEF ino
      <4> QED BY <3>2 DEF Entry, Entries
    <3> HIDE DEF dot
    <3> QED BY <2>1, <3>1, <3>3, LiteralGrows
  <2> QED BY <2>2, <2>3, <2>4
<1>4. CASE flushDirectoryCache
  <2>1. /\ DOMAIN nodes' = DOMAIN nodes
        /\ \A k \in DOMAIN nodes : /\ nodes'[k].name = nodes[k].name
                                   /\ nodes'[k].literal = nodes[k].literal
    BY <1>4, FlushFacts
  <2> QED BY <2>1 DEF LiteralIsDot, Named
<1>5. ASSUME NEW name \in Names, mkdir(name) PROVE LiteralIsDot'
  <2>1. cwd \in DOMAIN nodes
    BY <1>5, MkdirFacts
  <2>2. PICK ino \in INodes : addChildren(cwd, <<Entry(name, ino)>>, FALSE)
    BY <1>5, MkdirFacts
  <2>3. <<Entry(name, ino)>> \in Seq(Entries)
    BY DEF Entry, Entries
  <2> QED BY <2>1, <2>2, <2>3, LiteralGrows
<1> QED BY <1>1, <1>2, <1>3, <1>4, <1>5, NodesStay, NothingFails DEF Reads

(* In orderly sessions, cd .. leads to the directory that the current one  *)
(* is an entry of: the search of the whole cache, by inode and by the      *)
(* address of the name, takes no other entry for it (my_shell.c:24-42).    *)
THEOREM DotDotIsAbove == Spec => []DotDotLeadsUp
<1>1. ASSUME SInv, LiteralIsDot PROVE DotDotLeadsUp
  <2> SUFFICES ASSUME Served, cwd # RootDir
               PROVE  LET up == dirParentSearch(cwd)
                      IN  up # Null /\ Contains(nodes[up].kids, cwd)
    BY DEF DotDotLeadsUp
  <2>1. TypeOK /\ Control /\ Heap /\ OneNode
    BY <1>1 DEF SInv, IInv
  <2>2. cwd \in DOMAIN nodes /\ Named(cwd)
    BY <2>1 DEF Served, Control, TypeOK, OneNode
  <2>3. ~nodes[cwd].literal
    BY <1>1, <2>2 DEF LiteralIsDot
  <2> QED BY <2>1, <2>2, <2>3, SearchFacts
<1>2. Init => SInv /\ LiteralIsDot
  <2>1. Init => LiteralIsDot
    BY DEF Init, LiteralIsDot
  <2> QED BY <2>1, SInvInit
<1>3. SInv /\ LiteralIsDot /\ [Next]_vars => (SInv /\ LiteralIsDot)'
  BY SInvStep, LiteralStep DEF SInv, IInv
<1>4. SInv /\ LiteralIsDot => DotDotLeadsUp
  BY <1>1
<1> QED BY <1>2, <1>3, <1>4, PTL DEF Spec

=============================================================================

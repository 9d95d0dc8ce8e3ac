-------------------------- MODULE FileStorageProofs --------------------------
(***************************************************************************)
(* What the operators of FileStorage do to the names and the nodes of a     *)
(* list whose names are unique, for every list: the lemmas the proofs about *)
(* the server rest on.  They are stated through Found and Node, so that a   *)
(* proof that cites them need not look at positions any more.               *)
(***************************************************************************)
EXTENDS FileStorage, SequenceTheorems, NaturalsLemmas

Storage == Seq(FileNode)

Unique(q) == \A i, j \in DOMAIN q : q[i].pathname = q[j].pathname => i = j

\* r is q with the node found under the name f replaced by n.
Updated(q, r, f, n) == r = [q EXCEPT ![Position(q, f)] = n]

\* r is q with n pushed at its end.
Pushed(q, r, n) == r = Append(q, n)

\* getFileNode returns a node of the list that carries the name.
LEMMA PositionOfName ==
    ASSUME NEW q \in Storage, NEW f, Found(q, f)
    PROVE  /\ Position(q, f) \in DOMAIN q
           /\ q[Position(q, f)].pathname = f
BY DEF Found, Position

\* With unique names it is the only one.
LEMMA PositionUnique ==
    ASSUME NEW q \in Storage, Unique(q), NEW i \in DOMAIN q
    PROVE  Found(q, q[i].pathname) /\ Position(q, q[i].pathname) = i
<1>1. Found(q, q[i].pathname)
  BY DEF Found
<1> QED
  BY <1>1, PositionOfName DEF Unique

LEMMA NodeType ==
    ASSUME NEW q \in Storage, NEW f, Found(q, f)
    PROVE  Node(q, f) \in FileNode /\ Node(q, f).pathname = f
BY PositionOfName DEF Node, Storage

LEMMA UpdateTypes ==
    ASSUME NEW q \in Storage, NEW f, Found(q, f)
    PROVE  /\ \A c \in Clients \cup {NoClient} : SetOwner(q, f, c) \in Storage
           /\ \A n \in Nat : SetSize(q, f, n) \in Storage
           /\ Close(q, f) \in Storage
<1>1. Position(q, f) \in DOMAIN q
  BY PositionOfName
<1>2. ASSUME NEW n \in FileNode
      PROVE  [q EXCEPT ![Position(q, f)] = n] \in Storage
  BY <1>1 DEF Storage
<1>3. q[Position(q, f)] \in FileNode
  BY <1>1 DEF Storage
<1>4. ASSUME NEW c \in Clients \cup {NoClient}
      PROVE  SetOwner(q, f, c) \in Storage
  <2>1. [q[Position(q, f)] EXCEPT !.client_id = c] \in FileNode
    BY <1>3 DEF FileNode
  <2> QED
    BY <2>1, <1>2 DEF SetOwner
<1>5. ASSUME NEW n \in Nat PROVE SetSize(q, f, n) \in Storage
  <2>1. [q[Position(q, f)] EXCEPT !.size = n] \in FileNode
    BY <1>3 DEF FileNode
  <2> QED
    BY <2>1, <1>2 DEF SetSize
<1>6. Close(q, f) \in Storage
  <2>1. [q[Position(q, f)] EXCEPT !.isOpen = FALSE] \in FileNode
    BY <1>3 DEF FileNode
  <2> QED
    BY <2>1, <1>2 DEF Close
<1> QED
  BY <1>4, <1>5, <1>6

\* An update of the found node (lock, unlock, close, write, append) changes
\* that node and no other, and no name.
LEMMA UpdateNode ==
    ASSUME NEW q \in Storage, Unique(q), NEW f, Found(q, f),
           NEW n \in FileNode, n.pathname = f,
           NEW r, Updated(q, r, f, n)
    PROVE  /\ r \in Storage /\ Unique(r) /\ Len(r) = Len(q)
           /\ \A g : Found(r, g) <=> Found(q, g)
           /\ Node(r, f) = n
           /\ \A g : Found(q, g) /\ g # f => Node(r, g) = Node(q, g)
<1> DEFINE p == Position(q, f)
<1>1. p \in DOMAIN q /\ q[p].pathname = f
  BY PositionOfName
<1>2. r \in Storage /\ Len(r) = Len(q) /\ DOMAIN r = DOMAIN q
  BY <1>1 DEF Storage, Updated
<1>3. r[p] = n /\ \A i \in DOMAIN q : i # p => r[i] = q[i]
  BY <1>1 DEF Storage, Updated
<1>4. \A i \in DOMAIN q : r[i].pathname = q[i].pathname
  BY <1>1, <1>3
<1>5. Unique(r)
  BY <1>2, <1>4 DEF Unique
<1>6. \A g : Found(r, g) <=> Found(q, g)
  BY <1>2, <1>4 DEF Found
<1>7. ASSUME NEW g, Found(q, g)
      PROVE  Position(r, g) = Position(q, g)
  <2>1. /\ Position(q, g) \in DOMAIN r
        /\ r[Position(q, g)].pathname = g
    BY <1>2, <1>4, <1>7, PositionOfName
  <2> QED
    BY <2>1, <1>2, <1>5, PositionUnique
<1>8. Node(r, f) = n
  BY <1>3, <1>7 DEF Node
<1>9. ASSUME NEW g, Found(q, g), g # f
      PROVE  Node(r, g) = Node(q, g)
  <2>1. Position(q, g) \in DOMAIN q /\ Position(q, g) # p
    BY <1>1, <1>9, PositionOfName
  <2> QED
    BY <2>1, <1>3, <1>7, <1>9 DEF Node
<1> QED
  BY <1>2, <1>5, <1>6, <1>8, <1>9

\* The push of a new node adds a name at the end and touches no other node.
LEMMA PushNode ==
    ASSUME NEW q \in Storage, Unique(q), NEW f, ~Found(q, f),
           NEW n \in FileNode, n.pathname = f,
           NEW r, Pushed(q, r, n)
    PROVE  /\ r \in Storage /\ Unique(r) /\ Len(r) = Len(q) + 1
           /\ \A g : Found(r, g) <=> (Found(q, g) \/ g = f)
           /\ Node(r, f) = n
           /\ \A g : Found(q, g) => Node(r, g) = Node(q, g)
<1>1. /\ r \in Storage
      /\ Len(r) = Len(q) + 1
      /\ DOMAIN r = DOMAIN q \cup {Len(q) + 1}
      /\ Len(q) + 1 \notin DOMAIN q
      /\ r[Len(q) + 1] = n
      /\ \A i \in DOMAIN q : r[i] = q[i]
  BY DEF Storage, Pushed
<1>2. \A i \in DOMAIN q : q[i].pathname # f
  BY DEF Found
<1>3. Unique(r)
  BY <1>1, <1>2 DEF Unique
<1>4. \A g : Found(r, g) <=> (Found(q, g) \/ g = f)
  BY <1>1 DEF Found
<1>5. Node(r, f) = n
  BY <1>1, <1>3, PositionUnique DEF Node
<1>6. ASSUME NEW g, Found(q, g) PROVE Node(r, g) = Node(q, g)
  <2>1. Position(q, g) \in DOMAIN q /\ q[Position(q, g)].pathname = g
    BY <1>6, PositionOfName
  <2>2. Position(q, g) \in DOMAIN r /\ r[Position(q, g)].pathname = g
    BY <2>1, <1>1
  <2>3. Position(r, g) = Position(q, g)
    BY <2>2, <1>1, <1>3, PositionUnique
  <2> QED
    BY <2>1, <2>3, <1>1 DEF Node
<1> QED
  BY <1>1, <1>3, <1>4, <1>5, <1>6

\* removeNode unlinks one node; the others keep their names and contents.
\* The positions behind a node that is removed.
LEMMA BehindTheRemoved ==
    ASSUME NEW n \in Nat, NEW k \in 1..n, NEW i \in k..(n - 1)
    PROVE  /\ i - (k - 1) \in 1..(n - k)
           /\ i \in 1..((k - 1) + (n - k)) /\ ~(i <= k - 1)
           /\ k + (i - (k - 1)) = i + 1
OBVIOUS

LEMMA RemoveOne ==
    ASSUME NEW q \in Storage, NEW k \in DOMAIN q, NEW r, r = RemoveNode(q, k)
    PROVE  /\ r \in Storage /\ Len(r) = Len(q) - 1
           /\ \A i \in 1..(k - 1) : r[i] = q[i]
           /\ \A i \in k..(Len(q) - 1) : r[i] = q[i + 1]
<1> DEFINE s == SubSeq(q, 1, k - 1)
           t == SubSeq(q, k + 1, Len(q))
<1>1. k \in 1..Len(q) /\ Len(q) \in Nat
  BY DEF Storage
<1>2. /\ s \in Storage /\ Len(s) = k - 1
      /\ \A i \in 1..(k - 1) : s[i] = q[i]
  BY <1>1 DEF Storage
<1>3. /\ t \in Storage /\ Len(t) = Len(q) - k
      /\ \A i \in 1..(Len(q) - k) : t[i] = q[k + i]
  BY <1>1 DEF Storage
<1>4. r = s \o t
  BY DEF RemoveNode, RemoveAt
<1> HIDE DEF s, t
<1>5. r \in Storage /\ Len(r) = Len(q) - 1
  BY <1>1, <1>2, <1>3, <1>4 DEF Storage
<1>6. ASSUME NEW i \in 1..(k - 1) PROVE r[i] = q[i]
  BY <1>1, <1>2, <1>3, <1>4 DEF Storage
<1>7. ASSUME NEW i \in k..(Len(q) - 1) PROVE r[i] = q[i + 1]
  <2>1. /\ i - Len(s) \in 1..(Len(q) - k)
        /\ i \in 1..(Len(s) + Len(t)) /\ ~(i <= Len(s))
        /\ k + (i - Len(s)) = i + 1
    BY <1>1, <1>2, <1>3, BehindTheRemoved, Zenon
  <2>2. r[i] = t[i - Len(s)]
    <3>2. (s \o t)[i] = IF i <= Len(s) THEN s[i] ELSE t[i - Len(s)]
      <4>1. \A j \in 1..(Len(s) + Len(t)) :
               (s \o t)[j] = IF j <= Len(s) THEN s[j] ELSE t[j - Len(s)]
        BY <1>2, <1>3, ConcatProperties DEF Storage
      <4> QED
        BY <4>1, <2>1
    <3> QED
      BY <2>1, <3>2, <1>4
  <2> QED
    BY <2>1, <2>2, <1>3, Zenon
<1> QED
  BY <1>5, <1>6, <1>7

LEMMA RemoveUnique ==
    ASSUME NEW q \in Storage, Unique(q), NEW k \in DOMAIN q,
           NEW r, r = RemoveNode(q, k)
    PROVE  /\ r \in Storage /\ Unique(r) /\ Len(r) = Len(q) - 1
           /\ \A g : Found(r, g) <=> (Found(q, g) /\ g # q[k].pathname)
           /\ \A g : Found(r, g) => Node(r, g) = Node(q, g)
<1> DEFINE up(i) == IF i < k THEN i ELSE i + 1
<1>1. /\ r \in Storage /\ Len(r) = Len(q) - 1
      /\ k \in 1..Len(q) /\ Len(q) \in Nat
      /\ DOMAIN q = 1..Len(q) /\ DOMAIN r = 1..(Len(q) - 1)
  BY RemoveOne DEF Storage
<1>2. \A i \in DOMAIN r : up(i) \in DOMAIN q /\ up(i) # k /\ r[i] = q[up(i)]
  <2> TAKE i \in DOMAIN r
  <2>1. i \in 1..(Len(q) - 1) /\ (i < k \/ i >= k)
    BY <1>1
  <2>2. CASE i < k
    <3>1. i \in 1..(k - 1)
      BY <2>1, <2>2, <1>1
    <3>2. r[i] = q[i]
      BY <3>1, RemoveOne
    <3> QED
      BY <3>2, <2>1, <2>2, <1>1
  <2>3. CASE i >= k
    <3>1. i \in k..(Len(q) - 1)
      BY <2>1, <2>3, <1>1
    <3>2. r[i] = q[i + 1]
      BY <3>1, RemoveOne
    <3> QED
      BY <3>1, <3>2, <2>1, <1>1
  <2> QED
    BY <2>1, <2>2, <2>3
<1>3. \A i, j \in DOMAIN r : up(i) = up(j) => i = j
  BY <1>1
<1>4. \A m \in DOMAIN q : m # k => \E i \in DOMAIN r : up(i) = m
  <2> TAKE m \in DOMAIN q
  <2> HAVE m # k
  <2> DEFINE i == IF m < k THEN m ELSE m - 1
  <2>1. i \in DOMAIN r /\ up(i) = m
    BY <1>1
  <2> QED
    BY <2>1
<1> HIDE DEF up
<1>5. Unique(r)
  BY <1>2, <1>3 DEF Unique
<1>6. \A g : Found(r, g) <=> (Found(q, g) /\ g # q[k].pathname)
  <2>1. ASSUME NEW g, Found(r, g)
        PROVE  Found(q, g) /\ g # q[k].pathname
    BY <2>1, <1>2 DEF Found, Unique
  <2>2. ASSUME NEW g, Found(q, g), g # q[k].pathname
        PROVE  Found(r, g)
    <3>1. PICK m \in DOMAIN q : q[m].pathname = g
      BY <2>2 DEF Found
    <3>2. PICK i \in DOMAIN r : up(i) = m
      BY <3>1, <2>2, <1>4
    <3> QED
      BY <3>1, <3>2, <1>2 DEF Found
  <2> QED
    BY <2>1, <2>2
<1>7. ASSUME NEW g, Found(r, g) PROVE Node(r, g) = Node(q, g)
  <2> DEFINE i == Position(r, g)
  <2>1. i \in DOMAIN r /\ r[i].pathname = g
    BY <1>1, <1>7, PositionOfName
  <2>2. up(i) \in DOMAIN q /\ q[up(i)] = r[i]
    BY <2>1, <1>2
  <2>3. Position(q, g) = up(i)
    BY <2>1, <2>2, PositionUnique
  <2> QED
    BY <2>2, <2>3 DEF Node
<1> QED
  BY <1>1, <1>5, <1>6, <1>7

\* The updates of the found node, as the handlers write them.
LEMMA SetOwnerEffect ==
    ASSUME NEW q \in Storage, Unique(q), NEW f, Found(q, f),
           NEW c \in Clients \cup {NoClient}, NEW r, r = SetOwner(q, f, c)
    PROVE  /\ r \in Storage /\ Unique(r) /\ Len(r) = Len(q)
           /\ \A g : Found(r, g) <=> Found(q, g)
           /\ Node(r, f).client_id = c /\ Node(r, f).isOpen = Node(q, f).isOpen
           /\ Node(r, f).size = Node(q, f).size
           /\ \A g : Found(q, g) /\ g # f => Node(r, g) = Node(q, g)
<1> DEFINE n == [Node(q, f) EXCEPT !.client_id = c]
<1>1. n \in FileNode /\ n.pathname = f /\ n.client_id = c
      /\ n.isOpen = Node(q, f).isOpen /\ n.size = Node(q, f).size
  BY NodeType DEF FileNode
<1>2. Updated(q, r, f, n)
  BY DEF SetOwner, Node, Updated
<1> HIDE DEF n
<1>3. /\ r \in Storage /\ Unique(r) /\ Len(r) = Len(q)
      /\ \A g : Found(r, g) <=> Found(q, g)
      /\ Node(r, f) = n
      /\ \A g : Found(q, g) /\ g # f => Node(r, g) = Node(q, g)
  BY <1>1, <1>2, UpdateNode
<1> QED
  BY <1>1, <1>3

\* r is q with the file f closed.
Closes(q, r, f) ==
    /\ r \in Storage /\ Unique(r) /\ Len(r) = Len(q)
    /\ \A g : Found(r, g) <=> Found(q, g)
    /\ Node(r, f).client_id = Node(q, f).client_id
    /\ Node(r, f).isOpen = FALSE
    /\ Node(r, f).size = Node(q, f).size
    /\ \A g : Found(q, g) /\ g # f => Node(r, g) = Node(q, g)

LEMMA CloseEffect ==
    ASSUME NEW q \in Storage, Unique(q), NEW f, Found(q, f),
           NEW r, r = Close(q, f)
    PROVE  Closes(q, r, f)
<1> DEFINE n == [Node(q, f) EXCEPT !.isOpen = FALSE]
<1>1. n \in FileNode /\ n.pathname = f /\ n.isOpen = FALSE
      /\ n.client_id = Node(q, f).client_id /\ n.size = Node(q, f).size
  BY NodeType DEF FileNode
<1>2. Updated(q, r, f, n)
  BY DEF Close, Node, Updated
<1> HIDE DEF n
<1>3. /\ r \in Storage /\ Unique(r) /\ Len(r) = Len(q)
      /\ \A g : Found(r, g) <=> Found(q, g)
      /\ Node(r, f) = n
      /\ \A g : Found(q, g) /\ g # f => Node(r, g) = Node(q, g)
  BY <1>1, <1>2, UpdateNode
<1> QED
  BY <1>1, <1>3 DEF Closes

LEMMA SetSizeEffect ==
    ASSUME NEW q \in Storage, Unique(q), NEW f, Found(q, f),
           NEW k \in Nat, NEW r, r = SetSize(q, f, k)
    PROVE  /\ r \in Storage /\ Unique(r) /\ Len(r) = Len(q)
           /\ \A g : Found(r, g) <=> Found(q, g)
           /\ \A g : Found(q, g) =>
                 /\ Node(r, g).client_id = Node(q, g).client_id
                 /\ Node(r, g).isOpen = Node(q, g).isOpen
                 /\ Node(r, g).size = IF g = f THEN k ELSE Node(q, g).size
<1> DEFINE n == [Node(q, f) EXCEPT !.size = k]
<1>1. n \in FileNode /\ n.pathname = f /\ n.isOpen = Node(q, f).isOpen
      /\ n.client_id = Node(q, f).client_id /\ n.size = k
  BY NodeType DEF FileNode
<1>2. Updated(q, r, f, n)
  BY DEF SetSize, Node, Updated
<1> HIDE DEF n
<1>3. /\ r \in Storage /\ Unique(r) /\ Len(r) = Len(q)
      /\ \A g : Found(r, g) <=> Found(q, g)
      /\ Node(r, f) = n
      /\ \A g : Found(q, g) /\ g # f => Node(r, g) = Node(q, g)
  BY <1>1, <1>2, UpdateNode
<1> QED
  BY <1>1, <1>3

-----------------------------------------------------------------------------
(* The room the files take                                                 *)

LEMMA LengthAndSizes ==
    ASSUME NEW q \in Storage
    PROVE  /\ Len(q) \in Nat /\ DOMAIN q = 1..Len(q)
           /\ \A i \in 1..Len(q) : q[i] \in FileNode /\ q[i].size \in Nat
<1>1. Len(q) \in Nat /\ DOMAIN q = 1..Len(q)
  BY DEF Storage
<1>2. ASSUME NEW i \in 1..Len(q) PROVE q[i] \in FileNode
  BY DEF Storage
<1>3. \A n \in FileNode : n.size \in Nat
  BY DEF FileNode
<1> QED
  BY <1>1, <1>2, <1>3

\* s adds up the sizes of the first nodes of the list q.
Adds(q, s) ==
    s = [i \in 0..Len(q) |-> IF i = 0 THEN 0 ELSE s[i - 1] + q[i].size]

\* There is such a sum: a longest one could be extended.
LEMMA SumExists ==
    ASSUME NEW q \in Storage
    PROVE  \E s \in [0..Len(q) -> Nat] : Adds(q, s)
<1> DEFINE AddsTo(l, s) == /\ s \in [0..l -> Nat]
                           /\ s[0] = 0
                           /\ \A i \in 1..l : s[i] = s[i - 1] + q[i].size
           T == {l \in 0..Len(q) : ~ \E s : AddsTo(l, s)}
<1>0. Len(q) \in Nat /\ \A i \in 1..Len(q) : q[i].size \in Nat
  BY LengthAndSizes
<1>1. T = {}
  <2> SUFFICES ASSUME T # {} PROVE FALSE
    OBVIOUS
  <2> HIDE DEF AddsTo
  <2>0. T \subseteq Nat
    OBVIOUS
  <2>1. PICK l \in T : \A m \in T : l <= m
    <3> HIDE DEF T
    <3> QED
      BY <2>0, LeastNumber
  <2>2. l \in 0..Len(q) /\ ~ \E s : AddsTo(l, s)
    OBVIOUS
  <2>3. l # 0
    <3>1. AddsTo(0, [i \in 0..0 |-> 0])
      BY DEF AddsTo
    <3> QED
      BY <2>2, <3>1
  <2>4. l - 1 \in 0..Len(q) /\ l - 1 \notin T
    <3> HIDE DEF T
    <3> QED
      BY <1>0, <2>1, <2>2, <2>3
  <2>5. PICK s : AddsTo(l - 1, s)
    BY <2>4
  <2> DEFINE t == [i \in 0..l |-> IF i = l THEN s[l - 1] + q[l].size ELSE s[i]]
  <2>6. q[l].size \in Nat /\ s[l - 1] \in Nat
    BY <1>0, <2>2, <2>3, <2>5 DEF AddsTo
  <2>7. t \in [0..l -> Nat] /\ t[0] = 0
    BY <2>2, <2>3, <2>5, <2>6 DEF AddsTo
  <2>8. ASSUME NEW i \in 1..l PROVE t[i] = t[i - 1] + q[i].size
    <3>1. CASE i = l
      BY <2>2, <2>3, <2>5, <3>1
    <3>2. CASE i # l
      <4>1. i \in 1..(l - 1) /\ i \in 0..l /\ i - 1 \in 0..l /\ i - 1 # l
        BY <2>2, <3>2
      <4> QED
        BY <2>5, <3>2, <4>1 DEF AddsTo
    <3> QED
      BY <3>1, <3>2
  <2>9. AddsTo(l, t)
    <3> HIDE DEF t
    <3> QED
      BY <2>7, <2>8 DEF AddsTo
  <2> QED
    BY <2>2, <2>9
<1>2. PICK s : AddsTo(Len(q), s)
  <2> HIDE DEF AddsTo
  <2> QED
    BY <1>0, <1>1
<1>3. ASSUME NEW i \in 0..Len(q)
      PROVE  s[i] = IF i = 0 THEN 0 ELSE s[i - 1] + q[i].size
  BY <1>0, <1>2
<1> QED
  BY <1>2, <1>3 DEF Adds

\* ... and no other.
LEMMA SumUnique ==
    ASSUME NEW q \in Storage, NEW s, Adds(q, s), NEW t, Adds(q, t)
    PROVE  s = t
<1> DEFINE T == {i \in 0..Len(q) : s[i] # t[i]}
<1>0. Len(q) \in Nat
  BY LengthAndSizes
<1>1. T = {}
  <2> SUFFICES ASSUME T # {} PROVE FALSE
    OBVIOUS
  <2>0. T \subseteq Nat
    OBVIOUS
  <2>1. PICK i \in T : \A j \in T : i <= j
    <3> HIDE DEF T
    <3> QED
      BY <2>0, LeastNumber
  <2>2. i \in 0..Len(q) /\ s[i] # t[i]
    OBVIOUS
  <2>3. i # 0
    BY <2>2 DEF Adds
  <2>4. i - 1 \in 0..Len(q) /\ i - 1 \notin T
    <3> HIDE DEF T
    <3> QED
      BY <1>0, <2>1, <2>2, <2>3
  <2>5. s[i - 1] = t[i - 1]
    BY <2>4
  <2> QED
    BY <2>2, <2>3, <2>5 DEF Adds
<1>2. \A i \in 0..Len(q) : s[i] = t[i]
  BY <1>1
<1>3. s = [i \in 0..Len(q) |-> s[i]] /\ t = [i \in 0..Len(q) |-> t[i]]
  BY DEF Adds
<1> QED
  BY <1>2, <1>3

\* Hence it is what the walk computes.
LEMMA SizeIsSum ==
    ASSUME NEW q \in Storage
    PROVE  /\ StorageSize(q) \in Nat
           /\ \A s : Adds(q, s) => s[Len(q)] = StorageSize(q)
           /\ \E s \in [0..Len(q) -> Nat] :
                 Adds(q, s) /\ s[Len(q)] = StorageSize(q)
<1>0. Len(q) \in Nat
  BY LengthAndSizes
<1>1. PICK s \in [0..Len(q) -> Nat] : Adds(q, s)
  BY SumExists
<1>2. Adds(q, SizeUpTo(q))
  BY <1>1 DEF SizeUpTo, Adds
<1>3. \A t : Adds(q, t) => t = SizeUpTo(q)
  BY <1>2, SumUnique
<1> QED
  BY <1>0, <1>1, <1>3 DEF StorageSize

\* A change of one size changes the sum by as much.
LEMMA SumOfUpdate ==
    ASSUME NEW q \in Storage, NEW p \in DOMAIN q, NEW n \in FileNode,
           NEW r, r = [q EXCEPT ![p] = n]
    PROVE  /\ r \in Storage
           /\ StorageSize(r) = StorageSize(q) - q[p].size + n.size
<1>0. /\ Len(q) \in Nat /\ p \in 1..Len(q) /\ n.size \in Nat
      /\ r \in Storage /\ Len(r) = Len(q) /\ r[p] = n
      /\ \A i \in 1..Len(q) : q[i].size \in Nat /\ (i # p => r[i] = q[i])
  <2>1. r \in Storage /\ Len(r) = Len(q)
    BY DEF Storage
  <2> QED
    BY <2>1, LengthAndSizes DEF FileNode
<1>1. PICK s \in [0..Len(q) -> Nat] : Adds(q, s) /\ s[Len(q)] = StorageSize(q)
  BY SizeIsSum
<1> DEFINE t == [i \in 0..Len(q) |->
                    IF i < p THEN s[i] ELSE s[i] - q[p].size + n.size]
<1>2. ASSUME NEW i \in 0..Len(q)
      PROVE  t[i] = IF i = 0 THEN 0 ELSE t[i - 1] + r[i].size
  <2>1. s[i] = IF i = 0 THEN 0 ELSE s[i - 1] + q[i].size
    BY <1>1 DEF Adds
  <2>2. CASE i = 0
    BY <1>0, <2>1, <2>2
  <2>3. CASE i \in 1..Len(q)
    <3>1. s[i] \in Nat /\ s[i - 1] \in Nat /\ i - 1 \in 0..Len(q) /\ i # 0
      BY <1>0, <1>1, <2>3
    <3>2. CASE i < p
      BY <1>0, <2>1, <2>3, <3>1, <3>2
    <3>3. CASE i = p
      BY <1>0, <2>1, <2>3, <3>1, <3>3
    <3>4. CASE i > p
      <4>1. t[i] = s[i] - q[p].size + n.size
        BY <1>0, <3>4
      <4>2. t[i - 1] = s[i - 1] - q[p].size + n.size
        BY <1>0, <2>3, <3>1, <3>4
      <4>3. r[i] = q[i] /\ q[i].size \in Nat /\ q[p].size \in Nat
        BY <1>0, <2>3, <3>4
      <4>4. s[i] = s[i - 1] + q[i].size /\ i # 0
        BY <2>1, <3>1
      <4>5. s[i] - q[p].size + n.size = s[i - 1] - q[p].size + n.size + q[i].size
        <5> DEFINE a == s[i - 1]
                   b == q[i].size
                   c == q[p].size
        <5>1. a \in Int /\ b \in Int /\ c \in Int /\ n.size \in Int
          BY <1>0, <3>1, <4>3
        <5>2. s[i] = a + b
          BY <4>4
        <5> HIDE DEF a, b, c
        <5>3. (a + b) - c + n.size = a - c + n.size + b
          BY <5>1
        <5> QED
          BY <5>2, <5>3, Zenon DEF a, b, c
      <4> HIDE DEF t
      <4> QED
        BY <4>1, <4>2, <4>3, <4>4, <4>5
    <3> QED
      BY <1>0, <2>3, <3>2, <3>3, <3>4
  <2> QED
    BY <1>0, <2>2, <2>3
<1>3. Adds(r, t)
  <2>1. t = [i \in 0..Len(q) |-> t[i]]
    OBVIOUS
  <2> HIDE DEF t
  <2> QED
    BY <1>0, <1>2, <2>1 DEF Adds
<1>4. t[Len(q)] = s[Len(q)] - q[p].size + n.size
  BY <1>0
<1> HIDE DEF t
<1> QED
  BY <1>0, <1>1, <1>3, <1>4, SizeIsSum

\* A push adds the size of the node.
LEMMA SumOfPush ==
    ASSUME NEW q \in Storage, NEW n \in FileNode, NEW r, r = Append(q, n)
    PROVE  r \in Storage /\ StorageSize(r) = StorageSize(q) + n.size
<1>0. /\ Len(q) \in Nat /\ n.size \in Nat
      /\ r \in Storage /\ Len(r) = Len(q) + 1 /\ r[Len(q) + 1] = n
      /\ \A i \in 1..Len(q) : q[i].size \in Nat /\ r[i] = q[i]
  <2>1. /\ r \in Storage /\ Len(r) = Len(q) + 1 /\ r[Len(q) + 1] = n
        /\ \A i \in 1..Len(q) : r[i] = q[i]
    BY DEF Storage
  <2> QED
    BY <2>1, LengthAndSizes DEF FileNode
<1>1. PICK s \in [0..Len(q) -> Nat] : Adds(q, s) /\ s[Len(q)] = StorageSize(q)
  BY SizeIsSum
<1> DEFINE l == Len(q) + 1
           t == [i \in 0..l |-> IF i = l THEN s[Len(q)] + n.size ELSE s[i]]
<1>2. ASSUME NEW i \in 0..l
      PROVE  t[i] = IF i = 0 THEN 0 ELSE t[i - 1] + r[i].size
  <2>1. CASE i = l
    BY <1>0, <1>1, <2>1
  <2>2. CASE i # l
    <3>1. i \in 0..Len(q) /\ i \in 0..l /\ (i # 0 => i - 1 \in 0..l /\ i - 1 # l)
      BY <1>0, <2>2
    <3>2. s[i] = IF i = 0 THEN 0 ELSE s[i - 1] + q[i].size
      BY <1>1, <3>1 DEF Adds
    <3>3. i # 0 => r[i] = q[i]
      BY <1>0, <3>1
    <3> QED
      BY <2>2, <3>1, <3>2, <3>3
  <2> QED
    BY <2>1, <2>2
<1>3. Adds(r, t)
  <2>1. t = [i \in 0..l |-> t[i]]
    OBVIOUS
  <2> HIDE DEF t
  <2> QED
    BY <1>0, <1>2, <2>1 DEF Adds
<1>4. t[l] = s[Len(q)] + n.size
  BY <1>0
<1> HIDE DEF t
<1> QED
  BY <1>0, <1>1, <1>3, <1>4, SizeIsSum

\* A removal gives back the size of the node.
LEMMA SumOfRemoval ==
    ASSUME NEW q \in Storage, NEW k \in DOMAIN q, NEW r, r = RemoveNode(q, k)
    PROVE  r \in Storage /\ StorageSize(r) = StorageSize(q) - q[k].size
<1>0. /\ Len(q) \in Nat /\ k \in 1..Len(q)
      /\ \A i \in 1..Len(q) : q[i].size \in Nat
  BY LengthAndSizes
<1>1. /\ r \in Storage /\ Len(r) = Len(q) - 1
      /\ \A i \in 1..(k - 1) : r[i] = q[i]
      /\ \A i \in k..(Len(q) - 1) : r[i] = q[i + 1]
  BY RemoveOne
<1>2. PICK s \in [0..Len(q) -> Nat] : Adds(q, s) /\ s[Len(q)] = StorageSize(q)
  BY SizeIsSum
<1>3. /\ s[0] = 0
      /\ \A i \in 1..Len(q) : s[i] = s[i - 1] + q[i].size
  <2>1. \A i \in 0..Len(q) :
           s[i] = IF i = 0 THEN 0 ELSE s[i - 1] + q[i].size
    BY <1>2 DEF Adds
  <2>2. 0 \in 0..Len(q) /\ \A i \in 1..Len(q) : i \in 0..Len(q) /\ i # 0
    BY <1>0
  <2> QED
    BY <2>1, <2>2, Zenon
<1> DEFINE l == Len(q) - 1
           t == [i \in 0..l |-> IF i < k THEN s[i] ELSE s[i + 1] - q[k].size]
<1>4. ASSUME NEW i \in 0..l
      PROVE  t[i] = IF i = 0 THEN 0 ELSE t[i - 1] + r[i].size
  <2>0. i \in 0..Len(q) /\ i + 1 \in 1..Len(q) /\ (i + 1) - 1 = i
    BY <1>0
  <2>1. CASE i = 0
    BY <1>0, <1>3, <2>1
  <2>2. CASE i # 0 /\ i < k
    <3>1. i \in 1..Len(q) /\ i \in 1..(k - 1) /\ i - 1 \in 0..l /\ i - 1 < k
      BY <1>0, <2>0, <2>2
    <3> QED
      BY <1>1, <1>3, <2>2, <3>1
  <2>3. CASE i # 0 /\ i = k
    <3>1. /\ i \in 1..Len(q) /\ i \in k..(Len(q) - 1)
          /\ i - 1 \in 0..l /\ i - 1 < k
      BY <1>0, <2>0, <2>3
    <3>2. s[i + 1] = s[i] + q[i + 1].size /\ s[i] = s[i - 1] + q[i].size
      BY <1>3, <2>0, <3>1
    <3>3. r[i] = q[i + 1]
      BY <1>1, <3>1
    <3>4. q[i].size \in Nat /\ q[i + 1].size \in Nat
      BY <1>0, <2>0, <3>1
    <3>5. s[i - 1] \in Nat
      <4>1. i - 1 \in 0..Len(q)
        BY <1>0, <3>1
      <4> QED
        BY <1>2, <4>1
    <3>6. t[i] = s[i + 1] - q[k].size /\ t[i - 1] = s[i - 1] /\ i # 0
      BY <2>3, <3>1
    <3> DEFINE a == s[i - 1]
               b == q[i].size
               c == q[i + 1].size
    <3>7. a \in Int /\ b \in Int /\ c \in Int
      BY <3>4, <3>5
    <3>8. t[i] = ((a + b) + c) - b /\ t[i - 1] + r[i].size = a + c
      BY <2>3, <3>2, <3>3, <3>6, Zenon
    <3> HIDE DEF t, a, b, c
    <3>9. ((a + b) + c) - b = a + c
      BY <3>7
    <3> QED
      BY <3>6, <3>8, <3>9
  <2>4. CASE i # 0 /\ i > k
    <3>1. /\ i \in k..(Len(q) - 1) /\ i - 1 \in 0..l /\ ~(i - 1 < k)
          /\ (i - 1) + 1 = i /\ i \in 0..Len(q)
      BY <1>0, <2>0, <2>4
    <3>2. s[i + 1] = s[i] + q[i + 1].size
      BY <1>3, <2>0
    <3>3. /\ s[i] \in Nat /\ q[k].size \in Nat /\ q[i + 1].size \in Nat
          /\ r[i] = q[i + 1]
      BY <1>0, <1>1, <1>2, <2>0, <3>1
    <3> QED
      BY <2>4, <3>1, <3>2, <3>3
  <2> QED
    BY <1>0, <2>1, <2>2, <2>3, <2>4
<1>5. Adds(r, t)
  <2>1. t = [i \in 0..l |-> t[i]]
    OBVIOUS
  <2> HIDE DEF t
  <2> QED
    BY <1>1, <1>4, <2>1 DEF Adds
<1>6. t[l] = s[Len(q)] - q[k].size
  <2>1. CASE l < k
    <3>1. k = Len(q) /\ l = k - 1 /\ t[l] = s[l]
      BY <1>0, <2>1
    <3>2. s[l] \in Nat /\ q[k].size \in Nat /\ s[k] = s[k - 1] + q[k].size
      BY <1>0, <1>2, <1>3, <3>1
    <3> QED
      BY <3>1, <3>2
  <2>2. CASE ~(l < k)
    BY <1>0, <2>2
  <2> QED
    BY <2>1, <2>2
<1> HIDE DEF t
<1> QED
  BY <1>1, <1>2, <1>5, <1>6, SizeIsSum

\* Where the files take room, one of them does.
LEMMA SomeFileIsNotEmpty ==
    ASSUME NEW q \in Storage, StorageSize(q) # 0
    PROVE  \E i \in DOMAIN q : q[i].size # 0
<1> SUFFICES ASSUME \A i \in DOMAIN q : q[i].size = 0 PROVE FALSE
  OBVIOUS
<1> DEFINE t == [i \in 0..Len(q) |-> 0]
<1>1. Len(q) \in Nat /\ DOMAIN q = 1..Len(q)
  BY LengthAndSizes
<1>2. ASSUME NEW i \in 0..Len(q)
      PROVE  t[i] = IF i = 0 THEN 0 ELSE t[i - 1] + q[i].size
  BY <1>1
<1>3. Adds(q, t) /\ t[Len(q)] = 0
  <2>1. t = [i \in 0..Len(q) |-> t[i]] /\ t[Len(q)] = 0
    BY <1>1
  <2> HIDE DEF t
  <2> QED
    BY <1>2, <2>1 DEF Adds
<1> HIDE DEF t
<1> QED
  BY <1>3, SizeIsSum
=============================================================================

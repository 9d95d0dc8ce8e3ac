-------------------------- MODULE LinkedListProofs ---------------------------
(***************************************************************************)
(* The operations of the linked list work: on nodes that represent a        *)
(* sequence, push, pop and removeNode leave nodes that represent the        *)
(* sequence with its last element added, its first or the given one gone.   *)
(* The modules that keep a queue of the server as a sequence rest on this.  *)
(***************************************************************************)
EXTENDS LinkedList, FiniteSetTheorems, NaturalsLemmas

\* calloc finds an address: a finite heap does not hold all of 0..|heap|.
LEMMA FreshIsFree ==
    ASSUME NEW cells, IsFiniteSet(DOMAIN cells)
    PROVE  Fresh(cells) \in Nat /\ Fresh(cells) \notin DOMAIN cells
<1> DEFINE S == DOMAIN cells
           n == Cardinality(S)
<1>1. n \in Nat
  BY FS_CardinalityType
<1>2. Cardinality(0..n) = n + 1
  BY <1>1, FS_Interval
<1>3. ~(0..n \subseteq S)
  BY <1>1, <1>2, FS_Subset
<1>4. \E a \in 0..n : a \notin S
  BY <1>3
<1> QED
  BY <1>1, <1>4 DEF Fresh

LEMMA ChainIsFinite ==
    ASSUME NEW s, Len(s) \in Nat, NEW q,
           NEW at \in [0..Len(s) -> DOMAIN q.cells], Chain(q, s, at)
    PROVE  IsFiniteSet(DOMAIN q.cells)
<1>1. IsFiniteSet(0..Len(s))
  BY FS_Interval
<1>2. at \in Surjection(0..Len(s), DOMAIN q.cells)
  BY DEF Chain, Surjection
<1> QED
  BY <1>1, <1>2, FS_Surjection

\* initQueue leaves an empty list.
LEMMA InitRepresents == Represents(initQueue, << >>)
<1> DEFINE at == [i \in 0..0 |-> 0]
<1>1. /\ initQueue.len = 0 /\ initQueue.head = 0 /\ initQueue.tail = 0
      /\ DOMAIN initQueue.cells = {0} /\ initQueue.cells[0].next = NULL
  BY DEF initQueue
<1>2. at \in [0..0 -> DOMAIN initQueue.cells] /\ Chain(initQueue, << >>, at)
  BY <1>1 DEF Chain
<1> QED
  BY <1>1, <1>2 DEF Represents

\* push adds a node behind the last one.
LEMMA PushRepresents ==
    ASSUME NEW D, NEW s \in Seq(D), NEW d \in D, NEW q, Represents(q, s)
    PROVE  Represents(push(q, d), Append(s, d))
<1> DEFINE n == Fresh(q.cells)
           r == push(q, d)
           t == Append(s, d)
           l == Len(s)
<1>1. PICK at \in [0..l -> DOMAIN q.cells] : Chain(q, s, at)
  BY DEF Represents
<1>2. l \in Nat /\ Len(t) = l + 1 /\ t[l + 1] = d /\ \A i \in 1..l : t[i] = s[i]
  OBVIOUS
<1>3. n \in Nat /\ n \notin DOMAIN q.cells
  BY <1>1, <1>2, ChainIsFinite, FreshIsFree
<1> DEFINE cells == [a \in DOMAIN q.cells \cup {n} |->
                        [data |-> IF a = n THEN d ELSE q.cells[a].data,
                         next |-> IF a = n THEN NULL
                                  ELSE IF a = q.tail THEN n
                                  ELSE q.cells[a].next]]
<1>4. r.cells = cells /\ r.head = q.head /\ r.tail = n /\ r.len = q.len + 1
  BY DEF push
<1>5. /\ DOMAIN cells = DOMAIN q.cells \cup {n}
      /\ cells[n].data = d /\ cells[n].next = NULL
      /\ \A a \in DOMAIN q.cells :
            /\ cells[a].data = q.cells[a].data
            /\ cells[a].next = IF a = q.tail THEN n ELSE q.cells[a].next
  BY <1>3
<1> DEFINE nt == [i \in 0..(l + 1) |-> IF i = l + 1 THEN n ELSE at[i]]
<1> HIDE DEF n, r, t, cells
<1>6. nt \in [0..Len(t) -> DOMAIN r.cells]
  BY <1>1, <1>2, <1>4, <1>5
<1>7. nt[l + 1] = n /\ \A i \in 0..l : nt[i] = at[i] /\ at[i] \in DOMAIN q.cells
  BY <1>1, <1>2
<1> HIDE DEF nt
<1>8. Chain(r, t, nt)
  <2>1. nt[0] = r.head /\ nt[Len(t)] = r.tail
    BY <1>1, <1>2, <1>4, <1>7 DEF Chain
  <2>2. ASSUME NEW i \in 0..Len(t), NEW j \in 0..Len(t), nt[i] = nt[j]
        PROVE  i = j
    BY <1>1, <1>2, <1>3, <1>7, <2>2 DEF Chain
  <2>3. ASSUME NEW a \in DOMAIN r.cells
        PROVE  \E i \in 0..Len(t) : nt[i] = a
    <3>1. CASE a = n
      BY <1>2, <1>7, <3>1
    <3>2. CASE a \in DOMAIN q.cells
      <4>1. PICK i \in 0..l : at[i] = a
        BY <1>1, <3>2 DEF Chain
      <4> QED
        BY <4>1, <1>2, <1>7
    <3> QED
      BY <1>4, <1>5, <3>1, <3>2
  <2>4. ASSUME NEW i \in 0..Len(t)
        PROVE  r.cells[nt[i]].next = IF i = Len(t) THEN NULL ELSE nt[i + 1]
    <3>1. CASE i = l + 1
      BY <1>2, <1>4, <1>5, <1>7, <3>1
    <3>2. CASE i = l
      BY <1>1, <1>2, <1>4, <1>5, <1>7, <3>2 DEF Chain
    <3>3. CASE i \in 0..(l - 1)
      <4>1. at[i] # q.tail
        BY <1>1, <1>2, <3>3 DEF Chain
      <4>2. q.cells[at[i]].next = at[i + 1]
        BY <1>1, <1>2, <3>3 DEF Chain
      <4>3. i \in 0..l /\ i + 1 \in 0..l /\ i # Len(t)
        BY <1>2, <3>3
      <4>4. nt[i] = at[i] /\ nt[i + 1] = at[i + 1] /\ at[i] \in DOMAIN q.cells
        BY <1>7, <4>3
      <4> QED
        BY <1>4, <1>5, <4>1, <4>2, <4>3, <4>4
    <3> QED
      BY <1>2, <3>1, <3>2, <3>3
  <2>5. ASSUME NEW i \in 1..Len(t) PROVE r.cells[nt[i]].data = t[i]
    <3>1. CASE i = l + 1
      BY <1>2, <1>4, <1>5, <1>7, <3>1
    <3>2. CASE i \in 1..l
      <4>1. i \in 0..l
        BY <1>2, <3>2
      <4>2. q.cells[at[i]].data = s[i]
        BY <1>1, <3>2 DEF Chain
      <4> QED
        BY <1>2, <1>4, <1>5, <1>7, <3>2, <4>1, <4>2
    <3> QED
      BY <1>2, <3>1, <3>2
  <2> QED
    BY <2>1, <2>2, <2>3, <2>4, <2>5 DEF Chain
<1>9. r.len = Len(t) /\ DOMAIN r.cells \subseteq Nat
  BY <1>2, <1>3, <1>4, <1>5 DEF Represents
<1> QED
  BY <1>6, <1>8, <1>9 DEF Represents, r, t

\* t is s without its k-th element.
Without(s, k, t) ==
    /\ Len(t) = Len(s) - 1
    /\ \A i \in 1..(k - 1) : t[i] = s[i]
    /\ \A i \in k..(Len(s) - 1) : t[i] = s[i + 1]

\* A list whose k-th node has been unlinked, and its tail moved if that node
\* was the last, holds the rest.
LEMMA UnlinkRepresents ==
    ASSUME NEW s, Len(s) \in Nat, NEW k \in 1..Len(s), NEW t, Without(s, k, t),
           NEW q, q.len = Len(s), DOMAIN q.cells \subseteq Nat,
           NEW at \in [0..Len(s) -> DOMAIN q.cells], Chain(q, s, at),
           NEW r, r.cells = Unlink(q, at[k - 1]), r.head = q.head,
           r.tail = IF q.tail = at[k] THEN at[k - 1] ELSE q.tail,
           r.len = q.len - 1
    PROVE  Represents(r, t)
<1> DEFINE l == Len(s)
           up(i) == IF i < k THEN i ELSE i + 1
           nt == [i \in 0..(l - 1) |-> at[up(i)]]
<1>1. /\ l \in Nat /\ k \in 1..l /\ Len(t) = l - 1
      /\ k - 1 \in 0..l /\ k \in 0..l
  BY DEF Without
<1>2. q.cells[at[k - 1]].next = at[k]
  <2>1. (k - 1) + 1 = k /\ k - 1 # l
    BY <1>1
  <2>2. q.cells[at[k - 1]].next = IF k - 1 = l THEN NULL ELSE at[(k - 1) + 1]
    BY <1>1 DEF Chain
  <2> QED
    BY <2>1, <2>2
<1>3. /\ DOMAIN r.cells = DOMAIN q.cells \ {at[k]}
      /\ \A a \in DOMAIN r.cells :
            /\ r.cells[a].data = q.cells[a].data
            /\ r.cells[a].next = IF a = at[k - 1] THEN q.cells[at[k]].next
                                 ELSE q.cells[a].next
  BY <1>2 DEF Unlink
<1>4. ASSUME NEW i \in 0..(l - 1) PROVE up(i) \in 0..l /\ up(i) # k
  <2>1. CASE i < k
    BY <1>1, <2>1
  <2>2. CASE i >= k
    BY <1>1, <2>2
  <2> QED
    BY <1>1, <2>1, <2>2
<1>5. \A i, j \in 0..(l - 1) : up(i) = up(j) => i = j
  BY <1>1
<1>6. \A m \in 0..l : m # k => \E i \in 0..(l - 1) : up(i) = m
  <2> TAKE m \in 0..l
  <2> HAVE m # k
  <2> DEFINE i == IF m < k THEN m ELSE m - 1
  <2>1. i \in 0..(l - 1) /\ up(i) = m
    BY <1>1
  <2> QED
    BY <2>1
<1>7. nt \in [0..Len(t) -> DOMAIN r.cells]
  <2>1. \A i \in 0..(l - 1) : at[up(i)] \in DOMAIN q.cells \ {at[k]}
    BY <1>1, <1>4 DEF Chain
  <2> QED
    BY <1>1, <1>3, <2>1
<1>8. \A i \in 0..(l - 1) : nt[i] = at[up(i)] /\ nt[i] \in DOMAIN r.cells
  BY <1>1, <1>7
<1>9. /\ \A i \in 0..(k - 1) : up(i) = i
      /\ \A i \in k..(l - 1) : up(i) = i + 1
  BY <1>1
<1> HIDE DEF nt, up
<1>10. Chain(r, t, nt)
  <2>1. nt[0] = r.head
    BY <1>1, <1>8, <1>9 DEF Chain
  <2>2. nt[Len(t)] = r.tail
    <3>1. CASE k = l
      <4>1. l - 1 \in 0..(k - 1) /\ l - 1 \in 0..(l - 1)
        BY <1>1, <3>1
      <4>2. nt[l - 1] = at[k - 1]
        BY <1>8, <1>9, <3>1, <4>1
      <4>3. q.tail = at[k]
        BY <3>1 DEF Chain
      <4> QED
        BY <1>1, <4>2, <4>3
    <3>2. CASE k < l
      <4>1. l - 1 \in k..(l - 1) /\ l - 1 \in 0..(l - 1) /\ (l - 1) + 1 = l
            /\ l \in 0..l
        BY <1>1, <3>2
      <4>2. nt[l - 1] = at[l]
        BY <1>8, <1>9, <4>1
      <4>3. q.tail = at[l] /\ at[l] # at[k]
        BY <1>1, <3>2, <4>1 DEF Chain
      <4> QED
        BY <1>1, <4>2, <4>3
    <3> QED
      BY <1>1, <3>1, <3>2
  <2>3. ASSUME NEW i \in 0..Len(t), NEW j \in 0..Len(t), nt[i] = nt[j]
        PROVE  i = j
    <3>1. i \in 0..(l - 1) /\ j \in 0..(l - 1)
      BY <1>1
    <3>2. at[up(i)] = at[up(j)]
      BY <1>8, <2>3, <3>1
    <3>3. up(i) = up(j)
      BY <1>4, <3>1, <3>2 DEF Chain
    <3> QED
      BY <1>5, <3>1, <3>3
  <2>4. ASSUME NEW a \in DOMAIN r.cells
        PROVE  \E i \in 0..Len(t) : nt[i] = a
    <3>1. PICK m \in 0..l : at[m] = a
      BY <1>3 DEF Chain
    <3>2. m # k
      BY <1>3, <3>1
    <3> QED
      BY <1>1, <1>6, <1>8, <3>1, <3>2
  <2>5. ASSUME NEW i \in 0..Len(t)
        PROVE  r.cells[nt[i]].next = IF i = Len(t) THEN NULL ELSE nt[i + 1]
    <3>1. i \in 0..(l - 1) /\ up(i) \in 0..l
      BY <1>1, <1>4
    <3>2. r.cells[nt[i]].next =
             IF up(i) = k - 1 THEN q.cells[at[k]].next
             ELSE q.cells[at[up(i)]].next
      <4>1. at[up(i)] = at[k - 1] <=> up(i) = k - 1
        BY <1>1, <3>1 DEF Chain
      <4>2. nt[i] = at[up(i)] /\ nt[i] \in DOMAIN r.cells
        BY <1>8, <3>1
      <4> QED
        BY <1>3, <4>1, <4>2
    <3>3. \A m \in 0..l :
             q.cells[at[m]].next = IF m = l THEN NULL ELSE at[m + 1]
      BY DEF Chain
    <3>4. CASE i = k - 1
      <4>1. r.cells[nt[i]].next = IF k = l THEN NULL ELSE at[k + 1]
        BY <1>1, <1>9, <3>1, <3>2, <3>3, <3>4
      <4>2. k # l => nt[i + 1] = at[k + 1]
        BY <1>1, <1>8, <1>9, <3>4
      <4> QED
        BY <1>1, <3>4, <4>1, <4>2
    <3>5. CASE i \in 0..(k - 2)
      <4>1. up(i) = i /\ i # k - 1 /\ i # l /\ i # Len(t)
        BY <1>1, <1>9, <3>5
      <4>2. nt[i + 1] = at[i + 1]
        <5>1. i + 1 \in 0..(k - 1) /\ i + 1 \in 0..(l - 1)
          BY <1>1, <3>5
        <5> QED
          BY <1>8, <1>9, <5>1
      <4> QED
        BY <3>1, <3>2, <3>3, <4>1, <4>2
    <3>6. CASE i \in k..(l - 1)
      <4>1. up(i) = i + 1 /\ i + 1 # k - 1
        BY <1>1, <1>9, <3>6
      <4>2. ASSUME i # l - 1 PROVE nt[i + 1] = at[(i + 1) + 1]
        <5>1. i \in Int /\ k \in Int /\ l \in Int /\ 0 < k /\ k <= i /\ i < l - 1
          BY <1>1, <3>6, <4>2
        <5>2. i + 1 \in 0..(l - 1) /\ i + 1 \in k..(l - 1)
          BY <5>1
        <5> QED
          BY <1>8, <1>9, <5>2
      <4> QED
        BY <1>1, <3>1, <3>2, <3>3, <3>6, <4>1, <4>2
    <3> QED
      BY <1>1, <3>1, <3>4, <3>5, <3>6
  <2>6. ASSUME NEW i \in 1..Len(t) PROVE r.cells[nt[i]].data = t[i]
    <3>1. /\ i \in 0..(l - 1) /\ up(i) \in 1..l
          /\ i \in 1..(k - 1) \/ i \in k..(l - 1)
      BY <1>1, <1>9
    <3>2. r.cells[nt[i]].data = s[up(i)]
      <4>1. nt[i] = at[up(i)] /\ nt[i] \in DOMAIN r.cells
        BY <1>8, <3>1
      <4>2. q.cells[at[up(i)]].data = s[up(i)]
        BY <3>1 DEF Chain
      <4> QED
        BY <1>3, <4>1, <4>2
    <3>3. t[i] = s[up(i)]
      BY <1>1, <1>9, <3>1 DEF Without
    <3> QED
      BY <3>2, <3>3
  <2> QED
    BY <2>1, <2>2, <2>3, <2>4, <2>5, <2>6 DEF Chain
<1>11. r.len = Len(t) /\ DOMAIN r.cells \subseteq Nat
  BY <1>1, <1>3
<1> QED
  BY <1>7, <1>10, <1>11 DEF Represents

\* pop takes the first element, and brings tail back to the head when it was
\* the last one.
THEOREM PopRepresents ==
    ASSUME NEW D, NEW s \in Seq(D), s # << >>, NEW q, Represents(q, s)
    PROVE  Represents(pop(q), Tail(s))
<1> DEFINE r == pop(q)
           l == Len(s)
<1>1. PICK at \in [0..l -> DOMAIN q.cells] : Chain(q, s, at)
  BY DEF Represents
<1>2. l \in Nat /\ 1 \in 1..l /\ Without(s, 1, Tail(s))
  BY DEF Without
<1>3. at[0] = q.head /\ q.cells[at[0]].next = at[1]
  BY <1>1, <1>2 DEF Chain
<1>4. at[0] # at[1] /\ at[0] \in DOMAIN q.cells /\ at[1] \in DOMAIN q.cells
  BY <1>1, <1>2 DEF Chain
<1> DEFINE rest == Unlink(q, q.head)
<1>5. rest[q.head].next = q.cells[at[1]].next
  BY <1>3, <1>4 DEF Unlink
<1> HIDE DEF rest
<1>6. rest[q.head].next = NULL <=> q.tail = at[1]
  <2>1. CASE l = 1
    BY <1>1, <1>2, <1>5, <2>1 DEF Chain
  <2>2. CASE l # 1
    <3>1. 1 \in 0..l /\ 2 \in 0..l /\ l \in 0..l
      BY <1>2, <2>2
    <3>2. q.cells[at[1]].next = at[2] /\ q.tail = at[l] /\ at[l] # at[1]
      BY <1>1, <2>2, <3>1 DEF Chain
    <3>3. at[2] # NULL
      BY <3>1 DEF Represents, NULL
    <3> QED
      BY <1>5, <3>2, <3>3
  <2> QED
    BY <2>1, <2>2
<1>7. /\ r.cells = rest /\ r.head = q.head /\ r.len = q.len - 1
      /\ r.tail = IF rest[q.head].next = NULL THEN q.head ELSE q.tail
  BY DEF pop, rest
<1> HIDE DEF r
<1>8. /\ r.cells = Unlink(q, at[1 - 1]) /\ r.head = q.head
      /\ r.tail = IF q.tail = at[1] THEN at[1 - 1] ELSE q.tail
  BY <1>3, <1>6, <1>7 DEF rest
<1>9. Represents(r, Tail(s))
  <2>1. q.len = l /\ DOMAIN q.cells \subseteq Nat
    BY DEF Represents
  <2> QED
    BY <1>1, <1>2, <1>7, <1>8, <2>1, UnlinkRepresents
<1> QED
  BY <1>9 DEF r

\* removeNode takes the node of a datum that is in the list once.
THEOREM RemoveRepresents ==
    ASSUME NEW s, Len(s) \in Nat, NEW k \in 1..Len(s),
           \A i \in 1..Len(s) : s[i] = s[k] => i = k,
           NEW t, Without(s, k, t), NEW q, Represents(q, s)
    PROVE  Represents(removeNode(q, s[k]), t)
<1> DEFINE d == s[k]
           r == removeNode(q, d)
           l == Len(s)
<1>1. PICK at \in [0..l -> DOMAIN q.cells] : Chain(q, s, at)
  BY DEF Represents
<1>2. k - 1 \in 0..l /\ k \in 0..l /\ (k - 1) + 1 = k /\ k - 1 # l
  OBVIOUS
<1>3. q.cells[at[k - 1]].next = at[k] /\ q.cells[at[k]].data = d
  <2>1. q.cells[at[k - 1]].next = at[(k - 1) + 1]
    BY <1>1, <1>2 DEF Chain
  <2>2. q.cells[at[k]].data = s[k]
    BY <1>1 DEF Chain
  <2> QED
    BY <1>2, <2>1, <2>2
<1>4. at[k] # NULL
  <2>1. at[k] \in DOMAIN q.cells /\ DOMAIN q.cells \subseteq Nat
    BY <1>2 DEF Represents
  <2> QED
    BY <2>1 DEF NULL
<1>5. at[k - 1] \in DOMAIN q.cells /\ Precedes(q, at[k - 1], d)
  BY <1>2, <1>3, <1>4 DEF Precedes
<1>6. ASSUME NEW a \in DOMAIN q.cells, Precedes(q, a, d)
      PROVE  a = at[k - 1]
  <2>1. PICK i \in 0..l : at[i] = a
    BY <1>1 DEF Chain
  <2>2. i # l /\ q.cells[a].next = at[i + 1]
    BY <1>1, <1>6, <2>1 DEF Chain, Precedes
  <2>3. i + 1 \in 1..l /\ s[i + 1] = d
    BY <1>1, <1>6, <2>1, <2>2 DEF Chain, Precedes
  <2>4. i + 1 = k
    BY <2>3
  <2> QED
    BY <2>1, <2>4
<1>7. (CHOOSE a \in DOMAIN q.cells : Precedes(q, a, d)) = at[k - 1]
  BY <1>5, <1>6
<1>8. /\ r.cells = Unlink(q, at[k - 1]) /\ r.head = q.head
      /\ r.len = q.len - 1
      /\ r.tail = IF q.tail = at[k] THEN at[k - 1] ELSE q.tail
  BY <1>3, <1>5, <1>7 DEF removeNode
<1> HIDE DEF r, d
<1>9. q.len = l /\ DOMAIN q.cells \subseteq Nat
  BY DEF Represents
<1>10. Represents(r, t)
  BY <1>1, <1>8, <1>9, UnlinkRepresents
<1> QED
  BY <1>10 DEF r, d

-----------------------------------------------------------------------------
(* deleteQueue frees every node                                            *)

\* at is the walk of Walk.
IsWalk(q, at) ==
    at = [i \in 0..Cardinality(DOMAIN q.cells) |->
             IF i = 0 THEN q.head
             ELSE IF at[i - 1] = NULL THEN NULL ELSE q.cells[at[i - 1]].next]

\* A chain has as many nodes as the heap: the walk meets all of them, and
\* nothing else.
LEMMA WalkMeetsAll ==
    ASSUME NEW s, Len(s) \in Nat, NEW q, Represents(q, s)
    PROVE  Reached(q) = DOMAIN q.cells
<1> DEFINE n == Cardinality(DOMAIN q.cells)
           l == Len(s)
<1>1. PICK at \in [0..l -> DOMAIN q.cells] : Chain(q, s, at)
  BY DEF Represents
<1>2. IsFiniteSet(DOMAIN q.cells) /\ n \in Nat
  BY <1>1, ChainIsFinite, FS_CardinalityType
<1>3. l <= n
  <2>1. at \in Injection(0..l, DOMAIN q.cells)
    BY <1>1 DEF Chain, Injection, IsInjective
  <2>2. IsFiniteSet(0..l) /\ Cardinality(0..l) = l + 1
    BY FS_Interval
  <2>3. Cardinality(0..l) <= n
    BY <1>2, <2>1, <2>2, FS_Injection
  <2> QED
    BY <1>2, <2>2, <2>3
<1> DEFINE h == [i \in 0..n |-> IF i <= l THEN at[i] ELSE NULL]
<1>4. \A i \in 0..l : at[i] # NULL
  BY <1>1 DEF Represents, NULL
<1>5. IsWalk(q, h)
  <2>1. ASSUME NEW i \in 0..n
        PROVE  h[i] = IF i = 0 THEN q.head
                      ELSE IF h[i - 1] = NULL THEN NULL
                      ELSE q.cells[h[i - 1]].next
    <3>1. CASE i = 0
      BY <1>1, <1>2, <3>1 DEF Chain
    <3>2. CASE i \in 1..l
      <4>1. i - 1 \in 0..l /\ i - 1 \in 0..n /\ i - 1 # l /\ i = (i - 1) + 1
        BY <1>2, <1>3, <3>2
      <4>2. h[i] = at[i] /\ h[i - 1] = at[i - 1]
        BY <1>2, <3>2, <4>1
      <4>3. q.cells[at[i - 1]].next = at[i]
        BY <1>1, <4>1 DEF Chain
      <4> QED
        BY <1>4, <3>2, <4>1, <4>2, <4>3
    <3>3. CASE i = l + 1
      <4>1. h[i] = NULL /\ h[i - 1] = at[l] /\ i # 0
        BY <1>2, <3>3
      <4>2. q.cells[at[l]].next = NULL
        BY <1>1 DEF Chain
      <4> HIDE DEF h
      <4> QED
        BY <4>1, <4>2
    <3>4. CASE i > l + 1
      BY <1>2, <3>4
    <3> QED
      BY <1>2, <3>1, <3>2, <3>3, <3>4
  <2> QED
    BY <2>1 DEF IsWalk
<1>6. IsWalk(q, Walk(q))
  BY <1>5, Zenon DEF IsWalk, Walk
<1>7. \A i \in 0..l : h[i] = at[i] /\ i \in 0..n
  BY <1>2, <1>3
<1>8. \A i \in 0..n : h[i] \in DOMAIN q.cells \cup {NULL}
  BY <1>1
<1> HIDE DEF h
<1>9. \A i \in 0..n : Walk(q)[i] = h[i]
  <2> DEFINE T == {i \in 0..n : Walk(q)[i] # h[i]}
  <2> SUFFICES ASSUME T # {} PROVE FALSE
    OBVIOUS
  <2>0. T \subseteq Nat
    OBVIOUS
  <2>1. PICK i \in T : \A j \in T : i <= j
    <3> HIDE DEF T
    <3> QED
      BY <2>0, LeastNumber
  <2>2. i \in 0..n /\ Walk(q)[i] # h[i]
    BY <2>1
  <2>3. i # 0
    BY <1>5, <1>6, <2>2 DEF IsWalk
  <2>4. i - 1 \in 0..n /\ i - 1 \notin T
    BY <1>2, <2>1, <2>2, <2>3
  <2>5. Walk(q)[i - 1] = h[i - 1]
    BY <2>4
  <2>6. Walk(q)[i] = IF h[i - 1] = NULL THEN NULL ELSE q.cells[h[i - 1]].next
    BY <1>6, <2>2, <2>3, <2>5 DEF IsWalk
  <2>7. h[i] = IF h[i - 1] = NULL THEN NULL ELSE q.cells[h[i - 1]].next
    BY <1>5, <2>2, <2>3 DEF IsWalk
  <2> QED
    BY <2>2, <2>6, <2>7
<1>10. ASSUME NEW a \in DOMAIN q.cells PROVE a \in Reached(q)
  <2>1. PICK i \in 0..l : at[i] = a
    BY <1>1 DEF Chain
  <2>2. Walk(q)[i] = a /\ a # NULL /\ i \in 0..n
    BY <1>4, <1>7, <1>9, <2>1
  <2> QED
    BY <2>2 DEF Reached
<1>11. Reached(q) \subseteq DOMAIN q.cells
  BY <1>8, <1>9 DEF Reached
<1> QED
  BY <1>10, <1>11

\* What the nodes behind the head hold is the data of the sequence.
LEMMA WalkMeetsData ==
    ASSUME NEW s, Len(s) \in Nat, NEW q, Represents(q, s)
    PROVE  Held(q) = {s[i] : i \in 1..Len(s)}
<1>1. PICK at \in [0..Len(s) -> DOMAIN q.cells] : Chain(q, s, at)
  BY DEF Represents
<1>2. /\ at[0] = q.head
      /\ \A i, j \in 0..Len(s) : at[i] = at[j] => i = j
      /\ \A a \in DOMAIN q.cells : \E i \in 0..Len(s) : at[i] = a
      /\ \A i \in 1..Len(s) : q.cells[at[i]].data = s[i]
  BY <1>1 DEF Chain
<1>3. Held(q) = {q.cells[a].data : a \in DOMAIN q.cells \ {q.head}}
  BY WalkMeetsAll DEF Held
<1>4. ASSUME NEW a \in DOMAIN q.cells \ {q.head}
      PROVE  \E i \in 1..Len(s) : q.cells[a].data = s[i]
  <2>1. PICK i \in 0..Len(s) : at[i] = a
    BY <1>2
  <2>2. i \in 1..Len(s)
    BY <1>2, <2>1
  <2> QED
    BY <1>2, <2>1, <2>2
<1>5. ASSUME NEW i \in 1..Len(s)
      PROVE  \E a \in DOMAIN q.cells \ {q.head} : q.cells[a].data = s[i]
  <2>1. i \in 0..Len(s) /\ 0 \in 0..Len(s) /\ i # 0
    OBVIOUS
  <2> QED
    BY <1>2, <2>1
<1>6. Held(q) \subseteq {s[i] : i \in 1..Len(s)}
  BY <1>3, <1>4
<1>7. {s[i] : i \in 1..Len(s)} \subseteq Held(q)
  BY <1>3, <1>5
<1> QED
  BY <1>6, <1>7

LEMMA DeleteFreesAll ==
    ASSUME NEW s, Len(s) \in Nat, NEW q, Represents(q, s)
    PROVE  deleteQueue(q) = {}
BY WalkMeetsAll DEF deleteQueue
=============================================================================

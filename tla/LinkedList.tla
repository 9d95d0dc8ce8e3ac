------------------------------ MODULE LinkedList ------------------------------
(***************************************************************************)
(* The list of src/src/server/queue.c, with removeNode and deleteFileQueue  *)
(* of fileStorage.c, which work on its nodes: cells that are allocated,     *)
(* linked and freed.  The head is a node without data.                      *)
(*                                                                         *)
(* The heap of a list is a function from the addresses allocated to its     *)
(* nodes.  An address that is freed leaves the domain and may be allocated  *)
(* again.                                                                  *)
(***************************************************************************)
EXTENDS Integers, Sequences, FiniteSets

\* No address.
NULL == -1

\* calloc: an address that is not in use.
Fresh(cells) ==
    CHOOSE a \in 0..Cardinality(DOMAIN cells) : a \notin DOMAIN cells

\* The data of the head: none.
NoData == ""

initQueue ==
    [cells |-> [a \in {0} |-> [data |-> NoData, next |-> NULL]],
     head |-> 0, tail |-> 0, len |-> 0]

push(q, d) ==
    LET n == Fresh(q.cells) IN
    [cells |-> [a \in DOMAIN q.cells \cup {n} |->
                   [data |-> IF a = n THEN d ELSE q.cells[a].data,
                    next |-> IF a = n THEN NULL
                             ELSE IF a = q.tail THEN n ELSE q.cells[a].next]],
     head |-> q.head, tail |-> n, len |-> q.len + 1]

\* The node behind prec leaves the chain and is freed.
Unlink(q, prec) ==
    LET n == q.cells[prec].next IN
    [a \in DOMAIN q.cells \ {n} |->
        [data |-> q.cells[a].data,
         next |-> IF a = prec THEN q.cells[n].next ELSE q.cells[a].next]]

\* The callers have tested that the queue is not empty.
pop(q) ==
    LET rest == Unlink(q, q.head) IN
    [cells |-> rest, head |-> q.head,
     tail |-> IF rest[q.head].next = NULL THEN q.head ELSE q.tail,
     len |-> q.len - 1]

\* prec is the node before one with data d.  A FileNode is in the list once,
\* so any such node is the first one the walk of removeNode meets.
Precedes(q, prec, d) ==
    q.cells[prec].next # NULL /\ q.cells[q.cells[prec].next].data = d

\* Fault: the tail of the queue is not moved when the last node goes.
removeNodeKeepsTail(q, d) ==
    IF ~ \E a \in DOMAIN q.cells : Precedes(q, a, d) THEN q
    ELSE LET prec == CHOOSE a \in DOMAIN q.cells : Precedes(q, a, d) IN
         [q EXCEPT !.cells = Unlink(q, prec), !.len = q.len - 1]

removeNode(q, d) ==
    IF ~ \E a \in DOMAIN q.cells : Precedes(q, a, d) THEN q
    ELSE LET prec == CHOOSE a \in DOMAIN q.cells : Precedes(q, a, d) IN
         [cells |-> Unlink(q, prec), head |-> q.head,
          tail |-> IF q.tail = q.cells[prec].next THEN prec ELSE q.tail,
          len |-> q.len - 1]

\* The nodes a walk from the head meets, NULL behind the last.
Walk(q) ==
    LET at[i \in 0..Cardinality(DOMAIN q.cells)] ==
            IF i = 0 THEN q.head
            ELSE IF at[i - 1] = NULL THEN NULL ELSE q.cells[at[i - 1]].next
    IN  at

Reached(q) == {Walk(q)[i] : i \in 0..Cardinality(DOMAIN q.cells)} \ {NULL}

\* The data of the nodes deleteFileQueue meets; the head has none.
Held(q) == {q.cells[a].data : a \in Reached(q) \ {q.head}}

\* deleteQueue and deleteFileQueue: what is still allocated afterwards.
deleteQueue(q) == DOMAIN q.cells \ Reached(q)

-----------------------------------------------------------------------------

\* at numbers the nodes of q, which is one chain from head to tail with the
\* data of the sequence s behind the head.  No other node is allocated.
Chain(q, s, at) ==
    /\ at[0] = q.head /\ at[Len(s)] = q.tail
    /\ \A i, j \in 0..Len(s) : at[i] = at[j] => i = j
    /\ \A a \in DOMAIN q.cells : \E i \in 0..Len(s) : at[i] = a
    /\ \A i \in 0..Len(s) :
          q.cells[at[i]].next = IF i = Len(s) THEN NULL ELSE at[i + 1]
    /\ \A i \in 1..Len(s) : q.cells[at[i]].data = s[i]

\* The list q holds the data of the sequence s, in this order.
Represents(q, s) ==
    /\ q.len = Len(s)
    /\ DOMAIN q.cells \subseteq Nat
    /\ \E at \in [0..Len(s) -> DOMAIN q.cells] : Chain(q, s, at)
=============================================================================

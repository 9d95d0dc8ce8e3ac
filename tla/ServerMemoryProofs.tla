------------------------- MODULE ServerMemoryProofs --------------------------
(***************************************************************************)
(* The nodes of the linked list hold the files of the storage, for every    *)
(* number of workers, clients and files, and every FileNode and content is  *)
(* freed once.  A step of a handler keeps the names of the files, pushes    *)
(* one or removes one; LinkedListProofs says what that does to the nodes.   *)
(*                                                                         *)
(* ServerMemory takes push and removeNode for one step each, which they are *)
(* for those who exclude each other.  So the theorems are about workloads   *)
(* without lock waits, and prove the exclusion along with what rests on it. *)
(***************************************************************************)
EXTENDS ServerMemory, FileServerProofs, LinkedListProofs

LEMMA NamesType ==
    ASSUME NEW q \in Storage
    PROVE  /\ Names(q) \in Seq(Files) /\ Len(Names(q)) = Len(q)
           /\ \A i \in 1..Len(q) : Names(q)[i] = q[i].pathname
<1>1. Len(q) \in Nat /\ DOMAIN q = 1..Len(q)
  BY DEF Storage
<1>2. ASSUME NEW i \in 1..Len(q) PROVE q[i].pathname \in Files
  <2>1. q[i] \in FileNode
    BY <1>1 DEF Storage
  <2> QED
    BY <2>1 DEF FileNode
<1>3. Names(q) \in [1..Len(q) -> Files]
  BY <1>1, <1>2 DEF Names
<1>4. Names(q) \in Seq(Files)
  BY <1>1, <1>3, SeqDef
<1>5. Len(Names(q)) = Len(q)
  BY <1>1, <1>3, <1>4, LenProperties
<1> QED
  BY <1>1, <1>4, <1>5 DEF Names

\* An update of a node (lock, unlock, close, write, append) keeps the names.
LEMMA UpdatesKeepNames ==
    ASSUME NEW q \in Storage, NEW f, Found(q, f)
    PROVE  /\ \A c : Names(SetOwner(q, f, c)) = Names(q)
           /\ \A n : Names(SetSize(q, f, n)) = Names(q)
           /\ Names(Close(q, f)) = Names(q)
           /\ \A c : Len(SetOwner(q, f, c)) = Len(q)
           /\ \A n : Len(SetSize(q, f, n)) = Len(q)
           /\ Len(Close(q, f)) = Len(q)
<1>1. Position(q, f) \in DOMAIN q /\ q[Position(q, f)] \in FileNode
  BY PositionOfName DEF Storage
<1>2. ASSUME NEW n, n.pathname = q[Position(q, f)].pathname
      PROVE  /\ Names([q EXCEPT ![Position(q, f)] = n]) = Names(q)
             /\ Len([q EXCEPT ![Position(q, f)] = n]) = Len(q)
  BY <1>1, <1>2 DEF Names, Storage
<1>3. \A c : [q[Position(q, f)] EXCEPT !.client_id = c].pathname
               = q[Position(q, f)].pathname
  BY <1>1 DEF FileNode
<1>4. \A n : [q[Position(q, f)] EXCEPT !.size = n].pathname
               = q[Position(q, f)].pathname
  BY <1>1 DEF FileNode
<1>5. [q[Position(q, f)] EXCEPT !.isOpen = FALSE].pathname
        = q[Position(q, f)].pathname
  BY <1>1 DEF FileNode
<1> QED
  BY <1>2, <1>3, <1>4, <1>5 DEF SetOwner, SetSize, Close

\* What a step does to the files of the storage, as a list of names.
KeepsNames ==
    Names(fileQueue') = Names(fileQueue) /\ Len(fileQueue') = Len(fileQueue)

PushesFile == \E n \in FileNode : fileQueue' = Append(fileQueue, n)

RemovesFile == \E k \in DOMAIN fileQueue : fileQueue' = RemoveNode(fileQueue, k)

LEMMA StepOfNames ==
    ASSUME Safe, Next
    PROVE  \/ KeepsNames \/ RemovesFile
           \/ PushesFile /\ \E w \in Workers : Create(w)
<1>t. TypeInv /\ fileQueue \in Storage
  BY DEF Safe, TypeInv, TypeOK, Storage
<1>1. ASSUME UNCHANGED fileQueue PROVE KeepsNames
  BY <1>1 DEF KeepsNames
<1>2. ASSUME NEW w \in Workers, Try(w) PROVE KeepsNames
  <2>1. CASE fileQueue' = SetOwner(fileQueue, File(w), client[w])
             /\ Found(fileQueue, File(w))
    BY <1>t, <2>1, UpdatesKeepNames DEF KeepsNames
  <2> QED
    BY <1>1, <1>2, <2>1 DEF Try, TryLocks
<1>3. ASSUME NEW w \in Workers, Unlock(w) PROVE KeepsNames
  <2>1. CASE UnlockStatus(fileQueue, File(w), client[w]) = 0
    <3>1. Found(fileQueue, File(w))
      BY <2>1 DEF UnlockStatus, Usable
    <3>2. fileQueue' = SetOwner(fileQueue, File(w), NoClient)
      BY <1>3, <2>1 DEF Unlock
    <3> QED
      BY <1>t, <3>1, <3>2, UpdatesKeepNames DEF KeepsNames
  <2> QED
    BY <1>1, <1>3, <2>1 DEF Unlock
<1>4. ASSUME NEW w \in Workers, CloseFile(w) PROVE KeepsNames
  <2>1. CASE CloseSucceeds(fileQueue, File(w), client[w])
    <3>1. Found(fileQueue, File(w))
      BY <2>1 DEF CloseSucceeds, Usable
    <3>2. fileQueue' = Close(fileQueue, File(w))
      BY <1>4, <2>1 DEF CloseFile
    <3> QED
      BY <1>t, <3>1, <3>2, UpdatesKeepNames DEF KeepsNames
  <2> QED
    BY <1>1, <1>4, <2>1 DEF CloseFile
<1>5. ASSUME NEW w \in Workers, Store(w) PROVE KeepsNames
  <2>1. CASE Usable(fileQueue, File(w))
    <3>1. Found(fileQueue, File(w))
      BY <2>1 DEF Usable
    <3>2. \E n : fileQueue' = SetSize(fileQueue, File(w), n)
      BY <1>5, <2>1 DEF Store, Grow
    <3> QED
      BY <1>t, <3>1, <3>2, UpdatesKeepNames DEF KeepsNames
  <2> QED
    BY <1>1, <1>5, <2>1 DEF Store
<1>6. ASSUME NEW w \in Workers, Create(w) PROVE PushesFile
  <2> DEFINE n == NewNode(File(w), request[w].flags, client[w])
  <2>1. request[w] \in Requests /\ client[w] \in Clients
    BY <1>t, <1>6 DEF Create, TypeInv, Sessions, Busy, Critical
  <2>2. n \in FileNode
    BY <2>1, RequestFields DEF NewNode, FileNode, File
  <2> QED
    BY <1>6, <2>2 DEF Create, PushesFile
<1>7. ASSUME NEW w \in Workers, Delete(w) PROVE KeepsNames \/ RemovesFile
  <2>1. CASE DeleteSucceeds(fileQueue, File(w), client[w])
    BY <1>t, <1>7, <2>1, PositionOfName
       DEF Delete, DeleteSucceeds, Usable, RemovesFile, Discard
  <2> QED
    BY <1>1, <1>7, <2>1 DEF Delete
<1>8. ASSUME NEW w \in Workers, RemoveVictim(w) \/ RemoveGarbage(w)
      PROVE  KeepsNames \/ RemovesFile
  <2>1. ASSUME NEW f, Found(fileQueue, f), Discard(f)
        PROVE  RemovesFile
    BY <1>t, <2>1, PositionOfName DEF Discard, RemovesFile
  <2> QED
    BY <1>1, <1>8, <2>1 DEF RemoveVictim, RemoveGarbage
<1> QED
  BY <1>1, <1>2, <1>3, <1>4, <1>5, <1>6, <1>7, <1>8, StorageActions

ListRight == Represents(list, Names(fileQueue))

LEMMA ListStep ==
    ASSUME Safe, Safe', ListRight, Handle
    PROVE  ListRight'
<1> DEFINE q == fileQueue
           r == fileQueue'
<1>t. /\ q \in Storage /\ r \in Storage /\ Unique(q)
      /\ Len(q) \in Nat /\ Len(r) \in Nat
  BY DEF Safe, LockInv, TypeInv, TypeOK, Storage
<1>1. KeepsNames \/ PushesFile \/ RemovesFile
  BY StepOfNames DEF Handle
<1>2. ListFollows
  BY DEF Handle
<1>3. CASE KeepsNames
  <2>1. Len(r) = Len(q) /\ Names(r) = Names(q)
    BY <1>3 DEF KeepsNames
  <2>2. list' = list
    BY <1>2, <1>t, <2>1 DEF ListFollows
  <2> QED
    BY <2>1, <2>2 DEF ListRight
<1>4. CASE PushesFile
  <2>1. PICK n \in FileNode : r = Append(q, n)
    BY <1>4 DEF PushesFile
  <2>2. Len(r) = Len(q) + 1 /\ r[Len(r)] = n /\ \A i \in 1..Len(q) : r[i] = q[i]
    BY <1>t, <2>1 DEF Storage
  <2>3. list' = push(list, n.pathname)
    <3>1. Len(r) > Len(q)
      BY <1>t, <2>2
    <3> QED
      BY <1>2, <2>2, <3>1 DEF ListFollows
  <2>4. Names(r) = Append(Names(q), n.pathname)
    <3> DEFINE s == Names(r)
               t == Append(Names(q), n.pathname)
    <3>1. n.pathname \in Files
      BY DEF FileNode
    <3>2. /\ s \in Seq(Files) /\ t \in Seq(Files)
          /\ Len(s) = Len(q) + 1 /\ Len(t) = Len(q) + 1
      BY <1>t, <2>2, <3>1, NamesType
    <3>3. ASSUME NEW i \in 1..(Len(q) + 1) PROVE s[i] = t[i]
      <4>1. CASE i = Len(q) + 1
        BY <1>t, <2>2, <3>1, <4>1, NamesType
      <4>2. CASE i \in 1..Len(q)
        BY <1>t, <2>2, <3>1, <4>2, NamesType
      <4>3. i = Len(q) + 1 \/ i \in 1..Len(q)
        BY <1>t
      <4> QED
        BY <4>1, <4>2, <4>3
    <3> QED
      BY <3>2, <3>3, SeqEqual
  <2>5. n.pathname \in Files /\ Names(q) \in Seq(Files)
    BY <1>t, NamesType DEF FileNode
  <2> QED
    BY <2>3, <2>4, <2>5, PushRepresents DEF ListRight
<1>5. CASE RemovesFile
  <2>1. PICK k \in DOMAIN q : r = RemoveNode(q, k)
    BY <1>5 DEF RemovesFile
  <2> DEFINE f == q[k].pathname
             s == Names(q)
             t == Names(r)
  <2>2. k \in 1..Len(q) /\ q[k] \in FileNode /\ f \in Files
    <3>1. k \in 1..Len(q) /\ q[k] \in FileNode
      BY <1>t DEF Storage
    <3> QED
      BY <3>1 DEF FileNode
  <2>3. /\ Len(r) = Len(q) - 1
        /\ \A g : Found(r, g) <=> (Found(q, g) /\ g # f)
        /\ Found(q, f)
    BY <1>t, <2>1, RemoveUnique, PositionUnique
  <2>4. /\ \A i \in 1..(k - 1) : r[i] = q[i]
        /\ \A i \in k..(Len(q) - 1) : r[i] = q[i + 1]
    BY <1>t, <2>1, RemoveOne
  <2> HIDE DEF f
  <2>5. (CHOOSE g \in Files : Found(q, g) /\ ~Found(r, g)) = f
    BY <2>2, <2>3
  <2>6. list' = removeNode(list, f)
    <3>1. Len(r) < Len(q) /\ ~(Len(r) > Len(q))
      BY <1>t, <2>3
    <3> QED
      BY <1>2, <2>5, <3>1 DEF ListFollows
  <2>7. /\ Len(s) = Len(q) /\ Len(t) = Len(q) - 1
        /\ \A i \in 1..Len(q) : s[i] = q[i].pathname
        /\ \A i \in 1..(Len(q) - 1) : t[i] = r[i].pathname
    BY <1>t, <2>3, NamesType
  <2>8. s[k] = f
    BY <2>2, <2>7 DEF f
  <2>9. \A i \in 1..Len(s) : s[i] = s[k] => i = k
    BY <1>t, <2>2, <2>7 DEF Unique, Storage
  <2> HIDE DEF s, t
  <2>10. Without(s, k, t)
    <3>1. ASSUME NEW i \in 1..(k - 1) PROVE t[i] = s[i]
      <4>1. i \in 1..Len(q) /\ i \in 1..(Len(q) - 1)
        BY <1>t, <2>2
      <4> QED
        BY <2>4, <2>7, <4>1
    <3>2. ASSUME NEW i \in k..(Len(q) - 1) PROVE t[i] = s[i + 1]
      <4>1. i + 1 \in 1..Len(q) /\ i \in 1..(Len(q) - 1)
        BY <1>t, <2>2
      <4> QED
        BY <2>4, <2>7, <4>1
    <3> QED
      BY <2>7, <3>1, <3>2 DEF Without
  <2>11. Represents(list', t)
    <3>1. Represents(list, s)
      BY DEF ListRight, s
    <3>2. Represents(removeNode(list, s[k]), t)
      BY <1>t, <2>2, <2>7, <2>9, <2>10, <3>1, RemoveRepresents
    <3> QED
      BY <2>6, <2>8, <3>2
  <2> QED
    BY <2>11 DEF ListRight, t
<1> QED
  BY <1>1, <1>3, <1>4, <1>5

\* The memory and the statistics change nothing of the storage itself.
LEMMA MemoryStep ==
    ASSUME [MNext]_<<vars, statistics, memory>>
    PROVE  [Next]_vars
BY DEF MNext, Handle, StatStep, getMaxNumFile, CompareLen, setMaxNumFile,
   getMaxFileStorageSize, getStorageSize, setMaxFileStorageSize,
   deleteFileQueue

\* Every behaviour of the server with its memory is one of FileServer, so that
\* what is proved there holds here.
THEOREM MemoryIsServer == MSpec => Spec
<1>1. MInit => Init
  BY DEF MInit
<1>2. [MNext]_<<vars, statistics, memory>> => [Next]_vars
  BY MemoryStep
<1> QED
  BY <1>1, <1>2, PTL DEF MSpec, Spec

LEMMA ListInvStep ==
    ASSUME Safe, Safe', ListHoldsFiles, [MNext]_<<vars, statistics, memory>>
    PROVE  ListHoldsFiles'
<1>1. CASE Handle
  <2>1. ~exited /\ ~exited'
    BY <1>1 DEF Handle
  <2>2. ListRight
    BY <2>1 DEF ListHoldsFiles, ListRight
  <2>3. ListRight'
    BY <1>1, <2>2, ListStep
  <2> QED
    BY <2>3 DEF ListHoldsFiles, ListRight
<1>2. CASE UNCHANGED <<fileQueue, list, exited>>
  BY <1>2 DEF ListHoldsFiles
<1>3. CASE deleteFileQueue
  BY <1>3 DEF deleteFileQueue, ListHoldsFiles
<1>4. Handle \/ deleteFileQueue \/ UNCHANGED <<fileQueue, list, exited>>
  BY DEF MNext, StatStep, getMaxNumFile, CompareLen, setMaxNumFile, vars,
     memory, getMaxFileStorageSize, getStorageSize, setMaxFileStorageSize
<1> QED
  BY <1>1, <1>2, <1>3, <1>4

\* Calls of push and removeNode that are one step each keep the nodes one
\* chain that holds the files.
LEMMA ListAlways == MSpec => []ListHoldsFiles
<1>1. MInit => ListHoldsFiles
  <2> SUFFICES ASSUME MInit PROVE ListHoldsFiles
    OBVIOUS
  <2>1. Names(fileQueue) = << >>
    BY DEF MInit, Init, Names
  <2> QED
    BY <2>1, InitRepresents DEF MInit, ListHoldsFiles
<1>2. Safe /\ Safe' /\ ListHoldsFiles /\ [MNext]_<<vars, statistics, memory>>
      => ListHoldsFiles'
  BY ListInvStep
<1> QED
  BY <1>1, <1>2, MemoryIsServer, SafeAlways, PTL DEF MSpec

\* As long as no request waits for a file lock, the workers exclude each other
\* where they push and remove, and the chain of nodes is the list of files:
\* none is lost, none is linked after it was freed, and tail is the last.
THEOREM ListIsStorage ==
    NoLockWaits => (MSpec => [](QueueExclusion /\ ListHoldsFiles))
<1> SUFFICES ASSUME NoLockWaits
             PROVE  MSpec => [](QueueExclusion /\ ListHoldsFiles)
  OBVIOUS
<1>1. Spec => []QueueExclusion
  BY HandlersExclude
<1> QED
  BY <1>1, MemoryIsServer, ListAlways, PTL

-----------------------------------------------------------------------------
(* FileNodes and contents                                                  *)

\* Only a creation and a store put a file or a content into the
\* storage, and lead to the statistics.
LEMMA OnlyTwoEnter ==
    ASSUME TypeInv, Next, NEW w \in Workers
    PROVE  /\ pc[w] = "create" /\ pc'[w] = "unlockFile" => Create(w)
           /\ pc[w] = "receive" /\ pc'[w] = "reply" => Store(w)
<1> DEFINE Enters == \/ pc[w] = "create" /\ pc'[w] = "unlockFile"
                     \/ pc[w] = "receive" /\ pc'[w] = "reply"
<1> USE DEF TypeInv, TypeOK, Goto
<1>1. ASSUME NEW v \in Workers,
             \/ LockQueue(v) \/ Reply(v) \/ Reject(v) \/ Sigpipe(v)
             \/ Retire(v) \/ Hangup(v) \/ SpuriousWakeup(v)
             \/ ReceiveFails(v)
      PROVE  ~Enters
  BY <1>1 DEF LockQueue, Reply, Reject, Sigpipe, Retire, Hangup,
     SpuriousWakeup, ReceiveFails
<1>2. ASSUME NEW v \in Workers,
             \/ LockFileLock(v) \/ UnlockFileLock(v) \/ YieldQueue(v)
             \/ CondWait(v) \/ Reacquire(v) \/ Try(v)
      PROVE  ~Enters
  BY <1>2 DEF LockFileLock, UnlockFileLock, YieldQueue, CondWait, Reacquire,
     Try
<1>3. ASSUME NEW v \in Workers,
             \/ Unlock(v) \/ Broadcast(v) \/ Delete(v) \/ CloseFile(v)
             \/ Read(v) \/ ReadN(v)
      PROVE  ~Enters
  BY <1>3 DEF Unlock, Broadcast, Delete, CloseFile, Read, ReadN
<1>4. ASSUME NEW v \in Workers,
             \/ MakeRoom(v) \/ CheckLock(v) \/ Expel(v) \/ SendVictim(v)
             \/ RemoveVictim(v) \/ RemoveGarbage(v)
      PROVE  ~Enters
  BY <1>4 DEF MakeRoom, CheckLock, Expel, SendVictim, RemoveVictim,
     RemoveGarbage
<1>5. ASSUME NEW v \in Workers,
             \/ \E c \in Clients : Connect(v, c)
             \/ \E r \in Requests : Receive(v, r)
      PROVE  ~Enters
  BY <1>5 DEF Connect, Receive
<1>6. ASSUME \/ \E c \in Clients : ClientDies(c)
             \/ \E sig \in Signals : Signal(sig)
             \/ WakeFiles
             \/ UNCHANGED vars
      PROVE  ~Enters
  BY <1>6 DEF ClientDies, Signal, WakeFiles, vars
<1>7. ASSUME NEW v \in Workers, Create(v) \/ Store(v), Enters
      PROVE  v = w
  BY <1>7 DEF Create, Store
<1>8. ASSUME Create(w) PROVE pc[w] = "create"
  BY <1>8 DEF Create
<1>9. ASSUME Store(w) PROVE pc[w] = "receive"
  BY <1>9 DEF Store
<1>10. Enters => Create(w) \/ Store(w)
  <2> HIDE DEF Enters, TypeInv, TypeOK, Goto
  <2> QED
    BY NextCases, <1>1, <1>2, <1>3, <1>4, <1>5, <1>6, <1>7
<1> QED
  BY <1>8, <1>9, <1>10

\* A file has one FileNode, and one content once something was stored in it.
Allocated ==
    /\ fileNodes = [f \in Files |-> One(Found(fileQueue, f))]
    /\ contents = [f \in Files |-> One(HasContent(fileQueue, f))]

Freed ==
    /\ fileNodes = [f \in Files |-> 0]
    /\ contents = [f \in Files |-> 0]

HeapInv ==
    /\ ~exited => Allocated
    /\ exited => Freed /\ DOMAIN list.cells = {}

\* The files of r are files of q, each with as much in it as there.
Fewer(q, r) ==
    \A f : Found(r, f) => Found(q, f) /\ Node(r, f).size = Node(q, f).size

LEMMA OthersKeepContents ==
    ASSUME Safe, Next, ~ \E w \in Workers : Create(w) \/ Store(w)
    PROVE  Fewer(fileQueue, fileQueue')
<1>q. fileQueue \in Storage /\ Unique(fileQueue)
  BY DEF Safe, LockInv, TypeInv, TypeOK, Storage
<1>u. ASSUME UNCHANGED fileQueue PROVE Fewer(fileQueue, fileQueue')
  BY <1>u DEF Fewer
<1>d. ASSUME NEW f, Found(fileQueue, f), Discard(f)
      PROVE  Fewer(fileQueue, fileQueue')
  BY <1>q, <1>d, PositionOfName, RemoveUnique DEF Discard, Fewer
<1>o. ASSUME NEW f, Found(fileQueue, f), NEW c \in Clients \cup {NoClient},
             fileQueue' = SetOwner(fileQueue, f, c)
      PROVE  Fewer(fileQueue, fileQueue')
  BY <1>q, <1>o, SetOwnerEffect DEF Fewer
<1>1. ASSUME NEW w \in Workers, Try(w) PROVE Fewer(fileQueue, fileQueue')
  <2>1. client[w] \in Clients
    BY <1>1 DEF Safe, TypeInv, Sessions, Try, Busy, Critical
  <2>2. CASE fileQueue' = SetOwner(fileQueue, File(w), client[w]) /\ TryLocks(w)
    BY <1>o, <2>1, <2>2 DEF TryLocks
  <2> QED
    BY <1>1, <1>u, <2>2 DEF Try
<1>2. ASSUME NEW w \in Workers, Unlock(w) PROVE Fewer(fileQueue, fileQueue')
  <2>1. CASE UnlockStatus(fileQueue, File(w), client[w]) = 0
    BY <1>o, <1>2, <2>1 DEF Unlock, UnlockStatus, Usable
  <2> QED
    BY <1>2, <1>u, <2>1 DEF Unlock
<1>3. ASSUME NEW w \in Workers, Delete(w) PROVE Fewer(fileQueue, fileQueue')
  BY <1>3, <1>u, <1>d DEF Delete, DeleteSucceeds, Usable
<1>4. ASSUME NEW w \in Workers, CloseFile(w) PROVE Fewer(fileQueue, fileQueue')
  <2>1. CASE CloseSucceeds(fileQueue, File(w), client[w])
    <3>1. Found(fileQueue, File(w))
      BY <2>1 DEF CloseSucceeds, Usable
    <3>2. fileQueue' = Close(fileQueue, File(w))
      BY <1>4, <2>1 DEF CloseFile
    <3>3. Closes(fileQueue, fileQueue', File(w))
      BY <1>q, <3>1, <3>2, CloseEffect
    <3> QED
      BY <3>3 DEF Closes, Fewer
  <2> QED
    BY <1>4, <1>u, <2>1 DEF CloseFile
<1>5. ASSUME NEW w \in Workers, RemoveVictim(w) \/ RemoveGarbage(w)
      PROVE  Fewer(fileQueue, fileQueue')
  BY <1>5, <1>u, <1>d DEF RemoveVictim, RemoveGarbage
<1> QED
  BY <1>1, <1>2, <1>3, <1>4, <1>5, <1>u, StorageActions

\* What a store leaves has content: every write and append brings some bytes.
LEMMA StoreFills ==
    ASSUME Safe, NEW w \in Workers, Store(w), Usable(fileQueue, File(w)),
           NEW f
    PROVE  /\ Found(fileQueue', f) <=> Found(fileQueue, f)
           /\ f = File(w) => Node(fileQueue', f).size > 0
           /\ Found(fileQueue, f) /\ f # File(w) =>
                 Node(fileQueue', f).size = Node(fileQueue, f).size
<1>q. fileQueue \in Storage /\ Unique(fileQueue) /\ Found(fileQueue, File(w))
  BY DEF Safe, LockInv, TypeInv, TypeOK, Storage, Usable
<1>1. /\ request[w] \in Requests
      /\ Op(w) \in {"OP_WRITE_FILE", "OP_APPEND_FILE"}
  BY DEF Safe, TypeInv, Sessions, Store, Busy, Critical, Writing
<1>2. request[w].n \in Nat \ {0}
  BY <1>1, ServerAssumption DEF Op
<1>3. Node(fileQueue, File(w)).size \in Nat
  <2>1. Node(fileQueue, File(w)) \in FileNode
    BY <1>q, NodeType
  <2> QED
    BY <2>1 DEF FileNode
<1>4. PICK k \in Nat \ {0} : fileQueue' = SetSize(fileQueue, File(w), k)
  <2>1. CASE Op(w) = "OP_WRITE_FILE"
    BY <1>2, <2>1 DEF Store
  <2>2. CASE Op(w) # "OP_WRITE_FILE"
    <3>1. Node(fileQueue, File(w)).size + request[w].n \in Nat \ {0}
      BY <1>2, <1>3
    <3> QED
      BY <2>2, <3>1 DEF Store, Grow
  <2> QED
    BY <2>1, <2>2
<1>5. /\ \A g : Found(fileQueue', g) <=> Found(fileQueue, g)
      /\ \A g : Found(fileQueue, g) => Node(fileQueue', g).size =
                    IF g = File(w) THEN k ELSE Node(fileQueue, g).size
  BY <1>q, <1>4, SetSizeEffect
<1> QED
  BY <1>q, <1>4, <1>5

\* A file has content when something is stored in it, and as long as it stays.
LEMMA StepOfContents ==
    ASSUME Safe, Next, NEW f \in Files
    PROVE  HasContent(fileQueue', f)
           <=> (Stores(f) \/ (HasContent(fileQueue, f) /\ Found(fileQueue', f)))
<1> DEFINE q == fileQueue
           r == fileQueue'
<1>t. TypeInv /\ q \in Storage /\ Unique(q)
  BY DEF Safe, LockInv, TypeInv, TypeOK, Storage
<1>1. ASSUME NEW w \in Workers, Create(w)
      PROVE  /\ ~Stores(f)
             /\ HasContent(r, f) <=> (HasContent(q, f) /\ Found(r, f))
  <2> DEFINE n == NewNode(File(w), request[w].flags, client[w])
  <2>1. pc[w] = "create" /\ pc'[w] = "unlockFile"
        /\ \A v \in Workers : v # w => pc'[v] = pc[v]
    BY <1>t, <1>1 DEF Create, Goto, TypeInv, TypeOK
  <2>2. ~Stores(f)
    BY <2>1 DEF Stores
  <2>3. ~Found(q, File(w))
    BY <2>1 DEF Safe, LockInv, CreateReady
  <2>4. /\ n \in FileNode /\ n.pathname = File(w) /\ n.size = 0
        /\ Pushed(q, r, n)
    <3>1. request[w] \in Requests /\ client[w] \in Clients
      BY <1>t, <2>1 DEF TypeInv, Sessions, Busy, Critical
    <3> QED
      BY <1>1, <3>1, RequestFields DEF Create, NewNode, FileNode, File, Pushed
  <2> HIDE DEF n
  <2>5. /\ \A g : Found(r, g) <=> (Found(q, g) \/ g = File(w))
        /\ Node(r, File(w)) = n
        /\ \A g : Found(q, g) => Node(r, g) = Node(q, g)
    BY <1>t, <2>3, <2>4, PushNode
  <2> QED
    BY <2>2, <2>3, <2>4, <2>5 DEF HasContent
<1>2. ASSUME NEW w \in Workers, Store(w)
      PROVE  HasContent(r, f)
             <=> (Stores(f) \/ (HasContent(q, f) /\ Found(r, f)))
  <2>1. pc[w] = "receive" /\ pc'[w] = "reply"
        /\ \A v \in Workers : v # w => pc'[v] = pc[v]
    BY <1>t, <1>2 DEF Store, Goto, TypeInv, TypeOK
  <2>2. Stores(f) <=> (File(w) = f /\ Usable(q, f))
    BY <2>1 DEF Stores
  <2>3. CASE Usable(q, File(w))
    <3>1. /\ Found(r, f) <=> Found(q, f)
          /\ f = File(w) => Node(r, f).size > 0
          /\ Found(q, f) /\ f # File(w) => Node(r, f).size = Node(q, f).size
      BY <1>2, <2>3, StoreFills
    <3>2. f = File(w) => Found(q, f)
      BY <2>3 DEF Usable
    <3> QED
      BY <2>2, <2>3, <3>1, <3>2 DEF HasContent
  <2>4. CASE ~Usable(q, File(w))
    <3>1. r = q
      BY <1>2, <2>4 DEF Store
    <3> QED
      BY <2>2, <2>4, <3>1 DEF HasContent
  <2> QED
    BY <2>3, <2>4
<1>3. ASSUME ~ \E w \in Workers : Create(w) \/ Store(w)
      PROVE  /\ ~Stores(f)
             /\ HasContent(r, f) <=> (HasContent(q, f) /\ Found(r, f))
  <2>1. ~Stores(f)
    BY <1>t, <1>3, OnlyTwoEnter DEF Stores
  <2>2. Fewer(q, r)
    BY <1>3, OthersKeepContents
  <2> QED
    BY <2>1, <2>2 DEF Fewer, HasContent
<1> QED
  BY <1>1, <1>2, <1>3

LEMMA HeapHandle ==
    ASSUME Safe, Allocated, Handle
    PROVE  Allocated'
<1> DEFINE q == fileQueue
           r == fileQueue'
<1>1. Next /\ FileNodesFollow /\ ContentsFollow
  BY DEF Handle
<1>2. ASSUME NEW f \in Files
      PROVE  fileNodes'[f] = One(Found(r, f))
  <2>1. fileNodes[f] = One(Found(q, f))
    BY DEF Allocated
  <2>2. fileNodes'[f] = fileNodes[f] + One(Found(r, f) /\ ~Found(q, f))
                                     - One(Found(q, f) /\ ~Found(r, f))
    BY <1>1 DEF FileNodesFollow
  <2> QED
    BY <2>1, <2>2 DEF One
<1>3. ASSUME NEW f \in Files
      PROVE  contents'[f] = One(HasContent(r, f))
  <2>1. contents[f] = One(HasContent(q, f))
    BY DEF Allocated
  <2>2. contents'[f] =
            contents[f] + One(Stores(f))
                - One(HasContent(q, f) /\ (Stores(f) \/ ~Found(r, f)))
    BY <1>1 DEF ContentsFollow
  <2>3. HasContent(r, f)
        <=> (Stores(f) \/ (HasContent(q, f) /\ Found(r, f)))
    BY <1>1, StepOfContents
  <2> HIDE DEF q, r
  <2> QED
    BY <2>1, <2>2, <2>3 DEF One
<1>4. /\ fileNodes' = [f \in Files |-> fileNodes'[f]]
      /\ contents' = [f \in Files |-> contents'[f]]
  BY <1>1 DEF FileNodesFollow, ContentsFollow
<1> QED
  BY <1>2, <1>3, <1>4 DEF Allocated

\* The walk of deleteFileQueue meets every file of the storage, once.
LEMMA HeapDelete ==
    ASSUME Safe, ListHoldsFiles, HeapInv, deleteFileQueue
    PROVE  HeapInv'
<1> DEFINE s == Names(fileQueue)
<1>1. /\ ~exited /\ exited' = TRUE /\ UNCHANGED fileQueue
      /\ fileNodes' = [f \in Files |-> fileNodes[f] - One(f \in Held(list))]
      /\ contents' = [f \in Files |->
             contents[f] - One(f \in Held(list) /\ HasContent(fileQueue, f))]
      /\ list' = [list EXCEPT
               !.cells = [a \in deleteQueue(list) |-> list.cells[a]]]
  BY DEF deleteFileQueue, vars
<1>2. Allocated
  BY <1>1 DEF HeapInv
<1>3. fileQueue \in Storage
  BY DEF Safe, TypeInv, TypeOK, Storage
<1>4. /\ Len(s) \in Nat /\ Len(s) = Len(fileQueue) /\ Represents(list, s)
      /\ DOMAIN fileQueue = 1..Len(s)
      /\ \A i \in 1..Len(s) : s[i] = fileQueue[i].pathname
  BY <1>1, <1>3, NamesType DEF ListHoldsFiles, Storage
<1>5. \A f \in Files : f \in Held(list) <=> Found(fileQueue, f)
  <2>1. Held(list) = {s[i] : i \in 1..Len(s)}
    BY <1>4, WalkMeetsData
  <2> QED
    BY <1>4, <2>1 DEF Found
<1>6. DOMAIN list'.cells = {}
  <2>1. deleteQueue(list) = {}
    BY <1>4, DeleteFreesAll
  <2> QED
    BY <1>1, <2>1
<1>7. ASSUME NEW f \in Files PROVE fileNodes'[f] = 0 /\ contents'[f] = 0
  <2>1. /\ fileNodes[f] = One(Found(fileQueue, f))
        /\ contents[f] = One(HasContent(fileQueue, f))
    BY <1>2 DEF Allocated
  <2>2. HasContent(fileQueue, f) => Found(fileQueue, f)
    BY DEF HasContent
  <2> QED
    BY <1>1, <1>5, <2>1, <2>2 DEF One
<1>8. Freed'
  BY <1>1, <1>7 DEF Freed
<1> QED
  BY <1>1, <1>6, <1>8 DEF HeapInv

LEMMA HeapStep ==
    ASSUME Safe, ListHoldsFiles, HeapInv, [MNext]_<<vars, statistics, memory>>
    PROVE  HeapInv'
<1>1. CASE Handle
  <2>1. ~exited /\ exited' = exited
    BY <1>1 DEF Handle
  <2>2. Allocated'
    BY <1>1, <2>1, HeapHandle DEF HeapInv
  <2> QED
    BY <2>1, <2>2 DEF HeapInv
<1>2. CASE UNCHANGED <<fileQueue, list, fileNodes, contents, exited>>
  BY <1>2 DEF HeapInv, Allocated, Freed
<1>3. CASE deleteFileQueue
  BY <1>3, HeapDelete
<1>4. \/ Handle \/ deleteFileQueue
      \/ UNCHANGED <<fileQueue, list, fileNodes, contents, exited>>
  BY DEF MNext, StatStep, getMaxNumFile, CompareLen, setMaxNumFile, vars,
     memory, getMaxFileStorageSize, getStorageSize, setMaxFileStorageSize
<1> QED
  BY <1>1, <1>2, <1>3, <1>4

LEMMA HeapAlways == MSpec => []HeapInv
<1>1. MInit => HeapInv
  <2> SUFFICES ASSUME MInit PROVE HeapInv
    OBVIOUS
  <2>1. \A f : ~Found(fileQueue, f) /\ ~HasContent(fileQueue, f)
    BY DEF MInit, Init, Found, HasContent
  <2>2. ~exited
    BY DEF MInit
  <2> QED
    BY <2>1, <2>2 DEF MInit, HeapInv, Allocated, One
<1>2. /\ Safe /\ ListHoldsFiles /\ HeapInv
      /\ [MNext]_<<vars, statistics, memory>>
      => HeapInv'
  BY HeapStep
<1> QED
  BY <1>1, <1>2, MemoryIsServer, SafeAlways, ListAlways, PTL DEF MSpec

LEMMA HeapTypes ==
    ASSUME HeapInv, exited \in BOOLEAN
    PROVE  fileNodes \in [Files -> Nat] /\ contents \in [Files -> Nat]
<1>1. Allocated \/ Freed
  BY DEF HeapInv
<1> QED
  BY <1>1 DEF Allocated, Freed, One

\* As long as no request waits for a file lock, the workers exclude each other
\* where they allocate and free, and when main returns no node, FileNode or
\* content is left and none was freed twice: each content that was replaced,
\* or removed with its file, was freed then, and the walk of deleteFileQueue
\* meets the others.
THEOREM ServerFreesAll ==
    NoLockWaits => (MSpec => [](QueueExclusion /\ NothingLeaks))
<1> SUFFICES ASSUME NoLockWaits
             PROVE  MSpec => [](QueueExclusion /\ NothingLeaks)
  OBVIOUS
<1>1. Spec => []QueueExclusion
  BY HandlersExclude
<1>2. HeapInv => NothingLeaks
  BY DEF HeapInv, Freed, NothingLeaks
<1> QED
  BY <1>1, <1>2, MemoryIsServer, HeapAlways, PTL

-----------------------------------------------------------------------------
(* The types                                                               *)

MemoryTypes ==
    /\ list.len \in Nat
    /\ max_num_file \in Nat /\ max_file_storage_size \in Nat
    /\ stat \in [Workers -> {"none", "getMaxNumFile", "compareLen",
                             "setMaxNumFile", "getMaxSize", "getStorageSize",
                             "setMaxSize"}]
    /\ seen \in [Workers -> Nat] /\ actual \in [Workers -> Nat]
    /\ exited \in BOOLEAN

LEMMA MemoryTypesHandle ==
    ASSUME Safe', ListHoldsFiles', MemoryTypes, Handle
    PROVE  MemoryTypes'
<1>1. /\ ~exited'
      /\ UNCHANGED <<max_num_file, max_file_storage_size, seen, actual, exited>>
      /\ stat' = [w \in Workers |-> EntersStat(w)]
  BY DEF Handle
<1>2. list'.len \in Nat
  <2>1. list'.len = Len(Names(fileQueue'))
    BY <1>1 DEF ListHoldsFiles, Represents
  <2>2. fileQueue' \in Storage
    BY DEF Safe, TypeInv, TypeOK, Storage
  <2> QED
    BY <2>1, <2>2, NamesType DEF Storage
<1>3. \A w \in Workers :
         EntersStat(w) \in {"getMaxNumFile", "getMaxSize", stat[w]}
  BY DEF EntersStat
<1> QED
  BY <1>1, <1>2, <1>3 DEF MemoryTypes

LEMMA MemoryTypesStat ==
    ASSUME Safe, MemoryTypes, NEW w \in Workers, StatStep(w)
    PROVE  MemoryTypes'
<1>1. StorageSize(fileQueue) \in Nat
  BY SizeIsSum DEF Safe, TypeInv, TypeOK, Storage
<1>2. UNCHANGED <<list, exited>>
  BY DEF StatStep, getMaxNumFile, CompareLen, setMaxNumFile, memory,
     getMaxFileStorageSize, getStorageSize, setMaxFileStorageSize
<1> USE DEF MemoryTypes, StatGoto, StatReturn
<1>3. CASE getMaxNumFile(w)
  BY <1>2, <1>3 DEF getMaxNumFile
<1>4. CASE CompareLen(w)
  BY <1>2, <1>4 DEF CompareLen
<1>5. CASE setMaxNumFile(w)
  BY <1>2, <1>5 DEF setMaxNumFile
<1>6. CASE getMaxFileStorageSize(w)
  BY <1>2, <1>6 DEF getMaxFileStorageSize
<1>7. CASE getStorageSize(w)
  BY <1>1, <1>2, <1>7 DEF getStorageSize
<1>8. CASE setMaxFileStorageSize(w)
  BY <1>2, <1>8 DEF setMaxFileStorageSize
<1> QED
  BY <1>3, <1>4, <1>5, <1>6, <1>7, <1>8 DEF StatStep

LEMMA MemoryTypesStep ==
    ASSUME Safe, Safe', ListHoldsFiles', MemoryTypes,
           [MNext]_<<vars, statistics, memory>>
    PROVE  MemoryTypes'
<1>1. CASE deleteFileQueue
  <2>1. list'.len = list.len /\ exited' = TRUE
    BY <1>1 DEF deleteFileQueue
  <2>2. UNCHANGED statistics
    BY <1>1 DEF deleteFileQueue
  <2> QED
    BY <2>1, <2>2 DEF MemoryTypes, statistics
<1>2. CASE UNCHANGED <<vars, statistics, memory>>
  BY <1>2 DEF MemoryTypes, statistics, memory
<1> QED
  BY <1>1, <1>2, MemoryTypesHandle, MemoryTypesStat DEF MNext

\* A chain has a head and a tail among its nodes.
LEMMA EndsAreNodes ==
    ASSUME Safe, ListHoldsFiles, ~exited
    PROVE  {list.head, list.tail} \subseteq DOMAIN list.cells
<1>1. Len(Names(fileQueue)) \in Nat
  BY NamesType DEF Safe, TypeInv, TypeOK, Storage
<1>2. PICK at \in [0..Len(Names(fileQueue)) -> DOMAIN list.cells] :
         Chain(list, Names(fileQueue), at)
  BY DEF ListHoldsFiles, Represents
<1>3. list.head = at[0] /\ list.tail = at[Len(Names(fileQueue))]
  BY <1>2 DEF Chain
<1> QED
  BY <1>1, <1>2, <1>3

\* As long as no request waits for a file lock, the workers exclude each other
\* and every variable keeps its type: while main has not freed the list its
\* head and its tail are allocated nodes, nothing is freed more often than it
\* was allocated, and no maximum the statistics print is negative.
THEOREM MemoryTypeCorrect ==
    NoLockWaits => (MSpec => [](QueueExclusion /\ MTypeOK))
<1> SUFFICES ASSUME NoLockWaits
             PROVE  MSpec => [](QueueExclusion /\ MTypeOK)
  OBVIOUS
<1>1. MInit => MemoryTypes
  <2> SUFFICES ASSUME MInit PROVE MemoryTypes
    OBVIOUS
  <2>1. list.len = 0
    BY DEF MInit, initQueue
  <2>2. exited \in BOOLEAN
    BY DEF MInit
  <2>3. max_num_file = 0 /\ max_file_storage_size = 0
    BY DEF MInit
  <2>4. /\ stat = [w \in Workers |-> "none"]
        /\ seen = [w \in Workers |-> 0] /\ actual = [w \in Workers |-> 0]
    BY DEF MInit
  <2> QED
    BY <2>1, <2>2, <2>3, <2>4 DEF MemoryTypes
<1>2. /\ Safe /\ Safe' /\ ListHoldsFiles' /\ MemoryTypes
      /\ [MNext]_<<vars, statistics, memory>>
      => MemoryTypes'
  BY MemoryTypesStep
<1>3. Safe /\ ListHoldsFiles /\ HeapInv /\ MemoryTypes => MTypeOK
  BY EndsAreNodes, HeapTypes DEF Safe, TypeInv, MemoryTypes, MTypeOK
<1>4. Spec => []QueueExclusion
  BY HandlersExclude
<1> QED
  BY <1>1, <1>2, <1>3, <1>4, MemoryIsServer, SafeAlways, ListAlways,
     HeapAlways, PTL DEF MSpec

-----------------------------------------------------------------------------
(* The statistics, when nobody waits for a file lock                       *)

CountsFiles == {"getMaxNumFile", "compareLen", "setMaxNumFile"}

CountsSpace == {"getMaxSize", "getStorageSize", "setMaxSize"}

StatTypes ==
    /\ stat \in [Workers -> {"none"} \cup CountsFiles \cup CountsSpace]
    /\ seen \in [Workers -> Nat] /\ actual \in [Workers -> Nat]
    /\ max_num_file \in Nat /\ max_file_storage_size \in Nat
    /\ mostFiles \in Nat /\ mostSpace \in Nat

\* A worker in the statistics is still in the critical section of its handler,
\* and what it has read is still so.
StatOf(w) ==
    /\ stat[w] # "none" => pc[w] \in {"unlockFile", "reply"}
    /\ stat[w] \in CountsFiles =>
          mostFiles = Larger(max_num_file, Len(fileQueue))
    /\ stat[w] = "compareLen" => seen[w] = max_num_file
    /\ stat[w] = "setMaxNumFile" => Len(fileQueue) > max_num_file
    /\ stat[w] \in CountsSpace =>
          mostSpace = Larger(max_file_storage_size, StorageSize(fileQueue))
    /\ stat[w] = "getStorageSize" => seen[w] = max_file_storage_size
    /\ stat[w] = "setMaxSize" =>
          /\ actual[w] = StorageSize(fileQueue)
          /\ StorageSize(fileQueue) > max_file_storage_size

StatInv ==
    /\ StatTypes
    /\ list.len = Len(fileQueue)
    /\ Len(fileQueue) <= mostFiles
    /\ StorageSize(fileQueue) <= mostSpace
    /\ (\A w \in Workers : stat[w] \notin CountsFiles)
       => max_num_file = mostFiles
    /\ (\A w \in Workers : stat[w] \notin CountsSpace)
       => max_file_storage_size = mostSpace
    /\ \A w \in Workers : StatOf(w)

\* Nobody else is in a critical section then.
LEMMA AloneInStat ==
    ASSUME QueueHeld, StatInv, NEW v \in Workers, stat[v] # "none",
           NEW w \in Workers, stat[w] # "none" \/ pc[w] \in Critical
    PROVE  v = w
BY DEF QueueHeld, StatInv, StatOf, Critical

\* The files are changed by a worker in its critical section, which moves on.
LEMMA QueueChangedInside ==
    ASSUME TypeInv, Next
    PROVE  \/ UNCHANGED fileQueue
           \/ \E w \in Workers : pc[w] \in Critical /\ pc'[w] # pc[w]
<1> USE DEF TypeInv, TypeOK, Goto, Critical
<1>1. ASSUME NEW w \in Workers, Try(w) \/ Create(w)
      PROVE  pc[w] \in Critical /\ pc'[w] # pc[w]
  BY <1>1 DEF Try, Create
<1>2. ASSUME NEW w \in Workers, Unlock(w) \/ Delete(w) \/ CloseFile(w)
      PROVE  pc[w] \in Critical /\ pc'[w] # pc[w]
  BY <1>2 DEF Unlock, Delete, CloseFile
<1>3. ASSUME NEW w \in Workers,
             Store(w) \/ RemoveVictim(w) \/ RemoveGarbage(w)
      PROVE  \/ UNCHANGED fileQueue
             \/ pc[w] \in Critical /\ pc'[w] # pc[w]
  BY <1>3 DEF Store, RemoveVictim, RemoveGarbage
<1> QED
  BY <1>1, <1>2, <1>3, StorageActions

\* A step of a handler while a worker is in the statistics, or nobody is.
LEMMA StatHandle ==
    ASSUME Safe, Safe', QueueHeld, ListHoldsFiles, ListHoldsFiles', StatInv,
           Handle
    PROVE  StatInv'
<1> DEFINE q == fileQueue
           r == fileQueue'
<1>t. /\ TypeInv /\ q \in Storage /\ r \in Storage
      /\ Len(q) \in Nat /\ Len(r) \in Nat
      /\ StorageSize(q) \in Nat /\ StorageSize(r) \in Nat
  BY SizeIsSum DEF Safe, TypeInv, TypeOK, Storage
<1>h. /\ Next /\ ~exited /\ ~exited'
      /\ \A w \in Workers : stat[w] # "none" => pc'[w] = pc[w]
      /\ stat' = [w \in Workers |-> EntersStat(w)]
      /\ mostFiles' = Larger(mostFiles, Len(r))
      /\ mostSpace' = Larger(mostSpace, StorageSize(r))
      /\ UNCHANGED <<max_num_file, max_file_storage_size, seen, actual>>
  BY DEF Handle
<1>l. list'.len = Len(r)
  <2>1. Represents(list', Names(r))
    BY <1>h DEF ListHoldsFiles
  <2>2. Len(Names(r)) = Len(r)
    BY <1>t, NamesType
  <2> QED
    BY <2>1, <2>2 DEF Represents
<1>m. /\ Len(r) <= Len(q) => mostFiles' = mostFiles
      /\ StorageSize(r) <= StorageSize(q) => mostSpace' = mostSpace
      /\ mostFiles' \in Nat /\ mostSpace' \in Nat
      /\ Len(r) <= mostFiles' /\ StorageSize(r) <= mostSpace'
  BY <1>t, <1>h DEF StatInv, StatOf, StatTypes, Larger
<1>e. ASSUME NEW w \in Workers, stat'[w] # stat[w]
      PROVE  \/ Create(w) /\ stat'[w] = "getMaxNumFile" /\ pc'[w] = "unlockFile"
             \/ Store(w) /\ stat'[w] = "getMaxSize" /\ pc'[w] = "reply"
  BY <1>h, <1>t, <1>e, OnlyTwoEnter DEF EntersStat
<1>y. StatTypes'
  <2>1. \A w \in Workers :
           stat'[w] \in {"none"} \cup CountsFiles \cup CountsSpace
    BY <1>e DEF StatInv, StatOf, StatTypes, CountsFiles, CountsSpace
  <2>2. stat' = [w \in Workers |-> stat'[w]]
    BY <1>h
  <2>3. stat' \in [Workers -> {"none"} \cup CountsFiles \cup CountsSpace]
    BY <2>1, <2>2
  <2> QED
    BY <1>h, <1>m, <2>3 DEF StatInv, StatOf, StatTypes
<1>1. ASSUME NEW v \in Workers, stat[v] # "none"
      PROVE  StatInv'
  <2>1. \A w \in Workers : pc[w] \in Critical => pc'[w] = pc[w]
    BY <1>h, <1>1, AloneInStat
  <2>2. UNCHANGED fileQueue
    BY <1>t, <1>h, <2>1, QueueChangedInside
  <2>3. \A w \in Workers : stat'[w] = stat[w]
    <3> TAKE w \in Workers
    <3>1. Create(w) \/ Store(w) => pc[w] \in Critical
      BY DEF Create, Store, Critical
    <3>2. Create(w) \/ Store(w) => pc'[w] # pc[w]
      BY <1>t DEF Create, Store, Goto, TypeInv, TypeOK
    <3> QED
      BY <1>e, <2>1, <3>1, <3>2
  <2>4. mostFiles' = mostFiles /\ mostSpace' = mostSpace
    BY <1>t, <1>m, <2>2
  <2>5. \A w \in Workers : stat[w] # "none" => pc'[w] = pc[w]
    BY <1>h
  <2> QED
    BY <1>h, <1>l, <1>y, <2>2, <2>3, <2>4, <2>5 DEF StatInv, StatOf
<1>2. ASSUME \A w \in Workers : stat[w] = "none"
      PROVE  StatInv'
  <2>1. max_num_file = mostFiles /\ max_file_storage_size = mostSpace
    BY <1>2 DEF StatInv, StatOf, CountsFiles, CountsSpace
  <2>2. ASSUME NEW v \in Workers, Create(v)
        PROVE  StatInv'
    <3>1. pc[v] = "create" /\ pc'[v] = "unlockFile"
      BY <1>t, <2>2 DEF Create, Goto, TypeInv, TypeOK
    <3>2. stat'[v] = "getMaxNumFile"
      BY <1>h, <3>1 DEF EntersStat
    <3>3. \A w \in Workers : w # v => stat'[w] = "none"
      <4> TAKE w \in Workers
      <4>1. ASSUME w # v PROVE pc'[w] = pc[w]
        BY <1>t, <2>2, <4>1 DEF Create, Goto, TypeInv, TypeOK
      <4>2. Create(w) \/ Store(w) => pc'[w] # pc[w]
        BY <1>t DEF Create, Store, Goto, TypeInv, TypeOK
      <4> QED
        BY <1>2, <1>e, <4>1, <4>2
    <3>4. mostSpace' = mostSpace
      <4>1. ~ \E w \in Workers : Store(w)
        BY <1>t, <2>2, <3>1 DEF Create, Store, Goto, TypeInv, TypeOK
      <4> QED
        BY <1>h, <1>m, <1>t, <4>1, OnlyStoreGrows DEF Lighter
    <3>5. mostFiles' = Larger(max_num_file', Len(r))
      BY <1>h, <2>1
    <3> QED
      BY <1>h, <1>l, <1>m, <1>y, <2>1, <3>1, <3>2, <3>3, <3>4, <3>5
         DEF StatInv, StatOf, CountsFiles, CountsSpace
  <2>3. ASSUME NEW v \in Workers, Store(v)
        PROVE  StatInv'
    <3>1. pc[v] = "receive" /\ pc'[v] = "reply"
      BY <1>t, <2>3 DEF Store, Goto, TypeInv, TypeOK
    <3>2. \/ stat'[v] = "getMaxSize"
          \/ stat'[v] = "none" /\ UNCHANGED fileQueue
      BY <1>h, <1>2, <2>3, <3>1 DEF EntersStat, Store, Usable
    <3>3. \A w \in Workers : w # v => stat'[w] = "none"
      <4> TAKE w \in Workers
      <4>1. ASSUME w # v PROVE pc'[w] = pc[w]
        BY <1>t, <2>3, <4>1 DEF Store, Goto, TypeInv, TypeOK
      <4>2. Create(w) \/ Store(w) => pc'[w] # pc[w]
        BY <1>t DEF Create, Store, Goto, TypeInv, TypeOK
      <4> QED
        BY <1>2, <1>e, <4>1, <4>2
    <3>4. mostFiles' = mostFiles
      <4>1. ~ \E w \in Workers : Create(w)
        BY <1>t, <2>3, <3>1 DEF Create, Store, Goto, TypeInv, TypeOK
      <4>2. KeepsNames \/ RemovesFile
        BY <1>h, <4>1, StepOfNames
      <4>3. Len(r) <= Len(q)
        BY <1>t, <4>2, RemoveOne DEF KeepsNames, RemovesFile
      <4> QED
        BY <1>m, <4>3
    <3>5. mostSpace' = Larger(max_file_storage_size', StorageSize(r))
      BY <1>h, <2>1
    <3>6. UNCHANGED fileQueue => mostSpace' = mostSpace
      BY <1>m, <1>t
    <3> QED
      BY <1>h, <1>l, <1>m, <1>y, <2>1, <3>1, <3>2, <3>3, <3>4, <3>5, <3>6
         DEF StatInv, StatOf, CountsFiles, CountsSpace
  <2>4. ASSUME ~ \E w \in Workers : Create(w) \/ Store(w)
        PROVE  StatInv'
    <3>1. \A w \in Workers : stat'[w] = "none"
      BY <1>2, <1>e, <2>4
    <3>2. mostSpace' = mostSpace
      BY <1>h, <1>m, <1>t, <2>4, OnlyStoreGrows DEF Lighter
    <3>3. mostFiles' = mostFiles
      <4>1. KeepsNames \/ RemovesFile
        BY <1>h, <2>4, StepOfNames
      <4>2. Len(r) <= Len(q)
        BY <1>t, <4>1, RemoveOne DEF KeepsNames, RemovesFile
      <4> QED
        BY <1>m, <4>2
    <3> QED
      BY <1>h, <1>l, <1>m, <1>y, <2>1, <3>1, <3>2, <3>3
         DEF StatInv, StatOf, CountsFiles, CountsSpace
  <2> QED
    BY <2>2, <2>3, <2>4
<1> QED
  BY <1>1, <1>2

LEMMA StatSteps ==
    ASSUME Safe, QueueHeld, StatInv, NEW w \in Workers, StatStep(w)
    PROVE  StatInv'
<1>t. Len(fileQueue) \in Nat /\ StorageSize(fileQueue) \in Nat
  BY SizeIsSum DEF Safe, TypeInv, TypeOK, Storage
<1>1. \A v \in Workers : stat[w] # "none" /\ v # w => stat[v] = "none"
  BY AloneInStat
<1>2. UNCHANGED <<pc, fileQueue, list, mostFiles, mostSpace>>
  BY DEF StatStep, getMaxNumFile, CompareLen, setMaxNumFile, memory, vars,
     getMaxFileStorageSize, getStorageSize, setMaxFileStorageSize
<1> USE DEF StatInv, StatOf, StatTypes, CountsFiles, CountsSpace, StatGoto,
            StatReturn, Larger, memory
<1>3. CASE getMaxNumFile(w)
  BY <1>1, <1>2, <1>3, <1>t DEF getMaxNumFile
<1>4. CASE CompareLen(w)
  <2>1. /\ stat[w] = "compareLen"
        /\ \A v \in Workers : v # w => stat[v] = "none"
    BY <1>1, <1>4 DEF CompareLen
  <2>2. UNCHANGED <<max_num_file, max_file_storage_size>>
    BY <1>4 DEF CompareLen
  <2>3. CASE list.len > seen[w]
    <3>1. /\ stat' = [stat EXCEPT ![w] = "setMaxNumFile"]
          /\ UNCHANGED actual
          /\ UNCHANGED seen
      BY <1>4, <2>3 DEF CompareLen
    <3>2. StatTypes'
      BY <1>t, <1>2, <2>2, <3>1
    <3>3. /\ stat'[w] = "setMaxNumFile"
          /\ \A v \in Workers : v # w => stat'[v] = "none"
      BY <2>1, <3>1
    <3>4. Len(fileQueue) > max_num_file
      BY <1>t, <2>1, <2>3
    <3>5. /\ mostFiles = Larger(max_num_file, Len(fileQueue))
          /\ max_file_storage_size = mostSpace
      BY <2>1
    <3>6. \A v \in Workers : actual'[v] = actual[v]
      BY <1>t, <3>1
    <3>7. StatOf(w)'
      BY <1>2, <2>1, <2>2, <3>3, <3>4, <3>5, <3>6
    <3>8. \A v \in Workers : v # w => StatOf(v)'
      BY <3>3
    <3> HIDE DEF StatOf
    <3> QED
      BY <1>2, <2>2, <3>2, <3>3, <3>5, <3>7, <3>8
  <2>4. CASE ~(list.len > seen[w])
    <3>1. /\ stat' = [stat EXCEPT ![w] = "none"]
          /\ seen' = [seen EXCEPT ![w] = 0]
          /\ actual' = [actual EXCEPT ![w] = 0]
      BY <1>4, <2>4 DEF CompareLen
    <3>2. StatTypes'
      BY <1>2, <2>2, <3>1
    <3>3. \A v \in Workers : stat'[v] = "none"
      BY <2>1, <3>1
    <3>4. max_num_file = mostFiles
      <4>1. Len(fileQueue) <= max_num_file
        BY <1>t, <2>1, <2>4
      <4>2. mostFiles = Larger(max_num_file, Len(fileQueue))
        BY <2>1
      <4> QED
        BY <1>t, <4>1, <4>2
    <3>5. max_file_storage_size = mostSpace
      BY <2>1
    <3> QED
      BY <1>2, <2>2, <3>2, <3>3, <3>4, <3>5
  <2> QED
    BY <2>3, <2>4
<1>5. CASE setMaxNumFile(w)
  BY <1>1, <1>2, <1>5, <1>t DEF setMaxNumFile
<1>6. CASE getMaxFileStorageSize(w)
  BY <1>1, <1>2, <1>6, <1>t DEF getMaxFileStorageSize
<1>7. CASE getStorageSize(w)
  <2>1. /\ stat[w] = "getStorageSize"
        /\ \A v \in Workers : v # w => stat[v] = "none"
    BY <1>1, <1>7 DEF getStorageSize
  <2>2. UNCHANGED <<max_num_file, max_file_storage_size>>
    BY <1>7 DEF getStorageSize
  <2>3. CASE StorageSize(fileQueue) > seen[w]
    <3>1. /\ stat' = [stat EXCEPT ![w] = "setMaxSize"]
          /\ actual' = [actual EXCEPT ![w] = StorageSize(fileQueue)]
          /\ UNCHANGED seen
      BY <1>7, <2>3 DEF getStorageSize
    <3>2. StatTypes'
      BY <1>t, <1>2, <2>2, <3>1
    <3>3. /\ stat'[w] = "setMaxSize"
          /\ \A v \in Workers : v # w => stat'[v] = "none"
      BY <2>1, <3>1
    <3>4. StorageSize(fileQueue) > max_file_storage_size
      BY <1>t, <2>1, <2>3
    <3>5. /\ mostSpace = Larger(max_file_storage_size, StorageSize(fileQueue))
          /\ max_num_file = mostFiles
      BY <2>1
    <3>6. actual'[w] = StorageSize(fileQueue)
      BY <1>t, <3>1
    <3>7. StatOf(w)'
      BY <1>2, <2>1, <2>2, <3>3, <3>4, <3>5, <3>6
    <3>8. \A v \in Workers : v # w => StatOf(v)'
      BY <3>3
    <3> HIDE DEF StatOf
    <3> QED
      BY <1>2, <2>2, <3>2, <3>3, <3>5, <3>7, <3>8
  <2>4. CASE ~(StorageSize(fileQueue) > seen[w])
    <3>1. /\ stat' = [stat EXCEPT ![w] = "none"]
          /\ seen' = [seen EXCEPT ![w] = 0]
          /\ actual' = [actual EXCEPT ![w] = 0]
      BY <1>7, <2>4 DEF getStorageSize
    <3>2. StatTypes'
      BY <1>2, <2>2, <3>1
    <3>3. \A v \in Workers : stat'[v] = "none"
      BY <2>1, <3>1
    <3>4. max_file_storage_size = mostSpace
      <4>1. StorageSize(fileQueue) <= max_file_storage_size
        BY <1>t, <2>1, <2>4
      <4>2. mostSpace = Larger(max_file_storage_size, StorageSize(fileQueue))
        BY <2>1
      <4> QED
        BY <1>t, <4>1, <4>2
    <3>5. max_num_file = mostFiles
      BY <2>1
    <3> QED
      BY <1>2, <2>2, <3>2, <3>3, <3>4, <3>5
  <2> QED
    BY <2>3, <2>4
<1>8. CASE setMaxFileStorageSize(w)
  BY <1>1, <1>2, <1>8, <1>t DEF setMaxFileStorageSize
<1> QED
  BY <1>3, <1>4, <1>5, <1>6, <1>7, <1>8 DEF StatStep

LEMMA StatInvStep ==
    ASSUME Safe, Safe', QueueHeld, ListHoldsFiles, ListHoldsFiles', StatInv,
           [MNext]_<<vars, statistics, memory>>
    PROVE  StatInv'
<1>1. CASE deleteFileQueue
  BY <1>1 DEF deleteFileQueue, StatInv, StatOf, StatTypes, statistics, vars
<1>2. CASE UNCHANGED <<vars, statistics, memory>>
  BY <1>2 DEF StatInv, StatOf, StatTypes, statistics, vars, memory
<1> QED
  BY <1>1, <1>2, StatHandle, StatSteps DEF MNext

\* As long as no request waits for a file lock, what printStat prints is the
\* most files and the most room there have been: the critical section of
\* file_queue_mutex lasts until the maximum is written.
THEOREM MaximaAreTrue == NoLockWaits => (MSpec => []StatisticsTrue)
<1> SUFFICES ASSUME NoLockWaits PROVE MSpec => []StatisticsTrue
  OBVIOUS
<1>1. MInit => StatInv
  <2> SUFFICES ASSUME MInit PROVE StatInv
    OBVIOUS
  <2>1. fileQueue = << >> /\ fileQueue \in Storage /\ Len(fileQueue) = 0
    BY DEF MInit, Init, Storage
  <2>2. StorageSize(fileQueue) = 0
    BY <2>1, SomeFileIsNotEmpty
  <2> QED
    BY <2>1, <2>2
       DEF MInit, StatInv, StatOf, StatTypes, CountsFiles, CountsSpace, initQueue
<1>2. /\ Safe /\ Safe' /\ QueueHeld /\ ListHoldsFiles /\ ListHoldsFiles'
      /\ StatInv /\ [MNext]_<<vars, statistics, memory>>
      => StatInv'
  BY StatInvStep
<1>3. StatInv => StatisticsTrue
  BY DEF StatInv, StatOf, StatisticsTrue, CountsFiles, CountsSpace
<1> QED
  BY <1>1, <1>2, <1>3, MemoryIsServer, QueueAlways, ListAlways, PTL
     DEF MSpec
=============================================================================

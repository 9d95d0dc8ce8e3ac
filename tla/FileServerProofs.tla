-------------------------- MODULE FileServerProofs ---------------------------
(***************************************************************************)
(* Theorems about the workers, for every number of workers, clients, files  *)
(* and requests.  The argument goes in layers: TypeInv says which request a *)
(* worker serves where; LockInv, that file_lock_mutex works as a mutex and  *)
(* that it alone keeps names unique and the storage within max_file.  From  *)
(* these follow no lost wakeup, the lock table and, with one worker per     *)
(* client, the truth of every grant.  QueueHeld and RoomInv, for workloads  *)
(* without lock waits, say what file_queue_mutex is worth.                  *)
(***************************************************************************)
EXTENDS FileServer, FileStorageProofs

USE ServerAssumption, StorageAssumption DEF ServerAssumption, StorageAssumption

\* Where a worker runs the loop of open_file_controller or lock_file_controller.
Opening == HoldsFileLock \cup {"lockFile", "waiting", "reacquire"}

Writing == {"makeRoom", "expel", "sendVictim", "removeVictim", "checkLock",
            "receive"}

Busy == (Critical \cup Blocked \cup {"lockQueue"})

Sessions ==
    \A w \in Workers :
        /\ pc[w] \in Busy \cup {"reading"} => client[w] \in Clients
        /\ pc[w] \in Busy => request[w] \in Requests
        /\ pc[w] \in Opening => Op(w) \in {"OP_OPEN_FILE", "OP_LOCK_FILE"}
        /\ pc[w] \in Writing => Op(w) \in {"OP_WRITE_FILE", "OP_APPEND_FILE"}
        /\ pc[w] = "broadcast" => Op(w) = "OP_UNLOCK_FILE"

TypeInv == TypeOK /\ Sessions

LEMMA RequestFields ==
    ASSUME NEW r \in Requests
    PROVE  /\ r.file \in Files
           /\ r.flags \subseteq {"O_CREATE", "O_LOCK"} /\ r.n \in Int
           /\ r.op \in {"OP_WRITE_FILE", "OP_APPEND_FILE"} => r.n \in Nat
<1>1. r \in Request
  BY DEF ServerAssumption
<1>2. /\ r.file \in Files /\ r.n \in Int
      /\ r.flags \subseteq {"O_CREATE", "O_LOCK"}
  BY <1>1 DEF Request
<1>3. r.op \in {"OP_WRITE_FILE", "OP_APPEND_FILE"} => r.n \in Nat
  BY DEF ServerAssumption
<1> QED
  BY <1>2, <1>3

LEMMA TypeInit == Init => TypeInv
<1>1. << >> \in Seq(FileNode)
  OBVIOUS
<1> QED
  BY <1>1 DEF Init, TypeInv, TypeOK, Sessions, Labels, Critical, Blocked, Busy,
       Opening, Writing, HoldsFileLock

\* The steps of Next, one by one, so that the lemmas can be about each.
LEMMA NextCases ==
    ASSUME Next
    PROVE  \/ \E w \in Workers :
               \/ LockQueue(w) \/ Reply(w) \/ Reject(w) \/ Sigpipe(w)
               \/ ReceiveFails(w)
               \/ Retire(w) \/ Hangup(w) \/ SpuriousWakeup(w)
               \/ LockFileLock(w) \/ UnlockFileLock(w) \/ YieldQueue(w)
               \/ CondWait(w) \/ Reacquire(w)
               \/ Try(w) \/ Create(w) \/ Unlock(w) \/ Broadcast(w)
               \/ Delete(w) \/ CloseFile(w) \/ Read(w) \/ ReadN(w)
               \/ MakeRoom(w) \/ CheckLock(w) \/ Store(w)
               \/ Expel(w) \/ SendVictim(w)
               \/ RemoveVictim(w) \/ RemoveGarbage(w)
               \/ (\E c \in Clients : Connect(w, c))
               \/ (\E r \in Requests : Receive(w, r))
           \/ \E c \in Clients : ClientDies(c)
           \/ \E sig \in Signals : Signal(sig)
           \/ WakeFiles
           \/ UNCHANGED vars
BY DEF Next, WorkerStep, ClientStep, Stutter, OpenOrLock, Serve, WriteOrAppend

\* The actions that change the storage.
LEMMA StorageActions ==
    ASSUME [Next]_vars
    PROVE  \/ UNCHANGED fileQueue
           \/ \E w \in Workers :
                 \/ Try(w) \/ Create(w) \/ Unlock(w) \/ Delete(w)
                 \/ CloseFile(w) \/ Store(w)
                 \/ RemoveVictim(w) \/ RemoveGarbage(w)
<1>1. ASSUME NEW w \in Workers,
             \/ LockQueue(w) \/ Reply(w) \/ Reject(w)
             \/ Sigpipe(w) \/ ReceiveFails(w)
             \/ Retire(w) \/ Hangup(w) \/ SpuriousWakeup(w)
      PROVE  UNCHANGED fileQueue
  BY <1>1 DEF LockQueue, Reply, Reject, Sigpipe, ReceiveFails, Retire, Hangup,
     SpuriousWakeup
<1>2. ASSUME NEW w \in Workers,
             \/ LockFileLock(w) \/ UnlockFileLock(w) \/ YieldQueue(w)
             \/ CondWait(w) \/ Reacquire(w) \/ Broadcast(w)
      PROVE  UNCHANGED fileQueue
  BY <1>2 DEF LockFileLock, UnlockFileLock, YieldQueue, CondWait, Reacquire,
     Broadcast
<1>3. ASSUME NEW w \in Workers,
             \/ Read(w) \/ ReadN(w) \/ MakeRoom(w) \/ CheckLock(w)
             \/ Expel(w) \/ SendVictim(w)
      PROVE  UNCHANGED fileQueue
  BY <1>3 DEF Read, ReadN, MakeRoom, CheckLock, Expel, SendVictim
<1>4. ASSUME NEW w \in Workers,
             \/ \E c \in Clients : Connect(w, c)
             \/ \E r \in Requests : Receive(w, r)
      PROVE  UNCHANGED fileQueue
  BY <1>4 DEF Connect, Receive
<1>5. ASSUME \/ \E c \in Clients : ClientDies(c)
             \/ \E sig \in Signals : Signal(sig)
             \/ WakeFiles
             \/ UNCHANGED vars
      PROVE  UNCHANGED fileQueue
  BY <1>5 DEF ClientDies, Signal, WakeFiles, vars
<1> QED
  BY NextCases, <1>1, <1>2, <1>3, <1>4, <1>5

\* removeNode, as the handlers call it on a file they have found.
LEMMA DiscardTypes ==
    ASSUME fileQueue \in Storage, victim \in [Workers -> Files \cup {NoFile}],
           NEW f, Found(fileQueue, f), Discard(f)
    PROVE  /\ fileQueue' \in Storage
           /\ victim' \in [Workers -> Files \cup {NoFile}]
<1>1. fileQueue' \in Storage
  BY PositionOfName, RemoveOne DEF Discard
<1>2. victim' \in [Workers -> Files \cup {NoFile}]
  BY DEF Discard
<1> QED
  BY <1>1, <1>2

LEMMA TypeStep == TypeInv /\ [Next]_vars => TypeInv'
<1> SUFFICES ASSUME TypeInv, [Next]_vars PROVE TypeInv'
  OBVIOUS
<1> USE DEF TypeInv, TypeOK, Sessions, Labels, Critical, Blocked, Busy,
            Opening, Writing, HoldsFileLock, Goto, Answer, Op, File, vars,
            mutexes, flags, session, world
<1>1. CASE UNCHANGED vars
  BY <1>1
<1>2. ASSUME NEW w \in Workers, LockQueue(w) PROVE TypeInv'
  BY <1>2, RequestFields DEF LockQueue
<1>3. ASSUME NEW w \in Workers, Reply(w) \/ Reject(w) PROVE TypeInv'
  BY <1>3 DEF Reply, Reject
<1>4. ASSUME NEW w \in Workers, Sigpipe(w) \/ Retire(w) PROVE TypeInv'
  <2>1. CASE Sigpipe(w)
    <3>1. up' \in BOOLEAN
      BY <2>1 DEF Sigpipe
    <3>2. UNCHANGED <<fileQueue, mutexes, flags, pc, session, status, dead>>
      BY <2>1 DEF Sigpipe
    <3> QED
      BY <3>1, <3>2, Zenon
  <2>2. CASE Retire(w)
    BY <2>2 DEF Retire
  <2> QED
    BY <1>4, <2>1, <2>2
<1>5. ASSUME NEW w \in Workers, Hangup(w) \/ SpuriousWakeup(w) PROVE TypeInv'
  BY <1>5 DEF Hangup, SpuriousWakeup
<1>6. ASSUME NEW w \in Workers, NEW c \in Clients, Connect(w, c)
      PROVE  TypeInv'
  BY <1>6 DEF Connect
<1>7. ASSUME NEW w \in Workers, NEW r \in Requests, Receive(w, r)
      PROVE  TypeInv'
  BY <1>7 DEF Receive
<1>8. ASSUME NEW c \in Clients, ClientDies(c) PROVE TypeInv'
  BY <1>8 DEF ClientDies
<1>9. ASSUME NEW sig \in Signals, Signal(sig) PROVE TypeInv'
  BY <1>9 DEF Signal
<1>10. ASSUME WakeFiles PROVE TypeInv'
  BY <1>10 DEF WakeFiles
<1>11. ASSUME NEW w \in Workers,
              LockFileLock(w) \/ UnlockFileLock(w) \/ YieldQueue(w)
              \/ CondWait(w) \/ Reacquire(w)
       PROVE  TypeInv'
  BY <1>11 DEF LockFileLock, UnlockFileLock, YieldQueue, CondWait, Reacquire
<1>12. ASSUME NEW w \in Workers, Try(w) PROVE TypeInv'
  <2>1. CASE TryStatus(w) = -2
    BY <1>12, <2>1 DEF Try
  <2>2. CASE TryStatus(w) # -2
    <3>1. TryStatus(w) \in {-1, 0}
      BY <2>2 DEF TryStatus, OpenStatus, LockStatus
    <3>2. fileQueue' \in Storage
      BY <1>12, <2>2, UpdateTypes DEF Try, TryLocks, Storage
    <3>3. pc' \in [Workers -> Labels] /\ status' \in [Workers -> {-1, 0}]
      BY <1>12, <2>2, <3>1 DEF Try
    <3>4. pc[w] = "try" /\ UNCHANGED <<mutexes, flags, session, world>>
          /\ \A v \in Workers : v # w => pc'[v] = pc[v]
          /\ pc'[w] \in {"create", "unlockFile"}
      BY <1>12, <2>2 DEF Try
    <3>5. TypeOK'
      BY <3>2, <3>3, <3>4 DEF Storage
    <3>6. Sessions'
      BY <1>12, <2>2 DEF Try
    <3> QED
      BY <3>5, <3>6
  <2> QED
    BY <2>1, <2>2
<1>13. ASSUME NEW w \in Workers, Create(w) PROVE TypeInv'
  <2>1. request[w] \in Requests /\ client[w] \in Clients
    BY <1>13 DEF Create
  <2>2. NewNode(File(w), request[w].flags, client[w]) \in FileNode
    BY <2>1, RequestFields DEF NewNode, FileNode
  <2> QED
    BY <1>13, <2>2 DEF Create
<1>14. ASSUME NEW w \in Workers, Unlock(w) PROVE TypeInv'
  <2>1. UnlockStatus(fileQueue, File(w), client[w]) \in {-1, 0}
    BY DEF UnlockStatus
  <2>2. fileQueue' \in Storage
    BY <1>14, UpdateTypes DEF Unlock, UnlockStatus, Usable, Storage
  <2> QED
    BY <1>14, <2>1, <2>2 DEF Unlock, Storage
<1>15. ASSUME NEW w \in Workers, Broadcast(w) PROVE TypeInv'
  BY <1>15 DEF Broadcast
<1>16. ASSUME NEW w \in Workers, Delete(w) PROVE TypeInv'
  <2>1. fileQueue' \in Storage
    BY <1>16, DiscardTypes DEF Delete, DeleteSucceeds, Usable, Storage
  <2>2. victim' \in [Workers -> Files \cup {NoFile}]
    BY <1>16, DiscardTypes DEF Delete, DeleteSucceeds, Usable, Storage
  <2>3. /\ pc[w] = "serve" /\ Goto(w, "reply") /\ Answer(w, 0)
        /\ UNCHANGED <<mutexes, flags, client, request, world>>
    BY <1>16 DEF Delete
  <2> QED
    BY <2>1, <2>2, <2>3 DEF Storage
<1>17. ASSUME NEW w \in Workers, CloseFile(w) PROVE TypeInv'
  <2>1. fileQueue' \in Storage
    BY <1>17, UpdateTypes DEF CloseFile, CloseSucceeds, Usable, Storage
  <2> QED
    BY <1>17, <2>1 DEF CloseFile, Storage
<1>18. ASSUME NEW w \in Workers, Read(w) \/ ReadN(w) PROVE TypeInv'
  <2>1. CASE Read(w)
    BY <2>1 DEF Read
  <2>2. CASE ReadN(w)
    BY <2>2 DEF ReadN
  <2> QED
    BY <1>18, <2>1, <2>2
<1>19. ASSUME NEW w \in Workers, MakeRoom(w) \/ CheckLock(w) PROVE TypeInv'
  BY <1>19 DEF MakeRoom, CheckLock
<1>20. ASSUME NEW w \in Workers, Expel(w) PROVE TypeInv'
  <2>1. \A i \in DOMAIN fileQueue : fileQueue[i].pathname \in Files
    <3>1. \A i \in DOMAIN fileQueue : fileQueue[i] \in FileNode
      OBVIOUS
    <3> QED
      BY <3>1 DEF FileNode
  <2>2. victim' \in [Workers -> Files \cup {NoFile}]
    BY <1>20, <2>1 DEF Expel, Victims
  <2> QED
    BY <1>20, <2>2 DEF Expel
<1>21. ASSUME NEW w \in Workers, SendVictim(w) PROVE TypeInv'
  <2>1. up' \in BOOLEAN
    BY <1>21, Zenon DEF SendVictim
  <2>2. /\ UNCHANGED <<fileQueue, mutexes, flags, session, status, dead>>
        /\ pc' = pc \/ (pc[w] = "sendVictim" /\ Goto(w, "removeVictim"))
    BY <1>21 DEF SendVictim
  <2>3. TypeOK'
    BY <2>1, <2>2
  <2>4. Sessions'
    BY <2>2
  <2> QED
    BY <2>3, <2>4
<1>23. ASSUME NEW w \in Workers, RemoveVictim(w) PROVE TypeInv'
  <2>1. /\ pc[w] = "removeVictim" /\ Goto(w, "checkLock")
        /\ Found(fileQueue, victim[w]) /\ Discard(victim[w])
        /\ UNCHANGED <<mutexes, flags, client, request, status, world>>
    BY <1>23 DEF RemoveVictim
  <2>2. fileQueue' \in Storage /\ victim' \in [Workers -> Files \cup {NoFile}]
    <3>1. fileQueue \in Storage /\ victim \in [Workers -> Files \cup {NoFile}]
      BY DEF Storage
    <3> HIDE DEF TypeInv, TypeOK, Sessions
    <3> QED
      BY <2>1, <3>1, DiscardTypes
  <2>3. TypeOK'
    <3>1. pc' \in [Workers -> Labels]
      BY <2>1
    <3> QED
      BY <2>1, <2>2, <3>1 DEF Storage
  <2>4. Sessions'
    BY <2>1
  <2> QED
    BY <2>3, <2>4
<1>24. ASSUME NEW w \in Workers, RemoveGarbage(w) PROVE TypeInv'
  <2>1. fileQueue' \in Storage /\ victim' \in [Workers -> Files \cup {NoFile}]
    <3>1. /\ fileQueue \in Storage
          /\ victim \in [Workers -> Files \cup {NoFile}]
      BY DEF Storage
    <3>2. \/ \E f \in Files : Found(fileQueue, f) /\ Discard(f)
          \/ UNCHANGED <<fileQueue, victim>>
      BY <1>24 DEF RemoveGarbage
    <3> HIDE DEF TypeInv, TypeOK, Sessions
    <3> QED
      BY <3>1, <3>2, DiscardTypes
  <2>2. up' \in BOOLEAN
    BY <1>24, Zenon DEF RemoveGarbage
  <2>3. /\ UNCHANGED <<mutexes, flags, client, request, status, dead>>
        /\ pc' = pc \/ (pc[w] = "removeVictim" /\ Goto(w, "checkLock"))
    BY <1>24 DEF RemoveGarbage
  <2>4. TypeOK'
    BY <2>1, <2>2, <2>3 DEF Storage
  <2>5. Sessions'
    BY <2>3
  <2> QED
    BY <2>4, <2>5
<1>25. ASSUME NEW w \in Workers, ReceiveFails(w) PROVE TypeInv'
  BY <1>25 DEF ReceiveFails
<1>22. ASSUME NEW w \in Workers, Store(w) PROVE TypeInv'
  <2>1. request[w].n \in Nat
    BY <1>22, RequestFields DEF Store
  <2>2. Usable(fileQueue, File(w)) =>
           Node(fileQueue, File(w)).size + request[w].n \in Nat
    <3>1. Usable(fileQueue, File(w)) =>
             Node(fileQueue, File(w)) \in FileNode
      BY NodeType DEF Usable, Storage
    <3> QED
      BY <3>1, <2>1 DEF FileNode
  <2>3. fileQueue' \in Storage
    BY <1>22, <2>1, <2>2, UpdateTypes DEF Store, Grow, Usable, Storage
  <2> QED
    BY <1>22, <2>3 DEF Store, Storage
<1> QED
  <2> HIDE DEF TypeInv, vars
  <2> QED
    BY NextCases, <1>1, <1>2, <1>3, <1>4, <1>5, <1>6, <1>7, <1>8, <1>9,
       <1>10, <1>11, <1>12, <1>13, <1>14, <1>15, <1>16, <1>17, <1>18, <1>19,
       <1>20, <1>21, <1>22, <1>23, <1>24, <1>25

\* Every variable keeps its type: the requests a worker serves are requests
\* a client may send, the list is a list of nodes, and the only status that
\* leaves the lock loop is 0 or -1.
THEOREM TypeCorrect == Spec => []TypeOK
<1>1. TypeInv => TypeOK
  BY DEF TypeInv
<1> QED
  BY TypeInit, TypeStep, <1>1, PTL DEF Spec

-----------------------------------------------------------------------------
(* What each step does to the locks                                        *)

\* r is q with the lock state of the name f, and no other, moved to s.
Moves(q, r, f, s) ==
    /\ LockIn(r, f) = s
    /\ \A g : g # f => LockIn(r, g) = LockIn(q, g)

LEMMA FoundIsNotAbsent ==
    ASSUME NEW q \in Storage, NEW f
    PROVE  /\ Found(q, f) <=> LockIn(q, f) # Absent
           /\ LockIn(q, f) \in Clients \cup {NoClient, Absent, Closed}
<1>1. Found(q, f) => Node(q, f).client_id \in Clients \cup {NoClient}
  BY NodeType DEF FileNode, Storage
<1> QED
  BY <1>1 DEF LockIn

LEMMA SetOwnerMoves ==
    ASSUME NEW q \in Storage, Unique(q), NEW f, Usable(q, f),
           NEW c \in Clients \cup {NoClient}
    PROVE  /\ Unique(SetOwner(q, f, c)) /\ Len(SetOwner(q, f, c)) = Len(q)
           /\ Moves(q, SetOwner(q, f, c), f, c)
<1> DEFINE r == SetOwner(q, f, c)
<1>1. /\ Unique(r) /\ Len(r) = Len(q)
      /\ \A g : Found(r, g) <=> Found(q, g)
      /\ Node(r, f).client_id = c /\ Node(r, f).isOpen = Node(q, f).isOpen
      /\ \A g : Found(q, g) /\ g # f => Node(r, g) = Node(q, g)
  <2>1. Found(q, f)
    BY DEF Usable
  <2> HIDE DEF r
  <2>2. r = SetOwner(q, f, c)
    BY DEF r
  <2> QED
    BY <2>1, <2>2, SetOwnerEffect
<1> HIDE DEF r
<1>2. Moves(q, r, f, c)
  BY <1>1 DEF Moves, LockIn, Usable
<1> QED
  BY <1>1, <1>2 DEF r

LEMMA CloseMoves ==
    ASSUME NEW q \in Storage, Unique(q), NEW f, Found(q, f)
    PROVE  /\ Unique(Close(q, f)) /\ Len(Close(q, f)) = Len(q)
           /\ Moves(q, Close(q, f), f, Closed)
<1> DEFINE r == Close(q, f)
<1>1. Closes(q, r, f)
  BY CloseEffect
<1> HIDE DEF r
<1>2. Moves(q, r, f, Closed)
  BY <1>1 DEF Closes, Moves, LockIn
<1>3. Unique(r) /\ Len(r) = Len(q)
  BY <1>1 DEF Closes
<1> QED
  BY <1>2, <1>3 DEF r

LEMMA SetSizeMoves ==
    ASSUME NEW q \in Storage, Unique(q), NEW f, Found(q, f), NEW n \in Nat
    PROVE  /\ Unique(SetSize(q, f, n)) /\ Len(SetSize(q, f, n)) = Len(q)
           /\ \A g : LockIn(SetSize(q, f, n), g) = LockIn(q, g)
BY SetSizeEffect DEF LockIn

LEMMA RemoveMoves ==
    ASSUME NEW q \in Storage, Unique(q), NEW k \in DOMAIN q
    PROVE  /\ Unique(RemoveNode(q, k)) /\ Len(RemoveNode(q, k)) <= Len(q)
           /\ Moves(q, RemoveNode(q, k), q[k].pathname, Absent)
           /\ q[k].pathname \in Files
<1>1. q[k] \in FileNode /\ Len(q) \in Nat
  BY DEF Storage
<1> DEFINE r == RemoveNode(q, k)
<1>2. /\ Unique(r) /\ Len(r) = Len(q) - 1
      /\ \A g : Found(r, g) <=> (Found(q, g) /\ g # q[k].pathname)
      /\ \A g : Found(r, g) => Node(r, g) = Node(q, g)
  BY RemoveUnique
<1> HIDE DEF r
<1>3. Moves(q, r, q[k].pathname, Absent)
  BY <1>2 DEF Moves, LockIn
<1>4. q[k].pathname \in Files
  BY <1>1 DEF FileNode
<1> QED
  BY <1>1, <1>2, <1>3, <1>4 DEF r

LEMMA PushMoves ==
    ASSUME NEW q \in Storage, Unique(q), NEW f, ~Found(q, f),
           NEW n \in FileNode, n.pathname = f, n.isOpen = TRUE
    PROVE  /\ Unique(Append(q, n)) /\ Len(Append(q, n)) = Len(q) + 1
           /\ Moves(q, Append(q, n), f, n.client_id)
<1> DEFINE r == Append(q, n)
<1>1. /\ Unique(r) /\ Len(r) = Len(q) + 1
      /\ \A g : Found(r, g) <=> (Found(q, g) \/ g = f)
      /\ Node(r, f) = n
      /\ \A g : Found(q, g) => Node(r, g) = Node(q, g)
  <2> HIDE DEF r
  <2>1. Pushed(q, r, n)
    BY DEF r, Pushed
  <2> QED
    BY <2>1, PushNode
<1> HIDE DEF r
<1>2. Moves(q, r, f, n.client_id)
  BY <1>1 DEF Moves, LockIn
<1> QED
  BY <1>1, <1>2 DEF r

\* The six things a step may do to the locks.  Only Create makes the list
\* longer.
SameLocks ==
    /\ Unique(fileQueue') /\ Len(fileQueue') = Len(fileQueue)
    /\ \A g : LockIn(fileQueue', g) = LockOf(g)

MovesLock(f, from, to) ==
    /\ Unique(fileQueue') /\ Len(fileQueue') <= Len(fileQueue)
    /\ f \in Files
    /\ LockOf(f) \in from
    /\ Moves(fileQueue, fileQueue', f, to)

StorageStep ==
    \/ SameLocks
    \/ \E w \in Workers : Create(w)
    \/ \E w \in Workers :
          Try(w) /\ MovesLock(File(w), {NoClient, client[w]}, client[w])
    \/ \E w \in Workers :
          /\ Unlock(w) /\ pc'[w] = "broadcast"
          /\ MovesLock(File(w), {NoClient, client[w]}, NoClient)
    \/ \E f \in Files : MovesLock(f, Clients \cup {NoClient, Closed}, Absent)
    \/ \E f \in Files : MovesLock(f, Clients, Closed)

LEMMA QueueUnchanged ==
    ASSUME Unique(fileQueue), UNCHANGED fileQueue
    PROVE  SameLocks
BY DEF SameLocks, LockOf

LEMMA StepOfStorage ==
    ASSUME TypeInv, Unique(fileQueue), Next
    PROVE  StorageStep
<1>q. fileQueue \in Storage
  BY DEF TypeInv, TypeOK, Storage
<1>s. ASSUME NEW w \in Workers, pc[w] \in Busy
      PROVE  /\ File(w) \in Files /\ client[w] \in Clients
             /\ request[w] \in Requests
  BY <1>s, RequestFields DEF TypeInv, Sessions, File
<1>r. ASSUME NEW k \in DOMAIN fileQueue, fileQueue' = RemoveNode(fileQueue, k)
      PROVE  StorageStep
  <2> DEFINE f == fileQueue[k].pathname
  <2>1. /\ Unique(fileQueue') /\ Len(fileQueue') <= Len(fileQueue)
        /\ Moves(fileQueue, fileQueue', f, Absent) /\ f \in Files
    BY <1>q, <1>r, RemoveMoves
  <2>2. Found(fileQueue, f)
    BY <1>q, PositionUnique
  <2>3. LockOf(f) \in Clients \cup {NoClient, Closed}
    BY <2>2, <1>q, FoundIsNotAbsent DEF LockOf
  <2> HIDE DEF f
  <2> QED
    BY <2>1, <2>3 DEF StorageStep, MovesLock
<1>1. ASSUME NEW w \in Workers, Try(w) PROVE StorageStep
  <2>1. CASE TryStatus(w) # -2 /\ TryLocks(w)
    <3> DEFINE f == File(w)
               c == client[w]
    <3>1. f \in Files /\ c \in Clients
      BY <1>1, <1>s DEF Try, Busy, Critical
    <3>2. Found(fileQueue, f) /\ LockStatus(fileQueue, f, c) = 0
      BY <2>1 DEF TryLocks, TryStatus, OpenStatus
    <3>3. Usable(fileQueue, f) /\ Node(fileQueue, f).client_id \in {c, NoClient}
      BY <3>2 DEF LockStatus
    <3>4. LockOf(f) \in {NoClient, c}
      BY <3>2, <3>3 DEF LockOf, LockIn, Usable
    <3>5. fileQueue' = SetOwner(fileQueue, f, c)
      BY <1>1, <2>1 DEF Try
    <3> HIDE DEF f, c
    <3>6. /\ Unique(fileQueue') /\ Len(fileQueue') = Len(fileQueue)
          /\ Moves(fileQueue, fileQueue', f, c)
      BY <1>q, <3>1, <3>3, <3>5, SetOwnerMoves
    <3>7. Len(fileQueue) \in Nat
      BY <1>q DEF Storage
    <3>8. MovesLock(f, {NoClient, c}, c)
      BY <3>1, <3>4, <3>6, <3>7 DEF MovesLock
    <3> QED
      BY <1>1, <3>8 DEF StorageStep, f, c
  <2>2. CASE ~(TryStatus(w) # -2 /\ TryLocks(w))
    <3>1. UNCHANGED fileQueue
      BY <1>1, <2>2 DEF Try
    <3> QED
      BY <3>1, QueueUnchanged DEF StorageStep
  <2> QED
    BY <2>1, <2>2
<1>2. ASSUME NEW w \in Workers, Unlock(w) PROVE StorageStep
  <2>1. CASE UnlockStatus(fileQueue, File(w), client[w]) = 0
    <3> DEFINE f == File(w)
               c == client[w]
    <3>1. f \in Files /\ c \in Clients
      BY <1>2, <1>s DEF Unlock, Busy, Critical
    <3>2. Usable(fileQueue, f) /\ Node(fileQueue, f).client_id \in {c, NoClient}
      BY <2>1 DEF UnlockStatus
    <3>3. LockOf(f) \in {NoClient, c}
      BY <3>2 DEF LockOf, LockIn, Usable
    <3>4. fileQueue' = SetOwner(fileQueue, f, NoClient)
      BY <1>2, <2>1 DEF Unlock
    <3>5. pc'[w] = "broadcast"
      BY <1>2, <2>1 DEF Unlock, Goto, TypeInv, TypeOK
    <3> HIDE DEF f, c
    <3>6. /\ Unique(fileQueue') /\ Len(fileQueue') = Len(fileQueue)
          /\ Moves(fileQueue, fileQueue', f, NoClient)
      BY <1>q, <3>2, <3>4, SetOwnerMoves
    <3>7. Len(fileQueue) \in Nat
      BY <1>q DEF Storage
    <3>8. MovesLock(f, {NoClient, c}, NoClient)
      BY <3>1, <3>3, <3>6, <3>7 DEF MovesLock
    <3> QED
      BY <1>2, <3>5, <3>8 DEF StorageStep, f, c
  <2>2. CASE UnlockStatus(fileQueue, File(w), client[w]) # 0
    BY <1>2, <2>2, QueueUnchanged DEF StorageStep, Unlock
  <2> QED
    BY <2>1, <2>2
<1>3. ASSUME NEW w \in Workers, Delete(w) PROVE StorageStep
  <2>1. CASE DeleteSucceeds(fileQueue, File(w), client[w])
    BY <1>3, <2>1, <1>q, <1>r, PositionOfName
       DEF Delete, DeleteSucceeds, Usable, Discard
  <2>2. CASE ~DeleteSucceeds(fileQueue, File(w), client[w])
    BY <1>3, <2>2, QueueUnchanged DEF StorageStep, Delete
  <2> QED
    BY <2>1, <2>2
<1>4. ASSUME NEW w \in Workers, CloseFile(w) PROVE StorageStep
  <2>1. CASE CloseSucceeds(fileQueue, File(w), client[w])
    <3> DEFINE f == File(w)
    <3>1. f \in Files /\ client[w] \in Clients
      BY <1>4, <1>s DEF CloseFile, Busy, Critical
    <3>2. Found(fileQueue, f) /\ LockOf(f) \in Clients
      BY <2>1, <3>1 DEF CloseSucceeds, Usable, LockOf, LockIn
    <3>3. fileQueue' = Close(fileQueue, f)
      BY <1>4, <2>1 DEF CloseFile
    <3> HIDE DEF f
    <3>4. /\ Unique(fileQueue') /\ Len(fileQueue') = Len(fileQueue)
          /\ Moves(fileQueue, fileQueue', f, Closed)
      BY <1>q, <3>2, <3>3, CloseMoves
    <3>5. Len(fileQueue) \in Nat
      BY <1>q DEF Storage
    <3> QED
      BY <3>1, <3>2, <3>4, <3>5 DEF StorageStep, MovesLock
  <2>2. CASE ~CloseSucceeds(fileQueue, File(w), client[w])
    BY <1>4, <2>2, QueueUnchanged DEF StorageStep, CloseFile
  <2> QED
    BY <2>1, <2>2
<1>5. ASSUME NEW w \in Workers, Store(w) PROVE StorageStep
  <2>1. CASE Usable(fileQueue, File(w))
    <3>1. /\ request[w] \in Requests
          /\ Op(w) \in {"OP_WRITE_FILE", "OP_APPEND_FILE"}
      BY <1>5 DEF Store, TypeInv, Sessions, Busy, Critical, Writing
    <3>2. request[w].n \in Nat
      BY <3>1, RequestFields DEF Op
    <3>3. Node(fileQueue, File(w)) \in FileNode
      BY <1>q, <2>1, NodeType DEF Usable
    <3>4. Node(fileQueue, File(w)).size + request[w].n \in Nat
      BY <3>2, <3>3 DEF FileNode
    <3>5. PICK n \in Nat : fileQueue' = SetSize(fileQueue, File(w), n)
      BY <1>5, <2>1, <3>2, <3>4 DEF Store, Grow
    <3>6. SameLocks
      BY <1>q, <2>1, <3>5, SetSizeMoves DEF SameLocks, LockOf, Usable
    <3> QED
      BY <3>6 DEF StorageStep
  <2>2. CASE ~Usable(fileQueue, File(w))
    BY <1>5, <2>2, QueueUnchanged DEF StorageStep, Store
  <2> QED
    BY <2>1, <2>2
<1>6. ASSUME NEW w \in Workers, RemoveVictim(w) \/ RemoveGarbage(w)
      PROVE  StorageStep
  <2>1. ASSUME NEW f, Found(fileQueue, f), Discard(f)
        PROVE  StorageStep
    BY <2>1, <1>q, <1>r, PositionOfName DEF Discard
  <2>2. CASE UNCHANGED fileQueue
    BY <2>2, QueueUnchanged DEF StorageStep
  <2> QED
    BY <1>6, <2>1, <2>2 DEF RemoveVictim, RemoveGarbage
<1>7. ASSUME UNCHANGED fileQueue PROVE StorageStep
  BY <1>7, QueueUnchanged DEF StorageStep
<1>8. ASSUME NEW w \in Workers, Create(w) PROVE StorageStep
  BY <1>8 DEF StorageStep
<1> QED
  BY <1>1, <1>2, <1>3, <1>4, <1>5, <1>6, <1>7, <1>8, StorageActions

-----------------------------------------------------------------------------
(* file_lock_mutex, unique names and max_file                              *)

FileLockHeld ==
    \A w \in Workers : pc[w] \in HoldsFileLock => file_lock_mutex = w

\* What the test of openVirtualFile established still holds at the push:
\* nobody else can have pushed a file, because pushing takes file_lock_mutex.
\* Locking file_queue_mutex is not part of the argument.
CreateReady ==
    \A w \in Workers :
        pc[w] = "create" =>
            /\ Op(w) = "OP_OPEN_FILE"
            /\ ~Found(fileQueue, File(w))
            /\ Len(fileQueue) < max_file

LockInv ==
    /\ FileLockHeld
    /\ CreateReady
    /\ Unique(fileQueue)
    /\ Len(fileQueue) <= max_file

LEMMA LockInit == Init => LockInv
<1> SUFFICES ASSUME Init PROVE LockInv
  OBVIOUS
<1>1. Unique(fileQueue) /\ Len(fileQueue) <= max_file
  BY DEF Init, Unique
<1>2. FileLockHeld /\ CreateReady
  BY DEF Init, FileLockHeld, CreateReady, HoldsFileLock
<1> QED
  BY <1>1, <1>2 DEF LockInv

LEMMA FileLockStep == TypeInv /\ FileLockHeld /\ [Next]_vars => FileLockHeld'
<1> SUFFICES ASSUME TypeInv, FileLockHeld, [Next]_vars PROVE FileLockHeld'
  OBVIOUS
<1> USE DEF TypeInv, TypeOK, FileLockHeld, HoldsFileLock, Goto, vars, mutexes
<1>1. CASE UNCHANGED vars
  BY <1>1
<1>2. ASSUME NEW w \in Workers, LockQueue(w) \/ Reply(w) \/ Reject(w)
      PROVE  FileLockHeld'
  BY <1>2 DEF LockQueue, Reply, Reject
<1>3. ASSUME NEW w \in Workers,
             Sigpipe(w) \/ Retire(w) \/ Hangup(w) \/ SpuriousWakeup(w)
      PROVE  FileLockHeld'
  BY <1>3 DEF Sigpipe, Retire, Hangup, SpuriousWakeup
<1>4. ASSUME NEW w \in Workers, NEW c \in Clients, Connect(w, c)
      PROVE  FileLockHeld'
  BY <1>4 DEF Connect
<1>5. ASSUME NEW w \in Workers, NEW r \in Requests, Receive(w, r)
      PROVE  FileLockHeld'
  BY <1>5 DEF Receive
<1>6. ASSUME \/ \E c \in Clients : ClientDies(c)
             \/ \E sig \in Signals : Signal(sig)
             \/ WakeFiles
      PROVE  FileLockHeld'
  BY <1>6 DEF ClientDies, Signal, WakeFiles
<1>7. ASSUME NEW w \in Workers, LockFileLock(w) \/ Reacquire(w)
      PROVE  FileLockHeld'
  BY <1>7 DEF LockFileLock, Reacquire
<1>8. ASSUME NEW w \in Workers, UnlockFileLock(w) \/ CondWait(w)
      PROVE  FileLockHeld'
  BY <1>8 DEF UnlockFileLock, CondWait
<1>9. ASSUME NEW w \in Workers, Try(w) \/ Create(w) \/ YieldQueue(w)
      PROVE  FileLockHeld'
  BY <1>9 DEF Try, Create, YieldQueue
<1>10. ASSUME NEW w \in Workers, Serve(w) PROVE FileLockHeld'
  BY <1>10 DEF Serve, Unlock, Broadcast, Delete, CloseFile, Read, ReadN
<1>11. ASSUME NEW w \in Workers, WriteOrAppend(w) PROVE FileLockHeld'
  BY <1>11 DEF WriteOrAppend, MakeRoom, Expel, SendVictim, RemoveVictim,
     RemoveGarbage, CheckLock, Store, ReceiveFails
<1> QED
  <2> HIDE DEF TypeInv, FileLockHeld, vars
  <2> QED
    BY NextCases, <1>1, <1>2, <1>3, <1>4, <1>5, <1>6, <1>7, <1>8, <1>9,
       <1>10, <1>11 DEF Serve, WriteOrAppend

\* A worker arrives at create from a successful test, and leaves by the push.
LEMMA CreateArrival ==
    ASSUME TypeInv, Next, NEW w \in Workers, pc'[w] = "create"
    PROVE  /\ request'[w] = request[w]
           /\ \/ pc[w] = "create"
              \/ Try(w) /\ TryCreates(w) /\ UNCHANGED fileQueue
<1> USE DEF TypeInv, TypeOK, Goto
<1>1. \/ pc[w] = "create" /\ request'[w] = request[w]
      \/ \E v \in Workers : Try(v)
  <2> USE DEF session
  <2>1. ASSUME NEW v \in Workers,
             \/ LockQueue(v) \/ Reply(v) \/ Reject(v)
             \/ Sigpipe(v) \/ ReceiveFails(v)
       PROVE  pc[w] = "create" /\ request'[w] = request[w]
    BY <2>1 DEF LockQueue, Reply, Reject, Sigpipe, ReceiveFails
  <2>2. ASSUME NEW v \in Workers,
             Retire(v) \/ Hangup(v) \/ SpuriousWakeup(v)
       PROVE  pc[w] = "create" /\ request'[w] = request[w]
    BY <2>2 DEF Retire, Hangup, SpuriousWakeup
  <2>3. ASSUME NEW v \in Workers,
             \/ LockFileLock(v) \/ UnlockFileLock(v) \/ YieldQueue(v)
             \/ CondWait(v) \/ Reacquire(v)
       PROVE  pc[w] = "create" /\ request'[w] = request[w]
    BY <2>3 DEF LockFileLock, UnlockFileLock, YieldQueue, CondWait, Reacquire
  <2>4. ASSUME NEW v \in Workers,
             Create(v)
       PROVE  pc[w] = "create" /\ request'[w] = request[w]
    BY <2>4 DEF Create
  <2>5. ASSUME NEW v \in Workers,
             Unlock(v) \/ Broadcast(v)
       PROVE  pc[w] = "create" /\ request'[w] = request[w]
    BY <2>5 DEF Unlock, Broadcast
  <2>6. ASSUME NEW v \in Workers,
             Delete(v) \/ CloseFile(v) \/ Read(v) \/ ReadN(v)
       PROVE  pc[w] = "create" /\ request'[w] = request[w]
    BY <2>6 DEF Delete, CloseFile, Read, ReadN
  <2>7. ASSUME NEW v \in Workers,
             MakeRoom(v) \/ CheckLock(v) \/ Store(v)
       PROVE  pc[w] = "create" /\ request'[w] = request[w]
    BY <2>7 DEF MakeRoom, CheckLock, Store
  <2>8. ASSUME NEW v \in Workers,
             Expel(v) \/ SendVictim(v) \/ RemoveVictim(v) \/ RemoveGarbage(v)
       PROVE  pc[w] = "create" /\ request'[w] = request[w]
    BY <2>8 DEF Expel, SendVictim, RemoveVictim, RemoveGarbage
  <2>9. ASSUME NEW v \in Workers,
             \/ \E c \in Clients : Connect(v, c)
             \/ \E r \in Requests : Receive(v, r)
       PROVE  pc[w] = "create" /\ request'[w] = request[w]
    BY <2>9 DEF Connect, Receive
  <2>10. ASSUME \/ \E c \in Clients : ClientDies(c)
                \/ \E sig \in Signals : Signal(sig)
                \/ WakeFiles
                \/ UNCHANGED vars
         PROVE  pc[w] = "create" /\ request'[w] = request[w]
    BY <2>10 DEF ClientDies, Signal, WakeFiles, vars
  <2> HIDE DEF TypeInv, TypeOK, Goto, session
  <2> QED
    BY NextCases, <2>1, <2>2, <2>3, <2>4, <2>5, <2>6, <2>7, <2>8, <2>9, <2>10
<1>2. ASSUME NEW v \in Workers, Try(v), pc[w] # "create"
      PROVE  /\ request'[w] = request[w]
             /\ Try(w) /\ TryCreates(w) /\ UNCHANGED fileQueue
  <2>1. v = w /\ request' = request
    BY <1>2 DEF Try, session
  <2>2. TryStatus(w) # -2 /\ TryCreates(w)
    BY <1>2, <2>1 DEF Try
  <2>3. ~TryLocks(w)
    BY <2>2 DEF TryCreates, TryLocks, Creates
  <2> QED
    BY <1>2, <2>1, <2>2, <2>3 DEF Try
<1>3. ASSUME NEW v \in Workers, Try(v), pc[w] = "create"
      PROVE  request'[w] = request[w]
  BY <1>3 DEF Try, session
<1> QED
  BY <1>1, <1>2, <1>3

LEMMA FoundOnlyGrowsByCreate ==
    ASSUME TypeInv, TypeInv', Unique(fileQueue), Next,
           \A w \in Workers : ~Create(w)
    PROVE  /\ Unique(fileQueue') /\ Len(fileQueue') <= Len(fileQueue)
           /\ \A g : Found(fileQueue', g) => Found(fileQueue, g)
<1>1. /\ fileQueue \in Storage /\ fileQueue' \in Storage
      /\ Len(fileQueue) \in Nat
  BY DEF TypeInv, TypeOK, Storage
<1>2. CASE SameLocks
  BY <1>1, <1>2, FoundIsNotAbsent DEF SameLocks, LockOf
<1>3. ASSUME NEW f, NEW from, NEW to, MovesLock(f, from, to), Absent \notin from
      PROVE  /\ Unique(fileQueue') /\ Len(fileQueue') <= Len(fileQueue)
             /\ \A g : Found(fileQueue', g) => Found(fileQueue, g)
  <2>1. Found(fileQueue, f)
    BY <1>1, <1>3, FoundIsNotAbsent DEF MovesLock, LockOf
  <2>2. \A g : g # f => LockIn(fileQueue', g) = LockIn(fileQueue, g)
    BY <1>3 DEF MovesLock, Moves
  <2>3. \A g : Found(fileQueue', g) => Found(fileQueue, g)
    BY <1>1, <2>1, <2>2, FoundIsNotAbsent
  <2> QED
    BY <1>3, <2>3 DEF MovesLock
<1>4. ASSUME NEW w \in Workers, Try(w) \/ Unlock(w)
      PROVE  Absent \notin {NoClient, client[w]}
  BY <1>4 DEF Try, Unlock, TypeInv, Sessions, Busy, Critical
<1>5. Absent \notin Clients \cup {NoClient, Closed}
  OBVIOUS
<1> QED
  BY StepOfStorage, <1>2, <1>3, <1>4, <1>5 DEF StorageStep

LEMMA LockStep == TypeInv /\ TypeInv' /\ LockInv /\ [Next]_vars => LockInv'
<1> SUFFICES ASSUME TypeInv, TypeInv', LockInv, [Next]_vars PROVE LockInv'
  OBVIOUS
<1>t. fileQueue \in Storage /\ Len(fileQueue) \in Nat
  BY DEF TypeInv, TypeOK, Storage
<1>1. FileLockHeld'
  BY FileLockStep DEF LockInv
<1>2. CASE UNCHANGED vars
  BY <1>2 DEF vars, LockInv, FileLockHeld, CreateReady, Op, File, Unique
<1>3. ASSUME NEW w \in Workers, Next, Create(w)
      PROVE  /\ CreateReady'
             /\ Unique(fileQueue') /\ Len(fileQueue') <= max_file
  <2> DEFINE n == NewNode(File(w), request[w].flags, client[w])
  <2>1. pc[w] = "create" /\ fileQueue' = Append(fileQueue, n)
    BY <1>3 DEF Create
  <2>2. request[w] \in Requests /\ client[w] \in Clients
    BY <2>1 DEF TypeInv, Sessions, Busy, Critical
  <2>3. /\ n \in FileNode /\ n.pathname = File(w) /\ n.isOpen = TRUE
    BY <2>2, RequestFields DEF NewNode, FileNode, File
  <2>4. ~Found(fileQueue, File(w)) /\ Len(fileQueue) < max_file
    BY <2>1 DEF LockInv, CreateReady
  <2> HIDE DEF n
  <2>5. Unique(Append(fileQueue, n))
        /\ Len(Append(fileQueue, n)) = Len(fileQueue) + 1
    BY <1>t, <2>3, <2>4, PushMoves DEF LockInv
  <2>6. \A v \in Workers : pc'[v] # "create"
    <3>1. \A v \in Workers : pc[v] = "create" => v = w
      BY <2>1 DEF LockInv, FileLockHeld, HoldsFileLock
    <3> QED
      BY <1>3, <3>1 DEF Create, Goto, TypeInv, TypeOK
  <2> QED
    BY <1>t, <2>1, <2>4, <2>5, <2>6 DEF CreateReady
<1>4. ASSUME Next, \A w \in Workers : ~Create(w)
      PROVE  /\ CreateReady'
             /\ Unique(fileQueue') /\ Len(fileQueue') <= max_file
  <2>1. /\ Unique(fileQueue') /\ Len(fileQueue') <= Len(fileQueue)
        /\ \A g : Found(fileQueue', g) => Found(fileQueue, g)
    BY <1>4, FoundOnlyGrowsByCreate DEF LockInv
  <2>2. Len(fileQueue') \in Nat
    BY DEF TypeInv, TypeOK
  <2>3. ASSUME NEW w \in Workers, pc'[w] = "create"
        PROVE  /\ request'[w].op = "OP_OPEN_FILE"
               /\ ~Found(fileQueue', request'[w].file)
               /\ Len(fileQueue') < max_file
    <3>1. request'[w] = request[w]
      BY <1>4, <2>3, CreateArrival
    <3>2. CASE pc[w] = "create"
      BY <1>t, <2>1, <2>2, <3>1, <3>2 DEF LockInv, CreateReady, Op, File
    <3>3. CASE Try(w) /\ TryCreates(w) /\ UNCHANGED fileQueue
      BY <1>t, <3>1, <3>3 DEF TryCreates, Creates, LockInv, Op, File
    <3> QED
      BY <1>4, <2>3, <3>2, <3>3, CreateArrival
  <2>4. CreateReady'
    BY <2>3 DEF CreateReady, Op, File
  <2> QED
    BY <1>t, <2>1, <2>2, <2>4 DEF LockInv
<1> QED
  BY <1>1, <1>2, <1>3, <1>4 DEF LockInv

Safe == TypeInv /\ LockInv

LEMMA SafeAlways == Spec => []Safe
<1>1. Init => Safe
  BY TypeInit, LockInit DEF Safe
<1>2. Safe /\ [Next]_vars => Safe'
  BY TypeStep, LockStep DEF Safe
<1> QED
  BY <1>1, <1>2, PTL DEF Spec

\* At most one worker is between lock and unlock of file_lock_mutex.
THEOREM FileLockMutualExclusion == Spec => []FileLockExclusion
<1>1. Safe => FileLockExclusion
  BY DEF Safe, LockInv, FileLockHeld, FileLockExclusion
<1> QED
  BY SafeAlways, <1>1, PTL

\* No name is stored twice and max_file is never exceeded, although a worker
\* that comes out of the lock wait creates files without file_queue_mutex.
THEOREM NamesUniqueAndBounded == Spec => []UniquePathnames
<1>1. Safe => UniquePathnames
  BY DEF Safe, LockInv, Unique, UniquePathnames
<1> QED
  BY SafeAlways, <1>1, PTL

-----------------------------------------------------------------------------
(* No lost wakeup                                                          *)

Asleep == {"yieldQueue", "sleep", "waiting"}

\* A worker falls asleep only by a try that found the file locked.
LEMMA AsleepArrival ==
    ASSUME TypeInv, Next, NEW w \in Workers, pc'[w] \in Asleep
    PROVE  /\ request'[w] = request[w]
           /\ \/ pc[w] \in Asleep
              \/ Try(w) /\ TryStatus(w) = -2 /\ UNCHANGED fileQueue
<1> USE DEF TypeInv, TypeOK, Goto, Asleep
<1>1. \/ pc[w] \in Asleep /\ request'[w] = request[w]
      \/ \E v \in Workers : Try(v)
  <2> USE DEF session
  <2>1. ASSUME NEW v \in Workers,
             \/ LockQueue(v) \/ Reply(v) \/ Reject(v)
             \/ Sigpipe(v) \/ ReceiveFails(v)
       PROVE  pc[w] \in Asleep /\ request'[w] = request[w]
    BY <2>1 DEF LockQueue, Reply, Reject, Sigpipe, ReceiveFails
  <2>2. ASSUME NEW v \in Workers,
             Retire(v) \/ Hangup(v) \/ SpuriousWakeup(v)
       PROVE  pc[w] \in Asleep /\ request'[w] = request[w]
    BY <2>2 DEF Retire, Hangup, SpuriousWakeup
  <2>3. ASSUME NEW v \in Workers,
             \/ LockFileLock(v) \/ UnlockFileLock(v) \/ YieldQueue(v)
             \/ CondWait(v) \/ Reacquire(v)
       PROVE  pc[w] \in Asleep /\ request'[w] = request[w]
    BY <2>3 DEF LockFileLock, UnlockFileLock, YieldQueue, CondWait, Reacquire
  <2>4. ASSUME NEW v \in Workers,
             Create(v)
       PROVE  pc[w] \in Asleep /\ request'[w] = request[w]
    BY <2>4 DEF Create
  <2>5. ASSUME NEW v \in Workers,
             Unlock(v) \/ Broadcast(v)
       PROVE  pc[w] \in Asleep /\ request'[w] = request[w]
    BY <2>5 DEF Unlock, Broadcast
  <2>6. ASSUME NEW v \in Workers,
             Delete(v) \/ CloseFile(v) \/ Read(v) \/ ReadN(v)
       PROVE  pc[w] \in Asleep /\ request'[w] = request[w]
    BY <2>6 DEF Delete, CloseFile, Read, ReadN
  <2>7. ASSUME NEW v \in Workers,
             MakeRoom(v) \/ CheckLock(v) \/ Store(v)
       PROVE  pc[w] \in Asleep /\ request'[w] = request[w]
    BY <2>7 DEF MakeRoom, CheckLock, Store
  <2>8. ASSUME NEW v \in Workers,
             Expel(v) \/ SendVictim(v) \/ RemoveVictim(v) \/ RemoveGarbage(v)
       PROVE  pc[w] \in Asleep /\ request'[w] = request[w]
    BY <2>8 DEF Expel, SendVictim, RemoveVictim, RemoveGarbage
  <2>9. ASSUME NEW v \in Workers,
             \/ \E c \in Clients : Connect(v, c)
             \/ \E r \in Requests : Receive(v, r)
       PROVE  pc[w] \in Asleep /\ request'[w] = request[w]
    BY <2>9 DEF Connect, Receive
  <2>10. ASSUME \/ \E c \in Clients : ClientDies(c)
                \/ \E sig \in Signals : Signal(sig)
                \/ WakeFiles
                \/ UNCHANGED vars
         PROVE  pc[w] \in Asleep /\ request'[w] = request[w]
    BY <2>10 DEF ClientDies, Signal, WakeFiles, vars
  <2> HIDE DEF TypeInv, TypeOK, Goto, session, Asleep
  <2> QED
    BY NextCases, <2>1, <2>2, <2>3, <2>4, <2>5, <2>6, <2>7, <2>8, <2>9, <2>10
<1>2. ASSUME NEW v \in Workers, Try(v), pc[w] \notin Asleep
      PROVE  /\ request'[w] = request[w]
             /\ Try(w) /\ TryStatus(w) = -2 /\ UNCHANGED fileQueue
  <2>1. v = w /\ request' = request
    BY <1>2 DEF Try, session
  <2>2. TryStatus(w) = -2
    BY <1>2, <2>1 DEF Try
  <2> QED
    BY <1>2, <2>1, <2>2 DEF Try
<1>3. ASSUME NEW v \in Workers, Try(v), pc[w] \in Asleep
      PROVE  request'[w] = request[w]
  BY <1>3 DEF Try, session
<1> QED
  BY <1>1, <1>2, <1>3

\* A worker leaves broadcast only by waking every worker that waits, at a
\* moment when nobody is on the way to sleep.
LEMMA BroadcastWakesAll ==
    ASSUME TypeInv, FileLockHeld, Next, NEW v \in Workers,
           pc[v] = "broadcast", pc'[v] # "broadcast"
    PROVE  \A w \in Workers : pc[w] \in Asleep => pc'[w] \notin Asleep
<1> USE DEF TypeInv, TypeOK, Goto
<1>1. \E w \in Workers : Broadcast(w)
  <2>1. ASSUME NEW w \in Workers,
             \/ LockQueue(w) \/ Reply(w) \/ Reject(w)
             \/ Sigpipe(w) \/ ReceiveFails(w)
       PROVE  FALSE
    BY <2>1 DEF LockQueue, Reply, Reject, Sigpipe, ReceiveFails
  <2>2. ASSUME NEW w \in Workers,
             Retire(w) \/ Hangup(w) \/ SpuriousWakeup(w)
       PROVE  FALSE
    BY <2>2 DEF Retire, Hangup, SpuriousWakeup
  <2>3. ASSUME NEW w \in Workers,
             \/ LockFileLock(w) \/ UnlockFileLock(w) \/ YieldQueue(w)
             \/ CondWait(w) \/ Reacquire(w)
       PROVE  FALSE
    BY <2>3 DEF LockFileLock, UnlockFileLock, YieldQueue, CondWait, Reacquire
  <2>4. ASSUME NEW w \in Workers,
             Try(w) \/ Create(w)
       PROVE  FALSE
    BY <2>4 DEF Try, Create
  <2>5. ASSUME NEW w \in Workers,
             Unlock(w)
       PROVE  FALSE
    BY <2>5 DEF Unlock
  <2>6. ASSUME NEW w \in Workers,
             Delete(w) \/ CloseFile(w) \/ Read(w) \/ ReadN(w)
       PROVE  FALSE
    BY <2>6 DEF Delete, CloseFile, Read, ReadN
  <2>7. ASSUME NEW w \in Workers,
             MakeRoom(w) \/ CheckLock(w) \/ Store(w)
       PROVE  FALSE
    BY <2>7 DEF MakeRoom, CheckLock, Store
  <2>8. ASSUME NEW w \in Workers,
             Expel(w) \/ SendVictim(w) \/ RemoveVictim(w) \/ RemoveGarbage(w)
       PROVE  FALSE
    BY <2>8 DEF Expel, SendVictim, RemoveVictim, RemoveGarbage
  <2>9. ASSUME NEW w \in Workers,
             \/ \E c \in Clients : Connect(w, c)
             \/ \E r \in Requests : Receive(w, r)
       PROVE  FALSE
    BY <2>9 DEF Connect, Receive
  <2>10. ASSUME \/ \E c \in Clients : ClientDies(c)
                \/ \E sig \in Signals : Signal(sig)
                \/ WakeFiles
                \/ UNCHANGED vars
         PROVE  FALSE
    BY <2>10 DEF ClientDies, Signal, WakeFiles, vars
  <2> HIDE DEF TypeInv, TypeOK, Goto
  <2> QED
    BY NextCases, <2>1, <2>2, <2>3, <2>4, <2>5, <2>6, <2>7, <2>8, <2>9, <2>10
<1> QED
  BY <1>1 DEF Broadcast, Asleep, FileLockHeld, HoldsFileLock

LEMMA WakeupStep ==
    ASSUME CreatorsLock, Safe, Safe', NoLostWakeup, [Next]_vars
    PROVE  NoLostWakeup'
<1>t. /\ TypeInv /\ FileLockHeld /\ Unique(fileQueue)
      /\ fileQueue \in Storage /\ fileQueue' \in Storage
  BY DEF Safe, LockInv, TypeInv, TypeOK, Storage
<1>1. CASE UNCHANGED vars
  BY <1>1 DEF vars, NoLostWakeup, LockOf, File
<1>2. CASE Next
  <2> SUFFICES ASSUME NEW w \in Workers, pc'[w] \in Asleep,
                      LockIn(fileQueue', request'[w].file) = NoClient
               PROVE  \E v \in Workers : pc'[v] = "broadcast"
    BY DEF NoLostWakeup, Asleep, LockOf, File
  <2>1. /\ request'[w] = request[w]
        /\ \/ pc[w] \in Asleep
           \/ Try(w) /\ TryStatus(w) = -2 /\ UNCHANGED fileQueue
    BY <1>t, <1>2, AsleepArrival
  <2>2. CASE pc[w] \in Asleep /\ LockOf(File(w)) = NoClient
    <3>1. PICK v \in Workers : pc[v] = "broadcast"
      BY <2>2 DEF NoLostWakeup, Asleep
    <3>2. pc'[v] = "broadcast"
      BY <1>t, <1>2, <2>2, <3>1, BroadcastWakesAll
    <3> QED
      BY <3>2
  <2>3. CASE pc[w] \in Asleep /\ LockOf(File(w)) # NoClient
    <3>1. LockIn(fileQueue', File(w)) # LockIn(fileQueue, File(w))
      BY <2>1, <2>3 DEF LockOf, File
    <3>2. LockIn(fileQueue', File(w)) = NoClient
      BY <2>1 DEF File
    <3>3. ASSUME NEW f, NEW from, NEW to, MovesLock(f, from, to)
          PROVE  to = NoClient
      BY <3>1, <3>2, <3>3 DEF MovesLock, Moves
    <3>4. ~SameLocks
      BY <3>1 DEF SameLocks, LockOf
    <3>5. ASSUME NEW v \in Workers, Create(v) PROVE FALSE
      <4> DEFINE n == NewNode(File(v), request[v].flags, client[v])
      <4>1. pc[v] = "create" /\ fileQueue' = Append(fileQueue, n)
        BY <3>5 DEF Create
      <4>2. request[v] \in Requests /\ client[v] \in Clients
        BY <1>t, <4>1 DEF TypeInv, Sessions, Busy, Critical
      <4>3. "O_LOCK" \in request[v].flags
        BY <4>1, <4>2 DEF CreatorsLock, Safe, LockInv, CreateReady, Op
      <4>4. /\ n \in FileNode /\ n.pathname = File(v) /\ n.isOpen = TRUE
            /\ n.client_id = client[v]
        BY <4>2, <4>3, RequestFields DEF NewNode, FileNode, File
      <4>5. ~Found(fileQueue, File(v))
        BY <4>1 DEF Safe, LockInv, CreateReady
      <4> HIDE DEF n
      <4>6. Moves(fileQueue, Append(fileQueue, n), File(v), client[v])
        BY <1>t, <4>4, <4>5, PushMoves
      <4> QED
        BY <3>1, <3>2, <4>1, <4>2, <4>6 DEF Moves
    <3>6. ASSUME NEW v \in Workers, Try(v)
          PROVE  client[v] # NoClient
      BY <3>6, <1>t DEF Try, TypeInv, Sessions, Busy, Critical
    <3>7. Absent # NoClient /\ Closed # NoClient
      OBVIOUS
    <3> QED
      BY <1>t, <1>2, StepOfStorage, <3>3, <3>4, <3>5, <3>6, <3>7
         DEF StorageStep
  <2>4. CASE Try(w) /\ TryStatus(w) = -2 /\ UNCHANGED fileQueue
    <3>1. LockStatus(fileQueue, File(w), client[w]) = -2
      BY <2>4 DEF TryStatus, OpenStatus
    <3>2. /\ Usable(fileQueue, File(w))
          /\ Node(fileQueue, File(w)).client_id # NoClient
      BY <3>1 DEF LockStatus
    <3>3. LockIn(fileQueue', File(w)) # NoClient
      BY <2>4, <3>2 DEF LockIn, Usable
    <3> QED
      BY <2>1, <3>3 DEF File
  <2> QED
    BY <2>1, <2>2, <2>3, <2>4
<1> QED
  BY <1>1, <1>2

\* When every creator locks what it creates, a worker asleep on a file that
\* anybody could lock is about to be woken.
THEOREM NoWakeupIsLost == CreatorsLock => (Spec => []NoLostWakeup)
<1> SUFFICES ASSUME CreatorsLock PROVE Spec => []NoLostWakeup
  OBVIOUS
<1>1. Init => NoLostWakeup
  BY DEF Init, NoLostWakeup
<1>2. Safe /\ Safe' /\ NoLostWakeup /\ [Next]_vars => NoLostWakeup'
  BY WakeupStep
<1> QED
  BY <1>1, <1>2, SafeAlways, PTL DEF Spec

-----------------------------------------------------------------------------
(* The handlers implement the lock table                                   *)

lockBar == [f \in Files |-> LockOf(f)]

LEMMA BarMoves ==
    ASSUME NEW f \in Files, NEW from, NEW to, MovesLock(f, from, to)
    PROVE  /\ lockBar[f] \in from
           /\ lockBar' = [lockBar EXCEPT ![f] = to]
<1>1. \A g \in Files :
         LockIn(fileQueue', g) = IF g = f THEN to ELSE LockIn(fileQueue, g)
  BY DEF MovesLock, Moves
<1>2. lockBar' = [g \in Files |-> LockIn(fileQueue', g)]
  BY DEF lockBar, LockOf
<1>3. lockBar = [g \in Files |-> LockIn(fileQueue, g)]
  BY DEF lockBar, LockOf
<1>4. LockOf(f) \in from
  BY DEF MovesLock
<1> QED
  BY <1>1, <1>2, <1>3, <1>4 DEF LockOf

LEMMA LockTableInit == Init => Locks!Init
<1> SUFFICES ASSUME Init PROVE Locks!Init
  OBVIOUS
<1>1. \A f : ~Found(fileQueue, f)
  BY DEF Init, Found
<1> QED
  BY <1>1 DEF Locks!Init, LockOf, LockIn

LEMMA LockTableStep ==
    ASSUME Safe, [Next]_vars
    PROVE  [Locks!Next]_lockBar
<1>1. CASE UNCHANGED vars
  BY <1>1 DEF vars, lockBar, LockOf
<1>2. CASE Next
  <2>t. TypeInv /\ FileLockHeld /\ Unique(fileQueue) /\ fileQueue \in Storage
    BY DEF Safe, LockInv, TypeInv, TypeOK, Storage
  <2>1. CASE SameLocks
    BY <2>1 DEF SameLocks, lockBar, LockOf
  <2>2. ASSUME NEW w \in Workers, Create(w) PROVE Locks!Next
    <3> DEFINE n == NewNode(File(w), request[w].flags, client[w])
               f == File(w)
    <3>1. pc[w] = "create" /\ fileQueue' = Append(fileQueue, n)
      BY <2>2 DEF Create
    <3>2. request[w] \in Requests /\ client[w] \in Clients
      BY <2>t, <3>1 DEF TypeInv, Sessions, Busy, Critical
    <3>3. /\ n \in FileNode /\ n.pathname = f /\ n.isOpen = TRUE
          /\ n.client_id \in Clients \cup {NoClient} /\ f \in Files
      BY <3>2, RequestFields DEF NewNode, FileNode, File
    <3>4. ~Found(fileQueue, f)
      BY <3>1 DEF Safe, LockInv, CreateReady
    <3> HIDE DEF n, f
    <3>5. Moves(fileQueue, fileQueue', f, n.client_id)
      BY <2>t, <3>1, <3>3, <3>4, PushMoves
    <3>6. LockOf(f) = Absent
      BY <3>4 DEF LockOf, LockIn
    <3>7. /\ lockBar[f] = Absent
          /\ lockBar' = [lockBar EXCEPT ![f] = n.client_id]
      <4>1. \A g \in Files : LockIn(fileQueue', g) =
               IF g = f THEN n.client_id ELSE LockIn(fileQueue, g)
        BY <3>5 DEF Moves
      <4> QED
        BY <4>1, <3>3, <3>6 DEF lockBar, LockOf
    <3> QED
      BY <3>3, <3>7 DEF Locks!Next, Locks!Create, Locks!Move, lockBar
  <2>3. ASSUME NEW w \in Workers, Try(w),
               MovesLock(File(w), {NoClient, client[w]}, client[w])
        PROVE  [Locks!Next]_lockBar
    <3> DEFINE f == File(w)
               c == client[w]
    <3>1. c \in Clients /\ f \in Files
      BY <2>3, <2>t DEF Try, TypeInv, Sessions, Busy, Critical, MovesLock
    <3>2. lockBar[f] \in {NoClient, c} /\ lockBar' = [lockBar EXCEPT ![f] = c]
      BY <2>3, <3>1, BarMoves
    <3> HIDE DEF f, c
    <3>3. CASE lockBar[f] = NoClient
      BY <3>1, <3>2, <3>3 DEF Locks!Next, Locks!Acquire, Locks!Move, lockBar
    <3>4. CASE lockBar[f] = c
      <4>1. lockBar' = lockBar
        BY <3>1, <3>2, <3>4 DEF lockBar
      <4> QED
        BY <4>1
    <3> QED
      BY <3>2, <3>3, <3>4
  <2>4. ASSUME NEW w \in Workers, Unlock(w),
               MovesLock(File(w), {NoClient, client[w]}, NoClient)
        PROVE  [Locks!Next]_lockBar
    <3> DEFINE f == File(w)
               c == client[w]
    <3>1. c \in Clients /\ f \in Files
      BY <2>4, <2>t DEF Unlock, TypeInv, Sessions, Busy, Critical, MovesLock
    <3>2. /\ lockBar[f] \in {NoClient, c}
          /\ lockBar' = [lockBar EXCEPT ![f] = NoClient]
      BY <2>4, <3>1, BarMoves
    <3> HIDE DEF f, c
    <3>3. CASE lockBar[f] = c
      BY <3>1, <3>2, <3>3 DEF Locks!Next, Locks!Release, Locks!Move, lockBar
    <3>4. CASE lockBar[f] = NoClient
      <4>1. lockBar' = lockBar
        BY <3>1, <3>2, <3>4 DEF lockBar
      <4> QED
        BY <4>1
    <3> QED
      BY <3>2, <3>3, <3>4
  <2>5. ASSUME NEW f \in Files,
               MovesLock(f, Clients \cup {NoClient, Closed}, Absent)
        PROVE  Locks!Next
    <3>1. /\ lockBar[f] \in Clients \cup {NoClient, Closed}
          /\ lockBar' = [lockBar EXCEPT ![f] = Absent]
      BY <2>5, BarMoves
    <3> QED
      BY <3>1 DEF Locks!Next, Locks!Remove, Locks!Move, lockBar
  <2>6. ASSUME NEW f \in Files, MovesLock(f, Clients, Closed)
        PROVE  Locks!Next
    <3>1. lockBar[f] \in Clients /\ lockBar' = [lockBar EXCEPT ![f] = Closed]
      BY <2>6, BarMoves
    <3> QED
      BY <3>1 DEF Locks!Next, Locks!Close, Locks!Move, lockBar
  <2> QED
    BY <1>2, <2>t, StepOfStorage, <2>1, <2>2, <2>3, <2>4, <2>5, <2>6
       DEF StorageStep
<1> QED
  BY <1>1, <1>2

\* Whatever the workers interleave, a lock passes from one client to another
\* only through its release or the disappearance of the file.
THEOREM LocksAreNotStolen == Spec => ImplementsLockTable
<1>1. Init => Locks!Init
  BY LockTableInit
<1>2. Safe /\ [Next]_vars => [Locks!Next]_lockBar
  BY LockTableStep
<1> QED
  BY <1>1, <1>2, SafeAlways, PTL
     DEF Spec, ImplementsLockTable, Locks!Spec, lockBar

-----------------------------------------------------------------------------
(* file_queue_mutex, when nobody waits for a file lock                     *)

QueueHeld ==
    \A w \in Workers :
        /\ pc[w] \in Critical => file_queue_mutex = w
        /\ pc[w] \notin Blocked \cup {"yieldQueue"}

\* No request of the workload can find the file locked and wait.
LEMMA NeverMustWait ==
    ASSUME NoLockWaits, TypeInv, NEW w \in Workers, pc[w] = "try"
    PROVE  TryStatus(w) # -2
<1>1. /\ request[w] \in Requests
      /\ Op(w) \in {"OP_OPEN_FILE", "OP_LOCK_FILE"}
  BY DEF TypeInv, Sessions, Busy, Critical, Opening, HoldsFileLock
<1>2. ~MayWait(request[w])
  BY <1>1 DEF NoLockWaits
<1>3. /\ Op(w) = "OP_OPEN_FILE"
      /\ "O_LOCK" \in request[w].flags => "O_CREATE" \in request[w].flags
  BY <1>1, <1>2 DEF MayWait, Op
<1> QED
  BY <1>3 DEF TryStatus, OpenStatus

LEMMA QueueStep ==
    ASSUME NoLockWaits, TypeInv, QueueHeld, [Next]_vars
    PROVE  QueueHeld'
<1> USE DEF TypeOK, TypeInv, QueueHeld, Critical, Blocked, Goto, mutexes
<1>1. ASSUME NEW v \in Workers,
             \/ LockQueue(v) \/ Reply(v) \/ Reject(v)
             \/ Sigpipe(v) \/ ReceiveFails(v)
      PROVE  QueueHeld'
  BY <1>1 DEF LockQueue, Reply, Reject, Sigpipe, ReceiveFails
<1>2. ASSUME NEW v \in Workers,
             Retire(v) \/ Hangup(v) \/ SpuriousWakeup(v)
      PROVE  QueueHeld'
  BY <1>2 DEF Retire, Hangup, SpuriousWakeup
<1>3. ASSUME NEW v \in Workers,
             \/ LockFileLock(v) \/ UnlockFileLock(v) \/ YieldQueue(v)
             \/ CondWait(v) \/ Reacquire(v)
      PROVE  QueueHeld'
  BY <1>3 DEF LockFileLock, UnlockFileLock, YieldQueue, CondWait, Reacquire
<1>4. ASSUME NEW v \in Workers,
             Create(v)
      PROVE  QueueHeld'
  BY <1>4 DEF Create
<1>5. ASSUME NEW v \in Workers,
             Unlock(v) \/ Broadcast(v)
      PROVE  QueueHeld'
  BY <1>5 DEF Unlock, Broadcast
<1>6. ASSUME NEW v \in Workers,
             Delete(v) \/ CloseFile(v) \/ Read(v) \/ ReadN(v)
      PROVE  QueueHeld'
  BY <1>6 DEF Delete, CloseFile, Read, ReadN
<1>7. ASSUME NEW v \in Workers,
             MakeRoom(v) \/ CheckLock(v) \/ Store(v)
      PROVE  QueueHeld'
  BY <1>7 DEF MakeRoom, CheckLock, Store
<1>8. ASSUME NEW v \in Workers,
             Expel(v) \/ SendVictim(v) \/ RemoveVictim(v) \/ RemoveGarbage(v)
      PROVE  QueueHeld'
  BY <1>8 DEF Expel, SendVictim, RemoveVictim, RemoveGarbage
<1>9. ASSUME NEW v \in Workers,
             \/ \E c \in Clients : Connect(v, c)
             \/ \E r \in Requests : Receive(v, r)
      PROVE  QueueHeld'
  BY <1>9 DEF Connect, Receive
<1>10. ASSUME \/ \E c \in Clients : ClientDies(c)
              \/ \E sig \in Signals : Signal(sig)
              \/ WakeFiles
              \/ UNCHANGED vars
       PROVE  QueueHeld'
  BY <1>10 DEF ClientDies, Signal, WakeFiles, vars
<1>11. ASSUME NEW w \in Workers, Try(w) PROVE QueueHeld'
  <2>1. TryStatus(w) # -2
    BY <1>11, NeverMustWait DEF Try
  <2> QED
    BY <1>11, <2>1 DEF Try
<1> QED
  <2> HIDE DEF TypeOK, TypeInv, QueueHeld, Critical, Blocked, Goto, mutexes
  <2> QED
    BY NextCases, <1>1, <1>2, <1>3, <1>4, <1>5, <1>6, <1>7, <1>8, <1>9,
       <1>10, <1>11

LEMMA QueueAlways == NoLockWaits => (Spec => [](Safe /\ QueueHeld))
<1> SUFFICES ASSUME NoLockWaits PROVE Spec => [](Safe /\ QueueHeld)
  OBVIOUS
<1>1. Init => QueueHeld
  BY DEF Init, QueueHeld, Critical, Blocked
<1>2. Safe /\ QueueHeld /\ [Next]_vars => QueueHeld'
  BY QueueStep DEF Safe
<1> QED
  BY <1>1, <1>2, SafeAlways, PTL DEF Spec

\* As long as no request waits for a file lock, the handlers exclude each
\* other from lock to unlock of file_queue_mutex.
THEOREM HandlersExclude == NoLockWaits => (Spec => []QueueExclusion)
<1> SUFFICES ASSUME NoLockWaits PROVE Spec => []QueueExclusion
  OBVIOUS
<1>1. QueueHeld => QueueExclusion
  BY DEF QueueHeld, QueueExclusion
<1> QED
  BY QueueAlways, <1>1, PTL

UnlockSafe ==
    file_queue_mutex' = NoThread /\ file_queue_mutex # NoThread
    => pc'[file_queue_mutex] # pc[file_queue_mutex]

LEMMA UnlockStep ==
    ASSUME Safe, QueueHeld, [Next]_vars
    PROVE  UnlockSafe
<1> USE DEF UnlockSafe, Safe, TypeInv, TypeOK, QueueHeld, Critical, Blocked,
            Goto, mutexes
<1> QED
  <2>1. ASSUME NEW v \in Workers,
               \/ LockQueue(v) \/ Reply(v) \/ Reject(v)
               \/ Sigpipe(v) \/ ReceiveFails(v)
        PROVE  UnlockSafe
    BY <2>1 DEF LockQueue, Reply, Reject, Sigpipe, ReceiveFails
  <2>2. ASSUME NEW v \in Workers,
               Retire(v) \/ Hangup(v) \/ SpuriousWakeup(v)
        PROVE  UnlockSafe
    BY <2>2 DEF Retire, Hangup, SpuriousWakeup
  <2>3. ASSUME NEW v \in Workers,
               \/ LockFileLock(v) \/ UnlockFileLock(v) \/ YieldQueue(v)
               \/ CondWait(v) \/ Reacquire(v)
        PROVE  UnlockSafe
    BY <2>3 DEF LockFileLock, UnlockFileLock, YieldQueue, CondWait, Reacquire
  <2>4. ASSUME NEW v \in Workers,
               Try(v) \/ Create(v)
        PROVE  UnlockSafe
    BY <2>4 DEF Try, Create
  <2>5. ASSUME NEW v \in Workers,
               Unlock(v) \/ Broadcast(v)
        PROVE  UnlockSafe
    BY <2>5 DEF Unlock, Broadcast
  <2>6. ASSUME NEW v \in Workers,
               Delete(v) \/ CloseFile(v) \/ Read(v) \/ ReadN(v)
        PROVE  UnlockSafe
    BY <2>6 DEF Delete, CloseFile, Read, ReadN
  <2>7. ASSUME NEW v \in Workers,
               MakeRoom(v) \/ CheckLock(v) \/ Store(v)
        PROVE  UnlockSafe
    BY <2>7 DEF MakeRoom, CheckLock, Store
  <2>8. ASSUME NEW v \in Workers,
               Expel(v) \/ SendVictim(v) \/ RemoveVictim(v) \/ RemoveGarbage(v)
        PROVE  UnlockSafe
    BY <2>8 DEF Expel, SendVictim, RemoveVictim, RemoveGarbage
  <2>9. ASSUME NEW v \in Workers,
               \/ \E c \in Clients : Connect(v, c)
               \/ \E r \in Requests : Receive(v, r)
        PROVE  UnlockSafe
    BY <2>9 DEF Connect, Receive
  <2>10. ASSUME \/ \E c \in Clients : ClientDies(c)
                \/ \E sig \in Signals : Signal(sig)
                \/ WakeFiles
                \/ UNCHANGED vars
         PROVE  UnlockSafe
    BY <2>10 DEF ClientDies, Signal, WakeFiles, vars
  <2> HIDE DEF UnlockSafe, Safe, TypeInv, TypeOK, QueueHeld, Critical,
               Blocked, Goto, mutexes
  <2> QED
    BY NextCases, <2>1, <2>2, <2>3, <2>4, <2>5, <2>6, <2>7, <2>8, <2>9, <2>10

\* ... and the thread that gives the mutex back is the one that locked it.
THEOREM OwnersUnlock == NoLockWaits => (Spec => UnlockedByOwner)
<1> SUFFICES ASSUME NoLockWaits PROVE Spec => UnlockedByOwner
  OBVIOUS
<1>1. Safe /\ QueueHeld /\ [Next]_vars => [UnlockSafe]_vars
  BY UnlockStep
<1> QED
  BY QueueAlways, <1>1, PTL DEF Spec, UnlockedByOwner, UnlockSafe

\* How a worker may be at receive after a step.
ReceiveFrom(w) ==
    pc'[w] = "receive" =>
        /\ client'[w] = client[w] /\ request'[w] = request[w]
        /\ \/ /\ UNCHANGED fileQueue
              /\ pc[w] = "receive" \/ HasFileLock(fileQueue, File(w), client[w])
           \/ /\ pc[w] = "receive"
              /\ \E v \in Workers : v # w /\ pc[v] \in Critical

LEMMA ReceiveStep ==
    ASSUME TypeInv, [Next]_vars, NEW w \in Workers
    PROVE  ReceiveFrom(w)
<1> USE DEF TypeOK, TypeInv, ReceiveFrom, Critical, Goto, session
<1>1. ASSUME NEW v \in Workers,
             \/ LockQueue(v) \/ Reply(v) \/ Reject(v)
             \/ Sigpipe(v) \/ ReceiveFails(v)
      PROVE  ReceiveFrom(w)
  BY <1>1 DEF LockQueue, Reply, Reject, Sigpipe, ReceiveFails
<1>2. ASSUME NEW v \in Workers,
             Retire(v) \/ Hangup(v) \/ SpuriousWakeup(v)
      PROVE  ReceiveFrom(w)
  BY <1>2 DEF Retire, Hangup, SpuriousWakeup
<1>3. ASSUME NEW v \in Workers,
             \/ LockFileLock(v) \/ UnlockFileLock(v) \/ YieldQueue(v)
             \/ CondWait(v) \/ Reacquire(v)
      PROVE  ReceiveFrom(w)
  BY <1>3 DEF LockFileLock, UnlockFileLock, YieldQueue, CondWait, Reacquire
<1>4. ASSUME NEW v \in Workers,
             Try(v) \/ Create(v)
      PROVE  ReceiveFrom(w)
  BY <1>4 DEF Try, Create
<1>5. ASSUME NEW v \in Workers,
             Unlock(v) \/ Broadcast(v)
      PROVE  ReceiveFrom(w)
  BY <1>5 DEF Unlock, Broadcast
<1>6. ASSUME NEW v \in Workers,
             Delete(v) \/ CloseFile(v) \/ Read(v) \/ ReadN(v)
      PROVE  ReceiveFrom(w)
  BY <1>6 DEF Delete, CloseFile, Read, ReadN
<1>7. ASSUME NEW v \in Workers,
             MakeRoom(v) \/ CheckLock(v) \/ Store(v)
      PROVE  ReceiveFrom(w)
  BY <1>7 DEF MakeRoom, CheckLock, Store
<1>8. ASSUME NEW v \in Workers,
             Expel(v) \/ SendVictim(v) \/ RemoveVictim(v) \/ RemoveGarbage(v)
      PROVE  ReceiveFrom(w)
  BY <1>8 DEF Expel, SendVictim, RemoveVictim, RemoveGarbage
<1>9. ASSUME NEW v \in Workers,
             \/ \E c \in Clients : Connect(v, c)
             \/ \E r \in Requests : Receive(v, r)
      PROVE  ReceiveFrom(w)
  BY <1>9 DEF Connect, Receive
<1>10. ASSUME \/ \E c \in Clients : ClientDies(c)
              \/ \E sig \in Signals : Signal(sig)
              \/ WakeFiles
              \/ UNCHANGED vars
       PROVE  ReceiveFrom(w)
  BY <1>10 DEF ClientDies, Signal, WakeFiles, vars
<1> QED
  <2> HIDE DEF TypeOK, TypeInv, ReceiveFrom, Critical, Goto, session
  <2> QED
    BY NextCases, <1>1, <1>2, <1>3, <1>4, <1>5, <1>6, <1>7, <1>8, <1>9, <1>10

LEMMA WriterStep ==
    ASSUME Safe, QueueHeld, WriterKeepsFile, [Next]_vars
    PROVE  WriterKeepsFile'
<1> SUFFICES ASSUME NEW w \in Workers, pc'[w] = "receive"
             PROVE  HasFileLock(fileQueue', request'[w].file, client'[w])
  BY DEF WriterKeepsFile, File
<1>1. ReceiveFrom(w)
  BY ReceiveStep DEF Safe
<1>2. pc[w] = "receive" => HasFileLock(fileQueue, File(w), client[w])
  BY DEF WriterKeepsFile
<1>3. ASSUME pc[w] = "receive", NEW v \in Workers, pc[v] \in Critical
      PROVE  v = w
  BY <1>3 DEF QueueHeld, Critical
<1> QED
  BY <1>1, <1>2, <1>3 DEF ReceiveFrom, File

\* ... so a file cannot be evicted, deleted or locked by somebody else between
\* the lock check of a write and the moment its data is stored.
THEOREM WritersKeepTheirFile == NoLockWaits => (Spec => []WriterKeepsFile)
<1> SUFFICES ASSUME NoLockWaits PROVE Spec => []WriterKeepsFile
  OBVIOUS
<1>1. Init => WriterKeepsFile
  BY DEF Init, WriterKeepsFile
<1>2. Safe /\ QueueHeld /\ WriterKeepsFile /\ [Next]_vars => WriterKeepsFile'
  BY WriterStep
<1> QED
  BY <1>1, <1>2, QueueAlways, PTL DEF Spec

-----------------------------------------------------------------------------
(* The status a lock is answered with                                      *)

\* A client has one connection, and one worker serves it.
ClientsApart ==
    \A v, w \in Workers : client[v] = client[w] /\ client[v] # NoClient => v = w

LEMMA ApartStep ==
    ASSUME TypeInv, ClientsApart, [Next]_vars
    PROVE  ClientsApart'
<1> USE DEF TypeInv, TypeOK, ClientsApart
<1>1. ASSUME NEW v \in Workers, Hangup(v) PROVE ClientsApart'
  BY <1>1 DEF Hangup
<1>2. ASSUME NEW v \in Workers, NEW c \in Clients, Connect(v, c)
      PROVE  ClientsApart'
  BY <1>2 DEF Connect
<1>3. ASSUME NEW v \in Workers, NEW r \in Requests, Receive(v, r)
      PROVE  ClientsApart'
  BY <1>3 DEF Receive
<1>4. CASE UNCHANGED client
  BY <1>4
<1> USE DEF session
<1>5. ASSUME NEW v \in Workers,
             \/ LockQueue(v) \/ Reply(v) \/ Reject(v)
             \/ Sigpipe(v) \/ ReceiveFails(v) \/ Retire(v) \/ SpuriousWakeup(v)
      PROVE  UNCHANGED client
  BY <1>5 DEF LockQueue, Reply, Reject, Sigpipe, ReceiveFails, Retire,
     SpuriousWakeup
<1>6. ASSUME NEW v \in Workers, OpenOrLock(v)
      PROVE  UNCHANGED client
  BY <1>6 DEF OpenOrLock, LockFileLock, Try, Create, UnlockFileLock,
     YieldQueue, CondWait, Reacquire
<1>7. ASSUME NEW v \in Workers, Serve(v)
      PROVE  UNCHANGED client
  BY <1>7 DEF Serve, Unlock, Broadcast, Delete, CloseFile, Read, ReadN
<1>8. ASSUME NEW v \in Workers, WriteOrAppend(v)
      PROVE  UNCHANGED client
  BY <1>8 DEF WriteOrAppend, MakeRoom, Expel, SendVictim, RemoveVictim,
     RemoveGarbage, CheckLock, Store, ReceiveFails
<1>9. ASSUME \/ \E c \in Clients : ClientDies(c)
             \/ \E sig \in Signals : Signal(sig)
             \/ WakeFiles
             \/ UNCHANGED vars
      PROVE  UNCHANGED client
  BY <1>9 DEF ClientDies, Signal, WakeFiles, vars
<1> QED
  <2> HIDE DEF TypeInv, TypeOK, ClientsApart, session
  <2> QED
    BY NextCases, <1>1, <1>2, <1>3, <1>4, <1>5, <1>6, <1>7, <1>8, <1>9
       DEF OpenOrLock, Serve, WriteOrAppend

\* How a worker may be at a grant after a step.
GrantFrom(w) ==
    pc'[w] \in {"unlockFile", "reply"} /\ status'[w] = 0
    /\ AsksLock(request'[w]) =>
          /\ client'[w] = client[w] /\ request'[w] = request[w]
          /\ Granted(w) \/ Try(w) \/ Create(w)

LEMMA GrantArrival ==
    ASSUME TypeInv, [Next]_vars, NEW w \in Workers
    PROVE  GrantFrom(w)
<1> USE DEF TypeOK, TypeInv, GrantFrom, Granted, AsksLock, Goto,
            Answer, Op, session
<1>1. ASSUME NEW v \in Workers,
             \/ LockQueue(v) \/ Reply(v) \/ Reject(v)
             \/ Sigpipe(v) \/ ReceiveFails(v)
      PROVE  GrantFrom(w)
  BY <1>1 DEF LockQueue, Reply, Reject, Sigpipe, ReceiveFails
<1>2. ASSUME NEW v \in Workers,
             Retire(v) \/ Hangup(v) \/ SpuriousWakeup(v)
      PROVE  GrantFrom(w)
  BY <1>2 DEF Retire, Hangup, SpuriousWakeup
<1>3. ASSUME NEW v \in Workers,
             \/ LockFileLock(v) \/ UnlockFileLock(v) \/ YieldQueue(v)
             \/ CondWait(v) \/ Reacquire(v)
      PROVE  GrantFrom(w)
  BY <1>3 DEF LockFileLock, UnlockFileLock, YieldQueue, CondWait, Reacquire
<1>4. ASSUME NEW v \in Workers, Try(v) \/ Create(v)
      PROVE  GrantFrom(w)
  <2>1. CASE v = w
    BY <1>4, <2>1 DEF Try, Create
  <2>2. CASE v # w
    BY <1>4, <2>2 DEF Try, Create
  <2> QED
    BY <2>1, <2>2
<1>5. ASSUME NEW v \in Workers, Unlock(v) \/ Broadcast(v)
      PROVE  GrantFrom(w)
  <2>1. pc[v] = "broadcast" => Op(v) = "OP_UNLOCK_FILE"
    BY DEF Sessions
  <2> QED
    BY <1>5, <2>1 DEF Unlock, Broadcast
<1>6. ASSUME NEW v \in Workers,
             Delete(v) \/ CloseFile(v) \/ Read(v) \/ ReadN(v)
      PROVE  GrantFrom(w)
  BY <1>6 DEF Delete, CloseFile, Read, ReadN
<1>7. ASSUME NEW v \in Workers,
             MakeRoom(v) \/ CheckLock(v) \/ Store(v)
      PROVE  GrantFrom(w)
  <2>1. pc[v] \in Writing => Op(v) \in {"OP_WRITE_FILE", "OP_APPEND_FILE"}
    BY DEF Sessions
  <2> QED
    BY <1>7, <2>1 DEF MakeRoom, CheckLock, Store, Writing
<1>8. ASSUME NEW v \in Workers,
             \/ Expel(v) \/ SendVictim(v)
             \/ RemoveVictim(v) \/ RemoveGarbage(v)
      PROVE  GrantFrom(w)
  BY <1>8 DEF Expel, SendVictim, RemoveVictim, RemoveGarbage
<1>9. ASSUME NEW v \in Workers,
             \/ \E c \in Clients : Connect(v, c)
             \/ \E r \in Requests : Receive(v, r)
      PROVE  GrantFrom(w)
  BY <1>9 DEF Connect, Receive
<1>10. ASSUME \/ \E c \in Clients : ClientDies(c)
              \/ \E sig \in Signals : Signal(sig)
              \/ WakeFiles
              \/ UNCHANGED vars
       PROVE  GrantFrom(w)
  BY <1>10 DEF ClientDies, Signal, WakeFiles, vars
<1> QED
  <2> HIDE DEF TypeOK, TypeInv, GrantFrom, Granted, AsksLock, Goto,
               Answer, Op, session
  <2> QED
    BY NextCases, <1>1, <1>2, <1>3, <1>4, <1>5, <1>6, <1>7, <1>8, <1>9, <1>10

\* A file somebody has locked changes hands only by an eviction, or by what
\* the worker of its holder does itself.
LEMMA OwnerKept ==
    ASSUME Safe, ClientsApart, NEW w \in Workers, pc[w] \notin {"serve"},
           client[w] \in Clients, HasLock(w), [Next]_vars
    PROVE  \/ HasFileLock(fileQueue', File(w), client[w])
           \/ \E v \in Workers : RemoveVictim(v) \/ RemoveGarbage(v)
<1> DEFINE f == File(w)
           c == client[w]
           q == fileQueue
<1>q. q \in Storage /\ Unique(q)
  BY DEF Safe, LockInv, TypeInv, TypeOK, Storage
<1>h. Found(q, f) /\ Node(q, f).client_id = c /\ c # NoClient
  BY DEF HasLock, HasFileLock
<1>s. ASSUME NEW v \in Workers, pc[v] \in Busy
      PROVE  client[v] \in Clients /\ request[v] \in Requests
  BY <1>s DEF Safe, TypeInv, Sessions
<1>a. ASSUME NEW v \in Workers, client[v] = c PROVE v = w
  BY <1>a, <1>h DEF ClientsApart
<1> HIDE DEF f, c, q
<1>1. CASE UNCHANGED fileQueue
  BY <1>1 DEF HasLock
<1>2. ASSUME NEW v \in Workers, Try(v)
      PROVE  HasFileLock(fileQueue', f, c)
  <2>1. CASE TryStatus(v) # -2 /\ TryLocks(v)
    <3>1. client[v] \in Clients
      BY <1>2, <1>s DEF Try, Busy, Critical
    <3>2. /\ Found(q, File(v))
          /\ Node(q, File(v)).client_id \in {client[v], NoClient}
      BY <2>1 DEF TryLocks, TryStatus, OpenStatus, LockStatus, q
    <3>3. fileQueue' = SetOwner(q, File(v), client[v])
      BY <1>2, <2>1 DEF Try, q
    <3>4. /\ \A g : Found(fileQueue', g) <=> Found(q, g)
          /\ Node(fileQueue', File(v)).client_id = client[v]
          /\ \A g : Found(q, g) /\ g # File(v) =>
                   Node(fileQueue', g) = Node(q, g)
      BY <1>q, <3>1, <3>2, <3>3, SetOwnerEffect
    <3>5. client[v] = c \/ f # File(v)
      BY <1>h, <3>2
    <3> QED
      BY <1>h, <3>4, <3>5 DEF HasFileLock
  <2> QED
    BY <1>2, <1>1, <2>1 DEF Try, HasLock, f, c
<1>3. ASSUME NEW v \in Workers, Create(v)
      PROVE  HasFileLock(fileQueue', f, c)
  <2> DEFINE n == NewNode(File(v), request[v].flags, client[v])
  <2>1. pc[v] = "create" /\ fileQueue' = Append(q, n)
    BY <1>3 DEF Create, q
  <2>2. client[v] \in Clients /\ request[v] \in Requests
    BY <1>s, <2>1 DEF Busy, Critical
  <2>3. n \in FileNode /\ n.pathname = File(v) /\ ~Found(q, File(v))
    BY <2>1, <2>2, RequestFields DEF NewNode, FileNode, File, Safe, LockInv,
       CreateReady, q
  <2> HIDE DEF n
  <2>4. Pushed(q, fileQueue', n)
    BY <2>1 DEF Pushed
  <2>5. Found(fileQueue', f) /\ Node(fileQueue', f) = Node(q, f)
    BY <1>q, <1>h, <2>3, <2>4, PushNode
  <2> QED
    BY <1>h, <2>5 DEF HasFileLock
<1>4. ASSUME NEW v \in Workers, Unlock(v)
      PROVE  HasFileLock(fileQueue', f, c)
  <2>1. CASE UnlockStatus(q, File(v), client[v]) = 0
    <3>1. client[v] # c
      BY <1>4, <1>a DEF Unlock
    <3>2. /\ Found(q, File(v))
          /\ Node(q, File(v)).client_id \in {client[v], NoClient}
      BY <2>1 DEF UnlockStatus, Usable
    <3>3. fileQueue' = SetOwner(q, File(v), NoClient)
      BY <1>4, <2>1 DEF Unlock, q
    <3>4. /\ Found(fileQueue', f)
          /\ f # File(v) => Node(fileQueue', f) = Node(q, f)
      BY <1>q, <1>h, <3>2, <3>3, SetOwnerEffect
    <3> QED
      BY <1>h, <3>1, <3>2, <3>4 DEF HasFileLock
  <2> QED
    BY <1>4, <1>1, <2>1 DEF Unlock, HasLock, f, c, q
<1>5. ASSUME NEW v \in Workers, Delete(v)
      PROVE  HasFileLock(fileQueue', f, c)
  <2>1. CASE DeleteSucceeds(q, File(v), client[v])
    <3>1. /\ Found(q, File(v)) /\ File(v) # f
          /\ fileQueue' = RemoveNode(q, Position(q, File(v)))
      BY <1>5, <1>a, <1>h, <2>1
         DEF Delete, DeleteSucceeds, Usable, Discard, q
    <3>2. /\ Position(q, File(v)) \in DOMAIN q
          /\ q[Position(q, File(v))].pathname = File(v)
      BY <1>q, <3>1, PositionOfName
    <3>3. Found(fileQueue', f) /\ Node(fileQueue', f) = Node(q, f)
      BY <1>q, <1>h, <3>1, <3>2, RemoveUnique
    <3> QED
      BY <1>h, <3>3 DEF HasFileLock
  <2> QED
    BY <1>5, <1>1, <2>1 DEF Delete, HasLock, f, c, q
<1>6. ASSUME NEW v \in Workers, CloseFile(v)
      PROVE  HasFileLock(fileQueue', f, c)
  <2>1. CASE CloseSucceeds(q, File(v), client[v])
    <3>1. Found(q, File(v)) /\ fileQueue' = Close(q, File(v))
      BY <1>6, <2>1 DEF CloseFile, CloseSucceeds, Usable, q
    <3>2. Closes(q, fileQueue', File(v))
      BY <1>q, <3>1, CloseEffect
    <3> QED
      BY <1>h, <3>2 DEF Closes, HasFileLock
  <2> QED
    BY <1>6, <1>1, <2>1 DEF CloseFile, HasLock, f, c, q
<1>7. ASSUME NEW v \in Workers, Store(v)
      PROVE  HasFileLock(fileQueue', f, c)
  <2>1. CASE Usable(q, File(v))
    <3>1. request[v].n \in Nat
      <4>1. request[v] \in Requests
            /\ Op(v) \in {"OP_WRITE_FILE", "OP_APPEND_FILE"}
        BY <1>7 DEF Store, Safe, TypeInv, Sessions, Busy, Critical, Writing
      <4> QED
        BY <4>1, RequestFields DEF Op
    <3>2. Found(q, File(v)) /\ Node(q, File(v)).size \in Nat
      BY <1>q, <2>1, NodeType DEF Usable, FileNode
    <3>3. PICK k \in Nat : fileQueue' = SetSize(q, File(v), k)
      BY <1>7, <2>1, <3>1, <3>2 DEF Store, Grow, q
    <3>4. Found(fileQueue', f)
          /\ Node(fileQueue', f).client_id = Node(q, f).client_id
      BY <1>q, <1>h, <3>2, <3>3, SetSizeEffect
    <3> QED
      BY <1>h, <3>4 DEF HasFileLock
  <2> QED
    BY <1>7, <1>1, <2>1 DEF Store, HasLock, f, c, q
<1> QED
  BY <1>1, <1>2, <1>3, <1>4, <1>5, <1>6, <1>7, StorageActions DEF HasLock, f, c

\* The test of openVirtualFile or lockVirtualFile that succeeds leaves the
\* client with the file.
LEMMA TryGrants ==
    ASSUME Safe, NEW w \in Workers, Try(w), AsksLock(request[w]),
           pc'[w] \in {"unlockFile", "reply"}, status'[w] = 0
    PROVE  HasFileLock(fileQueue', File(w), client[w])
<1> DEFINE f == File(w)
           c == client[w]
           q == fileQueue
<1>1. /\ q \in Storage /\ Unique(q) /\ c \in Clients
      /\ Op(w) \in {"OP_OPEN_FILE", "OP_LOCK_FILE"}
  BY DEF Safe, LockInv, TypeInv, TypeOK, Storage, Sessions, Busy, Critical,
     Opening, HoldsFileLock, Try
<1>2. TryStatus(w) = 0 /\ ~TryCreates(w)
  BY DEF Try, Goto, Answer, Safe, TypeInv, TypeOK
<1>3. Found(q, f)
  BY <1>1, <1>2 DEF TryStatus, TryCreates, OpenStatus, LockStatus, Usable
<1>4. TryLocks(w)
  BY <1>2, <1>3 DEF TryLocks, AsksLock, Op
<1>5. fileQueue' = SetOwner(q, f, c)
  BY <1>2, <1>4 DEF Try
<1> HIDE DEF f, c, q
<1>6. Found(fileQueue', f) /\ Node(fileQueue', f).client_id = c
  BY <1>1, <1>3, <1>5, SetOwnerEffect
<1> QED
  BY <1>6 DEF HasFileLock, f, c

\* The new node belongs to the client that asked for the lock.
LEMMA CreateGrants ==
    ASSUME Safe, NEW w \in Workers, Create(w), AsksLock(request[w])
    PROVE  HasFileLock(fileQueue', File(w), client[w])
<1> DEFINE n == NewNode(File(w), request[w].flags, client[w])
           f == File(w)
           q == fileQueue
           r == fileQueue'
<1>1. pc[w] = "create" /\ r = Append(q, n)
  BY DEF Create
<1>2. /\ request[w] \in Requests /\ client[w] \in Clients
      /\ ~Found(q, f) /\ Op(w) = "OP_OPEN_FILE"
      /\ q \in Storage /\ Unique(q)
  BY <1>1 DEF Safe, TypeInv, TypeOK, Sessions, Busy, Critical, LockInv,
     CreateReady, Storage
<1>3. /\ n \in FileNode /\ n.pathname = f /\ n.client_id = client[w]
  BY <1>2, RequestFields DEF NewNode, FileNode, File, AsksLock, Op
<1> HIDE DEF n, f, q, r
<1>4. Pushed(q, r, n)
  BY <1>1 DEF Pushed
<1>5. Found(r, f) /\ Node(r, f) = n
  BY <1>2, <1>3, <1>4, PushNode
<1>6. HasFileLock(r, f, client[w])
  BY <1>3, <1>5 DEF HasFileLock
<1> QED
  BY <1>6 DEF r, f

\* The step GrantIsTrue speaks of.
TrueGrant ==
    \A w \in Workers :
        Granted(w)' /\ (Granted(w) => HasLock(w))
        => \/ HasLock(w)'
           \/ \E v \in Workers : RemoveVictim(v) \/ RemoveGarbage(v)

LEMMA GrantStep ==
    ASSUME Safe, ClientsApart, [Next]_vars
    PROVE  TrueGrant
<1> SUFFICES ASSUME NEW w \in Workers, Granted(w)', Granted(w) => HasLock(w)
             PROVE  \/ HasLock(w)'
                    \/ \E v \in Workers : RemoveVictim(v) \/ RemoveGarbage(v)
  BY DEF TrueGrant
<1>1. /\ client'[w] = client[w] /\ request'[w] = request[w]
      /\ Granted(w) \/ Try(w) \/ Create(w)
  BY GrantArrival DEF Safe, GrantFrom, Granted
<1>2. HasFileLock(fileQueue', File(w), client[w]) => HasLock(w)'
  BY <1>1 DEF HasLock, File
<1>3. AsksLock(request[w]) /\ pc'[w] \in {"unlockFile", "reply"}
      /\ status'[w] = 0
  BY <1>1 DEF Granted
<1>4. CASE Granted(w)
  <2>1. client[w] \in Clients /\ pc[w] \notin {"serve"}
    BY <1>4 DEF Granted, Safe, TypeInv, Sessions, Busy, Critical
  <2> QED
    BY <1>2, <1>4, <2>1, OwnerKept
<1>5. CASE Try(w)
  BY <1>2, <1>3, <1>5, TryGrants
<1>6. CASE Create(w)
  BY <1>2, <1>3, <1>6, CreateGrants
<1> QED
  BY <1>1, <1>4, <1>5, <1>6

\* Lock waits or not, a client that is told that it has the lock has it, and
\* only an eviction can take it away before the answer is on its way.
THEOREM GrantsAreTrue == Spec => GrantIsTrue
<1>1. Init => ClientsApart
  BY DEF Init, ClientsApart
<1>2. Safe /\ ClientsApart /\ [Next]_vars => ClientsApart'
  BY ApartStep DEF Safe
<1>3. Safe /\ ClientsApart /\ [Next]_vars => [TrueGrant]_vars
  BY GrantStep
<1> QED
  BY <1>1, <1>2, <1>3, SafeAlways, PTL DEF Spec, GrantIsTrue, TrueGrant

-----------------------------------------------------------------------------
(* The room the files take, when all writes and appends are of one size    *)

\* Every write and append of the workload brings n bytes, and as many fit.
UpdatesAlike(n) ==
    /\ n \in Nat /\ n <= max_mem_size
    /\ \A r \in Requests :
           r.op \in {"OP_WRITE_FILE", "OP_APPEND_FILE"} => r.n = n

\* Then a file that is not empty makes room enough for any update.
SizesAlike(q, n) ==
    \A i \in DOMAIN q : q[i].size = 0 \/ q[i].size >= n

\* Without the file f there is room for n bytes.
Sufficient(q, f, n) ==
    Found(q, f) /\ FreeSpace(RemoveNode(q, Position(q, f))) >= n

RoomInv(n) ==
    /\ SizesAlike(fileQueue, n)
    /\ StorageSize(fileQueue) <= max_mem_size
    /\ \A w \in Workers :
          /\ pc[w] = "expel" => CapacityMiss(fileQueue, n)
          /\ pc[w] \in {"sendVictim", "removeVictim"} =>
                Sufficient(fileQueue, victim[w], n)
          /\ pc[w] \in {"checkLock", "receive"} => FreeSpace(fileQueue) >= n

\* r takes no more room than q, and no node of it a size q does not have.
Lighter(q, r) ==
    /\ StorageSize(r) <= StorageSize(q)
    /\ \A i \in DOMAIN r :
          r[i].size = 0 \/ \E j \in DOMAIN q : r[i].size = q[j].size

LEMMA LighterUpdate ==
    ASSUME NEW q \in Storage, NEW f, Found(q, f)
    PROVE  /\ \A c \in Clients \cup {NoClient} : Lighter(q, SetOwner(q, f, c))
           /\ Lighter(q, Close(q, f))
<1> DEFINE p == Position(q, f)
<1>1. p \in DOMAIN q /\ q[p] \in FileNode /\ q[p].size \in Nat
  BY PositionOfName, LengthAndSizes
<1>2. StorageSize(q) \in Nat
  BY SizeIsSum
<1>3. ASSUME NEW n \in FileNode, n.size = q[p].size
      PROVE  Lighter(q, [q EXCEPT ![p] = n])
  <2> DEFINE r == [q EXCEPT ![p] = n]
  <2>1. StorageSize(r) = StorageSize(q) - q[p].size + n.size
    BY <1>1, SumOfUpdate
  <2>2. StorageSize(r) <= StorageSize(q)
    BY <1>1, <1>2, <1>3, <2>1
  <2>3. \A i \in DOMAIN r : i \in DOMAIN q /\ r[i].size = q[i].size
    BY <1>1, <1>3
  <2> HIDE DEF r
  <2>4. Lighter(q, r)
    BY <2>2, <2>3 DEF Lighter
  <2> QED
    BY <2>4 DEF r
<1>4. ASSUME NEW c \in Clients \cup {NoClient}
      PROVE  Lighter(q, SetOwner(q, f, c))
  <2> DEFINE n == [q[p] EXCEPT !.client_id = c]
  <2>1. n \in FileNode /\ n.size = q[p].size
    BY <1>1 DEF FileNode
  <2>2. SetOwner(q, f, c) = [q EXCEPT ![p] = n]
    BY DEF SetOwner
  <2> HIDE DEF n, p
  <2> QED
    BY <1>3, <2>1, <2>2
<1>5. Lighter(q, Close(q, f))
  <2> DEFINE n == [q[p] EXCEPT !.isOpen = FALSE]
  <2>1. n \in FileNode /\ n.size = q[p].size
    BY <1>1 DEF FileNode
  <2>2. Close(q, f) = [q EXCEPT ![p] = n]
    BY DEF Close
  <2> HIDE DEF n, p
  <2> QED
    BY <1>3, <2>1, <2>2
<1> QED
  BY <1>4, <1>5

LEMMA LighterPush ==
    ASSUME NEW q \in Storage, NEW n \in FileNode, n.size = 0
    PROVE  Lighter(q, Append(q, n))
<1> DEFINE r == Append(q, n)
<1>1. r \in Storage /\ StorageSize(r) = StorageSize(q) + n.size
  BY SumOfPush
<1>2. StorageSize(r) <= StorageSize(q)
  BY <1>1, SizeIsSum
<1>3. \A i \in DOMAIN r : r[i] = n \/ (i \in DOMAIN q /\ r[i] = q[i])
  BY DEF Storage
<1> HIDE DEF r
<1>4. Lighter(q, r)
  BY <1>2, <1>3 DEF Lighter
<1> QED
  BY <1>4 DEF r

LEMMA LighterRemoval ==
    ASSUME NEW q \in Storage, NEW k \in DOMAIN q, NEW r, r = RemoveNode(q, k)
    PROVE  Lighter(q, r)
<1>1. /\ Len(q) \in Nat /\ DOMAIN q = 1..Len(q) /\ q[k].size \in Nat
      /\ StorageSize(q) \in Nat
  BY LengthAndSizes, SizeIsSum
<1>2. r \in Storage /\ StorageSize(r) = StorageSize(q) - q[k].size
  BY SumOfRemoval
<1>3. /\ \A i \in 1..(k - 1) : r[i] = q[i]
      /\ \A i \in k..(Len(q) - 1) : r[i] = q[i + 1]
  BY RemoveOne
<1>4. ASSUME NEW i \in DOMAIN r
      PROVE  \E j \in DOMAIN q : r[i].size = q[j].size
  <2>1. i \in 1..(Len(q) - 1)
    BY <1>2, <1>3, RemoveOne, LengthAndSizes
  <2>2. CASE i < k
    <3>1. i \in 1..(k - 1) /\ i \in DOMAIN q
      BY <1>1, <2>1, <2>2
    <3> QED
      BY <1>3, <3>1
  <2>3. CASE i >= k
    <3>1. i \in k..(Len(q) - 1) /\ i + 1 \in DOMAIN q
      BY <1>1, <2>1, <2>3
    <3> QED
      BY <1>3, <3>1
  <2> QED
    BY <1>1, <2>1, <2>2, <2>3
<1> QED
  BY <1>1, <1>2, <1>4 DEF Lighter

LEMMA LighterIsAlike ==
    ASSUME NEW q, NEW r, NEW n, Lighter(q, r), SizesAlike(q, n)
    PROVE  SizesAlike(r, n)
BY DEF Lighter, SizesAlike

\* Only a store makes the files larger.
LEMMA OnlyStoreGrows ==
    ASSUME TypeInv, [Next]_vars
    PROVE  Lighter(fileQueue, fileQueue') \/ \E w \in Workers : Store(w)
<1>q. fileQueue \in Storage
  BY DEF TypeInv, TypeOK, Storage
<1>s. ASSUME NEW w \in Workers, pc[w] \in Busy
      PROVE  /\ File(w) \in Files /\ client[w] \in Clients
             /\ request[w] \in Requests
  BY <1>s, RequestFields DEF TypeInv, Sessions, File
<1>u. ASSUME UNCHANGED fileQueue PROVE Lighter(fileQueue, fileQueue')
  BY <1>q, <1>u, SizeIsSum DEF Lighter
<1>1. ASSUME NEW w \in Workers, Try(w) PROVE Lighter(fileQueue, fileQueue')
  <2>1. client[w] \in Clients
    BY <1>1, <1>s DEF Try, Busy, Critical
  <2>2. CASE fileQueue' = SetOwner(fileQueue, File(w), client[w]) /\ TryLocks(w)
    BY <1>q, <2>1, <2>2, LighterUpdate DEF TryLocks
  <2> QED
    BY <1>1, <1>u, <2>2 DEF Try
<1>2. ASSUME NEW w \in Workers, Unlock(w) PROVE Lighter(fileQueue, fileQueue')
  <2>1. CASE UnlockStatus(fileQueue, File(w), client[w]) = 0
    <3>1. Found(fileQueue, File(w))
      BY <2>1 DEF UnlockStatus, Usable
    <3>2. fileQueue' = SetOwner(fileQueue, File(w), NoClient)
      BY <1>2, <2>1 DEF Unlock
    <3> QED
      BY <1>q, <3>1, <3>2, LighterUpdate
  <2> QED
    BY <1>2, <1>u, <2>1 DEF Unlock
<1>3. ASSUME NEW w \in Workers, Delete(w) PROVE Lighter(fileQueue, fileQueue')
  <2>1. CASE DeleteSucceeds(fileQueue, File(w), client[w])
    <3>1. Position(fileQueue, File(w)) \in DOMAIN fileQueue
      BY <1>q, <2>1, PositionOfName DEF DeleteSucceeds, Usable
    <3> QED
      BY <1>3, <1>q, <2>1, <3>1, LighterRemoval DEF Delete, Discard
  <2> QED
    BY <1>3, <1>u, <2>1 DEF Delete
<1>4. ASSUME NEW w \in Workers, CloseFile(w)
      PROVE  Lighter(fileQueue, fileQueue')
  <2>1. CASE CloseSucceeds(fileQueue, File(w), client[w])
    BY <1>4, <1>q, <2>1, LighterUpdate DEF CloseFile, CloseSucceeds, Usable
  <2> QED
    BY <1>4, <1>u, <2>1 DEF CloseFile
<1>5. ASSUME NEW w \in Workers, Create(w) PROVE Lighter(fileQueue, fileQueue')
  <2> DEFINE n == NewNode(File(w), request[w].flags, client[w])
  <2>1. n \in FileNode /\ n.size = 0
    BY <1>5, <1>s DEF Create, Busy, Critical, NewNode, FileNode
  <2>2. fileQueue' = Append(fileQueue, n)
    BY <1>5 DEF Create
  <2> HIDE DEF n
  <2> QED
    BY <1>q, <2>1, <2>2, LighterPush
<1>6. ASSUME NEW w \in Workers, RemoveVictim(w) \/ RemoveGarbage(w)
      PROVE  Lighter(fileQueue, fileQueue')
  <2>1. ASSUME NEW f, Found(fileQueue, f), Discard(f)
        PROVE  Lighter(fileQueue, fileQueue')
    BY <1>q, <2>1, PositionOfName, LighterRemoval DEF Discard
  <2> QED
    BY <1>6, <1>u, <2>1 DEF RemoveVictim, RemoveGarbage
<1> QED
  BY <1>1, <1>2, <1>3, <1>4, <1>5, <1>6, StorageActions, <1>u

\* How a worker comes to where room is needed.
RoomFrom(w) ==
    /\ pc'[w] = "expel" =>
          \/ MakeRoom(w)
          \/ pc[w] = "expel" /\ UNCHANGED fileQueue
    /\ pc'[w] \in {"sendVictim", "removeVictim"} =>
          \/ Expel(w)
          \/ /\ pc[w] \in {"sendVictim", "removeVictim"}
             /\ UNCHANGED fileQueue /\ victim'[w] = victim[w]
    /\ pc'[w] \in {"checkLock", "receive"} =>
          \/ MakeRoom(w) \/ RemoveVictim(w) \/ RemoveGarbage(w)
          \/ pc[w] \in {"checkLock", "receive"}

LEMMA RoomArrival ==
    ASSUME TypeInv, QueueHeld, [Next]_vars, NEW w \in Workers
    PROVE  RoomFrom(w)
<1> USE DEF TypeOK, TypeInv, RoomFrom, Goto, session
<1>0. \A v \in Workers : pc[v] \in Critical /\ pc[w] \in Critical => v = w
  BY DEF QueueHeld
<1>1. ASSUME NEW v \in Workers,
             \/ LockQueue(v) \/ Reply(v) \/ Reject(v)
             \/ Sigpipe(v) \/ ReceiveFails(v)
      PROVE  RoomFrom(w)
  BY <1>1 DEF LockQueue, Reply, Reject, Sigpipe, ReceiveFails
<1>2. ASSUME NEW v \in Workers,
             Retire(v) \/ Hangup(v) \/ SpuriousWakeup(v)
      PROVE  RoomFrom(w)
  BY <1>2 DEF Retire, Hangup, SpuriousWakeup
<1>3. ASSUME NEW v \in Workers,
             \/ LockFileLock(v) \/ UnlockFileLock(v) \/ YieldQueue(v)
             \/ CondWait(v) \/ Reacquire(v)
      PROVE  RoomFrom(w)
  BY <1>3 DEF LockFileLock, UnlockFileLock, YieldQueue, CondWait, Reacquire
<1>4. ASSUME NEW v \in Workers, Try(v) \/ Create(v)
      PROVE  RoomFrom(w)
  BY <1>0, <1>4 DEF Try, Create, Critical
<1>5. ASSUME NEW v \in Workers, Unlock(v) \/ Broadcast(v)
      PROVE  RoomFrom(w)
  BY <1>0, <1>5 DEF Unlock, Broadcast, Critical
<1>6. ASSUME NEW v \in Workers,
             Delete(v) \/ CloseFile(v) \/ Read(v) \/ ReadN(v)
      PROVE  RoomFrom(w)
  BY <1>0, <1>6 DEF Delete, CloseFile, Read, ReadN, Critical
<1>7. ASSUME NEW v \in Workers, CheckLock(v) \/ Store(v)
      PROVE  RoomFrom(w)
  BY <1>0, <1>7 DEF CheckLock, Store, Critical
<1>8. ASSUME NEW v \in Workers,
             \/ MakeRoom(v) \/ Expel(v) \/ SendVictim(v)
             \/ RemoveVictim(v) \/ RemoveGarbage(v)
      PROVE  RoomFrom(w)
  <2>1. CASE v = w
    BY <1>8, <2>1 DEF MakeRoom, Expel, SendVictim, RemoveVictim, RemoveGarbage
  <2>2. CASE v # w
    BY <1>0, <1>8, <2>2 DEF MakeRoom, Expel, SendVictim, RemoveVictim,
       RemoveGarbage, Critical
  <2> QED
    BY <2>1, <2>2
<1>9. ASSUME NEW v \in Workers,
             \/ \E c \in Clients : Connect(v, c)
             \/ \E r \in Requests : Receive(v, r)
      PROVE  RoomFrom(w)
  BY <1>9 DEF Connect, Receive
<1>10. ASSUME \/ \E c \in Clients : ClientDies(c)
              \/ \E sig \in Signals : Signal(sig)
              \/ WakeFiles
              \/ UNCHANGED vars
       PROVE  RoomFrom(w)
  BY <1>10 DEF ClientDies, Signal, WakeFiles, vars
<1> QED
  <2> HIDE DEF TypeOK, TypeInv, RoomFrom, Goto, session
  <2> QED
    BY NextCases, <1>1, <1>2, <1>3, <1>4, <1>5, <1>6, <1>7, <1>8, <1>9, <1>10

LEMMA RequestSize ==
    ASSUME TypeInv, NEW n, UpdatesAlike(n), NEW w \in Workers, pc[w] \in Writing
    PROVE  request[w].n = n
BY DEF TypeInv, Sessions, UpdatesAlike, Op, Writing, Busy, Critical

\* One victim is enough, and there is one.
LEMMA VictimMakesRoom ==
    ASSUME NEW q \in Storage, NEW n \in Nat, n <= max_mem_size,
           SizesAlike(q, n), CapacityMiss(q, n)
    PROVE  /\ Victims(q, n) # {}
           /\ \A i \in Victims(q, n) : FreeSpace(RemoveNode(q, i)) >= n
<1> DEFINE T == {i \in DOMAIN q : Frees(q, i, n)}
<1>1. /\ Len(q) \in Nat /\ DOMAIN q = 1..Len(q)
      /\ \A i \in DOMAIN q : q[i].size \in Nat
      /\ StorageSize(q) \in Nat /\ max_mem_size \in Nat
  BY LengthAndSizes, SizeIsSum
<1>2. FreeSpace(q) \in Int /\ FreeSpace(q) >= 0 /\ FreeSpace(q) < n
  BY <1>1 DEF CapacityMiss, FreeSpace
<1>3. \A i \in DOMAIN q : Frees(q, i, n) <=> FreeSpace(q) + q[i].size >= n
  <2> TAKE i \in DOMAIN q
  <2>1. q[i].size \in Nat
    BY <1>1
  <2> QED
    BY <1>2, <2>1 DEF Frees
<1>4. T # {}
  <2>1. StorageSize(q) # 0
    BY <1>1, <1>2 DEF FreeSpace
  <2>2. PICK i \in DOMAIN q : q[i].size # 0
    BY <2>1, SomeFileIsNotEmpty
  <2>3. q[i].size >= n /\ q[i].size \in Nat
    BY <1>1, <2>2 DEF SizesAlike
  <2>4. FreeSpace(q) + q[i].size >= n
    BY <1>2, <2>3
  <2> QED
    BY <1>3, <2>4
<1>5. Victims(q, n) # {}
  <2>1. T \subseteq Nat
    BY <1>1
  <2>2. PICK i \in T : \A j \in T : i <= j
    <3> HIDE DEF T
    <3> QED
      BY <1>4, <2>1, LeastNumber
  <2>3. i \in DOMAIN q /\ Frees(q, i, n)
    OBVIOUS
  <2>4. ASSUME NEW j \in 1..(i - 1) PROVE ~Frees(q, j, n)
    <3>1. j \in DOMAIN q /\ ~(i <= j)
      BY <1>1, <2>3
    <3> QED
      BY <2>2, <3>1
  <2> QED
    BY <2>3, <2>4 DEF Victims
<1>6. ASSUME NEW i \in Victims(q, n)
      PROVE  FreeSpace(RemoveNode(q, i)) >= n
  <2>1. i \in DOMAIN q /\ FreeSpace(q) + q[i].size >= n /\ q[i].size \in Nat
    BY <1>1, <1>3 DEF Victims
  <2>2. StorageSize(RemoveNode(q, i)) = StorageSize(q) - q[i].size
    BY <2>1, SumOfRemoval
  <2> QED
    BY <1>1, <2>1, <2>2 DEF FreeSpace
<1> QED
  BY <1>5, <1>6

\* What a write or an append leaves fits, if it fitted before.
LEMMA StoreFits ==
    ASSUME TypeInv, NEW n, UpdatesAlike(n), RoomInv(n), NEW w \in Workers,
           Store(w)
    PROVE  SizesAlike(fileQueue', n) /\ StorageSize(fileQueue') <= max_mem_size
<1> DEFINE q == fileQueue
           f == File(w)
           p == Position(q, f)
<1>q. q \in Storage
  BY DEF TypeInv, TypeOK, Storage
<1>0. StorageSize(q) \in Nat /\ max_mem_size \in Nat /\ n \in Nat
  BY <1>q, SizeIsSum DEF UpdatesAlike
<1>1. pc[w] = "receive" /\ request[w].n = n
  BY RequestSize DEF Store, Writing
<1>2. FreeSpace(q) >= n /\ SizesAlike(q, n)
  BY <1>1 DEF RoomInv
<1>3. CASE ~Usable(q, f)
  BY <1>2, <1>3 DEF Store, RoomInv
<1>4. CASE Usable(q, f)
  <2>1. p \in DOMAIN q /\ q[p] \in FileNode /\ q[p].size \in Nat
    BY <1>q, <1>4, PositionOfName, LengthAndSizes DEF Usable
  <2>2. PICK k \in {n, q[p].size + n} : fileQueue' = SetSize(q, f, k)
    BY <1>1, <1>4 DEF Store, Grow, Node
  <2>3. k \in Nat /\ k >= n /\ k <= q[p].size + n
    BY <1>0, <2>1, <2>2
  <2> DEFINE node == [q[p] EXCEPT !.size = k]
  <2>4. node \in FileNode /\ node.size = k
    BY <2>1, <2>3 DEF FileNode
  <2>5. fileQueue' = [q EXCEPT ![p] = node]
    BY <2>2 DEF SetSize
  <2> HIDE DEF node, p, q, f
  <2>6. StorageSize(fileQueue') = StorageSize(q) - q[p].size + k
    <3> DEFINE r == [q EXCEPT ![p] = node]
    <3>1. StorageSize(r) = StorageSize(q) - q[p].size + node.size
      BY <1>q, <2>1, <2>4, SumOfUpdate
    <3>2. fileQueue' = r
      BY <2>5
    <3> HIDE DEF r
    <3> QED
      BY <2>4, <3>1, <3>2
  <2>7. StorageSize(fileQueue') <= max_mem_size
    BY <1>0, <1>2, <2>1, <2>3, <2>6 DEF FreeSpace
  <2>8. \A i \in DOMAIN fileQueue' :
           i \in DOMAIN q /\ (fileQueue'[i] = node \/ fileQueue'[i] = q[i])
    BY <2>1, <2>5
  <2> QED
    BY <1>2, <2>3, <2>4, <2>7, <2>8 DEF SizesAlike
<1> QED
  BY <1>3, <1>4

LEMMA RoomStep ==
    ASSUME NEW n, UpdatesAlike(n), TypeInv, TypeInv', Unique(fileQueue),
           QueueHeld, RoomInv(n), [Next]_vars
    PROVE  RoomInv(n)'
<1>q. fileQueue \in Storage /\ fileQueue' \in Storage
  BY DEF TypeInv, TypeOK, Storage
<1>0. /\ StorageSize(fileQueue) \in Nat /\ StorageSize(fileQueue') \in Nat
      /\ max_mem_size \in Nat /\ n \in Nat /\ n <= max_mem_size
  BY <1>q, SizeIsSum DEF UpdatesAlike
<1>1. CASE \E v \in Workers : Store(v)
  <2>1. PICK v \in Workers : Store(v)
    BY <1>1
  <2>2. SizesAlike(fileQueue', n) /\ StorageSize(fileQueue') <= max_mem_size
    BY <2>1, StoreFits
  <2>3. \A w \in Workers :
           pc'[w] \notin {"expel", "sendVictim", "removeVictim", "checkLock",
                         "receive"}
    BY <2>1 DEF Store, Goto, QueueHeld, Critical, TypeInv, TypeOK
  <2> QED
    BY <2>2, <2>3 DEF RoomInv
<1>2. CASE Lighter(fileQueue, fileQueue')
  <2>1. SizesAlike(fileQueue', n) /\ StorageSize(fileQueue') <= max_mem_size
    <3>1. StorageSize(fileQueue') <= StorageSize(fileQueue)
      BY <1>2 DEF Lighter
    <3>2. StorageSize(fileQueue) <= max_mem_size /\ SizesAlike(fileQueue, n)
      BY DEF RoomInv
    <3> QED
      BY <1>0, <1>2, <3>1, <3>2, LighterIsAlike
  <2>2. FreeSpace(fileQueue') >= FreeSpace(fileQueue)
    BY <1>0, <1>2 DEF Lighter, FreeSpace
  <2>3. FreeSpace(fileQueue) \in Int /\ FreeSpace(fileQueue') \in Int
        /\ FreeSpace(fileQueue) >= 0
    BY <1>0 DEF FreeSpace, RoomInv
  <2>4. ASSUME NEW w \in Workers, MakeRoom(w)
        PROVE  /\ UNCHANGED fileQueue
               /\ pc'[w] = "expel" => CapacityMiss(fileQueue, n)
               /\ pc'[w] \in {"checkLock", "receive"} => FreeSpace(fileQueue) >= n
    <3>1. request[w].n = n
      BY <2>4, RequestSize DEF MakeRoom, Writing
    <3>2. /\ pc'[w] = "expel" => CapacityMiss(fileQueue, n)
          /\ pc'[w] \in {"checkLock", "receive"} => ~CapacityMiss(fileQueue, n)
      BY <2>4, <3>1 DEF MakeRoom, Goto, TypeInv, TypeOK
    <3>3. ~CapacityMiss(fileQueue, n) => FreeSpace(fileQueue) >= n
      BY <1>0, <2>3 DEF CapacityMiss
    <3> QED
      BY <2>4, <3>2, <3>3 DEF MakeRoom
  <2>5. ASSUME NEW w \in Workers, Expel(w)
        PROVE  Sufficient(fileQueue', victim'[w], n)
    <3>1. /\ request[w].n = n /\ pc[w] = "expel" /\ UNCHANGED fileQueue
          /\ victim \in [Workers -> Files \cup {NoFile}]
      BY <2>5, RequestSize DEF Expel, Writing, TypeInv, TypeOK
    <3>2. CapacityMiss(fileQueue, n) /\ SizesAlike(fileQueue, n)
      BY <3>1 DEF RoomInv
    <3>3. /\ Victims(fileQueue, n) # {}
          /\ \A i \in Victims(fileQueue, n) :
                FreeSpace(RemoveNode(fileQueue, i)) >= n
      BY <1>0, <1>q, <3>2, VictimMakesRoom
    <3>4. PICK i \in Victims(fileQueue, n) :
             victim'[w] = fileQueue[i].pathname
      BY <2>5, <3>1, <3>3 DEF Expel
    <3>5. i \in DOMAIN fileQueue
      BY DEF Victims
    <3>6. /\ Found(fileQueue, victim'[w])
          /\ Position(fileQueue, victim'[w]) = i
      BY <1>q, <3>4, <3>5, PositionUnique
    <3> QED
      BY <3>1, <3>3, <3>6 DEF Sufficient
  <2>6. ASSUME NEW w \in Workers, RemoveVictim(w) \/ RemoveGarbage(w)
        PROVE  FreeSpace(fileQueue') >= n
    <3>1. Sufficient(fileQueue, victim[w], n)
      BY <2>6 DEF RemoveVictim, RemoveGarbage, RoomInv
    <3> QED
      BY <2>6, <3>1 DEF RemoveVictim, RemoveGarbage, Discard, Sufficient
  <2>7. ASSUME NEW w \in Workers
        PROVE  /\ pc'[w] = "expel" => CapacityMiss(fileQueue', n)
               /\ pc'[w] \in {"sendVictim", "removeVictim"} =>
                     Sufficient(fileQueue', victim'[w], n)
               /\ pc'[w] \in {"checkLock", "receive"} =>
                     FreeSpace(fileQueue') >= n
    <3>1. RoomFrom(w)
      BY RoomArrival
    <3>2. /\ pc[w] = "expel" => CapacityMiss(fileQueue, n)
          /\ pc[w] \in {"sendVictim", "removeVictim"} =>
                Sufficient(fileQueue, victim[w], n)
          /\ pc[w] \in {"checkLock", "receive"} => FreeSpace(fileQueue) >= n
      BY DEF RoomInv
    <3>3. pc'[w] = "expel" => CapacityMiss(fileQueue', n)
      BY <2>4, <3>1, <3>2 DEF RoomFrom
    <3>4. pc'[w] \in {"sendVictim", "removeVictim"} =>
             Sufficient(fileQueue', victim'[w], n)
      BY <2>5, <3>1, <3>2 DEF RoomFrom
    <3>5. ASSUME pc'[w] \in {"checkLock", "receive"}
          PROVE  FreeSpace(fileQueue') >= n
      <4>1. CASE MakeRoom(w)
        BY <2>4, <3>5, <4>1
      <4>2. CASE RemoveVictim(w) \/ RemoveGarbage(w)
        BY <2>6, <4>2
      <4>3. CASE pc[w] \in {"checkLock", "receive"}
        BY <1>0, <2>2, <2>3, <3>2, <4>3
      <4> QED
        BY <3>1, <3>5, <4>1, <4>2, <4>3 DEF RoomFrom
    <3> QED
      BY <3>3, <3>4, <3>5
  <2> QED
    BY <2>1, <2>7 DEF RoomInv
<1> QED
  BY <1>1, <1>2, OnlyStoreGrows

\* As long as no request waits for a file lock, and every write and append
\* brings the same number of bytes, the files never take more room than
\* max_mem_size: the one file that expelFile gives up is always enough.
THEOREM RoomIsBounded ==
    \A n : NoLockWaits /\ UpdatesAlike(n) => (Spec => []MemoryBound)
<1> SUFFICES ASSUME NEW CONSTANT n, NoLockWaits, UpdatesAlike(n)
             PROVE  Spec => []MemoryBound
  OBVIOUS
<1>1. Init => RoomInv(n)
  <2> SUFFICES ASSUME Init PROVE RoomInv(n)
    OBVIOUS
  <2>1. fileQueue = << >> /\ fileQueue \in Storage
    BY DEF Init, Storage
  <2>2. StorageSize(fileQueue) = 0
    BY <2>1, SomeFileIsNotEmpty
  <2> QED
    BY <2>1, <2>2 DEF Init, RoomInv, SizesAlike
<1>2. Safe /\ Safe' /\ QueueHeld /\ RoomInv(n) /\ [Next]_vars => RoomInv(n)'
  BY RoomStep DEF Safe, LockInv
<1>3. RoomInv(n) => MemoryBound
  BY DEF RoomInv, MemoryBound
<1> HIDE DEF RoomInv
<1> QED
  BY <1>1, <1>2, <1>3, QueueAlways, PTL DEF Spec
=============================================================================

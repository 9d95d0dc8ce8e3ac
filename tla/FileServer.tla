----------------------------- MODULE FileServer ------------------------------
(***************************************************************************)
(* The worker threads of the server (src/src/server/server.c), the request  *)
(* handlers they run (controller.c), the two mutexes and the condition      *)
(* variable of globals.h the handlers synchronise with, and the thread that *)
(* waits for signals.                                                       *)
(*                                                                         *)
(* A worker's pc names the point of the handler it is about to execute:     *)
(*                                                                         *)
(*   idle        waits for a connection        reading   blocked in read()  *)
(*   lockQueue   lock(file_queue_mutex)        serve     the one-step ops   *)
(*   lockFile    lock(file_lock_mutex)         try       open/lockVirtual.. *)
(*   create      push of the new node          unlockFile                   *)
(*   yieldQueue  unlock(file_queue_mutex)      sleep     cond_wait, before  *)
(*   waiting     blocked on file_lock_cond     reacquire woken, no mutex    *)
(*   broadcast   wakes the lock waiters        makeRoom  capacity check     *)
(*   expel       chooses a victim              sendVictim                   *)
(*   removeVictim                              checkLock hasFileLock        *)
(*   receive     reads the data, stores it     reject    early return       *)
(*   reply       answers, unlocks              gone      thread returned    *)
(*                                                                         *)
(* A step is a whole call of a storage function or of the pthread library.  *)
(* The push of a new file is a step apart from the test that allows it:     *)
(* that pair is what a second worker in the same function can split.        *)
(***************************************************************************)
EXTENDS FileStorage

CONSTANTS
    Workers,     \* the threads of threadPool
    Requests,    \* the requests a client may send: see Request
    Signals,     \* the signals the server may be sent
    Mortal,      \* the clients that may die in the middle of a request
    SignalThread,\* the thread of signalThreadHandler
    NoThread,    \* the owner of a free mutex
    NoRequest,   \* a worker that is serving no request
    NoFile,      \* a pointer to no file: see victim
    Absent,      \* the lock state of a name no file has
    Closed       \* the lock state of a file that was closed

\* n is the fileSize of a write or an append, and the N of a "read n files",
\* which travels in the flags field of the C structure.
Request == [op : {"OP_OPEN_FILE", "OP_LOCK_FILE", "OP_UNLOCK_FILE",
                  "OP_DELETE_FILE", "OP_CLOSE_FILE", "OP_READ_FILE",
                  "OP_READ_N_FILES", "OP_WRITE_FILE", "OP_APPEND_FILE"},
            file : Files, flags : SUBSET {"O_CREATE", "O_LOCK"}, n : Int]

ASSUME ServerAssumption ==
    /\ NoThread \notin Workers \cup {SignalThread}
    /\ SignalThread \notin Workers
    /\ Requests \subseteq Request
    /\ \A r \in Requests :
           r.op \in {"OP_WRITE_FILE", "OP_APPEND_FILE"} => r.n \in Nat \ {0}
    /\ NoRequest \notin Requests
    /\ NoFile \notin Files
    /\ Signals \subseteq {"SIGHUP", "SIGINT", "SIGQUIT"}
    /\ Mortal \subseteq Clients
    /\ {Absent, Closed} \cap (Clients \cup {NoClient}) = {}
    /\ Absent # Closed

VARIABLES
    fileQueue,            \* the storage
    file_queue_mutex,     \* the thread that locked it last, or NoThread
    file_lock_mutex,      \* likewise
    acceptNewConnection,  \* cleared by SIGHUP
    closeServer,          \* set by SIGINT and SIGQUIT
    signalThread,         \* the point signalThreadHandler is at
    pc,                   \* the point each worker is at
    client,               \* the client whose connection a worker serves
    request,              \* the request a worker is serving
    victim,               \* the file a worker has chosen to expel; NoFile is
                          \* a pointer never initialised, or freed since
    status,               \* the status code a worker is about to answer with
    dead,                 \* the client processes that died
    up                    \* the server process exists

vars == <<fileQueue, file_queue_mutex, file_lock_mutex, acceptNewConnection,
          closeServer, signalThread, pc, client, request, victim, status, dead, up>>

mutexes == <<file_queue_mutex, file_lock_mutex>>
flags   == <<acceptNewConnection, closeServer, signalThread>>
session == <<client, request, victim>>
world   == <<dead, up>>

Threads == Workers \cup {SignalThread}

\* Waiting for file_lock_mutex to be given back would be needed while a
\* worker is at one of these.
HoldsFileLock == {"try", "create", "yieldQueue", "sleep", "unlockFile"}

\* The handler code between lock and unlock of file_queue_mutex.
Critical == {"lockFile", "try", "create", "yieldQueue", "unlockFile", "serve",
             "broadcast", "makeRoom", "expel", "sendVictim", "removeVictim",
             "checkLock", "receive", "reject", "reply"}

\* The code the lock wait runs without file_queue_mutex.
Blocked == {"sleep", "waiting", "reacquire"}

Labels == Critical \cup Blocked \cup {"idle", "reading", "lockQueue", "gone"}

TypeOK ==
    /\ fileQueue \in Seq(FileNode)
    /\ file_queue_mutex \in Workers \cup {NoThread}
    /\ file_lock_mutex \in Workers \cup {NoThread}
    /\ acceptNewConnection \in BOOLEAN
    /\ closeServer \in BOOLEAN
    /\ signalThread \in {"sigwait", "wakeFiles", "exited"}
    /\ pc \in [Workers -> Labels]
    /\ client \in [Workers -> Clients \cup {NoClient}]
    /\ request \in [Workers -> Requests \cup {NoRequest}]
    /\ victim \in [Workers -> Files \cup {NoFile}]
    /\ status \in [Workers -> {-1, 0}]
    /\ dead \subseteq Mortal
    /\ up \in BOOLEAN

Init ==
    /\ fileQueue = << >>
    /\ file_queue_mutex = NoThread
    /\ file_lock_mutex = NoThread
    /\ acceptNewConnection = TRUE
    /\ closeServer = FALSE
    /\ signalThread = "sigwait"
    /\ pc = [w \in Workers |-> "idle"]
    /\ client = [w \in Workers |-> NoClient]
    /\ request = [w \in Workers |-> NoRequest]
    /\ victim = [w \in Workers |-> NoFile]
    /\ status = [w \in Workers |-> 0]
    /\ dead = {}
    /\ up = TRUE

-----------------------------------------------------------------------------
Goto(w, label) == pc' = [pc EXCEPT ![w] = label]

Op(w)   == request[w].op
File(w) == request[w].file

Stopping == closeServer \/ ~acceptNewConnection

\* write() to a client that is still there.
CanSend(w) == client[w] \notin dead

Answer(w, s) == status' = [status EXCEPT ![w] = s]

-----------------------------------------------------------------------------
(* Connections                                                             *)

\* A worker pops the connection of a client that no other worker serves.
Connect(w, c) ==
    /\ pc[w] = "idle"
    /\ ~Stopping
    /\ c \notin dead
    /\ \A v \in Workers : client[v] # c
    /\ client' = [client EXCEPT ![w] = c]
    /\ Goto(w, "reading")
    /\ UNCHANGED <<fileQueue, mutexes, flags, request, victim, status, world>>

\* read() returns a request.  After SIGINT it is thrown away unanswered.
Receive(w, r) ==
    /\ pc[w] = "reading"
    /\ CanSend(w)
    /\ IF closeServer
       THEN /\ client' = [client EXCEPT ![w] = NoClient]
            /\ Goto(w, "gone")
            /\ UNCHANGED request
       ELSE /\ request' = [request EXCEPT ![w] = r]
            /\ Goto(w, "lockQueue")
            /\ UNCHANGED client
    /\ UNCHANGED <<fileQueue, mutexes, flags, victim, status, world>>

\* read() returns 0: the client closed the connection, or died.
Hangup(w) ==
    /\ pc[w] = "reading"
    /\ client' = [client EXCEPT ![w] = NoClient]
    /\ Goto(w, IF Stopping THEN "gone" ELSE "idle")
    /\ UNCHANGED <<fileQueue, mutexes, flags, request, victim, status, world>>

\* A worker with no connection leaves when it sees one of the flags.
Retire(w) ==
    /\ pc[w] = "idle"
    /\ Stopping
    /\ Goto(w, "gone")
    /\ UNCHANGED <<fileQueue, mutexes, flags, session, status, world>>

ClientDies(c) ==
    /\ c \in Mortal \ dead
    /\ dead' = dead \cup {c}
    /\ UNCHANGED <<fileQueue, mutexes, flags, pc, session, status, up>>

-----------------------------------------------------------------------------
(* Every handler starts by locking file_queue_mutex                        *)

\* Fault: the handler forgets to lock file_queue_mutex.
LockQueueForgotten(w) ==
    /\ pc[w] = "lockQueue"
    /\ Goto(w, CASE Op(w) \in {"OP_OPEN_FILE", "OP_LOCK_FILE"} -> "lockFile"
                 [] Op(w) \in {"OP_WRITE_FILE", "OP_APPEND_FILE"} -> "makeRoom"
                 [] OTHER -> "serve")
    /\ UNCHANGED <<fileQueue, mutexes, flags, session, status, world>>

LockQueue(w) ==
    /\ pc[w] = "lockQueue"
    /\ file_queue_mutex = NoThread
    /\ file_queue_mutex' = w
    /\ Goto(w, CASE Op(w) \in {"OP_OPEN_FILE", "OP_LOCK_FILE"} -> "lockFile"
                 [] Op(w) \in {"OP_WRITE_FILE", "OP_APPEND_FILE"} -> "makeRoom"
                 [] OTHER -> "serve")
    /\ UNCHANGED <<fileQueue, file_lock_mutex, flags, session, status, world>>

\* Fault: the end of the handlers leaves file_queue_mutex locked.
ReplyLocked(w) ==
    /\ pc[w] = "reply"
    /\ CanSend(w)
    /\ request' = [request EXCEPT ![w] = NoRequest]
    /\ Answer(w, 0)
    /\ Goto(w, "reading")
    /\ UNCHANGED <<fileQueue, mutexes, flags, client, victim, world>>

\* The common end of the handlers.  pthread_mutex_unlock of a default mutex
\* does not ask who locked it: after a lock wait it frees the mutex of
\* whoever is inside.
Reply(w) ==
    /\ pc[w] = "reply"
    /\ CanSend(w)
    /\ file_queue_mutex' = NoThread
    /\ request' = [request EXCEPT ![w] = NoRequest]
    /\ Answer(w, 0)
    /\ Goto(w, "reading")
    /\ UNCHANGED <<fileQueue, file_lock_mutex, flags, client, victim, world>>

\* The early returns of write_file_controller and readn_file_controller:
\* the answer is sent, file_queue_mutex stays locked.
Reject(w) ==
    /\ pc[w] = "reject"
    /\ CanSend(w)
    /\ request' = [request EXCEPT ![w] = NoRequest]
    /\ Answer(w, 0)
    /\ Goto(w, "reading")
    /\ UNCHANGED <<fileQueue, mutexes, flags, client, victim, world>>

\* SIGPIPE is not masked: answering a client that died ends the process.
Sigpipe(w) ==
    /\ pc[w] \in {"reply", "reject", "sendVictim", "checkLock"}
    /\ ~CanSend(w)
    /\ up' = FALSE
    /\ UNCHANGED <<fileQueue, mutexes, flags, pc, session, status, dead>>

-----------------------------------------------------------------------------
(* open_file_controller and lock_file_controller                           *)

\* Fault: open and lock run without file_lock_mutex.
LockFileLockForgotten(w) ==
    /\ pc[w] = "lockFile"
    /\ Goto(w, "try")
    /\ UNCHANGED <<fileQueue, mutexes, flags, session, status, world>>

LockFileLock(w) ==
    /\ pc[w] = "lockFile"
    /\ file_lock_mutex = NoThread
    /\ file_lock_mutex' = w
    /\ Goto(w, "try")
    /\ UNCHANGED <<fileQueue, file_queue_mutex, flags, session, status, world>>

\* The call in the condition of the while loop, up to the push.
TryStatus(w) ==
    IF Op(w) = "OP_OPEN_FILE"
    THEN OpenStatus(fileQueue, File(w), request[w].flags, client[w])
    ELSE LockStatus(fileQueue, File(w), client[w])

TryLocks(w) ==
    /\ Found(fileQueue, File(w))
    /\ TryStatus(w) = 0
    /\ Op(w) = "OP_OPEN_FILE" => "O_LOCK" \in request[w].flags

TryCreates(w) ==
    /\ Op(w) = "OP_OPEN_FILE"
    /\ Creates(fileQueue, File(w), request[w].flags)

\* Fault: one call of openVirtualFile or lockVirtualFile, no while loop.
TryOnce(w) ==
    /\ pc[w] = "try"
    /\ Answer(w, TryStatus(w))
    /\ Goto(w, IF TryCreates(w) THEN "create" ELSE "unlockFile")
    /\ fileQueue' = IF TryLocks(w)
                    THEN SetOwner(fileQueue, File(w), client[w])
                    ELSE fileQueue
    /\ UNCHANGED <<mutexes, flags, session, world>>

Try(w) ==
    /\ pc[w] = "try"
    /\ IF TryStatus(w) = -2
       THEN Goto(w, "yieldQueue") /\ UNCHANGED <<fileQueue, status>>
       ELSE /\ Answer(w, TryStatus(w))
            /\ Goto(w, IF TryCreates(w) THEN "create" ELSE "unlockFile")
            /\ fileQueue' = IF TryLocks(w)
                            THEN SetOwner(fileQueue, File(w), client[w])
                            ELSE fileQueue
    /\ UNCHANGED <<mutexes, flags, session, world>>

Create(w) ==
    /\ pc[w] = "create"
    /\ fileQueue' = Append(fileQueue,
                           NewNode(File(w), request[w].flags, client[w]))
    /\ Goto(w, "unlockFile")
    /\ UNCHANGED <<mutexes, flags, session, status, world>>

\* Fault: file_lock_mutex is kept.
UnlockFileLockForgotten(w) ==
    /\ pc[w] = "unlockFile"
    /\ Goto(w, "reply")
    /\ UNCHANGED <<fileQueue, mutexes, flags, session, status, world>>

UnlockFileLock(w) ==
    /\ pc[w] = "unlockFile"
    /\ file_lock_mutex' = NoThread
    /\ Goto(w, "reply")
    /\ UNCHANGED <<fileQueue, file_queue_mutex, flags, session, status, world>>

\* The body of the while loop: unlock the queue, then sleep.  The loop never
\* locks file_queue_mutex again, so the second turn unlocks somebody else's.
YieldQueue(w) ==
    /\ pc[w] = "yieldQueue"
    /\ file_queue_mutex' = NoThread
    /\ Goto(w, "sleep")
    /\ UNCHANGED <<fileQueue, file_lock_mutex, flags, session, status, world>>

CondWait(w) ==
    /\ pc[w] = "sleep"
    /\ file_lock_mutex' = NoThread
    /\ Goto(w, "waiting")
    /\ UNCHANGED <<fileQueue, file_queue_mutex, flags, session, status, world>>

\* pthread_cond_wait may return without a broadcast.
SpuriousWakeup(w) ==
    /\ pc[w] = "waiting"
    /\ Goto(w, "reacquire")
    /\ UNCHANGED <<fileQueue, mutexes, flags, session, status, world>>

\* Fault: the waiter goes on without file_lock_mutex.
ReacquireForgotten(w) ==
    /\ pc[w] = "reacquire"
    /\ Goto(w, "try")
    /\ UNCHANGED <<fileQueue, mutexes, flags, session, status, world>>

Reacquire(w) ==
    /\ pc[w] = "reacquire"
    /\ file_lock_mutex = NoThread
    /\ file_lock_mutex' = w
    /\ Goto(w, "try")
    /\ UNCHANGED <<fileQueue, file_queue_mutex, flags, session, status, world>>

-----------------------------------------------------------------------------
(* unlock_file_controller                                                  *)

\* Fault: the file is unlocked and nobody is told.
UnlockSilently(w) ==
    /\ pc[w] = "serve"
    /\ Op(w) = "OP_UNLOCK_FILE"
    /\ LET s == UnlockStatus(fileQueue, File(w), client[w]) IN
          /\ Answer(w, s)
          /\ fileQueue' = IF s = 0 THEN SetOwner(fileQueue, File(w), NoClient)
                          ELSE fileQueue
    /\ Goto(w, "reply")
    /\ UNCHANGED <<mutexes, flags, session, world>>

\* Fault: file_queue_mutex is given back before the broadcast, and again
\* after it.
UnlockTwice(w) ==
    /\ pc[w] = "serve"
    /\ Op(w) = "OP_UNLOCK_FILE"
    /\ LET s == UnlockStatus(fileQueue, File(w), client[w]) IN
          /\ Answer(w, s)
          /\ fileQueue' = IF s = 0 THEN SetOwner(fileQueue, File(w), NoClient)
                          ELSE fileQueue
          /\ Goto(w, IF s = 0 THEN "broadcast" ELSE "reply")
    /\ file_queue_mutex' = NoThread
    /\ UNCHANGED <<file_lock_mutex, flags, session, world>>

Unlock(w) ==
    /\ pc[w] = "serve"
    /\ Op(w) = "OP_UNLOCK_FILE"
    /\ LET s == UnlockStatus(fileQueue, File(w), client[w]) IN
          /\ Answer(w, s)
          /\ fileQueue' = IF s = 0 THEN SetOwner(fileQueue, File(w), NoClient)
                          ELSE fileQueue
          /\ Goto(w, IF s = 0 THEN "broadcast" ELSE "reply")
    /\ UNCHANGED <<mutexes, flags, session, world>>

\* lock(file_lock_mutex), broadcast(file_lock_cond), unlock(file_lock_mutex)
Broadcast(w) ==
    /\ pc[w] = "broadcast"
    /\ file_lock_mutex = NoThread
    /\ pc' = [v \in Workers |-> IF v = w THEN "reply"
                                ELSE IF pc[v] = "waiting" THEN "reacquire"
                                ELSE pc[v]]
    /\ UNCHANGED <<fileQueue, mutexes, flags, session, status, world>>

-----------------------------------------------------------------------------
(* The handlers of one step: delete, close, read and read n                *)

\* removeNode takes the file out of the list and frees it: a worker that has
\* chosen it as its victim is left with a pointer to nothing.
Discard(f) ==
    /\ fileQueue' = RemoveNode(fileQueue, Position(fileQueue, f))
    /\ victim' = [v \in Workers |-> IF victim[v] = f THEN NoFile ELSE victim[v]]

\* The answer is 0 whether the file was deleted or not.
Delete(w) ==
    /\ pc[w] = "serve"
    /\ Op(w) = "OP_DELETE_FILE"
    /\ IF DeleteSucceeds(fileQueue, File(w), client[w])
       THEN Discard(File(w))
       ELSE UNCHANGED <<fileQueue, victim>>
    /\ Answer(w, 0)
    /\ Goto(w, "reply")
    /\ UNCHANGED <<mutexes, flags, client, request, world>>

\* Likewise; closing a closed file succeeds for anybody.
CloseFile(w) ==
    /\ pc[w] = "serve"
    /\ Op(w) = "OP_CLOSE_FILE"
    /\ fileQueue' = IF CloseSucceeds(fileQueue, File(w), client[w])
                    THEN Close(fileQueue, File(w)) ELSE fileQueue
    /\ Answer(w, 0)
    /\ Goto(w, "reply")
    /\ UNCHANGED <<mutexes, flags, session, world>>

Read(w) ==
    /\ pc[w] = "serve"
    /\ Op(w) = "OP_READ_FILE"
    /\ Answer(w, IF Usable(fileQueue, File(w)) THEN 0 ELSE -1)
    /\ Goto(w, "reply")
    /\ UNCHANGED <<fileQueue, mutexes, flags, session, world>>

\* A list of no names takes the early return.
ReadN(w) ==
    /\ pc[w] = "serve"
    /\ Op(w) = "OP_READ_N_FILES"
    /\ LET listed == ListedFiles(fileQueue, request[w].n) IN
          /\ Answer(w, IF listed = 0 THEN -1 ELSE 0)
          /\ Goto(w, IF listed = 0 THEN "reject" ELSE "reply")
    /\ UNCHANGED <<fileQueue, mutexes, flags, session, world>>

-----------------------------------------------------------------------------
(* write_file_controller and append_file_controller                        *)

\* Only a write is refused for its size.
TooBig(w) == Op(w) = "OP_WRITE_FILE" /\ request[w].n > max_mem_size

\* Fault: an append does not look at the space that is left.
MakeRoomForWrites(w) ==
    /\ pc[w] = "makeRoom"
    /\ Answer(w, IF TooBig(w) THEN -1 ELSE 0)
    /\ Goto(w, IF TooBig(w) THEN "reject"
               ELSE IF /\ Op(w) = "OP_WRITE_FILE"
                       /\ CapacityMiss(fileQueue, request[w].n) THEN "expel"
               ELSE "checkLock")
    /\ UNCHANGED <<fileQueue, mutexes, flags, session, world>>

MakeRoom(w) ==
    /\ pc[w] = "makeRoom"
    /\ Answer(w, IF TooBig(w) THEN -1 ELSE 0)
    /\ Goto(w, IF TooBig(w) THEN "reject"
               ELSE IF CapacityMiss(fileQueue, request[w].n) THEN "expel"
               ELSE "checkLock")
    /\ UNCHANGED <<fileQueue, mutexes, flags, session, world>>

\* The victim is taken whoever has it locked, and even when it is the file
\* being written.  With no victim expelFile returns a pointer it has not
\* initialised.
Expel(w) ==
    /\ pc[w] = "expel"
    /\ \E f \in IF Victims(fileQueue, request[w].n) = {} THEN {NoFile}
               ELSE {fileQueue[i].pathname :
                         i \in Victims(fileQueue, request[w].n)} :
          victim' = [victim EXCEPT ![w] = f]
    /\ Goto(w, "sendVictim")
    /\ UNCHANGED <<fileQueue, mutexes, flags, client, request, status, world>>

\* What a bad pointer points to is read, and sent: the process may end here.
SendVictim(w) ==
    /\ pc[w] = "sendVictim"
    /\ CanSend(w)
    /\ \/ Goto(w, "removeVictim") /\ UNCHANGED up
       \/ ~Found(fileQueue, victim[w]) /\ up' = FALSE /\ UNCHANGED pc
    /\ UNCHANGED <<fileQueue, mutexes, flags, session, status, dead>>

\* Fault: a capacity miss empties the whole storage.
RemoveAll(w) ==
    /\ pc[w] = "removeVictim"
    /\ Found(fileQueue, victim[w])
    /\ fileQueue' = << >>
    /\ victim' = [v \in Workers |-> NoFile]
    /\ Goto(w, "checkLock")
    /\ UNCHANGED <<mutexes, flags, client, request, status, world>>

RemoveVictim(w) ==
    /\ pc[w] = "removeVictim"
    /\ Found(fileQueue, victim[w])
    /\ Discard(victim[w])
    /\ Goto(w, "checkLock")
    /\ UNCHANGED <<mutexes, flags, client, request, status, world>>

\* A bad pointer may be one that is left of an earlier walk, to a node still
\* in the list or not, or no pointer at all.
RemoveGarbage(w) ==
    /\ pc[w] = "removeVictim"
    /\ ~Found(fileQueue, victim[w])
    /\ \/ /\ \E f \in Files : Found(fileQueue, f) /\ Discard(f)
          /\ Goto(w, "checkLock")
          /\ UNCHANGED up
       \/ Goto(w, "checkLock") /\ UNCHANGED <<fileQueue, victim, up>>
       \/ up' = FALSE /\ UNCHANGED <<fileQueue, victim, pc>>
    /\ UNCHANGED <<mutexes, flags, client, request, status, dead>>

\* Fault: a write asks whether the file is open, not who has it locked.
CheckOpen(w) ==
    /\ pc[w] = "checkLock"
    /\ CanSend(w)
    /\ LET open == Usable(fileQueue, File(w)) IN
          /\ Answer(w, IF open THEN 0 ELSE -1)
          /\ Goto(w, IF open THEN "receive" ELSE "reply")
    /\ UNCHANGED <<fileQueue, mutexes, flags, session, world>>

CheckLock(w) ==
    /\ pc[w] = "checkLock"
    /\ CanSend(w)
    /\ LET held == HasFileLock(fileQueue, File(w), client[w]) IN
          /\ Answer(w, IF held THEN 0 ELSE -1)
          /\ Goto(w, IF held THEN "receive" ELSE "reply")
    /\ UNCHANGED <<fileQueue, mutexes, flags, session, world>>

\* readData of a write reads the end of file of a dead client for ever.
Spins(w) == pc[w] = "receive" /\ Op(w) = "OP_WRITE_FILE" /\ ~CanSend(w)

\* The single read() of an append that meets the end of file succeeds, and a
\* buffer of zeros is stored.
Store(w) ==
    /\ pc[w] = "receive"
    /\ ~Spins(w)
    /\ LET usable == Usable(fileQueue, File(w)) IN
          /\ Answer(w, IF usable THEN 0 ELSE -1)
          /\ fileQueue' = IF ~usable THEN fileQueue
                          ELSE IF Op(w) = "OP_WRITE_FILE"
                          THEN SetSize(fileQueue, File(w), request[w].n)
                          ELSE Grow(fileQueue, File(w), request[w].n)
    /\ Goto(w, "reply")
    /\ UNCHANGED <<mutexes, flags, session, world>>

\* The read() of an append fails when the client died with an answer unread:
\* nothing is stored and nothing answered.
ReceiveFails(w) ==
    /\ pc[w] = "receive"
    /\ Op(w) = "OP_APPEND_FILE"
    /\ ~CanSend(w)
    /\ file_queue_mutex' = NoThread
    /\ request' = [request EXCEPT ![w] = NoRequest]
    /\ Answer(w, 0)
    /\ Goto(w, "reading")
    /\ UNCHANGED <<fileQueue, file_lock_mutex, flags, client, victim, world>>

-----------------------------------------------------------------------------
(* signalThreadHandler                                                     *)

\* Fault: the handler goes back to sigwait and never returns.
SignalForever(sig) ==
    /\ signalThread = "sigwait"
    /\ IF sig = "SIGHUP"
       THEN acceptNewConnection' = FALSE /\ UNCHANGED closeServer
       ELSE closeServer' = TRUE /\ UNCHANGED acceptNewConnection
    /\ UNCHANGED <<fileQueue, mutexes, signalThread, pc, session, status,
                   world>>

\* One signal is taken in the life of the server.
Signal(sig) ==
    /\ signalThread = "sigwait"
    /\ IF sig = "SIGHUP"
       THEN acceptNewConnection' = FALSE /\ UNCHANGED closeServer
       ELSE closeServer' = TRUE /\ UNCHANGED acceptNewConnection
    /\ signalThread' = "wakeFiles"
    /\ UNCHANGED <<fileQueue, mutexes, pc, session, status, world>>

\* lock(file_queue_mutex), broadcast(file_queue_cond), unlock: no thread ever
\* waits on file_queue_cond, so the broadcast wakes nobody.
WakeFiles ==
    /\ signalThread = "wakeFiles"
    /\ file_queue_mutex = NoThread
    /\ signalThread' = "exited"
    /\ UNCHANGED <<fileQueue, mutexes, acceptNewConnection, closeServer, pc,
                   session, status, world>>

\* main joins the workers, then the signal thread, and returns.
Terminated ==
    \/ ~up
    \/ /\ \A w \in Workers : pc[w] = "gone"
       /\ signalThread = "exited"

Stutter ==
    /\ Terminated \/ \E w \in Workers : Spins(w)
    /\ UNCHANGED vars

-----------------------------------------------------------------------------
OpenOrLock(w) ==
    \/ LockFileLock(w) \/ Try(w) \/ Create(w) \/ UnlockFileLock(w)
    \/ YieldQueue(w) \/ CondWait(w) \/ Reacquire(w)

Serve(w) ==
    \/ Unlock(w) \/ Broadcast(w) \/ Delete(w) \/ CloseFile(w)
    \/ Read(w) \/ ReadN(w)

WriteOrAppend(w) ==
    \/ MakeRoom(w) \/ Expel(w) \/ SendVictim(w) \/ RemoveVictim(w)
    \/ RemoveGarbage(w) \/ CheckLock(w) \/ Store(w) \/ ReceiveFails(w)

\* What a worker does once it has a request.
WorkerStep(w) ==
    \/ LockQueue(w) \/ OpenOrLock(w) \/ Serve(w) \/ WriteOrAppend(w)
    \/ Reply(w) \/ Reject(w) \/ Sigpipe(w) \/ Retire(w)

ClientStep(w) ==
    \/ \E c \in Clients : Connect(w, c)
    \/ \E r \in Requests : Receive(w, r)
    \/ Hangup(w)

Next ==
    \/ /\ up
       /\ \/ \E w \in Workers : WorkerStep(w) \/ ClientStep(w)
                                \/ SpuriousWakeup(w)
          \/ \E c \in Clients : ClientDies(c)
          \/ \E sig \in Signals : Signal(sig)
          \/ WakeFiles
    \/ Stutter

Spec == Init /\ [][Next]_vars

\* w needs its client to go on: to send the data it announced, or to take the
\* content of a file, more than a socket buffers.  (A Response fits into the
\* buffer.)
AwaitsClient(w) ==
    \/ Spins(w)
    \/ /\ CanSend(w)
       /\ \/ pc[w] \in {"receive", "sendVictim"}
          \/ pc[w] = "reply" /\ Op(w) = "OP_READ_FILE"

\* The scheduler runs every worker, and no thread is passed over for ever by
\* a mutex that is given back again and again.  Nothing is assumed of the
\* clients: they ask, send, take and leave when they like, or never.
Fairness ==
    /\ \A w \in Workers : SF_vars(up /\ ~AwaitsClient(w) /\ WorkerStep(w))
    /\ SF_vars(up /\ WakeFiles)

FairSpec == Spec /\ Fairness

\* Clients that close their connection at last: what main waits for.
ClientsLeave == \A w \in Workers : SF_vars(up /\ Hangup(w))

ShutdownSpec == FairSpec /\ ClientsLeave

-----------------------------------------------------------------------------
(* Workloads                                                               *)

MayWait(r) ==
    \/ r.op = "OP_LOCK_FILE"
    \/ r.op = "OP_OPEN_FILE" /\ "O_LOCK" \in r.flags /\ "O_CREATE" \notin r.flags

\* No request can find the file locked and wait.
NoLockWaits == \A r \in Requests : ~MayWait(r)

\* The command line client never creates a file without locking it.
CreatorsLock ==
    \A r \in Requests : r.op = "OP_OPEN_FILE" => "O_LOCK" \in r.flags

\* The lock state of a pathname, read off the list.
LockIn(q, f) ==
    IF ~Found(q, f) THEN Absent
    ELSE IF ~Node(q, f).isOpen THEN Closed
    ELSE Node(q, f).client_id

LockOf(f) == LockIn(fileQueue, f)

-----------------------------------------------------------------------------
(* Safety                                                                  *)

\* A name is in the storage once and the storage never exceeds max_file
\* (openVirtualFile), even though the test and the push of a woken worker run
\* without file_queue_mutex: file_lock_mutex is what serialises them.
UniquePathnames ==
    /\ \A i, j \in DOMAIN fileQueue :
          fileQueue[i].pathname = fileQueue[j].pathname => i = j
    /\ Len(fileQueue) <= max_file

\* At most one worker is between lock and unlock of file_lock_mutex
\* (open_file_controller, lock_file_controller).
FileLockExclusion ==
    \A v, w \in Workers :
        pc[v] \in HoldsFileLock /\ pc[w] \in HoldsFileLock => v = w

\* No lost wakeup: while a worker sleeps, or is about to sleep, on a file that
\* anybody could lock, some worker is on its way to broadcast file_lock_cond.
\* (unlock_file_controller frees the file first and broadcasts later, holding
\* the mutex the waiters test under only for the broadcast.)
NoLostWakeup ==
    \A w \in Workers :
        /\ pc[w] \in {"yieldQueue", "sleep", "waiting"}
        /\ LockOf(File(w)) = NoClient
        => \E v \in Workers : pc[v] = "broadcast"

\* At most one worker runs the code between lock and unlock of
\* file_queue_mutex (every handler of controller.c).
QueueExclusion ==
    \A v, w \in Workers :
        pc[v] \in Critical /\ pc[w] \in Critical => v = w

\* While the data of a write or an append is on its way the file stays where
\* it is, locked by the writer: neither an eviction nor a delete of another
\* client slips between hasFileLock and writeVirtualFile.
WriterKeepsFile ==
    \A w \in Workers :
        pc[w] = "receive" => HasFileLock(fileQueue, File(w), client[w])

\* The files never take more room than max_mem_size: what expelling a file
\* "per capacity miss" is for.
MemoryBound == StorageSize(fileQueue) <= max_mem_size

\* The comment above getFileNode, "ATTENZIONE MUTEX DA ESEGUIRE FUORI DA
\* FUNZIONE": who walks the list of files has locked file_queue_mutex.
CallerHoldsMutex ==
    \A w \in Workers :
        pc[w] \in {"try", "create", "serve", "makeRoom", "expel",
                  "removeVictim", "checkLock"}
        => file_queue_mutex = w

-----------------------------------------------------------------------------
(* Steps                                                                   *)

\* A mutex is given back by the thread that locked it, as pthreads demands:
\* the worker that held file_queue_mutex is the one that moved.
UnlockedByOwner ==
    [][file_queue_mutex' = NoThread /\ file_queue_mutex # NoThread
       => pc'[file_queue_mutex] # pc[file_queue_mutex]]_vars

AsksLock(r) ==
    \/ r.op = "OP_LOCK_FILE"
    \/ r.op = "OP_OPEN_FILE" /\ "O_LOCK" \in r.flags

\* w is about to answer "Lock correttamente acquisito" or "File opened!".
Granted(w) ==
    /\ pc[w] \in {"unlockFile", "reply"}
    /\ status[w] = 0
    /\ AsksLock(request[w])

HasLock(w) == HasFileLock(fileQueue, File(w), client[w])

\* A client is granted a lock only when it has it, and the one thing that can
\* take it away before the grant is answered is an eviction, although the
\* worker of a client that waited answers without file_queue_mutex
\* (open_file_controller, lock_file_controller).
GrantIsTrue ==
    [][\A w \in Workers :
          Granted(w)' /\ (Granted(w) => HasLock(w))
          => \/ HasLock(w)'
             \/ \E v \in Workers : RemoveVictim(v) \/ RemoveGarbage(v)]_vars

Locks == INSTANCE LockTable
         WITH lock <- [f \in Files |-> LockOf(f)],
              Free <- NoClient

\* The handlers, with all their interleavings, implement the lock table.
ImplementsLockTable == Locks!Spec

-----------------------------------------------------------------------------
(* Liveness                                                                *)

\* A worker sleeping on a file that has become free does not sleep for ever
\* (the broadcast of unlock_file_controller).
WaiterWakes ==
    \A w \in Workers :
        pc[w] = "waiting" /\ LockOf(File(w)) = NoClient ~> pc[w] # "waiting"

\* A client that never sends, or never takes, what its worker waits for:
\* because it died, is stopped, or does not care.
ClientStalls == \E w \in Workers : <>[]AwaitsClient(w)

\* A client that never closes its connection: main waits for it.
ClientStays == \E w \in Workers : []<>(pc[w] = "reading")

\* Whatever the lock waiters do to file_queue_mutex, a request that needs it
\* gets it, unless the worker of another client waits for its client for ever
\* (or the server is killed by SIGPIPE).
QueueIsGranted ==
    ClientStalls
    \/ \A w \in Workers : pc[w] = "lockQueue" ~> pc[w] # "lockQueue" \/ ~up

\* Every request is answered but one that waits for the lock of a file (the
\* end of every handler of controller.c), as long as no client keeps its
\* worker, and with it file_queue_mutex, waiting for ever.
RequestsAnswered ==
    ClientStalls
    \/ \A w \in Workers :
          pc[w] = "lockQueue" /\ ~MayWait(request[w])
          ~> pc[w] = "reading" \/ ~up

\* After a signal the workers end, and main with them (server.c), but for those
\* that wait for the lock of a file, unless a client keeps its worker waiting
\* for ever or never leaves.
ShutdownCompletes ==
    ClientStalls \/ ClientStays
    \/ (Stopping ~> \/ Terminated
                    \/ /\ \A w \in Workers : pc[w] \in {"gone", "waiting"}
                       /\ signalThread = "exited")

\* "Sveglia eventuali thread che sono in attesa di mutex su file": after a
\* signal no worker is left asleep on the lock of a file.
SignalWakesLockWaiters ==
    \A w \in Workers : Stopping ~> pc[w] # "waiting"
=============================================================================

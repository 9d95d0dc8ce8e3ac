------------------------------- MODULE Dispatch -------------------------------
(***************************************************************************)
(* How a connection reaches a worker (src/src/server/server.c and queue.c): *)
(* the main thread starts the signal thread, initialises the flags, accepts *)
(* connections and pushes them on connectionQueue; a worker pops one and    *)
(* reads it to its end; a signal stops the lot.                             *)
(*                                                                         *)
(* main pushes &fd_client_skt, the address of its one variable, so every    *)
(* element of connectionQueue is the same pointer and the queue is no more  *)
(* than its length: what pop returns is whatever main accepted last.        *)
(*                                                                         *)
(* connection_queue_mutex is locked and unlocked by the same thread around  *)
(* every use of the queue, so each critical section is one step; the call   *)
(* of accept, which writes fd_client_skt, is outside of it and a step of    *)
(* its own, as is the select before it.  What happens to a request is       *)
(* FileServer's subject: here it is answered in one step.                   *)
(***************************************************************************)
EXTENDS Integers, FiniteSets

CONSTANTS
    Workers,      \* the threads of threadPool
    Conns,        \* the connections clients make
    Descriptors,  \* the descriptor numbers accept may return
    Signals,      \* the signals the server may be sent
    NoConn        \* a descriptor that is not open, a worker with no socket

ASSUME DispatchAssumption ==
    /\ Descriptors \subseteq Nat
    /\ NoConn \notin Conns
    /\ Signals \subseteq {"SIGHUP", "SIGINT", "SIGQUIT"}
    /\ IsFiniteSet(Workers)

\* What a failed accept returns.
Error == -1

VARIABLES
    master,               \* the point main is at
    signalThread,         \* the point signalThreadHandler is at
    acceptNewConnection,
    closeServer,
    pipeClosed,           \* handler_signal_pipe[1] was closed: select returns
    backlog,              \* connections the kernel holds for accept
    fd_client_skt,        \* main's variable
    queueLen,             \* connectionQueue->len
    descriptors,          \* the descriptor table of the process
    pc,                   \* the point each worker is at
    fd,                   \* the descriptor each worker popped
    socket,               \* the connection a worker blocked in read() is on
    client,               \* the state of each connection at the client's end
    overtaken             \* main wrote fd_client_skt with elements queued

flags    == <<acceptNewConnection, closeServer>>
signal   == <<signalThread, pipeClosed>>
accepted == <<fd_client_skt, overtaken>>
thread   == <<pc, fd, socket>>

vars == <<master, signal, flags, backlog, accepted, queueLen, descriptors,
          thread, client>>

Stopping == closeServer \/ ~acceptNewConnection

Serving == {"open", "reading", "close"}

TypeOK ==
    /\ master \in {"boot", "pipe", "loop", "select", "accept", "push", "join",
                   "joined", "exited"}
    /\ signalThread \in {"sigwait", "closePipe", "wakeWorkers", "exited"}
    /\ acceptNewConnection \in BOOLEAN
    /\ closeServer \in BOOLEAN
    /\ pipeClosed \in BOOLEAN
    /\ backlog \subseteq Conns
    /\ fd_client_skt \in Descriptors \cup {Error}
    /\ queueLen \in Nat
    /\ descriptors \in [Descriptors -> Conns \cup {NoConn}]
    /\ pc \in [Workers -> {"idle", "waiting", "gone"} \cup Serving]
    /\ fd \in [Workers -> Descriptors \cup {Error}]
    /\ socket \in [Workers -> Conns \cup {NoConn}]
    /\ client \in [Conns -> {"away", "connected", "served", "left"}]
    /\ overtaken \in BOOLEAN

\* The flags are globals: false until main sets them.
Init ==
    /\ master = "boot"
    /\ signalThread = "sigwait"
    /\ acceptNewConnection = FALSE
    /\ closeServer = FALSE
    /\ pipeClosed = FALSE
    /\ backlog = {}
    /\ fd_client_skt = Error
    /\ queueLen = 0
    /\ descriptors = [f \in Descriptors |-> NoConn]
    /\ pc = [w \in Workers |-> "idle"]
    /\ fd = [w \in Workers |-> Error]
    /\ socket = [w \in Workers |-> NoConn]
    /\ client = [c \in Conns |-> "away"]
    /\ overtaken = FALSE

-----------------------------------------------------------------------------
(* main                                                                    *)

\* The flags are set when the signal thread has been running for a while:
\* what it wrote to them is overwritten.
Boot ==
    /\ master = "boot"
    /\ acceptNewConnection' = TRUE
    /\ closeServer' = FALSE
    /\ master' = "pipe"
    /\ UNCHANGED <<signal, backlog, accepted, queueLen, descriptors, thread,
                   client>>

\* The pipe is made and the workers are started.
MakePipe ==
    /\ master = "pipe"
    /\ master' = "loop"
    /\ UNCHANGED <<signal, flags, backlog, accepted, queueLen, descriptors,
                   thread, client>>

Started == master \notin {"boot", "pipe"}

TestFlags ==
    /\ master = "loop"
    /\ master' = IF Stopping THEN "join" ELSE "select"
    /\ UNCHANGED <<signal, flags, backlog, accepted, queueLen, descriptors,
                   thread, client>>

\* select returns when a connection is waiting or the pipe was closed.  The
\* pipe has a lower number than the server socket: when both are ready the for
\* loop meets the pipe first and breaks.
Select ==
    /\ master = "select"
    /\ pipeClosed \/ backlog # {}
    /\ master' = IF pipeClosed THEN "loop" ELSE "accept"
    /\ UNCHANGED <<signal, flags, backlog, accepted, queueLen, descriptors,
                   thread, client>>

\* accept returns the lowest number that is free.  It is called for what select
\* saw: the pipe may have been closed since.
Accept(c, f) ==
    /\ master = "accept"
    /\ c \in backlog
    /\ descriptors[f] = NoConn
    /\ \A g \in Descriptors : g < f => descriptors[g] # NoConn
    /\ backlog' = backlog \ {c}
    /\ descriptors' = [descriptors EXCEPT ![f] = c]
    /\ fd_client_skt' = f
    /\ overtaken' = (overtaken \/ queueLen > 0)
    /\ master' = "push"
    /\ UNCHANGED <<signal, flags, queueLen, thread, client>>

\* With every descriptor in use accept returns -1, into the same variable.
AcceptFails ==
    /\ master = "accept"
    /\ \A f \in Descriptors : descriptors[f] # NoConn
    /\ fd_client_skt' = Error
    /\ overtaken' = (overtaken \/ queueLen > 0)
    /\ master' = "loop"
    /\ UNCHANGED <<signal, flags, backlog, queueLen, descriptors, thread,
                   client>>

Waiters == {w \in Workers : pc[w] = "waiting"}

\* Fault: the push does not signal connection_queue_cond.
PushSilently ==
    /\ master = "push"
    /\ queueLen' = queueLen + 1
    /\ master' = "loop"
    /\ UNCHANGED <<signal, flags, backlog, accepted, descriptors, thread,
                   client>>

\* pthread_cond_signal wakes one waiter, if there is one.
Push ==
    /\ master = "push"
    /\ queueLen' = queueLen + 1
    /\ IF Waiters = {} THEN UNCHANGED pc
       ELSE \E w \in Waiters : pc' = [pc EXCEPT ![w] = "idle"]
    /\ master' = "loop"
    /\ UNCHANGED <<signal, flags, backlog, accepted, descriptors, fd, socket,
                   client>>

\* "Tutte le connessioni sono chiuse": the workers have returned.
JoinWorkers ==
    /\ master = "join"
    /\ \A w \in Workers : pc[w] = "gone"
    /\ master' = "joined"
    /\ UNCHANGED <<signal, flags, backlog, accepted, queueLen, descriptors,
                   thread, client>>

\* The process ends and with it every descriptor and pending connection.
JoinSignalThread ==
    /\ master = "joined"
    /\ signalThread = "exited"
    /\ descriptors' = [f \in Descriptors |-> NoConn]
    /\ backlog' = {}
    /\ master' = "exited"
    /\ UNCHANGED <<signal, flags, accepted, queueLen, thread, client>>

-----------------------------------------------------------------------------
(* worker                                                                  *)

Goto(w, label) == pc' = [pc EXCEPT ![w] = label]

\* The while loop around pthread_cond_wait; the mutex is held throughout.
Sleep(w) ==
    /\ Started
    /\ pc[w] = "idle"
    /\ ~Stopping
    /\ queueLen = 0
    /\ Goto(w, "waiting")
    /\ UNCHANGED <<master, signal, flags, backlog, accepted, queueLen,
                   descriptors, fd, socket, client>>

\* Elements that are still queued stay there.
Retire(w) ==
    /\ Started
    /\ pc[w] = "idle"
    /\ Stopping
    /\ Goto(w, "gone")
    /\ UNCHANGED <<master, signal, flags, backlog, accepted, queueLen,
                   descriptors, fd, socket, client>>

\* Fault: if instead of while, a woken worker pops an empty queue.
PopUnchecked(w) ==
    /\ Started
    /\ pc[w] = "idle"
    /\ ~Stopping
    /\ queueLen' = queueLen - 1
    /\ fd' = [fd EXCEPT ![w] = fd_client_skt]
    /\ Goto(w, IF fd_client_skt = Error THEN "gone" ELSE "open")
    /\ UNCHANGED <<master, signal, flags, backlog, accepted, descriptors,
                   socket, client>>

\* Fault: pop leaves the element in the queue.
PopKeeps(w) ==
    /\ Started
    /\ pc[w] = "idle"
    /\ ~Stopping
    /\ queueLen > 0
    /\ fd' = [fd EXCEPT ![w] = fd_client_skt]
    /\ Goto(w, IF fd_client_skt = Error THEN "gone" ELSE "open")
    /\ UNCHANGED <<master, signal, flags, backlog, accepted, queueLen,
                   descriptors, socket, client>>

\* The pointer that is popped is read now.  A worker that reads -1 returns.
Pop(w) ==
    /\ Started
    /\ pc[w] = "idle"
    /\ ~Stopping
    /\ queueLen > 0
    /\ queueLen' = queueLen - 1
    /\ fd' = [fd EXCEPT ![w] = fd_client_skt]
    /\ Goto(w, IF fd_client_skt = Error THEN "gone" ELSE "open")
    /\ UNCHANGED <<master, signal, flags, backlog, accepted, descriptors,
                   socket, client>>

\* pthread_cond_wait may return without a signal.
SpuriousWakeup(w) ==
    /\ pc[w] = "waiting"
    /\ Goto(w, "idle")
    /\ UNCHANGED <<master, signal, flags, backlog, accepted, queueLen,
                   descriptors, fd, socket, client>>

\* read() resolves the number once and keeps the socket until it returns.
Read(w) ==
    /\ pc[w] = "open"
    /\ socket' = [socket EXCEPT ![w] = descriptors[fd[w]]]
    /\ Goto(w, IF descriptors[fd[w]] = NoConn THEN "close" ELSE "reading")
    /\ UNCHANGED <<master, signal, flags, backlog, accepted, queueLen,
                   descriptors, fd, client>>

\* Fault: the connection is closed after every request.
ServeAndClose(w) ==
    /\ pc[w] = "reading"
    /\ client[socket[w]] \in {"connected", "served"}
    /\ Goto(w, IF closeServer THEN "close" ELSE "open")
    /\ descriptors' = [descriptors EXCEPT ![fd[w]] = NoConn]
    /\ client' = [client EXCEPT ![socket[w]] = "served"]
    /\ socket' = [socket EXCEPT ![w] = NoConn]
    /\ UNCHANGED <<master, signal, flags, backlog, accepted, queueLen, fd>>

\* A request arrives.  The answer is written to the descriptor: to whoever is
\* at its other end by now, if anybody.  After SIGINT the request is dropped.
Serve(w) ==
    /\ pc[w] = "reading"
    /\ client[socket[w]] \in {"connected", "served"}
    /\ Goto(w, IF closeServer THEN "close" ELSE "open")
    /\ LET reader == descriptors[fd[w]] IN
          client' = [c \in Conns |->
                        IF c = reader /\ ~closeServer /\ client[c] = "connected"
                        THEN "served" ELSE client[c]]
    /\ socket' = [socket EXCEPT ![w] = NoConn]
    /\ UNCHANGED <<master, signal, flags, backlog, accepted, queueLen,
                   descriptors, fd>>

EndOfFile(w) ==
    /\ pc[w] = "reading"
    /\ client[socket[w]] = "left"
    /\ socket' = [socket EXCEPT ![w] = NoConn]
    /\ Goto(w, "close")
    /\ UNCHANGED <<master, signal, flags, backlog, accepted, queueLen,
                   descriptors, fd, client>>

\* Fault: the worker goes back to its loop without closing the connection.
ForgetClose(w) ==
    /\ pc[w] = "close"
    /\ Goto(w, IF Stopping THEN "gone" ELSE "idle")
    /\ UNCHANGED <<master, signal, flags, backlog, accepted, queueLen,
                   descriptors, fd, socket, client>>

\* close(), which names a number and not a connection, and the test after it.
\* The worker never uses the number again.
Close(w) ==
    /\ pc[w] = "close"
    /\ descriptors' = [descriptors EXCEPT ![fd[w]] = NoConn]
    /\ fd' = [fd EXCEPT ![w] = Error]
    /\ Goto(w, IF Stopping THEN "gone" ELSE "idle")
    /\ UNCHANGED <<master, signal, flags, backlog, accepted, queueLen,
                   socket, client>>

-----------------------------------------------------------------------------
(* signalThreadHandler                                                     *)

Signal(sig) ==
    /\ signalThread = "sigwait"
    /\ IF sig = "SIGHUP"
       THEN acceptNewConnection' = FALSE /\ UNCHANGED closeServer
       ELSE closeServer' = TRUE /\ UNCHANGED acceptNewConnection
    /\ signalThread' = "closePipe"
    /\ UNCHANGED <<master, pipeClosed, backlog, accepted, queueLen,
                   descriptors, thread, client>>

\* Before main has made the pipe the number to close is still 0 or -1: the
\* server loses its stdin, or nothing.
ClosePipe ==
    /\ signalThread = "closePipe"
    /\ pipeClosed' = Started
    /\ signalThread' = "wakeWorkers"
    /\ UNCHANGED <<master, flags, backlog, accepted, queueLen, descriptors,
                   thread, client>>

\* Fault: signal instead of broadcast.
WakeOneWorker ==
    /\ signalThread = "wakeWorkers"
    /\ IF Waiters = {} THEN UNCHANGED pc
       ELSE \E w \in Waiters : Goto(w, "idle")
    /\ signalThread' = "exited"
    /\ UNCHANGED <<master, flags, pipeClosed, backlog, accepted, queueLen,
                   descriptors, fd, socket, client>>

\* The broadcast on file_queue_cond that follows is FileServer's WakeFiles.
WakeWorkers ==
    /\ signalThread = "wakeWorkers"
    /\ pc' = [w \in Workers |-> IF pc[w] = "waiting" THEN "idle" ELSE pc[w]]
    /\ signalThread' = "exited"
    /\ UNCHANGED <<master, flags, pipeClosed, backlog, accepted, queueLen,
                   descriptors, fd, socket, client>>

-----------------------------------------------------------------------------
(* Clients                                                                 *)

Connect(c) ==
    /\ client[c] = "away"
    /\ Started /\ master # "exited"
    /\ client' = [client EXCEPT ![c] = "connected"]
    /\ backlog' = backlog \cup {c}
    /\ UNCHANGED <<master, signal, flags, accepted, queueLen, descriptors,
                   thread>>

Leave(c) ==
    /\ client[c] \in {"connected", "served"}
    /\ client' = [client EXCEPT ![c] = "left"]
    /\ UNCHANGED <<master, signal, flags, backlog, accepted, queueLen,
                   descriptors, thread>>

-----------------------------------------------------------------------------
MainStep ==
    \/ Boot \/ MakePipe \/ TestFlags \/ Select \/ AcceptFails \/ Push
    \/ JoinWorkers \/ JoinSignalThread
    \/ \E c \in Conns, f \in Descriptors : Accept(c, f)

WorkerStep(w) ==
    \/ Sleep(w) \/ Retire(w) \/ Pop(w)
    \/ Read(w) \/ Serve(w) \/ EndOfFile(w) \/ Close(w)

SignalStep == ClosePipe \/ WakeWorkers

Exited == master = "exited" /\ UNCHANGED vars

Next ==
    \/ MainStep
    \/ \E w \in Workers : WorkerStep(w) \/ SpuriousWakeup(w)
    \/ \E sig \in Signals : Signal(sig)
    \/ SignalStep
    \/ \E c \in Conns : Connect(c) \/ Leave(c)
    \/ Exited

Spec == Init /\ [][Next]_vars

\* Every thread runs.  A client that is being read sends a request, and one
\* that has its answer leaves at last; it may also leave without one.  (Each
\* connection is left once, so fairness of the disjunction is fairness to all.)
Fairness ==
    /\ WF_vars(MainStep)
    /\ WF_vars(SignalStep)
    /\ \A w \in Workers : WF_vars(WorkerStep(w))
    /\ WF_vars(\E c \in Conns : client[c] = "served" /\ Leave(c))

FairSpec == Spec /\ Fairness

-----------------------------------------------------------------------------
(* Safety                                                                  *)

Idle == {w \in Workers : pc[w] = "idle"}

\* A queued connection is not forgotten: while workers sleep on
\* connection_queue_cond, enough others are on their way to the queue to take
\* everything in it (the single pthread_cond_signal of each push).
EnoughAwake ==
    Waiters # {} /\ ~Stopping => Cardinality(Idle) >= queueLen

\* As long as main never accepts with an element still queued, two workers
\* never serve the same descriptor ...
OneWorkerEach ==
    ~overtaken =>
        \A v, w \in Workers :
            pc[v] \in Serving /\ pc[w] \in Serving /\ fd[v] = fd[w] => v = w

\* ... and no worker reads, answers or closes a descriptor that is not open,
\* or one that has been given to another connection since.
DescriptorKept ==
    ~overtaken =>
        \A w \in Workers :
            /\ pc[w] \in Serving => descriptors[fd[w]] # NoConn
            /\ pc[w] = "reading" => descriptors[fd[w]] = socket[w]

\* "Funzione che inserisce i file descriptor nella coda" (queue.h): what a
\* worker takes from the queue is a descriptor nobody else has taken.
QueueHoldsDescriptors ==
    \A v, w \in Workers :
        pc[v] \in Serving /\ pc[w] \in Serving /\ fd[v] = fd[w] => v = w

-----------------------------------------------------------------------------
(* Liveness                                                                *)

\* A client that connects is served, or has left, unless a signal comes first
\* or main has overtaken the queue: also when descriptors run out for a while.
EveryConnectionServed ==
    \A c \in Conns :
        client[c] = "connected"
        ~> client[c] # "connected" \/ overtaken \/ signalThread # "sigwait"

\* Once main has set them, a cleared acceptNewConnection or a set closeServer
\* ends the process: no worker and no select sleeps through the signal.
ShutdownEnds == master # "boot" /\ Stopping ~> master = "exited"
=============================================================================

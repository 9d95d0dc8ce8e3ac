# A verification model of the file storage server

The repository is a client-server file storage: a multi-threaded server keeps
files in memory and serves clients over an AF_UNIX socket; clients open, lock,
write, append, read, close, unlock and delete files by name; when the memory is
full the server expels a file and sends it back to the client that needs room.
This directory holds TLA+ modules translated from the C source, TLC
configurations that check them on small instances, and TLAPS proofs for every
value of the constants. Paths below are relative to `src/src/`.

## Inventory

| component | state | operations | hard because |
|---|---|---|---|
| file storage (`server/fileStorage.c`, `server/utils.c`) | `fileQueue`, a list of `FileNode` (name, bytes, size, `client_id` of the lock holder or 0, `isOpen`) | open/create, read, write, append, lock, unlock, delete, close, n names, free space, choice of a victim | walks and changes rely on the caller's mutex; signed/unsigned arithmetic; an uninitialised result |
| linked queue (`server/queue.c`, `removeNode`, `deleteFileQueue`) | nodes, `head`, `tail`, `queueLen` | init, push, pop, remove, delete | the last node's removal must move `tail`; a lost node is a leak |
| request handlers (`server/controller.c`) | `file_queue_mutex`, `file_lock_mutex`, `file_lock_cond` | one per request | the lock wait gives `file_queue_mutex` back and never takes it again; early returns; blocking socket I/O while holding the mutex |
| worker threads (`server/server.c`) | the connection each serves | wait, pop, read loop, close | pop versus accept; shutdown |
| connection queue (`server/queue.c`, `server/server.c`) | `connectionQueue`, `connection_queue_mutex/cond`, `fd_client_skt` | push, pop, wait, signal | the queue holds pointers to one variable |
| signal thread (`server/server.c`) | `acceptNewConnection`, `closeServer`, the pipe | SIGHUP, SIGINT, SIGQUIT | starts before the flags are initialised; wakes threads on two condition variables, one of them unused |
| statistics (`server/statistic.c`) | two maxima and a counter | get, set, increment | read, compared and written in separate critical sections |
| client library (`client/serverApi.c`, `client/utils.c`) | one socket | one call per request; a retrying connect | write, eviction, refusal and lists send different numbers of messages; partial reads; end of file |
| command line client (`client/client.c`) | the options | options in order: `-W` is open(O_CREATE+O_LOCK), write, unlock; `-r` is open(O_LOCK), read, unlock; `-c` is lock, remove | a failed open must skip the rest of its file |
| log (`server/logger.c`), configuration (`server/config.c`) | a FILE; five settings | append a line; read once | lines of two threads may mix |

Workers share the storage, and interact through the two mutexes and the
condition variable `file_lock_cond`: a handler locks `file_queue_mutex`, calls
the storage, answers, unlocks. A lock or an open that finds the file locked
sleeps on `file_lock_cond`; an unlock broadcasts it. main and the workers
interact through the connection queue, the signal thread with both through the
flags, the pipe and `connection_queue_cond`. A client and its worker interact
through the two directions of a socket.

What makes each part correct: a name is stored once and the limits hold; a lock
has one holder, is granted only when free and passes on only by release or with
its file; a grant that is announced is true; a writer keeps its file while the
data arrives; who may run is not forgotten (no lost wakeup, no lost connection);
each connection has one worker; requests are answered; a signal ends the
process; the linked list holds the storage's files and nothing leaks; the
printed maxima are the maxima; both ends of a socket agree on what its bytes
are, and a call returns the verdict of its own execution. `PROJECT.json` lists
the hazards line by line.

## Modules

| module | what it is |
|---|---|
| `FileStorage` | the storage functions as operators on `fileQueue`, a sequence of records; no variables |
| `FileServer` | workers running the handlers over that storage, both mutexes, the lock wait, clients, the signal thread. Extends `FileStorage` |
| `LockTable` | abstract specification: what file locks promise, one state per pathname. `FileServer` implements it (`ImplementsLockTable`) |
| `LinkedList` | the nodes and pointers of `queue.c`, as operators; `Represents` relates them to a sequence |
| `ServerMemory` | `FileServer` with the linked list that holds the storage, the files and contents that are allocated, the statistics, and the exit of main. Extends `FileServer` and `LinkedList` |
| `Dispatch` | main, the connection queue, the workers' loop, the descriptor table, the pipe and the signal thread, from before the flags are set to the end |
| `ClientSession` | one client, its library, its socket and the worker that serves it, message by message |
| `RemoteCall` | abstract specification: a call is executed once and returns its verdict. `ClientSession` implements it (`ImplementsRemoteCall`) |
| `AppendBuffer` | the bytes of one file under write and append |
| `MCFileServer`, `MCServerMemory`, `MCDispatch`, `MCClientSession` | workloads (sets of requests or options) and symmetry for TLC |
| `FileStorageProofs`, `FileServerProofs`, `LinkedListProofs`, `ServerMemoryProofs`, `DispatchProofs`, `ClientSessionProofs`, `AppendBufferProofs` | theorems |
| `NaturalsLemmas` | one lemma: a set of naturals has a least element |

Definitions whose comment begins with "Fault:" are plausible mistakes in the
definition that follows them. No specification uses them: each is there to be
substituted for the correct one, and then the property named in `PROJECT.json`
fails, which shows the property is sensitive to that code.

### FileServer

A worker's `pc` is the point of the handler it is about to execute; the header
of the module lists the points. `file_queue_mutex` and `file_lock_mutex` hold
the thread that locked last or `NoThread`. glibc's default mutex does not check
who unlocks it, so `Reply` and `YieldQueue` free the mutex whoever holds it: the
unlock of a waiter that no longer owns it is exactly the code's behaviour. A
step is one call of a storage function or of pthreads. The test and the push of
`openVirtualFile` are separate steps (`Try`, `Create`), because only
`file_lock_mutex` keeps two workers from splitting them. An eviction is three
steps: `Expel` chooses the victim, `SendVictim` sends it to the client, which
may block, and `RemoveVictim` unlinks and frees it. Another worker may come in
between when a stray unlock lets it; a victim that was removed meanwhile is a
pointer to nothing (`Discard` clears it), like the pointer `expelFile` never
initialised when no single file makes enough room: `RemoveGarbage` then removes
some node, or none, or the process crashes, in `SendVictim` already perhaps.
Other storage calls are one step each even where a woken waiter runs beside
another worker: torn reads inside one call, or a node freed under a walk, are
not explored; the violated `CallerHoldsMutex` says that they can occur.
`Unlock` and the broadcast are two steps. The early returns that keep the mutex
(`controller.c:187` and `387`) are `Reject`.

A client may die (`Mortal`). An answer to it is a SIGPIPE that ends the process
(`Sigpipe`); `readData` of a write spins for ever (`Spins`); the single `read()`
of an append either meets the end of file, which the code takes for data and
stores (`Store`), or fails, and then nothing is stored or answered
(`ReceiveFails`).

`Connect` lets a worker serve a client that no other worker serves. That is
what `Dispatch` shows (`OneWorkerEach`) as long as main does not overtake the
queue. After an overtaking two workers may read one socket; `FileServer`
does not cover that.

### ServerMemory and LinkedList

A heap is a function from the addresses in use to nodes; `calloc` takes the
least free address, so a freed one is used again at once, and a pointer that
should have been moved would meet the new node. `ServerMemory` takes every step
of `FileServer` and, in the same step, pushes the file that appeared or removes
the one that left, as the storage functions do under the mutex.

`fileNodes` and `contents` count, for each name, the FileNodes and the contents
in memory: `openVirtualFile` allocates a FileNode, a write or an append a new
content in place of the old one, `removeNode` frees both, and `deleteFileQueue`
frees what hangs on the nodes its walk meets (`Held`). A count that is not 0 in
the end is a leak or a double free.

A call of `push` or `removeNode` is one step. A caller that has
`file_queue_mutex` for itself cannot tell; with a lock waiter nobody has
(`unlocked_walk`). `ServerMemory` is therefore checked, and its theorems about
the list and the memory are stated, only for workloads where no request waits
for a lock (`NoLockWaits`), each theorem with `QueueExclusion` beside it. It
says nothing of the others.

The statistics come after the change, with a step for each critical section of
`mutex_stats`: read the old maximum, compare, write the new one (and
`getListLength` twice). `stat` is where a worker is in them; until it is
through, its handler takes no other step. `mostFiles` and `mostSpace` are
histories of the true maxima. `deleteFileQueue` is main at its end.

### Dispatch

Every element of `connectionQueue` is `&fd_client_skt`, so the queue is its
length `queueLen` plus that one variable. `Accept` writes the variable outside
the mutex; `Push`, `Sleep`, `Retire`, `Pop` are critical sections of
`connection_queue_mutex`. `descriptors` is the descriptor table: `accept` takes
the lowest free number, fails with -1 when there is none, and `close` frees a
number whatever connection it has come to mean. A worker blocked in `read`
keeps the socket (`socket`) until it returns. `overtaken` is a history variable
set when main writes `fd_client_skt` while an element is queued. `Boot` assigns
the flags after the signal thread started and `MakePipe` makes the pipe after
that: a signal before then closes a number that is no pipe yet (`ClosePipe`;
the 0 of an uninitialised global is the server's stdin, -1 is nothing). `Select`
and `Accept` are two steps: a connection that `select` saw is accepted and pushed
although the pipe is closed in between.

### ClientSession

`cpc` is the point of the client in a library call, `spc` the point of its
worker in a handler; the header lists both. Each direction of the socket is a
bounded sequence of units, and a writer of a full direction blocks. A Request
or a Response is one unit: an AF_UNIX stream socket takes a write of that size
as one buffer, and `read` of the same size returns it whole. The contents of a file are
as many units `Data` as it is long. `readData` loops until it has them all; the
single `read()` of an append takes only what has arrived (`Arrived`).

The storage is abstracted to what it may decide: success, failure, the size of
a file, the need for a victim. The lock wait is a point the worker may stay at,
and so is the lock of `file_queue_mutex` (`LockQueue`), which other connections
may keep for ever.
A handler that returned early keeps the mutex itself (`keeps`), and then
waits for itself at the next request, unless the stray unlock of some other
connection's lock waiter frees it (`StrayUnlock`).

`EndServer` is the end of the process, or the close of the worker after SIGINT.
What the client does then is the code's: `read` returns 0, which is not the -1
the library tests for, so it looks at a Response nobody wrote; `readData`
spins; unread bytes at the closed end are reported once, as ECONNRESET; a write
is a SIGPIPE. `openConnection` is `Connected`, `Refused`, `GiveUp`, against a
server that unlinks an old socket, binds and listens; time is counted in
seconds, and a sleep may last up to `Slack` longer than asked.

`outcome` is a history of what the storage decided on the current call.
`misread` is a history that is set where the two ends are known to part: the
single `read()` of an append that finds too little, and an expelled file of no
bytes, of which `readData` returns a value it never set. A client or a worker
that takes contents for a header is `lost`; what follows is not modelled.

## Runs and bounds

| run | instance | shows |
|---|---|---|
| writers (`ServerMemory`) | 2 workers, 2 clients that may die, 2 files, `max_file` 2, `max_mem_size` 2, unit writes and appends to both files, SIGINT; deadlock checked | exclusion and ownership of `file_queue_mutex`, `WriterKeepsFile`, `MemoryBound`, `ListHoldsFiles`, `NothingLeaks`, `StatisticsTrue` |
| mixed (`FileServer`) | 2 workers, 2 clients, 3 files, `max_file` 2, `max_mem_size` 2; locks and lock waits, evictions, victims that do not exist, "read n" of nothing | `ImplementsLockTable`, `GrantIsTrue`, `UniquePathnames`, `FileLockExclusion`, `NoLostWakeup` |
| progress (`FileServer`) | 2 workers, 2 clients, 1 file, lock waits, reads, writes that evict; one client may die and SIGHUP or SIGINT come at any moment; fair workers, clients under no assumption; the process ends, so deadlock is not checked | `WaiterWakes`, `QueueIsGranted`, `RequestsAnswered`, `ShutdownCompletes` |
| connections (`Dispatch`) | 2 workers, 3 connections, 2 descriptors, SIGHUP, fair | the properties of `Dispatch` |
| session (`ClientSession`) | files of 0 and 2 units, 2 units of socket, lists of up to 2, the server may end, fair | `InStep`, `AttemptsBounded`, `ImplementsRemoteCall`, `EveryCallReturns` |
| unlocked_walk, signal_waiters, capacity_miss, shared_pointer, append_bytes, no_answer, status_code | small | violated, see below |

Bounds. Two workers give every pairwise interleaving; what a third adds is
covered by the theorems, which are for any number of workers. One place less
than there are files (`mixed`) makes two creators collide; two units of memory
make an eviction necessary with two files, and a size of 2 makes one victim
too small. Three connections over two descriptors reach exhaustion and reuse
of a number. One signal is taken in the life of the server (`sigwait` is
called once). `connections` uses SIGHUP; SIGINT differs in one test of `Serve`,
and is in `progress` and `writers`. `AppendBuffer` stops at `MaxSize` bytes.
Sizes of writes and appends are at least 1 in `FileServer`; `ClientSession` has
the empty ones. In `session` a file is empty or fills the socket: with one unit
less than the buffer no writer would ever block. `Pause` 1 and `abstime` 3 give
up to five attempts; `Slack` 1 lets each sleep be late. Elapsed time and
attempts are forgotten once connected. `MaxList` bounds the names of a "read n
files". No other counter is bounded.

In `writers` no request ever waits for a lock (`NoLockWaits`): with a waiter
`QueueExclusion`, `UnlockedByOwner` and with them `WriterKeepsFile` and
`StatisticsTrue` are false, for the reason `unlocked_walk` shows, and the steps of
the list would be too coarse. `MemoryBound` holds there because every write is
one unit, so one victim is always enough: writing to `b` with `a` full expels
`a` and goes on, appending to `a` with `a` full expels `a` itself and is refused.
`capacity_miss` is the general case. `mixed` is where requests wait: a grant is
true there too, up to an eviction. `progress` has no "read n files" and no
oversized write: their early returns leave the mutex locked and every later
request unanswered, which is `no_answer`.

Deadlock is not checked where the system may rightly stop: a worker waiting for
a lock its holder never releases, clients that ask nothing, workers stuck
behind a mutex an early return kept, a client that has exited.

Fairness. Workers run on a preemptive scheduler and pthread mutexes are not
starved for ever by the kernel's futexes in practice: strong fairness of each
worker's own steps and of the signal thread's. A step for which the worker needs
its client is not its own: the data of a write or an append that has to arrive,
and a content that has to be taken, since it may be more than the socket holds
(`AwaitsClient`). These steps are not fair, so a client may send late or never.
What then waits behind it for `file_queue_mutex` waits for ever, and
`QueueIsGranted`, `RequestsAnswered` and `ShutdownCompletes` excuse exactly that
(`ClientStalls`: some worker awaits its client from some moment on), and a
process that SIGPIPE ended. They do not excuse a worker that waits for a client
that answers at last. `ShutdownCompletes` also excuses a client that never closes
its connection (`ClientStays`), for which main says that it waits
(`server.c:188`). Only `signal_waiters` assumes something of clients: that they
leave at last (`ShutdownSpec`), so that it is not for want of that that the
waiters stay.

In `Dispatch` steps need no mutex of their own, so weak fairness is enough; a
client that is read sends a request and one that is served leaves at last.
`ClientSession` assumes that both processes are scheduled (weak fairness of the
client's steps, of the worker's, of the attempts to connect), and nothing of
the holders of a lock or of `file_queue_mutex`, of the server's start, or of what
the user asks for: `LockQueue`, `WaitForLock` and `WakeUp` are steps without
fairness. `EveryCallReturns` excuses a worker that waits for ever at one of
them, not one whose wait ends.

## What the code does against its comments

* `unlocked_walk`: after the lock wait the handlers use the list without
  `file_queue_mutex` (`server/controller.c:22`, `307`).
* `signal_waiters`: a signal does not wake lock waiters (`server/server.c:361`,
  `379`); main then joins them for ever.
* `capacity_miss`: the storage outgrows `max_mem_size` when no single file is
  large enough (`server/utils.c:126`).
* `shared_pointer`: two accepts before a pop give two workers the same
  descriptor (`server/server.c:164`).
* `append_bytes`: appended data lands at the wrong offset
  (`server/fileStorage.c:410`).
* `no_answer`: after an early return that keeps `file_queue_mutex` the next
  request of the same client is never answered (`server/controller.c:387`,
  `187`).
* `status_code`: a delete or a close that failed answers status 0
  (`server/controller.c:155`, `278`).

Seen in the models and not stated as violated properties, for want of a
statement to violate: waiters on a file that was deleted, locks that outlive
their client, a signal taken before the flags are initialised, connections
queued at SIGHUP, a client that spins or believes a Response nobody wrote after
the server has ended, a client that finds no socket and does not retry. They
are in `hazards`.

## Proofs

For all values of the constants, under `StorageAssumption`, `ServerAssumption`,
`DispatchAssumption` and `SessionAssumption` (distinctness of the special
values, natural limits, request sizes of at least 1, finitely many workers, and
only options that `CallsOf` knows).

`FileStorageProofs` states what each operator does to a list: positions,
updates, pushes, removals, and the room the files take. `StorageSize` is a
recursive function over the list; `SumExists` and `SumUnique` say that there is
one running sum of the sizes and that it is the function, so that the lemmas on
an update, a push and a removal name the running sum of the new list instead of
computing it. Inductions go by least counterexample (`LeastNumber`), since the
library's induction theorems take an operator. `FileServerProofs` builds on
these:

* `TypeCorrect`. `TypeInv` strengthens `TypeOK` by what each point of a handler
  knows of its request, e.g. that a worker at `create` serves an open.
* `Safe` is the inductive invariant. Who is at a point of `HoldsFileLock` is
  recorded in `file_lock_mutex`, hence at most one worker is there
  (`FileLockMutualExclusion`); a worker at `create` knows the name is absent
  and the storage not full, because only another creator could change that and
  all of them hold that mutex; hence unique names and the limit
  (`NamesUniqueAndBounded`), in spite of the broken `file_queue_mutex`.
* `NoWakeupIsLost` under `CreatorsLock` (clients create only with O_LOCK, as
  the command line client does). A file becomes free by `Unlock`, whose worker
  is then at `broadcast` until every sleeper has been woken, or by the creation
  of a free file, excluded by the assumption: without it, a waiter of a file that
  was deleted could sleep beside its free successor.
* `LocksAreNotStolen`: initial states map to initial states of `LockTable`, and
  each action to one of its moves or to a stutter.
* `HandlersExclude`, `OwnersUnlock`, `WritersKeepTheirFile` under `NoLockWaits`:
  then `QueueHeld`, "whoever is in a critical section is recorded in
  `file_queue_mutex`", is inductive; without the assumption it is false.
* `GrantsAreTrue`, for every workload. It is a property of steps: a grant begins
  in a client's hands, and no step but `RemoveVictim` and `RemoveGarbage` takes it
  out of them while the worker is on its way to the answer. The mutex cannot be
  the reason, since the worker of a client that waited does not have it. The
  reason is `ClientsApart`, that a client is served by one worker: what unlocks,
  closes, deletes or takes over a file asks first for the client that holds it,
  and that client is busy with the grant.
* `RoomIsBounded` under `NoLockWaits` and `UpdatesAlike`, "all writes and
  appends have one size n". `RoomInv` adds to `QueueHeld` that every file is
  empty or at least n long, so that any victim `expelFile` may take makes
  enough room, and that from then on there is enough: a worker that sends its
  victim or is about to remove it will have the room it needs when the victim
  is gone (`Sufficient`), and one that waits for its data has it, which nobody
  can have taken since. With unequal sizes the claim is false
  (`capacity_miss`).

`LinkedListProofs` relates the heap to the sequence. `Chain` numbers the nodes
from head to tail: the numbering is injective, reaches every node that is
allocated, and carries the data. `PushRepresents`, `PopRepresents` and
`RemoveRepresents` construct the numbering after each operation; the one of
`removeNode` skips the node that goes, and fails without the move of `tail`.
`WalkMeetsAll` says that the walk of `deleteQueue` meets the nodes of a chain and
no other.

`ServerMemoryProofs` composes. `MemoryIsServer` (every behaviour of
`ServerMemory` is one of `FileServer`) carries the theorems of
`FileServerProofs` over: unique names are what makes `removeNode` remove the
right node. All others need `NoLockWaits`; those about the list and the
memory have `QueueExclusion` in their conclusion, since that is what makes a
whole call of `push` or `removeNode` a faithful step.

* `ListIsStorage`: each step of a handler changes the names of the storage by
  one push, one removal or not at all (`StepOfNames`), and the lemmas of
  `LinkedListProofs` follow the chain.
* `ServerFreesAll`: `HeapInv` says that a name has one FileNode if it is in the
  storage and none if not, and one content if its size is not 0. A step stores
  to one file, which then has a content, or removes one, which had as many as
  are freed (`StepOfContents`); `DeleteFreesAll` and `WalkMeetsData` say that the
  walk at exit meets every node, and through it every file that is left.
* `MemoryTypeCorrect`: the counts never go below zero, by `HeapInv`, and the
  numbering of the chain gives the head and the tail.
* `MaximaAreTrue`: `StatInv` says that a worker in the statistics is still in
  its critical section, hence alone there (`AloneInStat`), and that what it has
  read is still so; outside, the maxima are those of the history.

`DispatchProofs`: `Handover` says that the one queued element is an open
descriptor nobody serves, so the next pop is exclusive; an accept before that
pop breaks it, which is why the theorems are about `~overtaken`.
`NoConnectionForgotten` counts: each push adds one element and wakes one
sleeper, each pop takes one of each, a worker sleeps only on an empty queue.

`ClientSessionProofs` is about the client, the socket and the worker, for every
size of a file, a list and the socket.

* `TypeCorrect`. `TypeInv` adds to `TypeOK` that what is left to send or to
  receive is counted only where it is used.
* `EndsInStep`. `InStep` is not inductive: whether the next read takes the right
  unit depends on all that is in both directions and on what the worker still
  has to send. The invariant is `Sync`, "unless there was a misread, `InSync`".
  `Shape` describes the direction to the client by one number, `Gate`: the
  units before it are contents, the one at it is the header the client will
  read next. `Phase` says where the two processes are together: at rest
  (`Quiet`), the request on its way (`Sent`), taken (`Served`), then, for a call
  that updates nothing, `Answering`, and for a write or an append `Evicting`,
  `Denied`, `Updating` and `Updated`. Each phase accounts for every unit: what
  is in the socket and what the worker will still send are what the client
  will still read. A read that takes fewer units than it wants, and one that
  wants none, leave the phase; both set `misread` in the step in which they
  happen, which is what the hypothesis excludes. When the server has ended only
  `Shape` is kept: the client may find the tail of what was sent, never a wrong
  header.
* `SessionImplementsRemoteCall`, from `Sync`: a step that leaves a call returns
  the verdict of its outcome (`ReturnsVerdict`), the outcome changes once, inside
  the call (`ExecutesOnce`), and neither `misread` nor the end of the server
  is undone.
* `ConnectStops`. The invariant `RetryInv` says that the attempts made took at
  least a `Pause` each and that the last one began in time.

`AppendBufferProofs`: an append is right when old and new sizes are equal, and
wrong whenever the new content is shorter and has no zero byte at the end.

Every invariant the passing runs check is also proved, and every property about
steps. `NoLostWakeup` and what needs `NoLockWaits` or `UpdatesAlike` is proved
under these assumptions on the workload only; type correctness of `FileServer`,
unique names, exclusion of `file_lock_mutex`, true grants and the lock table are
proved for every workload. Only model-checked: `MemoryBound`
for writes of unequal sizes (it is violated in `capacity_miss`), all liveness
(`WaiterWakes`, `QueueIsGranted`, `RequestsAnswered`, `ShutdownCompletes`,
`EveryConnectionServed`, `ShutdownEnds`, `EveryCallReturns`: fairness and ENABLED
are beyond the prover), and the violated properties.

## Not modelled, and why

The log: output only. The configuration: read once, its settings are constants
here. The scripts and the Makefiles. Texts of answers, and `num_file_replacement`
and `n_connections`, which are only printed. The paths under which the client
saves files (`saveFile`, `saveFileDir`), the walk over a directory
(`getFileListFromDir`), the parsing of options and the waiting time `-t`: none
of them changes what goes over the socket but the number of calls, which is
arbitrary here. The buffers of the handlers: the
Response and the received data that `controller.c` allocates and in places
never frees (the Response and `buf` at 49 and 91, and the Responses of 266 and
of the early return at 387) leak in the code, and `NothingLeaks` is not about
them. `allocateMemory` never fails (it exits). The undefined `status`
of a successful `closeVirtualFile` (`fileStorage.c:576`; both outcomes are
answered 0). `editFileNode` and `getFirstNode`, which nothing calls. Unknown
operations (ignored by the worker). The nodes of the connection queue: its
length is in `Dispatch`, and `PopRepresents` and `PushRepresents` say that the
nodes behave as the sequence whatever it holds.

## Plan

Done: storage, handlers, lock table, dispatch, appended bytes, the linked list
with the statistics, and a client session; their runs, and theorems for all of
them. Left: a storage step that is torn where `unlocked_walk` shows it can be.

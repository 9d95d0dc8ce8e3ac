----------------------------- MODULE ServerMemory -----------------------------
(***************************************************************************)
(* What the handlers of FileServer do to the memory of the server beside    *)
(* the storage itself: the nodes of the list that holds it (queue.c), the   *)
(* FileNodes and contents fileStorage.c allocates and frees, and the        *)
(* statistics (statistic.c), which openVirtualFile, writeVirtualFile and    *)
(* appendVirtualFile bring up to date after the change, in three steps: the *)
(* old maximum is read in one critical section of mutex_stats, compared     *)
(* outside, and the new one is written in a second.                         *)
(*                                                                         *)
(* Every step of FileServer is a step of this module, and a worker takes no *)
(* other step while it is in the statistics.                                *)
(*                                                                         *)
(* A call of push or removeNode is one step.  That is what a caller sees    *)
(* who has file_queue_mutex for itself, so the module says something of the *)
(* code for the workloads of which QueueExclusion holds: those where no     *)
(* request waits for a lock.  Of the others it says nothing.                *)
(***************************************************************************)
EXTENDS FileServer, LinkedList

VARIABLES
    list,                   \* fileQueue as nodes
    fileNodes,              \* how many FileNodes each file has in memory
    contents,               \* how many contents (the buffers of file->file)
    max_num_file,
    max_file_storage_size,
    stat,                   \* where in the statistics each worker is
    seen,                   \* max_file, or max_size: the maximum it has read
    actual,                 \* actual_size
    exited,                 \* main has freed the list
    mostFiles,              \* history: the most files there have been
    mostSpace               \* history: the most space they have taken

statistics == <<max_num_file, max_file_storage_size, stat, seen, actual>>
memory     == <<list, fileNodes, contents, exited, mostFiles, mostSpace>>

Names(q) == [i \in DOMAIN q |-> q[i].pathname]

MTypeOK ==
    /\ TypeOK
    /\ list.len \in Nat
    /\ ~exited => {list.head, list.tail} \subseteq DOMAIN list.cells
    /\ fileNodes \in [Files -> Nat]
    /\ contents \in [Files -> Nat]
    /\ max_num_file \in Nat
    /\ max_file_storage_size \in Nat
    /\ stat \in [Workers -> {"none", "getMaxNumFile", "compareLen",
                             "setMaxNumFile", "getMaxSize", "getStorageSize",
                             "setMaxSize"}]
    /\ seen \in [Workers -> Nat]
    /\ actual \in [Workers -> Nat]
    /\ exited \in BOOLEAN

\* initQueue and statInit
MInit ==
    /\ Init
    /\ list = initQueue
    /\ fileNodes = [f \in Files |-> 0]
    /\ contents = [f \in Files |-> 0]
    /\ max_num_file = 0
    /\ max_file_storage_size = 0
    /\ stat = [w \in Workers |-> "none"]
    /\ seen = [w \in Workers |-> 0]
    /\ actual = [w \in Workers |-> 0]
    /\ exited = FALSE
    /\ mostFiles = 0
    /\ mostSpace = 0

Larger(m, n) == IF m > n THEN m ELSE n

\* A new file is pushed, a file that leaves the storage is removed and freed.
ListFollows ==
    list' = CASE Len(fileQueue') > Len(fileQueue) ->
                     push(list, fileQueue'[Len(fileQueue')].pathname)
              [] Len(fileQueue') < Len(fileQueue) ->
                     removeNode(list, CHOOSE f \in Files :
                                   Found(fileQueue, f) /\ ~Found(fileQueue', f))
              [] OTHER -> list

One(condition) == IF condition THEN 1 ELSE 0

\* openVirtualFile allocates a FileNode, removeNode frees it.
FileNodesFollow ==
    fileNodes' = [f \in Files |->
        fileNodes[f] + One(Found(fileQueue', f) /\ ~Found(fileQueue, f))
                     - One(Found(fileQueue, f) /\ ~Found(fileQueue', f))]

\* The file pointer is not NULL.
HasContent(q, f) == Found(q, f) /\ Node(q, f).size > 0

Stores(f) ==
    \E w \in Workers : /\ pc[w] = "receive" /\ pc'[w] = "reply"
                       /\ File(w) = f /\ Usable(fileQueue, f)

\* Fault: the content that is overwritten is not freed.
ContentsKept ==
    contents' = [f \in Files |->
        contents[f] + One(Stores(f))
                    - One(HasContent(fileQueue, f) /\ ~Found(fileQueue', f))]

\* A write or an append allocates the new content and frees the old one, if
\* there is one; removeNode frees the content with the file.
ContentsFollow ==
    contents' = [f \in Files |->
        contents[f] + One(Stores(f))
                    - One(/\ HasContent(fileQueue, f)
                          /\ Stores(f) \/ ~Found(fileQueue', f))]

\* Storing to a file that was closed returns before the statistics.
EntersStat(w) ==
    IF pc[w] = "create" /\ pc'[w] = "unlockFile" THEN "getMaxNumFile"
    ELSE IF /\ pc[w] = "receive" /\ pc'[w] = "reply"
            /\ Found(fileQueue, File(w)) => Node(fileQueue, File(w)).isOpen
    THEN "getMaxSize"
    ELSE stat[w]

\* A step of a handler.
Handle ==
    /\ ~exited
    /\ Next
    /\ \A w \in Workers : stat[w] # "none" => pc'[w] = pc[w]
    /\ ListFollows
    /\ FileNodesFollow
    /\ ContentsFollow
    /\ stat' = [w \in Workers |-> EntersStat(w)]
    /\ mostFiles' = Larger(mostFiles, Len(fileQueue'))
    /\ mostSpace' = Larger(mostSpace, StorageSize(fileQueue'))
    /\ UNCHANGED <<max_num_file, max_file_storage_size, seen, actual, exited>>

StatGoto(w, label) == stat' = [stat EXCEPT ![w] = label]

\* The locals of the caller go out of scope.
StatReturn(w) ==
    /\ StatGoto(w, "none")
    /\ seen' = [seen EXCEPT ![w] = 0]
    /\ actual' = [actual EXCEPT ![w] = 0]

\* int max_file = getMaxNumFile()
getMaxNumFile(w) ==
    /\ stat[w] = "getMaxNumFile"
    /\ seen' = [seen EXCEPT ![w] = max_num_file]
    /\ StatGoto(w, "compareLen")
    /\ UNCHANGED <<vars, memory, max_num_file, max_file_storage_size, actual>>

CompareLen(w) ==
    /\ stat[w] = "compareLen"
    /\ IF list.len > seen[w]
       THEN StatGoto(w, "setMaxNumFile") /\ UNCHANGED <<seen, actual>>
       ELSE StatReturn(w)
    /\ UNCHANGED <<vars, memory, max_num_file, max_file_storage_size>>

\* The length is read a second time.
setMaxNumFile(w) ==
    /\ stat[w] = "setMaxNumFile"
    /\ max_num_file' = list.len
    /\ StatReturn(w)
    /\ UNCHANGED <<vars, memory, max_file_storage_size>>

getMaxFileStorageSize(w) ==
    /\ stat[w] = "getMaxSize"
    /\ seen' = [seen EXCEPT ![w] = max_file_storage_size]
    /\ StatGoto(w, "getStorageSize")
    /\ UNCHANGED <<vars, memory, max_num_file, max_file_storage_size, actual>>

\* Fault: the size is set whatever the maximum is.
getStorageSizeOnly(w) ==
    /\ stat[w] = "getStorageSize"
    /\ actual' = [actual EXCEPT ![w] = StorageSize(fileQueue)]
    /\ StatGoto(w, "setMaxSize")
    /\ UNCHANGED <<vars, memory, max_num_file, max_file_storage_size, seen>>

getStorageSize(w) ==
    /\ stat[w] = "getStorageSize"
    /\ IF StorageSize(fileQueue) > seen[w]
       THEN /\ actual' = [actual EXCEPT ![w] = StorageSize(fileQueue)]
            /\ StatGoto(w, "setMaxSize")
            /\ UNCHANGED seen
       ELSE StatReturn(w)
    /\ UNCHANGED <<vars, memory, max_num_file, max_file_storage_size>>

setMaxFileStorageSize(w) ==
    /\ stat[w] = "setMaxSize"
    /\ max_file_storage_size' = actual[w]
    /\ StatReturn(w)
    /\ UNCHANGED <<vars, memory, max_num_file>>

StatStep(w) ==
    \/ getMaxNumFile(w) \/ CompareLen(w) \/ setMaxNumFile(w)
    \/ getMaxFileStorageSize(w) \/ getStorageSize(w) \/ setMaxFileStorageSize(w)

\* main has joined every thread: it prints the statistics and frees the nodes
\* it meets, each with the file it holds and the content of the file.
deleteFileQueue ==
    /\ up /\ Terminated /\ ~exited
    /\ fileNodes' = [f \in Files |-> fileNodes[f] - One(f \in Held(list))]
    /\ contents' = [f \in Files |->
           contents[f] - One(f \in Held(list) /\ HasContent(fileQueue, f))]
    /\ list' = [list EXCEPT
                   !.cells = [a \in deleteQueue(list) |-> list.cells[a]]]
    /\ exited' = TRUE
    /\ UNCHANGED <<vars, statistics, mostFiles, mostSpace>>

MNext ==
    \/ Handle
    \/ up /\ \E w \in Workers : StatStep(w)
    \/ deleteFileQueue
    \/ exited /\ UNCHANGED <<vars, statistics, memory>>

MSpec == MInit /\ [][MNext]_<<vars, statistics, memory>>

-----------------------------------------------------------------------------

\* Until main frees it, the linked list holds the files of the storage and
\* nothing else: its nodes form one chain, tail is the last of them, len counts
\* them, and no node is lost (push, removeNode).
ListHoldsFiles == ~exited => Represents(list, Names(fileQueue))

\* When main has freed the list, nothing the storage allocated is left: no
\* node, no FileNode and no content, and none was freed twice, although each
\* content may have been replaced, or removed with its file, by any worker
\* (writeVirtualFile, appendVirtualFile, removeNode, deleteFileQueue).
NothingLeaks ==
    exited => /\ DOMAIN list.cells = {}
              /\ \A f \in Files : fileNodes[f] = 0 /\ contents[f] = 0

\* What printStat prints as "Num file max" and "Max file storage" is the most
\* there has been, although each maximum is read, compared and written in
\* three steps (openVirtualFile, writeVirtualFile, appendVirtualFile).
StatisticsTrue ==
    (\A w \in Workers : stat[w] = "none")
    => max_num_file = mostFiles /\ max_file_storage_size = mostSpace
=============================================================================

----------------------------- MODULE FileStorage -----------------------------
(***************************************************************************)
(* The file storage of the server (src/src/server/fileStorage.c and the     *)
(* space accounting of src/src/server/utils.c), as operators on fileQueue,  *)
(* the linked list of FileNode: a sequence of records, oldest node first.   *)
(*                                                                         *)
(* Nothing here is atomic by itself.  The source says of its lookups        *)
(* "ATTENZIONE MUTEX DA ESEGUIRE FUORI DA FUNZIONE": the callers are to     *)
(* hold file_queue_mutex.  Whether they do is what FileServer is about.     *)
(*                                                                         *)
(* The bytes of a file are abstracted to their number; AppendBuffer keeps   *)
(* the bytes.  The memory allocator never fails (allocateMemory exits).     *)
(***************************************************************************)
EXTENDS Integers, Sequences, SequencesExt

CONSTANTS
    Files,        \* pathnames
    Clients,      \* client ids: the pid of a client process, never 0
    NoClient,     \* the client_id 0 of a file nobody has locked
    max_file,     \* serverConfig.max_file
    max_mem_size  \* serverConfig.max_mem_size, in the unit of fileSize

ASSUME StorageAssumption ==
    /\ NoClient \notin Clients
    /\ max_file \in Nat
    /\ max_mem_size \in Nat

-----------------------------------------------------------------------------

\* A node of the list.  size is 0 exactly while the file pointer is NULL.
FileNode == [pathname  : Files,
             size      : Nat,
             client_id : Clients \cup {NoClient},
             isOpen    : BOOLEAN]

\* The walk of findFileNode: does a node of q carry this name?
Found(q, f) == \E i \in DOMAIN q : q[i].pathname = f

\* The walk of getFileNode.  It returns the first match; names are unique
\* (UniquePathnames, checked and proved), so any match is the first one.
Position(q, f) == CHOOSE i \in DOMAIN q : q[i].pathname = f

Node(q, f) == q[Position(q, f)]

\* hasFileLock returns 0: note that it does not look at isOpen.
HasFileLock(q, f, c) == Found(q, f) /\ Node(q, f).client_id = c

Usable(q, f) == Found(q, f) /\ Node(q, f).isOpen

-----------------------------------------------------------------------------
(* Locks                                                                   *)

\* Fault: the lock is granted whoever holds it.
LockStatusStolen(q, f, c) == IF ~Usable(q, f) THEN -1 ELSE 0

\* What lockVirtualFile returns: the caller must wait on -2.
LockStatus(q, f, c) ==
    IF ~Usable(q, f) THEN -1
    ELSE IF Node(q, f).client_id \in {c, NoClient} THEN 0 ELSE -2

\* What it leaves in the list when it returns 0.
SetOwner(q, f, c) == [q EXCEPT ![Position(q, f)].client_id = c]

\* Fault: whoever asks unlocks the file.
UnlockStatusOfAnybody(q, f, c) == IF Usable(q, f) THEN 0 ELSE -1

\* unlockVirtualFile succeeds on the holder's file and on a free one.
UnlockStatus(q, f, c) ==
    IF Usable(q, f) /\ Node(q, f).client_id \in {c, NoClient} THEN 0 ELSE -1

-----------------------------------------------------------------------------
(* Opening, closing and deleting                                           *)

\* openVirtualFile creates the file when it is missing, unless the caller
\* asked to lock an existing one; a file that exists cannot be created.
Creates(q, f, flags) ==
    /\ ~Found(q, f)
    /\ "O_LOCK" \in flags => "O_CREATE" \in flags
    /\ Len(q) # max_file

OpenStatus(q, f, flags, c) ==
    IF ~Found(q, f) THEN IF Creates(q, f, flags) THEN 0 ELSE -1
    ELSE IF "O_CREATE" \in flags THEN -1
    ELSE IF "O_LOCK" \in flags THEN LockStatus(q, f, c) ELSE 0

\* Fault: O_CREATE and O_LOCK together create the file without the lock.
NewNodeUnlocked(f, flags, c) ==
    [pathname |-> f, size |-> 0, isOpen |-> TRUE, client_id |-> NoClient]

NewNode(f, flags, c) ==
    [pathname |-> f, size |-> 0, isOpen |-> TRUE,
     client_id |-> IF "O_LOCK" \in flags THEN c ELSE NoClient]

\* Only the holder of the lock deletes or closes; the list forgets the node,
\* or keeps it closed for ever, since no operation sets isOpen again.
DeleteSucceeds(q, f, c) == Usable(q, f) /\ Node(q, f).client_id = c

CloseSucceeds(q, f, c) == Usable(q, f) /\ Node(q, f).client_id = c

Close(q, f) == [q EXCEPT ![Position(q, f)].isOpen = FALSE]

RemoveNode(q, i) == RemoveAt(q, i)

-----------------------------------------------------------------------------
(* Contents and space                                                      *)

\* writeVirtualFile replaces the content, appendVirtualFile adds to it.
SetSize(q, f, n) == [q EXCEPT ![Position(q, f)].size = n]

Grow(q, f, n) == SetSize(q, f, Node(q, f).size + n)

\* The walk of getStorageSize: the room the first i nodes take.
SizeUpTo(q) ==
    LET sum[i \in 0..Len(q)] == IF i = 0 THEN 0 ELSE sum[i - 1] + q[i].size
    IN  sum

StorageSize(q) == SizeUpTo(q)[Len(q)]

FreeSpace(q) == max_mem_size - StorageSize(q)

\* "freeSpace < request->fileSize" compares an int with a size_t: a negative
\* free space is a huge unsigned number, and no file is expelled.
CapacityMiss(q, n) == FreeSpace(q) >= 0 /\ FreeSpace(q) < n

\* The test of expelFile, unsigned as well.
Frees(q, i, n) ==
    LET room == FreeSpace(q) + q[i].size IN room < 0 \/ room >= n

\* expelFile: the position of the first single file that makes enough room.
\* The set is empty when no single file does; the code then returns a pointer
\* it never initialised.
Victims(q, n) ==
    {i \in DOMAIN q : Frees(q, i, n) /\ \A j \in 1..(i - 1) : ~Frees(q, j, n)}

\* getNFileList: how many names "read n files" sends back.  n is compared
\* with an unsigned length, so every negative n means "all of them".
ListedFiles(q, n) == IF n < 0 \/ n > Len(q) THEN Len(q) ELSE n
=============================================================================

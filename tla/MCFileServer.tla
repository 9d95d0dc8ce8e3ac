---------------------------- MODULE MCFileServer -----------------------------
(***************************************************************************)
(* Instances of FileServer for TLC: the workloads, as sets of requests.     *)
(***************************************************************************)
EXTENDS FileServer

CONSTANTS c1, c2, w1, w2, a, b, e

Rq(op, file, fl, n) == [op |-> op, file |-> file, flags |-> fl, n |-> n]

On(file, ops) == {Rq(op, file, {}, 0) : op \in ops}

CreateLocked(file) == Rq("OP_OPEN_FILE", file, {"O_CREATE", "O_LOCK"}, 0)
OpenLocked(file)   == Rq("OP_OPEN_FILE", file, {"O_LOCK"}, 0)
Open(file)         == Rq("OP_OPEN_FILE", file, {}, 0)
Write(file, n)     == Rq("OP_WRITE_FILE", file, {}, n)
AppendTo(file, n)  == Rq("OP_APPEND_FILE", file, {}, n)
ReadFiles(n)       == Rq("OP_READ_N_FILES", a, {}, n)

\* Clients that compete for the lock of one file and for the last place in the
\* storage, with everything that can make the file go away under a waiter:
\* evictions, garbage victims, early returns.
MixedRequests ==
    {CreateLocked(a), CreateLocked(b), CreateLocked(e), OpenLocked(a),
     Write(a, 1), Write(b, 1), Write(b, 2), ReadFiles(-1)}
    \cup On(a, {"OP_LOCK_FILE", "OP_UNLOCK_FILE", "OP_DELETE_FILE"})

\* One file that two clients take in turns.
TurnRequests ==
    {CreateLocked(a), OpenLocked(a)}
    \cup On(a, {"OP_LOCK_FILE", "OP_UNLOCK_FILE", "OP_DELETE_FILE"})

\* Every way a handler may wait for its client, too: the second write of two
\* bytes has to send the first.
ExchangeRequests ==
    {CreateLocked(a), Write(a, 2)}
    \cup On(a, {"OP_LOCK_FILE", "OP_UNLOCK_FILE", "OP_READ_FILE"})

\* Files no single one of which makes enough room.
CapacityRequests ==
    {CreateLocked(a), CreateLocked(b), Write(a, 1), Write(b, 1), Write(b, 2)}

AnyWorker == Permutations({w1, w2})
TwoByTwo == Permutations({w1, w2}) \cup Permutations({c1, c2})
=============================================================================

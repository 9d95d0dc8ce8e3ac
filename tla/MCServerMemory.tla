---------------------------- MODULE MCServerMemory ----------------------------
(***************************************************************************)
(* An instance of ServerMemory for TLC: clients that create, fill, append   *)
(* to, read, unlock, close and delete two files, and never ask for the      *)
(* lock of a file that exists.                                             *)
(***************************************************************************)
EXTENDS MCFileServer, ServerMemory

WriterRequests ==
    {CreateLocked(a), CreateLocked(b), Write(a, 1),
     Write(b, 1), AppendTo(a, 1)}
    \cup On(a, {"OP_UNLOCK_FILE", "OP_DELETE_FILE"})
    \cup On(b, {"OP_READ_FILE", "OP_CLOSE_FILE"})
=============================================================================

----------------------------- MODULE AppendBuffer -----------------------------
(***************************************************************************)
(* The content of one file, byte by byte, under writeVirtualFile and        *)
(* appendVirtualFile (src/src/server/fileStorage.c): the part FileStorage   *)
(* abstracts to a size.  The file is open and its client holds the lock, so *)
(* no other client interferes (FileServer's WriterKeepsFile).               *)
(***************************************************************************)
EXTENDS Integers, Sequences

CONSTANTS
    Bytes,      \* the bytes clients send
    Sizes,      \* the numbers of bytes they send at a time, at least 1
    Zero,       \* the byte of the memory calloc returns
    MaxSize     \* bound of the model: no append beyond this size

VARIABLES
    file,       \* the buffer file->file, with its file->size bytes
    sent        \* what the client's writes and appends add up to

vars == <<file, sent>>

Chunks == UNION {[1..n -> Bytes] : n \in Sizes}

Init ==
    /\ file = << >>
    /\ sent = << >>

\* The new buffer has room for both: memcpy(tmp, old, Len(old)) and then
\* memcpy(tmp + Len(new), new, Len(new)).  What the second copy writes past
\* the end of the buffer is no part of the file.
Appended(old, new) ==
    [i \in 1..(Len(old) + Len(new)) |->
        IF i \in (Len(new) + 1)..(2 * Len(new)) THEN new[i - Len(new)]
        ELSE IF i <= Len(old) THEN old[i]
        ELSE Zero]

WriteFile(data) ==
    /\ file' = data
    /\ sent' = data

\* The first append to a file without content is a write.
AppendToFile(data) ==
    /\ Len(sent) + Len(data) <= MaxSize
    /\ file' = IF file = << >> THEN data ELSE Appended(file, data)
    /\ sent' = sent \o data

Next == \E data \in Chunks : WriteFile(data) \/ AppendToFile(data)

Spec == Init /\ [][Next]_vars

-----------------------------------------------------------------------------
\* "Copio in append il nuovo contenuto del file" (fileStorage.c): the file is
\* everything that was sent to it, in order.
AppendAppends == file = sent
=============================================================================

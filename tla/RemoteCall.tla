----------------------------- MODULE RemoteCall ------------------------------
(***************************************************************************)
(* What one connection promises to the program that calls the client        *)
(* library, with no socket, no header and no data: a call is executed by    *)
(* the server once, between its invocation and its return, and what it      *)
(* returns is the verdict of that execution.  A call of Blind returns 0     *)
(* whatever the verdict.  Reading an empty file may return either value.    *)
(*                                                                         *)
(* The promise ends when the connection breaks: the server has ended, or    *)
(* the two ends no longer agree on what the bytes between them are.         *)
(***************************************************************************)
EXTENDS Integers

CONSTANTS Ops, Blind

VARIABLES
    op,       \* the operation of the current, or last, call
    called,   \* the call has not returned
    outcome,  \* what the server decided on it, "pending" before it did
    ret,      \* what the last call returned
    broken

vars == <<op, called, outcome, ret, broken>>

Outcomes == {"ok", "empty", "fail"}

Verdict(o, result) ==
    IF o \in Blind THEN {0}
    ELSE CASE result = "ok"    -> {0}
           [] result = "empty" -> {0, -1}
           [] result = "fail"  -> {-1}

Init ==
    /\ op \in Ops
    /\ called = FALSE
    /\ outcome = "pending"
    /\ ret = 0
    /\ broken = FALSE

Invoke ==
    /\ ~called
    /\ called' = TRUE
    /\ op' \in Ops
    /\ outcome' = "pending"
    /\ UNCHANGED <<ret, broken>>

Execute ==
    /\ called
    /\ outcome = "pending"
    /\ outcome' \in Outcomes
    /\ UNCHANGED <<op, called, ret, broken>>

Return ==
    /\ called
    /\ outcome # "pending"
    /\ called' = FALSE
    /\ ret' \in Verdict(op, outcome)
    /\ UNCHANGED <<op, outcome, broken>>

\* From the step that breaks the connection on, nothing is promised.
Break == broken' = TRUE

Next == Invoke \/ Execute \/ Return \/ Break

Spec == Init /\ [][Next]_vars
=============================================================================

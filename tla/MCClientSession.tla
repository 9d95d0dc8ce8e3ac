--------------------------- MODULE MCClientSession ---------------------------
(***************************************************************************)
(* Instances of ClientSession for TLC: the options a client is given.       *)
(***************************************************************************)
EXTENDS ClientSession

CommandLine == {"W", "r", "R", "l", "u", "c"}

Library == CommandLine \cup {"append", "close"}
=============================================================================

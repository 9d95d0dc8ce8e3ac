------------------------------ MODULE MCDispatch ------------------------------
(***************************************************************************)
(* An instance of Dispatch for TLC.                                         *)
(***************************************************************************)
EXTENDS Dispatch, TLC

CONSTANTS k1, k2, k3, w1, w2, w3

Alike == Permutations({w1, w2}) \cup Permutations({k1, k2, k3})
=============================================================================

------------------------------ MODULE MCClientConn ------------------------------
(*******************************************************************************)
(* Small instances of ClientConn.                                              *)
(*******************************************************************************)
EXTENDS ClientConn, TLC

CallSymmetry == Permutations(Op) \cup Permutations(Closer)
================================================================================

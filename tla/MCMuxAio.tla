------------------------------ MODULE MCMuxAio ------------------------------
EXTENDS MuxAio, TLC

(* Calls are interchangeable.                                              *)
CallSymmetry == Permutations(Calls)
=============================================================================

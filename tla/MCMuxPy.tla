------------------------------- MODULE MCMuxPy -------------------------------
(* Instances of MuxPy for TLC.  Calls are interchangeable: no definition   *)
(* names one, so permuting them is sound for the safety runs.              *)
EXTENDS MuxPy, TLC

CallSymmetry == Permutations(Calls)
=============================================================================

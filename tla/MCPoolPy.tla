------------------------------- MODULE MCPoolPy -------------------------------
(* An instance of PoolPy for TLC.                                          *)
EXTENDS PoolPy
=============================================================================

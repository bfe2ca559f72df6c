----------------------------- MODULE MCGuardLock -----------------------------
(***************************************************************************)
(* Instances of GuardLock for TLC: three threads that may use one guard    *)
(* each, over and over.                                                    *)
(***************************************************************************)
EXTENDS GuardLock, TLC

CONSTANTS a1, a2, a3
GuardSymmetry == Permutations(Actor)
=============================================================================

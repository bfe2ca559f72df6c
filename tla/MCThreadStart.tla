----------------------------- MODULE MCThreadStart -----------------------------
(***************************************************************************)
(* Instances of ThreadStart for TLC.                                       *)
(***************************************************************************)
EXTENDS ThreadStart, TLC

CONSTANTS l1, l2, t1, t2, t3
===============================================================================

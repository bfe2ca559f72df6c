----------------------------- MODULE MCEventLoop -----------------------------
(***************************************************************************)
(* Instances of EventLoop for TLC: threads that steer the loop and queue   *)
(* functions to it, as the functions do themselves.                        *)
(***************************************************************************)
EXTENDS EventLoop

CONSTANTS c1, c2, dispatcher, start
===============================================================================

------------------------------ MODULE ThreadLife ------------------------------
(***************************************************************************)
(* What starting a _thread promises its users: its two ids become known    *)
(* together, before its function and its launcher go on; its function runs *)
(* once; the object outlives both the function and the launcher's use.     *)
(***************************************************************************)
CONSTANTS Thread
VARIABLES phase,    \* phase[t]: none, running, ended or gone
          kept      \* the threads their launcher still owns

lifeVars == <<phase, kept>>

LifeInit == phase = [t \in Thread |-> "none"] /\ kept = {}

Start(t) ==
  /\ phase[t] = "none" /\ phase' = [phase EXCEPT ![t] = "running"]
  /\ kept' = kept \cup {t}
End(t) ==
  /\ phase[t] = "running" /\ phase' = [phase EXCEPT ![t] = "ended"]
  /\ UNCHANGED kept
\* The later of the function's end and the launcher's release destroys it.
Give(t) ==
  /\ t \in kept /\ kept' = kept \ {t}
  /\ \/ UNCHANGED phase
     \/ phase[t] = "ended" /\ phase' = [phase EXCEPT ![t] = "gone"]
Die(t) ==
  /\ phase[t] = "ended" /\ t \notin kept
  /\ phase' = [phase EXCEPT ![t] = "gone"] /\ UNCHANGED kept

LifeNext == \E t \in Thread : Start(t) \/ End(t) \/ Give(t) \/ Die(t)
LifeSpec == LifeInit /\ [][LifeNext]_lifeVars
===============================================================================

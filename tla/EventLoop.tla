------------------------------ MODULE EventLoop ------------------------------
(***************************************************************************)
(* One eventloop_data (eventloop.cpp) in use: its gate (LoopGate) and its  *)
(* queue of functions (InsertQueue).  The same threads steer the loop and  *)
(* queue functions to it, one call after another, and a queued function    *)
(* may do both.  The two parts have a mutex each.  The Dispatcher is the   *)
(* thread that would run the rounds; start itself stays at the gate, and   *)
(* nothing is assumed to make the Dispatcher move.                         *)
(***************************************************************************)
EXTENDS LoopGate, InsertQueue

ASSUME UsersSteer == Inserter \cup {Dispatcher} \subseteq Caller

loopVars == <<vars, queueVars>>

\* A thread is in one call at a time; the dispatcher calls from a function.
MayCall(c) ==
  /\ at[c] = "idle"
  /\ c \in User => ins[c] = "idle"
  /\ c = Dispatcher => doing = "run"

LoopInit == Init /\ QueueInit

SteerStep(c) == (SetWait(c) \/ SignalCond(c)) /\ UNCHANGED queueVars
DispatcherStep ==
  /\ \/ Report \/ ReadCounter \/ Relock \/ Take \/ Answer
     \/ at[Dispatcher] = "idle" /\ RunEnds
  /\ UNCHANGED vars

LoopNext ==
  \/ (LoopStep \/ WakeSpuriously) /\ UNCHANGED queueVars
  \/ \E c \in Caller :
       \/ \E w \in Waits : MayCall(c) /\ Call(c, w) /\ UNCHANGED queueVars
       \/ SteerStep(c)
  \/ \E a \in User :
       /\ UNCHANGED vars
       /\ \/ MayCall(a) /\ BeginInsert(a)
          \/ InsertStep(a)
  \/ DispatcherStep

\* The fairness of LoopGate.  Strong for the loop alone, which gets the mutex of
\* the gate when it asks for it again and again; nothing for insertions and the
\* Dispatcher, whose round the code does not reach.
LoopSpec ==
  /\ LoopInit /\ [][LoopNext]_loopVars
  /\ SF_loopVars(LoopStep /\ UNCHANGED queueVars)
  /\ \A c \in Caller : WF_loopVars(SteerStep(c))
===============================================================================

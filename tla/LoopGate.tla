------------------------------- MODULE LoopGate -------------------------------
(***************************************************************************)
(* The gate of the event loop (eventloop.cpp): before each round the loop  *)
(* looks at data->wait and sleeps on a condition variable unless it is     *)
(* CONNTINUE; loop_wait, loop_continue and loop_end, called by any thread, *)
(* change data->wait under the mutex, and the last two signal the          *)
(* condition after they have let the mutex go.                             *)
(*                                                                         *)
(* Nothing of the round itself is here: start goes from the gate straight  *)
(* back to the gate (the rest of its body follows the while(1)).           *)
(***************************************************************************)
EXTENDS Naturals

CONSTANTS
  Caller,   \* threads that call loop_wait, loop_continue and loop_end
  Loop,     \* the thread that runs start
  None

ASSUME GateAssumption == Loop \notin Caller /\ None \notin Caller \cup {Loop}

VARIABLES
  wait,     \* data->wait
  mutex,    \* who holds data->wait_mutex_lock
  loop,     \* where start is
  at        \* at[c]: what c has still to do; the value it sets, or the signal

vars == <<wait, mutex, loop, at>>

Waits == {"STOP", "CONTINUE", "END"}

\* The guards of mutex_lock.h; the mutex is a default one and is never asked
\* for by its holder, so that neither of them fails.
Lock(a) == mutex = None /\ mutex' = a
Unlock == mutex' = None

\* Slip: loop_continue leaves the signal out.
SignalsEnd == {"END"}
\* The calls that signal: loop_continue and loop_end.
Signals == {"CONTINUE", "END"}

-----------------------------------------------------------------------------
(***************************************************************************)
(* loop_wait, loop_continue, loop_end.                                     *)
(***************************************************************************)
Call(c, w) ==
  /\ at[c] = "idle" /\ Lock(c)
  /\ at' = [at EXCEPT ![c] = w]
  /\ UNCHANGED <<wait, loop>>

SetWait(c) ==
  /\ at[c] \in Waits /\ Unlock
  /\ wait' = at[c]
  /\ at' = [at EXCEPT ![c] = IF at[c] \in Signals THEN "signal" ELSE "idle"]
  /\ UNCHANGED loop

\* Only the loop sleeps on the condition; a signal finds it asleep or is lost.
SignalCond(c) ==
  /\ at[c] = "signal"
  /\ loop' = IF loop = "asleep" THEN "woken" ELSE loop
  /\ at' = [at EXCEPT ![c] = "idle"]
  /\ UNCHANGED <<wait, mutex>>

-----------------------------------------------------------------------------
(***************************************************************************)
(* start.                                                                  *)
(***************************************************************************)
Enter ==
  /\ loop = "gate" /\ Lock(Loop)
  /\ loop' = "test" /\ UNCHANGED <<wait, at>>

Pass ==
  /\ loop = "test" /\ wait = "CONTINUE"
  /\ loop' = "gate" /\ Unlock /\ UNCHANGED <<wait, at>>

\* pthread_cond_wait falls asleep and lets the mutex go in one step.
Sleep ==
  /\ loop = "test" /\ wait # "CONTINUE"
  /\ loop' = "asleep" /\ Unlock /\ UNCHANGED <<wait, at>>

\* pthread_cond_wait may return although nobody signalled.
WakeSpuriously ==
  /\ loop = "asleep"
  /\ loop' = "woken" /\ UNCHANGED <<wait, mutex, at>>

Wake ==
  /\ loop = "woken" /\ Lock(Loop)
  /\ loop' = "awake" /\ UNCHANGED <<wait, at>>

End ==
  /\ loop = "awake" /\ wait = "END"
  /\ loop' = "ended" /\ Unlock /\ UNCHANGED <<wait, at>>

\* Slip: END is not looked for.
AgainAlways ==
  /\ loop = "awake"
  /\ loop' = "test" /\ UNCHANGED <<wait, mutex, at>>
\* Back to the condition of the inner while, with the mutex.
Again ==
  /\ loop = "awake" /\ wait # "END"
  /\ loop' = "test" /\ UNCHANGED <<wait, mutex, at>>

-----------------------------------------------------------------------------
\* Slip: the constructor does not set data->wait.
InitUnset ==
  /\ wait = "unset"
  /\ mutex = None
  /\ loop = "gate"
  /\ at = [c \in Caller |-> "idle"]
Init ==
  /\ wait = "CONTINUE"
  /\ mutex = None
  /\ loop = "gate"
  /\ at = [c \in Caller |-> "idle"]

LoopStep == Enter \/ Pass \/ Sleep \/ Wake \/ End \/ Again

Next ==
  \/ LoopStep \/ WakeSpuriously
  \/ \E c \in Caller :
       (\E w \in Waits : Call(c, w)) \/ SetWait(c) \/ SignalCond(c)

Spec == Init /\ [][Next]_vars

\* The scheduler runs the loop, which gets a mutex it asks for again and again,
\* and every call that has begun. Nobody need ever call, and nothing need wake
\* the loop spuriously.
FairSpec ==
  /\ Spec
  /\ SF_vars(LoopStep)
  /\ \A c \in Caller : WF_vars(SetWait(c) \/ SignalCond(c))

-----------------------------------------------------------------------------
TypeOK ==
  /\ wait \in Waits
  /\ mutex \in Caller \cup {Loop, None}
  /\ loop \in {"gate", "test", "asleep", "woken", "awake", "ended"}
  /\ at \in [Caller -> Waits \cup {"idle", "signal"}]

\* loop_continue is never missed: a loop that sleeps although it may go on has
\* a signal coming, although the signal is sent without the mutex.
NoSleepThroughContinue ==
  loop = "asleep" /\ wait = "CONTINUE" => \E c \in Caller : at[c] = "signal"

\* A loop that may go on does.
ContinueIsHeard ==
  wait = "CONTINUE" /\ loop \notin {"gate", "ended"} ~> wait # "CONTINUE" \/ loop = "gate"

\* A loop_end that finds the loop asleep ends it, unless a later call takes it
\* back. One that finds it elsewhere may be slept through: start looks for END
\* only after pthread_cond_wait.
EndIsHeard ==
  wait = "END" /\ loop = "asleep" /\ (\E c \in Caller : at[c] = "signal")
    ~> wait # "END" \/ loop = "ended"

-----------------------------------------------------------------------------
\* The inductive part of EventLoopProofs: the mutex has the holder its users
\* suppose it has, so that data->wait does not change between test and sleep.
HolderIsInside ==
  /\ \A c \in Caller : at[c] \in Waits => mutex = c
  /\ loop \in {"test", "awake"} => mutex = Loop
===============================================================================

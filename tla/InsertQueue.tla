----------------------------- MODULE InsertQueue -----------------------------
(***************************************************************************)
(* insert_func_fd (eventloop.cpp): functions that other threads queue to   *)
(* the thread of the event loop.  insert_func pushes a function under a    *)
(* mutex, lets the mutex go, and then adds to an eventfd that is watched   *)
(* edge triggered.  do_func, called when epoll reports the eventfd, first  *)
(* reads it to zero and then runs at most Batch functions, each without    *)
(* the mutex, so that a function may queue others.                         *)
(*                                                                         *)
(* The round of eventloop::start that would call do_func follows its       *)
(* while(1), and add_fd registers a mask it leaves uninitialized, so that  *)
(* no function runs as the code stands.  This module is what insert_func   *)
(* and do_func do under a round that is reached and a descriptor that is   *)
(* watched for EPOLLIN|EPOLLET: an edge is reported once, if the eventfd   *)
(* is still readable by then, and what do_func answers is forgotten.  It   *)
(* states safety only; nothing here says that a function is ever run.      *)
(***************************************************************************)
EXTENDS Naturals, Sequences

CONSTANTS
  Inserter,    \* threads that call insert_func
  Dispatcher,  \* the thread that calls do_func
  NoOne,       \* the mutex is free
  Batch,       \* the functions one call of do_func runs at most: 5
  MaxInserts   \* bound: functions that are inserted

ASSUME QueueAssumption ==
  /\ Dispatcher \notin Inserter /\ NoOne \notin Inserter \cup {Dispatcher}
  /\ Batch \in Nat \ {0} /\ MaxInserts \in Nat

User == Inserter \cup {Dispatcher}

VARIABLES
  que,       \* the queue, functions by their number
  quelock,   \* who holds its mutex
  counter,   \* is the count of the eventfd above zero?
  edge,      \* has the eventfd been added to since epoll last looked?
  doing,     \* where the dispatcher is
  count,     \* i of do_func: the functions it has run
  ins,       \* ins[a]: what a has still to do of insert_func
  pushed,    \* history: how many functions were pushed; they are numbered so
  ran,       \* history: the functions that have begun to run, in their order
  burst      \* history: did the last wakeup find more than Batch functions?

inside    == <<quelock, doing, count>>
queueHist == <<pushed, ran, burst>>
queueVars == <<que, counter, edge, ins, inside, queueHist>>

\* A guard that waits: mutex_lock _lock(lock), and locked of do_func, whose answer
\* is not looked at but cannot be a failure.
LockQueue(a) == quelock = NoOne /\ quelock' = a
UnlockQueue == quelock' = NoOne

-----------------------------------------------------------------------------
(***************************************************************************)
(* insert_func, called by any thread, or by a function the loop runs.      *)
(***************************************************************************)
MayInsert(a) ==
  /\ ins[a] = "idle" /\ pushed < MaxInserts
  /\ a = Dispatcher => doing = "run"

BeginInsert(a) ==
  /\ MayInsert(a) /\ LockQueue(a)
  /\ ins' = [ins EXCEPT ![a] = "push"]
  /\ UNCHANGED <<que, counter, edge, doing, count, queueHist>>

Push(a) ==
  /\ ins[a] = "push"
  /\ pushed' = pushed + 1 /\ que' = Append(que, pushed + 1)
  /\ UnlockQueue
  /\ ins' = [ins EXCEPT ![a] = "write"]
  /\ UNCHANGED <<counter, edge, doing, count, ran, burst>>

Write(a) ==
  /\ ins[a] = "write"
  /\ counter' = TRUE /\ edge' = TRUE
  /\ ins' = [ins EXCEPT ![a] = "idle"]
  /\ UNCHANGED <<que, inside, queueHist>>

-----------------------------------------------------------------------------
(***************************************************************************)
(* do_func.                                                                *)
(***************************************************************************)
\* The round, were it reached: epoll_wait reports an edge of a descriptor that is
\* still readable, and the descriptor's read is called.
Report ==
  /\ doing = "wait" /\ edge
  /\ edge' = FALSE
  /\ doing' = IF counter THEN "called" ELSE "wait"
  /\ UNCHANGED <<que, quelock, counter, count, ins, queueHist>>

ReadCounter ==
  /\ doing = "called"
  /\ counter' = FALSE /\ doing' = "lock"
  /\ burst' = (Len(que) > Batch)
  /\ UNCHANGED <<que, quelock, edge, count, ins, pushed, ran>>

\* The first lock of do_func, and _lock.locked() after each function.
Relock ==
  /\ doing = "lock" /\ LockQueue(Dispatcher)
  /\ doing' = "test"
  /\ UNCHANGED <<que, counter, edge, count, ins, queueHist>>

\* Slip: the function is not popped.
TakeNot ==
  /\ doing = "test" /\ count < Batch /\ que # <<>>
  /\ ran' = Append(ran, Head(que)) /\ UnlockQueue
  /\ doing' = "run"
  /\ UNCHANGED <<que, counter, edge, count, ins, pushed, burst>>

\* Slip: i<=5.
TakeOneMore ==
  /\ doing = "test" /\ count <= Batch /\ que # <<>>
  /\ que' = Tail(que) /\ ran' = Append(ran, Head(que)) /\ UnlockQueue
  /\ doing' = "run"
  /\ UNCHANGED <<counter, edge, count, ins, pushed, burst>>

\* func=que.front(); que.pop(); _lock.unlock(); and the function begins.
Take ==
  /\ doing = "test" /\ count < Batch /\ que # <<>>
  /\ que' = Tail(que) /\ ran' = Append(ran, Head(que)) /\ UnlockQueue
  /\ doing' = "run"
  /\ UNCHANGED <<counter, edge, count, ins, pushed, burst>>

RunEnds ==
  /\ doing = "run" /\ ins[Dispatcher] = "idle"
  /\ doing' = "lock" /\ count' = count + 1
  /\ UNCHANGED <<que, quelock, counter, edge, ins, queueHist>>

\* Slip: the eventfd is read only now, with what was added meanwhile.
AnswerReads ==
  /\ doing = "test" /\ (count = Batch \/ que = <<>>)
  /\ doing' = "wait" /\ count' = 0 /\ UnlockQueue
  /\ counter' = FALSE
  /\ UNCHANGED <<que, edge, ins, queueHist>>

\* FINISH or NOT_FINISH, of which the round keeps nothing.
Answer ==
  /\ doing = "test" /\ (count = Batch \/ que = <<>>)
  /\ doing' = "wait" /\ count' = 0 /\ UnlockQueue
  /\ UNCHANGED <<que, counter, edge, ins, queueHist>>

-----------------------------------------------------------------------------
QueueInit ==
  /\ que = <<>> /\ quelock = NoOne
  /\ counter = FALSE /\ edge = FALSE
  /\ doing = "wait" /\ count = 0
  /\ ins = [a \in User |-> "idle"]
  /\ pushed = 0 /\ ran = <<>> /\ burst = FALSE

InsertStep(a) == Push(a) \/ Write(a)
DispatchStep == Report \/ ReadCounter \/ Relock \/ Take \/ RunEnds \/ Answer

QueueNext ==
  \/ \E a \in User : BeginInsert(a) \/ InsertStep(a)
  \/ DispatchStep

QueueSpec == QueueInit /\ [][QueueNext]_queueVars

-----------------------------------------------------------------------------
QueueTypeOK ==
  /\ que \in Seq(Nat)
  /\ quelock \in User \cup {NoOne}
  /\ counter \in BOOLEAN /\ edge \in BOOLEAN
  /\ doing \in {"wait", "called", "lock", "test", "run"}
  /\ count \in 0 .. Batch
  /\ ins \in [User -> {"idle", "push", "write"}]
  /\ pushed \in Nat /\ ran \in Seq(Nat)
  /\ burst \in BOOLEAN

\* Every function that was queued is run once, in the order of the queue, or is
\* still in it, whoever inserts while the mutex is given back for a function.
OnceInOrder == ran \o que = [n \in 1 .. pushed |-> n]

\* The eventfd will be reported, or a thread is about to add to it.
Announced == counter \/ \E a \in User : ins[a] = "write"

\* No function is left in the queue with nothing to wake the loop for it, unless
\* the last wakeup found more functions than do_func runs: NOT_FINISH is dropped,
\* and the eventfd was read to zero before the queue was looked at.
NoneStranded ==
  doing = "wait" /\ que # <<>> => burst \/ Announced

-----------------------------------------------------------------------------
(***************************************************************************)
(* The inductive part of EventLoopProofs.                                  *)
(***************************************************************************)
\* What is readable is reported, once the loop waits again.
EdgeIsPending ==
  /\ doing = "called" => counter
  /\ counter /\ doing # "called" => edge

\* The mutex has the holder its users suppose it has.
QueueHolder ==
  /\ \A a \in User : ins[a] = "push" => quelock = a
  /\ doing = "test" => quelock = Dispatcher
  /\ ins[Dispatcher] # "idle" => doing = "run"

\* The functions this call of do_func will still run.
Room ==
  CASE doing \in {"lock", "test"} -> Batch - count
    [] doing = "run" -> Batch - (count + 1)
    [] OTHER -> 0
\* Functions nobody announces have room in the call under way.
RoomForSilent ==
  /\ doing = "run" => count < Batch
  /\ doing \in {"wait", "called"} => count = 0
  /\ ~burst /\ ~Announced => Len(que) <= Room
===============================================================================

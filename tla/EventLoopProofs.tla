--------------------------- MODULE EventLoopProofs ----------------------------
(***************************************************************************)
(* Proofs about the event loop, for any number of threads that steer it    *)
(* and queue functions to it, any number of functions and any batch: about *)
(* LoopGate, about InsertQueue, and about the two together in EventLoop.   *)
(***************************************************************************)
EXTENDS EventLoop, TLAPS

-----------------------------------------------------------------------------
(***************************************************************************)
(* The gate.                                                               *)
(***************************************************************************)
GateInv == TypeOK /\ HolderIsInside /\ NoSleepThroughContinue

LEMMA GateInitIsGood == Init => GateInv
BY GateAssumption DEF Init, GateInv, TypeOK, HolderIsInside, NoSleepThroughContinue, Waits

\* Whatever a thread does keeps the inductive invariant.
LEMMA GateStepKeeps == GateInv /\ [Next]_vars => GateInv'
<1> SUFFICES ASSUME GateInv, [Next]_vars PROVE GateInv'
  OBVIOUS
<1> USE GateAssumption DEF GateInv, TypeOK, HolderIsInside, Waits
<1>1. ASSUME NEW c \in Caller, NEW w \in Waits, Call(c, w) PROVE GateInv'
  BY <1>1 DEF Call, Lock, NoSleepThroughContinue
<1>2. ASSUME NEW c \in Caller, SetWait(c) PROVE GateInv'
  <2>1. TypeOK'
    BY <1>2 DEF SetWait, Unlock
  <2>2. HolderIsInside'
    BY <1>2 DEF SetWait, Unlock
  <2>3. NoSleepThroughContinue'
    BY <1>2 DEF SetWait, Signals, NoSleepThroughContinue
  <2> QED BY <2>1, <2>2, <2>3
<1>3. ASSUME NEW c \in Caller, SignalCond(c) PROVE GateInv'
  BY <1>3 DEF SignalCond, NoSleepThroughContinue
<1>4. CASE Enter
  BY <1>4 DEF Enter, Lock, NoSleepThroughContinue
<1>5. CASE Pass
  BY <1>5 DEF Pass, Unlock, NoSleepThroughContinue
<1>6. CASE Sleep
  BY <1>6 DEF Sleep, Unlock, NoSleepThroughContinue
<1>7. CASE WakeSpuriously
  BY <1>7 DEF WakeSpuriously, NoSleepThroughContinue
<1>8. CASE Wake
  BY <1>8 DEF Wake, Lock, NoSleepThroughContinue
<1>9. CASE End \/ Again
  BY <1>9 DEF End, Again, Unlock, NoSleepThroughContinue
<1>10. CASE UNCHANGED vars
  BY <1>10 DEF vars, NoSleepThroughContinue
<1> QED
  BY <1>1, <1>2, <1>3, <1>4, <1>5, <1>6, <1>7, <1>8, <1>9, <1>10 DEF Next, LoopStep

\* The type invariant of eventloop_data's gate.
THEOREM GateTypeCorrect == Spec => []TypeOK
<1>1. GateInv => TypeOK
  BY DEF GateInv
<1> QED BY GateInitIsGood, GateStepKeeps, <1>1, PTL DEF Spec

\* However many threads steer the loop, it never sleeps through loop_continue,
\* although loop_continue signals after it has let the mutex go.
THEOREM ContinueIsNeverMissed == Spec => []NoSleepThroughContinue
<1>1. GateInv => NoSleepThroughContinue
  BY DEF GateInv
<1> QED BY GateInitIsGood, GateStepKeeps, <1>1, PTL DEF Spec

-----------------------------------------------------------------------------
(***************************************************************************)
(* The queue.                                                              *)
(***************************************************************************)
QueueInv == QueueTypeOK /\ QueueHolder /\ EdgeIsPending /\ RoomForSilent

LEMMA QueueInitIsGood == QueueInit => QueueInv
<1> SUFFICES ASSUME QueueInit PROVE QueueInv
  OBVIOUS
<1> USE QueueAssumption DEF QueueInit
<1>1. QueueTypeOK
  <2>1. que \in Seq(Nat) /\ ran \in Seq(Nat) /\ pushed \in Nat /\ count \in 0 .. Batch
    OBVIOUS
  <2>2. counter \in BOOLEAN /\ edge \in BOOLEAN /\ burst \in BOOLEAN
    OBVIOUS
  <2>3. ins \in [User -> {"idle", "push", "write"}]
    OBVIOUS
  <2> QED BY <2>1, <2>2, <2>3 DEF QueueTypeOK
<1>2. QueueHolder /\ EdgeIsPending
  BY DEF QueueHolder, EdgeIsPending, User
<1>3. RoomForSilent
  BY DEF RoomForSilent, Room
<1> QED BY <1>1, <1>2, <1>3 DEF QueueInv

\* The steps of insert_func.
LEMMA InsertKeeps ==
  ASSUME QueueInv, NEW a \in User, BeginInsert(a) \/ Push(a) \/ Write(a)
  PROVE QueueInv'
<1> USE QueueAssumption DEF QueueInv, QueueTypeOK, QueueHolder, EdgeIsPending, User
<1>1. CASE BeginInsert(a)
  <2>1. QueueTypeOK' /\ QueueHolder' /\ EdgeIsPending'
    BY <1>1 DEF BeginInsert, MayInsert, LockQueue, queueHist
  <2>2. Announced => Announced'
    BY <1>1 DEF BeginInsert, MayInsert, Announced
  <2>3. RoomForSilent'
    BY <1>1, <2>2 DEF BeginInsert, queueHist, RoomForSilent, Room
  <2> QED BY <2>1, <2>3
<1>2. CASE Push(a)
  <2>1. QueueTypeOK'
    BY <1>2 DEF Push, UnlockQueue
  <2>2. QueueHolder' /\ EdgeIsPending'
    BY <1>2 DEF Push, UnlockQueue
  <2>3. Announced'
    BY <1>2 DEF Push, Announced
  <2>4. RoomForSilent'
    BY <1>2, <2>3 DEF Push, RoomForSilent
  <2> QED BY <2>1, <2>2, <2>4
<1>3. CASE Write(a)
  <2>1. QueueTypeOK' /\ QueueHolder' /\ EdgeIsPending'
    BY <1>3 DEF Write, inside, queueHist
  <2>2. RoomForSilent'
    BY <1>3 DEF Write, inside, queueHist, RoomForSilent, Announced
  <2> QED BY <2>1, <2>2
<1> QED BY <1>1, <1>2, <1>3

\* The steps of do_func and of epoll.
LEMMA DispatchKeeps ==
  ASSUME QueueInv, DispatchStep
  PROVE QueueInv'
<1> USE QueueAssumption DEF QueueInv, QueueTypeOK, QueueHolder, EdgeIsPending, User
<1>1. CASE Report
  <2>1. QueueTypeOK' /\ QueueHolder' /\ EdgeIsPending'
    BY <1>1 DEF Report, queueHist
  <2>2. Announced <=> Announced'
    BY <1>1 DEF Report, Announced
  <2>3. RoomForSilent'
    BY <1>1, <2>2 DEF Report, queueHist, RoomForSilent, Room
  <2> QED BY <2>1, <2>3
<1>2. CASE ReadCounter
  <2>1. burst' = (Len(que) > Batch)
    BY <1>2 DEF ReadCounter
  <2>2. burst' \in BOOLEAN /\ (~burst' => Len(que) <= Batch)
    <3>1. CASE Len(que) > Batch
      BY <2>1, <3>1
    <3>2. CASE ~(Len(que) > Batch)
      BY <2>1, <3>2
    <3> QED BY <3>1, <3>2
  <2>3. QueueTypeOK' /\ QueueHolder' /\ EdgeIsPending'
    BY <1>2, <2>2 DEF ReadCounter
  <2>4. RoomForSilent'
    BY <1>2, <2>2 DEF ReadCounter, RoomForSilent, Room
  <2> QED BY <2>3, <2>4
<1>3. CASE Relock
  BY <1>3 DEF Relock, LockQueue, queueHist, RoomForSilent, Room, Announced
<1>4. CASE Take
  <2>1. QueueTypeOK' /\ QueueHolder' /\ EdgeIsPending'
    BY <1>4 DEF Take, UnlockQueue
  <2>2. Len(que') = Len(que) - 1
    BY <1>4 DEF Take
  <2>3. Announced <=> Announced'
    BY <1>4 DEF Take, Announced
  <2>4. RoomForSilent'
    BY <1>4, <2>2, <2>3 DEF Take, RoomForSilent, Room
  <2> QED BY <2>1, <2>4
<1>5. CASE RunEnds
  BY <1>5 DEF RunEnds, queueHist, RoomForSilent, Room, Announced
<1>6. CASE Answer
  <2>1. QueueTypeOK' /\ QueueHolder' /\ EdgeIsPending'
    BY <1>6 DEF Answer, UnlockQueue, queueHist
  <2>2. Announced <=> Announced'
    BY <1>6 DEF Answer, Announced
  <2>3. RoomForSilent'
    BY <1>6, <2>2 DEF Answer, queueHist, RoomForSilent, Room
  <2> QED BY <2>1, <2>3
<1> QED BY <1>1, <1>2, <1>3, <1>4, <1>5, <1>6 DEF DispatchStep

LEMMA QueueStepKeeps == QueueInv /\ [QueueNext]_queueVars => QueueInv'
<1> SUFFICES ASSUME QueueInv, [QueueNext]_queueVars PROVE QueueInv'
  OBVIOUS
<1>1. CASE \E a \in User : BeginInsert(a) \/ InsertStep(a)
  BY <1>1, InsertKeeps DEF InsertStep
<1>2. CASE DispatchStep
  BY <1>2, DispatchKeeps
<1>3. CASE UNCHANGED queueVars
  BY <1>3 DEF queueVars, inside, queueHist, QueueInv, QueueTypeOK, QueueHolder,
       EdgeIsPending, RoomForSilent, Room, Announced
<1> QED BY <1>1, <1>2, <1>3 DEF QueueNext

\* The type invariant of insert_func_fd.
THEOREM QueueTypeCorrect == QueueSpec => []QueueTypeOK
<1>1. QueueInv => QueueTypeOK
  BY DEF QueueInv
<1> QED BY QueueInitIsGood, QueueStepKeeps, <1>1, PTL DEF QueueSpec

\* However many threads queue functions, and functions themselves, none is left
\* behind unannounced, unless a wakeup found more of them than do_func runs.
THEOREM NoneIsStranded == QueueSpec => []NoneStranded
<1>1. QueueInv => NoneStranded
  <2> SUFFICES ASSUME QueueInv, doing = "wait", que # <<>>, ~burst, ~Announced
               PROVE FALSE
    BY DEF NoneStranded
  <2>1. Len(que) <= 0
    BY DEF QueueInv, RoomForSilent, Room
  <2> QED BY <2>1 DEF QueueInv, QueueTypeOK
<1> QED BY QueueInitIsGood, QueueStepKeeps, <1>1, PTL DEF QueueSpec

-----------------------------------------------------------------------------
(***************************************************************************)
(* The order of the queue.                                                 *)
(***************************************************************************)
\* What is pushed comes after everything else.
LEMMA PushIsLast ==
  ASSUME NEW s \in Seq(Nat), NEW q \in Seq(Nat), NEW e \in Nat
  PROVE  s \o Append(q, e) = Append(s \o q, e)
OBVIOUS

\* The head of the queue comes after what has run, whether it has run or not.
LEMMA HeadIsNext ==
  ASSUME NEW s \in Seq(Nat), NEW q \in Seq(Nat), q # <<>>
  PROVE  Append(s, Head(q)) \o Tail(q) = s \o q
OBVIOUS

LEMMA OrderStep == QueueInv /\ OnceInOrder /\ [QueueNext]_queueVars => OnceInOrder'
<1> SUFFICES ASSUME QueueInv, OnceInOrder, [QueueNext]_queueVars PROVE OnceInOrder'
  OBVIOUS
<1>1. /\ que \in Seq(Nat) /\ ran \in Seq(Nat) /\ pushed \in Nat
      /\ ran \o que = [n \in 1 .. pushed |-> n]
  BY DEF QueueInv, QueueTypeOK, OnceInOrder
<1>2. ASSUME NEW a \in User, Push(a) PROVE OnceInOrder'
  <2>1. ran' \o que' = Append(ran \o que, pushed + 1)
    <3>1. ran' = ran /\ que' = Append(que, pushed + 1) /\ pushed + 1 \in Nat
      BY <1>1, <1>2 DEF Push
    <3> QED BY <1>1, <3>1, PushIsLast
  <2>2. Append([n \in 1 .. pushed |-> n], pushed + 1) = [n \in 1 .. pushed + 1 |-> n]
    BY <1>1
  <2> QED BY <1>1, <1>2, <2>1, <2>2 DEF Push, OnceInOrder
<1>3. CASE Take
  BY <1>1, <1>3, HeadIsNext DEF Take, OnceInOrder
<1>4. CASE UNCHANGED <<que, ran, pushed>>
  BY <1>4 DEF OnceInOrder
<1> QED
  BY <1>2, <1>3, <1>4 DEF QueueNext, queueVars, queueHist, InsertStep, DispatchStep,
     BeginInsert, Write, Report, ReadCounter, Relock, RunEnds, Answer

\* Every function that was queued runs once and in its turn, or is still queued.
THEOREM EachRunsOnceInOrder == QueueSpec => []OnceInOrder
<1>1. QueueInit => OnceInOrder
  BY DEF QueueInit, OnceInOrder
<1> QED BY QueueInitIsGood, QueueStepKeeps, OrderStep, <1>1, PTL DEF QueueSpec

-----------------------------------------------------------------------------
(***************************************************************************)
(* The loop with both.  A step of the loop is a step of one part that      *)
(* leaves the other alone, so that each part keeps its promises whatever   *)
(* is done with the other.                                                 *)
(***************************************************************************)
LEMMA LoopStepsParts == [LoopNext]_loopVars => [Next]_vars /\ [QueueNext]_queueVars
<1> SUFFICES ASSUME [LoopNext]_loopVars PROVE [Next]_vars /\ [QueueNext]_queueVars
  OBVIOUS
<1>1. CASE (LoopStep \/ WakeSpuriously) /\ UNCHANGED queueVars
  BY <1>1 DEF Next
<1>2. ASSUME NEW c \in Caller, NEW w \in Waits, Call(c, w), UNCHANGED queueVars
      PROVE  [Next]_vars /\ [QueueNext]_queueVars
  BY <1>2 DEF Next
<1>3. ASSUME NEW c \in Caller, SteerStep(c) PROVE [Next]_vars /\ [QueueNext]_queueVars
  BY <1>3 DEF SteerStep, Next
<1>4. ASSUME NEW a \in User, BeginInsert(a) \/ InsertStep(a), UNCHANGED vars
      PROVE  [Next]_vars /\ [QueueNext]_queueVars
  BY <1>4 DEF QueueNext
<1>5. CASE DispatcherStep
  BY <1>5 DEF DispatcherStep, DispatchStep, QueueNext
<1>6. CASE UNCHANGED loopVars
  BY <1>6 DEF loopVars
<1> QED  BY <1>1, <1>2, <1>3, <1>4, <1>5, <1>6 DEF LoopNext

\* A loop in use steers its gate by the operations of LoopGate alone.
THEOREM LoopUsesGate == LoopSpec => Spec
<1>1. LoopInit => Init
  BY DEF LoopInit
<1> QED  BY <1>1, LoopStepsParts, PTL DEF LoopSpec, Spec

\* A loop in use, with functions that insert, fills and empties its queue by the
\* operations of InsertQueue alone.
THEOREM LoopUsesQueue == LoopSpec => QueueSpec
<1>1. LoopInit => QueueInit
  BY DEF LoopInit
<1> QED  BY <1>1, LoopStepsParts, PTL DEF LoopSpec, QueueSpec

\* In a loop whose users steer it and queue functions to it, as the functions do
\* themselves, no continue is missed ...
THEOREM LoopIsSteered == LoopSpec => []NoSleepThroughContinue
<1> QED  BY LoopUsesGate, ContinueIsNeverMissed, PTL

\* ... and under a round that is reached every function that runs does so once and
\* in its turn, and none is left behind unannounced.
THEOREM LoopRunsItsFunctions == LoopSpec => [](OnceInOrder /\ NoneStranded)
<1> QED  BY LoopUsesQueue, EachRunsOnceInOrder, NoneIsStranded, PTL
===============================================================================

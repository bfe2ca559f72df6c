--------------------------- MODULE ThreadPoolProofs ---------------------------
(***************************************************************************)
(* Theorems about ThreadPool for every set of threads, ids and setters and *)
(* every number of places.                                                 *)
(***************************************************************************)
EXTENDS ThreadPool, TLAPS

USE DEF Kind

LEMMA FirstKindType == \A S : FirstKind(S) \in Kind
BY DEF FirstKind

\* What beginning, continuing and ending an operation does to op: nothing to
\* the operations of other actors.
OthersAsBefore(a) == \A b \in Actor \ {a} : op'[b] = op[b]

LEMMA ReturnStep ==
  ASSUME op \in [Actor -> Operation], NEW a \in Actor, Return(a)
  PROVE  op' \in [Actor -> Operation] /\ OthersAsBefore(a) /\ op'[a].at = "idle"
<1>1. Idle \in Operation /\ Idle.at = "idle"
  BY DEF Idle, Operation, Label
<1> QED BY <1>1 DEF Return, OthersAsBefore

LEMMA GotoStep ==
  ASSUME op \in [Actor -> Operation], NEW a \in Actor, NEW l \in Label, Goto(a, l)
  PROVE  /\ op' \in [Actor -> Operation] /\ OthersAsBefore(a)
         /\ op'[a].at = l /\ op'[a].th = op[a].th /\ op'[a].kind = op[a].kind
         /\ op'[a].scope = op[a].scope /\ op'[a].seen = op[a].seen
BY DEF Goto, Operation, OthersAsBefore

LEMMA TryCalcStep ==
  ASSUME op \in [Actor -> Operation], NEW a \in Actor, NEW l \in Label,
         TryCalc(a, l)
  PROVE  /\ op' \in [Actor -> Operation] /\ OthersAsBefore(a)
         /\ op'[a].at = l /\ op'[a].th = op[a].th /\ op'[a].kind = "calc"
         /\ op'[a].scope = op[a].scope /\ op'[a].seen = op[a].seen
<1> DEFINE r == [op[a] EXCEPT !.kind = "calc", !.at = l]
<1>1. op' = [op EXCEPT ![a] = r]
  BY DEF TryCalc
<1>2. /\ r \in Operation /\ r.at = l /\ r.th = op[a].th /\ r.kind = "calc"
      /\ r.scope = op[a].scope /\ r.seen = op[a].seen
  BY DEF Operation
<1> QED BY <1>1, <1>2 DEF OthersAsBefore

LEMMA BeginStep ==
  ASSUME op \in [Actor -> Operation], NEW a \in Actor, NEW l \in Label,
         NEW t \in Thread \cup {None}, NEW S \in SUBSET Kind,
         NEW x \in Tid \cup {None}, Begin(a, l, t, S, x)
  PROVE  /\ op' \in [Actor -> Operation] /\ OthersAsBefore(a)
         /\ op'[a].at = l /\ op'[a].th = t /\ op'[a].kind = FirstKind(S)
         /\ op'[a].scope = S /\ op'[a].seen = x
BY FirstKindType DEF Begin, Operation, OthersAsBefore

-----------------------------------------------------------------------------
(***************************************************************************)
(* Types, operations and locks, whatever the kernel and the locks do.      *)
(***************************************************************************)
Base == TypeOK /\ OpInv /\ LockInv

LEMMA LaunchBase ==
  ASSUME Base, NEW c \in Setter, NEW t \in Thread, Launch(c, t) PROVE Base'
<1>1. PICK x \in Tid : tid' = [tid EXCEPT ![t] = x]
  BY DEF Launch, FreeTid
<1>2. c \in Actor /\ t \in Actor
  BY DEF Actor, Caller
<1>3. TypeOK'
  BY <1>1, <1>2 DEF Base, TypeOK, Launch, history, poolVars, callVars
<1>4. OpInv'
  BY <1>1 DEF Base, TypeOK, OpInv, Launched, Launch, callVars, OthersAsBefore
<1>5. LockInv'
  BY DEF Base, LockInv, Launch, poolVars, callVars
<1> QED BY <1>3, <1>4, <1>5 DEF Base

LEMMA RefsBase ==
  ASSUME Base, NEW a \in Actor, NEW t \in Thread,
         \/ SetThreadPool(a, t) \/ KernelExit(t) \/ DropRef(a, t)
         \/ a \in Client /\ Promote(a)
  PROVE  Base'
<1>1. TypeOK'
  BY DEF Base, TypeOK, SetThreadPool, KernelExit, DropRef, Promote, history,
         poolVars, callVars
<1>2. OpInv'
  BY DEF Base, TypeOK, OpInv, Launched, SetThreadPool, KernelExit, DropRef, Promote,
         callVars, OthersAsBefore
<1>3. LockInv'
  BY DEF Base, LockInv, SetThreadPool, KernelExit, DropRef, Promote, poolVars,
         callVars
<1> QED BY <1>1, <1>2, <1>3 DEF Base

\* An actor that begins or continues an operation outside the writers' section,
\* or ends one there, leaves the locks alone.
LEMMA UnlockedStep ==
  ASSUME Base, NEW a \in Actor, op' \in [Actor -> Operation],
         OthersAsBefore(a),
         op[a].at \notin Writing, op'[a].at \notin Writing, UNCHANGED lock
  PROVE  LockInv'
BY DEF Base, LockInv, OthersAsBefore

LEMMA SetThreadBase ==
  ASSUME Base, NEW c \in Setter, NEW t \in Thread, SetThread(c, t) PROVE Base'
<1>1. c \in Actor /\ Type[t] \in SUBSET Kind /\ "check" \in Label
  BY PoolAssumption DEF Actor, Caller, Label
<1>2. op \in [Actor -> Operation]
  BY DEF Base, TypeOK
<1>3. /\ op' \in [Actor -> Operation]
      /\ OthersAsBefore(c)
      /\ \/ op'[c].at = "idle"
         \/ op'[c].at = "check" /\ op'[c].th = t
  <2>1. CASE Return(c)
    BY <1>1, <1>2, <2>1, ReturnStep
  <2>2. CASE Begin(c, "check", t, Type[t], None)
    BY <1>1, <1>2, <2>2, BeginStep
  <2> QED BY <2>1, <2>2 DEF SetThread
<1>4. op[c].at = "idle" /\ c \in refs[t]
  BY DEF SetThread
<1>5. TypeOK'
  BY <1>3 DEF Base, TypeOK, SetThread, objVars, poolVars
<1>6. OpInv'
  BY <1>3, <1>4 DEF Base, TypeOK, OpInv, Launched, SetThread, objVars, OthersAsBefore
<1>7. LockInv'
  BY <1>1, <1>3, <1>4, UnlockedStep DEF SetThread, poolVars, Writing
<1> QED BY <1>5, <1>6, <1>7 DEF Base

LEMMA SetCheckBase ==
  ASSUME Base, NEW c \in Actor, SetCheck(c) PROVE Base'
<1>1. op \in [Actor -> Operation] /\ {"lock", "check"} \subseteq Label
  BY DEF Base, TypeOK, Label
<1>2. /\ op' \in [Actor -> Operation]
      /\ OthersAsBefore(c)
      /\ \/ op'[c].at = "idle"
         \/ op'[c].at \in {"lock", "check"} /\ op'[c].th = op[c].th
  <2>1. CASE Return(c)
    BY <1>1, <2>1, ReturnStep
  <2>2. CASE Goto(c, "lock")
    BY <1>1, <2>2, GotoStep
  <2>3. CASE TryCalc(c, "check")
    BY <1>1, <2>3, TryCalcStep
  <2> QED BY <2>1, <2>2, <2>3 DEF SetCheck
<1>3. op[c].at = "check"
  BY DEF SetCheck
<1>4. TypeOK'
  BY <1>2 DEF Base, TypeOK, SetCheck, objVars, history, poolVars
<1>5. OpInv'
  BY <1>2, <1>3 DEF Base, TypeOK, OpInv, Launched, SetCheck, objVars, OthersAsBefore
<1>6. LockInv'
  BY <1>2, <1>3, UnlockedStep DEF SetCheck, poolVars, Writing
<1> QED BY <1>4, <1>5, <1>6 DEF Base

LEMMA SetLockBase ==
  ASSUME Base, NEW c \in Actor, SetLock(c) PROVE Base'
<1> DEFINE k == op[c].kind
<1>1. op \in [Actor -> Operation] /\ "insert" \in Label
  BY DEF Base, TypeOK, Label
<1>2. /\ op' \in [Actor -> Operation]
      /\ OthersAsBefore(c)
      /\ op'[c].at = "insert" /\ op'[c].th = op[c].th /\ op'[c].kind = k
  BY <1>1, GotoStep DEF SetLock
<1>3. op[c].at = "lock" /\ k \in Kind
  BY <1>1 DEF SetLock, Operation
<1>4. lock[k] = None /\ lock' = [lock EXCEPT ![k] = c]
  BY DEF SetLock, Acquire
<1>5. TypeOK'
  BY <1>2, <1>3, <1>4 DEF Base, TypeOK, SetLock, objVars, history
<1>6. OpInv'
  BY <1>2, <1>3 DEF Base, TypeOK, OpInv, Launched, SetLock, objVars, OthersAsBefore
<1>7. LockInv'
  BY <1>2, <1>3, <1>4, ActorAssumption
    DEF Base, TypeOK, LockInv, Writing, OthersAsBefore
<1> QED BY <1>5, <1>6, <1>7 DEF Base

\* A writer that ends its operation, or leaves the kind it works on, hands the
\* lock back; one that goes on keeps it.
LEMMA WriterStep ==
  ASSUME Base, NEW a \in Actor, op' \in [Actor -> Operation],
         OthersAsBefore(a), op[a].at \in Writing,
         \/ op'[a].at \notin Writing /\ Release(a)
         \/ op'[a].at \in Writing /\ op'[a].kind = op[a].kind /\ UNCHANGED lock
  PROVE  LockInv' /\ lock' \in [Kind -> Actor \cup {None}]
<1> DEFINE k == op[a].kind
<1>1. k \in Kind /\ lock[k] = a /\ lock \in [Kind -> Actor \cup {None}]
  BY DEF Base, TypeOK, LockInv, Operation
<1>2. CASE op'[a].at \notin Writing /\ Release(a)
  <2>1. lock' = [lock EXCEPT ![k] = None]
    BY <1>2 DEF Release
  <2> QED BY <1>1, <1>2, <2>1, ActorAssumption DEF Base, LockInv, OthersAsBefore
<1>3. CASE /\ op'[a].at \in Writing /\ op'[a].kind = op[a].kind
           /\ UNCHANGED lock
  BY <1>1, <1>3 DEF Base, LockInv, OthersAsBefore
<1> QED BY <1>2, <1>3

LEMMA SetInsertBase ==
  ASSUME Base, NEW c \in Actor, SetInsert(c) PROVE Base'
<1> DEFINE k == op[c].kind
           t == op[c].th
<1>1. op \in [Actor -> Operation] /\ "count" \in Label
  BY DEF Base, TypeOK, Label
<1>2. op[c].at = "insert" /\ k \in Kind /\ Launched(t) /\ tid[t] \in Tid
  BY <1>1 DEF SetInsert, Operation, Base, OpInv, Launched
<1>3. /\ op' \in [Actor -> Operation]
      /\ OthersAsBefore(c)
      /\ \/ op'[c].at = "idle" /\ Release(c)
         \/ /\ op'[c].at = "count" /\ op'[c].th = t /\ op'[c].kind = k
            /\ UNCHANGED lock
  <2>1. CASE Return(c) /\ Release(c)
    BY <1>1, <2>1, ReturnStep
  <2>2. CASE Goto(c, "count") /\ UNCHANGED lock
    BY <1>1, <2>2, GotoStep
  <2> QED BY <2>1, <2>2 DEF SetInsert
<1>4. LockInv' /\ lock' \in [Kind -> Actor \cup {None}]
  BY <1>2, <1>3, WriterStep DEF Writing
<1>5. /\ thread_map' \in [Kind -> [Tid -> Thread \cup {None}]]
      /\ pthread_to_pid' \in [Kind -> [Thread -> Tid \cup {None}]]
  <2>1. CASE Enter(k, t)
    BY <1>2, <2>1 DEF Base, TypeOK, Enter, Launched
  <2>2. CASE UNCHANGED <<thread_map, pthread_to_pid>>
    BY <2>2 DEF Base, TypeOK
  <2> QED BY <2>1, <2>2 DEF SetInsert
<1>6. TypeOK'
  BY <1>3, <1>4, <1>5 DEF Base, TypeOK, SetInsert, objVars, history
<1>7. OpInv'
  BY <1>2, <1>3 DEF Base, TypeOK, OpInv, Launched, SetInsert, objVars, OthersAsBefore
<1> QED BY <1>4, <1>6, <1>7 DEF Base

LEMMA SetCountBase ==
  ASSUME Base, NEW c \in Actor, SetCount(c) PROVE Base'
<1> DEFINE k == op[c].kind
           t == op[c].th
<1>1. op \in [Actor -> Operation]
  BY DEF Base, TypeOK
<1>2. op[c].at = "count" /\ k \in Kind /\ Launched(t) /\ tid[t] \in Tid
  BY <1>1 DEF SetCount, Operation, Base, OpInv, Launched
<1>3. /\ op' \in [Actor -> Operation]
      /\ OthersAsBefore(c)
      /\ op'[c].at = "idle" /\ Release(c)
  BY <1>1, ReturnStep DEF SetCount
<1>4. LockInv' /\ lock' \in [Kind -> Actor \cup {None}]
  BY <1>2, <1>3, WriterStep DEF Writing
<1>5. /\ thread_map' \in [Kind -> [Tid -> Thread \cup {None}]]
      /\ pthread_to_pid' \in [Kind -> [Thread -> Tid \cup {None}]]
      /\ surplus' \in [Kind -> 0 .. UMax]
      /\ accepted' \in [Kind -> SUBSET Thread]
  <2>1. CASE /\ TakePlace(k)
             /\ accepted' = [accepted EXCEPT ![k] = accepted[k] \cup {t}]
             /\ UNCHANGED <<thread_map, pthread_to_pid>>
    <3>1. surplus[k] \in 0 .. UMax /\ UMax \in Nat
      BY <1>2, PoolAssumption DEF Base, TypeOK
    <3>2. (IF surplus[k] = 0 THEN UMax ELSE surplus[k] - 1) \in 0 .. UMax
      BY <3>1
    <3> QED BY <1>2, <2>1, <3>2 DEF Base, TypeOK, TakePlace, Launched
  <2>2. CASE Unlist(k, t) /\ Unindex(k, t) /\ UNCHANGED <<surplus, accepted>>
    BY <1>2, <2>2 DEF Base, TypeOK, Unlist, Unindex, Launched
  <2> QED BY <2>1, <2>2 DEF SetCount
<1>6. TypeOK'
  BY <1>3, <1>4, <1>5 DEF Base, TypeOK, SetCount, objVars
<1>7. OpInv'
  BY <1>2, <1>3 DEF Base, TypeOK, OpInv, Launched, SetCount, objVars, OthersAsBefore
<1> QED BY <1>4, <1>6, <1>7 DEF Base

LEMMA DestroyBase ==
  ASSUME Base, NEW a \in Actor, NEW t \in Thread, Destroy(a, t) PROVE Base'
<1>1. /\ op \in [Actor -> Operation] /\ "rm_lock" \in Label
      /\ Type[t] \in SUBSET Kind
  BY PoolAssumption DEF Base, TypeOK, Label
<1>2. op[a].at = "idle" /\ refs[t] = {a} /\ obj[t] # "none"
  BY DEF Base, OpInv, Destroy
<1>3. /\ op' \in [Actor -> Operation]
      /\ OthersAsBefore(a)
      /\ \/ op'[a].at = "idle"
         \/ op'[a].at = "rm_lock" /\ op'[a].th = t
  <2>1. CASE Return(a)
    BY <1>1, <2>1, ReturnStep
  <2>2. CASE Begin(a, "rm_lock", t, Type[t], None)
    BY <1>1, <2>2, BeginStep
  <2>3. CASE UNCHANGED op
    BY <1>1, <1>2, <2>3 DEF OthersAsBefore
  <2> QED BY <2>1, <2>2, <2>3 DEF Destroy
<1>4. obj' \in [Thread -> {"none", "live", "dying", "gone"}]
  BY DEF Base, TypeOK, Destroy
<1>5. \A u \in Thread : obj'[u] = "none" <=> obj[u] = "none"
  BY <1>2 DEF Base, TypeOK, Destroy
<1>6. TypeOK'
  BY <1>3, <1>4 DEF Base, TypeOK, Destroy, history, poolVars
<1>7. OpInv'
  BY <1>2, <1>3, <1>5 DEF Base, TypeOK, OpInv, Launched, Destroy, OthersAsBefore
<1>8. LockInv'
  BY <1>2, <1>3, UnlockedStep DEF Destroy, poolVars, Writing
<1> QED BY <1>6, <1>7, <1>8 DEF Base

\* The end of remove destroys the object the operation is about.
LEMMA EndRemoveStep ==
  ASSUME Base, NEW a \in Actor, op[a].at \notin {"idle", "fetch"}, EndRemove(a)
  PROVE  /\ obj' \in [Thread -> {"none", "live", "dying", "gone"}]
         /\ \A u \in Thread : obj'[u] = "none" <=> obj[u] = "none"
         /\ op' \in [Actor -> Operation]
         /\ OthersAsBefore(a)
         /\ op'[a].at = "idle"
<1>1. op \in [Actor -> Operation] /\ Launched(op[a].th)
  BY DEF Base, TypeOK, OpInv
<1>2. obj' = [obj EXCEPT ![op[a].th] = "gone"] /\ Return(a)
  BY DEF EndRemove
<1> QED BY <1>1, <1>2, ReturnStep DEF Base, TypeOK, Launched

LEMMA RemoveLockBase ==
  ASSUME Base, NEW a \in Actor, RemoveLock(a) PROVE Base'
<1> DEFINE k == op[a].kind
<1>1. op \in [Actor -> Operation] /\ "rm_erase" \in Label
  BY DEF Base, TypeOK, Label
<1>2. op[a].at = "rm_lock" /\ k \in Kind
  BY <1>1 DEF RemoveLock, Operation
<1>3. CASE Acquire(a) /\ Goto(a, "rm_erase") /\ UNCHANGED obj
  <2>1. /\ op' \in [Actor -> Operation]
        /\ OthersAsBefore(a)
        /\ op'[a].at = "rm_erase" /\ op'[a].th = op[a].th /\ op'[a].kind = k
    BY <1>1, <1>3, GotoStep
  <2>2. lock[k] = None /\ lock' = [lock EXCEPT ![k] = a]
    BY <1>3 DEF Acquire
  <2>3. TypeOK'
    BY <1>2, <1>3, <2>1, <2>2 DEF Base, TypeOK, RemoveLock, history
  <2>4. OpInv'
    BY <1>2, <1>3, <2>1 DEF Base, TypeOK, OpInv, Launched, RemoveLock, OthersAsBefore
  <2>5. LockInv'
    BY <1>2, <2>1, <2>2, ActorAssumption
    DEF Base, TypeOK, LockInv, Writing, OthersAsBefore
  <2> QED BY <2>3, <2>4, <2>5 DEF Base
<1>4. CASE EndRemove(a) /\ UNCHANGED lock
  <2>1. /\ obj' \in [Thread -> {"none", "live", "dying", "gone"}]
        /\ \A u \in Thread : obj'[u] = "none" <=> obj[u] = "none"
        /\ op' \in [Actor -> Operation]
        /\ OthersAsBefore(a)
        /\ op'[a].at = "idle"
    BY <1>2, <1>4, EndRemoveStep
  <2>2. TypeOK'
    BY <1>4, <2>1 DEF Base, TypeOK, RemoveLock, history
  <2>3. OpInv'
    BY <2>1 DEF Base, TypeOK, OpInv, Launched, RemoveLock, OthersAsBefore
  <2>4. LockInv'
    BY <1>2, <1>4, <2>1, UnlockedStep DEF Writing
  <2> QED BY <2>2, <2>3, <2>4 DEF Base
<1> QED BY <1>3, <1>4 DEF RemoveLock

LEMMA RemoveEraseBase ==
  ASSUME Base, NEW a \in Actor, RemoveErase(a) PROVE Base'
<1> DEFINE k == op[a].kind
           t == op[a].th
<1>1. op \in [Actor -> Operation] /\ {"rm_lock", "rm_count"} \subseteq Label
  BY DEF Base, TypeOK, Label
<1>2. op[a].at = "rm_erase" /\ k \in Kind /\ Launched(t) /\ tid[t] \in Tid
  BY <1>1 DEF RemoveErase, Operation, Base, OpInv, Launched
<1>3. /\ op' \in [Actor -> Operation]
      /\ OthersAsBefore(a)
      /\ obj' \in [Thread -> {"none", "live", "dying", "gone"}]
      /\ \A u \in Thread : obj'[u] = "none" <=> obj[u] = "none"
      /\ \/ op'[a].at = "idle" /\ Release(a)
         \/ op'[a].at = "rm_lock" /\ op'[a].th = t /\ Release(a)
         \/ /\ op'[a].at = "rm_count" /\ op'[a].th = t /\ op'[a].kind = k
            /\ UNCHANGED lock
  <2>1. CASE Release(a) /\ TryCalc(a, "rm_lock") /\ UNCHANGED obj
    BY <1>1, <2>1, TryCalcStep DEF Base, TypeOK
  <2>2. CASE Release(a) /\ EndRemove(a)
    BY <1>2, <2>2, EndRemoveStep
  <2>3. CASE Goto(a, "rm_count") /\ UNCHANGED <<obj, lock>>
    BY <1>1, <2>3, GotoStep DEF Base, TypeOK
  <2> QED BY <2>1, <2>2, <2>3 DEF RemoveErase
<1>4. LockInv' /\ lock' \in [Kind -> Actor \cup {None}]
  BY <1>2, <1>3, WriterStep DEF Writing
<1>5. /\ thread_map' \in [Kind -> [Tid -> Thread \cup {None}]]
      /\ pthread_to_pid' \in [Kind -> [Thread -> Tid \cup {None}]]
  <2>1. Unlist(k, t) /\ (Unindex(k, t) \/ UNCHANGED pthread_to_pid)
    BY DEF RemoveErase
  <2> QED BY <1>2, <2>1 DEF Base, TypeOK, Unlist, Unindex, Launched
<1>6. TypeOK'
  BY <1>3, <1>4, <1>5 DEF Base, TypeOK, RemoveErase, history
<1>7. OpInv'
  BY <1>2, <1>3 DEF Base, TypeOK, OpInv, Launched, RemoveErase, OthersAsBefore
<1> QED BY <1>4, <1>6, <1>7 DEF Base

LEMMA RemoveCountBase ==
  ASSUME Base, NEW a \in Actor, RemoveCount(a) PROVE Base'
<1> DEFINE k == op[a].kind
<1>1. op \in [Actor -> Operation]
  BY DEF Base, TypeOK
<1>2. op[a].at = "rm_count" /\ k \in Kind
  BY <1>1 DEF RemoveCount, Operation
<1>3. /\ op' \in [Actor -> Operation]
      /\ OthersAsBefore(a)
      /\ obj' \in [Thread -> {"none", "live", "dying", "gone"}]
      /\ \A u \in Thread : obj'[u] = "none" <=> obj[u] = "none"
      /\ op'[a].at = "idle" /\ Release(a)
  BY <1>2, EndRemoveStep DEF RemoveCount
<1>4. LockInv' /\ lock' \in [Kind -> Actor \cup {None}]
  BY <1>2, <1>3, WriterStep DEF Writing
<1>5. surplus' \in [Kind -> 0 .. UMax]
  <2>1. surplus \in [Kind -> 0 .. UMax] /\ UMax \in Nat
    BY PoolAssumption DEF Base, TypeOK
  <2>2. (IF surplus[k] = UMax THEN 0 ELSE surplus[k] + 1) \in 0 .. UMax
    BY <1>2, <2>1
  <2> QED BY <1>2, <2>1, <2>2 DEF RemoveCount, GivePlace
<1>6. TypeOK'
  BY <1>3, <1>4, <1>5 DEF Base, TypeOK, RemoveCount, history
<1>7. OpInv'
  BY <1>2, <1>3 DEF Base, TypeOK, OpInv, Launched, RemoveCount, OthersAsBefore
<1> QED BY <1>4, <1>6, <1>7 DEF Base

LEMMA GetThreadBase ==
  ASSUME Base, NEW c \in Client, NEW l \in {"find", "fetch"},
         NEW p \in Thread \cup {None}, NEW x \in Tid \cup {None},
         NEW S \in SUBSET Kind, GetThread(c, l, p, x, S),
         l = "find" => Launched(p), l = "fetch" => x \in Tid
  PROVE  Base'
<1>1. c \in Actor /\ l \in Label /\ op \in [Actor -> Operation]
  BY DEF Actor, Caller, Label, Base, TypeOK
<1>2. op[c].at = "idle" /\ Begin(c, l, p, S, x)
  BY DEF GetThread
<1>3. /\ op' \in [Actor -> Operation] /\ OthersAsBefore(c)
      /\ op'[c].at = l /\ op'[c].th = p /\ op'[c].seen = x
  BY <1>1, <1>2, BeginStep
<1>4. TypeOK'
  BY <1>3 DEF Base, TypeOK, GetThread, objVars, history, poolVars
<1>5. OpInv'
  BY <1>3 DEF Base, TypeOK, OpInv, Launched, GetThread, objVars, OthersAsBefore
<1>6. LockInv'
  BY <1>1, <1>2, <1>3, UnlockedStep DEF GetThread, poolVars, Writing
<1> QED BY <1>4, <1>5, <1>6 DEF Base

LEMMA FindBase ==
  ASSUME Base, NEW c \in Actor, Find(c) PROVE Base'
<1> DEFINE k == op[c].kind
           x == pthread_to_pid[k][op[c].th]
           r == [op[c] EXCEPT !.at = "fetch", !.scope = {k}, !.seen = x]
<1>1. op \in [Actor -> Operation] /\ {"find", "fetch"} \subseteq Label
  BY DEF Base, TypeOK, Label
<1>2. op[c].at = "find" /\ k \in Kind /\ Launched(op[c].th)
  BY <1>1 DEF Find, Operation, Base, OpInv
<1>3. /\ op' \in [Actor -> Operation] /\ OthersAsBefore(c) /\ UNCHANGED found
      /\ \/ op'[c].at = "idle"
         \/ op'[c].at = "find" /\ op'[c].th = op[c].th
         \/ op'[c].at = "fetch" /\ op'[c].seen \in Tid
  <2>1. CASE x # None /\ op' = [op EXCEPT ![c] = r] /\ UNCHANGED found
    <3>1. x \in Tid
      BY <1>2, <2>1 DEF Base, TypeOK, Launched
    <3>2. r \in Operation /\ r.at = "fetch" /\ r.seen = x
      BY <1>1, <1>2, <3>1 DEF Operation
    <3> QED BY <1>1, <2>1, <3>1, <3>2 DEF OthersAsBefore
  <2>2. CASE NotFound(c)
    <3>1. CASE TryCalc(c, "find")
      BY <1>1, <2>2, <3>1, TryCalcStep DEF NotFound
    <3>2. CASE Return(c)
      BY <1>1, <2>2, <3>2, ReturnStep DEF NotFound
    <3> QED BY <1>2, <2>2, <3>1, <3>2 DEF NotFound
  <2>3. CASE Return(c) /\ UNCHANGED found
    BY <1>1, <2>3, ReturnStep
  <2> QED BY <2>1, <2>2, <2>3 DEF Find
<1>4. TypeOK'
  BY <1>3 DEF Base, TypeOK, Find, objVars, history, poolVars
<1>5. OpInv'
  BY <1>2, <1>3 DEF Base, TypeOK, OpInv, Launched, Find, objVars, OthersAsBefore
<1>6. LockInv'
  BY <1>2, <1>3, UnlockedStep DEF Find, poolVars, Writing
<1> QED BY <1>4, <1>5, <1>6 DEF Base

LEMMA FetchBase ==
  ASSUME Base, NEW c \in Actor, Fetch(c) PROVE Base'
<1> DEFINE k == op[c].kind
           t == thread_map[k][op[c].seen]
<1>1. op \in [Actor -> Operation] /\ "fetch" \in Label
  BY DEF Base, TypeOK, Label
<1>2. op[c].at = "fetch" /\ k \in Kind /\ op[c].seen \in Tid
  BY <1>1 DEF Fetch, Operation, Base, OpInv
<1>3. t \in Thread \cup {None}
  BY <1>2 DEF Base, TypeOK
<1>4. /\ op' \in [Actor -> Operation] /\ OthersAsBefore(c)
      /\ \/ op'[c].at = "idle"
         \/ op'[c].at = "fetch" /\ op'[c].seen = op[c].seen
  <2>1. CASE Return(c)
    BY <1>1, <2>1, ReturnStep
  <2>2. CASE NotFound(c)
    <3>1. CASE TryCalc(c, "fetch")
      BY <1>1, <3>1, TryCalcStep
    <3> QED BY <1>2, <2>1, <2>2, <3>1 DEF NotFound
  <2> QED BY <2>1, <2>2 DEF Fetch
<1>5. found' \in [Client -> Thread \cup {None}]
  BY <1>3 DEF Base, TypeOK, Fetch, NotFound
<1>6. TypeOK'
  BY <1>4, <1>5 DEF Base, TypeOK, Fetch, objVars, history, poolVars
<1>7. OpInv'
  BY <1>2, <1>4 DEF Base, TypeOK, OpInv, Launched, Fetch, objVars, OthersAsBefore
<1>8. LockInv'
  BY <1>2, <1>4, UnlockedStep DEF Fetch, poolVars, Writing
<1> QED BY <1>6, <1>7, <1>8 DEF Base

LEMMA BaseInit == Init => Base
<1> SUFFICES ASSUME Init PROVE Base
  OBVIOUS
<1>1. TypeOK
  BY PoolAssumption DEF Init, TypeOK, Idle, Operation, Label
<1>2. OpInv
  BY DEF Init, OpInv, Idle
<1>3. LockInv
  BY ActorAssumption DEF Init, LockInv, Idle, Writing
<1> QED BY <1>1, <1>2, <1>3 DEF Base

LEMMA BaseStep == Base /\ [Next]_vars => Base'
<1> SUFFICES ASSUME Base, [Next]_vars PROVE Base'
  OBVIOUS
<1>1. Setter \subseteq Actor /\ Client \subseteq Actor /\ Thread \subseteq Actor
  BY DEF Actor, Caller
<1>2. ASSUME NEW c \in Setter, NEW t \in Thread,
             Launch(c, t) \/ SetThreadPool(c, t) \/ SetThread(c, t)
      PROVE  Base'
  BY <1>1, <1>2, LaunchBase, RefsBase, SetThreadBase
<1>3. ASSUME NEW a \in Actor, NEW t \in Thread, DropRef(a, t) \/ Destroy(a, t)
      PROVE  Base'
  BY <1>3, RefsBase, DestroyBase
<1>4. ASSUME NEW c \in Client, NEW S \in SUBSET Kind,
             NEW p \in Thread, GetByPthread(c, p, S)
      PROVE  Base'
  BY <1>4, GetThreadBase DEF GetByPthread, Launched
<1>5. ASSUME NEW c \in Client, NEW S \in SUBSET Kind,
             NEW x \in Tid, GetByTid(c, x, S)
      PROVE  Base'
  BY <1>5, GetThreadBase DEF GetByTid
<1>6. ASSUME NEW c \in Client, Promote(c) PROVE Base'
  <2>1. found[c] \in Thread
    BY <1>6 DEF Promote, Base, TypeOK
  <2> QED BY <1>1, <1>6, <2>1, RefsBase
<1>7. ASSUME NEW t \in Thread, KernelExit(t) PROVE Base'
  BY <1>1, <1>7, RefsBase
<1>8. ASSUME NEW a \in Actor, Resume(a) PROVE Base'
  BY <1>8, SetCheckBase, SetLockBase, SetInsertBase, SetCountBase,
     RemoveLockBase, RemoveEraseBase, RemoveCountBase, FindBase, FetchBase
  DEF Resume
<1>9. CASE UNCHANGED vars
  BY <1>9 DEF Base, TypeOK, OpInv, LockInv, Launched, vars, objVars, history,
              poolVars, callVars
<1> QED
  BY <1>2, <1>3, <1>4, <1>5, <1>6, <1>7, <1>8, <1>9 DEF Next, Terminated

\* The state of the pool keeps its types; the surplus stays an unsigned int.
THEOREM TypeCorrect == Spec => []TypeOK
<1>1. Base => TypeOK
  BY DEF Base
<1> QED BY BaseInit, BaseStep, <1>1, PTL DEF Spec

\* A kind has one writer at a time, the actor between its lock and its unlock.
THEOREM MutualExclusion ==
  Spec => [](\A a, b \in Actor :
               /\ op[a].at \in Writing /\ op[b].at \in Writing
               /\ op[a].kind = op[b].kind
               => a = b)
<1>1. Base => \A a, b \in Actor :
                /\ op[a].at \in Writing /\ op[b].at \in Writing
                /\ op[a].kind = op[b].kind
                => a = b
  <2> SUFFICES ASSUME Base, NEW a \in Actor, NEW b \in Actor,
                      op[a].at \in Writing, op[b].at \in Writing,
                      op[a].kind = op[b].kind
               PROVE  a = b
    OBVIOUS
  <2>1. op[a].kind \in Kind
    BY DEF Base, TypeOK, Operation
  <2> QED BY <2>1 DEF Base, LockInv
<1> QED BY BaseInit, BaseStep, <1>1, PTL DEF Spec

-----------------------------------------------------------------------------
(***************************************************************************)
(* The maps, when the kernel reuses no id.  MapsAgree is not inductive by  *)
(* itself: undoing or removing the entry of a thread by its kernel id must *)
(* hit that thread's entry, which needs OneThreadPerTid and IndexInv.      *)
(***************************************************************************)
Consistent == Base /\ OneThreadPerTid /\ IndexInv /\ MapsAgree

\* Whoever is listed under the id of t is t, and is indexed.
LEMMA ListedIsSelf ==
  ASSUME Consistent, NEW k \in Kind, NEW t \in Thread, tid[t] \in Tid
  PROVE  /\ Listed(k, t) => /\ thread_map[k][tid[t]] = t
                            /\ pthread_to_pid[k][t] = tid[t]
                            /\ Indexed(k, t)
         /\ ~Listed(k, t) => ~Indexed(k, t)
<1>1. None \notin Tid /\ None \notin Thread
  BY ActorAssumption DEF Actor
<1>2. ASSUME Listed(k, t) PROVE thread_map[k][tid[t]] = t
  <2>1. PICK u \in Thread : thread_map[k][tid[t]] = u
    BY <1>2 DEF Listed, Consistent, Base, TypeOK
  <2>2. pthread_to_pid[k][u] = tid[t]
    BY <2>1 DEF Consistent, MapsAgree
  <2>3. tid[u] = tid[t]
    BY <1>1, <2>2 DEF Consistent, IndexInv
  <2> QED BY <1>1, <2>1, <2>3 DEF Consistent, OneThreadPerTid
<1>3. ASSUME ~Listed(k, t) PROVE ~Indexed(k, t)
  BY <1>1, <1>3 DEF Listed, Indexed, Consistent, IndexInv, MapsAgree
<1> QED BY <1>1, <1>2, <1>3 DEF Consistent, MapsAgree, Indexed

LEMMA LaunchConsistent ==
  ASSUME Consistent, TidReuse = FALSE, NEW c \in Setter, NEW t \in Thread,
         Launch(c, t)
  PROVE  OneThreadPerTid' /\ IndexInv' /\ MapsAgree'
<1>1. PICK x \in Tid : tid' = [tid EXCEPT ![t] = x] /\ x \notin {tid[u] : u \in Thread}
  BY DEF Launch, FreeTid
<1>2. tid[t] = None
  BY DEF Launch, Consistent, Base, OpInv
<1>3. OneThreadPerTid'
  BY <1>1 DEF Consistent, Base, TypeOK, OneThreadPerTid
<1>4. IndexInv'
  BY <1>1, <1>2 DEF Consistent, Base, TypeOK, IndexInv, Launch, poolVars
<1>5. MapsAgree'
  BY DEF Consistent, MapsAgree, Launch, poolVars
<1> QED BY <1>3, <1>4, <1>5

\* Both entries of a thread appear or disappear together.
LEMMA EnterConsistent ==
  ASSUME Consistent, NEW k \in Kind, NEW t \in Thread, tid[t] \in Tid,
         UNCHANGED tid, ~Present(k, t), Enter(k, t)
  PROVE  OneThreadPerTid' /\ IndexInv' /\ MapsAgree'
<1>1. None \notin Tid /\ None \notin Thread
  BY ActorAssumption DEF Actor
<1>2. OneThreadPerTid' /\ IndexInv'
  BY DEF Consistent, Base, TypeOK, OneThreadPerTid, IndexInv, Enter
<1>3. MapsAgree'
  BY <1>1 DEF Consistent, Base, TypeOK, MapsAgree, Enter, Present, Listed,
              Indexed
<1> QED BY <1>2, <1>3

LEMMA LeaveConsistent ==
  ASSUME Consistent, NEW k \in Kind, NEW t \in Thread, tid[t] \in Tid,
         UNCHANGED tid, Unlist(k, t),
         Unindex(k, t) \/ (~Listed(k, t) /\ UNCHANGED pthread_to_pid)
  PROVE  OneThreadPerTid' /\ IndexInv' /\ MapsAgree'
<1>1. None \notin Tid /\ None \notin Thread
  BY ActorAssumption DEF Actor
<1>2. OneThreadPerTid' /\ IndexInv'
  BY DEF Consistent, Base, TypeOK, OneThreadPerTid, IndexInv, Unindex
<1>3. MapsAgree'
  <2>1. CASE Listed(k, t)
    <3>1. thread_map[k][tid[t]] = t /\ Unindex(k, t)
      BY <2>1, ListedIsSelf
    <3> QED BY <1>1, <3>1 DEF Consistent, Base, TypeOK, MapsAgree, Unlist, Unindex
  <2>2. CASE ~Listed(k, t)
    <3>1. thread_map[k][tid[t]] = None /\ pthread_to_pid[k][t] = None
      BY <2>2, ListedIsSelf DEF Listed, Indexed
    <3>2. UNCHANGED <<thread_map, pthread_to_pid>>
      BY <3>1 DEF Consistent, Base, TypeOK, Unlist, Unindex
    <3> QED BY <3>2 DEF Consistent, MapsAgree
  <2> QED BY <2>1, <2>2
<1> QED BY <1>2, <1>3

LEMMA ConsistentStep ==
  ASSUME TidReuse = FALSE
  PROVE  Consistent /\ [Next]_vars => Consistent'
<1> SUFFICES ASSUME Consistent, [Next]_vars
             PROVE  OneThreadPerTid' /\ IndexInv' /\ MapsAgree'
  BY BaseStep DEF Consistent
<1>1. ASSUME UNCHANGED <<tid, thread_map, pthread_to_pid>>
      PROVE  OneThreadPerTid' /\ IndexInv' /\ MapsAgree'
  BY <1>1 DEF Consistent, OneThreadPerTid, IndexInv, MapsAgree
<1>2. ASSUME NEW a \in Actor, op[a].at \notin {"idle", "fetch"}
      PROVE  op[a].kind \in Kind /\ op[a].th \in Thread /\ tid[op[a].th] \in Tid
  BY <1>2 DEF Consistent, Base, TypeOK, OpInv, Launched, Operation
<1>3. ASSUME NEW c \in Actor, SetInsert(c)
      PROVE  OneThreadPerTid' /\ IndexInv' /\ MapsAgree'
  <2>1. op[c].at = "insert" /\ UNCHANGED tid
    BY <1>3 DEF SetInsert, objVars
  <2>2. CASE ~Present(op[c].kind, op[c].th) /\ Enter(op[c].kind, op[c].th)
    BY <1>2, <2>1, <2>2, EnterConsistent
  <2>3. CASE UNCHANGED <<thread_map, pthread_to_pid>>
    BY <1>1, <2>1, <2>3
  <2> QED BY <1>3, <2>2, <2>3 DEF SetInsert
<1>4. ASSUME NEW c \in Actor, SetCount(c)
      PROVE  OneThreadPerTid' /\ IndexInv' /\ MapsAgree'
  <2>1. op[c].at = "count" /\ UNCHANGED tid
    BY <1>4 DEF SetCount, objVars
  <2>2. CASE Unlist(op[c].kind, op[c].th) /\ Unindex(op[c].kind, op[c].th)
    BY <1>2, <2>1, <2>2, LeaveConsistent
  <2>3. CASE UNCHANGED <<thread_map, pthread_to_pid>>
    BY <1>1, <2>1, <2>3
  <2> QED BY <1>4, <2>2, <2>3 DEF SetCount
<1>5. ASSUME NEW a \in Actor, RemoveErase(a)
      PROVE  OneThreadPerTid' /\ IndexInv' /\ MapsAgree'
  <2> DEFINE k == op[a].kind
             t == op[a].th
  <2>1. op[a].at = "rm_erase" /\ UNCHANGED tid /\ Unlist(k, t)
    BY <1>5 DEF RemoveErase
  <2>2. k \in Kind /\ t \in Thread /\ tid[t] \in Tid
    BY <1>2, <2>1
  <2>3. Unindex(k, t) \/ (~Listed(k, t) /\ UNCHANGED pthread_to_pid)
    BY <1>5, <2>2, ListedIsSelf DEF RemoveErase
  <2> QED BY <2>1, <2>2, <2>3, LeaveConsistent
<1>6. ASSUME NEW c \in Setter, NEW t \in Thread, Launch(c, t)
      PROVE  OneThreadPerTid' /\ IndexInv' /\ MapsAgree'
  BY <1>6, LaunchConsistent
<1>7. ASSUME NEW c \in Setter, NEW t \in Thread,
             SetThreadPool(c, t) \/ SetThread(c, t)
      PROVE  UNCHANGED <<tid, thread_map, pthread_to_pid>>
  BY <1>7 DEF SetThreadPool, SetThread, objVars, poolVars
<1>8. ASSUME NEW a \in Actor, NEW t \in Thread, DropRef(a, t) \/ Destroy(a, t)
      PROVE  UNCHANGED <<tid, thread_map, pthread_to_pid>>
  BY <1>8 DEF DropRef, Destroy, poolVars
<1>9. ASSUME NEW c \in Client, NEW S \in SUBSET Kind,
             \/ \E p \in Thread : GetByPthread(c, p, S)
             \/ \E x \in Tid : GetByTid(c, x, S)
      PROVE  UNCHANGED <<tid, thread_map, pthread_to_pid>>
  BY <1>9 DEF GetByPthread, GetByTid, GetThread, objVars, poolVars
<1>10. ASSUME NEW c \in Client, Promote(c)
       PROVE  UNCHANGED <<tid, thread_map, pthread_to_pid>>
  BY <1>10 DEF Promote, poolVars
<1>11. ASSUME NEW t \in Thread, KernelExit(t)
       PROVE  UNCHANGED <<tid, thread_map, pthread_to_pid>>
  BY <1>11 DEF KernelExit, poolVars
<1>12. ASSUME NEW a \in Actor, \/ SetCheck(a) \/ SetLock(a) \/ RemoveLock(a)
                               \/ RemoveCount(a) \/ Find(a) \/ Fetch(a)
       PROVE  UNCHANGED <<tid, thread_map, pthread_to_pid>>
  BY <1>12 DEF SetCheck, SetLock, RemoveLock, RemoveCount, Find, Fetch, objVars,
               poolVars
<1>13. CASE UNCHANGED vars
  BY <1>1, <1>13 DEF vars, objVars, poolVars
<1> QED
  BY <1>1, <1>3, <1>4, <1>5, <1>6, <1>7, <1>8, <1>9, <1>10, <1>11, <1>12, <1>13
  DEF Next, Resume, Terminated

LEMMA ConsistentInit == Init => Consistent
<1>1. Init => OneThreadPerTid /\ IndexInv /\ MapsAgree
  BY ActorAssumption DEF Init, OneThreadPerTid, IndexInv, MapsAgree, Actor
<1> QED BY <1>1, BaseInit DEF Consistent

\* The two maps of a kind mirror each other, whatever fails and whoever
\* registers, as long as ids are not reused.
THEOREM MapsAgreeAlways ==
  ASSUME TidReuse = FALSE
  PROVE  Spec => []MapsAgree
<1>1. Consistent => MapsAgree
  BY DEF Consistent
<1> QED BY ConsistentInit, ConsistentStep, <1>1, PTL DEF Spec

\* remove never takes its atypism branch, as long as ids are not reused.
THEOREM NeverAtypical ==
  ASSUME TidReuse = FALSE
  PROVE  Spec => []NoAtypism
<1>1. Consistent => NoAtypism
  <2> SUFFICES ASSUME Consistent, NEW a \in Actor, op[a].at = "rm_erase",
                      Listed(op[a].kind, op[a].th)
               PROVE  Indexed(op[a].kind, op[a].th)
    BY DEF NoAtypism
  <2>1. op[a].kind \in Kind /\ op[a].th \in Thread /\ tid[op[a].th] \in Tid
    BY DEF Consistent, Base, TypeOK, OpInv, Launched, Operation
  <2> QED BY <2>1, ListedIsSelf
<1> QED BY ConsistentInit, ConsistentStep, <1>1, PTL DEF Spec
===============================================================================

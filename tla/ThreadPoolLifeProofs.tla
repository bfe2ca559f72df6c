------------------------- MODULE ThreadPoolLifeProofs -------------------------
(***************************************************************************)
(* Theorems about what the pool knows of a thread from its set_thread to   *)
(* its remove: what is accepted is found, what is found was accepted and   *)
(* has the id it was looked up by, what is refused or destroyed is         *)
(* forgotten.                                                              *)
(***************************************************************************)
EXTENDS ThreadPoolProofs

Setting  == {"check", "lock", "insert", "count"}
Removing == {"rm_lock", "rm_erase", "rm_count"}

-----------------------------------------------------------------------------
(***************************************************************************)
(* Owners.  Who registers a thread owns it, so that it is live; a dying    *)
(* thread has one remover; both work on a kind of that thread's type.      *)
(***************************************************************************)
LiveInv == \A t \in Thread : refs[t] # {} <=> obj[t] = "live"

Works(a) ==
  /\ op[a].at \in Setting => a \in refs[op[a].th]
  /\ op[a].at \in Removing => obj[op[a].th] = "dying"
  /\ op[a].at \in Setting \cup Removing =>
       op[a].kind \in op[a].scope /\ op[a].scope = Type[op[a].th]

OneRemover ==
  \A a, b \in Actor :
    op[a].at \in Removing /\ op[b].at \in Removing /\ op[a].th = op[b].th => a = b

OwnInv == LiveInv /\ (\A a \in Actor : Works(a)) /\ OneRemover

Owned == Base /\ OwnInv

LEMMA ThreadsAct ==
  /\ Setter \subseteq Actor /\ Client \subseteq Actor /\ Thread \subseteq Actor
  /\ None \notin Thread /\ None \notin Tid /\ None \notin Actor
BY ActorAssumption DEF Actor, Caller

LEMMA FirstKindIn == \A S \in SUBSET Kind : S # {} => FirstKind(S) \in S
BY DEF FirstKind, Kind

\* The thread of an operation of either sort.
LEMMA WorkedOn ==
  ASSUME Base, NEW a \in Actor, op[a].at \in Setting \cup Removing
  PROVE  op[a].kind \in Kind /\ op[a].th \in Thread /\ tid[op[a].th] \in Tid
<1>1. op[a].at \notin {"idle", "fetch"} /\ op[a] \in Operation
  BY DEF Setting, Removing, Base, TypeOK
<1> QED BY <1>1 DEF Base, OpInv, Launched, Operation

\* Whose operation goes on with its thread and scope stays where it belongs.
GoesOn(a, At) ==
  /\ op[a].at \in At /\ op'[a].at \in At
  /\ op'[a].th = op[a].th /\ op'[a].scope = op[a].scope
  /\ op'[a].kind \in op[a].scope

LEMMA CallOwned ==
  ASSUME Base, OwnInv, NEW a \in Actor, OthersAsBefore(a), UNCHANGED <<obj, refs>>,
         \/ op'[a].at \notin Setting \cup Removing
         \/ GoesOn(a, Setting)
         \/ GoesOn(a, Removing)
         \/ /\ op'[a].at = "check" /\ a \in refs[op'[a].th]
            /\ op'[a].kind \in op'[a].scope /\ op'[a].scope = Type[op'[a].th]
  PROVE  OwnInv'
<1>1. Setting \cap Removing = {} /\ "check" \in Setting
  BY DEF Setting, Removing
<1>2. LiveInv'
  BY DEF OwnInv, LiveInv
<1>3. Works(a)'
  BY <1>1 DEF OwnInv, Works, GoesOn
<1>4. ASSUME NEW b \in Actor \ {a} PROVE Works(b)'
  BY <1>4 DEF OwnInv, Works, OthersAsBefore
<1>5. OneRemover'
  BY <1>1 DEF OwnInv, OneRemover, GoesOn, OthersAsBefore
<1> QED BY <1>2, <1>3, <1>4, <1>5 DEF OwnInv

LEMMA SetterOwned ==
  ASSUME Owned, NEW c \in Actor,
         SetCheck(c) \/ SetLock(c) \/ SetInsert(c) \/ SetCount(c)
  PROVE  OwnInv'
<1>1. /\ op \in [Actor -> Operation] /\ Setting \subseteq Label
      /\ {"lock", "check", "insert", "count"} \subseteq Label
  BY DEF Owned, Base, TypeOK, Setting, Label
<1>2. op[c].at \in Setting /\ UNCHANGED <<obj, refs>>
  BY DEF SetCheck, SetLock, SetInsert, SetCount, objVars, Setting
<1>3. op[c].kind \in op[c].scope
  BY <1>2 DEF Owned, OwnInv, Works
<1>4. \/ Return(c)
      \/ \E l \in {"lock", "insert", "count"} : Goto(c, l)
      \/ MayTryCalc(c) /\ TryCalc(c, "check")
  BY DEF SetCheck, SetLock, SetInsert, SetCount
<1>5. CASE Return(c)
  <2>1. OthersAsBefore(c) /\ op'[c].at \notin Setting \cup Removing
    BY <1>1, <1>5, ReturnStep DEF Setting, Removing
  <2> QED BY <1>2, <2>1, CallOwned DEF Owned
<1>6. ASSUME NEW l \in {"lock", "insert", "count"}, Goto(c, l) PROVE OwnInv'
  <2>1. OthersAsBefore(c) /\ GoesOn(c, Setting)
    BY <1>1, <1>2, <1>3, <1>6, GotoStep DEF GoesOn, Setting
  <2> QED BY <1>2, <2>1, CallOwned DEF Owned
<1>7. CASE MayTryCalc(c) /\ TryCalc(c, "check")
  <2>1. OthersAsBefore(c) /\ GoesOn(c, Setting)
    BY <1>1, <1>2, <1>7, TryCalcStep DEF GoesOn, Setting, MayTryCalc
  <2> QED BY <1>2, <2>1, CallOwned DEF Owned
<1> QED BY <1>4, <1>5, <1>6, <1>7

LEMMA SetThreadOwned ==
  ASSUME Owned, NEW c \in Setter, NEW t \in Thread, SetThread(c, t) PROVE OwnInv'
<1>1. /\ c \in Actor /\ Type[t] \in SUBSET Kind /\ "check" \in Label
      /\ op \in [Actor -> Operation]
  BY ThreadsAct, PoolAssumption DEF Label, Owned, Base, TypeOK
<1>2. c \in refs[t] /\ UNCHANGED <<obj, refs>>
  BY DEF SetThread, objVars
<1>3. CASE Type[t] = {} /\ Return(c)
  <2>1. OthersAsBefore(c) /\ op'[c].at \notin Setting \cup Removing
    BY <1>1, <1>3, ReturnStep DEF Setting, Removing
  <2> QED BY <1>1, <1>2, <2>1, CallOwned DEF Owned
<1>4. CASE Type[t] # {} /\ Begin(c, "check", t, Type[t], None)
  <2>1. /\ OthersAsBefore(c) /\ op'[c].at = "check" /\ op'[c].th = t
        /\ op'[c].kind \in op'[c].scope /\ op'[c].scope = Type[t]
    BY <1>1, <1>4, BeginStep, FirstKindIn
  <2> QED BY <1>1, <1>2, <2>1, CallOwned DEF Owned
<1> QED BY <1>3, <1>4 DEF SetThread

\* The steps of a lookup stay within the lookup.
LEMMA LookupStep ==
  ASSUME Base, NEW c \in Actor,
         \/ Find(c) \/ Fetch(c)
         \/ \E l \in {"find", "fetch"}, p \in Thread \cup {None},
               x \in Tid \cup {None}, S \in SUBSET Kind : GetThread(c, l, p, x, S)
  PROVE  OthersAsBefore(c) /\ op'[c].at \in {"idle", "find", "fetch"}
<1>1. op \in [Actor -> Operation] /\ {"find", "fetch"} \subseteq Label
  BY DEF Base, TypeOK, Label
<1>2. CASE Return(c)
  BY <1>1, <1>2, ReturnStep
<1>3. ASSUME NEW l \in {"find", "fetch"}, TryCalc(c, l)
      PROVE  OthersAsBefore(c) /\ op'[c].at = l
  BY <1>1, <1>3, TryCalcStep
<1>4. ASSUME NEW l \in {"find", "fetch"}, NEW p \in Thread \cup {None},
             NEW x \in Tid \cup {None}, NEW S \in SUBSET Kind, Begin(c, l, p, S, x)
      PROVE  OthersAsBefore(c) /\ op'[c].at = l
  BY <1>1, <1>4, BeginStep
<1>5. ASSUME NEW k, NEW x,
             op' = [op EXCEPT ![c] = [@ EXCEPT !.at = "fetch", !.scope = {k}, !.seen = x]]
      PROVE  OthersAsBefore(c) /\ op'[c].at = "fetch"
  BY <1>1, <1>5 DEF OthersAsBefore, Operation
<1>6. CASE Find(c)
  <2>1. \/ Return(c) \/ TryCalc(c, "find")
        \/ \E k, x : op' = [op EXCEPT ![c] =
                       [@ EXCEPT !.at = "fetch", !.scope = {k}, !.seen = x]]
    BY <1>6 DEF Find, NotFound
  <2> QED BY <1>2, <1>3, <1>5, <2>1
<1>7. CASE Fetch(c)
  BY <1>2, <1>3, <1>7 DEF Fetch, NotFound
<1> QED BY <1>4, <1>6, <1>7 DEF GetThread

LEMMA LookupOwned ==
  ASSUME Owned, NEW c \in Actor,
         \/ Find(c) \/ Fetch(c)
         \/ \E l \in {"find", "fetch"}, p \in Thread \cup {None},
               x \in Tid \cup {None}, S \in SUBSET Kind : GetThread(c, l, p, x, S)
  PROVE  OwnInv'
<1>1. UNCHANGED <<obj, refs>>
  BY DEF Find, Fetch, GetThread, objVars
<1>2. OthersAsBefore(c) /\ op'[c].at \notin Setting \cup Removing
  BY LookupStep DEF Owned, Setting, Removing
<1> QED BY <1>1, <1>2, CallOwned DEF Owned

LEMMA RefsOwned ==
  ASSUME Owned, NEW a \in Actor, NEW t \in Thread,
         \/ Launch(a, t) \/ SetThreadPool(a, t) \/ KernelExit(t) \/ DropRef(a, t)
         \/ a \in Client /\ Promote(a)
  PROVE  OwnInv'
<1>1. UNCHANGED op
  BY DEF Launch, SetThreadPool, KernelExit, DropRef, Promote, callVars
<1>2. OneRemover'
  BY <1>1 DEF Owned, OwnInv, OneRemover
<1>3. /\ obj \in [Thread -> {"none", "live", "dying", "gone"}]
      /\ refs \in [Thread -> SUBSET Actor] /\ t \in Actor
      /\ \A b \in Actor : Works(b) /\ LiveInv
  BY ThreadsAct DEF Owned, OwnInv, Base, TypeOK
<1>4. CASE Launch(a, t)
  <2>1. obj[t] = "none" /\ refs[t] = {}
    BY <1>4 DEF Launch, Owned, Base, OpInv
  <2>2. obj' = [obj EXCEPT ![t] = "live"] /\ refs' = [refs EXCEPT ![t] = {a, t}]
    BY <1>4 DEF Launch
  <2>3. LiveInv'
    BY <1>3, <2>1, <2>2 DEF LiveInv
  <2>4. ASSUME NEW b \in Actor PROVE Works(b)'
    BY <1>1, <1>3, <2>1, <2>2 DEF Works
  <2> QED BY <1>2, <2>3, <2>4 DEF OwnInv
<1>5. CASE SetThreadPool(a, t) \/ KernelExit(t)
  BY <1>1, <1>2, <1>3, <1>5 DEF SetThreadPool, KernelExit, OwnInv, LiveInv, Works
<1>6. CASE DropRef(a, t)
  <2>1. refs' = [refs EXCEPT ![t] = refs[t] \ {a}] /\ refs[t] # {a} /\ a \in refs[t]
        /\ UNCHANGED obj /\ op[a].at = "idle"
    BY <1>6 DEF DropRef
  <2>2. LiveInv'
    BY <1>3, <2>1 DEF LiveInv
  <2>3. ASSUME NEW b \in Actor PROVE Works(b)'
    BY <1>1, <1>3, <2>1 DEF Works, Setting
  <2> QED BY <1>2, <2>2, <2>3 DEF OwnInv
<1>7. CASE a \in Client /\ Promote(a)
  <2> DEFINE u == found[a]
  <2>1. u \in Thread
    BY <1>7 DEF Promote, Owned, Base, TypeOK
  <2>2. /\ refs' = [refs EXCEPT ![u] = IF refs[u] = {} THEN {} ELSE refs[u] \cup {a}]
        /\ UNCHANGED obj
    BY <1>7 DEF Promote
  <2>3. LiveInv'
    BY <1>3, <2>1, <2>2 DEF LiveInv
  <2>4. ASSUME NEW b \in Actor PROVE Works(b)'
    BY <1>1, <1>3, <2>1, <2>2 DEF Works
  <2> QED BY <1>2, <2>3, <2>4 DEF OwnInv
<1> QED BY <1>4, <1>5, <1>6, <1>7

\* Whoever drops the last reference is alone with the thread.
LEMMA DestroyOwned ==
  ASSUME Owned, NEW a \in Actor, NEW t \in Thread, Destroy(a, t) PROVE OwnInv'
<1>1. /\ op[a].at = "idle" /\ refs[t] = {a} /\ obj[t] = "live"
      /\ refs' = [refs EXCEPT ![t] = {}]
  BY DEF Destroy, Owned, OwnInv, LiveInv
<1>2. /\ op \in [Actor -> Operation] /\ "rm_lock" \in Label
      /\ Type[t] \in SUBSET Kind
      /\ obj \in [Thread -> {"none", "live", "dying", "gone"}]
      /\ refs \in [Thread -> SUBSET Actor]
  BY PoolAssumption DEF Owned, Base, TypeOK, Label
<1>3. ASSUME NEW b \in Actor, op[b].at \in Setting \cup Removing PROVE op[b].th # t
  BY <1>1, <1>3 DEF Owned, OwnInv, Works, Setting, Removing
<1>4. /\ OthersAsBefore(a)
      /\ \/ op'[a].at = "idle" /\ obj' = [obj EXCEPT ![t] = "gone"]
         \/ /\ op'[a].at = "rm_lock" /\ op'[a].th = t
            /\ op'[a].kind \in op'[a].scope /\ op'[a].scope = Type[t]
            /\ obj' = [obj EXCEPT ![t] = "dying"]
  <2>1. CASE Return(a) /\ obj' = [obj EXCEPT ![t] = "gone"]
    BY <1>2, <2>1, ReturnStep
  <2>2. CASE /\ Type[t] # {} /\ Begin(a, "rm_lock", t, Type[t], None)
             /\ obj' = [obj EXCEPT ![t] = "dying"]
    BY <1>2, <2>2, BeginStep, FirstKindIn
  <2>3. CASE UNCHANGED op /\ obj' = [obj EXCEPT ![t] = "gone"]
    BY <1>1, <2>3 DEF OthersAsBefore
  <2> QED BY <2>1, <2>2, <2>3 DEF Destroy
<1>5. obj'[t] \in {"dying", "gone"} /\ \A u \in Thread \ {t} : obj'[u] = obj[u]
  BY <1>2, <1>4
<1>6. LiveInv'
  BY <1>1, <1>2, <1>5 DEF Owned, OwnInv, LiveInv
<1>7. Works(a)'
  BY <1>2, <1>4 DEF Works, Setting, Removing
<1>8. ASSUME NEW b \in Actor \ {a} PROVE Works(b)'
  <2>1. op'[b] = op[b]
    BY <1>4 DEF OthersAsBefore
  <2>2. CASE op[b].at \in Setting \cup Removing
    <3>1. op[b].th \in Thread \ {t}
      BY <1>3, <2>2, WorkedOn DEF Owned
    <3> QED BY <1>1, <1>2, <1>5, <2>1, <3>1 DEF Owned, OwnInv, Works
  <2>3. CASE op[b].at \notin Setting \cup Removing
    BY <2>1, <2>3 DEF Works
  <2> QED BY <2>2, <2>3
<1>9. OneRemover'
  BY <1>3, <1>4 DEF Owned, OwnInv, OneRemover, OthersAsBefore, Removing
<1> QED BY <1>6, <1>7, <1>8, <1>9 DEF OwnInv

\* The remover of a thread ends, or goes on.
LEMMA RemoverOwned ==
  ASSUME Owned, NEW a \in Actor, RemoveLock(a) \/ RemoveErase(a) \/ RemoveCount(a)
  PROVE  OwnInv'
<1> DEFINE t == op[a].th
<1>1. /\ op \in [Actor -> Operation] /\ {"rm_lock", "rm_erase", "rm_count"} \subseteq Label
      /\ obj \in [Thread -> {"none", "live", "dying", "gone"}]
  BY DEF Owned, Base, TypeOK, Label
<1>2. op[a].at \in Removing /\ UNCHANGED refs
  BY DEF RemoveLock, RemoveErase, RemoveCount, Removing
<1>3. op[a].kind \in op[a].scope /\ obj[t] = "dying" /\ t \in Thread
  BY <1>2, WorkedOn DEF Owned, OwnInv, Works
<1>4. \/ EndRemove(a)
      \/ \E l \in {"rm_erase", "rm_count"} : Goto(a, l) /\ UNCHANGED obj
      \/ MayTryCalc(a) /\ TryCalc(a, "rm_lock") /\ UNCHANGED obj
  BY DEF RemoveLock, RemoveErase, RemoveCount
<1>5. CASE EndRemove(a)
  <2>1. OthersAsBefore(a) /\ op'[a].at = "idle" /\ obj' = [obj EXCEPT ![t] = "gone"]
    BY <1>1, <1>5, ReturnStep DEF EndRemove
  <2>2. LiveInv'
    BY <1>1, <1>2, <1>3, <2>1 DEF Owned, OwnInv, LiveInv
  <2>3. Works(a)'
    BY <2>1 DEF Works, Setting, Removing
  <2>4. ASSUME NEW b \in Actor \ {a} PROVE Works(b)'
    <3>1. op'[b] = op[b]
      BY <2>1 DEF OthersAsBefore
    <3>2. CASE op[b].at \in Removing
      <4>1. op[b].th \in Thread /\ op[b].th # t /\ Works(b)
        BY <1>2, <3>2, WorkedOn DEF Owned, OwnInv, OneRemover
      <4> QED BY <1>1, <1>2, <2>1, <3>1, <4>1 DEF Works
    <3>3. CASE op[b].at \notin Removing
      BY <1>2, <3>1, <3>3 DEF Owned, OwnInv, Works
    <3> QED BY <3>2, <3>3
  <2>5. OneRemover'
    BY <2>1 DEF Owned, OwnInv, OneRemover, OthersAsBefore, Removing
  <2> QED BY <2>2, <2>3, <2>4, <2>5 DEF OwnInv
<1>6. ASSUME NEW l \in {"rm_erase", "rm_count"}, Goto(a, l), UNCHANGED obj
      PROVE  OwnInv'
  <2>1. OthersAsBefore(a) /\ GoesOn(a, Removing)
    BY <1>1, <1>2, <1>3, <1>6, GotoStep DEF GoesOn, Removing
  <2> QED BY <1>2, <1>6, <2>1, CallOwned DEF Owned
<1>7. CASE MayTryCalc(a) /\ TryCalc(a, "rm_lock") /\ UNCHANGED obj
  <2>1. OthersAsBefore(a) /\ GoesOn(a, Removing)
    BY <1>1, <1>2, <1>7, TryCalcStep DEF GoesOn, Removing, MayTryCalc
  <2> QED BY <1>2, <1>7, <2>1, CallOwned DEF Owned
<1> QED BY <1>4, <1>5, <1>6, <1>7

LEMMA OwnedInit == Init => Owned
<1>1. Init => OwnInv
  BY DEF Init, OwnInv, LiveInv, Works, OneRemover, Idle, Setting, Removing
<1> QED BY <1>1, BaseInit DEF Owned

LEMMA OwnedStep == Owned /\ [Next]_vars => Owned'
<1> SUFFICES ASSUME Owned, [Next]_vars PROVE OwnInv'
  BY BaseStep DEF Owned
<1>1. ASSUME NEW c \in Setter, NEW t \in Thread,
             Launch(c, t) \/ SetThreadPool(c, t) \/ SetThread(c, t)
      PROVE  OwnInv'
  BY <1>1, ThreadsAct, RefsOwned, SetThreadOwned
<1>2. ASSUME NEW a \in Actor, NEW t \in Thread, DropRef(a, t) \/ Destroy(a, t)
      PROVE  OwnInv'
  BY <1>2, RefsOwned, DestroyOwned
<1>3. ASSUME NEW c \in Client, NEW S \in SUBSET Kind,
             \/ \E p \in Thread : GetByPthread(c, p, S)
             \/ \E x \in Tid : GetByTid(c, x, S)
      PROVE  OwnInv'
  BY <1>3, ThreadsAct, LookupOwned DEF GetByPthread, GetByTid
<1>4. ASSUME NEW c \in Client, Promote(c) PROVE OwnInv'
  <2>1. found[c] \in Thread
    BY <1>4 DEF Promote, Owned, Base, TypeOK
  <2> QED BY <1>4, <2>1, ThreadsAct, RefsOwned
<1>5. ASSUME NEW t \in Thread, KernelExit(t) PROVE OwnInv'
  BY <1>5, ThreadsAct, RefsOwned
<1>6. ASSUME NEW a \in Actor, Resume(a) PROVE OwnInv'
  BY <1>6, SetterOwned, RemoverOwned, LookupOwned DEF Resume
<1>7. CASE UNCHANGED vars
  BY <1>7 DEF Owned, OwnInv, LiveInv, Works, OneRemover, vars, objVars, callVars
<1> QED BY <1>1, <1>2, <1>3, <1>4, <1>5, <1>6, <1>7 DEF Next, Terminated

-----------------------------------------------------------------------------
(***************************************************************************)
(* Steps.  But for four of them, the steps leave the maps, the counters    *)
(* and the sections between the two as they are.                           *)
(***************************************************************************)
Quiet ==
  /\ UNCHANGED <<accepted, thread_map, pthread_to_pid, surplus>>
  /\ \A a \in Actor :
       \/ op'[a] = op[a]
       \/ /\ op'[a].at \notin {"count", "rm_count"}
          /\ op[a].at \notin {"insert", "count", "rm_erase", "rm_count"}
  /\ \A t \in Thread : tid[t] # None => tid'[t] = tid[t]

LEMMA QuietActor ==
  ASSUME NEW a \in Actor, OthersAsBefore(a),
         op'[a].at \notin {"count", "rm_count"},
         op[a].at \notin {"insert", "count", "rm_erase", "rm_count"},
         UNCHANGED <<tid, accepted, thread_map, pthread_to_pid, surplus>>
  PROVE  Quiet
BY DEF Quiet, OthersAsBefore

LEMMA CallQuiet ==
  ASSUME Base, NEW a \in Actor,
         SetCheck(a) \/ SetLock(a) \/ RemoveLock(a) \/ Find(a) \/ Fetch(a)
  PROVE  Quiet
<1>1. /\ op \in [Actor -> Operation]
      /\ {"check", "lock", "insert", "rm_erase"} \subseteq Label
  BY DEF Base, TypeOK, Label
<1>2. /\ op[a].at \in {"check", "lock", "rm_lock", "find", "fetch"}
      /\ UNCHANGED <<tid, accepted, thread_map, pthread_to_pid, surplus>>
  BY DEF SetCheck, SetLock, RemoveLock, Find, Fetch, objVars, history, poolVars
<1>3. OthersAsBefore(a) /\ op'[a].at \notin {"count", "rm_count"}
  <2>1. CASE Return(a)
    BY <1>1, <2>1, ReturnStep
  <2>2. ASSUME NEW l \in {"lock", "insert", "rm_erase"}, Goto(a, l)
        PROVE  OthersAsBefore(a) /\ op'[a].at = l
    BY <1>1, <2>2, GotoStep
  <2>3. CASE TryCalc(a, "check")
    BY <1>1, <2>3, TryCalcStep
  <2>4. CASE Find(a) \/ Fetch(a)
    BY <2>4, LookupStep
  <2>5. CASE SetCheck(a) \/ SetLock(a) \/ RemoveLock(a)
    BY <2>1, <2>2, <2>3, <2>5 DEF SetCheck, SetLock, RemoveLock, EndRemove
  <2> QED BY <2>4, <2>5
<1> QED BY <1>2, <1>3, QuietActor

LEMMA BeginQuiet ==
  ASSUME Base, NEW a \in Actor,
         \/ \E t \in Thread : a \in Setter /\ SetThread(a, t)
         \/ \E t \in Thread : Destroy(a, t)
         \/ \E l \in {"find", "fetch"}, p \in Thread \cup {None},
               x \in Tid \cup {None}, S \in SUBSET Kind : GetThread(a, l, p, x, S)
  PROVE  Quiet
<1>1. /\ op \in [Actor -> Operation]
      /\ {"check", "rm_lock", "find", "fetch"} \subseteq Label
      /\ \A t \in Thread : Type[t] \in SUBSET Kind
  BY PoolAssumption DEF Base, TypeOK, Label
<1>2. /\ op[a].at = "idle"
      /\ UNCHANGED <<tid, accepted, thread_map, pthread_to_pid, surplus>>
  BY DEF SetThread, Destroy, GetThread, objVars, history, poolVars
<1>3. \/ Return(a) \/ UNCHANGED op
      \/ \E l \in {"check", "rm_lock", "find", "fetch"}, t \in Thread \cup {None},
            S \in SUBSET Kind, x \in Tid \cup {None} : Begin(a, l, t, S, x)
  BY <1>1 DEF SetThread, Destroy, GetThread
<1>4. OthersAsBefore(a) /\ op'[a].at \notin {"count", "rm_count"}
  <2>1. CASE Return(a)
    BY <1>1, <2>1, ReturnStep
  <2>2. CASE UNCHANGED op
    BY <1>2, <2>2 DEF OthersAsBefore
  <2>3. ASSUME NEW l \in {"check", "rm_lock", "find", "fetch"},
               NEW t \in Thread \cup {None}, NEW S \in SUBSET Kind,
               NEW x \in Tid \cup {None}, Begin(a, l, t, S, x)
        PROVE  OthersAsBefore(a) /\ op'[a].at = l
    BY <1>1, <2>3, BeginStep
  <2> QED BY <1>3, <2>1, <2>2, <2>3
<1> QED BY <1>2, <1>4, QuietActor

LEMMA NextIsQuiet ==
  ASSUME Base, [Next]_vars
  PROVE  \/ Quiet
         \/ \E a \in Actor : SetInsert(a) \/ SetCount(a) \/ RemoveErase(a) \/ RemoveCount(a)
<1>1. ASSUME NEW c \in Setter, NEW t \in Thread,
             Launch(c, t) \/ SetThreadPool(c, t) \/ SetThread(c, t)
      PROVE  Quiet
  <2>1. CASE Launch(c, t)
    <3>1. tid[t] = None
      BY <2>1 DEF Launch, Base, OpInv
    <3> QED BY <2>1, <3>1
        DEF Launch, Quiet, history, poolVars, callVars, Base, TypeOK
  <2>2. CASE SetThreadPool(c, t)
    BY <2>2 DEF SetThreadPool, Quiet, history, poolVars, callVars
  <2>3. CASE SetThread(c, t)
    BY <2>3, ThreadsAct, BeginQuiet
  <2> QED BY <1>1, <2>1, <2>2, <2>3
<1>2. ASSUME NEW a \in Actor, NEW t \in Thread, DropRef(a, t) \/ Destroy(a, t)
      PROVE  Quiet
  BY <1>2, BeginQuiet DEF DropRef, Quiet, history, poolVars, callVars
<1>3. ASSUME NEW c \in Client, NEW S \in SUBSET Kind,
             \/ \E p \in Thread : GetByPthread(c, p, S)
             \/ \E x \in Tid : GetByTid(c, x, S)
      PROVE  Quiet
  BY <1>3, ThreadsAct, BeginQuiet DEF GetByPthread, GetByTid
<1>4. ASSUME NEW c \in Client, Promote(c) PROVE Quiet
  BY <1>4 DEF Promote, Quiet, history, poolVars
<1>5. ASSUME NEW t \in Thread, KernelExit(t) PROVE Quiet
  BY <1>5 DEF KernelExit, Quiet, history, poolVars, callVars
<1>6. ASSUME NEW a \in Actor, Resume(a)
      PROVE  Quiet \/ SetInsert(a) \/ SetCount(a) \/ RemoveErase(a) \/ RemoveCount(a)
  BY <1>6, CallQuiet DEF Resume
<1>7. CASE UNCHANGED vars
  BY <1>7 DEF Quiet, vars, objVars, history, poolVars, callVars
<1> QED BY <1>1, <1>2, <1>3, <1>4, <1>5, <1>6, <1>7 DEF Next, Terminated

\* Objects only grow older.
LEMMA ObjectsAge ==
  ASSUME Base, [Next]_vars, NEW t \in Thread
  PROVE  /\ obj[t] # "none" => obj'[t] # "none"
         /\ obj[t] \notin {"none", "live"} => obj'[t] # "live"
<1>1. obj \in [Thread -> {"none", "live", "dying", "gone"}]
  BY DEF Base, TypeOK
<1>2. \/ UNCHANGED obj
      \/ \E u \in Thread : obj[u] = "none" /\ obj' = [obj EXCEPT ![u] = "live"]
      \/ \E u, s : s \in {"dying", "gone"} /\ obj' = [obj EXCEPT ![u] = s]
  BY DEF Next, Terminated, vars, objVars, Launch, SetThreadPool, SetThread, KernelExit,
         DropRef, Destroy, GetByPthread, GetByTid, GetThread, Promote, Resume, SetCheck,
         SetLock, SetInsert, SetCount, RemoveLock, RemoveErase, RemoveCount, EndRemove,
         Find, Fetch
<1> QED BY <1>1, <1>2

\* The four others: what each does to its own operation and to the pool.
WorksOn(a, k, t) ==
  /\ op[a].kind = k /\ op[a].th = t /\ k \in Kind /\ t \in Thread /\ tid[t] \in Tid
  /\ lock[k] = a

LEMMA WritersWork ==
  ASSUME Base, NEW a \in Actor, op[a].at \in Writing
  PROVE  WorksOn(a, op[a].kind, op[a].th)
<1>1. op[a].at \in Setting \cup Removing
  BY DEF Writing, Setting, Removing
<1> QED BY <1>1, WorkedOn DEF Base, LockInv, WorksOn

LEMMA InsertStep ==
  ASSUME Base, NEW c \in Actor, SetInsert(c), NEW k, NEW t,
         k = op[c].kind, t = op[c].th
  PROVE  /\ WorksOn(c, k, t) /\ op[c].at = "insert" /\ OthersAsBefore(c)
         /\ UNCHANGED <<tid, obj, accepted, surplus>>
         /\ \/ /\ ~Present(k, t) /\ Enter(k, t)
               /\ op'[c].at = "count" /\ op'[c].kind = k /\ op'[c].th = t
            \/ op'[c].at = "idle" /\ UNCHANGED <<thread_map, pthread_to_pid>>
<1>1. op \in [Actor -> Operation] /\ "count" \in Label
  BY DEF Base, TypeOK, Label
<1>2. op[c].at = "insert" /\ UNCHANGED <<tid, obj, accepted, surplus>>
  BY DEF SetInsert, objVars, history
<1>3. WorksOn(c, k, t)
  BY <1>2, WritersWork DEF Writing
<1>4. CASE ~Present(k, t) /\ Enter(k, t) /\ Goto(c, "count")
  BY <1>1, <1>2, <1>3, <1>4, GotoStep
<1>5. CASE Return(c) /\ UNCHANGED <<thread_map, pthread_to_pid>>
  BY <1>1, <1>2, <1>3, <1>5, ReturnStep
<1> QED BY <1>4, <1>5 DEF SetInsert

LEMMA CountStep ==
  ASSUME Base, NEW c \in Actor, SetCount(c), NEW k, NEW t,
         k = op[c].kind, t = op[c].th
  PROVE  /\ WorksOn(c, k, t) /\ op[c].at = "count" /\ OthersAsBefore(c)
         /\ op'[c].at = "idle" /\ UNCHANGED <<tid, obj>>
         /\ \/ /\ TakePlace(k)
               /\ accepted' = [accepted EXCEPT ![k] = accepted[k] \cup {t}]
               /\ UNCHANGED <<thread_map, pthread_to_pid>>
            \/ /\ Unlist(k, t) /\ Unindex(k, t)
               /\ UNCHANGED <<surplus, accepted>>
<1>1. op \in [Actor -> Operation] /\ Return(c)
  BY DEF Base, TypeOK, SetCount
<1>2. op[c].at = "count" /\ UNCHANGED <<tid, obj>>
  BY DEF SetCount, objVars
<1>3. WorksOn(c, k, t)
  BY <1>2, WritersWork DEF Writing
<1>4. OthersAsBefore(c) /\ op'[c].at = "idle"
  BY <1>1, ReturnStep
<1> QED BY <1>2, <1>3, <1>4 DEF SetCount

LEMMA EraseStep ==
  ASSUME Base, NEW a \in Actor, RemoveErase(a), NEW k, NEW t,
         k = op[a].kind, t = op[a].th
  PROVE  /\ WorksOn(a, k, t) /\ op[a].at = "rm_erase" /\ OthersAsBefore(a)
         /\ UNCHANGED <<tid, accepted, surplus>> /\ Unlist(k, t)
         /\ \/ /\ ~Listed(k, t) /\ op'[a].at \in {"rm_lock", "idle"}
               /\ UNCHANGED pthread_to_pid
            \/ /\ Listed(k, t) /\ Unindex(k, t)
               /\ op'[a].at = "rm_count" /\ op'[a].kind = k /\ op'[a].th = t
            \/ /\ Listed(k, t) /\ ~Indexed(k, t) /\ op'[a].at = "idle"
               /\ UNCHANGED pthread_to_pid
<1>1. op \in [Actor -> Operation] /\ {"rm_lock", "rm_count"} \subseteq Label
  BY DEF Base, TypeOK, Label
<1>2. op[a].at = "rm_erase" /\ UNCHANGED <<tid, accepted, surplus>> /\ Unlist(k, t)
  BY DEF RemoveErase, history
<1>3. WorksOn(a, k, t)
  BY <1>2, WritersWork DEF Writing
<1>4. CASE ~Listed(k, t) /\ UNCHANGED pthread_to_pid /\ TryCalc(a, "rm_lock")
  BY <1>1, <1>2, <1>3, <1>4, TryCalcStep
<1>5. CASE ~Listed(k, t) /\ UNCHANGED pthread_to_pid /\ Return(a)
  BY <1>1, <1>2, <1>3, <1>5, ReturnStep
<1>6. CASE Listed(k, t) /\ Unindex(k, t) /\ Goto(a, "rm_count")
  BY <1>1, <1>2, <1>3, <1>6, GotoStep
<1>7. CASE Listed(k, t) /\ ~Indexed(k, t) /\ UNCHANGED pthread_to_pid /\ Return(a)
  BY <1>1, <1>2, <1>3, <1>7, ReturnStep
<1> QED BY <1>4, <1>5, <1>6, <1>7 DEF RemoveErase, EndRemove

LEMMA GiveStep ==
  ASSUME Base, NEW a \in Actor, RemoveCount(a)
  PROVE  /\ WorksOn(a, op[a].kind, op[a].th) /\ op[a].at = "rm_count"
         /\ OthersAsBefore(a) /\ op'[a].at = "idle"
         /\ UNCHANGED <<tid, accepted, thread_map, pthread_to_pid>>
         /\ \/ GivePlace(op[a].kind)
            \/ "rm_count" \in LockFail /\ UNCHANGED surplus
<1>1. op \in [Actor -> Operation] /\ Return(a)
  BY DEF Base, TypeOK, RemoveCount, EndRemove
<1>2. /\ op[a].at = "rm_count"
      /\ UNCHANGED <<tid, accepted, thread_map, pthread_to_pid>>
  BY DEF RemoveCount, history
<1>3. WorksOn(a, op[a].kind, op[a].th)
  BY <1>2, WritersWork DEF Writing
<1>4. OthersAsBefore(a) /\ op'[a].at = "idle"
  BY <1>1, ReturnStep
<1> QED BY <1>2, <1>3, <1>4 DEF RemoveCount

-----------------------------------------------------------------------------
(***************************************************************************)
(* What stands in the maps, whatever fails and however ids are given.  An  *)
(* entry of the first map is that of the thread whose id it is under, one  *)
(* of the second is the thread's id; the thread being counted is listed; a *)
(* thread that has an entry and was not accepted is the one being counted. *)
(* The last of these is not inductive alone: the roll back must find all   *)
(* there is of the thread under its id.                                    *)
(***************************************************************************)
ListInv ==
  \A k \in Kind, x \in Tid, t \in Thread : thread_map[k][x] = t => tid[t] = x

CountedInv ==
  \A a \in Actor :
    op[a].at = "count" => thread_map[op[a].kind][tid[op[a].th]] = op[a].th

Counted(k, t) ==
  \E a \in Actor : op[a].at = "count" /\ op[a].kind = k /\ op[a].th = t

RefusedInv ==
  \A k \in Kind :
    /\ \A x \in Tid : \/ thread_map[k][x] \in accepted[k] \cup {None}
                      \/ Counted(k, thread_map[k][x])
    /\ \A t \in Thread : Indexed(k, t) => t \in accepted[k] \/ Counted(k, t)

Listing == Base /\ ListInv /\ IndexInv /\ CountedInv /\ RefusedInv

\* Two writers at work have a kind each.
LEMMA WritersApart ==
  ASSUME Base, NEW a \in Actor, NEW b \in Actor, a # b,
         op[a].at \in Writing, op[b].at \in Writing
  PROVE  op[a].kind # op[b].kind
BY WritersWork DEF WorksOn

LEMMA ListingQuiet ==
  ASSUME Listing, Quiet PROVE ListInv' /\ IndexInv' /\ CountedInv' /\ RefusedInv'
<1>1. ListInv' /\ IndexInv'
  BY ThreadsAct DEF Listing, ListInv, IndexInv, Quiet, Base, TypeOK
<1>2. ASSUME NEW a \in Actor, op'[a].at = "count"
      PROVE  op'[a] = op[a] /\ tid'[op[a].th] = tid[op[a].th]
  <2>1. op'[a] = op[a]
    BY <1>2 DEF Quiet
  <2> QED BY <1>2, <2>1, WorkedOn, ThreadsAct DEF Listing, Quiet, Setting
<1>3. CountedInv'
  BY <1>2 DEF Listing, CountedInv, Quiet
<1>4. RefusedInv'
  <2>1. ASSUME NEW a \in Actor, op[a].at = "count" PROVE op'[a] = op[a]
    BY <2>1 DEF Quiet
  <2>2. \A k, t : Counted(k, t) => Counted(k, t)'
    BY <2>1 DEF Counted
  <2> QED BY <2>2 DEF Listing, RefusedInv, Indexed, Quiet
<1> QED BY <1>1, <1>3, <1>4

LEMMA ListingInsert ==
  ASSUME Listing, NEW c \in Actor, SetInsert(c)
  PROVE  ListInv' /\ IndexInv' /\ CountedInv' /\ RefusedInv'
<1>1. PICK k, t : k = op[c].kind /\ t = op[c].th
  OBVIOUS
<1>2. /\ WorksOn(c, k, t) /\ op[c].at = "insert" /\ OthersAsBefore(c)
      /\ UNCHANGED <<tid, obj, accepted, surplus>>
  BY <1>1, InsertStep DEF Listing
<1>3. ASSUME NEW b \in Actor \ {c}, op[b].at = "count"
      PROVE  op[b].kind \in Kind \ {k} /\ tid[op[b].th] \in Tid /\ op'[b] = op[b]
  BY <1>1, <1>2, <1>3, WritersApart, WorkedOn DEF Listing, Writing, Setting, OthersAsBefore
<1>4. \A j, u : Counted(j, u) => Counted(j, u)'
  BY <1>2, <1>3 DEF Counted
<1>5. CASE /\ ~Present(k, t) /\ Enter(k, t)
           /\ op'[c].at = "count" /\ op'[c].kind = k /\ op'[c].th = t
  <2>1. /\ thread_map' = [thread_map EXCEPT ![k][tid[t]] = t]
        /\ pthread_to_pid' = [pthread_to_pid EXCEPT ![k][t] = tid[t]]
        /\ thread_map \in [Kind -> [Tid -> Thread \cup {None}]]
        /\ pthread_to_pid \in [Kind -> [Thread -> Tid \cup {None}]]
    BY <1>5 DEF Enter, Listing, Base, TypeOK
  <2>2. ListInv' /\ IndexInv'
    BY <1>2, <2>1, ThreadsAct DEF Listing, ListInv, IndexInv, WorksOn
  <2>3. CountedInv'
    BY <1>2, <1>3, <1>5, <2>1 DEF Listing, CountedInv, WorksOn, OthersAsBefore
  <2>4. Counted(k, t)'
    BY <1>5 DEF Counted
  <2>5. RefusedInv'
    BY <1>2, <1>4, <2>1, <2>4 DEF Listing, RefusedInv, Indexed, WorksOn
  <2> QED BY <2>2, <2>3, <2>5
<1>6. CASE op'[c].at = "idle" /\ UNCHANGED <<thread_map, pthread_to_pid>>
  BY <1>2, <1>4, <1>6
  DEF Listing, ListInv, IndexInv, CountedInv, RefusedInv, Indexed, OthersAsBefore
<1> QED BY <1>1, <1>5, <1>6, InsertStep DEF Listing

LEMMA ListingCount ==
  ASSUME Listing, NEW c \in Actor, SetCount(c)
  PROVE  ListInv' /\ IndexInv' /\ CountedInv' /\ RefusedInv'
<1>1. PICK k, t : k = op[c].kind /\ t = op[c].th
  OBVIOUS
<1>2. /\ WorksOn(c, k, t) /\ op[c].at = "count" /\ OthersAsBefore(c)
      /\ op'[c].at = "idle" /\ UNCHANGED <<tid, obj>>
      /\ accepted \in [Kind -> SUBSET Thread]
  BY <1>1, CountStep DEF Listing, Base, TypeOK
<1>3. ASSUME NEW b \in Actor \ {c}, op[b].at = "count"
      PROVE  op[b].kind \in Kind \ {k} /\ tid[op[b].th] \in Tid /\ op'[b] = op[b]
  BY <1>1, <1>2, <1>3, WritersApart, WorkedOn DEF Listing, Writing, Setting, OthersAsBefore
<1>4. \A j, u : Counted(j, u) => Counted(j, u)' \/ (j = k /\ u = t)
  BY <1>1, <1>3 DEF Counted
<1>5. CASE /\ accepted' = [accepted EXCEPT ![k] = accepted[k] \cup {t}]
           /\ UNCHANGED <<thread_map, pthread_to_pid>>
  <2>1. /\ \A j \in Kind : accepted[j] \subseteq accepted'[j]
        /\ t \in accepted'[k]
    BY <1>2, <1>5 DEF WorksOn
  <2>2. RefusedInv'
    BY <1>4, <1>5, <2>1 DEF Listing, RefusedInv, Indexed
  <2>3. ListInv' /\ IndexInv' /\ CountedInv'
    BY <1>2, <1>3, <1>5 DEF Listing, ListInv, IndexInv, CountedInv, OthersAsBefore
  <2> QED BY <2>2, <2>3
<1>6. CASE Unlist(k, t) /\ Unindex(k, t) /\ UNCHANGED accepted
  <2>1. /\ thread_map' = [thread_map EXCEPT ![k][tid[t]] = None]
        /\ pthread_to_pid' = [pthread_to_pid EXCEPT ![k][t] = None]
        /\ thread_map \in [Kind -> [Tid -> Thread \cup {None}]]
        /\ pthread_to_pid \in [Kind -> [Thread -> Tid \cup {None}]]
    BY <1>6 DEF Unlist, Unindex, Listing, Base, TypeOK
  <2>2. ListInv' /\ IndexInv'
    BY <1>2, <2>1, ThreadsAct DEF Listing, ListInv, IndexInv, WorksOn
  <2>3. CountedInv'
    BY <1>2, <1>3, <2>1 DEF Listing, CountedInv, WorksOn, OthersAsBefore
  <2>4. \A x \in Tid : x # tid[t] => thread_map[k][x] # t
    BY <1>2 DEF Listing, ListInv, WorksOn
  <2>5. ASSUME NEW j \in Kind, NEW x \in Tid, NEW u, thread_map'[j][x] = u,
               u \notin accepted'[j] \cup {None}
        PROVE  Counted(j, u)'
    <3>1. thread_map[j][x] = u /\ ~(j = k /\ x = tid[t])
      BY <1>2, <2>1, <2>5 DEF WorksOn
    <3>2. Counted(j, u)
      BY <1>6, <2>5, <3>1 DEF Listing, RefusedInv
    <3> QED BY <1>4, <2>4, <3>1, <3>2
  <2>6. ASSUME NEW j \in Kind, NEW u \in Thread, Indexed(j, u)', u \notin accepted'[j]
        PROVE  Counted(j, u)'
    <3>1. Indexed(j, u) /\ ~(j = k /\ u = t)
      BY <1>2, <2>1, <2>6 DEF Indexed, WorksOn
    <3> QED BY <1>4, <1>6, <2>6, <3>1 DEF Listing, RefusedInv
  <2>7. RefusedInv'
    BY <2>5, <2>6 DEF RefusedInv
  <2> QED BY <2>2, <2>3, <2>7
<1> QED BY <1>1, <1>5, <1>6, CountStep DEF Listing

LEMMA ListingRemove ==
  ASSUME Listing, NEW a \in Actor, RemoveErase(a) \/ RemoveCount(a)
  PROVE  ListInv' /\ IndexInv' /\ CountedInv' /\ RefusedInv'
<1>1. PICK k, t : k = op[a].kind /\ t = op[a].th
  OBVIOUS
<1>2. /\ WorksOn(a, k, t) /\ op[a].at \in {"rm_erase", "rm_count"} /\ OthersAsBefore(a)
      /\ op'[a].at # "count" /\ UNCHANGED <<tid, accepted>>
      /\ Unlist(k, t) \/ UNCHANGED thread_map
      /\ Unindex(k, t) \/ UNCHANGED pthread_to_pid
  BY <1>1, EraseStep, GiveStep DEF Listing
<1>3. ASSUME NEW b \in Actor \ {a}, op[b].at = "count"
      PROVE  op[b].kind \in Kind \ {k} /\ tid[op[b].th] \in Tid /\ op'[b] = op[b]
  BY <1>1, <1>2, <1>3, WritersApart, WorkedOn DEF Listing, Writing, Setting, OthersAsBefore
<1>4. \A j \in Kind, x \in Tid :
        thread_map'[j][x] = thread_map[j][x] \/ (j = k /\ thread_map'[j][x] = None)
  BY <1>2 DEF Unlist, Listing, Base, TypeOK
<1>5. \A j \in Kind, u \in Thread : pthread_to_pid'[j][u] \in {None, pthread_to_pid[j][u]}
  <2>1. /\ pthread_to_pid \in [Kind -> [Thread -> Tid \cup {None}]]
        /\ k \in Kind /\ t \in Thread
        /\ \/ pthread_to_pid' = [pthread_to_pid EXCEPT ![k][t] = None]
           \/ pthread_to_pid' = pthread_to_pid
    BY <1>2 DEF Unindex, WorksOn, Listing, Base, TypeOK
  <2> QED BY <2>1
<1>6. ListInv' /\ IndexInv'
  BY <1>2, <1>4, <1>5, ThreadsAct DEF Listing, ListInv, IndexInv
<1>7. CountedInv'
  BY <1>2, <1>3, <1>4 DEF Listing, CountedInv, OthersAsBefore
<1>8. \A j, u : Counted(j, u) => Counted(j, u)'
  BY <1>2, <1>3 DEF Counted
<1>9. RefusedInv'
  BY <1>2, <1>4, <1>5, <1>8 DEF Listing, RefusedInv, Indexed
<1> QED BY <1>6, <1>7, <1>9

LEMMA ListingInit == Init => Listing
<1>1. Init => ListInv /\ IndexInv /\ CountedInv /\ RefusedInv
  BY ThreadsAct DEF Init, ListInv, IndexInv, CountedInv, RefusedInv, Indexed, Idle
<1> QED BY <1>1, BaseInit DEF Listing

LEMMA ListingStep == Listing /\ [Next]_vars => Listing'
<1> SUFFICES ASSUME Listing, [Next]_vars PROVE Listing'
  OBVIOUS
<1>1. \/ Quiet
      \/ \E a \in Actor : SetInsert(a) \/ SetCount(a) \/ RemoveErase(a) \/ RemoveCount(a)
  BY NextIsQuiet DEF Listing
<1> QED BY <1>1, BaseStep, ListingQuiet, ListingInsert, ListingCount, ListingRemove
        DEF Listing

\* A refused thread leaves no entry behind in either map of the half that refused it,
\* whatever lock requests fail, however ids are reused, threads submitted again and
\* setters interleaved (the roll backs of set_thread).
THEOREM RefusedIsForgotten == Spec => []RefusedLeavesNothing
<1>1. Listing => RefusedLeavesNothing
  <2> SUFFICES ASSUME Listing, NEW k \in Kind, NEW t, Counted(k, t)
               PROVE  Inserting(k) /\ op[lock[k]].th = t
    BY DEF RefusedLeavesNothing, Listing, RefusedInv
  <2>1. PICK a \in Actor : op[a].at = "count" /\ op[a].kind = k /\ op[a].th = t
    BY DEF Counted
  <2>2. lock[k] = a
    BY <2>1, WritersWork DEF Listing, Writing, WorksOn
  <2> QED BY <2>1, <2>2, ThreadsAct DEF Inserting
<1> QED BY ListingInit, ListingStep, <1>1, PTL DEF Spec

-----------------------------------------------------------------------------
(***************************************************************************)
(* What is accepted is found.  The thread is indexed in the kind it was    *)
(* accepted for and is not being counted: a roll back takes out only what  *)
(* its own operation has entered, and only a dying thread is removed.      *)
(***************************************************************************)
FindableInv ==
  \A k \in Kind : \A t \in accepted[k] :
    obj[t] # "none" /\ (obj[t] = "live" => Settled(k, t))

Known == Consistent /\ OwnInv /\ Listing

LEMMA KnownInit == Init => Known
BY ConsistentInit, OwnedInit, ListingInit DEF Known, Owned

LEMMA KnownStep ==
  ASSUME TidReuse = FALSE PROVE Known /\ [Next]_vars => Known'
BY ConsistentStep, OwnedStep, ListingStep DEF Known, Owned, Listing

LEMMA SettledStays ==
  ASSUME Known, NEW k \in Kind, NEW t \in Thread, Settled(k, t), obj[t] = "live",
         [Next]_vars
  PROVE  Settled(k, t)'
<1>1. Base /\ pthread_to_pid \in [Kind -> [Thread -> Tid \cup {None}]]
  BY DEF Known, Consistent, Base, TypeOK
<1>2. ASSUME NEW a \in Actor, SetInsert(a) PROVE Settled(k, t)'
  <2>1. PICK j, u : j = op[a].kind /\ u = op[a].th
    OBVIOUS
  <2>2. /\ WorksOn(a, j, u) /\ op[a].at = "insert" /\ OthersAsBefore(a)
        /\ \/ /\ ~Present(j, u) /\ Enter(j, u)
              /\ op'[a].at = "count" /\ op'[a].kind = j /\ op'[a].th = u
           \/ op'[a].at = "idle" /\ UNCHANGED pthread_to_pid
    BY <1>1, <1>2, <2>1, InsertStep
  <2>3. CASE ~Present(j, u) /\ Enter(j, u) /\ op'[a].kind = j /\ op'[a].th = u
    <3>1. ~(j = k /\ u = t)
      BY <2>3 DEF Present, Settled
    <3>2. pthread_to_pid'[k][t] = pthread_to_pid[k][t]
      BY <1>1, <2>2, <2>3, <3>1 DEF Enter, WorksOn
    <3> QED BY <2>2, <2>3, <3>1, <3>2 DEF Settled, Indexed, OthersAsBefore
  <2>4. CASE op'[a].at = "idle" /\ UNCHANGED pthread_to_pid
    BY <2>2, <2>4 DEF Settled, Indexed, OthersAsBefore
  <2> QED BY <2>2, <2>3, <2>4
<1>3. ASSUME NEW a \in Actor, SetCount(a) PROVE Settled(k, t)'
  <2>1. PICK j, u : j = op[a].kind /\ u = op[a].th
    OBVIOUS
  <2>2. /\ WorksOn(a, j, u) /\ op[a].at = "count" /\ OthersAsBefore(a)
        /\ op'[a].at = "idle"
        /\ Unindex(j, u) \/ UNCHANGED pthread_to_pid
    BY <1>1, <1>3, <2>1, CountStep
  <2>3. ~(j = k /\ u = t)
    BY <2>1, <2>2 DEF Settled
  <2>4. pthread_to_pid'[k][t] = pthread_to_pid[k][t]
    BY <1>1, <2>2, <2>3 DEF Unindex, WorksOn
  <2> QED BY <2>2, <2>4 DEF Settled, Indexed, OthersAsBefore
<1>4. ASSUME NEW a \in Actor, RemoveErase(a) PROVE Settled(k, t)'
  <2>1. PICK j, u : j = op[a].kind /\ u = op[a].th
    OBVIOUS
  <2>2. /\ WorksOn(a, j, u) /\ op[a].at = "rm_erase" /\ OthersAsBefore(a)
        /\ op'[a].at # "count"
        /\ Unindex(j, u) \/ UNCHANGED pthread_to_pid
    BY <1>1, <1>4, <2>1, EraseStep
  <2>3. u # t
    BY <2>1, <2>2 DEF Known, OwnInv, Works, Removing
  <2>4. pthread_to_pid'[k][t] = pthread_to_pid[k][t]
    BY <1>1, <2>2, <2>3 DEF Unindex, WorksOn
  <2> QED BY <2>2, <2>4 DEF Settled, Indexed, OthersAsBefore
<1>5. ASSUME NEW a \in Actor, RemoveCount(a) PROVE Settled(k, t)'
  BY <1>1, <1>5, GiveStep DEF Settled, Indexed, OthersAsBefore
<1>6. CASE Quiet
  BY <1>6 DEF Settled, Indexed, Quiet
<1> QED BY <1>1, <1>2, <1>3, <1>4, <1>5, <1>6, NextIsQuiet

LEMMA FindableStep == Known /\ FindableInv /\ [Next]_vars => FindableInv'
<1> SUFFICES ASSUME Known, FindableInv, [Next]_vars, NEW k \in Kind, NEW t \in accepted'[k]
             PROVE  obj'[t] # "none" /\ (obj'[t] = "live" => Settled(k, t)')
  BY DEF FindableInv
<1>1. Base /\ accepted \in [Kind -> SUBSET Thread]
  BY DEF Known, Consistent, Base, TypeOK
<1>2. CASE t \in accepted[k]
  BY <1>1, <1>2, ObjectsAge, SettledStays DEF FindableInv
<1>3. CASE t \notin accepted[k]
  <2>1. PICK a \in Actor : SetCount(a)
    <3>1. accepted' # accepted
      BY <1>3
    <3> QED BY <1>1, <3>1, NextIsQuiet, InsertStep, EraseStep, GiveStep DEF Quiet
  <2>2. PICK j, u : j = op[a].kind /\ u = op[a].th
    OBVIOUS
  <2>3. /\ WorksOn(a, j, u) /\ op[a].at = "count" /\ OthersAsBefore(a)
        /\ op'[a].at = "idle" /\ UNCHANGED <<tid, obj>>
        /\ \/ /\ accepted' = [accepted EXCEPT ![j] = accepted[j] \cup {u}]
              /\ UNCHANGED <<thread_map, pthread_to_pid>>
           \/ UNCHANGED accepted
    BY <1>1, <2>1, <2>2, CountStep
  <2>4. j = k /\ u = t /\ UNCHANGED <<thread_map, pthread_to_pid>>
    BY <1>1, <1>3, <2>3 DEF WorksOn
  <2>5. obj[t] # "none"
    BY <2>2, <2>3, <2>4, ThreadsAct DEF Known, Consistent, Base, OpInv, WorksOn
  <2>6. Indexed(k, t)
    <3>1. thread_map[k][tid[t]] = t
      BY <2>2, <2>3, <2>4 DEF Known, Listing, CountedInv
    <3>2. pthread_to_pid[k][t] = tid[t] /\ tid[t] \in Tid
      BY <2>3, <2>4, <3>1 DEF Known, Consistent, MapsAgree, WorksOn
    <3> QED BY <3>2, ThreadsAct DEF Indexed
  <2>7. ASSUME NEW b \in Actor, op'[b].at = "count", op'[b].kind = k PROVE FALSE
    BY <1>1, <2>2, <2>3, <2>4, <2>7, WritersApart DEF OthersAsBefore, Writing
  <2>8. Settled(k, t)'
    BY <2>4, <2>6, <2>7 DEF Settled, Indexed
  <2> QED BY <2>3, <2>5, <2>8
<1> QED BY <1>2, <1>3

\* A thread that set_thread accepted is found under both its ids, in the half it was
\* accepted for, as long as it is live, whatever fails and whoever else registers, looks
\* up and leaves, when no kernel id is given again.
THEOREM AcceptedIsFound ==
  ASSUME TidReuse = FALSE
  PROVE  Spec => []AcceptedIsFindable
<1>1. Init => Known /\ FindableInv
  BY KnownInit DEF Init, FindableInv
<1>2. Known /\ FindableInv /\ [Next]_vars => (Known /\ FindableInv)'
  BY KnownStep, FindableStep
<1>3. Known /\ FindableInv => AcceptedIsFindable
  <2> SUFFICES ASSUME Known, FindableInv, NEW k \in Kind, NEW t \in accepted[k],
                      obj[t] = "live"
               PROVE  thread_map[k][tid[t]] = t /\ pthread_to_pid[k][t] = tid[t]
    BY DEF AcceptedIsFindable
  <2>1. Settled(k, t) /\ t \in Thread
    BY DEF FindableInv, Known, Consistent, Base, TypeOK
  <2>2. tid[t] \in Tid
    BY <2>1 DEF Known, Consistent, Base, OpInv
  <2>3. pthread_to_pid[k][t] = tid[t]
    BY <2>1 DEF Settled, Indexed, Known, Consistent, IndexInv
  <2> QED BY <2>1, <2>2, <2>3 DEF Known, Consistent, MapsAgree
<1> QED BY <1>1, <1>2, <1>3, PTL DEF Spec

-----------------------------------------------------------------------------
(***************************************************************************)
(* What a lookup finds.  get_thread by pthread_t drops the lock with a     *)
(* kernel id in its hand: the id stays that of the thread asked for, and   *)
(* no other thread that runs beside it has it.                             *)
(***************************************************************************)
ApartInv ==
  /\ \A t \in alive : tid[t] # None
  /\ \A t, u \in alive : tid[t] = tid[u] => t = u

Answerable == Listing /\ ApartInv

LEMMA AnswerableInit == Init => Answerable
BY ListingInit DEF Init, ApartInv, Answerable

LEMMA AnswerableStep == Answerable /\ [Next]_vars => Answerable'
<1> SUFFICES ASSUME Answerable, [Next]_vars PROVE ApartInv'
  BY ListingStep DEF Answerable
<1>1. /\ alive \subseteq Thread /\ tid \in [Thread -> Tid \cup {None}] /\ None \notin Tid
  BY ThreadsAct DEF Answerable, Listing, Base, TypeOK
<1>2. ASSUME NEW c \in Setter, NEW t \in Thread, Launch(c, t) PROVE ApartInv'
  <2>1. /\ alive' = alive \cup {t}
        /\ \E x \in FreeTid : tid' = [tid EXCEPT ![t] = x]
    BY <1>2 DEF Launch
  <2>2. PICK x \in Tid : /\ tid' = [tid EXCEPT ![t] = x]
                        /\ \A u \in alive : tid[u] # x
    BY <1>1, <2>1 DEF FreeTid
  <2>3. t \notin alive
    BY <1>2 DEF Launch, Answerable, ApartInv, Listing, Base, OpInv
  <2> QED BY <1>1, <2>1, <2>2, <2>3 DEF Answerable, ApartInv
<1>3. CASE UNCHANGED tid /\ alive' \subseteq alive
  BY <1>3 DEF Answerable, ApartInv
<1>4. \/ UNCHANGED tid /\ alive' \subseteq alive
      \/ \E c \in Setter, t \in Thread : Launch(c, t)
  BY DEF Next, Terminated, vars, objVars, SetThreadPool, SetThread, KernelExit,
         DropRef, Destroy, GetByPthread, GetByTid, GetThread, Promote, Resume, SetCheck,
         SetLock, SetInsert, SetCount, RemoveLock, RemoveErase, RemoveCount,
         Find, Fetch
<1> QED BY <1>2, <1>3, <1>4

SeenInv ==
  \A c \in Client :
    /\ op[c].at \in {"find", "fetch"} => found[c] = None
    /\ op[c].at = "fetch" /\ op[c].th # None => op[c].seen = tid[op[c].th]

\* The steps that are no part of a lookup.
Elsewhere ==
  /\ UNCHANGED found
  /\ \A a \in Actor : op'[a] = op[a] \/ op'[a].at \notin {"find", "fetch"}

LEMMA ElsewhereActor ==
  ASSUME NEW a \in Actor, OthersAsBefore(a), op'[a].at \notin {"find", "fetch"},
         UNCHANGED found
  PROVE  Elsewhere
BY DEF Elsewhere, OthersAsBefore

LEMMA NextIsElsewhere ==
  ASSUME Base, [Next]_vars
  PROVE  \/ Elsewhere
         \/ \E a \in Actor : Find(a) \/ Fetch(a)
         \/ \E c \in Client : Promote(c)
         \/ \E c \in Client, S \in SUBSET Kind :
              \/ \E p \in Thread : GetByPthread(c, p, S)
              \/ \E x \in Tid : GetByTid(c, x, S)
<1>1. /\ op \in [Actor -> Operation]
      /\ {"check", "rm_lock", "lock", "insert", "rm_erase"} \subseteq Label
      /\ \A t \in Thread : Type[t] \in SUBSET Kind
  BY PoolAssumption DEF Base, TypeOK, Label
<1>2. ASSUME NEW a \in Actor, UNCHANGED found,
             \/ Return(a)
             \/ \E l \in {"check", "rm_lock"} : TryCalc(a, l)
             \/ \E l \in {"lock", "insert", "rm_erase"} : Goto(a, l)
             \/ \E l \in {"check", "rm_lock"}, t \in Thread :
                  Begin(a, l, t, Type[t], None)
      PROVE  Elsewhere
  <2>1. CASE Return(a)
    BY <1>1, <1>2, <2>1, ReturnStep, ElsewhereActor
  <2>2. ASSUME NEW l \in {"check", "rm_lock"}, TryCalc(a, l) PROVE Elsewhere
    BY <1>1, <1>2, <2>2, TryCalcStep, ElsewhereActor
  <2>3. ASSUME NEW l \in {"lock", "insert", "rm_erase"}, Goto(a, l) PROVE Elsewhere
    BY <1>1, <1>2, <2>3, GotoStep, ElsewhereActor
  <2>4. ASSUME NEW l \in {"check", "rm_lock"}, NEW t \in Thread,
               Begin(a, l, t, Type[t], None)
        PROVE  Elsewhere
    <3>1. OthersAsBefore(a) /\ op'[a].at = l
      BY <1>1, <2>4, BeginStep
    <3> QED BY <1>2, <3>1, ElsewhereActor
  <2> QED BY <1>2, <2>1, <2>2, <2>3, <2>4
<1>3. ASSUME NEW c \in Setter, NEW t \in Thread,
             Launch(c, t) \/ SetThreadPool(c, t) \/ SetThread(c, t)
      PROVE  Elsewhere
  <2>1. CASE SetThread(c, t)
    <3>1. /\ UNCHANGED found /\ c \in Actor
          /\ Return(c) \/ Begin(c, "check", t, Type[t], None)
      BY <2>1, ThreadsAct DEF SetThread
    <3> QED BY <1>2, <3>1
  <2> QED BY <1>3, <2>1 DEF Launch, SetThreadPool, callVars, Elsewhere
<1>4. ASSUME NEW a \in Actor, NEW t \in Thread, DropRef(a, t) \/ Destroy(a, t)
      PROVE  Elsewhere
  <2>1. CASE Destroy(a, t)
    <3>1. /\ UNCHANGED found
          /\ UNCHANGED op \/ Return(a) \/ Begin(a, "rm_lock", t, Type[t], None)
      BY <2>1 DEF Destroy
    <3>2. CASE UNCHANGED op
      BY <3>1, <3>2 DEF Elsewhere
    <3> QED BY <1>2, <3>1, <3>2
  <2> QED BY <1>4, <2>1 DEF DropRef, callVars, Elsewhere
<1>5. ASSUME NEW t \in Thread, KernelExit(t) PROVE Elsewhere
  BY <1>5 DEF KernelExit, callVars, Elsewhere
<1>6. ASSUME NEW a \in Actor, SetCheck(a) \/ SetLock(a) \/ RemoveLock(a)
      PROVE  Elsewhere
  BY <1>2, <1>6 DEF SetCheck, SetLock, RemoveLock, EndRemove
<1>7. ASSUME NEW a \in Actor,
             SetInsert(a) \/ SetCount(a) \/ RemoveErase(a) \/ RemoveCount(a)
      PROVE  Elsewhere
  <2>1. UNCHANGED found
    BY <1>7 DEF SetInsert, SetCount, RemoveErase, RemoveCount
  <2>2. OthersAsBefore(a) /\ op'[a].at \notin {"find", "fetch"}
    BY <1>7, InsertStep, CountStep, EraseStep, GiveStep
  <2> QED BY <2>1, <2>2, ElsewhereActor
<1>8. CASE UNCHANGED vars
  BY <1>8 DEF Elsewhere, vars, callVars
<1> QED BY <1>3, <1>4, <1>5, <1>6, <1>7, <1>8 DEF Next, Resume, Terminated

\* A kernel id, once known, stays.
LEMMA IdsStay ==
  ASSUME Base, [Next]_vars, NEW t \in Thread, tid[t] # None PROVE tid'[t] = tid[t]
BY NextIsQuiet, InsertStep, CountStep, EraseStep, GiveStep DEF Quiet

\* The step of a lookup: what it stores, and with which id it goes on.
LEMMA FindStep ==
  ASSUME Listing, NEW c \in Actor, Find(c)
  PROVE  /\ OthersAsBefore(c) /\ UNCHANGED found /\ op[c].at = "find"
         /\ op'[c].at = "fetch" => op'[c].seen = tid[op'[c].th]
<1> DEFINE k == op[c].kind
           x == pthread_to_pid[k][op[c].th]
           r == [op[c] EXCEPT !.at = "fetch", !.scope = {k}, !.seen = x]
<1>1. op \in [Actor -> Operation] /\ "find" \in Label
  BY DEF Listing, Base, TypeOK, Label
<1>2. op[c].at = "find" /\ UNCHANGED found
  BY DEF Find, NotFound
<1>3. k \in Kind /\ op[c].th \in Thread
  BY <1>1, <1>2 DEF Operation, Listing, Base, OpInv, Launched
<1>4. \/ x # None /\ op' = [op EXCEPT ![c] = r]
      \/ TryCalc(c, "find") \/ Return(c)
  BY DEF Find, NotFound
<1>5. CASE x # None /\ op' = [op EXCEPT ![c] = r]
  <2>1. x = tid[op[c].th]
    BY <1>3, <1>5 DEF Listing, IndexInv
  <2> QED BY <1>1, <1>2, <1>5, <2>1 DEF OthersAsBefore, Operation
<1>6. CASE TryCalc(c, "find")
  BY <1>1, <1>2, <1>6, TryCalcStep
<1>7. CASE Return(c)
  BY <1>1, <1>2, <1>7, ReturnStep
<1> QED BY <1>4, <1>5, <1>6, <1>7

LEMMA FetchStep ==
  ASSUME Listing, NEW c \in Actor, Fetch(c)
  PROVE  /\ OthersAsBefore(c) /\ op[c].at = "fetch"
         /\ \/ /\ op'[c].at = "idle"
               /\ \/ /\ lock[op[c].kind] = None
                     /\ found' = [found EXCEPT ![c] = thread_map[op[c].kind][op[c].seen]]
                  \/ UNCHANGED found
            \/ /\ op'[c].at = "fetch" /\ UNCHANGED found
               /\ op'[c].th = op[c].th /\ op'[c].seen = op[c].seen
<1>1. op \in [Actor -> Operation] /\ "fetch" \in Label
  BY DEF Listing, Base, TypeOK, Label
<1>2. op[c].at = "fetch"
  BY DEF Fetch
<1>3. \/ /\ Return(c)
         /\ \/ /\ lock[op[c].kind] = None
               /\ found' = [found EXCEPT ![c] = thread_map[op[c].kind][op[c].seen]]
            \/ UNCHANGED found
      \/ TryCalc(c, "fetch") /\ UNCHANGED found
  BY DEF Fetch, NotFound
<1> QED BY <1>1, <1>2, <1>3, ReturnStep, TryCalcStep

LEMMA SeenStep == Listing /\ SeenInv /\ [Next]_vars => SeenInv'
<1> SUFFICES ASSUME Listing, SeenInv, [Next]_vars, NEW c \in Client
             PROVE  /\ op'[c].at \in {"find", "fetch"} => found'[c] = None
                    /\ op'[c].at = "fetch" /\ op'[c].th # None =>
                         op'[c].seen = tid'[op'[c].th]
  BY DEF SeenInv
<1>1. Base /\ c \in Actor /\ op \in [Actor -> Operation]
  BY ThreadsAct DEF Listing, Base, TypeOK
<1>2. CASE op'[c] = op[c] /\ UNCHANGED found
  <2>1. ASSUME op[c].at = "fetch", op[c].th # None
        PROVE  op[c].seen = tid'[op[c].th]
    <3>1. op[c].th \in Thread /\ op[c].seen \in Tid /\ op[c].seen = tid[op[c].th]
      BY <1>1, <2>1 DEF SeenInv, Base, OpInv, Operation
    <3> QED BY <1>1, <3>1, IdsStay, ThreadsAct
  <2> QED BY <1>2, <2>1 DEF SeenInv
<1>3. CASE Elsewhere
  BY <1>1, <1>2, <1>3 DEF Elsewhere
<1>4. ASSUME NEW a \in Actor, Find(a)
      PROVE  /\ op'[c].at \in {"find", "fetch"} => found'[c] = None
             /\ op'[c].at = "fetch" /\ op'[c].th # None =>
                  op'[c].seen = tid'[op'[c].th]
  <2>1. UNCHANGED tid
    BY <1>4 DEF Find, objVars
  <2> QED BY <1>1, <1>2, <1>4, <2>1, FindStep DEF OthersAsBefore, SeenInv
<1>5. ASSUME NEW a \in Actor, Fetch(a)
      PROVE  /\ op'[c].at \in {"find", "fetch"} => found'[c] = None
             /\ op'[c].at = "fetch" /\ op'[c].th # None =>
                  op'[c].seen = tid'[op'[c].th]
  <2>1. UNCHANGED tid /\ found \in [Client -> Thread \cup {None}]
    BY <1>5 DEF Fetch, objVars, Listing, Base, TypeOK
  <2>2. CASE a = c
    BY <1>5, <2>1, <2>2, FetchStep DEF SeenInv
  <2>3. CASE a # c
    <3>1. op'[c] = op[c] /\ found'[c] = found[c]
      BY <1>1, <1>5, <2>1, <2>3, FetchStep DEF OthersAsBefore
    <3> QED BY <2>1, <3>1 DEF SeenInv
  <2> QED BY <2>2, <2>3
<1>6. ASSUME NEW d \in Client, Promote(d)
      PROVE  /\ op'[c].at \in {"find", "fetch"} => found'[c] = None
             /\ op'[c].at = "fetch" /\ op'[c].th # None =>
                  op'[c].seen = tid'[op'[c].th]
  <2>1. UNCHANGED <<op, tid>> /\ found' = [found EXCEPT ![d] = None]
    BY <1>6 DEF Promote
  <2> QED BY <2>1 DEF SeenInv, Listing, Base, TypeOK
<1>7. ASSUME NEW d \in Client, NEW S \in SUBSET Kind,
             \/ \E p \in Thread : GetByPthread(d, p, S)
             \/ \E x \in Tid : GetByTid(d, x, S)
      PROVE  /\ op'[c].at \in {"find", "fetch"} => found'[c] = None
             /\ op'[c].at = "fetch" /\ op'[c].th # None =>
                  op'[c].seen = tid'[op'[c].th]
  <2>1. /\ found' = [found EXCEPT ![d] = None] /\ UNCHANGED tid
        /\ found \in [Client -> Thread \cup {None}]
    BY <1>7 DEF GetByPthread, GetByTid, GetThread, objVars, Listing, Base, TypeOK
  <2>2. OthersAsBefore(d) /\ (op'[d].at = "find" \/ op'[d].th = None)
    <3>1. {"find", "fetch"} \subseteq Label /\ d \in Actor
      BY ThreadsAct DEF Label
    <3>2. CASE \E p \in Thread : GetByPthread(d, p, S)
      <4>1. PICK p \in Thread : Begin(d, "find", p, S, None)
        BY <3>2 DEF GetByPthread, GetThread
      <4> QED BY <1>1, <3>1, <4>1, BeginStep
    <3>3. CASE \E x \in Tid : GetByTid(d, x, S)
      <4>1. PICK x \in Tid : Begin(d, "fetch", None, S, x)
        BY <3>3 DEF GetByTid, GetThread
      <4> QED BY <1>1, <3>1, <4>1, BeginStep
    <3> QED BY <1>7, <3>2, <3>3
  <2>3. CASE d = c
    BY <2>1, <2>2, <2>3
  <2>4. CASE d # c
    BY <1>1, <2>1, <2>2, <2>4 DEF OthersAsBefore, SeenInv
  <2> QED BY <2>3, <2>4
<1> QED BY <1>1, <1>3, <1>4, <1>5, <1>6, <1>7, NextIsElsewhere

\* What a lookup finds was accepted in the kind it was found in, and is known by the
\* kernel id it was looked up by: by pthread_t that is the id of the thread asked for,
\* and the one found is that thread if both are running, whatever happened between
\* the two critical sections, ids that are given again included.
THEOREM LookupsAnswer == Spec => LookupAnswers
<1> DEFINE Right == \A c \in Client :
                      op[c].at = "fetch" /\ found'[c] # None => RightAnswer(c)
<1>1. Init => Answerable /\ SeenInv
  <2>1. Init => SeenInv
    BY ThreadsAct DEF Init, SeenInv, Idle
  <2> QED BY <2>1, AnswerableInit
<1>2. Answerable /\ SeenInv /\ [Next]_vars => (Answerable /\ SeenInv)'
  BY AnswerableStep, SeenStep DEF Answerable
<1>3. Answerable /\ SeenInv /\ [Next]_vars => Right
  <2> SUFFICES ASSUME Answerable, SeenInv, [Next]_vars, NEW c \in Client,
                      op[c].at = "fetch", found'[c] # None
               PROVE  RightAnswer(c)
    OBVIOUS
  <2>1. /\ Base /\ Listing /\ c \in Actor /\ found[c] = None /\ op[c] \in Operation
        /\ found \in [Client -> Thread \cup {None}]
        /\ thread_map \in [Kind -> [Tid -> Thread \cup {None}]]
    BY ThreadsAct DEF SeenInv, Answerable, Listing, Base, TypeOK
  <2>2. op[c].kind \in Kind /\ op[c].seen \in Tid /\ op[c].th \in Thread \cup {None}
    BY <2>1 DEF Base, OpInv, Operation
  <2>3. PICK a \in Actor : Fetch(a)
    <3>1. ASSUME NEW d \in Client, NEW S \in SUBSET Kind,
                 \/ \E p \in Thread : GetByPthread(d, p, S)
                 \/ \E x \in Tid : GetByTid(d, x, S)
          PROVE  found' = [found EXCEPT ![d] = None]
      BY <3>1 DEF GetByPthread, GetByTid, GetThread
    <3>2. ASSUME NEW d \in Client, Promote(d)
          PROVE  found' = [found EXCEPT ![d] = None]
      BY <3>2 DEF Promote
    <3> QED BY <2>1, <3>1, <3>2, NextIsElsewhere, FindStep DEF Elsewhere
  <2>4. /\ lock[op[c].kind] = None
        /\ found'[c] = thread_map[op[c].kind][op[c].seen]
    BY <2>1, <2>3, FetchStep
  <2>5. found'[c] \in Thread
    BY <2>1, <2>2, <2>4
  <2>6. found'[c] \in accepted[op[c].kind]
    <3>1. ASSUME NEW b \in Actor, op[b].at = "count", op[b].kind = op[c].kind PROVE FALSE
      BY <2>1, <2>4, <3>1, WritersWork, ThreadsAct DEF WorksOn, Writing
    <3>2. ~Counted(op[c].kind, found'[c])
      BY <3>1 DEF Counted
    <3> QED BY <2>1, <2>2, <2>4, <2>5, <3>2, ThreadsAct DEF Listing, RefusedInv
  <2>7. tid[found'[c]] = op[c].seen
    BY <2>1, <2>2, <2>4, <2>5 DEF Listing, ListInv
  <2>8. op[c].th # None => tid[op[c].th] = op[c].seen
    BY DEF SeenInv
  <2>9. None \notin alive
    BY <2>1, ThreadsAct DEF Base, TypeOK
  <2>10. {op[c].th, found'[c]} \subseteq alive => op[c].th = found'[c]
    BY <2>7, <2>8, <2>9 DEF Answerable, ApartInv
  <2> QED BY <2>6, <2>7, <2>8, <2>10 DEF RightAnswer
<1>4. Answerable /\ SeenInv /\ [Next]_vars => [Right]_vars
  BY <1>3
<1> QED BY <1>1, <1>2, <1>4, PTL DEF Spec, LookupAnswers

-----------------------------------------------------------------------------
(***************************************************************************)
(* What is destroyed is forgotten, when every thread has the pool, none is *)
(* submitted twice, no id is given again and remove gets the maps' locks.  *)
(* remove stops at the first kind it finds the thread in, so that the      *)
(* thread must be in one only; on its way it has left none behind it.      *)
(***************************************************************************)
OnceInv ==
  /\ \A t \in Thread : obj[t] # "none" => t \in pooled
  /\ \A a \in Actor : op[a].at \in Setting => op[a].th \in asked
  /\ \A a, b \in Actor :
       op[a].at \in Setting /\ op[b].at \in Setting /\ op[a].th = op[b].th => a = b

EntryInv ==
  \A k \in Kind, t \in Thread :
    Indexed(k, t) =>
      /\ t \in asked /\ k \in Type[t]
      /\ obj[t] \in {"live", "dying"}
      /\ \A a \in Actor : op[a].at \in Setting /\ op[a].th = t
                            => op[a].at = "count" /\ op[a].kind = k
      /\ \A j \in Kind : Indexed(j, t) => j = k

LeaveInv ==
  \A a \in Actor :
    /\ op[a].at \in {"rm_lock", "rm_erase"} /\ op[a].kind = "calc"
         => ~Indexed("io", op[a].th)
    /\ op[a].at = "rm_count" => \A k \in Kind : ~Indexed(k, op[a].th)

ForgetInv == OnceInv /\ EntryInv /\ LeaveInv
Forgetful == Known /\ ForgetInv

\* What a registering actor and a removing one stand for.
LEMMA SetterLives ==
  ASSUME Known, NEW a \in Actor, op[a].at \in Setting
  PROVE  obj[op[a].th] = "live" /\ op[a].kind \in Type[op[a].th]
<1>1. Base /\ OwnInv
  BY DEF Known, Consistent
<1>2. op[a].th \in Thread /\ a \in refs[op[a].th]
  BY <1>1, WorkedOn DEF OwnInv, Works
<1> QED BY <1>1, <1>2 DEF OwnInv, LiveInv, Works

LEMMA RemoverDies ==
  ASSUME Known, NEW a \in Actor, op[a].at \in Removing
  PROVE  /\ obj[op[a].th] = "dying" /\ op[a].scope = Type[op[a].th]
         /\ op[a].kind \in Type[op[a].th]
BY DEF Known, OwnInv, Works

\* Steps that begin, go on with or end an operation between its sections.
LEMMA ForgetCall ==
  ASSUME Forgetful, NEW a \in Actor, OthersAsBefore(a),
         UNCHANGED <<obj, pooled, pthread_to_pid>>, asked \subseteq asked',
         \/ op'[a].at \notin Setting \cup Removing
         \/ /\ op[a].at \in Setting \ {"count"} /\ op'[a].at \in Setting
            /\ op'[a].th = op[a].th
         \/ op'[a].at = "check" /\ op'[a].th \in asked' \ asked
         \/ /\ op[a].at = "rm_lock" /\ op'[a].at = "rm_erase"
            /\ op'[a].th = op[a].th /\ op'[a].kind = op[a].kind
  PROVE  ForgetInv'
<1>1. Setting \cap Removing = {} /\ "check" \in Setting
      /\ {"rm_lock", "rm_erase", "rm_count"} = Removing
  BY DEF Setting, Removing
<1>2. OnceInv'
  BY <1>1 DEF Forgetful, ForgetInv, OnceInv, OthersAsBefore
<1>3. \A k \in Kind, t \in Thread : Indexed(k, t)' <=> Indexed(k, t)
  BY DEF Indexed
<1>4. EntryInv'
  <2> SUFFICES ASSUME NEW k \in Kind, NEW t \in Thread, Indexed(k, t)
               PROVE  \A b \in Actor : op'[b].at \in Setting /\ op'[b].th = t
                                         => op'[b].at = "count" /\ op'[b].kind = k
    BY <1>3 DEF Forgetful, ForgetInv, EntryInv
  <2>1. t \in asked /\ \A b \in Actor : op[b].at \in Setting /\ op[b].th = t
                          => op[b].at = "count" /\ op[b].kind = k
    BY DEF Forgetful, ForgetInv, EntryInv
  <2> QED BY <1>1, <2>1 DEF OthersAsBefore
<1>5. ASSUME NEW b \in Actor, op'[b].at \in Removing
      PROVE  /\ op'[b].th = op[b].th /\ op'[b].kind = op[b].kind
             /\ op'[b].at = "rm_count" => op[b].at = "rm_count"
             /\ op'[b].at \in {"rm_lock", "rm_erase"} =>
                  op[b].at \in {"rm_lock", "rm_erase"}
  <2>1. CASE b = a
    BY <1>1, <1>5, <2>1
  <2>2. CASE b # a
    BY <2>2 DEF OthersAsBefore
  <2> QED BY <2>1, <2>2
<1>6. LeaveInv'
  BY <1>1, <1>5 DEF Forgetful, ForgetInv, LeaveInv, Indexed
<1> QED BY <1>2, <1>4, <1>6 DEF ForgetInv

LEMMA ForgetInsert ==
  ASSUME Forgetful, NEW c \in Actor, SetInsert(c) PROVE ForgetInv'
<1>1. PICK k, t : k = op[c].kind /\ t = op[c].th
  OBVIOUS
<1>2. Base /\ Known /\ pthread_to_pid \in [Kind -> [Thread -> Tid \cup {None}]]
  BY DEF Forgetful, Known, Consistent, Base, TypeOK
<1>3. /\ WorksOn(c, k, t) /\ op[c].at = "insert" /\ OthersAsBefore(c)
      /\ UNCHANGED <<obj, pooled, asked>>
  BY <1>1, <1>2, InsertStep DEF SetInsert, objVars, history
<1>4. CASE /\ ~Present(k, t) /\ Enter(k, t)
           /\ op'[c].at = "count" /\ op'[c].kind = k /\ op'[c].th = t
  <2>1. \A j \in Kind, u \in Thread :
          Indexed(j, u)' <=> Indexed(j, u) \/ (j = k /\ u = t)
    BY <1>2, <1>3, <1>4, ThreadsAct DEF Enter, Indexed, WorksOn
  <2>2. op[c].at \in Setting /\ op'[c].at \in Setting /\ op'[c].at \notin Removing
    BY <1>3, <1>4 DEF Setting, Removing
  <2>3. \A j \in Kind : ~Indexed(j, t)
    BY <1>1, <1>3, <2>2 DEF WorksOn, Forgetful, ForgetInv, EntryInv
  <2>4. obj[t] = "live" /\ k \in Type[t] /\ t \in asked
    BY <1>1, <1>2, <2>2, SetterLives DEF Forgetful, ForgetInv, OnceInv
  <2>5. \A b \in Actor \ {c} : op[b].at \in Setting => op[b].th # t
    BY <1>1, <2>2 DEF Forgetful, ForgetInv, OnceInv
  <2>6. OnceInv'
    BY <1>1, <1>3, <1>4, <2>2 DEF Forgetful, ForgetInv, OnceInv, OthersAsBefore
  <2>7. EntryInv'
    <3> SUFFICES ASSUME NEW j \in Kind, NEW u \in Thread, Indexed(j, u)'
                 PROVE  /\ u \in asked /\ j \in Type[u]
                        /\ obj[u] \in {"live", "dying"}
                        /\ \A b \in Actor : op'[b].at \in Setting /\ op'[b].th = u
                             => op'[b].at = "count" /\ op'[b].kind = j
                        /\ \A i \in Kind : Indexed(i, u)' => i = j
      BY <1>3 DEF EntryInv
    <3>1. CASE u = t
      BY <1>3, <1>4, <2>1, <2>3, <2>4, <2>5, <3>1 DEF OthersAsBefore
    <3>2. CASE u # t
      BY <1>1, <1>3, <1>4, <2>1, <2>2, <3>2
      DEF Forgetful, ForgetInv, EntryInv, OthersAsBefore
    <3> QED BY <3>1, <3>2
  <2>8. ASSUME NEW b \in Actor, op'[b].at \in Removing
        PROVE  /\ op'[b] = op[b] /\ op[b].th \in Thread
               /\ \A j \in Kind : Indexed(j, op[b].th)' => Indexed(j, op[b].th)
    <3>1. op'[b] = op[b]
      BY <1>3, <2>2, <2>8 DEF OthersAsBefore
    <3>2. op[b].th \in Thread /\ op[b].th # t
      BY <1>2, <2>4, <2>8, <3>1, WorkedOn, RemoverDies
    <3> QED BY <2>1, <3>1, <3>2
  <2>9. LeaveInv'
    BY <2>8 DEF Forgetful, ForgetInv, LeaveInv, Removing, Kind
  <2> QED BY <2>6, <2>7, <2>9 DEF ForgetInv
<1>5. CASE op'[c].at = "idle" /\ UNCHANGED <<thread_map, pthread_to_pid>>
  BY <1>3, <1>5, ForgetCall DEF Setting, Removing
<1> QED BY <1>1, <1>2, <1>4, <1>5, InsertStep

\* An operation that ends, or moves on from the maps, with fewer entries left.
LEMMA ForgetLess ==
  ASSUME Forgetful, NEW a \in Actor, OthersAsBefore(a), UNCHANGED <<pooled, asked>>,
         \A t \in Thread : /\ obj[t] = "none" => obj'[t] = "none"
                           /\ obj'[t] = obj[t] \/ \A k \in Kind : ~Indexed(k, t)',
         \A k \in Kind, t \in Thread : Indexed(k, t)' => Indexed(k, t),
         op'[a].at \notin Setting,
         op'[a].at \in Removing =>
           /\ op'[a].at = "rm_lock" /\ op'[a].kind = "calc" => ~Indexed("io", op[a].th)
           /\ op'[a].at = "rm_count" => \A k \in Kind : ~Indexed(k, op[a].th)'
           /\ op'[a].at # "rm_erase" /\ op'[a].th = op[a].th /\ op[a].th \in Thread
  PROVE  ForgetInv'
<1>1. OnceInv'
  BY DEF Forgetful, ForgetInv, OnceInv, OthersAsBefore
<1>2. EntryInv'
  <2> SUFFICES ASSUME NEW k \in Kind, NEW t \in Thread, Indexed(k, t)'
               PROVE  /\ t \in asked /\ k \in Type[t]
                      /\ obj'[t] \in {"live", "dying"}
                      /\ \A b \in Actor : op'[b].at \in Setting /\ op'[b].th = t
                           => op'[b].at = "count" /\ op'[b].kind = k
                      /\ \A j \in Kind : Indexed(j, t)' => j = k
    BY DEF EntryInv
  <2>1. Indexed(k, t) /\ obj'[t] = obj[t]
    OBVIOUS
  <2> QED BY <2>1 DEF Forgetful, ForgetInv, EntryInv, OthersAsBefore
<1>3. ASSUME NEW b \in Actor \ {a}, op[b].at \in Removing PROVE op[b].th \in Thread
  BY <1>3, WorkedOn DEF Forgetful, Known, Consistent
<1>4. LeaveInv'
  <2> SUFFICES ASSUME NEW b \in Actor, op'[b].at \in Removing
               PROVE  /\ op'[b].at \in {"rm_lock", "rm_erase"} /\ op'[b].kind = "calc"
                           => pthread_to_pid'["io"][op'[b].th] = None
                      /\ op'[b].at = "rm_count" =>
                           \A k \in Kind : pthread_to_pid'[k][op'[b].th] = None
    BY DEF LeaveInv, Indexed, Removing
  <2>1. \A k \in Kind, t \in Thread :
          pthread_to_pid[k][t] = None => pthread_to_pid'[k][t] = None
    BY DEF Indexed
  <2>2. CASE b = a
    BY <2>1, <2>2 DEF Indexed, Kind, Removing
  <2>3. CASE b # a
    <3>1. op'[b] = op[b] /\ op[b].th \in Thread
      BY <1>3, <2>3 DEF OthersAsBefore
    <3> QED BY <2>1, <3>1 DEF Forgetful, ForgetInv, LeaveInv, Indexed, Kind
  <2> QED BY <2>2, <2>3
<1> QED BY <1>1, <1>2, <1>4 DEF ForgetInv

LEMMA ForgetCount ==
  ASSUME Forgetful, NEW c \in Actor, SetCount(c) PROVE ForgetInv'
<1>1. PICK k, t : k = op[c].kind /\ t = op[c].th
  OBVIOUS
<1>2. Base /\ pthread_to_pid \in [Kind -> [Thread -> Tid \cup {None}]]
  BY DEF Forgetful, Known, Consistent, Base, TypeOK
<1>3. /\ WorksOn(c, k, t) /\ OthersAsBefore(c) /\ op'[c].at = "idle"
      /\ UNCHANGED <<obj, pooled, asked>>
      /\ Unindex(k, t) \/ UNCHANGED pthread_to_pid
  BY <1>1, <1>2, CountStep DEF SetCount, objVars
<1>4. \A j \in Kind, u \in Thread : Indexed(j, u)' => Indexed(j, u)
  BY <1>2, <1>3 DEF Unindex, Indexed, WorksOn
<1> QED BY <1>3, <1>4, ForgetLess DEF Setting, Removing

LEMMA ForgetRemoveCount ==
  ASSUME Forgetful, NEW a \in Actor, RemoveCount(a) PROVE ForgetInv'
<1>1. Base /\ obj \in [Thread -> {"none", "live", "dying", "gone"}]
  BY DEF Forgetful, Known, Consistent, Base, TypeOK
<1>2. /\ op[a].at = "rm_count" /\ OthersAsBefore(a) /\ op'[a].at = "idle"
      /\ UNCHANGED pthread_to_pid /\ op[a].th \in Thread
  BY <1>1, GiveStep DEF WorksOn
<1>3. UNCHANGED <<pooled, asked>> /\ obj' = [obj EXCEPT ![op[a].th] = "gone"]
  BY DEF RemoveCount, EndRemove, history
<1>4. \A k \in Kind, t \in Thread : Indexed(k, t)' <=> Indexed(k, t)
  BY <1>2 DEF Indexed
<1>5. \A k \in Kind : ~Indexed(k, op[a].th)
  BY <1>2 DEF Forgetful, ForgetInv, LeaveInv
<1>6. obj[op[a].th] = "dying"
  BY <1>2, RemoverDies DEF Forgetful, Removing
<1>7. \A t \in Thread : /\ obj[t] = "none" => obj'[t] = "none"
                        /\ obj'[t] = obj[t] \/ \A k \in Kind : ~Indexed(k, t)'
  BY <1>1, <1>2, <1>3, <1>4, <1>5, <1>6
<1> QED BY <1>2, <1>3, <1>4, <1>7, ForgetLess DEF Setting, Removing

LEMMA ForgetErase ==
  ASSUME Forgetful, NEW a \in Actor, RemoveErase(a) PROVE ForgetInv'
<1>1. PICK k, t : k = op[a].kind /\ t = op[a].th
  OBVIOUS
<1>2. /\ Base /\ Known /\ Consistent
      /\ pthread_to_pid \in [Kind -> [Thread -> Tid \cup {None}]]
      /\ obj \in [Thread -> {"none", "live", "dying", "gone"}]
      /\ op \in [Actor -> Operation]
  BY DEF Forgetful, Known, Consistent, Base, TypeOK
<1>3. /\ WorksOn(a, k, t) /\ op[a].at = "rm_erase" /\ OthersAsBefore(a)
      /\ UNCHANGED <<pooled, asked>>
  BY <1>1, <1>2, EraseStep DEF RemoveErase, history
<1>4. /\ obj[t] = "dying" /\ op[a].scope = Type[t] /\ k \in Type[t]
      /\ k = "calc" => ~Indexed("io", t)
  BY <1>1, <1>2, <1>3, RemoverDies DEF Forgetful, ForgetInv, LeaveInv, Removing
<1>5. ~Listed(k, t) => ~Indexed(k, t)
  BY <1>2, <1>3, ListedIsSelf DEF WorksOn
<1>6. Listed(k, t) => Indexed(k, t)
  BY <1>2, <1>3, ListedIsSelf DEF WorksOn
<1>7. CASE /\ ~Listed(k, t) /\ MayTryCalc(a) /\ TryCalc(a, "rm_lock")
           /\ UNCHANGED <<obj, pthread_to_pid>>
  <2>1. "rm_lock" \in Label /\ k = "io"
    BY <1>1, <1>7 DEF Label, MayTryCalc
  <2>2. op'[a].at = "rm_lock" /\ op'[a].th = t
    BY <1>1, <1>2, <1>7, <2>1, TryCalcStep
  <2>3. \A j \in Kind, u \in Thread : Indexed(j, u)' <=> Indexed(j, u)
    BY <1>7 DEF Indexed
  <2> QED BY <1>1, <1>3, <1>5, <1>7, <2>1, <2>2, <2>3, ForgetLess
          DEF Setting, WorksOn
<1>8. CASE /\ ~Listed(k, t) /\ ~MayTryCalc(a) /\ EndRemove(a)
           /\ UNCHANGED pthread_to_pid
  <2>1. op'[a].at = "idle" /\ obj' = [obj EXCEPT ![t] = "gone"]
    BY <1>1, <1>2, <1>8, ReturnStep DEF EndRemove
  <2>2. \A j \in Kind, u \in Thread : Indexed(j, u)' <=> Indexed(j, u)
    BY <1>8 DEF Indexed
  <2>3. \A j \in Kind : ~Indexed(j, t)
    <3>1. k = "io" => "calc" \notin Type[t]
      BY <1>1, <1>4, <1>8 DEF MayTryCalc
    <3>2. \A j \in Kind : Indexed(j, t) => j \in Type[t]
      BY <1>3 DEF Forgetful, ForgetInv, EntryInv, WorksOn
    <3> QED BY <1>3, <1>4, <1>5, <1>8, <3>1, <3>2 DEF Kind, WorksOn
  <2>4. \A u \in Thread : /\ obj[u] = "none" => obj'[u] = "none"
                          /\ obj'[u] = obj[u] \/ \A j \in Kind : ~Indexed(j, u)'
    BY <1>2, <1>4, <2>1, <2>2, <2>3
  <2> QED BY <1>3, <2>1, <2>2, <2>4, ForgetLess DEF Setting, Removing
<1>9. CASE /\ Listed(k, t) /\ Unindex(k, t)
           /\ Goto(a, "rm_count") /\ UNCHANGED obj
  <2>1. "rm_count" \in Label
    BY DEF Label
  <2>2. op'[a].at = "rm_count" /\ op'[a].th = t
    BY <1>1, <1>2, <1>9, <2>1, GotoStep
  <2>3. \A j \in Kind, u \in Thread :
          Indexed(j, u)' <=> Indexed(j, u) /\ ~(j = k /\ u = t)
    BY <1>2, <1>3, <1>9 DEF Unindex, Indexed, WorksOn
  <2>4. \A j \in Kind : ~Indexed(j, t)'
    <3>1. \A j \in Kind : Indexed(j, t) => j = k
      BY <1>3, <1>6, <1>9 DEF Forgetful, ForgetInv, EntryInv, WorksOn
    <3> QED BY <1>3, <2>3, <3>1 DEF WorksOn
  <2> QED BY <1>1, <1>3, <1>9, <2>2, <2>3, <2>4, ForgetLess DEF Setting, WorksOn
<1> QED BY <1>1, <1>6, <1>7, <1>8, <1>9 DEF RemoveErase

LEMMA ForgetDestroy ==
  ASSUME Forgetful, NEW a \in Actor, NEW t \in Thread, Destroy(a, t) PROVE ForgetInv'
<1>1. /\ op \in [Actor -> Operation] /\ "rm_lock" \in Label
      /\ Type[t] \in SUBSET Kind
      /\ obj \in [Thread -> {"none", "live", "dying", "gone"}]
  BY PoolAssumption DEF Forgetful, Known, Consistent, Base, TypeOK, Label
<1>2. /\ op[a].at = "idle" /\ UNCHANGED <<pooled, asked, pthread_to_pid>>
      /\ refs[t] = {a}
  BY DEF Destroy, history, poolVars
<1>3. obj[t] = "live" /\ t \in pooled
  BY <1>2 DEF Forgetful, Known, OwnInv, LiveInv, ForgetInv, OnceInv
<1>4. \A k \in Kind, u \in Thread : Indexed(k, u)' <=> Indexed(k, u)
  BY <1>2 DEF Indexed
<1>5. CASE /\ Type[t] # {} /\ obj' = [obj EXCEPT ![t] = "dying"]
           /\ Begin(a, "rm_lock", t, Type[t], None)
  <2>1. /\ OthersAsBefore(a) /\ op'[a].at = "rm_lock" /\ op'[a].th = t
        /\ op'[a].kind = FirstKind(Type[t])
    BY <1>1, <1>5, BeginStep
  <2>2. op'[a].kind = "calc" => ~Indexed("io", t)
    <3>1. op'[a].kind = "calc" => "io" \notin Type[t]
      BY <2>1 DEF FirstKind
    <3> QED BY <3>1 DEF Forgetful, ForgetInv, EntryInv, Kind
  <2>3. OnceInv'
    BY <1>1, <1>2, <1>3, <1>5, <2>1 DEF Forgetful, ForgetInv, OnceInv, OthersAsBefore,
                                        Setting
  <2>4. \A u \in Thread : obj[u] \in {"live", "dying"} => obj'[u] \in {"live", "dying"}
    BY <1>1, <1>5
  <2>5. EntryInv'
    BY <1>2, <1>4, <2>1, <2>4 DEF Forgetful, ForgetInv, EntryInv, OthersAsBefore, Setting
  <2>6. LeaveInv'
    BY <1>2, <2>1, <2>2
    DEF Forgetful, ForgetInv, LeaveInv, OthersAsBefore, Indexed
  <2> QED BY <2>3, <2>5, <2>6 DEF ForgetInv
<1>6. CASE Type[t] = {} /\ obj' = [obj EXCEPT ![t] = "gone"] /\ Return(a)
  <2>1. OthersAsBefore(a) /\ op'[a].at = "idle"
    BY <1>1, <1>6, ReturnStep
  <2>2. \A k \in Kind : ~Indexed(k, t)
    BY <1>6 DEF Forgetful, ForgetInv, EntryInv
  <2>3. \A u \in Thread : /\ obj[u] = "none" => obj'[u] = "none"
                          /\ obj'[u] = obj[u] \/ \A k \in Kind : ~Indexed(k, u)'
    BY <1>1, <1>3, <1>4, <1>6, <2>2
  <2> QED BY <1>2, <1>4, <2>1, <2>3, ForgetLess DEF Setting, Removing
<1> QED BY <1>3, <1>5, <1>6 DEF Destroy

LEMMA ForgetSet ==
  ASSUME Forgetful, Resubmit = FALSE, "rm_lock" \notin LockFail, NEW a \in Actor,
         \/ \E t \in Thread : a \in Setter /\ SetThread(a, t)
         \/ SetCheck(a) \/ SetLock(a) \/ RemoveLock(a)
  PROVE  ForgetInv'
<1>1. /\ op \in [Actor -> Operation] /\ {"check", "lock", "insert", "rm_erase"} \subseteq Label
      /\ \A t \in Thread : Type[t] \in SUBSET Kind
  BY PoolAssumption DEF Forgetful, Known, Consistent, Base, TypeOK, Label
<1>2. ASSUME NEW t \in Thread, SetThread(a, t) PROVE ForgetInv'
  <2>1. UNCHANGED <<obj, pooled, pthread_to_pid>> /\ asked' = asked \cup {t} /\ t \notin asked
    BY <1>2 DEF SetThread, objVars, poolVars
  <2>2. CASE Return(a)
    BY <1>1, <2>1, <2>2, ReturnStep, ForgetCall DEF Setting, Removing
  <2>3. CASE Begin(a, "check", t, Type[t], None)
    <3>1. OthersAsBefore(a) /\ op'[a].at = "check" /\ op'[a].th = t
      BY <1>1, <2>3, BeginStep
    <3> QED BY <2>1, <3>1, ForgetCall
  <2> QED BY <1>2, <2>2, <2>3 DEF SetThread
<1>3. CASE SetCheck(a) \/ SetLock(a)
  <2>1. /\ UNCHANGED <<obj, pooled, pthread_to_pid, asked>>
        /\ op[a].at \in Setting \ {"count"}
    BY <1>3 DEF SetCheck, SetLock, objVars, poolVars, history, Setting
  <2>2. \/ Return(a) \/ TryCalc(a, "check")
        \/ \E l \in {"lock", "insert"} : Goto(a, l)
    BY <1>3 DEF SetCheck, SetLock
  <2>3. CASE Return(a)
    BY <1>1, <2>1, <2>3, ReturnStep, ForgetCall DEF Setting, Removing
  <2>4. CASE TryCalc(a, "check")
    <3>1. OthersAsBefore(a) /\ op'[a].at = "check" /\ op'[a].th = op[a].th
      BY <1>1, <2>4, TryCalcStep
    <3> QED BY <2>1, <3>1, ForgetCall DEF Setting
  <2>5. ASSUME NEW l \in {"lock", "insert"}, Goto(a, l) PROVE ForgetInv'
    <3>1. OthersAsBefore(a) /\ op'[a].at = l /\ op'[a].th = op[a].th
      BY <1>1, <2>5, GotoStep
    <3> QED BY <2>1, <3>1, ForgetCall DEF Setting
  <2> QED BY <2>2, <2>3, <2>4, <2>5
<1>4. CASE RemoveLock(a)
  <2>1. /\ UNCHANGED <<obj, pooled, pthread_to_pid, asked>> /\ Goto(a, "rm_erase")
        /\ op[a].at = "rm_lock"
    BY <1>4 DEF RemoveLock, history
  <2>2. /\ OthersAsBefore(a) /\ op'[a].at = "rm_erase" /\ op'[a].th = op[a].th
        /\ op'[a].kind = op[a].kind
    BY <1>1, <2>1, GotoStep
  <2> QED BY <2>1, <2>2, ForgetCall
<1> QED BY <1>2, <1>3, <1>4

\* A step that is none of an operation in progress.
LEMMA ForgetIdle ==
  ASSUME Forgetful, Pooled = Thread, UNCHANGED <<op, asked, pthread_to_pid>>,
         \/ \E c \in Setter, t \in Thread : Launch(c, t) \/ SetThreadPool(c, t)
         \/ UNCHANGED obj /\ UNCHANGED pooled
  PROVE  ForgetInv'
<1>1. obj \in [Thread -> {"none", "live", "dying", "gone"}] /\ pooled \subseteq pooled'
  BY DEF Forgetful, Known, Consistent, Base, TypeOK, Launch, SetThreadPool
<1>2. \A t \in Thread :
        obj'[t] = obj[t] \/ (obj[t] = "none" /\ obj'[t] = "live" /\ t \in pooled')
  BY <1>1 DEF Launch, SetThreadPool
<1>3. OnceInv'
  BY <1>1, <1>2 DEF Forgetful, ForgetInv, OnceInv
<1>4. EntryInv'
  BY <1>2 DEF Forgetful, ForgetInv, EntryInv, Indexed
<1>5. LeaveInv'
  BY DEF Forgetful, ForgetInv, LeaveInv, Indexed
<1> QED BY <1>3, <1>4, <1>5 DEF ForgetInv

LEMMA ForgetStep ==
  ASSUME Resubmit = FALSE, Pooled = Thread, "rm_lock" \notin LockFail
  PROVE  Forgetful /\ [Next]_vars => ForgetInv'
<1> SUFFICES ASSUME Forgetful, [Next]_vars PROVE ForgetInv'
  OBVIOUS
<1>1. Base /\ Known
  BY DEF Forgetful, Known, Consistent
<1>2. ASSUME NEW c \in Setter, NEW t \in Thread,
             Launch(c, t) \/ SetThreadPool(c, t) \/ SetThread(c, t)
      PROVE  ForgetInv'
  <2>1. CASE Launch(c, t) \/ SetThreadPool(c, t)
    <3>1. UNCHANGED <<op, asked, pthread_to_pid>>
      BY <2>1 DEF Launch, SetThreadPool, history, poolVars, callVars
    <3> QED BY <2>1, <3>1, ForgetIdle
  <2>2. CASE SetThread(c, t)
    BY <2>2, ThreadsAct, ForgetSet
  <2> QED BY <1>2, <2>1, <2>2
<1>3. ASSUME NEW a \in Actor, NEW t \in Thread, DropRef(a, t) \/ Destroy(a, t)
      PROVE  ForgetInv'
  <2>1. CASE DropRef(a, t)
    <3>1. UNCHANGED <<op, asked, pthread_to_pid, obj, pooled>>
      BY <2>1 DEF DropRef, history, poolVars, callVars
    <3> QED BY <3>1, ForgetIdle
  <2> QED BY <1>3, <2>1, ForgetDestroy
<1>4. ASSUME NEW a \in Actor, Find(a) \/ Fetch(a)
      PROVE  ForgetInv'
  <2>1. UNCHANGED <<obj, pooled, asked, pthread_to_pid>>
    BY <1>4 DEF Find, Fetch, objVars, history, poolVars
  <2>2. OthersAsBefore(a) /\ op'[a].at \in {"idle", "find", "fetch"}
    BY <1>1, <1>4, LookupStep
  <2> QED BY <2>1, <2>2, ForgetCall DEF Setting, Removing
<1>5. ASSUME NEW c \in Client, NEW S \in SUBSET Kind,
             \/ \E p \in Thread : GetByPthread(c, p, S)
             \/ \E x \in Tid : GetByTid(c, x, S)
      PROVE  ForgetInv'
  <2>1. UNCHANGED <<obj, pooled, asked, pthread_to_pid>>
    BY <1>5 DEF GetByPthread, GetByTid, GetThread, objVars, history, poolVars
  <2>2. c \in Actor /\ OthersAsBefore(c) /\ op'[c].at \in {"idle", "find", "fetch"}
    BY <1>1, <1>5, ThreadsAct, LookupStep DEF GetByPthread, GetByTid
  <2> QED BY <2>1, <2>2, ForgetCall DEF Setting, Removing
<1>6. ASSUME NEW c \in Client, Promote(c) PROVE ForgetInv'
  <2>1. UNCHANGED <<op, asked, pthread_to_pid, obj, pooled>>
    BY <1>6 DEF Promote, history, poolVars
  <2> QED BY <2>1, ForgetIdle
<1>7. ASSUME NEW t \in Thread, KernelExit(t) PROVE ForgetInv'
  <2>1. UNCHANGED <<op, asked, pthread_to_pid, obj, pooled>>
    BY <1>7 DEF KernelExit, history, poolVars, callVars
  <2> QED BY <2>1, ForgetIdle
<1>8. ASSUME NEW a \in Actor, Resume(a) PROVE ForgetInv'
  BY <1>4, <1>8, ForgetSet, ForgetInsert, ForgetCount, ForgetErase, ForgetRemoveCount
  DEF Resume
<1>9. CASE UNCHANGED vars
  <2>1. UNCHANGED <<op, asked, pthread_to_pid, obj, pooled>>
    BY <1>9 DEF vars, objVars, history, poolVars, callVars
  <2> QED BY <2>1, ForgetIdle
<1> QED BY <1>2, <1>3, <1>5, <1>6, <1>7, <1>8, <1>9 DEF Next, Terminated

\* The pool has no entry of a destroyed thread, as long as every thread has the
\* pool, is submitted once, has an id of its own, and remove gets the maps' locks;
\* the counters' lock may fail.
THEOREM DestroyedIsForgotten ==
  ASSUME TidReuse = FALSE, Resubmit = FALSE, Pooled = Thread, "rm_lock" \notin LockFail
  PROVE  Spec => []NoStaleEntry
<1>1. Init => Forgetful
  <2>1. Init => ForgetInv
    BY DEF Init, ForgetInv, OnceInv, EntryInv, LeaveInv, Indexed, Idle, Setting
  <2> QED BY <2>1, KnownInit DEF Forgetful
<1>2. Forgetful /\ [Next]_vars => Forgetful'
  BY KnownStep, ForgetStep DEF Forgetful
<1>3. Forgetful => NoStaleEntry
  <2> SUFFICES ASSUME Forgetful, NEW k \in Kind, NEW x \in Tid,
                      NEW t \in Thread, thread_map[k][x] = t
               PROVE  obj[t] # "gone"
    BY DEF NoStaleEntry, Forgetful, Known, Consistent, Base, TypeOK
  <2>1. Indexed(k, t)
    BY ThreadsAct DEF Indexed, Forgetful, Known, Consistent, MapsAgree
  <2> QED BY <2>1 DEF Forgetful, ForgetInv, EntryInv
<1> QED BY <1>1, <1>2, <1>3, PTL DEF Spec
===============================================================================

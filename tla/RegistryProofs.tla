---------------------------- MODULE RegistryProofs ----------------------------
(***************************************************************************)
(* ThreadPool implements Registry, if one thread registers and kernel ids  *)
(* are not reused: for any number of threads, clients and places, whatever *)
(* requests of locks fail and whatever else is called.                     *)
(***************************************************************************)
EXTENDS ThreadPoolPlacesProofs

\* What a step may do to the objects, and what it may do to the answers.
Growth ==
  \/ UNCHANGED obj
  \/ \E t \in Thread :
       \/ obj[t] = "none" /\ obj' = [obj EXCEPT ![t] = "live"]
       \/ obj[t] = "live" /\ \E l \in {"dying", "gone"} : obj' = [obj EXCEPT ![t] = l]
       \/ obj[t] = "dying" /\ obj' = [obj EXCEPT ![t] = "gone"]
Answering ==
  \/ UNCHANGED found
  \/ \E c \in Client : found' = [found EXCEPT ![c] = None]
  \/ \E c \in Client, k \in Kind, t \in Thread :
       Settled(k, t) /\ found' = [found EXCEPT ![c] = t]

\* What it may do to the members.
Admitted(k, t) ==
  /\ obj[t] = "live" /\ k \in Type[t] /\ ~Settled(k, t)
  /\ Cardinality(Members[k]) < Num[k]
  /\ Members' = [Members EXCEPT ![k] = @ \cup {t}]
Dismissed(k, t) ==
  /\ obj[t] = "dying" /\ Settled(k, t)
  /\ Members' = [Members EXCEPT ![k] = @ \ {t}]

Serving == Provided /\ Known

-----------------------------------------------------------------------------
(***************************************************************************)
(* How many members a kind has.                                            *)
(***************************************************************************)
IndexedThreads(k) == {t \in Thread : Indexed(k, t)}

\* The indexed threads of a kind are no more than its listed ids: each is the entry
\* of one of them.
LEMMA IndexedAreListed ==
  ASSUME Consistent, Counting, NEW k \in Kind
  PROVE  /\ IsFiniteSet(IndexedThreads(k))
         /\ Cardinality(IndexedThreads(k)) <= Cardinality(Registered(k))
<1> DEFINE I == IndexedThreads(k)
           f == [x \in Registered(k) |-> thread_map[k][x]]
<1>1. IsFiniteSet(Registered(k))
  BY DEF Counting, FiniteInv
<1>2. ASSUME NEW x \in Registered(k) PROVE f[x] \in I
  <2>1. x \in Tid /\ thread_map[k][x] # None /\ thread_map[k][x] \in Thread
    BY <1>2 DEF Registered, Consistent, Base, TypeOK
  <2>2. pthread_to_pid[k][thread_map[k][x]] = x
    BY <2>1 DEF Consistent, MapsAgree
  <2> QED BY <2>1, <2>2, ThreadsAct DEF Indexed, IndexedThreads
<1>3. ASSUME NEW t \in I PROVE \E x \in Registered(k) : f[x] = t
  <2>1. pthread_to_pid[k][t] \in Tid
    BY <1>3 DEF Indexed, IndexedThreads, Consistent, Base, TypeOK
  <2>2. thread_map[k][pthread_to_pid[k][t]] = t
    BY <1>3, <2>1 DEF IndexedThreads, Consistent, MapsAgree
  <2>3. pthread_to_pid[k][t] \in Registered(k)
    BY <1>3, <2>1, <2>2, ThreadsAct DEF Registered, IndexedThreads
  <2> QED BY <2>2, <2>3
<1>4. f \in Surjection(Registered(k), I)
  BY <1>2, <1>3 DEF Surjection
<1>5. IsFiniteSet(I) /\ Cardinality(I) <= Cardinality(Registered(k))
  BY <1>1, <1>4, FS_Surjection
<1> QED BY <1>5

\* A thread is counted while its kind still has a place for a member.
LEMMA RoomForOne ==
  ASSUME Consistent, Provided, NEW c \in Actor, op[c].at = "count",
         NEW k \in Kind, k = op[c].kind
  PROVE  Cardinality(Members[k]) < Num[k]
<1> DEFINE t == op[c].th
           I == IndexedThreads(k)
<1>1. /\ Base /\ FiniteInv /\ Counting /\ CountedInv
      /\ surplus[k] <= Balance(k) /\ surplus[k] \in 0 .. UMax /\ UMax \in Nat
  BY PoolAssumption DEF Provided, UpperInv, Counting, Listing, Base, TypeOK
<1>2. t \in Thread /\ tid[t] \in Tid /\ thread_map[k][tid[t]] = t
  BY <1>1, WorkedOn DEF CountedInv, Setting
<1>3. t \in I
  BY <1>2, ThreadsAct DEF Consistent, MapsAgree, Indexed, IndexedThreads
<1>4. Members[k] \subseteq I \ {t}
  BY DEF Members, Settled, IndexedThreads
<1>5. IsFiniteSet(I) /\ Cardinality(I) <= Cardinality(Registered(k))
  BY <1>1, IndexedAreListed
<1>6. IsFiniteSet(I \ {t}) /\ Cardinality(I \ {t}) = Cardinality(I) - 1
  BY <1>3, <1>5, FS_RemoveElement
<1>7. /\ Cardinality(Members[k]) <= Cardinality(I \ {t})
      /\ Cardinality(Members[k]) \in Nat /\ Cardinality(I) \in Nat
  BY <1>4, <1>5, <1>6, FS_Subset, FS_CardinalityType
<1>8. Cardinality(Registered(k)) <= Num[k]
  <2>1. At(k, "count") /\ ~At(k, "rm_count")
    BY <1>1, Sections DEF At
  <2>2. surplus[k] > 0
    BY DEF Provided, SeesPlaceInv, Setting
  <2> QED BY <1>1, <2>1, <2>2, BalanceType DEF Balance
<1> QED BY <1>1, <1>5, <1>6, <1>7, <1>8, BalanceType

-----------------------------------------------------------------------------
(***************************************************************************)
(* What a step does to objects and answers.                                *)
(***************************************************************************)
LEMMA ObjectsGrow ==
  ASSUME Serving, [Next]_vars PROVE Growth
<1>1. obj \in [Thread -> {"none", "live", "dying", "gone"}]
  BY DEF Serving, Known, Consistent, Base, TypeOK
<1>2. ASSUME NEW c \in Setter, NEW t \in Thread,
             Launch(c, t) \/ SetThreadPool(c, t) \/ SetThread(c, t)
      PROVE  Growth
  BY <1>2 DEF Launch, SetThreadPool, SetThread, objVars, Growth
<1>3. ASSUME NEW a \in Actor, NEW t \in Thread, DropRef(a, t) \/ Destroy(a, t)
      PROVE  Growth
  <2>1. CASE DropRef(a, t)
    BY <2>1 DEF DropRef, Growth
  <2>2. CASE Destroy(a, t)
    <3>1. obj[t] = "live"
      BY <2>2 DEF Destroy, Serving, Known, OwnInv, LiveInv
    <3>2. \E l \in {"dying", "gone"} : obj' = [obj EXCEPT ![t] = l]
      BY <2>2 DEF Destroy
    <3> QED BY <3>1, <3>2 DEF Growth
  <2> QED BY <1>3, <2>1, <2>2
<1>4. ASSUME NEW a \in Actor, Resume(a) PROVE Growth
  <2>1. CASE op[a].at \in Removing /\ EndRemove(a)
    <3>1. op[a].th \in Thread /\ obj[op[a].th] = "dying"
      BY <2>1, WorkedOn DEF Serving, Known, Consistent, OwnInv, Works
    <3> QED BY <2>1, <3>1 DEF EndRemove, Growth
  <2>2. UNCHANGED obj \/ (op[a].at \in Removing /\ EndRemove(a))
    BY <1>4 DEF Resume, SetCheck, SetLock, SetInsert, SetCount, RemoveLock, RemoveErase,
                RemoveCount, Find, Fetch, objVars, Removing
  <2> QED BY <2>1, <2>2 DEF Growth
<1> QED BY <1>2, <1>3, <1>4
        DEF Next, GetByPthread, GetByTid, GetThread, Promote, KernelExit, Terminated, vars,
            objVars, Growth

\* What a lookup reads under the lock of a kind has been counted.
LEMMA FetchedIsSettled ==
  ASSUME Serving, NEW k \in Kind, NEW x \in Tid, lock[k] = None,
         NEW t \in Thread, thread_map[k][x] = t
  PROVE  Settled(k, t)
<1>1. Indexed(k, t)
  BY ThreadsAct DEF Serving, Known, Consistent, MapsAgree, Indexed
<1>2. ASSUME NEW a \in Actor, op[a].at = "count", op[a].kind = k PROVE FALSE
  BY <1>2, WritersWork, ThreadsAct DEF Serving, Known, Consistent, WorksOn, Writing
<1> QED BY <1>1, <1>2 DEF Settled

LEMMA AnswersAreMembers ==
  ASSUME Serving, [Next]_vars
  PROVE  UNCHANGED found \/ (Answering /\ UNCHANGED obj)
<1>1. ASSUME NEW c \in Actor, Fetch(c) PROVE UNCHANGED found \/ Answering
  <2> SUFFICES ASSUME found' # found PROVE Answering
    OBVIOUS
  <2>1. PICK k, x, t : k = op[c].kind /\ x = op[c].seen /\ t = thread_map[k][x]
    OBVIOUS
  <2>2. /\ op[c].at = "fetch" /\ lock[k] = None /\ t # None
        /\ found' = [found EXCEPT ![c] = t]
    BY <1>1, <2>1 DEF Fetch, NotFound
  <2>3. k \in Kind /\ x \in Tid /\ t \in Thread
    BY <2>1, <2>2 DEF Serving, Known, Consistent, Base, TypeOK, OpInv, Operation
  <2>4. c \in Client
    BY <2>2 DEF Serving, Known, Consistent, Base, TypeOK
  <2> QED BY <2>1, <2>2, <2>3, <2>4, FetchedIsSettled DEF Answering
<1>2. ASSUME NEW a \in Actor, Resume(a)
      PROVE  UNCHANGED found \/ (Answering /\ UNCHANGED obj)
  BY <1>1, <1>2 DEF Resume, SetCheck, SetLock, SetInsert, SetCount, RemoveLock,
                    RemoveErase, RemoveCount, Find, Fetch, NotFound, objVars
<1>3. ASSUME NEW c \in Client, NEW l, NEW p, NEW x, NEW S, GetThread(c, l, p, x, S)
      PROVE  Answering /\ UNCHANGED obj
  BY <1>3 DEF GetThread, Answering, objVars
<1>4. ASSUME NEW c \in Client, Promote(c) PROVE Answering /\ UNCHANGED obj
  BY <1>4 DEF Promote, Answering
<1> QED BY <1>2, <1>3, <1>4
        DEF Next, Launch, SetThreadPool, SetThread, DropRef, Destroy, GetByPthread, GetByTid,
            KernelExit, Terminated, vars, callVars

-----------------------------------------------------------------------------
(***************************************************************************)
(* What a step does to the members.                                        *)
(***************************************************************************)
LEMMA SameMembers ==
  ASSUME \A k \in Kind, t \in Thread : Settled(k, t)' <=> Settled(k, t)
  PROVE  UNCHANGED Members
BY DEF Members

LEMMA QuietMembers == ASSUME Quiet PROVE UNCHANGED Members
<1>1. \A a \in Actor : op'[a] = op[a] \/ (op'[a].at # "count" /\ op[a].at # "count")
  BY DEF Quiet
<1>2. \A k \in Kind, t \in Thread : Settled(k, t)' <=> Settled(k, t)
  BY <1>1 DEF Quiet, Settled, Indexed
<1> QED BY <1>2, SameMembers

LEMMA InsertMembers ==
  ASSUME Serving, NEW c \in Actor, SetInsert(c) PROVE UNCHANGED Members
<1>1. PICK k, t : k = op[c].kind /\ t = op[c].th
  OBVIOUS
<1>2. Base /\ pthread_to_pid \in [Kind -> [Thread -> Tid \cup {None}]]
  BY DEF Serving, Known, Consistent, Base, TypeOK
<1>3. /\ WorksOn(c, k, t) /\ op[c].at = "insert" /\ OthersAsBefore(c)
      /\ \/ /\ ~Present(k, t) /\ Enter(k, t)
            /\ op'[c].at = "count" /\ op'[c].kind = k /\ op'[c].th = t
         \/ op'[c].at = "idle" /\ UNCHANGED <<thread_map, pthread_to_pid>>
  BY <1>1, <1>2, InsertStep
<1>4. CASE op'[c].at = "idle" /\ UNCHANGED <<thread_map, pthread_to_pid>>
  BY <1>3, <1>4, SameMembers DEF Settled, Indexed, OthersAsBefore
<1>5. CASE /\ ~Present(k, t) /\ Enter(k, t)
           /\ op'[c].at = "count" /\ op'[c].kind = k /\ op'[c].th = t
  <2>1. \A j \in Kind, u \in Thread :
          ~(j = k /\ u = t) => (Indexed(j, u)' <=> Indexed(j, u))
    BY <1>2, <1>3, <1>5 DEF Enter, Indexed, WorksOn
  <2>2. ~Settled(k, t) /\ ~Settled(k, t)'
    BY <1>5 DEF Present, Settled
  <2>3. ASSUME NEW j \in Kind, NEW u \in Thread, ~(j = k /\ u = t)
        PROVE  Settled(j, u)' <=> Settled(j, u)
    BY <1>3, <1>5, <2>1, <2>3 DEF Settled, OthersAsBefore
  <2> QED BY <2>2, <2>3, SameMembers
<1> QED BY <1>3, <1>4, <1>5

\* A thread becomes a member when it is counted; a roll back leaves it what it was
\* not.
LEMMA CountMembers ==
  ASSUME Serving, NEW c \in Actor, SetCount(c)
  PROVE  \/ UNCHANGED Members
         \/ /\ \E k \in Kind, t \in Thread : Admitted(k, t)
            /\ UNCHANGED <<obj, found>>
<1>1. PICK k, t : k = op[c].kind /\ t = op[c].th
  OBVIOUS
<1>2. /\ Base /\ Consistent /\ CountedInv
      /\ pthread_to_pid \in [Kind -> [Thread -> Tid \cup {None}]]
  BY DEF Serving, Known, Listing, Consistent, Base, TypeOK
<1>3. /\ WorksOn(c, k, t) /\ op[c].at = "count" /\ OthersAsBefore(c)
      /\ op'[c].at = "idle" /\ UNCHANGED obj
      /\ UNCHANGED pthread_to_pid \/ Unindex(k, t)
  BY <1>1, <1>2, CountStep
<1>4. UNCHANGED found
  BY DEF SetCount
<1>5. \A b \in Actor : op[b].at = "count" /\ op[b].kind = k => b = c
  BY <1>1, <1>2, <1>3, WritersApart DEF Writing
<1>6. Indexed(k, t) /\ ~Settled(k, t)
  <2>1. thread_map[k][tid[t]] = t
    BY <1>1, <1>2, <1>3 DEF CountedInv
  <2>2. pthread_to_pid[k][t] = tid[t]
    BY <1>2, <1>3, <2>1 DEF Consistent, MapsAgree, WorksOn
  <2> QED BY <1>1, <1>3, <2>2, ThreadsAct DEF Indexed, Settled, WorksOn
<1>7. ASSUME NEW j \in Kind, NEW u \in Thread, ~(j = k /\ u = t)
      PROVE  Settled(j, u)' <=> Settled(j, u)
  <2>1. Indexed(j, u)' <=> Indexed(j, u)
    BY <1>2, <1>3, <1>7 DEF Unindex, Indexed, WorksOn
  <2> QED BY <1>1, <1>3, <1>7, <2>1 DEF Settled, OthersAsBefore
<1>8. CASE Unindex(k, t)
  <2>1. ~Settled(k, t)'
    BY <1>2, <1>3, <1>8 DEF Unindex, Settled, Indexed, WorksOn
  <2> QED BY <1>6, <1>7, <2>1, SameMembers
<1>9. CASE UNCHANGED pthread_to_pid
  <2>1. Settled(k, t)'
    BY <1>3, <1>5, <1>6, <1>9 DEF Settled, Indexed, OthersAsBefore
  <2>2. Members' = [Members EXCEPT ![k] = @ \cup {t}]
    BY <1>3, <1>7, <2>1 DEF Members, WorksOn
  <2>3. obj[t] = "live" /\ k \in Type[t]
    BY <1>1, <1>3 DEF Serving, Known, OwnInv, Works, LiveInv, Setting, WorksOn
  <2>4. Cardinality(Members[k]) < Num[k]
    BY <1>1, <1>2, <1>3, RoomForOne DEF Serving, WorksOn
  <2> QED BY <1>3, <1>4, <1>6, <2>2, <2>3, <2>4 DEF Admitted, WorksOn
<1> QED BY <1>3, <1>8, <1>9

\* A thread stops being a member when its destructor erases it from both maps.
LEMMA EraseMembers ==
  ASSUME Serving, NEW a \in Actor, RemoveErase(a)
  PROVE  \/ UNCHANGED Members
         \/ /\ \E k \in Kind, t \in Thread : Dismissed(k, t)
            /\ UNCHANGED <<obj, found>>
<1>1. PICK k, t : k = op[a].kind /\ t = op[a].th
  OBVIOUS
<1>2. /\ Base /\ Consistent
      /\ pthread_to_pid \in [Kind -> [Thread -> Tid \cup {None}]]
  BY DEF Serving, Known, Consistent, Base, TypeOK
<1>3. /\ WorksOn(a, k, t) /\ op[a].at = "rm_erase" /\ OthersAsBefore(a)
      /\ op'[a].at # "count" /\ UNCHANGED found
      /\ \/ UNCHANGED pthread_to_pid
         \/ Listed(k, t) /\ Unindex(k, t) /\ UNCHANGED obj
  BY <1>1, <1>2, EraseStep DEF RemoveErase
<1>4. CASE UNCHANGED pthread_to_pid
  BY <1>3, <1>4, SameMembers DEF Settled, Indexed, OthersAsBefore
<1>5. CASE Listed(k, t) /\ Unindex(k, t) /\ UNCHANGED obj
  <2>1. Indexed(k, t)
    BY <1>2, <1>3, <1>5, ListedIsSelf DEF WorksOn
  <2>2. Settled(k, t)
    BY <1>1, <1>2, <1>3, <2>1, WritersApart DEF Settled, Writing
  <2>3. ASSUME NEW j \in Kind, NEW u \in Thread
        PROVE  Settled(j, u)' <=> Settled(j, u) /\ ~(j = k /\ u = t)
    <3>1. Indexed(j, u)' <=> Indexed(j, u) /\ ~(j = k /\ u = t)
      BY <1>2, <1>3, <1>5 DEF Unindex, Indexed, WorksOn
    <3> QED BY <1>3, <3>1 DEF Settled, OthersAsBefore
  <2>4. Members' = [Members EXCEPT ![k] = @ \ {t}]
    BY <1>3, <2>3 DEF Members, WorksOn
  <2>5. obj[t] = "dying"
    BY <1>1, <1>3 DEF Serving, Known, OwnInv, Works, Removing
  <2> QED BY <1>3, <1>5, <2>2, <2>4, <2>5 DEF Dismissed, WorksOn
<1> QED BY <1>3, <1>4, <1>5

LEMMA GiveMembers ==
  ASSUME Serving, NEW a \in Actor, RemoveCount(a) PROVE UNCHANGED Members
<1>1. /\ op[a].at = "rm_count" /\ OthersAsBefore(a) /\ op'[a].at = "idle"
      /\ UNCHANGED pthread_to_pid
  BY GiveStep DEF Serving, Known, Consistent
<1> QED BY <1>1, SameMembers DEF Settled, Indexed, OthersAsBefore

-----------------------------------------------------------------------------
\* Registry counts as the pool does.
LEMMA SameCardinality ==
  ASSUME NEW S PROVE AsRegistry!Cardinality(S) = Cardinality(S)
BY DEF Cardinality, AsRegistry!Cardinality, IsFiniteSet, AsRegistry!IsFiniteSet

\* The pool implements Registry, if one thread registers threads and kernel ids are
\* not reused, whatever requests of locks fail and whoever is submitted again: though
\* set_thread, remove and the lookups work in several sections under two locks, each
\* has its effect in one step, no kind has more members than places, and nothing but a
\* member is ever found.
THEOREM PoolIsARegistry ==
  ASSUME OneSetter, TidReuse = FALSE
  PROVE  Spec => RegistrySpec
<1>1. Init => AsRegistry!RegistryInit
  BY DEF Init, AsRegistry!RegistryInit, Members, Settled, Indexed
<1>2. Serving /\ [Next]_vars =>
        [AsRegistry!RegistryNext]_(AsRegistry!registryVars)
  <2> SUFFICES ASSUME Serving, [Next]_vars
               PROVE  \/ AsRegistry!RegistryNext
                      \/ UNCHANGED <<Members, obj, found>>
    BY DEF AsRegistry!registryVars
  <2>1. Growth /\ (UNCHANGED found \/ (Answering /\ UNCHANGED obj))
    BY ObjectsGrow, AnswersAreMembers
  <2>2. \/ UNCHANGED Members
        \/ \E k \in Kind, t \in Thread :
             (Admitted(k, t) \/ Dismissed(k, t)) /\ UNCHANGED <<obj, found>>
    BY NextIsQuiet, QuietMembers, InsertMembers, CountMembers, EraseMembers, GiveMembers
    DEF Serving, Known, Consistent
  <2>3. ASSUME NEW k \in Kind, NEW t \in Thread,
               Admitted(k, t) \/ Dismissed(k, t), UNCHANGED <<obj, found>>
        PROVE  AsRegistry!Admit(k, t) \/ AsRegistry!Dismiss(k, t)
    <3>1. t \in Members[k] <=> Settled(k, t)
      BY DEF Members
    <3>2. Admitted(k, t) => AsRegistry!Admit(k, t)
      BY <2>3, <3>1, SameCardinality DEF Admitted, AsRegistry!Admit
    <3>3. Dismissed(k, t) => AsRegistry!Dismiss(k, t)
      BY <2>3, <3>1 DEF Dismissed, AsRegistry!Dismiss
    <3> QED BY <2>3, <3>2, <3>3
  <2>4. ASSUME UNCHANGED Members, UNCHANGED found
        PROVE  AsRegistry!RegistryNext \/ UNCHANGED <<Members, obj, found>>
    BY <2>1, <2>4 DEF Growth, AsRegistry!RegistryNext, AsRegistry!Grow
  <2>5. ASSUME UNCHANGED Members, Answering, UNCHANGED obj
        PROVE  AsRegistry!RegistryNext \/ UNCHANGED <<Members, obj, found>>
    <3>1. ASSUME NEW k \in Kind, NEW t \in Thread, Settled(k, t)
          PROVE  t \in Members[k]
      BY <3>1 DEF Members
    <3> QED BY <2>5, <3>1
            DEF Answering, AsRegistry!RegistryNext, AsRegistry!Lookup, AsRegistry!ForgetAnswer
  <2> QED BY <2>1, <2>2, <2>3, <2>4, <2>5 DEF AsRegistry!RegistryNext
<1>3. Init => Serving
  BY ProvidedInit, KnownInit DEF Serving
<1>4. Serving /\ [Next]_vars => Serving'
  BY ProvidedStep, KnownStep DEF Serving
<1> QED BY <1>1, <1>2, <1>3, <1>4, PTL DEF Spec, RegistrySpec, AsRegistry!RegistrySpec
===============================================================================

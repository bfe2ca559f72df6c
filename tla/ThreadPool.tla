------------------------------ MODULE ThreadPool ------------------------------
(***************************************************************************)
(* class thread_pool (thread.h, thread.cpp): the registry of the server's  *)
(* I/O and calculation threads.  The pool maps kernel thread ids to weak   *)
(* references to _thread objects and pthread_t's to kernel ids, once for   *)
(* each kind of thread, and counts the places that are left.  Each kind's  *)
(* maps have a reader-writer lock; the counters have another (other_lock). *)
(*                                                                         *)
(* A step of an operation is one critical section, or the part of one that *)
(* lies before another lock is requested.  A section under a read lock, or *)
(* under other_lock, requests no further lock and so is one atomic step;   *)
(* only the writers of the maps keep a lock from one step to the next.     *)
(***************************************************************************)
EXTENDS Integers, FiniteSets

CONSTANTS
  Setter,     \* threads that create _thread objects and register them
  Client,     \* threads that look registered threads up
  Thread,     \* _thread objects, identified with the pthread_t each starts
  Tid,        \* kernel thread ids
  Type,       \* Type[t]: the kinds set in the thread_type bits of t
  Num,        \* Num[k]: io_thread_num, caculate_thread_num
  UMax,       \* largest value of an unsigned int
  Pooled,     \* the threads constructed with a pointer to the pool
  TidReuse,   \* may the kernel give the id of a finished thread again?
  Resubmit,   \* may set_thread be called again for the same thread?
  LockFail,   \* the lock requests that may report an error
  None

Kind == {"io", "calc"}
Caller == Setter \cup Client
Actor == Caller \cup Thread

\* The lock requests whose result the code tests.
Checked == {"check", "count", "rm_lock", "rm_count", "find", "fetch"}

ASSUME ActorAssumption ==
  /\ Setter \cap Client = {}
  /\ Caller \cap Thread = {}
  /\ None \notin Actor \cup Tid

ASSUME PoolAssumption ==
  /\ Type \in [Thread -> SUBSET Kind]
  /\ UMax \in Nat
  /\ Num \in [Kind -> 0 .. UMax]
  /\ Pooled \subseteq Thread
  /\ TidReuse \in BOOLEAN /\ Resubmit \in BOOLEAN
  /\ LockFail \subseteq Checked

VARIABLES
  obj,        \* obj[t]: the life of the C++ object
  alive,      \* the threads that run in the kernel
  tid,        \* tid[t]: data->tpid
  refs,       \* refs[t]: who owns a shared_ptr to t
  pooled,     \* the threads whose data->pool refers to the pool
  asked,      \* history: the threads set_thread was called for
  accepted,   \* history: accepted[k]: those it registered in k, with SUCCEED
  thread_map,     \* thread_map[k]: io_thread, caculate_thread
  pthread_to_pid, \* pthread_to_pid[k]: io_..., caculate_pthread_to_pid
  surplus,        \* surplus[k]: surplus_io_..., surplus_caculate_thread_num
  lock,           \* lock[k]: the writer of io_thread_lock, calculate_thread_lock
  op,         \* op[a]: the pool operation actor a is executing
  found       \* found[c]: the weak_ptr the last lookup of c stored

objVars  == <<obj, alive, tid, refs, pooled>>
history  == <<asked, accepted>>
poolVars == <<thread_map, pthread_to_pid, surplus, lock>>
callVars == <<op, found>>
vars == <<objVars, history, poolVars, callVars>>

(***************************************************************************)
(* An operation in progress: at is the next step, th the thread it is      *)
(* about, kind the half of the pool it works on, scope the thread_type it  *)
(* was given and seen the kernel id a lookup has read.                     *)
(***************************************************************************)
Idle == [at |-> "idle", th |-> None, kind |-> "io", scope |-> {}, seen |-> None]

FirstKind(S) == IF "io" \in S THEN "io" ELSE "calc"
Begin(a, l, t, S, x) ==
  op' = [op EXCEPT ![a] = [at |-> l, th |-> t, kind |-> FirstKind(S),
                           scope |-> S, seen |-> x]]
Goto(a, l) == op' = [op EXCEPT ![a].at = l]
Return(a) == op' = [op EXCEPT ![a] = Idle]

\* An operation that found nothing in the I/O half goes on in the other.
MayTryCalc(a) == op[a].kind = "io" /\ "calc" \in op[a].scope
TryCalc(a, l) == op' = [op EXCEPT ![a] = [@ EXCEPT !.kind = "calc", !.at = l]]

\* Slips: an early return that keeps the lock, a surplus that is not looked at,
\* not kept as unsigned, not counted down, not given back.
ReleaseNot(a) == UNCHANGED lock
HasPlaceAlways(k) == TRUE
TakeSigned(k) == surplus' = [surplus EXCEPT ![k] = @ - 1]
TakeNoPlace(k) == UNCHANGED surplus
GiveNoPlace(k) == UNCHANGED surplus

Acquire(a) == lock[op[a].kind] = None /\ lock' = [lock EXCEPT ![op[a].kind] = a]
Release(a) == lock' = [lock EXCEPT ![op[a].kind] = None]

\* The surplus of a kind is an unsigned int: it wraps around.
HasPlace(k) == surplus[k] > 0
TakePlace(k) ==
  surplus' = [surplus EXCEPT ![k] = IF @ = 0 THEN UMax ELSE @ - 1]
GivePlace(k) ==
  surplus' = [surplus EXCEPT ![k] = IF @ = UMax THEN 0 ELSE @ + 1]

\* Slips: operator[] in place of insert, the I/O half's line copied to the other half,
\* half of the roll back.
PresentNever(k, t) == FALSE
UnlistIo(k, t) == thread_map' = [thread_map EXCEPT !["io"][tid[t]] = None]
UnindexNot(k, t) == UNCHANGED pthread_to_pid

\* The entries of thread t in the maps of kind k.
Listed(k, t)  == thread_map[k][tid[t]] # None
Indexed(k, t) == pthread_to_pid[k][t] # None
Present(k, t) == Listed(k, t) \/ Indexed(k, t)
Enter(k, t) ==
  /\ thread_map' = [thread_map EXCEPT ![k][tid[t]] = t]
  /\ pthread_to_pid' = [pthread_to_pid EXCEPT ![k][t] = tid[t]]
Unlist(k, t)  == thread_map' = [thread_map EXCEPT ![k][tid[t]] = None]
Unindex(k, t) == pthread_to_pid' = [pthread_to_pid EXCEPT ![k][t] = None]

-----------------------------------------------------------------------------
(***************************************************************************)
(* Threads.  Launch stands for the constructor, start and start_wait: when *)
(* it is over both ids are known and the thread runs (see ThreadStart).    *)
(* Threads are never joined, so a pthread_t denotes one thread for ever;   *)
(* the kernel is free to reuse the id of a thread that has finished.       *)
(***************************************************************************)
FreeTid == Tid \ {tid[u] : u \in IF TidReuse THEN alive ELSE Thread}

Launch(c, t) ==
  /\ op[c].at = "idle" /\ obj[t] = "none"
  /\ \E x \in FreeTid : tid' = [tid EXCEPT ![t] = x]
  /\ obj' = [obj EXCEPT ![t] = "live"]
  /\ alive' = alive \cup {t}
  /\ refs' = [refs EXCEPT ![t] = {c, t}]
  /\ pooled' = pooled \cup ({t} \cap Pooled)
  /\ UNCHANGED <<history, poolVars, callVars>>

SetThreadPool(c, t) ==
  /\ op[c].at = "idle" /\ c \in refs[t] /\ t \notin pooled
  /\ pooled' = pooled \cup {t}
  /\ UNCHANGED <<obj, alive, tid, refs, history, poolVars, callVars>>

\* The function the thread runs is over and thread_main has returned.
KernelExit(t) ==
  /\ t \in alive /\ t \notin refs[t] /\ op[t].at = "idle"
  /\ alive' = alive \ {t}
  /\ UNCHANGED <<obj, tid, refs, pooled, history, poolVars, callVars>>

DropRef(a, t) ==
  /\ op[a].at = "idle" /\ a \in refs[t] /\ refs[t] # {a}
  /\ refs' = [refs EXCEPT ![t] = @ \ {a}]
  /\ UNCHANGED <<obj, alive, tid, pooled, history, poolVars, callVars>>

-----------------------------------------------------------------------------
(***************************************************************************)
(* set_thread.  The place is looked for under other_lock, which is then    *)
(* released; it is taken under other_lock after the maps have been         *)
(* changed.  The request at SetLock is the one the code does not test. It   *)
(* succeeds here: it waits for a lock its caller does not hold, and what   *)
(* set_thread would do without it, change a std::map that others are       *)
(* reading and changing, is undefined.                                     *)
(***************************************************************************)
SetThread(c, t) ==
  /\ op[c].at = "idle" /\ c \in refs[t]
  /\ Resubmit \/ t \notin asked
  /\ asked' = asked \cup {t}
  /\ \/ Type[t] = {} /\ Return(c)                       \* BAD_TYPE
     \/ Type[t] # {} /\ Begin(c, "check", t, Type[t], None)
  /\ UNCHANGED <<objVars, accepted, poolVars, found>>

SetCheck(c) ==
  LET left == HasPlace(op[c].kind) IN
  /\ op[c].at = "check"
  /\ \/ left /\ Goto(c, "lock")
     \/ ~left /\ MayTryCalc(c) /\ TryCalc(c, "check")
     \/ ~left /\ ~MayTryCalc(c) /\ Return(c)             \* NO_SURPLUS_NUM
     \/ "check" \in LockFail /\ Return(c)                \* LOCK_FAIL
  /\ UNCHANGED <<objVars, history, poolVars, found>>

SetLock(c) ==
  /\ op[c].at = "lock"
  /\ Acquire(c) /\ Goto(c, "insert")
  /\ UNCHANGED <<objVars, history, thread_map, pthread_to_pid, surplus, found>>

\* Slip: the entry is taken out again whichever insertion failed.
SetInsertErases(c) ==
  LET k == op[c].kind  t == op[c].th IN
  /\ op[c].at = "insert"
  /\ \/ /\ ~Present(k, t)
        /\ Enter(k, t) /\ Goto(c, "count") /\ UNCHANGED lock
     \/ /\ Present(k, t)
        /\ Release(c) /\ Return(c) /\ Unlist(k, t) /\ UNCHANGED pthread_to_pid
  /\ UNCHANGED <<objVars, history, surplus, found>>

\* A thread whose pthread_t is already in the second map is taken out of the
\* first map again, under the same lock.
SetInsert(c) ==
  LET k == op[c].kind  t == op[c].th IN
  /\ op[c].at = "insert"
  /\ \/ /\ ~Present(k, t)
        /\ Enter(k, t) /\ Goto(c, "count") /\ UNCHANGED lock
     \/ /\ Present(k, t)
        /\ Release(c) /\ Return(c)                        \* INSERT_FAIL
        /\ UNCHANGED <<thread_map, pthread_to_pid>>
  /\ UNCHANGED <<objVars, history, surplus, found>>

SetCount(c) ==
  LET k == op[c].kind  t == op[c].th IN
  /\ op[c].at = "count"
  /\ \/ /\ TakePlace(k)
        /\ accepted' = [accepted EXCEPT ![k] = @ \cup {t}]
        /\ UNCHANGED <<thread_map, pthread_to_pid>>      \* SUCCEED
     \/ /\ "count" \in LockFail
        /\ Unlist(k, t) /\ Unindex(k, t)
        /\ UNCHANGED <<surplus, accepted>>               \* LOCK_FAIL
  /\ Release(c) /\ Return(c)
  /\ UNCHANGED <<objVars, asked, found>>

-----------------------------------------------------------------------------
(***************************************************************************)
(* ~_thread, run by whoever drops the last shared_ptr, and remove.         *)
(***************************************************************************)
Destroy(a, t) ==
  /\ op[a].at = "idle" /\ refs[t] = {a}
  /\ refs' = [refs EXCEPT ![t] = {}]
  /\ \/ /\ t \in pooled /\ Type[t] # {}
        /\ obj' = [obj EXCEPT ![t] = "dying"]
        /\ Begin(a, "rm_lock", t, Type[t], None)
     \/ /\ t \in pooled /\ Type[t] = {}
        /\ obj' = [obj EXCEPT ![t] = "gone"]
        /\ Return(a)                                      \* BAD_TYPE
     \/ /\ t \notin pooled
        /\ obj' = [obj EXCEPT ![t] = "gone"]
        /\ UNCHANGED op
  /\ UNCHANGED <<alive, tid, pooled, history, poolVars, found>>

\* remove returns and the destructor frees the object.
EndRemove(a) == Return(a) /\ obj' = [obj EXCEPT ![op[a].th] = "gone"]

RemoveLock(a) ==
  /\ op[a].at = "rm_lock"
  /\ \/ Acquire(a) /\ Goto(a, "rm_erase") /\ UNCHANGED obj
     \/ "rm_lock" \in LockFail /\ EndRemove(a) /\ UNCHANGED lock  \* LOCK_FAIL
  /\ UNCHANGED <<alive, tid, refs, pooled, history, thread_map, pthread_to_pid,
                 surplus, found>>

\* Slip: what the two erases answer is not looked at.
RemoveUntested(a) ==
  LET k == op[a].kind  t == op[a].th IN
  /\ op[a].at = "rm_erase"
  /\ Unlist(k, t) /\ Unindex(k, t) /\ Goto(a, "rm_count")
  /\ UNCHANGED <<objVars, history, surplus, lock, found>>

RemoveErase(a) ==
  LET k == op[a].kind  t == op[a].th IN
  /\ op[a].at = "rm_erase"
  /\ Unlist(k, t)
  /\ \/ /\ ~Listed(k, t) /\ MayTryCalc(a)
        /\ Release(a) /\ TryCalc(a, "rm_lock")
        /\ UNCHANGED <<obj, pthread_to_pid>>
     \/ /\ ~Listed(k, t) /\ ~MayTryCalc(a)
        /\ Release(a) /\ EndRemove(a)                     \* GET_THREAD_NULL
        /\ UNCHANGED pthread_to_pid
     \/ /\ Listed(k, t) /\ Indexed(k, t)
        /\ Unindex(k, t)
        /\ Goto(a, "rm_count") /\ UNCHANGED <<obj, lock>>
     \/ /\ Listed(k, t) /\ ~Indexed(k, t)                \* atypism
        /\ Release(a) /\ EndRemove(a)                     \* SUCCEED
        /\ UNCHANGED pthread_to_pid
  /\ UNCHANGED <<alive, tid, refs, pooled, history, surplus, found>>

RemoveCount(a) ==
  /\ op[a].at = "rm_count"
  /\ \/ GivePlace(op[a].kind)                                 \* SUCCEED
     \/ "rm_count" \in LockFail /\ UNCHANGED surplus          \* LOCK_FAIL
  /\ Release(a) /\ EndRemove(a)
  /\ UNCHANGED <<alive, tid, refs, pooled, history, thread_map, pthread_to_pid,
                 found>>

-----------------------------------------------------------------------------
(***************************************************************************)
(* get_thread, by pthread_t and by kernel id.  The first looks the kernel  *)
(* id up, unlocks, and calls the second for the one kind it was found in.  *)
(***************************************************************************)
GetThread(c, l, p, x, S) ==
  /\ op[c].at = "idle"
  /\ Begin(c, l, p, S, x)
  /\ found' = [found EXCEPT ![c] = None]
  /\ UNCHANGED <<objVars, history, poolVars>>

GetByPthread(c, p, S) == obj[p] # "none" /\ GetThread(c, "find", p, None, S)
GetByTid(c, x, S) == GetThread(c, "fetch", None, x, S)

\* The key of the lookup is not in the maps of the kind looked at.
NotFound(c) ==
  /\ \/ MayTryCalc(c) /\ TryCalc(c, op[c].at)
     \/ ~MayTryCalc(c) /\ Return(c)                      \* GET_THREAD_NULL
  /\ UNCHANGED found

Find(c) ==
  LET k == op[c].kind  x == pthread_to_pid[k][op[c].th] IN
  /\ op[c].at = "find"
  /\ \/ /\ lock[k] = None /\ x # None
        /\ op' = [op EXCEPT ![c] = [@ EXCEPT !.at = "fetch", !.scope = {k}, !.seen = x]]
        /\ UNCHANGED found
     \/ lock[k] = None /\ x = None /\ NotFound(c)
     \/ "find" \in LockFail /\ Return(c) /\ UNCHANGED found
  /\ UNCHANGED <<objVars, history, poolVars>>

\* Slip: the map is read without its lock.
FetchUnlocked(c) ==
  LET k == op[c].kind  t == thread_map[k][op[c].seen] IN
  /\ op[c].at = "fetch"
  /\ \/ t # None /\ found' = [found EXCEPT ![c] = t] /\ Return(c)
     \/ t = None /\ NotFound(c)
     \/ "fetch" \in LockFail /\ Return(c) /\ UNCHANGED found
  /\ UNCHANGED <<objVars, history, poolVars>>

Fetch(c) ==
  LET k == op[c].kind  t == thread_map[k][op[c].seen] IN
  /\ op[c].at = "fetch"
  /\ \/ /\ lock[k] = None /\ t # None
        /\ found' = [found EXCEPT ![c] = t] /\ Return(c)
     \/ lock[k] = None /\ t = None /\ NotFound(c)
     \/ "fetch" \in LockFail /\ Return(c) /\ UNCHANGED found
  /\ UNCHANGED <<objVars, history, poolVars>>

\* weak_ptr::lock on the result of a lookup.
Promote(c) ==
  LET t == found[c] IN
  /\ op[c].at = "idle" /\ t # None
  /\ refs' = [refs EXCEPT ![t] = IF @ = {} THEN {} ELSE @ \cup {c}]
  /\ found' = [found EXCEPT ![c] = None]
  /\ UNCHANGED <<obj, alive, tid, pooled, history, poolVars, op>>

-----------------------------------------------------------------------------
Init ==
  /\ obj = [t \in Thread |-> "none"] /\ alive = {}
  /\ tid = [t \in Thread |-> None]
  /\ refs = [t \in Thread |-> {}] /\ pooled = {}
  /\ asked = {} /\ accepted = [k \in Kind |-> {}]
  /\ thread_map = [k \in Kind |-> [x \in Tid |-> None]]
  /\ pthread_to_pid = [k \in Kind |-> [p \in Thread |-> None]]
  /\ surplus = Num
  /\ lock = [k \in Kind |-> None]
  /\ op = [a \in Actor |-> Idle]
  /\ found = [c \in Client |-> None]

\* The rest of the operation an actor is executing.
Resume(a) ==
  \/ SetCheck(a) \/ SetLock(a) \/ SetInsert(a) \/ SetCount(a)
  \/ RemoveLock(a) \/ RemoveErase(a) \/ RemoveCount(a)
  \/ Find(a) \/ Fetch(a)

\* Every thread is over and destroyed: the system may stop.
Terminated ==
  /\ \A t \in Thread : obj[t] = "gone" /\ t \notin alive
  /\ \A a \in Actor : op[a].at = "idle"
  /\ UNCHANGED vars

Next ==
  \/ \E c \in Setter, t \in Thread :
       Launch(c, t) \/ SetThreadPool(c, t) \/ SetThread(c, t)
  \/ \E a \in Actor, t \in Thread : DropRef(a, t) \/ Destroy(a, t)
  \/ \E c \in Client, S \in SUBSET Kind \ {{}} :
       \/ \E p \in Thread : GetByPthread(c, p, S)
       \/ \E x \in Tid : GetByTid(c, x, S)
  \/ \E c \in Client : Promote(c)
  \/ \E t \in Thread : KernelExit(t)
  \/ \E a \in Actor : Resume(a)
  \/ Terminated

Spec == Init /\ [][Next]_vars

\* A started operation is carried on: the scheduler never abandons a thread.
FairSpec == Spec /\ \A a \in Actor : WF_vars(Resume(a))

-----------------------------------------------------------------------------
Label == {"idle", "check", "lock", "insert", "count",
          "rm_lock", "rm_erase", "rm_count", "find", "fetch"}
Operation == [at : Label, th : Thread \cup {None}, kind : Kind,
              scope : SUBSET Kind, seen : Tid \cup {None}]

TypeOK ==
  /\ obj \in [Thread -> {"none", "live", "dying", "gone"}]
  /\ alive \subseteq Thread
  /\ tid \in [Thread -> Tid \cup {None}]
  /\ refs \in [Thread -> SUBSET Actor]
  /\ pooled \subseteq Thread
  /\ asked \subseteq Thread
  /\ accepted \in [Kind -> SUBSET Thread]
  /\ thread_map \in [Kind -> [Tid -> Thread \cup {None}]]
  /\ pthread_to_pid \in [Kind -> [Thread -> Tid \cup {None}]]
  /\ surplus \in [Kind -> 0 .. UMax]
  /\ lock \in [Kind -> Actor \cup {None}]
  /\ op \in [Actor -> Operation]
  /\ found \in [Client -> Thread \cup {None}]

Registered(k) == {x \in Tid : thread_map[k][x] # None}

\* The half k of the pool is between the change of its maps and that of its
\* counter.
Inserting(k) == lock[k] # None /\ op[lock[k]].at = "count"
Erasing(k)   == lock[k] # None /\ op[lock[k]].at = "rm_count"

\* The two maps of a kind describe the same threads, at every moment: an entry
\* of one has its mirror image in the other (set_thread, remove).
MapsAgree ==
  \A k \in Kind, x \in Tid, t \in Thread :
    thread_map[k][x] = t <=> pthread_to_pid[k][t] = x

\* remove never finds the kernel id of a thread in one map and misses its
\* pthread_t in the other: the branch with assert("thread_pool atypism\n").
NoAtypism ==
  \A a \in Actor :
    op[a].at = "rm_erase" /\ Listed(op[a].kind, op[a].th)
      => Indexed(op[a].kind, op[a].th)

\* A thread set_thread has accepted can be found, by its kernel id and by its
\* pthread_t, in the half it was accepted for, as long as somebody owns it, whoever
\* else comes and goes.
AcceptedIsFindable ==
  \A k \in Kind : \A t \in accepted[k] :
    obj[t] = "live" => thread_map[k][tid[t]] = t /\ pthread_to_pid[k][t] = tid[t]

\* A refused thread leaves nothing behind in either map of the half that refused it:
\* each entry belongs to a thread that was accepted for that half or whose set_thread
\* is about to take its place there (the roll backs of set_thread).
RefusedLeavesNothing ==
  \A k \in Kind :
    LET known == accepted[k] \cup (IF Inserting(k) THEN {op[lock[k]].th} ELSE {}) IN
    /\ \A x \in Tid : thread_map[k][x] \in known \cup {None}
    /\ \A t \in Thread : Indexed(k, t) => t \in known

\* The pool does not remember a destroyed thread: no weak_ptr in it outlives
\* the destructor of its object (~_thread, remove).
NoStaleEntry ==
  \A k \in Kind, x \in Tid :
    thread_map[k][x] # None => obj[thread_map[k][x]] # "gone"

\* No kind has more threads than the pool was made for.
WithinCapacity == \A k \in Kind : Cardinality(Registered(k)) <= Num[k]

\* No place is lost and none is given twice: free places and registered threads
\* always add up, but for the thread being counted.
PlacesAddUp ==
  \A k \in Kind :
    surplus[k] + Cardinality(Registered(k)) =
      Num[k] + (IF Inserting(k) THEN 1 ELSE 0) - (IF Erasing(k) THEN 1 ELSE 0)

\* When lock requests fail places may be lost, but none is given twice.
NoPlaceGivenTwice ==
  \A k \in Kind :
    surplus[k] + Cardinality(Registered(k)) <=
      Num[k] + (IF Inserting(k) THEN 1 ELSE 0)

\* However many threads were let in at once, a kind whose threads have all
\* left has all its places again, the wrapped counter included.
AllPlacesComeBack ==
  \A k \in Kind : lock[k] = None /\ Registered(k) = {} => surplus[k] = Num[k]

\* The assertions surplus <= num of remove, evaluated when it has counted.
SurplusAssertion ==
  [][\A a \in Actor, k \in Kind :
       op[a].at = "rm_count" /\ op[a].kind = k /\ surplus'[k] # surplus[k]
         => surplus'[k] <= Num[k]]_vars

\* What the lookup of c may store.
RightAnswer(c) ==
  LET p == op[c].th  t == found'[c] IN
  /\ t \in accepted[op[c].kind]
  /\ tid[t] = IF p = None THEN op[c].seen ELSE tid[p]
  /\ {p, t} \subseteq alive => p = t
\* What a lookup may answer, kernel ids reused or not, although get_thread drops the
\* lock between its two maps: a thread that was accepted, never one that is refused
\* in the end, and under the kernel id it was looked up by. By pthread_t that is the
\* id of the thread asked for; another thread that has it had it before or after, so
\* that of two threads that run the lookup never takes one for the other.
LookupAnswers ==
  [][\A c \in Client : op[c].at = "fetch" /\ found'[c] # None => RightAnswer(c)]_vars

\* A thread is a member of a kind when it has an entry and a place: from the
\* moment it has been counted to the moment its entry is erased.
Settled(k, t) ==
  /\ Indexed(k, t)
  /\ \A a \in Actor : ~(op[a].at = "count" /\ op[a].kind = k /\ op[a].th = t)
Members == [k \in Kind |-> {t \in Thread : Settled(k, t)}]

\* The pool implements Registry: whatever the operations of the pool do to its maps
\* and counters, under two locks and with none in between, admissions, dismissals
\* and lookups happen as if each were one step.
AsRegistry == INSTANCE Registry WITH member <- Members, life <- obj, answer <- found
RegistrySpec == AsRegistry!RegistrySpec

\* Every pool operation returns, destructors included, unless threads are submitted
\* without end: no way out of set_thread or remove keeps the lock of a map, and nobody
\* goes on trying.
SubmittedForEver == []<><<\E c \in Setter, t \in Thread : SetThread(c, t)>>_vars
EveryCallReturns ==
  SubmittedForEver \/ \A a \in Actor : op[a].at # "idle" ~> op[a].at = "idle"

-----------------------------------------------------------------------------
(***************************************************************************)
(* The parts of the inductive invariants of ThreadPoolProofs.              *)
(***************************************************************************)
\* An object has a kernel id, and an operation is about an object, since the
\* object was launched.
Launched(t) == t \in Thread /\ obj[t] # "none"
OpInv ==
  /\ \A t \in Thread :
       IF obj[t] = "none" THEN tid[t] = None /\ refs[t] = {} ELSE tid[t] \in Tid
  /\ \A a \in Actor :
       /\ op[a].at \notin {"idle", "fetch"} => Launched(op[a].th)
       /\ op[a].at = "fetch" => op[a].seen \in Tid

\* The writer of a kind is the actor whose next step needs its lock.
Writing == {"insert", "count", "rm_erase", "rm_count"}
LockInv ==
  \A a \in Actor, k \in Kind :
    lock[k] = a <=> op[a].at \in Writing /\ op[a].kind = k

\* Unless ids are reused, an id denotes one thread, and the maps know a thread
\* by no other id.
OneThreadPerTid ==
  \A t, u \in Thread : tid[t] = tid[u] /\ tid[t] # None => t = u
IndexInv ==
  \A k \in Kind, t \in Thread : pthread_to_pid[k][t] \in {None, tid[t]}
=============================================================================

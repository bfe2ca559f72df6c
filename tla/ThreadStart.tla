------------------------------ MODULE ThreadStart ------------------------------
(***************************************************************************)
(* The start and the end of a _thread (thread.h, thread.cpp), the way      *)
(* init::init (init.cpp) drives them: construct, start, start_wait,        *)
(* set_thread, let the shared_ptr go.  Launcher and thread meet at a       *)
(* barrier for two, which the launcher destroys and frees.                 *)
(*                                                                         *)
(* The object is destroyed by whoever drops the last shared_ptr.  The new  *)
(* thread gets a raw pointer to it and takes a shared_ptr of its own.      *)
(***************************************************************************)
EXTENDS Naturals, FiniteSets

CONSTANTS
  Launcher,     \* the threads that construct _thread objects
  Thread,       \* _thread objects, each with the thread it starts
  CreateFails,  \* may pthread_create fail?
  None

ASSUME StartAssumption ==
  /\ Launcher \cap Thread = {}
  /\ None \notin Launcher \cup Thread
  /\ CreateFails \in BOOLEAN

VARIABLES
  obj,       \* obj[t]: the life of the object
  refs,      \* refs[t]: who owns a shared_ptr to it
  ppid,      \* ppid[t]: data->ppid; garbage when there is no such thread
  tpid,      \* tpid[t]: data->tpid
  ended,     \* the threads with THREAD_END in data->state
  barrier,   \* barrier[t]: data->barrier, NULL once it is freed
  arrived,   \* arrived[t]: who has called pthread_barrier_wait
  inside,    \* inside[t]: who has not come out of it
  pool,      \* the threads the pool has registered
  at,        \* at[a]: the next step of a launcher or of a started thread
  cur        \* cur[l]: the object launcher l works on

objVars == <<obj, refs, ppid, tpid, ended>>
barVars == <<barrier, arrived, inside>>
vars == <<objVars, barVars, pool, at, cur>>

Go(a, l) == at' = [at EXCEPT ![a] = l]

\* Slips: a barrier that opens for one, and one made for three.
OpenForOne(t)   == Cardinality(arrived[t]) >= 1
OpenForThree(t) == Cardinality(arrived[t]) = 3
\* The barrier was made for two threads.
Open(t) == Cardinality(arrived[t]) = 2

Arrive(a, t) ==
  /\ arrived' = [arrived EXCEPT ![t] = @ \cup {a}]
  /\ inside' = [inside EXCEPT ![t] = @ \cup {a}]
  /\ UNCHANGED barrier
Leave(a, t) ==
  /\ Open(t)
  /\ inside' = [inside EXCEPT ![t] = @ \ {a}]
  /\ UNCHANGED <<barrier, arrived>>

\* Slip: a shared_ptr in a cycle is never let go.
DropNot(a, t) == UNCHANGED <<refs, obj, pool, barrier>>
\* a lets its shared_ptr go; the last one runs ~_thread.
Drop(a, t) ==
  /\ refs' = [refs EXCEPT ![t] = @ \ {a}]
  /\ IF refs[t] = {a}
     THEN /\ obj' = [obj EXCEPT ![t] = "gone"]
          /\ pool' = pool \ {t}
          /\ barrier' = [barrier EXCEPT ![t] = "NULL"]
     ELSE UNCHANGED <<obj, pool, barrier>>

-----------------------------------------------------------------------------
(***************************************************************************)
(* The launcher.                                                           *)
(***************************************************************************)
Construct(l, t) ==
  /\ at[l] = "idle" /\ obj[t] = "none"
  /\ obj' = [obj EXCEPT ![t] = "live"]
  /\ refs' = [refs EXCEPT ![t] = {l}]
  /\ barrier' = [barrier EXCEPT ![t] = "ready"]
  /\ cur' = [cur EXCEPT ![l] = t] /\ Go(l, "create")
  /\ UNCHANGED <<ppid, tpid, ended, arrived, inside, pool>>

\* init does not look at what start returns.
Create(l) ==
  /\ at[l] = "create"
  /\ \/ at' = [at EXCEPT ![l] = "set_ppid", ![cur[l]] = "adopt"]
     \/ CreateFails /\ Go(l, "set_ppid")
  /\ UNCHANGED <<objVars, barVars, pool, cur>>

\* Slip: the launcher goes to the barrier, and start forgets the id.
SetPpidNot(l) ==
  /\ at[l] = "set_ppid" /\ Go(l, "arrive")
  /\ UNCHANGED <<objVars, barVars, pool, cur>>
SetPpid(l) ==
  /\ at[l] = "set_ppid"
  /\ ppid' = [ppid EXCEPT ![cur[l]] =
                IF at[cur[l]] = "none" THEN "garbage" ELSE "known"]
  /\ Go(l, "arrive")
  /\ UNCHANGED <<obj, refs, tpid, ended, barVars, pool, cur>>

StartWait(l) ==
  /\ at[l] = "arrive" /\ Arrive(l, cur[l]) /\ Go(l, "wait")
  /\ UNCHANGED <<objVars, pool, cur>>

GoOn(l) ==
  /\ at[l] = "wait" /\ Leave(l, cur[l]) /\ Go(l, "free")
  /\ UNCHANGED <<objVars, pool, cur>>

\* Slip: data->barrier is not set to NULL.
FreeBarrierOnly(l) ==
  /\ at[l] = "free" /\ inside[cur[l]] = {}
  /\ barrier' = [barrier EXCEPT ![cur[l]] = "dangling"]
  /\ Go(l, "register")
  /\ UNCHANGED <<objVars, arrived, inside, pool, cur>>
\* pthread_barrier_destroy waits until nobody is inside.
FreeBarrier(l) ==
  /\ at[l] = "free" /\ inside[cur[l]] = {}
  /\ barrier' = [barrier EXCEPT ![cur[l]] = "NULL"]
  /\ Go(l, "register")
  /\ UNCHANGED <<objVars, arrived, inside, pool, cur>>

Register(l) ==
  /\ at[l] = "register"
  /\ pool' = pool \cup {cur[l]} /\ Go(l, "drop")
  /\ UNCHANGED <<objVars, barVars, cur>>

Forget(l) ==
  /\ at[l] = "drop" /\ Drop(l, cur[l])
  /\ Go(l, "idle") /\ cur' = [cur EXCEPT ![l] = None]
  /\ UNCHANGED <<ppid, tpid, ended, arrived, inside>>

-----------------------------------------------------------------------------
(***************************************************************************)
(* The thread: thread_main.                                                *)
(***************************************************************************)
\* Slip: thread_main goes on with the raw pointer.
AdoptNot(t) ==
  /\ at[t] = "adopt" /\ Go(t, "set_tpid")
  /\ UNCHANGED <<objVars, barVars, pool, cur>>
Adopt(t) ==
  /\ at[t] = "adopt"
  /\ refs' = [refs EXCEPT ![t] = @ \cup {t}] /\ Go(t, "set_tpid")
  /\ UNCHANGED <<obj, ppid, tpid, ended, barVars, pool, cur>>

SetTpid(t) ==
  /\ at[t] = "set_tpid"
  /\ tpid' = [tpid EXCEPT ![t] = "known"] /\ Go(t, "arrive")
  /\ UNCHANGED <<obj, refs, ppid, ended, barVars, pool, cur>>

ThreadWait(t) ==
  /\ at[t] = "arrive" /\ Arrive(t, t) /\ Go(t, "wait")
  /\ UNCHANGED <<objVars, pool, cur>>

Run(t) ==
  /\ at[t] = "wait" /\ Leave(t, t) /\ Go(t, "run")
  /\ UNCHANGED <<objVars, pool, cur>>

\* Slip: an exception leaves thread_main.
FunThrows(t) ==
  /\ at[t] = "run" /\ (Go(t, "set_end") \/ Go(t, "drop"))
  /\ UNCHANGED <<objVars, barVars, pool, cur>>
\* The function returns, or throws and the exception is caught.
FunEnds(t) ==
  /\ at[t] = "run" /\ Go(t, "set_end")
  /\ UNCHANGED <<objVars, barVars, pool, cur>>

SetEnd(t) ==
  /\ at[t] = "set_end"
  /\ ended' = ended \cup {t} /\ Go(t, "drop")
  /\ UNCHANGED <<obj, refs, ppid, tpid, barVars, pool, cur>>

Exit(t) ==
  /\ at[t] = "drop" /\ Drop(t, t) /\ Go(t, "done")
  /\ UNCHANGED <<ppid, tpid, ended, arrived, inside, cur>>

-----------------------------------------------------------------------------
Init ==
  /\ obj = [t \in Thread |-> "none"]
  /\ refs = [t \in Thread |-> {}]
  /\ ppid = [t \in Thread |-> "unset"]
  /\ tpid = [t \in Thread |-> "unset"]
  /\ ended = {}
  /\ barrier = [t \in Thread |-> "NULL"]
  /\ arrived = [t \in Thread |-> {}]
  /\ inside = [t \in Thread |-> {}]
  /\ pool = {}
  /\ at = [a \in Launcher \cup Thread |-> IF a \in Launcher THEN "idle" ELSE "none"]
  /\ cur = [l \in Launcher |-> None]

LauncherStep(l) ==
  \/ Create(l) \/ SetPpid(l) \/ StartWait(l) \/ GoOn(l)
  \/ FreeBarrier(l) \/ Register(l) \/ Forget(l)
ThreadStep(t) ==
  \/ Adopt(t) \/ SetTpid(t) \/ ThreadWait(t) \/ Run(t)
  \/ FunEnds(t) \/ SetEnd(t) \/ Exit(t)

\* The launcher waits for a thread that could not be created.
Stranded(l) == at[l] = "wait" /\ at[cur[l]] = "none"

\* Everything was launched and is over, but for what waits for ever.
Terminated ==
  /\ \A l \in Launcher : at[l] = "idle" \/ Stranded(l)
  /\ \A t \in Thread :
       \/ obj[t] = "gone"
       \/ \E l \in Launcher : cur[l] = t
       \/ obj[t] = "none" /\ \A l \in Launcher : Stranded(l)
  /\ UNCHANGED vars

Next ==
  \/ \E l \in Launcher, t \in Thread : Construct(l, t)
  \/ \E l \in Launcher : LauncherStep(l)
  \/ \E t \in Thread : ThreadStep(t)
  \/ Terminated

Spec == Init /\ [][Next]_vars

\* The scheduler runs every thread, and every thread function comes to an end.
FairSpec ==
  /\ Spec
  /\ \A l \in Launcher : WF_vars(LauncherStep(l))
  /\ \A t \in Thread : WF_vars(ThreadStep(t))

-----------------------------------------------------------------------------
Using(t) == {l \in Launcher : cur[l] = t}
Started(t) == at[t] \notin {"none", "done"}

TypeOK ==
  /\ obj \in [Thread -> {"none", "live", "gone"}]
  /\ refs \in [Thread -> SUBSET (Launcher \cup Thread)]
  /\ ppid \in [Thread -> {"unset", "known", "garbage"}]
  /\ tpid \in [Thread -> {"unset", "known"}]
  /\ ended \subseteq Thread
  /\ barrier \in [Thread -> {"NULL", "ready"}]
  /\ arrived \in [Thread -> SUBSET (Launcher \cup Thread)]
  /\ inside \in [Thread -> SUBSET (Launcher \cup Thread)]
  /\ pool \subseteq Thread
  /\ at \in [Launcher \cup Thread ->
               {"idle", "none", "done", "create", "set_ppid", "adopt", "set_tpid",
                "arrive", "wait", "free", "register", "run", "set_end", "drop"}]
  /\ cur \in [Launcher -> Thread \cup {None}]

\* Both ids are known to the thread's function and to the pool that files the
\* thread under them, although two threads write them at either side of start.
IdsKnown ==
  \A t \in Thread :
    \/ at[t] \in {"run", "set_end"}
    \/ \E l \in Using(t) : at[l] \in {"register", "drop"}
    => ppid[t] = "known" /\ tpid[t] = "known"

\* Nobody follows a pointer to a destroyed object: neither the launcher nor the
\* thread, which starts with a raw pointer (thread_main's shared_from_this).
NoDanglingThis ==
  \A t \in Thread : Started(t) \/ Using(t) # {} => obj[t] = "live"

\* The barrier is freed only when both are through with it, and before the
\* object is gone.
BarrierOutlivesUse ==
  \A t \in Thread :
    /\ \/ inside[t] # {} \/ at[t] \in {"adopt", "set_tpid", "arrive"}
       \/ \E l \in Using(t) : at[l] \in {"create", "set_ppid", "arrive"}
       => barrier[t] = "ready"
    /\ obj[t] = "gone" => barrier[t] = "NULL"

\* An object that is destroyed saw the end of its thread: no thread is left
\* running without one, however its function ended.
GoneMeansEnded ==
  \A t \in Thread : obj[t] = "gone" => t \in ended

\* start_wait returns to the launcher, for every thread that could be created,
\* and only for those.
LaunchReturns ==
  \A l \in Launcher : at[l] = "wait" /\ ~Stranded(l) ~> at[l] = "idle"

\* The object of every thread that runs is destroyed, and the pool forgets it.
EveryThreadIsReleased ==
  \A t \in Thread : Started(t) ~> obj[t] = "gone" /\ t \notin pool

\* ThreadLife is implemented: a thread is running once the barrier has opened.
Life == INSTANCE ThreadLife WITH
  phase <- [t \in Thread |->
              IF obj[t] = "gone" THEN "gone"
              ELSE IF t \in ended THEN "ended"
              ELSE IF ppid[t] = "known" /\ tpid[t] = "known" /\ Open(t)
                THEN "running" ELSE "none"],
  kept <- {t \in Thread : Open(t) /\ refs[t] \cap Launcher # {}}
LifeSpec == Life!LifeSpec
===============================================================================

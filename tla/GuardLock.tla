------------------------------- MODULE GuardLock -------------------------------
(***************************************************************************)
(* class rwlock (rwlock.h): the guard all other components lock with.  Its *)
(* constructor asks for the lock, unlock and locked give it back and ask   *)
(* again, the destructor releases what the guard believes it holds.        *)
(*                                                                         *)
(* The lock is a default pthread_rwlock_t of glibc: its writer is refused  *)
(* (EDEADLK) whatever it asks for, a try is refused (EBUSY) when the lock  *)
(* is not free, any other request waits; nothing else fails.               *)
(***************************************************************************)
EXTENDS Naturals

CONSTANTS
  Actor,      \* threads, each with at most one guard on the lock
  Convert,    \* may locked be called on a guard that holds the other lock?
  MaxReads,   \* bound: read locks a thread takes at a time
  None

Mode == {"READ", "WRITE"}

ASSUME GuardAssumption ==
  None \notin Actor /\ Convert \in BOOLEAN /\ MaxReads \in Nat \ {0}

VARIABLES
  writer,   \* the thread that holds the write lock
  reads,    \* reads[a]: how many read locks a holds
  guard,    \* the threads that have a guard
  state,    \* state[a]: the bits set in the state of a's guard
  request   \* request[a]: the call a is in: [mode, try] or None

vars == <<writer, reads, guard, state, request>>

Holds(a) == writer = a \/ reads[a] > 0
Free(m) ==
  writer = None /\ (m = "WRITE" => \A b \in Actor : reads[b] = 0)

\* Slip: the write lock's bit is not tested.
ClaimsRead(a) == "READ" \in state[a]
\* operator bool: does the guard say that it holds a lock?
Claims(a) == state[a] \cap Mode # {}

Take(a, m) ==
  /\ Free(m) /\ reads[a] < MaxReads
  /\ IF m = "WRITE" THEN writer' = a /\ UNCHANGED reads
     ELSE reads' = [reads EXCEPT ![a] = @ + 1] /\ UNCHANGED writer

\* Slip: every lock is given back as a read lock.
GiveRead(a) == reads' = [reads EXCEPT ![a] = @ - 1] /\ UNCHANGED writer
\* pthread_rwlock_unlock
Give(a) ==
  IF writer = a THEN writer' = None /\ UNCHANGED reads
  ELSE reads' = [reads EXCEPT ![a] = @ - 1] /\ UNCHANGED writer

\* Slip: |= in place of =.
AnswerAdds(a, bits) == state' = [state EXCEPT ![a] = @ \cup bits]
Answer(a, bits) == state' = [state EXCEPT ![a] = bits]

-----------------------------------------------------------------------------
Construct(a, m, try) ==
  /\ a \notin guard /\ guard' = guard \cup {a}
  /\ state' = [state EXCEPT ![a] = {}]
  /\ request' = [request EXCEPT ![a] = [mode |-> m, try |-> try]]
  /\ UNCHANGED <<writer, reads>>

\* A guard that holds the lock asked for asks for nothing; one that holds the
\* other lock keeps it while it asks.
Locked(a, m, try) ==
  /\ a \in guard /\ request[a] = None
  /\ m \notin state[a] /\ (Convert \/ ~Claims(a))
  /\ request' = [request EXCEPT ![a] = [mode |-> m, try |-> try]]
  /\ UNCHANGED <<writer, reads, guard, state>>

\* The call the guard has made of pthreads comes back.
Return(a) ==
  /\ request[a] # None /\ request' = [request EXCEPT ![a] = None]
  /\ \/ Take(a, request[a].mode) /\ Answer(a, {request[a].mode})
     \/ /\ ~Free(request[a].mode) /\ (request[a].try \/ writer = a)
        /\ Answer(a, {"FAIL", "UNLOCK"}) /\ UNCHANGED <<writer, reads>>
  /\ UNCHANGED guard

Unlock(a) ==
  /\ a \in guard /\ request[a] = None
  /\ \/ Claims(a) /\ Give(a) /\ Answer(a, {"UNLOCK"})
     \/ /\ ~Claims(a) /\ "UNLOCK" \in state[a]
        /\ Answer(a, {"UNLOCK"}) /\ UNCHANGED <<writer, reads>>
  /\ UNCHANGED <<guard, request>>

Destruct(a) ==
  /\ a \in guard /\ request[a] = None /\ guard' = guard \ {a}
  /\ IF Claims(a) THEN Give(a) ELSE UNCHANGED <<writer, reads>>
  /\ UNCHANGED <<state, request>>

-----------------------------------------------------------------------------
Init ==
  /\ writer = None
  /\ reads = [a \in Actor |-> 0]
  /\ guard = {}
  /\ state = [a \in Actor |-> {}]
  /\ request = [a \in Actor |-> None]

Next ==
  \E a \in Actor :
    \/ \E m \in Mode, try \in BOOLEAN : Construct(a, m, try) \/ Locked(a, m, try)
    \/ Return(a) \/ Unlock(a) \/ Destruct(a)

Spec == Init /\ [][Next]_vars

-----------------------------------------------------------------------------
TypeOK ==
  /\ writer \in Actor \cup {None}
  /\ reads \in [Actor -> 0 .. MaxReads]
  /\ guard \subseteq Actor
  /\ state \in [Actor -> SUBSET (Mode \cup {"FAIL", "UNLOCK"})]
  /\ request \in [Actor -> [mode : Mode, try : BOOLEAN] \cup {None}]

\* A writer is alone, whatever guards are asked to do.
WriterIsAlone ==
  \A a, b \in Actor : writer = a /\ reads[b] > 0 => FALSE

\* A guard that says it holds the lock does hold it, in the mode it says: what
\* was read or written under `if(!lock) return` was read or written locked.
ClaimIsTrue ==
  \A a \in guard :
    /\ "WRITE" \in state[a] => writer = a
    /\ "READ" \in state[a] => reads[a] > 0

\* A guard that says it holds nothing holds nothing.
DenialIsTrue ==
  \A a \in guard : ~Claims(a) => ~Holds(a)

\* A thread that has no guard left holds no lock: the destructor released it
\* (rwlock.h: inline ~rwlock();//释放锁).
DestructorReleases ==
  \A a \in Actor \ guard : ~Holds(a)

-----------------------------------------------------------------------------
\* The inductive part of GuardLockProofs: without conversions a thread holds
\* the lock once, exactly when its guard says so, and not while it asks for it.
GuardIsExact ==
  \A a \in Actor :
    /\ Holds(a) <=> a \in guard /\ Claims(a)
    /\ reads[a] <= 1
    /\ request[a] # None => a \in guard /\ ~Claims(a)
===============================================================================

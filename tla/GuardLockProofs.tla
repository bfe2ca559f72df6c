---------------------------- MODULE GuardLockProofs ----------------------------
(***************************************************************************)
(* Theorems about GuardLock for every set of threads.                      *)
(***************************************************************************)
EXTENDS GuardLock, TLAPS

USE GuardAssumption DEF Mode

Sound == TypeOK /\ WriterIsAlone /\ ClaimIsTrue

LEMMA SoundInit == Init => Sound
BY DEF Init, Sound, TypeOK, WriterIsAlone, ClaimIsTrue

\* Taking the lock and giving back what is held keep its own state sound.
LEMMA TakeSound ==
  ASSUME Sound, NEW a \in Actor, NEW m \in Mode, Take(a, m)
  PROVE  /\ writer' \in Actor \cup {None}
         /\ reads' \in [Actor -> 0 .. MaxReads]
         /\ WriterIsAlone'
         /\ \A b \in Actor \ {a} :
              (writer' = b <=> writer = b) /\ reads'[b] = reads[b]
         /\ m = "WRITE" => writer' = a
         /\ m = "READ" => reads'[a] > 0
<1>1. CASE m = "WRITE"
  BY <1>1 DEF Sound, TypeOK, WriterIsAlone, Take, Free
<1>2. CASE m = "READ"
  BY <1>2 DEF Sound, TypeOK, WriterIsAlone, Take, Free
<1> QED BY <1>1, <1>2

LEMMA GiveSound ==
  ASSUME Sound, NEW a \in guard, Claims(a), Give(a)
  PROVE  /\ writer' \in Actor \cup {None}
         /\ reads' \in [Actor -> 0 .. MaxReads]
         /\ WriterIsAlone'
         /\ \A b \in Actor \ {a} :
              (writer' = b <=> writer = b) /\ reads'[b] = reads[b]
<1>1. a \in Actor /\ (writer = a \/ reads[a] > 0)
  BY DEF Sound, TypeOK, ClaimIsTrue, Claims
<1>2. CASE writer = a
  BY <1>1, <1>2 DEF Sound, TypeOK, WriterIsAlone, Give
<1>3. CASE writer # a
  BY <1>1, <1>3 DEF Sound, TypeOK, WriterIsAlone, Give
<1> QED BY <1>2, <1>3

LEMMA SoundStep == Sound /\ [Next]_vars => Sound'
<1> SUFFICES ASSUME Sound, [Next]_vars PROVE Sound'
  OBVIOUS
<1>1. ASSUME NEW a \in Actor, NEW m \in Mode, NEW try \in BOOLEAN,
             Construct(a, m, try) \/ Locked(a, m, try)
      PROVE  Sound'
  BY <1>1 DEF Sound, TypeOK, WriterIsAlone, ClaimIsTrue, Construct, Locked
<1>2. ASSUME NEW a \in Actor, Return(a) PROVE Sound'
  <2>1. request[a] # None /\ request[a].mode \in Mode
    BY <1>2 DEF Sound, TypeOK, Return
  <2>2. CASE Take(a, request[a].mode) /\ Answer(a, {request[a].mode})
    <3>1. TypeOK'
      BY <1>2, <2>1, <2>2, TakeSound DEF Sound, TypeOK, Return, Answer
    <3>2. ClaimIsTrue'
      BY <1>2, <2>1, <2>2, TakeSound DEF Sound, TypeOK, ClaimIsTrue, Return, Answer
    <3> QED BY <2>1, <2>2, <3>1, <3>2, TakeSound DEF Sound
  <2>3. CASE Answer(a, {"FAIL", "UNLOCK"}) /\ UNCHANGED <<writer, reads>>
    BY <1>2, <2>3
    DEF Sound, TypeOK, WriterIsAlone, ClaimIsTrue, Return, Answer
  <2> QED BY <1>2, <2>2, <2>3 DEF Return
<1>3. ASSUME NEW a \in Actor, Unlock(a) PROVE Sound'
  <2>1. a \in guard /\ Answer(a, {"UNLOCK"}) /\ UNCHANGED <<guard, request>>
    BY <1>3 DEF Unlock
  <2>2. CASE Claims(a) /\ Give(a)
    <3>1. TypeOK'
      BY <2>1, <2>2, GiveSound DEF Sound, TypeOK, Answer
    <3>2. ClaimIsTrue'
      BY <2>1, <2>2, GiveSound DEF Sound, TypeOK, ClaimIsTrue, Answer
    <3> QED BY <2>1, <2>2, <3>1, <3>2, GiveSound DEF Sound
  <2>3. CASE UNCHANGED <<writer, reads>>
    BY <2>1, <2>3 DEF Sound, TypeOK, WriterIsAlone, ClaimIsTrue, Answer
  <2> QED BY <1>3, <2>2, <2>3 DEF Unlock
<1>4. ASSUME NEW a \in Actor, Destruct(a) PROVE Sound'
  <2>1. a \in guard /\ guard' = guard \ {a} /\ UNCHANGED <<state, request>>
    BY <1>4 DEF Destruct
  <2>2. CASE Claims(a) /\ Give(a)
    <3>1. TypeOK'
      BY <2>1, <2>2, GiveSound DEF Sound, TypeOK
    <3>2. ClaimIsTrue'
      BY <2>1, <2>2, GiveSound DEF Sound, TypeOK, ClaimIsTrue
    <3> QED BY <2>1, <2>2, <3>1, <3>2, GiveSound DEF Sound
  <2>3. CASE UNCHANGED <<writer, reads>>
    BY <2>1, <2>3 DEF Sound, TypeOK, WriterIsAlone, ClaimIsTrue
  <2> QED BY <1>4, <2>2, <2>3 DEF Destruct
<1>5. CASE UNCHANGED vars
  BY <1>5 DEF Sound, TypeOK, WriterIsAlone, ClaimIsTrue, vars
<1> QED BY <1>1, <1>2, <1>3, <1>4, <1>5 DEF Next

\* The state of lock and guards keeps its types.
THEOREM TypeCorrect == Spec => []TypeOK
<1>1. Sound => TypeOK
  BY DEF Sound
<1> QED BY SoundInit, SoundStep, <1>1, PTL DEF Spec

\* A guard never claims a lock it does not hold, converted or not.
THEOREM ClaimsAreTrue == Spec => []ClaimIsTrue
<1>1. Sound => ClaimIsTrue
  BY DEF Sound
<1> QED BY SoundInit, SoundStep, <1>1, PTL DEF Spec

-----------------------------------------------------------------------------
(***************************************************************************)
(* What guards release.  This needs Convert = FALSE: a guard that asks for *)
(* the lock it does not hold while it holds the other loses track of it.   *)
(***************************************************************************)
LEMMA ExactInit == Init => GuardIsExact
<1> SUFFICES ASSUME Init, NEW a \in Actor
             PROVE  ~Holds(a) /\ a \notin guard /\ reads[a] <= 1 /\ request[a] = None
  BY DEF GuardIsExact
<1> QED BY DEF Init, Holds

LEMMA ExactStep ==
  ASSUME Convert = FALSE
  PROVE  Sound /\ GuardIsExact /\ [Next]_vars => GuardIsExact'
<1> SUFFICES ASSUME Sound, GuardIsExact, [Next]_vars PROVE GuardIsExact'
  OBVIOUS
<1>1. ASSUME NEW a \in Actor, NEW m \in Mode, NEW try \in BOOLEAN,
             Construct(a, m, try) \/ Locked(a, m, try)
      PROVE  GuardIsExact'
  BY <1>1 DEF Sound, TypeOK, GuardIsExact, Holds, Claims, Construct, Locked
<1>2. ASSUME NEW a \in Actor, Return(a) PROVE GuardIsExact'
  <2>1. /\ request[a].mode \in Mode /\ a \in guard /\ ~Holds(a)
        /\ reads[a] = 0 /\ writer # a
    BY <1>2 DEF Sound, TypeOK, GuardIsExact, Holds, Return
  <2>2. CASE Take(a, request[a].mode) /\ Answer(a, {request[a].mode})
    <3>1. CASE request[a].mode = "WRITE"
      BY <1>2, <2>1, <2>2, <3>1
      DEF Sound, TypeOK, GuardIsExact, Holds, Claims, Return, Answer, Take, Free
    <3>2. CASE request[a].mode = "READ"
      BY <1>2, <2>1, <2>2, <3>2
      DEF Sound, TypeOK, GuardIsExact, Holds, Claims, Return, Answer, Take, Free
    <3> QED BY <2>1, <3>1, <3>2
  <2>3. CASE Answer(a, {"FAIL", "UNLOCK"}) /\ UNCHANGED <<writer, reads>>
    BY <1>2, <2>1, <2>3
    DEF Sound, TypeOK, GuardIsExact, Holds, Claims, Return, Answer
  <2> QED BY <1>2, <2>2, <2>3 DEF Return
<1>3. ASSUME NEW a \in Actor, a \in guard, request[a] = None, Claims(a), Give(a),
             UNCHANGED request, Answer(a, {"UNLOCK"}) \/ UNCHANGED state,
             ~(a \in guard' /\ Claims(a)'), guard' = guard \/ guard' = guard \ {a}
      PROVE  GuardIsExact'
  <2>1. writer = a \/ (reads[a] = 1 /\ writer # a)
    BY <1>3 DEF Sound, TypeOK, GuardIsExact, Holds, WriterIsAlone
  <2>2. CASE writer = a
    <3>1. reads[a] = 0
      BY <2>2 DEF Sound, TypeOK, WriterIsAlone
    <3> QED BY <1>3, <2>2, <3>1
        DEF Sound, TypeOK, GuardIsExact, Holds, Claims, Give, Answer
  <2>3. CASE reads[a] = 1 /\ writer # a
    BY <1>3, <2>3 DEF Sound, TypeOK, GuardIsExact, Holds, Claims, Give, Answer
  <2> QED BY <2>1, <2>2, <2>3
<1>4. ASSUME NEW a \in Actor, Unlock(a) PROVE GuardIsExact'
  <2>1. CASE Claims(a) /\ Give(a)
    <3>1. ~Claims(a)'
      BY <1>4 DEF Sound, TypeOK, Unlock, Answer, Claims
    <3> QED BY <1>3, <1>4, <2>1, <3>1 DEF Unlock
  <2>2. CASE ~Claims(a) /\ UNCHANGED <<writer, reads>>
    BY <1>4, <2>2 DEF Sound, TypeOK, GuardIsExact, Holds, Claims, Unlock, Answer
  <2> QED BY <1>4, <2>1, <2>2 DEF Unlock
<1>5. ASSUME NEW a \in Actor, Destruct(a) PROVE GuardIsExact'
  <2>1. CASE Claims(a) /\ Give(a)
    BY <1>3, <1>5, <2>1 DEF Destruct
  <2>2. CASE ~Claims(a) /\ UNCHANGED <<writer, reads>>
    BY <1>5, <2>2 DEF Sound, TypeOK, GuardIsExact, Holds, Claims, Destruct
  <2> QED BY <1>5, <2>1, <2>2 DEF Destruct
<1>6. CASE UNCHANGED vars
  BY <1>6 DEF GuardIsExact, Holds, Claims, vars
<1> QED BY <1>1, <1>2, <1>4, <1>5, <1>6 DEF Next

\* A thread without a guard holds no lock, if locked is only called on guards
\* that gave theirs back.
THEOREM DestructorsRelease ==
  ASSUME Convert = FALSE
  PROVE  Spec => []DestructorReleases
<1>1. GuardIsExact => DestructorReleases
  BY DEF GuardIsExact, DestructorReleases
<1> QED BY SoundInit, SoundStep, ExactInit, ExactStep, <1>1, PTL DEF Spec

\* With the same restriction, a guard that says it holds nothing holds nothing.
THEOREM DenialsAreTrue ==
  ASSUME Convert = FALSE
  PROVE  Spec => []DenialIsTrue
<1>1. Sound /\ GuardIsExact => DenialIsTrue
  BY DEF Sound, TypeOK, GuardIsExact, DenialIsTrue
<1> QED BY SoundInit, SoundStep, ExactInit, ExactStep, <1>1, PTL DEF Spec
===============================================================================

------------------------ MODULE ThreadPoolPlacesProofs ------------------------
(***************************************************************************)
(* Theorems about the places of the pool: how the surplus of a kind and    *)
(* the number of its registered threads move together.                     *)
(***************************************************************************)
EXTENDS ThreadPoolLifeProofs, FiniteSetTheorems

\* Who is between the maps and the counter of a kind: about to take a place, or
\* to give one back.
At(k, l) == \E a \in Actor : op[a].at = l /\ op[a].kind = k

\* What the surplus of a kind ought to be.
Balance(k) ==
  Num[k] + (IF At(k, "count") THEN 1 ELSE 0) - (IF At(k, "rm_count") THEN 1 ELSE 0)
    - Cardinality(Registered(k))

FiniteInv == \A k \in Kind : IsFiniteSet(Registered(k))

Counting == Listing /\ FiniteInv

-----------------------------------------------------------------------------
(***************************************************************************)
(* What a step does to the two sides of the balance.                       *)
(***************************************************************************)
LEMMA EnterCounts ==
  ASSUME TypeOK, NEW k \in Kind, NEW t \in Thread, tid[t] \in Tid,
         IsFiniteSet(Registered(k)), ~Listed(k, t), Enter(k, t)
  PROVE  /\ IsFiniteSet(Registered(k)')
         /\ Cardinality(Registered(k)') = Cardinality(Registered(k)) + 1
         /\ \A j \in Kind \ {k} : Registered(j)' = Registered(j)
<1>1. /\ thread_map' = [thread_map EXCEPT ![k][tid[t]] = t]
      /\ thread_map \in [Kind -> [Tid -> Thread \cup {None}]]
  BY DEF Enter, TypeOK
<1>2. Registered(k)' = Registered(k) \cup {tid[t]} /\ tid[t] \notin Registered(k)
  BY <1>1, ThreadsAct DEF Registered, Listed
<1>3. \A j \in Kind \ {k} : Registered(j)' = Registered(j)
  BY <1>1 DEF Registered
<1> QED BY <1>2, <1>3, FS_AddElement

LEMMA UnlistCounts ==
  ASSUME TypeOK, NEW k \in Kind, NEW t \in Thread, tid[t] \in Tid,
         IsFiniteSet(Registered(k)), Unlist(k, t)
  PROVE  /\ IsFiniteSet(Registered(k)')
         /\ Cardinality(Registered(k)') =
              Cardinality(Registered(k)) - (IF Listed(k, t) THEN 1 ELSE 0)
         /\ \A j \in Kind \ {k} : Registered(j)' = Registered(j)
<1>1. /\ thread_map' = [thread_map EXCEPT ![k][tid[t]] = None]
      /\ thread_map \in [Kind -> [Tid -> Thread \cup {None}]]
  BY DEF Unlist, TypeOK
<1>2. Registered(k)' = Registered(k) \ {tid[t]}
  BY <1>1 DEF Registered
<1>3. Listed(k, t) <=> tid[t] \in Registered(k)
  BY DEF Registered, Listed
<1>4. \A j \in Kind \ {k} : Registered(j)' = Registered(j)
  BY <1>1 DEF Registered
<1>5. /\ IsFiniteSet(Registered(k) \ {tid[t]})
      /\ Cardinality(Registered(k) \ {tid[t]}) =
           IF tid[t] \in Registered(k) THEN Cardinality(Registered(k)) - 1
                                       ELSE Cardinality(Registered(k))
  BY FS_RemoveElement
<1>6. Cardinality(Registered(k)) \in Int
  BY FS_CardinalityType
<1>7. Cardinality(Registered(k)') =
        Cardinality(Registered(k)) - (IF Listed(k, t) THEN 1 ELSE 0)
  <2>1. Cardinality(Registered(k)') =
           IF Listed(k, t) THEN Cardinality(Registered(k)) - 1
                           ELSE Cardinality(Registered(k))
    BY <1>2, <1>3, <1>5
  <2> QED BY <1>6, <2>1
<1> QED BY <1>2, <1>4, <1>5, <1>7

\* A writer is alone with its kind, so that it alone moves the balance of it.
LEMMA AtStep ==
  ASSUME Base, NEW a \in Actor, op[a].at \in Writing, OthersAsBefore(a),
         op'[a].at \in Writing => op'[a].kind = op[a].kind,
         NEW k \in Kind, NEW l \in {"count", "rm_count"}
  PROVE  /\ k = op[a].kind => /\ At(k, l) <=> op[a].at = l
                              /\ At(k, l)' <=> op'[a].at = l
         /\ k # op[a].kind => (At(k, l)' <=> At(k, l))
<1>1. l \in Writing
  BY DEF Writing
<1>2. ASSUME NEW b \in Actor, b # a
      PROVE  op'[b] = op[b] /\ (op[b].at \in Writing => op[b].kind # op[a].kind)
  BY <1>2, WritersApart DEF OthersAsBefore
<1>3. CASE k = op[a].kind
  BY <1>1, <1>2, <1>3 DEF At
<1>4. CASE k # op[a].kind
  BY <1>1, <1>2, <1>4 DEF At
<1> QED BY <1>3, <1>4

\* The surplus and its balance keep their distance, but for the wraparound and
\* for the places that are lost: by a give back that fails, or by an atypism.
Kept(k) == Balance(k)' = Balance(k) /\ surplus'[k] = surplus[k]
Taken(k) ==
  /\ Balance(k)' = Balance(k) - 1 /\ TakePlace(k)
  /\ \E c \in Actor : op[c].at = "count" /\ op[c].kind = k /\ OthersAsBefore(c)
                      /\ op'[c].at = "idle"
Given(k) ==
  /\ Balance(k)' = Balance(k) + 1 /\ GivePlace(k)
  /\ At(k, "rm_count")
Lost(k) ==
  /\ Balance(k)' = Balance(k) + 1 /\ surplus'[k] = surplus[k]
  /\ \/ "rm_count" \in LockFail
     \/ \E a \in Actor : /\ op[a].at = "rm_erase" /\ op[a].kind = k
                         /\ Listed(k, op[a].th) /\ ~Indexed(k, op[a].th)

Moved(k) ==
  IsFiniteSet(Registered(k)') /\ (Kept(k) \/ Taken(k) \/ Given(k) \/ Lost(k))

LEMMA BalanceType ==
  ASSUME FiniteInv, NEW k \in Kind
  PROVE  Balance(k) \in Int /\ Num[k] \in 0 .. UMax /\ Cardinality(Registered(k)) \in Nat
BY PoolAssumption, FS_CardinalityType DEF FiniteInv, Balance

\* A kind nobody works on.
LEMMA SameBalance ==
  ASSUME FiniteInv, NEW k \in Kind, Registered(k)' = Registered(k),
         At(k, "count")' <=> At(k, "count"), At(k, "rm_count")' <=> At(k, "rm_count"),
         surplus'[k] = surplus[k]
  PROVE  Moved(k)
BY DEF Moved, Kept, Balance, FiniteInv

LEMMA InsertMoves ==
  ASSUME Counting, NEW c \in Actor, SetInsert(c), NEW k \in Kind PROVE Moved(k)
<1>1. PICK j, t : j = op[c].kind /\ t = op[c].th
  OBVIOUS
<1>2. Base /\ TypeOK /\ FiniteInv
  BY DEF Counting, Listing, Base
<1>3. /\ WorksOn(c, j, t) /\ op[c].at = "insert" /\ OthersAsBefore(c)
      /\ UNCHANGED surplus
      /\ \/ /\ ~Present(j, t) /\ Enter(j, t)
            /\ op'[c].at = "count" /\ op'[c].kind = j
         \/ op'[c].at = "idle" /\ UNCHANGED <<thread_map, pthread_to_pid>>
  BY <1>1, <1>2, InsertStep
<1>4. /\ op[c].at \in Writing
      /\ op'[c].at \in Writing => op'[c].kind = op[c].kind
  BY <1>1, <1>3 DEF Writing
<1>5. \A l \in {"count", "rm_count"} :
        /\ k = j => (At(k, l) <=> op[c].at = l) /\ (At(k, l)' <=> op'[c].at = l)
        /\ k # j => (At(k, l)' <=> At(k, l))
  BY <1>1, <1>2, <1>3, <1>4, AtStep
<1>6. CASE ~Present(j, t) /\ Enter(j, t) /\ op'[c].at = "count"
  <2>1. /\ IsFiniteSet(Registered(j)')
        /\ Cardinality(Registered(j)') = Cardinality(Registered(j)) + 1
        /\ \A i \in Kind \ {j} : Registered(i)' = Registered(i)
    BY <1>2, <1>3, <1>6, EnterCounts DEF WorksOn, Present, FiniteInv
  <2>2. CASE k = j
    BY <1>2, <1>3, <1>5, <1>6, <2>1, <2>2, BalanceType DEF Moved, Kept, Balance
  <2>3. CASE k # j
    BY <1>2, <1>3, <1>5, <2>1, <2>3, SameBalance
  <2> QED BY <2>2, <2>3
<1>7. CASE op'[c].at = "idle" /\ UNCHANGED <<thread_map, pthread_to_pid>>
  BY <1>2, <1>3, <1>5, <1>7, SameBalance DEF Registered
<1> QED BY <1>3, <1>6, <1>7

LEMMA CountMoves ==
  ASSUME Counting, NEW c \in Actor, SetCount(c), NEW k \in Kind PROVE Moved(k)
<1>1. PICK j, t : j = op[c].kind /\ t = op[c].th
  OBVIOUS
<1>2. Base /\ TypeOK /\ FiniteInv
  BY DEF Counting, Listing, Base
<1>3. /\ WorksOn(c, j, t) /\ op[c].at = "count" /\ OthersAsBefore(c)
      /\ op'[c].at = "idle"
      /\ \/ TakePlace(j) /\ UNCHANGED <<thread_map, pthread_to_pid>>
         \/ Unlist(j, t) /\ UNCHANGED surplus
  BY <1>1, <1>2, CountStep
<1>4. op[c].at \in Writing /\ op'[c].at \notin Writing
  BY <1>3 DEF Writing
<1>5. \A l \in {"count", "rm_count"} :
        /\ k = j => (At(k, l) <=> op[c].at = l) /\ (At(k, l)' <=> op'[c].at = l)
        /\ k # j => (At(k, l)' <=> At(k, l))
  BY <1>1, <1>2, <1>3, <1>4, AtStep
<1>6. CASE TakePlace(j) /\ UNCHANGED <<thread_map, pthread_to_pid>>
  <2>1. Registered(k)' = Registered(k)
    BY <1>6 DEF Registered
  <2>2. CASE k = j
    <3>1. Balance(k)' = Balance(k) - 1
      BY <1>2, <1>3, <1>5, <2>1, <2>2, BalanceType DEF Balance
    <3> QED BY <1>1, <1>2, <1>3, <1>6, <2>1, <2>2, <3>1 DEF Moved, Taken, FiniteInv
  <2>3. CASE k # j
    <3>1. surplus'[k] = surplus[k]
      BY <1>2, <1>6, <2>3 DEF TakePlace, TypeOK
    <3> QED BY <1>2, <1>5, <2>1, <2>3, <3>1, SameBalance
  <2> QED BY <2>2, <2>3
<1>7. CASE Unlist(j, t) /\ UNCHANGED surplus
  <2>1. Listed(j, t)
    BY <1>1, <1>3, ThreadsAct DEF Counting, Listing, CountedInv, Listed, WorksOn
  <2>2. /\ IsFiniteSet(Registered(j)')
        /\ Cardinality(Registered(j)') = Cardinality(Registered(j)) - 1
        /\ \A i \in Kind \ {j} : Registered(i)' = Registered(i)
    BY <1>2, <1>3, <1>7, <2>1, UnlistCounts DEF WorksOn, FiniteInv
  <2>3. CASE k = j
    BY <1>2, <1>3, <1>5, <1>7, <2>2, <2>3, BalanceType DEF Moved, Kept, Balance
  <2>4. CASE k # j
    BY <1>2, <1>5, <1>7, <2>2, <2>4, SameBalance
  <2> QED BY <2>3, <2>4
<1> QED BY <1>3, <1>6, <1>7

LEMMA EraseMoves ==
  ASSUME Counting, NEW a \in Actor, RemoveErase(a), NEW k \in Kind PROVE Moved(k)
<1>1. PICK j, t : j = op[a].kind /\ t = op[a].th
  OBVIOUS
<1>2. Base /\ TypeOK /\ FiniteInv
  BY DEF Counting, Listing, Base
<1>3. /\ WorksOn(a, j, t) /\ op[a].at = "rm_erase" /\ OthersAsBefore(a)
      /\ UNCHANGED surplus /\ Unlist(j, t)
      /\ \/ ~Listed(j, t) /\ op'[a].at \in {"rm_lock", "idle"}
         \/ Listed(j, t) /\ op'[a].at = "rm_count" /\ op'[a].kind = j
         \/ Listed(j, t) /\ ~Indexed(j, t) /\ op'[a].at = "idle"
  BY <1>1, <1>2, EraseStep
<1>4. /\ op[a].at \in Writing
      /\ op'[a].at \in Writing => op'[a].kind = op[a].kind
  BY <1>1, <1>3 DEF Writing
<1>5. \A l \in {"count", "rm_count"} :
        /\ k = j => (At(k, l) <=> op[a].at = l) /\ (At(k, l)' <=> op'[a].at = l)
        /\ k # j => (At(k, l)' <=> At(k, l))
  BY <1>1, <1>2, <1>3, <1>4, AtStep
<1>6. /\ IsFiniteSet(Registered(j)')
      /\ Cardinality(Registered(j)') =
           Cardinality(Registered(j)) - (IF Listed(j, t) THEN 1 ELSE 0)
      /\ \A i \in Kind \ {j} : Registered(i)' = Registered(i)
  BY <1>2, <1>3, UnlistCounts DEF WorksOn, FiniteInv
<1>7. CASE k # j
  BY <1>2, <1>3, <1>5, <1>6, <1>7, SameBalance
<1>8. CASE k = j
  <2>1. CASE ~Listed(j, t) /\ op'[a].at \in {"rm_lock", "idle"}
    BY <1>2, <1>3, <1>5, <1>6, <1>8, <2>1, BalanceType DEF Moved, Kept, Balance
  <2>2. CASE Listed(j, t) /\ op'[a].at = "rm_count"
    BY <1>2, <1>3, <1>5, <1>6, <1>8, <2>2, BalanceType DEF Moved, Kept, Balance
  <2>3. CASE Listed(j, t) /\ ~Indexed(j, t) /\ op'[a].at = "idle"
    <3>1. Balance(k)' = Balance(k) + 1
      BY <1>2, <1>3, <1>5, <1>6, <1>8, <2>3, BalanceType DEF Balance
    <3> QED BY <1>1, <1>3, <1>6, <1>8, <2>3, <3>1 DEF Moved, Lost
  <2> QED BY <1>3, <2>1, <2>2, <2>3
<1> QED BY <1>7, <1>8

LEMMA GiveMoves ==
  ASSUME Counting, NEW a \in Actor, RemoveCount(a), NEW k \in Kind PROVE Moved(k)
<1>1. PICK j : j = op[a].kind
  OBVIOUS
<1>2. Base /\ TypeOK /\ FiniteInv
  BY DEF Counting, Listing, Base
<1>3. /\ j \in Kind /\ op[a].at = "rm_count" /\ OthersAsBefore(a) /\ op'[a].at = "idle"
      /\ UNCHANGED <<tid, accepted, thread_map, pthread_to_pid>>
      /\ GivePlace(j) \/ ("rm_count" \in LockFail /\ UNCHANGED surplus)
  BY <1>1, <1>2, GiveStep DEF WorksOn
<1>4. op[a].at \in Writing /\ op'[a].at \notin Writing
  BY <1>3 DEF Writing
<1>5. \A l \in {"count", "rm_count"} :
        /\ k = j => (At(k, l) <=> op[a].at = l) /\ (At(k, l)' <=> op'[a].at = l)
        /\ k # j => (At(k, l)' <=> At(k, l))
  BY <1>1, <1>2, <1>3, <1>4, AtStep
<1>6. Registered(k)' = Registered(k)
  BY <1>3 DEF Registered
<1>7. CASE k # j
  <2>1. surplus'[k] = surplus[k]
    BY <1>2, <1>3, <1>7 DEF GivePlace, TypeOK
  <2> QED BY <1>2, <1>5, <1>6, <1>7, <2>1, SameBalance
<1>8. CASE k = j
  <2>1. Balance(k)' = Balance(k) + 1
    BY <1>2, <1>3, <1>5, <1>6, <1>8, BalanceType DEF Balance
  <2>2. At(k, "rm_count") /\ IsFiniteSet(Registered(k)')
    BY <1>2, <1>3, <1>5, <1>6, <1>8 DEF FiniteInv
  <2> QED BY <1>3, <1>8, <2>1, <2>2 DEF Moved, Given, Lost
<1> QED BY <1>7, <1>8

LEMMA StepMoves ==
  ASSUME Counting, [Next]_vars, NEW k \in Kind PROVE Moved(k)
<1>1. CASE Quiet
  <2>1. Registered(k)' = Registered(k) /\ surplus' = surplus /\ FiniteInv
    BY <1>1 DEF Quiet, Registered, Counting
  <2>2. ASSUME NEW l \in {"count", "rm_count"} PROVE At(k, l)' <=> At(k, l)
    BY <1>1, <2>2 DEF Quiet, At
  <2> QED BY <2>1, <2>2, SameBalance
<1>2. Base
  BY DEF Counting, Listing
<1> QED BY <1>1, <1>2, NextIsQuiet, InsertMoves, CountMoves, EraseMoves, GiveMoves

LEMMA CountingInit == Init => Counting
<1>1. ASSUME Init, NEW k \in Kind PROVE IsFiniteSet(Registered(k))
  <2>1. Registered(k) = {}
    BY <1>1 DEF Init, Registered
  <2> QED BY <2>1, FS_EmptySet
<1> QED BY <1>1, ListingInit DEF Counting, FiniteInv

LEMMA CountingStep == Counting /\ [Next]_vars => Counting'
BY ListingStep, StepMoves DEF Counting, FiniteInv, Moved

LEMMA InitialBalance ==
  ASSUME Init, NEW k \in Kind PROVE Balance(k) = surplus[k] /\ surplus[k] = Num[k]
<1>1. Registered(k) = {}
  BY ThreadsAct DEF Init, Registered
<1>2. ~At(k, "count") /\ ~At(k, "rm_count")
  BY DEF Init, At, Idle
<1>3. Num[k] \in Int
  BY PoolAssumption
<1> QED BY <1>1, <1>2, <1>3, FS_EmptySet DEF Balance, Init

\* The sections of a kind, as the properties speak of them.
LEMMA Sections ==
  ASSUME Base, NEW k \in Kind
  PROVE  /\ Inserting(k) <=> At(k, "count")
         /\ Erasing(k) <=> At(k, "rm_count")
         /\ ~(At(k, "count") /\ At(k, "rm_count"))
         /\ lock[k] = None => ~At(k, "count") /\ ~At(k, "rm_count")
<1>1. ASSUME NEW a \in Actor, op[a].at \in {"count", "rm_count"}, op[a].kind = k
      PROVE  lock[k] = a
  BY <1>1, WritersWork DEF WorksOn, Writing
<1>2. lock[k] # None => lock[k] \in Actor /\ op[lock[k]].kind = k
  BY DEF Base, TypeOK, LockInv
<1> QED BY <1>1, <1>2, ThreadsAct DEF At, Inserting, Erasing

-----------------------------------------------------------------------------
(***************************************************************************)
(* One setter, as in init::init: the place it has seen is still there when *)
(* it takes it, whatever fails and however ids are reused.  That no kind   *)
(* has given more places than it has keeps the counter from wrapping.      *)
(***************************************************************************)
OneSetter == \A c, d \in Setter : c = d

SeesPlaceInv ==
  \A a \in Actor :
    /\ op[a].at \in Setting => a \in Setter
    /\ op[a].at \in Setting \ {"check"} => surplus[op[a].kind] > 0

UpperInv == \A k \in Kind : surplus[k] <= Balance(k)

Provided == Counting /\ SeesPlaceInv /\ UpperInv

\* Places do not run out before the counter does.
LEMMA GivenStaysBelow ==
  ASSUME TypeOK, FiniteInv, NEW k \in Kind, surplus[k] <= Balance(k), Given(k),
         ~At(k, "count")
  PROVE  surplus'[k] = surplus[k] + 1 /\ surplus'[k] <= Num[k]
<1>1. /\ surplus[k] \in Nat /\ Num[k] \in 0 .. UMax /\ UMax \in Nat
      /\ Cardinality(Registered(k)) \in Nat
  BY PoolAssumption, BalanceType DEF TypeOK
<1>2. surplus[k] <= Num[k] - 1
  BY <1>1 DEF Given, Balance
<1>3. surplus'[k] = IF surplus[k] = UMax THEN 0 ELSE surplus[k] + 1
  BY DEF Given, GivePlace, TypeOK
<1> QED BY <1>1, <1>2, <1>3

LEMMA UpperStep ==
  ASSUME Provided, OneSetter, [Next]_vars PROVE UpperInv'
<1> SUFFICES ASSUME NEW k \in Kind PROVE surplus'[k] <= Balance(k)'
  BY DEF UpperInv
<1>1. /\ Base /\ TypeOK /\ FiniteInv /\ surplus[k] <= Balance(k)
      /\ surplus[k] \in 0 .. UMax /\ UMax \in Nat
  BY PoolAssumption DEF Provided, UpperInv, Counting, Listing, Base, TypeOK
<1>2. Balance(k) \in Int
  BY <1>1, BalanceType
<1>3. CASE Kept(k)
  BY <1>1, <1>3 DEF Kept
<1>4. CASE Taken(k)
  <2>1. PICK c \in Actor : op[c].at = "count" /\ op[c].kind = k
    BY <1>4 DEF Taken
  <2>2. surplus[k] > 0
    BY <2>1 DEF Provided, SeesPlaceInv, Setting
  <2>3. surplus'[k] = surplus[k] - 1
    BY <1>1, <1>4, <2>2 DEF Taken, TakePlace, TypeOK
  <2> QED BY <1>1, <1>2, <1>4, <2>3 DEF Taken
<1>5. CASE Given(k)
  <2>1. ~At(k, "count")
    BY <1>1, <1>5, Sections DEF Given
  <2>2. surplus'[k] = surplus[k] + 1
    BY <1>1, <1>5, <2>1, GivenStaysBelow
  <2> QED BY <1>1, <1>2, <1>5, <2>2 DEF Given
<1>6. CASE Lost(k)
  BY <1>1, <1>2, <1>6 DEF Lost
<1> QED BY <1>3, <1>4, <1>5, <1>6, StepMoves DEF Provided, Moved

\* A surplus shrinks by the hand of the setter only.
LEMMA SurplusHolds ==
  ASSUME Provided, OneSetter, [Next]_vars, NEW a \in Setter, op'[a].at \in Setting,
         NEW k \in Kind, surplus[k] > 0
  PROVE  surplus'[k] > 0
<1>1. /\ Base /\ TypeOK /\ FiniteInv /\ surplus[k] <= Balance(k)
      /\ surplus[k] \in 0 .. UMax
  BY DEF Provided, UpperInv, Counting, Listing, Base, TypeOK
<1>2. ~Taken(k)
  <2> SUFFICES ASSUME NEW c \in Actor, op[c].at = "count", op'[c].at = "idle"
               PROVE  FALSE
    BY DEF Taken
  <2>1. c \in Setter
    BY DEF Provided, SeesPlaceInv, Setting
  <2> QED BY <2>1 DEF OneSetter, Setting
<1>3. CASE Given(k)
  BY <1>1, <1>3, GivenStaysBelow, Sections DEF Given
<1> QED BY <1>2, <1>3, StepMoves DEF Provided, Moved, Kept, Lost

LEMMA SeesStart ==
  ASSUME Provided, NEW c \in Setter, NEW t \in Thread, SetThread(c, t)
  PROVE  SeesPlaceInv'
<1>1. /\ op \in [Actor -> Operation] /\ c \in Actor /\ "check" \in Label
      /\ Type[t] \in SUBSET Kind
  BY ThreadsAct, PoolAssumption
  DEF Provided, Counting, Listing, Base, TypeOK, Label
<1>2. OthersAsBefore(c) /\ op'[c].at \in {"idle", "check"} /\ UNCHANGED surplus
  BY <1>1, ReturnStep, BeginStep DEF SetThread, poolVars
<1> QED BY <1>2 DEF Provided, SeesPlaceInv, OthersAsBefore, Setting

LEMMA SeesCheck ==
  ASSUME Provided, NEW c \in Actor, SetCheck(c) PROVE SeesPlaceInv'
<1>1. op \in [Actor -> Operation] /\ {"check", "lock"} \subseteq Label
  BY DEF Provided, Counting, Listing, Base, TypeOK, Label
<1>2. op[c].at = "check" /\ UNCHANGED surplus /\ c \in Setter
  BY DEF SetCheck, poolVars, Provided, SeesPlaceInv, Setting
<1>3. CASE Return(c)
  BY <1>1, <1>2, <1>3, ReturnStep DEF Provided, SeesPlaceInv, OthersAsBefore, Setting
<1>4. CASE HasPlace(op[c].kind) /\ Goto(c, "lock")
  <2>1. OthersAsBefore(c) /\ op'[c].at = "lock" /\ op'[c].kind = op[c].kind
    BY <1>1, <1>4, GotoStep
  <2> QED BY <1>2, <1>4, <2>1 DEF HasPlace, Provided, SeesPlaceInv, OthersAsBefore
<1>5. CASE TryCalc(c, "check")
  <2>1. OthersAsBefore(c) /\ op'[c].at = "check"
    BY <1>1, <1>5, TryCalcStep
  <2> QED BY <1>2, <2>1 DEF Provided, SeesPlaceInv, OthersAsBefore
<1> QED BY <1>3, <1>4, <1>5 DEF SetCheck

\* A setter on its way takes its place along.
Onward(a) ==
  op'[a].at \in Setting =>
    /\ op[a].at \in Setting /\ op'[a].kind = op[a].kind
    /\ op'[a].at # "check" => op[a].at # "check"

LEMMA SeesOnward ==
  ASSUME Provided, OneSetter, [Next]_vars, \A a \in Actor : Onward(a)
  PROVE  SeesPlaceInv'
<1> SUFFICES ASSUME NEW a \in Actor, op'[a].at \in Setting
             PROVE  a \in Setter /\ (op'[a].at # "check" => surplus'[op'[a].kind] > 0)
  BY DEF SeesPlaceInv
<1>1. /\ op[a].at \in Setting /\ op'[a].kind = op[a].kind
      /\ op'[a].at # "check" => op[a].at # "check"
  BY DEF Onward
<1>2. op[a].kind \in Kind
  BY DEF Provided, Counting, Listing, Base, TypeOK, Operation
<1>3. a \in Setter /\ (op[a].at # "check" => surplus[op[a].kind] > 0)
  BY <1>1 DEF Provided, SeesPlaceInv
<1> QED BY <1>1, <1>2, <1>3, SurplusHolds

LEMMA NextIsOnward ==
  ASSUME Base, [Next]_vars
  PROVE  \/ \A a \in Actor : Onward(a)
         \/ \E c \in Actor : SetCheck(c)
         \/ \E c \in Setter, t \in Thread : SetThread(c, t)
<1>1. /\ op \in [Actor -> Operation]
      /\ {"insert", "rm_lock", "rm_erase"} \subseteq Label
      /\ \A t \in Thread : Type[t] \in SUBSET Kind
  BY PoolAssumption DEF Base, TypeOK, Label
<1>2. ASSUME UNCHANGED op PROVE \A a \in Actor : Onward(a)
  BY <1>2 DEF Onward
<1>3. ASSUME NEW a \in Actor, OthersAsBefore(a),
             op'[a].at \notin Setting \/ Onward(a)
      PROVE  \A b \in Actor : Onward(b)
  BY <1>3 DEF Onward, OthersAsBefore
<1>4. ASSUME NEW c \in Setter, NEW t \in Thread, Launch(c, t) \/ SetThreadPool(c, t)
      PROVE  UNCHANGED op
  BY <1>4 DEF Launch, SetThreadPool, callVars
<1>5. ASSUME NEW a \in Actor, NEW t \in Thread, DropRef(a, t)
      PROVE  UNCHANGED op
  BY <1>5 DEF DropRef, callVars
<1>6. ASSUME NEW a \in Actor, NEW t \in Thread, Destroy(a, t)
      PROVE  \A b \in Actor : Onward(b)
  <2>1. UNCHANGED op \/ Return(a) \/ Begin(a, "rm_lock", t, Type[t], None)
    BY <1>6 DEF Destroy
  <2>2. CASE Return(a)
    BY <1>1, <1>3, <2>2, ReturnStep DEF Setting
  <2>3. CASE Begin(a, "rm_lock", t, Type[t], None)
    <3>1. OthersAsBefore(a) /\ op'[a].at = "rm_lock"
      BY <1>1, <2>3, BeginStep
    <3> QED BY <1>3, <3>1 DEF Setting
  <2> QED BY <1>2, <2>1, <2>2, <2>3
<1>7. ASSUME NEW c \in Actor,
             \/ Find(c) \/ Fetch(c)
             \/ \E l \in {"find", "fetch"}, p \in Thread \cup {None},
                   x \in Tid \cup {None}, S \in SUBSET Kind : GetThread(c, l, p, x, S)
      PROVE  \A b \in Actor : Onward(b)
  BY <1>3, <1>7, LookupStep DEF Setting
<1>8. ASSUME NEW c \in Client, NEW S \in SUBSET Kind,
             \/ \E p \in Thread : GetByPthread(c, p, S)
             \/ \E x \in Tid : GetByTid(c, x, S)
      PROVE  \A b \in Actor : Onward(b)
  BY <1>7, <1>8, ThreadsAct DEF GetByPthread, GetByTid
<1>9. ASSUME NEW c \in Client, Promote(c) PROVE UNCHANGED op
  BY <1>9 DEF Promote
<1>10. ASSUME NEW t \in Thread, KernelExit(t) PROVE UNCHANGED op
  BY <1>10 DEF KernelExit, callVars
<1>11. ASSUME NEW a \in Actor, SetLock(a) PROVE \A b \in Actor : Onward(b)
  <2>1. OthersAsBefore(a) /\ op'[a].at = "insert" /\ op'[a].kind = op[a].kind
    BY <1>1, <1>11, GotoStep DEF SetLock
  <2> QED BY <1>3, <1>11, <2>1 DEF SetLock, Onward, Setting
<1>12. ASSUME NEW a \in Actor, RemoveLock(a) PROVE \A b \in Actor : Onward(b)
  <2>1. Goto(a, "rm_erase") \/ Return(a)
    BY <1>12 DEF RemoveLock, EndRemove
  <2>2. OthersAsBefore(a) /\ op'[a].at \in {"idle", "rm_erase"}
    BY <1>1, <2>1, GotoStep, ReturnStep
  <2> QED BY <1>3, <2>2 DEF Setting
<1>13. ASSUME NEW a \in Actor, SetInsert(a) PROVE \A b \in Actor : Onward(b)
  <2>1. /\ OthersAsBefore(a) /\ op[a].at = "insert"
        /\ op'[a].at = "idle" \/ (op'[a].at = "count" /\ op'[a].kind = op[a].kind)
    BY <1>13, InsertStep
  <2> QED BY <1>3, <2>1 DEF Onward, Setting
<1>14. ASSUME NEW a \in Actor, SetCount(a) \/ RemoveErase(a) \/ RemoveCount(a)
       PROVE  \A b \in Actor : Onward(b)
  <2>1. OthersAsBefore(a) /\ op'[a].at \in {"idle", "rm_lock", "rm_count"}
    BY <1>14, CountStep, EraseStep, GiveStep
  <2> QED BY <1>3, <2>1 DEF Setting
<1>15. CASE UNCHANGED vars
  BY <1>2, <1>15 DEF vars, callVars
<1> QED BY <1>2, <1>4, <1>5, <1>6, <1>7, <1>8, <1>9, <1>10, <1>11, <1>12, <1>13,
           <1>14, <1>15 DEF Next, Resume, Terminated

LEMMA ProvidedInit == Init => Provided
<1>1. Init => SeesPlaceInv
  BY DEF Init, SeesPlaceInv, Idle, Setting
<1>2. ASSUME Init, NEW k \in Kind PROVE surplus[k] <= Balance(k)
  <2>1. Num[k] \in Int
    BY PoolAssumption
  <2> QED BY <1>2, <2>1, InitialBalance
<1> QED BY <1>1, <1>2, CountingInit DEF Provided, UpperInv

LEMMA ProvidedStep == OneSetter /\ Provided /\ [Next]_vars => Provided'
<1> SUFFICES ASSUME OneSetter, Provided, [Next]_vars PROVE Provided'
  OBVIOUS
<1>1. SeesPlaceInv'
  BY NextIsOnward, SeesOnward, SeesCheck, SeesStart DEF Provided, Counting, Listing
<1> QED BY <1>1, CountingStep, UpperStep DEF Provided

-----------------------------------------------------------------------------
\* With one setter no place is given twice, although any tested lock request may
\* fail, kernel ids are reused and threads are submitted again.
THEOREM NoPlaceIsGivenTwice ==
  ASSUME OneSetter
  PROVE  Spec => []NoPlaceGivenTwice
<1>1. Provided => NoPlaceGivenTwice
  <2> SUFFICES ASSUME Provided, NEW k \in Kind
               PROVE  surplus[k] + Cardinality(Registered(k)) <=
                        Num[k] + (IF Inserting(k) THEN 1 ELSE 0)
    BY DEF NoPlaceGivenTwice
  <2>1. /\ Base /\ FiniteInv /\ surplus[k] <= Balance(k) /\ surplus[k] \in 0 .. UMax
        /\ UMax \in Nat
    BY PoolAssumption DEF Provided, UpperInv, Counting, Listing, Base, TypeOK
  <2> QED BY <2>1, BalanceType, Sections DEF Balance
<1> QED BY ProvidedInit, ProvidedStep, <1>1, PTL DEF Spec

\* With one setter no kind ever has more threads than the pool was made for, under
\* the same failures.
THEOREM NeverOverCapacity ==
  ASSUME OneSetter
  PROVE  Spec => []WithinCapacity
<1>1. Provided => WithinCapacity
  <2> SUFFICES ASSUME Provided, NEW k \in Kind
               PROVE  Cardinality(Registered(k)) <= Num[k]
    BY DEF WithinCapacity
  <2>1. /\ Base /\ FiniteInv /\ surplus[k] <= Balance(k) /\ surplus[k] \in 0 .. UMax
        /\ UMax \in Nat
    BY PoolAssumption DEF Provided, UpperInv, Counting, Listing, Base, TypeOK
  <2>2. At(k, "count") => surplus[k] > 0
    BY DEF Provided, SeesPlaceInv, Setting, At
  <2> QED BY <2>1, <2>2, BalanceType DEF Balance
<1> QED BY ProvidedInit, ProvidedStep, <1>1, PTL DEF Spec

\* With one setter remove never gives back more places than there are: the
\* assertion it makes when it has counted holds, under the same failures.
THEOREM SurplusIsNeverOver ==
  ASSUME OneSetter
  PROVE  Spec => SurplusAssertion
<1> DEFINE Asserted ==
      \A a \in Actor, k \in Kind :
        op[a].at = "rm_count" /\ op[a].kind = k /\ surplus'[k] # surplus[k]
          => surplus'[k] <= Num[k]
<1>1. Provided /\ [Next]_vars => Asserted
  <2> SUFFICES ASSUME Provided, [Next]_vars, NEW a \in Actor, NEW k \in Kind,
                      op[a].at = "rm_count", op[a].kind = k, surplus'[k] # surplus[k]
               PROVE  surplus'[k] <= Num[k]
    OBVIOUS
  <2>1. Base /\ TypeOK /\ FiniteInv /\ surplus[k] <= Balance(k)
    BY DEF Provided, UpperInv, Counting, Listing, Base
  <2>2. ~At(k, "count")
    BY <2>1, Sections DEF At
  <2>3. Given(k)
    BY <2>2, StepMoves DEF Provided, Moved, Kept, Taken, Lost, At
  <2> QED BY <2>1, <2>2, <2>3, GivenStaysBelow
<1>2. Provided /\ [Next]_vars => [Asserted]_vars
  BY <1>1
<1> QED BY ProvidedInit, ProvidedStep, <1>2, PTL DEF Spec, SurplusAssertion

-----------------------------------------------------------------------------
(***************************************************************************)
(* No place is lost when no id is reused, so that there is no atypism, and *)
(* remove gets the counters' lock.                                         *)
(***************************************************************************)
LEMMA NoneLost ==
  ASSUME Consistent, "rm_count" \notin LockFail, NEW k \in Kind PROVE ~Lost(k)
<1> SUFFICES ASSUME NEW a \in Actor, op[a].at = "rm_erase", op[a].kind = k,
                    Listed(k, op[a].th)
             PROVE  Indexed(k, op[a].th)
  BY DEF Lost
<1>1. op[a].th \in Thread /\ tid[op[a].th] \in Tid
  BY WorkedOn DEF Consistent, Removing
<1> QED BY <1>1, ListedIsSelf

ExactInv == \A k \in Kind : surplus[k] = Balance(k)
Exact == Provided /\ Consistent /\ ExactInv

LEMMA ExactStep ==
  ASSUME OneSetter, TidReuse = FALSE, "rm_count" \notin LockFail
  PROVE  Exact /\ [Next]_vars => Exact'
<1> SUFFICES ASSUME Exact, [Next]_vars, NEW k \in Kind PROVE surplus'[k] = Balance(k)'
  BY ProvidedStep, ConsistentStep DEF Exact, ExactInv
<1>1. /\ Base /\ TypeOK /\ FiniteInv /\ surplus[k] = Balance(k)
      /\ surplus[k] \in 0 .. UMax /\ UMax \in Nat
  BY PoolAssumption DEF Exact, ExactInv, Consistent, Provided, Counting, Base, TypeOK
<1>2. CASE Kept(k)
  BY <1>1, <1>2 DEF Kept
<1>3. CASE Taken(k)
  <2>1. PICK c \in Actor : op[c].at = "count" /\ op[c].kind = k
    BY <1>3 DEF Taken
  <2>2. surplus[k] > 0
    BY <2>1 DEF Exact, Provided, SeesPlaceInv, Setting
  <2>3. surplus'[k] = surplus[k] - 1
    BY <1>1, <1>3, <2>2 DEF Taken, TakePlace, TypeOK
  <2> QED BY <1>1, <1>3, <2>3 DEF Taken
<1>4. CASE Given(k)
  <2>1. ~At(k, "count") /\ surplus[k] <= Balance(k)
    BY <1>1, <1>4, Sections DEF Given
  <2>2. surplus'[k] = surplus[k] + 1
    BY <1>1, <1>4, <2>1, GivenStaysBelow
  <2> QED BY <1>1, <1>4, <2>2 DEF Given
<1> QED BY <1>2, <1>3, <1>4, StepMoves, NoneLost DEF Exact, Provided, Moved

\* With one setter free places and registered threads add up in every state, but for
\* the thread being counted: no place is lost.
THEOREM PlacesAlwaysAddUp ==
  ASSUME OneSetter, TidReuse = FALSE, "rm_count" \notin LockFail
  PROVE  Spec => []PlacesAddUp
<1>1. Init => Exact
  BY ProvidedInit, ConsistentInit, InitialBalance DEF Exact, ExactInv
<1>2. Exact => PlacesAddUp
  <2> SUFFICES ASSUME Exact, NEW k \in Kind
               PROVE  surplus[k] + Cardinality(Registered(k)) =
                        Num[k] + (IF Inserting(k) THEN 1 ELSE 0)
                          - (IF Erasing(k) THEN 1 ELSE 0)
    BY DEF PlacesAddUp
  <2>1. Base /\ FiniteInv /\ surplus[k] = Balance(k)
    BY DEF Exact, ExactInv, Consistent, Provided, Counting
  <2> QED BY <2>1, BalanceType, Sections DEF Balance
<1> QED BY <1>1, <1>2, ExactStep, PTL DEF Spec

-----------------------------------------------------------------------------
(***************************************************************************)
(* Several setters may take more places than there are; the counter, being *)
(* unsigned, then stands a number of rounds from its balance.              *)
(***************************************************************************)
Round == UMax + 1

WrappedInv ==
  \A k \in Kind : \E n \in Int : surplus[k] = Balance(k) + n * Round

Wrapped == Counting /\ Consistent /\ WrappedInv

LEMMA RoundsApart ==
  ASSUME NEW M \in Nat, NEW n \in Int, n * M < M, -M < n * M PROVE n = 0
<1>1. M > 0
  OBVIOUS
<1>2. n < 1
  <2> SUFFICES ASSUME n >= 1 PROVE FALSE
    OBVIOUS
  <2>1. (n - 1) * M >= 0
    BY <1>1
  <2>2. (n - 1) * M = n * M - M
    OBVIOUS
  <2> QED BY <2>1, <2>2
<1>3. n > -1
  <2> SUFFICES ASSUME n <= -1 PROVE FALSE
    OBVIOUS
  <2>1. (-1 - n) * M >= 0
    BY <1>1
  <2>2. (-1 - n) * M = -M - n * M
    OBVIOUS
  <2> QED BY <2>1, <2>2
<1> QED BY <1>2, <1>3

LEMMA WrappedStep ==
  ASSUME TidReuse = FALSE, "rm_count" \notin LockFail
  PROVE  Wrapped /\ [Next]_vars => Wrapped'
<1> SUFFICES ASSUME Wrapped, [Next]_vars, NEW k \in Kind
             PROVE  \E n \in Int : surplus'[k] = Balance(k)' + n * Round
  BY CountingStep, ConsistentStep DEF Wrapped, WrappedInv
<1>1. /\ TypeOK /\ FiniteInv /\ surplus \in [Kind -> 0 .. UMax] /\ UMax \in Nat
      /\ Round \in Int
  BY PoolAssumption DEF Wrapped, Consistent, Counting, Base, TypeOK, Round
<1>2. PICK n \in Int : surplus[k] = Balance(k) + n * Round
  BY DEF Wrapped, WrappedInv
<1>3. Balance(k) \in Int /\ n * Round \in Int
  BY <1>1, BalanceType
<1>4. (n + 1) * Round = n * Round + Round /\ (n - 1) * Round = n * Round - Round
  BY <1>1
<1>5. CASE Kept(k)
  BY <1>2, <1>5 DEF Kept
<1>6. CASE Taken(k)
  <2>1. surplus'[k] = IF surplus[k] = 0 THEN UMax ELSE surplus[k] - 1
    BY <1>1, <1>6 DEF Taken, TakePlace
  <2>2. CASE surplus[k] = 0
    <3>1. surplus'[k] = Balance(k)' + (n + 1) * Round
      BY <1>1, <1>2, <1>3, <1>4, <1>6, <2>1, <2>2 DEF Taken, Round
    <3> QED BY <3>1
  <2>3. CASE surplus[k] # 0
    <3>1. surplus'[k] = Balance(k)' + n * Round
      BY <1>1, <1>2, <1>3, <1>6, <2>1, <2>3 DEF Taken
    <3> QED BY <3>1
  <2> QED BY <2>2, <2>3
<1>7. CASE Given(k)
  <2>1. surplus'[k] = IF surplus[k] = UMax THEN 0 ELSE surplus[k] + 1
    BY <1>1, <1>7 DEF Given, GivePlace
  <2>2. CASE surplus[k] = UMax
    <3>1. surplus'[k] = Balance(k)' + (n - 1) * Round
      BY <1>1, <1>2, <1>3, <1>4, <1>7, <2>1, <2>2 DEF Given, Round
    <3> QED BY <3>1
  <2>3. CASE surplus[k] # UMax
    <3>1. surplus'[k] = Balance(k)' + n * Round
      BY <1>1, <1>2, <1>3, <1>7, <2>1, <2>3 DEF Given
    <3> QED BY <3>1
  <2> QED BY <2>2, <2>3
<1> QED BY <1>5, <1>6, <1>7, StepMoves, NoneLost DEF Wrapped, Moved

\* However many setters took places at once and however far the counter wrapped, a
\* kind that no thread is registered in and nobody works on has all its places.
THEOREM PlacesComeBack ==
  ASSUME TidReuse = FALSE, "rm_count" \notin LockFail
  PROVE  Spec => []AllPlacesComeBack
<1>1. Init => Wrapped
  <2> SUFFICES ASSUME Init, NEW k \in Kind
               PROVE  \E n \in Int : surplus[k] = Balance(k) + n * Round
    BY CountingInit, ConsistentInit DEF Wrapped, WrappedInv
  <2>1. surplus[k] = Balance(k) /\ Balance(k) \in Int /\ 0 * Round = 0
    BY InitialBalance, PoolAssumption DEF Round
  <2> QED BY <2>1
<1>2. Wrapped => AllPlacesComeBack
  <2> SUFFICES ASSUME Wrapped, NEW k \in Kind, lock[k] = None, Registered(k) = {}
               PROVE  surplus[k] = Num[k]
    BY DEF AllPlacesComeBack
  <2>1. /\ Base /\ surplus[k] \in 0 .. UMax /\ Num[k] \in 0 .. UMax /\ UMax \in Nat
    BY PoolAssumption DEF Wrapped, Consistent, Counting, Base, TypeOK
  <2>2. Balance(k) = Num[k]
    BY <2>1, Sections, FS_EmptySet DEF Balance
  <2>3. PICK n \in Int : surplus[k] = Num[k] + n * Round
    BY <2>2 DEF Wrapped, WrappedInv
  <2>4. Round \in Nat /\ n * Round \in Int
    BY <2>1 DEF Round
  <2>5. n * Round < Round /\ -Round < n * Round
    BY <2>1, <2>3, <2>4 DEF Round
  <2>6. n = 0
    BY <2>4, <2>5, RoundsApart
  <2>7. 0 * Round = 0
    BY <2>4
  <2> QED BY <2>1, <2>3, <2>6, <2>7
<1> QED BY <1>1, <1>2, WrappedStep, PTL DEF Spec
===============================================================================

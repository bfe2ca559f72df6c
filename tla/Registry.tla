------------------------------- MODULE Registry -------------------------------
(***************************************************************************)
(* What a thread_pool promises the one who registers threads and those     *)
(* who look them up: a kind of threads never has more members than places; *)
(* a thread becomes a member while somebody owns it, of a kind that is its *)
(* own, and leaves in its destructor at the earliest; a lookup yields a    *)
(* member.  That the destructor does dismiss the thread is not promised:   *)
(* remove may be refused its lock, a thread may not know the pool, and one *)
(* of both kinds is taken out of one of them (see NoStaleEntry).           *)
(***************************************************************************)
EXTENDS Naturals, FiniteSets

CONSTANTS Thread, Client, Kind, Type, Num, None
VARIABLES member,   \* member[k]: the threads of kind k
          life,     \* life[t]: none, live, dying (in its destructor) or gone
          answer    \* answer[c]: the thread the last lookup of c has found

registryVars == <<member, life, answer>>

RegistryInit ==
  /\ member = [k \in Kind |-> {}]
  /\ life = [t \in Thread |-> "none"]
  /\ answer = [c \in Client |-> None]

\* A thread is launched; its last owner lets it go; its object is freed, dismissed
\* or not.
Grow(t) ==
  /\ \/ life[t] = "none" /\ life' = [life EXCEPT ![t] = "live"]
     \/ life[t] = "live" /\ \E l \in {"dying", "gone"} : life' = [life EXCEPT ![t] = l]
     \/ life[t] = "dying" /\ life' = [life EXCEPT ![t] = "gone"]
  /\ UNCHANGED <<member, answer>>

Admit(k, t) ==
  /\ life[t] = "live" /\ k \in Type[t] /\ t \notin member[k]
  /\ Cardinality(member[k]) < Num[k]
  /\ member' = [member EXCEPT ![k] = @ \cup {t}]
  /\ UNCHANGED <<life, answer>>

Dismiss(k, t) ==
  /\ life[t] = "dying" /\ t \in member[k]
  /\ member' = [member EXCEPT ![k] = @ \ {t}]
  /\ UNCHANGED <<life, answer>>

Lookup(c, k, t) ==
  /\ t \in member[k]
  /\ answer' = [answer EXCEPT ![c] = t]
  /\ UNCHANGED <<member, life>>

ForgetAnswer(c) ==
  /\ answer' = [answer EXCEPT ![c] = None]
  /\ UNCHANGED <<member, life>>

RegistryNext ==
  \/ \E t \in Thread : Grow(t)
  \/ \E k \in Kind, t \in Thread : Admit(k, t) \/ Dismiss(k, t)
  \/ \E c \in Client, k \in Kind, t \in Thread : Lookup(c, k, t)
  \/ \E c \in Client : ForgetAnswer(c)

RegistrySpec == RegistryInit /\ [][RegistryNext]_registryVars
===============================================================================

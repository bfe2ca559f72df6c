----------------------------- MODULE MCThreadPool -----------------------------
(***************************************************************************)
(* Instances of ThreadPool for TLC.  The threads are built with the thread *)
(* types the server uses: THREAD_ALL_TYPE, THREAD_IO_TYPE and, in a run,   *)
(* none at all.  A place short of the threads there are, every kind of the *)
(* pool runs out of places.                                                *)
(***************************************************************************)
EXTENDS ThreadPool, TLC

CONSTANTS m1, m2, c1, t1, t2, t3, u1, x1, x2, x3

OnePlace  == [k \in Kind |-> 1]
TwoPlaces == [k \in Kind |-> 2]
OneForIo  == [k \in Kind |-> IF k = "io" THEN 1 ELSE 2]

\* A thread of both kinds competes with the I/O threads.
MixedType ==
  [t \in Thread |-> IF t = t2 THEN {"io"} ELSE IF t = u1 THEN {} ELSE Kind]
AllIo     == [t \in Thread |-> {"io"}]
BothKinds == [t \in Thread |-> Kind]

\* Interchangeable values: kernel ids, threads of one type, setters.
IdSymmetry == Permutations(Tid) \cup Permutations({t1, t3} \cap Thread)
AllSymmetry == Permutations(Tid) \cup Permutations(Thread) \cup Permutations(Setter)
SetterSymmetry == IdSymmetry \cup Permutations(Setter)
=============================================================================

--------------------------- MODULE ThreadStartProofs ---------------------------
(***************************************************************************)
(* Proofs about ThreadStart, for any number of launchers and threads.      *)
(***************************************************************************)
EXTENDS ThreadStart, FiniteSetTheorems, TLAPS

\* The steps of a launcher that works on a thread; those after its arrival at the
\* barrier; and the same of the thread.
LauncherAt == {"create", "set_ppid", "arrive", "wait", "free", "register", "drop"}
Met == {"wait", "free", "register", "drop"}
ThreadMet == {"wait", "run", "set_end", "drop", "done"}
Adopted == {"set_tpid", "arrive", "wait", "run", "set_end", "drop"}

\* A launcher l and its thread t go through the start side by side.
SideBySide(l, t) ==
  /\ obj[t] = "live" /\ at[l] \in LauncherAt
  /\ refs[t] = {l} \cup (IF at[t] \in Adopted THEN {t} ELSE {})
  /\ arrived[t] = (IF at[l] \in Met THEN {l} ELSE {})
                    \cup (IF at[t] \in ThreadMet THEN {t} ELSE {})
  /\ inside[t] = (IF at[l] = "wait" THEN {l} ELSE {})
                   \cup (IF at[t] = "wait" THEN {t} ELSE {})
  /\ barrier[t] = IF at[l] \in {"register", "drop"} THEN "NULL" ELSE "ready"
  /\ at[l] = "create" => at[t] = "none"
  /\ at[l] \in {"free", "register", "drop"} => at[t] \in ThreadMet
  /\ at[l] \in {"register", "drop"} => at[t] # "wait"
  /\ at[t] \in ThreadMet \ {"wait"} => at[l] \in Met
  /\ at[t] # "none" /\ at[l] \notin {"create", "set_ppid"} => ppid[t] = "known"

\* A thread nobody launches: not begun, left to itself, or over.
ByItself(t) ==
  /\ inside[t] = {} /\ barrier[t] = "NULL"
  /\ \/ obj[t] = "none" /\ at[t] = "none" /\ refs[t] = {} /\ arrived[t] = {}
     \/ /\ obj[t] = "live" /\ at[t] \in {"run", "set_end", "drop"}
        /\ refs[t] = {t} /\ ppid[t] = "known" /\ Open(t)
     \/ obj[t] = "gone" /\ at[t] = "done" /\ refs[t] = {}

InStep(t) ==
  /\ \A l \in Launcher : cur[l] = t => SideBySide(l, t)
  /\ (\A l \in Launcher : cur[l] # t) => ByItself(t)
  /\ t \in ended <=> at[t] \in {"drop", "done"}
  /\ at[t] \in ThreadMet \cup {"arrive"} => tpid[t] = "known"
  /\ at[t] \in {"none", "adopt", "done"} \cup Adopted

OneLauncher ==
  /\ \A l, m \in Launcher : cur[l] = cur[m] /\ cur[l] # None => l = m
  /\ \A l \in Launcher : at[l] = "idle" <=> cur[l] = None

IInv == TypeOK /\ OneLauncher /\ \A t \in Thread : InStep(t)

LEMMA InitIsGood == Init => IInv
BY StartAssumption
DEF Init, IInv, TypeOK, OneLauncher, InStep, ByItself, Adopted, ThreadMet

\* The barrier is open when both have arrived, and only then.
LEMMA BothArrived ==
  ASSUME NEW t \in Thread, NEW l \in Launcher, SideBySide(l, t)
  PROVE  Open(t) <=> at[l] \in Met /\ at[t] \in ThreadMet
<1>1. l # t
  BY StartAssumption
<1>2. Cardinality({}) = 0 /\ Cardinality({l}) = 1 /\ Cardinality({t}) = 1
  BY FS_EmptySet, FS_Singleton
<1>3. Cardinality({l} \cup {t}) = 2
  <2>1. IsFiniteSet({l}) /\ t \notin {l}
    BY <1>1, FS_Singleton
  <2>2. Cardinality({l} \cup {t}) = Cardinality({l}) + 1
    BY <2>1, FS_AddElement
  <2> QED  BY <1>2, <2>2
<1>4. CASE at[l] \notin Met
  <2>1. arrived[t] = {} \/ arrived[t] = {t}
    BY <1>4 DEF SideBySide
  <2> QED  BY <1>2, <1>4, <2>1 DEF Open
<1>5. CASE at[t] \notin ThreadMet
  <2>1. arrived[t] = {} \/ arrived[t] = {l}
    BY <1>5 DEF SideBySide
  <2> QED  BY <1>2, <1>5, <2>1 DEF Open
<1>6. CASE at[l] \in Met /\ at[t] \in ThreadMet
  <2>1. arrived[t] = {l} \cup {t}
    BY <1>6 DEF SideBySide
  <2> QED  BY <1>3, <1>6, <2>1 DEF Open
<1> QED  BY <1>4, <1>5, <1>6

\* A launcher that is not idle works on a thread.
LEMMA Launching ==
  ASSUME IInv, NEW l \in Launcher, at[l] # "idle"
  PROVE  cur[l] \in Thread /\ SideBySide(l, cur[l])
<1>1. cur[l] # None
  BY DEF IInv, OneLauncher
<1>2. cur[l] \in Thread
  BY <1>1 DEF IInv, TypeOK
<1> QED  BY <1>2 DEF IInv, InStep

\* A step of one launcher or thread leaves the place of the others alone.
LEMMA OneMoves ==
  ASSUME TypeOK, NEW a \in Launcher \cup Thread, NEW x, Go(a, x)
  PROVE  at'[a] = x /\ \A b \in Launcher \cup Thread : b # a => at'[b] = at[b]
BY DEF TypeOK, Go

Same(s) ==
  /\ obj'[s] = obj[s] /\ refs'[s] = refs[s] /\ ppid'[s] = ppid[s] /\ tpid'[s] = tpid[s]
  /\ barrier'[s] = barrier[s] /\ arrived'[s] = arrived[s] /\ inside'[s] = inside[s]
  /\ s \in ended' <=> s \in ended

\* A thread keeps in step when nothing of it or of its launcher changes.
LEMMA OthersKeep ==
  ASSUME NEW s \in Thread, InStep(s),
         \A l \in Launcher : cur'[l] = s <=> cur[l] = s,
         \A l \in Launcher : cur[l] = s => at'[l] = at[l],
         at'[s] = at[s], Same(s)
  PROVE  InStep(s)'
<1>1. ASSUME NEW l \in Launcher, cur'[l] = s PROVE SideBySide(l, s)'
  BY <1>1 DEF InStep, SideBySide, Same
<1>2. ASSUME \A l \in Launcher : cur'[l] # s PROVE ByItself(s)'
  BY <1>2 DEF InStep, ByItself, Same, Open
<1> QED  BY <1>1, <1>2 DEF InStep, Same

LEMMA CreateKeeps == IInv /\ (\E l \in Launcher : Create(l)) => IInv'
<1> SUFFICES ASSUME IInv, NEW l \in Launcher, NEW t \in Thread, cur[l] = t, Create(l),
                    SideBySide(l, t)
             PROVE  IInv'
  BY Launching DEF Create
<1>1. at[l] = "create" /\ at[t] = "none" /\ UNCHANGED <<objVars, barVars, pool, cur>>
  BY DEF Create, SideBySide
<1>2. /\ at'[l] = "set_ppid" /\ at'[t] \in {"none", "adopt"}
      /\ \A a \in Launcher \cup Thread : a # l /\ a # t => at'[a] = at[a]
      /\ TypeOK'
  <2>1. CASE at' = [at EXCEPT ![l] = "set_ppid", ![t] = "adopt"]
    BY <1>1, <2>1, StartAssumption DEF IInv, TypeOK, objVars, barVars
  <2>2. CASE Go(l, "set_ppid")
    BY <1>1, <2>2, StartAssumption DEF IInv, TypeOK, objVars, barVars, Go
  <2> QED  BY <2>1, <2>2 DEF Create
<1>3. \A m \in Launcher : m # l => at'[m] = at[m] /\ cur[m] # t
  BY <1>2, StartAssumption DEF IInv, OneLauncher
<1>4. OneLauncher'
  BY <1>1, <1>2, <1>3 DEF IInv, OneLauncher
<1>5. InStep(t)'
  <2>1. SideBySide(l, t)'
    BY <1>1, <1>2 DEF SideBySide, LauncherAt, Met, ThreadMet, Adopted, objVars, barVars
  <2> QED
    BY <1>1, <1>2, <1>3, <2>1 DEF IInv, InStep, ThreadMet, Adopted, objVars
<1>6. ASSUME NEW s \in Thread, s # t PROVE InStep(s)'
  BY <1>1, <1>2, <1>3, <1>6, OthersKeep, StartAssumption DEF IInv, Same, objVars, barVars
<1> QED  BY <1>2, <1>4, <1>5, <1>6 DEF IInv

\* A step of a launcher that keeps to its thread.
LEMMA LauncherMoves ==
  ASSUME IInv, NEW l \in Launcher, NEW t \in Thread, cur[l] = t,
         NEW x, x # "idle", Go(l, x), UNCHANGED <<cur, ended, tpid>>,
         TypeOK', SideBySide(l, t)', \A s \in Thread : s # t => Same(s)
  PROVE  IInv'
<1>1. /\ at'[l] = x /\ at[l] # "idle"
      /\ \A a \in Launcher \cup Thread : a # l => at'[a] = at[a]
  BY OneMoves, StartAssumption DEF IInv, OneLauncher
<1>2. \A m \in Launcher : m # l => at'[m] = at[m] /\ cur[m] # t
  BY <1>1, StartAssumption DEF IInv, OneLauncher
<1>3. OneLauncher'
  BY <1>1, <1>2 DEF IInv, OneLauncher
<1>4. at'[t] = at[t]
  BY <1>1, StartAssumption
<1>5. InStep(t)'
  BY <1>2, <1>4 DEF IInv, InStep
<1>6. ASSUME NEW s \in Thread, s # t PROVE InStep(s)'
  BY <1>1, <1>2, <1>6, OthersKeep, StartAssumption DEF IInv
<1> QED  BY <1>3, <1>5, <1>6 DEF IInv

\* A step of a thread.
LEMMA ThreadMoves ==
  ASSUME IInv, NEW t \in Thread, NEW x, Go(t, x), UNCHANGED cur,
         TypeOK', InStep(t)', \A s \in Thread : s # t => Same(s)
  PROVE  IInv'
<1>1. \A a \in Launcher \cup Thread : a # t => at'[a] = at[a]
  BY OneMoves DEF IInv
<1>2. OneLauncher'
  BY <1>1, StartAssumption DEF IInv, OneLauncher
<1>3. ASSUME NEW s \in Thread, s # t PROVE InStep(s)'
  BY <1>1, <1>3, OthersKeep, StartAssumption DEF IInv
<1> QED  BY <1>2, <1>3 DEF IInv

LEMMA LauncherKeeps ==
  ASSUME IInv, NEW l \in Launcher, NEW t \in Thread, cur[l] = t, SideBySide(l, t),
         SetPpid(l) \/ StartWait(l) \/ GoOn(l) \/ FreeBarrier(l) \/ Register(l)
  PROVE  IInv'
<1> USE StartAssumption
<1> DEFINE Others == \A s \in Thread : s # t => Same(s)
<1>t. l # t /\ InStep(t)
  BY DEF IInv
<1>a. ASSUME NEW x, Go(l, x) PROVE at'[l] = x /\ at'[t] = at[t]
  BY <1>t, <1>a, OneMoves DEF IInv
<1>1. CASE SetPpid(l)
  <2>1. at'[l] = "arrive" /\ at'[t] = at[t] /\ at[l] = "set_ppid"
    BY <1>1, <1>a DEF SetPpid
  <2>2. TypeOK' /\ Others
    BY <1>1 DEF SetPpid, IInv, TypeOK, Go, Same, barVars
  <2>3. SideBySide(l, t)'
    BY <1>1, <2>1 DEF SetPpid, IInv, TypeOK, SideBySide, LauncherAt, Met, ThreadMet, barVars
  <2> QED  BY <1>1, <2>2, <2>3, LauncherMoves DEF SetPpid
<1>2. CASE StartWait(l)
  <2>1. at'[l] = "wait" /\ at'[t] = at[t] /\ at[l] = "arrive"
    BY <1>2, <1>a DEF StartWait
  <2>2. TypeOK' /\ Others
    BY <1>2 DEF StartWait, Arrive, IInv, TypeOK, Go, Same, objVars
  <2>3. SideBySide(l, t)'
    BY <1>2, <2>1
    DEF StartWait, Arrive, IInv, TypeOK, SideBySide, LauncherAt, Met, ThreadMet, objVars
  <2> QED  BY <1>2, <2>2, <2>3, LauncherMoves DEF StartWait, objVars
<1>3. CASE GoOn(l)
  <2>1. at'[l] = "free" /\ at'[t] = at[t] /\ at[l] = "wait" /\ at[t] \in ThreadMet
    BY <1>3, <1>a, BothArrived DEF GoOn, Leave
  <2>2. TypeOK' /\ Others
    BY <1>3 DEF GoOn, Leave, IInv, TypeOK, Go, Same, objVars
  <2>3. SideBySide(l, t)'
    BY <1>3, <1>t, <2>1
    DEF GoOn, Leave, IInv, TypeOK, SideBySide, LauncherAt, Met, ThreadMet, objVars
  <2> QED  BY <1>3, <2>2, <2>3, LauncherMoves DEF GoOn, objVars
<1>4. CASE FreeBarrier(l)
  <2>1. at'[l] = "register" /\ at'[t] = at[t] /\ at[l] = "free" /\ inside[t] = {}
    BY <1>4, <1>a DEF FreeBarrier
  <2>2. TypeOK' /\ Others
    BY <1>4 DEF FreeBarrier, IInv, TypeOK, Go, Same, objVars
  <2>3. SideBySide(l, t)'
    BY <1>4, <2>1
    DEF FreeBarrier, IInv, TypeOK, SideBySide, LauncherAt, Met, ThreadMet, objVars
  <2> QED  BY <1>4, <2>2, <2>3, LauncherMoves DEF FreeBarrier, objVars
<1>5. CASE Register(l)
  <2>1. at'[l] = "drop" /\ at'[t] = at[t] /\ at[l] = "register"
    BY <1>5, <1>a DEF Register
  <2>2. TypeOK' /\ Others
    BY <1>5 DEF Register, IInv, TypeOK, Go, Same, objVars, barVars
  <2>3. SideBySide(l, t)'
    BY <1>5, <2>1 DEF Register, SideBySide, LauncherAt, Met, ThreadMet, objVars, barVars
  <2> QED  BY <1>5, <2>2, <2>3, LauncherMoves DEF Register, objVars
<1> QED  BY <1>1, <1>2, <1>3, <1>4, <1>5

LEMMA ConstructKeeps ==
  ASSUME IInv, NEW l \in Launcher, NEW t \in Thread, Construct(l, t)
  PROVE  IInv'
<1> USE StartAssumption
<1>1. l # t /\ t # None /\ at[l] = "idle" /\ cur[l] = None
  BY DEF Construct, IInv, OneLauncher
<1>2. \A m \in Launcher : cur[m] # t
  BY DEF Construct, IInv, InStep, SideBySide
<1>3. ByItself(t) /\ at[t] = "none" /\ t \notin ended
  BY <1>2 DEF Construct, IInv, InStep, ByItself
<1>4. TypeOK'
  BY DEF Construct, IInv, TypeOK, Go
<1>5. /\ at'[l] = "create" /\ at'[t] = "none"
      /\ \A a \in Launcher \cup Thread : a # l => at'[a] = at[a]
  BY <1>1, <1>3, OneMoves DEF Construct, IInv
<1>6. cur'[l] = t /\ \A m \in Launcher : m # l => cur'[m] = cur[m] /\ at'[m] = at[m]
  BY <1>5 DEF Construct, IInv, TypeOK
<1>7. OneLauncher'
  BY <1>1, <1>2, <1>5, <1>6 DEF IInv, OneLauncher
<1>8. SideBySide(l, t)'
  BY <1>3, <1>5
  DEF Construct, ByItself, IInv, TypeOK, SideBySide, LauncherAt, Met, ThreadMet, Adopted
<1>9. InStep(t)'
  BY <1>2, <1>3, <1>5, <1>6, <1>8 DEF Construct, InStep, ThreadMet
<1>10. ASSUME NEW s \in Thread, s # t PROVE InStep(s)'
  <2>1. Same(s)
    BY <1>10 DEF Construct, IInv, TypeOK, Same
  <2>2. \A m \in Launcher : cur'[m] = s <=> cur[m] = s
    BY <1>1, <1>6, <1>10
  <2>3. at'[s] = at[s] /\ \A m \in Launcher : cur[m] = s => at'[m] = at[m]
    BY <1>1, <1>5, <1>6
  <2> QED  BY <2>1, <2>2, <2>3, OthersKeep DEF IInv
<1> QED  BY <1>4, <1>7, <1>9, <1>10 DEF IInv

\* The launcher lets go: the thread is left to itself, or the object is destroyed
\* when the thread let go before.
LEMMA ForgetKeeps ==
  ASSUME IInv, NEW l \in Launcher, NEW t \in Thread, cur[l] = t, SideBySide(l, t),
         Forget(l)
  PROVE  IInv'
<1> USE StartAssumption
<1>1. /\ l # t /\ t # None /\ at[l] = "drop"
      /\ at[t] \in {"run", "set_end", "drop", "done"}
  BY DEF Forget, SideBySide, ThreadMet
<1>2. \A m \in Launcher : m # l => cur[m] # t
  BY DEF IInv, OneLauncher, TypeOK
<1>3. TypeOK'
  BY DEF Forget, Drop, IInv, TypeOK, Go
<1>4. at'[l] = "idle" /\ \A a \in Launcher \cup Thread : a # l => at'[a] = at[a]
  BY OneMoves DEF Forget, IInv
<1>5. cur'[l] = None /\ \A m \in Launcher : m # l => cur'[m] = cur[m] /\ at'[m] = at[m]
  BY <1>4 DEF Forget, IInv, TypeOK
<1>6. OneLauncher'
  BY <1>4, <1>5 DEF IInv, OneLauncher
<1>7. /\ inside'[t] = {} /\ barrier'[t] = "NULL" /\ at'[t] = at[t]
      /\ refs'[t] = refs[t] \ {l} /\ ppid'[t] = "known"
      /\ obj'[t] = IF refs[t] = {l} THEN "gone" ELSE "live"
  <2>1. inside[t] = {} /\ barrier[t] = "NULL" /\ ppid[t] = "known" /\ obj[t] = "live"
    BY <1>1 DEF SideBySide
  <2>2. at'[t] = at[t] /\ inside'[t] = {} /\ ppid'[t] = "known"
    BY <1>1, <1>4, <2>1 DEF Forget
  <2>3. TypeOK /\ Drop(l, t)
    BY DEF Forget, IInv
  <2>4. refs'[t] = refs[t] \ {l}
    BY <2>3 DEF Drop, TypeOK
  <2>5. barrier'[t] = "NULL"
    BY <2>1, <2>3 DEF Drop, TypeOK
  <2>6. obj'[t] = IF refs[t] = {l} THEN "gone" ELSE "live"
    BY <2>1, <2>3 DEF Drop, TypeOK
  <2> QED  BY <2>2, <2>4, <2>5, <2>6
<1>8. ByItself(t)'
  <2>1. CASE at[t] = "done"
    BY <1>1, <1>7, <2>1 DEF ByItself, SideBySide, Adopted
  <2>2. CASE at[t] # "done"
    <3>1. refs[t] = {l, t}
      BY <1>1, <2>2 DEF SideBySide, Adopted
    <3>2. refs'[t] = {t} /\ obj'[t] = "live"
      BY <1>1, <1>7, <3>1
    <3>3. Open(t) /\ UNCHANGED arrived
      BY <1>1, BothArrived DEF Met, ThreadMet, Forget
    <3>4. Open(t)'
      BY <3>3 DEF Open
    <3> QED  BY <1>1, <1>7, <2>2, <3>2, <3>4 DEF ByItself
  <2> QED  BY <2>1, <2>2
<1>9. InStep(t)'
  BY <1>1, <1>2, <1>5, <1>7, <1>8 DEF Forget, IInv, InStep
<1>10. ASSUME NEW s \in Thread, s # t PROVE InStep(s)'
  <2>1. Same(s)
    BY <1>10 DEF Forget, Drop, IInv, TypeOK, Same
  <2>2. \A m \in Launcher : cur'[m] = s <=> cur[m] = s
    BY <1>5, <1>10
  <2>3. at'[s] = at[s] /\ \A m \in Launcher : cur[m] = s => at'[m] = at[m]
    BY <1>1, <1>4, <1>5, <1>10
  <2> QED  BY <2>1, <2>2, <2>3, OthersKeep DEF IInv
<1> QED  BY <1>3, <1>6, <1>9, <1>10 DEF IInv

LEMMA ThreadKeeps ==
  ASSUME IInv, NEW t \in Thread, ThreadStep(t)
  PROVE  IInv'
<1> USE StartAssumption
<1> DEFINE Others == \A s \in Thread : s # t => Same(s)
<1>a. ASSUME NEW x, Go(t, x) PROVE at'[t] = x
  BY <1>a, OneMoves DEF IInv
<1>1. CASE Adopt(t)
  <2>1. at[t] = "adopt" /\ at'[t] = "set_tpid" /\ Go(t, "set_tpid") /\ UNCHANGED cur
    BY <1>1, <1>a DEF Adopt
  <2>2. TypeOK' /\ Others
    BY <1>1 DEF Adopt, barVars, IInv, TypeOK, Go, Same
  <2>3. \A l \in Launcher : at'[l] = at[l]
    BY <2>1, OneMoves DEF IInv
  <2>4. ASSUME NEW l \in Launcher, cur[l] = t PROVE SideBySide(l, t)'
    <3>1. SideBySide(l, t) /\ l # t
      BY <2>4 DEF IInv, InStep
    <3> QED
      BY <1>1, <2>1, <2>3, <3>1
      DEF Adopt, barVars, SideBySide, IInv, TypeOK, LauncherAt, Met, ThreadMet, Adopted
  <2>5. ASSUME \A l \in Launcher : cur[l] # t PROVE ByItself(t)'
    <3>1. ByItself(t)
      BY <2>5 DEF IInv, InStep
    <3> QED
      BY <1>1, <2>1, <3>1 DEF Adopt, barVars, ByItself, IInv, TypeOK
  <2>6. InStep(t)'
    BY <1>1, <2>1, <2>4, <2>5 DEF Adopt, barVars, IInv, TypeOK, InStep, ThreadMet, Adopted
  <2> QED  BY <2>1, <2>2, <2>6, ThreadMoves
<1>2. CASE SetTpid(t)
  <2>1. at[t] = "set_tpid" /\ at'[t] = "arrive" /\ Go(t, "arrive") /\ UNCHANGED cur
    BY <1>2, <1>a DEF SetTpid
  <2>2. TypeOK' /\ Others
    BY <1>2 DEF SetTpid, barVars, IInv, TypeOK, Go, Same
  <2>3. \A l \in Launcher : at'[l] = at[l]
    BY <2>1, OneMoves DEF IInv
  <2>4. ASSUME NEW l \in Launcher, cur[l] = t PROVE SideBySide(l, t)'
    <3>1. SideBySide(l, t) /\ l # t
      BY <2>4 DEF IInv, InStep
    <3> QED
      BY <1>2, <2>1, <2>3, <3>1
      DEF SetTpid, barVars, SideBySide, IInv, TypeOK, LauncherAt, Met, ThreadMet, Adopted
  <2>5. ASSUME \A l \in Launcher : cur[l] # t PROVE ByItself(t)'
    <3>1. ByItself(t)
      BY <2>5 DEF IInv, InStep
    <3> QED
      BY <1>2, <2>1, <3>1 DEF SetTpid, barVars, ByItself, IInv, TypeOK
  <2>6. InStep(t)'
    BY <1>2, <2>1, <2>4, <2>5 DEF SetTpid, barVars, IInv, TypeOK, InStep, ThreadMet, Adopted
  <2> QED  BY <2>1, <2>2, <2>6, ThreadMoves
<1>3. CASE ThreadWait(t)
  <2>1. at[t] = "arrive" /\ at'[t] = "wait" /\ Go(t, "wait") /\ UNCHANGED cur
    BY <1>3, <1>a DEF ThreadWait
  <2>2. TypeOK' /\ Others
    BY <1>3 DEF ThreadWait, Arrive, objVars, IInv, TypeOK, Go, Same
  <2>3. \A l \in Launcher : at'[l] = at[l]
    BY <2>1, OneMoves DEF IInv
  <2>4. ASSUME NEW l \in Launcher, cur[l] = t PROVE SideBySide(l, t)'
    <3>1. SideBySide(l, t) /\ l # t
      BY <2>4 DEF IInv, InStep
    <3> QED
      BY <1>3, <2>1, <2>3, <3>1
      DEF ThreadWait, Arrive, objVars, SideBySide, IInv, TypeOK, LauncherAt, Met, ThreadMet, Adopted
  <2>5. ASSUME \A l \in Launcher : cur[l] # t PROVE ByItself(t)'
    <3>1. ByItself(t)
      BY <2>5 DEF IInv, InStep
    <3> QED
      BY <1>3, <2>1, <3>1 DEF ThreadWait, Arrive, objVars, ByItself, IInv, TypeOK
  <2>6. InStep(t)'
    BY <1>3, <2>1, <2>4, <2>5
    DEF ThreadWait, Arrive, objVars, IInv, TypeOK, InStep, ThreadMet, Adopted
  <2> QED  BY <2>1, <2>2, <2>6, ThreadMoves
<1>4. CASE Run(t)
  <2>1. at[t] = "wait" /\ at'[t] = "run" /\ Go(t, "run") /\ UNCHANGED cur
    BY <1>4, <1>a DEF Run
  <2>2. TypeOK' /\ Others
    BY <1>4 DEF Run, Leave, objVars, IInv, TypeOK, Go, Same
  <2>3. \A l \in Launcher : at'[l] = at[l]
    BY <2>1, OneMoves DEF IInv
  <2>4. ASSUME NEW l \in Launcher, cur[l] = t PROVE SideBySide(l, t)'
    <3>1. SideBySide(l, t) /\ l # t
      BY <2>4 DEF IInv, InStep
    <3>2. at[l] \in Met
      BY <1>4, <3>1, BothArrived DEF Run, Leave
    <3> QED
      BY <1>4, <2>1, <2>3, <3>1, <3>2
      DEF Run, Leave, objVars, SideBySide, IInv, TypeOK, LauncherAt, Met, ThreadMet, Adopted
  <2>5. ASSUME \A l \in Launcher : cur[l] # t PROVE ByItself(t)'
    <3>1. ByItself(t)
      BY <2>5 DEF IInv, InStep
    <3> QED
      BY <1>4, <2>1, <3>1 DEF Run, Leave, objVars, ByItself, IInv, TypeOK
  <2>6. InStep(t)'
    BY <1>4, <2>1, <2>4, <2>5 DEF Run, Leave, objVars, IInv, TypeOK, InStep, ThreadMet, Adopted
  <2> QED  BY <2>1, <2>2, <2>6, ThreadMoves
<1>5. CASE FunEnds(t)
  <2>1. at[t] = "run" /\ at'[t] = "set_end" /\ Go(t, "set_end") /\ UNCHANGED cur
    BY <1>5, <1>a DEF FunEnds
  <2>2. TypeOK' /\ Others
    BY <1>5 DEF FunEnds, objVars, barVars, IInv, TypeOK, Go, Same
  <2>3. \A l \in Launcher : at'[l] = at[l]
    BY <2>1, OneMoves DEF IInv
  <2>4. ASSUME NEW l \in Launcher, cur[l] = t PROVE SideBySide(l, t)'
    <3>1. SideBySide(l, t) /\ l # t
      BY <2>4 DEF IInv, InStep
    <3> QED
      BY <1>5, <2>1, <2>3, <3>1
      DEF FunEnds, objVars, barVars, SideBySide, IInv, TypeOK, LauncherAt, Met, ThreadMet, Adopted
  <2>5. ASSUME \A l \in Launcher : cur[l] # t PROVE ByItself(t)'
    <3>1. ByItself(t)
      BY <2>5 DEF IInv, InStep
    <3> QED
      BY <1>5, <2>1, <3>1 DEF FunEnds, objVars, barVars, ByItself, Open, IInv, TypeOK
  <2>6. InStep(t)'
    BY <1>5, <2>1, <2>4, <2>5
    DEF FunEnds, objVars, barVars, IInv, TypeOK, InStep, ThreadMet, Adopted
  <2> QED  BY <2>1, <2>2, <2>6, ThreadMoves
<1>6. CASE SetEnd(t)
  <2>1. at[t] = "set_end" /\ at'[t] = "drop" /\ Go(t, "drop") /\ UNCHANGED cur
    BY <1>6, <1>a DEF SetEnd
  <2>2. TypeOK' /\ Others
    BY <1>6 DEF SetEnd, barVars, IInv, TypeOK, Go, Same
  <2>3. \A l \in Launcher : at'[l] = at[l]
    BY <2>1, OneMoves DEF IInv
  <2>4. ASSUME NEW l \in Launcher, cur[l] = t PROVE SideBySide(l, t)'
    <3>1. SideBySide(l, t) /\ l # t
      BY <2>4 DEF IInv, InStep
    <3> QED
      BY <1>6, <2>1, <2>3, <3>1
      DEF SetEnd, barVars, SideBySide, IInv, TypeOK, LauncherAt, Met, ThreadMet, Adopted
  <2>5. ASSUME \A l \in Launcher : cur[l] # t PROVE ByItself(t)'
    <3>1. ByItself(t)
      BY <2>5 DEF IInv, InStep
    <3> QED
      BY <1>6, <2>1, <3>1 DEF SetEnd, barVars, ByItself, Open, IInv, TypeOK
  <2>6. InStep(t)'
    BY <1>6, <2>1, <2>4, <2>5 DEF SetEnd, barVars, IInv, TypeOK, InStep, ThreadMet, Adopted
  <2> QED  BY <2>1, <2>2, <2>6, ThreadMoves
<1>7. CASE Exit(t)
  <2>1. at[t] = "drop" /\ at'[t] = "done" /\ Go(t, "done") /\ UNCHANGED cur
    BY <1>7, <1>a DEF Exit
  <2>2. TypeOK' /\ Others
    BY <1>7 DEF Exit, Drop, IInv, TypeOK, Go, Same
  <2>3. \A l \in Launcher : at'[l] = at[l]
    BY <2>1, OneMoves DEF IInv
  <2>4. ASSUME NEW l \in Launcher, cur[l] = t PROVE SideBySide(l, t)'
    <3>1. SideBySide(l, t) /\ l # t
      BY <2>4 DEF IInv, InStep
    <3>2. refs[t] = {l, t} /\ obj[t] = "live"
      BY <2>1, <3>1 DEF SideBySide, Adopted
    <3>3. TypeOK /\ Drop(t, t) /\ refs[t] # {t}
      BY <1>7, <3>1, <3>2 DEF Exit, IInv
    <3>4. refs'[t] = {l} /\ UNCHANGED <<obj, barrier>>
      BY <3>1, <3>2, <3>3 DEF Drop, TypeOK
    <3>5. UNCHANGED <<ppid, arrived, inside>>
      BY <1>7 DEF Exit
    <3> QED
      BY <2>1, <2>3, <3>1, <3>4, <3>5
      DEF SideBySide, LauncherAt, Met, ThreadMet, Adopted
  <2>5. ASSUME \A l \in Launcher : cur[l] # t PROVE ByItself(t)'
    <3>1. ByItself(t)
      BY <2>5 DEF IInv, InStep
    <3> QED
      BY <1>7, <2>1, <3>1 DEF Exit, Drop, ByItself, IInv, TypeOK
  <2>6. InStep(t)'
    BY <1>7, <2>1, <2>4, <2>5 DEF Exit, Drop, IInv, TypeOK, InStep, ThreadMet, Adopted
  <2> QED  BY <2>1, <2>2, <2>6, ThreadMoves
<1> QED  BY <1>1, <1>2, <1>3, <1>4, <1>5, <1>6, <1>7 DEF ThreadStep

LEMMA StepKeeps == IInv /\ [Next]_vars => IInv'
<1> SUFFICES ASSUME IInv, [Next]_vars PROVE IInv'
  OBVIOUS
<1>1. CASE \E l \in Launcher, t \in Thread : Construct(l, t)
  BY <1>1, ConstructKeeps
<1>2. ASSUME NEW l \in Launcher, LauncherStep(l) PROVE IInv'
  <2>1. at[l] # "idle"
    BY <1>2 DEF LauncherStep, Create, SetPpid, StartWait, GoOn, FreeBarrier, Register, Forget
  <2>2. PICK t \in Thread : cur[l] = t /\ SideBySide(l, t)
    BY <2>1, Launching
  <2> QED  BY <1>2, <2>2, CreateKeeps, LauncherKeeps, ForgetKeeps DEF LauncherStep
<1>3. CASE \E t \in Thread : ThreadStep(t)
  BY <1>3, ThreadKeeps
<1>4. CASE UNCHANGED vars
  BY <1>4 DEF vars, objVars, barVars, IInv, TypeOK, OneLauncher, InStep, SideBySide, ByItself,
              Open
<1> QED  BY <1>1, <1>2, <1>3, <1>4 DEF Next, Terminated

LEMMA AlwaysGood == Spec => []IInv
BY InitIsGood, StepKeeps, PTL DEF Spec

\* Every variable keeps its type, whatever the order of the steps of thread.cpp's
\* start and thread_main.
THEOREM TypeCorrect == Spec => []TypeOK
BY AlwaysGood, PTL DEF IInv

\* Two threads write the two ids at either side of pthread_create (thread.cpp,
\* start and thread_main): the function that runs and the pool that files the
\* thread find both.  The barrier makes it so: it opens when both have arrived,
\* and both write before they arrive.
THEOREM IdsAreKnown == Spec => []IdsKnown
<1>1. ASSUME IInv, NEW t \in Thread,
             at[t] \in {"run", "set_end"} \/ \E l \in Using(t) : at[l] \in {"register", "drop"}
      PROVE  ppid[t] = "known" /\ tpid[t] = "known"
  <2>1. CASE \E l \in Launcher : cur[l] = t
    <3>1. PICK l \in Launcher : cur[l] = t
      BY <2>1
    <3>2. SideBySide(l, t)
      BY <1>1, <3>1 DEF IInv, InStep
    <3>3. at[l] \in Met /\ at[t] \in ThreadMet
      BY <1>1, <3>1, <3>2 DEF Using, SideBySide, Met, ThreadMet, IInv, OneLauncher, TypeOK
    <3>4. ppid[t] = "known"
      BY <3>2, <3>3 DEF SideBySide, Met, ThreadMet
    <3> QED  BY <1>1, <3>3, <3>4 DEF IInv, InStep
  <2>2. CASE \A l \in Launcher : cur[l] # t
    BY <1>1, <2>2 DEF Using, IInv, InStep, ByItself, ThreadMet
  <2> QED  BY <2>1, <2>2
<1>2. IInv => IdsKnown
  BY <1>1 DEF IdsKnown
<1> QED  BY <1>2, AlwaysGood, PTL

\* thread_main begins with a raw pointer to the object and takes its shared_ptr
\* from it: the launcher cannot have let the last one go by then, because it lets
\* go after the barrier.
THEOREM NeverDangling == Spec => []NoDanglingThis
<1>1. IInv => NoDanglingThis
  BY DEF IInv, InStep, SideBySide, ByItself, NoDanglingThis, Using, Started
<1> QED  BY <1>1, AlwaysGood, PTL

\* The launcher destroys and frees the barrier (thread.cpp, start_wait): by then
\* nobody is inside or on the way to it, and no destroyed object kept one.
THEOREM BarrierIsThere == Spec => []BarrierOutlivesUse
<1>1. ASSUME IInv, NEW t \in Thread, NEW l \in Launcher, cur[l] = t
      PROVE  /\ barrier[t] # "ready" => at[l] \in {"register", "drop"}
             /\ inside[t] # {} => barrier[t] = "ready"
             /\ at[l] \in {"register", "drop"} => at[t] \notin {"adopt", "set_tpid", "arrive"}
             /\ obj[t] = "live"
  BY <1>1 DEF IInv, InStep, SideBySide, ThreadMet
<1>2. ASSUME IInv, NEW t \in Thread, \A l \in Launcher : cur[l] # t
      PROVE  ByItself(t)
  BY <1>2 DEF IInv, InStep
<1>3. IInv => BarrierOutlivesUse
  <2> SUFFICES ASSUME IInv, NEW t \in Thread
               PROVE  /\ \/ inside[t] # {} \/ at[t] \in {"adopt", "set_tpid", "arrive"}
                         \/ \E l \in Using(t) : at[l] \in {"create", "set_ppid", "arrive"}
                         => barrier[t] = "ready"
                      /\ obj[t] = "gone" => barrier[t] = "NULL"
    BY DEF BarrierOutlivesUse
  <2>1. CASE \E l \in Launcher : cur[l] = t
    <3>1. PICK l \in Launcher : cur[l] = t
      BY <2>1
    <3>2. \A m \in Using(t) : m = l
      BY <3>1, StartAssumption DEF Using, IInv, OneLauncher
    <3> QED  BY <1>1, <3>1, <3>2
  <2>2. CASE \A l \in Launcher : cur[l] # t
    BY <1>2, <2>2 DEF ByItself, Using
  <2> QED  BY <2>1, <2>2
<1> QED  BY <1>3, AlwaysGood, PTL

\* ~_thread runs only after thread_main has set THREAD_END: a thread holds a
\* shared_ptr to its own object until then.
THEOREM GoneHasEnded == Spec => []GoneMeansEnded
<1>1. IInv => GoneMeansEnded
  BY DEF IInv, InStep, SideBySide, ByItself, GoneMeansEnded
<1> QED  BY <1>1, AlwaysGood, PTL

(***************************************************************************)
(* ThreadStart implements ThreadLife.                                      *)
(***************************************************************************)
Phase(t) ==
  IF obj[t] = "gone" THEN "gone"
  ELSE IF t \in ended THEN "ended"
  ELSE IF ppid[t] = "known" /\ tpid[t] = "known" /\ Open(t) THEN "running" ELSE "none"
Kept(t) == Open(t) /\ refs[t] \cap Launcher # {}

\* Where the launcher and the thread are tells the phase.
Together(t) == \E l \in Launcher : cur[l] = t /\ at[l] \in Met /\ at[t] \in ThreadMet
View ==
  \A t \in Thread :
    /\ Kept(t) <=> Together(t)
    /\ Phase(t) = IF obj[t] = "gone" THEN "gone"
                  ELSE IF at[t] \in {"drop", "done"} THEN "ended"
                  ELSE IF at[t] \in {"run", "set_end"} \/ Together(t) THEN "running"
                  ELSE "none"

LEMMA ViewIsTrue == IInv => View
<1> USE StartAssumption
<1> SUFFICES ASSUME IInv, NEW t \in Thread
             PROVE  /\ Kept(t) <=> Together(t)
                    /\ Phase(t) = IF obj[t] = "gone" THEN "gone"
                                  ELSE IF at[t] \in {"drop", "done"} THEN "ended"
                                  ELSE IF at[t] \in {"run", "set_end"} \/ Together(t)
                                    THEN "running"
                                  ELSE "none"
  BY DEF View
<1>1. InStep(t)
  BY DEF IInv
<1>2. CASE \E l \in Launcher : cur[l] = t
  <2>1. PICK l \in Launcher : cur[l] = t
    BY <1>2
  <2>2. SideBySide(l, t) /\ \A m \in Launcher : cur[m] = t => m = l
    BY <1>1, <2>1 DEF InStep, IInv, OneLauncher
  <2>3. Open(t) <=> Together(t)
    BY <2>1, <2>2, BothArrived DEF Together
  <2>4. l \in refs[t] /\ obj[t] = "live"
    BY <2>2 DEF SideBySide
  <2>5. Kept(t) <=> Together(t)
    BY <2>3, <2>4 DEF Kept
  <2>6. Together(t) => ppid[t] = "known" /\ tpid[t] = "known"
    BY <1>1, <2>2 DEF Together, InStep, SideBySide, Met, ThreadMet
  <2>7. at[t] \in {"run", "set_end"} => Together(t)
    BY <2>1, <2>2 DEF Together, SideBySide, ThreadMet
  <2> QED  BY <1>1, <2>3, <2>4, <2>5, <2>6, <2>7 DEF Phase, InStep
<1>3. CASE \A l \in Launcher : cur[l] # t
  <2>1. ByItself(t) /\ ~Together(t)
    BY <1>1, <1>3 DEF InStep, Together
  <2>2. ~Kept(t)
    <3>1. CASE obj[t] = "none"
      <4>1. arrived[t] = {}
        BY <2>1, <3>1 DEF ByItself
      <4> QED  BY <4>1, FS_EmptySet DEF Kept, Open
    <3>2. CASE obj[t] # "none"
      BY <2>1, <3>2 DEF ByItself, Kept
    <3> QED  BY <3>1, <3>2
  <2>3. obj[t] = "none" => ~Open(t)
    BY <2>1, FS_EmptySet DEF ByItself, Open
  <2> QED  BY <1>1, <2>1, <2>2, <2>3 DEF Phase, ByItself, InStep, ThreadMet
<1> QED  BY <1>2, <1>3

\* What a step may do to the thread it is about, in the terms of ThreadLife.
Follows(t) ==
  \/ Phase(t)' = Phase(t) /\ (Kept(t)' <=> Kept(t))
  \/ Phase(t) = "none" /\ Phase(t)' = "running" /\ Kept(t)'
  \/ Phase(t) = "running" /\ Phase(t)' = "ended" /\ (Kept(t)' <=> Kept(t))
  \/ /\ Kept(t) /\ ~Kept(t)'
     /\ Phase(t)' = Phase(t) \/ (Phase(t) = "ended" /\ Phase(t)' = "gone")
  \/ Phase(t) = "ended" /\ Phase(t)' = "gone" /\ ~Kept(t) /\ ~Kept(t)'

LEMMA FollowsLife ==
  ASSUME NEW t \in Thread, Follows(t), \A s \in Thread : s # t => Same(s)
  PROVE  [Life!LifeNext]_(Life!lifeVars)
<1> DEFINE phase == [s \in Thread |-> Phase(s)]
           kept == {s \in Thread : Kept(s)}
<1>1. \A s \in Thread : s # t => Phase(s)' = Phase(s) /\ (Kept(s)' <=> Kept(s))
  BY DEF Same, Phase, Kept, Open
<1>2. CASE Phase(t)' = Phase(t) /\ (Kept(t)' <=> Kept(t))
  <2>1. phase' = phase /\ kept' = kept
    BY <1>1, <1>2
  <2> QED  BY <2>1 DEF Life!lifeVars, Phase, Kept
<1>3. CASE Phase(t) = "none" /\ Phase(t)' = "running" /\ Kept(t)'
  <2>1. phase' = [phase EXCEPT ![t] = "running"] /\ kept' = kept \cup {t}
    BY <1>1, <1>3
  <2>2. phase[t] = "none"
    BY <1>3
  <2> QED  BY <2>1, <2>2 DEF Life!LifeNext, Life!Start, Phase, Kept
<1>4. CASE Phase(t) = "running" /\ Phase(t)' = "ended" /\ (Kept(t)' <=> Kept(t))
  <2>1. phase' = [phase EXCEPT ![t] = "ended"] /\ kept' = kept
    BY <1>1, <1>4
  <2>2. phase[t] = "running"
    BY <1>4
  <2> QED  BY <2>1, <2>2 DEF Life!LifeNext, Life!End, Phase, Kept
<1>5. CASE /\ Kept(t) /\ ~Kept(t)'
           /\ Phase(t)' = Phase(t) \/ (Phase(t) = "ended" /\ Phase(t)' = "gone")
  <2>1. t \in kept /\ kept' = kept \ {t}
    BY <1>1, <1>5
  <2>2. \/ phase' = phase
        \/ phase[t] = "ended" /\ phase' = [phase EXCEPT ![t] = "gone"]
    BY <1>1, <1>5
  <2> QED  BY <2>1, <2>2 DEF Life!LifeNext, Life!Give, Phase, Kept
<1>6. CASE Phase(t) = "ended" /\ Phase(t)' = "gone" /\ ~Kept(t) /\ ~Kept(t)'
  <2>1. phase' = [phase EXCEPT ![t] = "gone"] /\ kept' = kept
    BY <1>1, <1>6
  <2>2. phase[t] = "ended" /\ t \notin kept
    BY <1>6
  <2> QED  BY <2>1, <2>2 DEF Life!LifeNext, Life!Die, Phase, Kept
<1> QED  BY <1>2, <1>3, <1>4, <1>5, <1>6 DEF Follows

\* A launcher's step that is not seen, and keeps to its thread t.
LEMMA Unseen ==
  ASSUME View, View', NEW t \in Thread,
         Together(t)' <=> Together(t), UNCHANGED obj,
         \/ at'[t] = at[t]
         \/ Together(t) /\ at[t] = "wait" /\ at'[t] = "run"
         \/ {at[t], at'[t]} \subseteq {"none", "adopt", "set_tpid", "arrive"}
         \/ {at[t], at'[t]} \subseteq {"run", "set_end"}
  PROVE  Follows(t)
BY DEF View, Follows

LEMMA LauncherFollows ==
  ASSUME IInv, View, View', NEW l \in Launcher, NEW t \in Thread, cur[l] = t,
         SideBySide(l, t), LauncherStep(l)
  PROVE  [Life!LifeNext]_(Life!lifeVars)
<1> USE StartAssumption
<1> DEFINE Others == \A s \in Thread : s # t => Same(s)
<1>1. l # t
  OBVIOUS
<1>2. \A m \in Launcher : cur[m] = t <=> m = l
  BY DEF IInv, OneLauncher
<1>3. Together(t) <=> at[l] \in Met /\ at[t] \in ThreadMet
  BY <1>2 DEF Together
<1>4. cur' = cur => (Together(t)' <=> at'[l] \in Met /\ at'[t] \in ThreadMet)
  BY <1>2 DEF Together
<1>5. ASSUME NEW x, Go(l, x) PROVE at'[l] = x /\ at'[t] = at[t]
  BY <1>1, <1>5, OneMoves DEF IInv
<1>6. CASE Create(l)
  <2>1. /\ at[l] = "create" /\ at[t] = "none" /\ at'[l] = "set_ppid"
        /\ at'[t] \in {"none", "adopt"} /\ UNCHANGED <<objVars, barVars, pool, cur>>
    <3>1. at[l] = "create" /\ at[t] = "none" /\ UNCHANGED <<objVars, barVars, pool, cur>>
      BY <1>6 DEF Create, SideBySide
    <3>2. CASE at' = [at EXCEPT ![l] = "set_ppid", ![t] = "adopt"]
      BY <1>1, <3>1, <3>2 DEF IInv, TypeOK
    <3>3. CASE Go(l, "set_ppid")
      BY <1>5, <3>1, <3>3
    <3> QED  BY <1>6, <3>1, <3>2, <3>3 DEF Create
  <2>2. Follows(t)
    BY <1>3, <1>4, <2>1, Unseen DEF Met, ThreadMet, objVars
  <2>3. Others
    BY <2>1 DEF Same, objVars, barVars
  <2> QED  BY <2>2, <2>3, FollowsLife
<1>7. CASE SetPpid(l)
  <2>1. at[l] = "set_ppid" /\ at'[l] = "arrive" /\ at'[t] = at[t]
    BY <1>5, <1>7 DEF SetPpid
  <2>2. Follows(t)
    <3>1. obj' = obj /\ cur' = cur
      BY <1>7 DEF SetPpid
    <3>2. Together(t)' <=> Together(t)
      BY <1>3, <1>4, <2>1, <3>1 DEF Met
    <3> QED  BY <2>1, <3>1, <3>2, Unseen
  <2>3. Others
    BY <1>7 DEF SetPpid, IInv, TypeOK, Same, barVars
  <2> QED  BY <2>2, <2>3, FollowsLife
<1>8. CASE StartWait(l)
  <2>1. at[l] = "arrive" /\ at'[l] = "wait" /\ at'[t] = at[t]
    BY <1>5, <1>8 DEF StartWait
  <2>2. Others
    BY <1>8 DEF StartWait, Arrive, IInv, TypeOK, Same, objVars
  <2>3. CASE at[t] \in ThreadMet
    <3>1. at[t] = "wait" /\ obj[t] = "live" /\ obj' = obj
      BY <1>8, <2>1, <2>3 DEF SideBySide, Met, StartWait, objVars
    <3>2. ~Together(t) /\ Together(t)'
      BY <1>3, <1>4, <1>8, <2>1, <2>3 DEF StartWait, Met
    <3>3. Follows(t)
      BY <2>1, <3>1, <3>2 DEF View, Follows
    <3> QED  BY <2>2, <3>3, FollowsLife
  <2>4. CASE at[t] \notin ThreadMet
    <3>1. obj' = obj /\ cur' = cur
      BY <1>8 DEF StartWait, objVars
    <3>2. ~Together(t) /\ ~Together(t)'
      BY <1>3, <1>4, <2>1, <2>4, <3>1
    <3>3. Follows(t)
      BY <2>1, <3>1, <3>2, Unseen
    <3> QED  BY <2>2, <3>3, FollowsLife
  <2> QED  BY <2>3, <2>4
<1>9. CASE GoOn(l)
  <2>1. at[l] = "wait" /\ at'[l] = "free" /\ at'[t] = at[t]
    BY <1>5, <1>9 DEF GoOn
  <2>2. Follows(t)
    <3>1. obj' = obj /\ cur' = cur
      BY <1>9 DEF GoOn, objVars
    <3>2. Together(t)' <=> Together(t)
      BY <1>3, <1>4, <2>1, <3>1 DEF Met
    <3> QED  BY <2>1, <3>1, <3>2, Unseen
  <2>3. Others
    BY <1>9 DEF GoOn, Leave, IInv, TypeOK, Same, objVars
  <2> QED  BY <2>2, <2>3, FollowsLife
<1>10. CASE FreeBarrier(l)
  <2>1. at[l] = "free" /\ at'[l] = "register" /\ at'[t] = at[t]
    BY <1>5, <1>10 DEF FreeBarrier
  <2>2. Follows(t)
    <3>1. obj' = obj /\ cur' = cur
      BY <1>10 DEF FreeBarrier, objVars
    <3>2. Together(t)' <=> Together(t)
      BY <1>3, <1>4, <2>1, <3>1 DEF Met
    <3> QED  BY <2>1, <3>1, <3>2, Unseen
  <2>3. Others
    BY <1>10 DEF FreeBarrier, IInv, TypeOK, Same, objVars
  <2> QED  BY <2>2, <2>3, FollowsLife
<1>11. CASE Register(l)
  <2>1. at[l] = "register" /\ at'[l] = "drop" /\ at'[t] = at[t]
    BY <1>5, <1>11 DEF Register
  <2>2. Follows(t)
    <3>1. obj' = obj /\ cur' = cur
      BY <1>11 DEF Register, objVars
    <3>2. Together(t)' <=> Together(t)
      BY <1>3, <1>4, <2>1, <3>1 DEF Met
    <3> QED  BY <2>1, <3>1, <3>2, Unseen
  <2>3. Others
    BY <1>11 DEF Register, Same, objVars, barVars
  <2> QED  BY <2>2, <2>3, FollowsLife
<1>12. CASE Forget(l)
  <2>1. /\ at[l] = "drop" /\ at'[t] = at[t] /\ TypeOK
        /\ at[t] \in {"run", "set_end", "drop", "done"} /\ obj[t] = "live"
    BY <1>5, <1>12 DEF Forget, SideBySide, ThreadMet, IInv
  <2>2. Together(t) /\ ~Together(t)'
    BY <1>2, <1>3, <1>12, <2>1 DEF Forget, Met, ThreadMet, Together, TypeOK
  <2>3. obj'[t] = "live" \/ (obj'[t] = "gone" /\ at[t] = "done")
    <3>1. Drop(l, t)
      BY <1>12 DEF Forget
    <3>2. refs[t] = {l} => at[t] = "done"
      BY <1>1, <2>1 DEF SideBySide, Adopted
    <3>3. CASE refs[t] = {l}
      BY <2>1, <3>1, <3>2, <3>3 DEF Drop, TypeOK
    <3>4. CASE refs[t] # {l}
      BY <2>1, <3>1, <3>4 DEF Drop, TypeOK
    <3> QED  BY <3>3, <3>4
  <2>4. Kept(t) /\ ~Kept(t)'
    BY <2>2 DEF View
  <2>5. \/ Phase(t)' = Phase(t)
        \/ Phase(t) = "ended" /\ Phase(t)' = "gone"
    <3>1. CASE at[t] \in {"run", "set_end"}
      BY <2>1, <2>3, <3>1 DEF View
    <3>2. CASE at[t] \in {"drop", "done"}
      BY <2>1, <2>3, <3>2 DEF View
    <3> QED  BY <2>1, <3>1, <3>2
  <2>6. Follows(t)
    BY <2>4, <2>5 DEF Follows
  <2>7. Others
    BY <1>12 DEF Forget, Drop, IInv, TypeOK, Same
  <2> QED  BY <2>6, <2>7, FollowsLife
<1> QED  BY <1>6, <1>7, <1>8, <1>9, <1>10, <1>11, <1>12 DEF LauncherStep

LEMMA ConstructFollows ==
  ASSUME IInv, View, View', NEW l \in Launcher, NEW t \in Thread, Construct(l, t)
  PROVE  [Life!LifeNext]_(Life!lifeVars)
<1> USE StartAssumption
<1>1. \A m \in Launcher : cur[m] # t
  BY DEF Construct, IInv, InStep, SideBySide
<1>2. at[t] = "none" /\ at'[l] = "create" /\ at'[t] = at[t]
  BY <1>1, OneMoves DEF Construct, IInv, InStep, ByItself
<1>3. ~Together(t) /\ ~Together(t)'
  BY <1>2 DEF Together, ThreadMet
<1>4. obj[t] = "none" /\ obj'[t] = "live"
  BY DEF Construct, IInv, TypeOK
<1>5. Follows(t)
  BY <1>2, <1>3, <1>4 DEF View, Follows
<1>6. \A s \in Thread : s # t => Same(s)
  BY DEF Construct, IInv, TypeOK, Same
<1> QED  BY <1>5, <1>6, FollowsLife

LEMMA ThreadFollows ==
  ASSUME IInv, View, View', NEW t \in Thread, ThreadStep(t)
  PROVE  [Life!LifeNext]_(Life!lifeVars)
<1> USE StartAssumption
<1> DEFINE Others == \A s \in Thread : s # t => Same(s)
<1>1. ASSUME NEW x, Go(t, x) PROVE at'[t] = x
  BY <1>1, OneMoves DEF IInv
<1>2. \A l \in Launcher : at'[l] = at[l]
  BY OneMoves
  DEF ThreadStep, Adopt, SetTpid, ThreadWait, Run, FunEnds, SetEnd, Exit, IInv
<1>3. InStep(t)
  BY DEF IInv
<1>4. CASE Adopt(t)
  <2>1. at[t] = "adopt" /\ at'[t] = "set_tpid" /\ obj' = obj /\ cur' = cur
    BY <1>4, <1>1 DEF Adopt
  <2>2. Together(t)' <=> Together(t)
    BY <1>2, <2>1 DEF Together, ThreadMet
  <2>3. Follows(t)
    BY <2>1, <2>2, Unseen
  <2>4. Others
    BY <1>4 DEF Adopt, barVars, IInv, TypeOK, Same
  <2> QED  BY <2>3, <2>4, FollowsLife
<1>5. CASE SetTpid(t)
  <2>1. at[t] = "set_tpid" /\ at'[t] = "arrive" /\ obj' = obj /\ cur' = cur
    BY <1>5, <1>1 DEF SetTpid
  <2>2. Together(t)' <=> Together(t)
    BY <1>2, <2>1 DEF Together, ThreadMet
  <2>3. Follows(t)
    BY <2>1, <2>2, Unseen
  <2>4. Others
    BY <1>5 DEF SetTpid, barVars, IInv, TypeOK, Same
  <2> QED  BY <2>3, <2>4, FollowsLife
<1>6. CASE ThreadWait(t)
  <2>1. at[t] = "arrive" /\ at'[t] = "wait" /\ obj' = obj /\ cur' = cur
    BY <1>6, <1>1 DEF ThreadWait, objVars
  <2>2. ~Together(t)
    BY <2>1 DEF Together, ThreadMet
  <2>3. Others
    BY <1>6 DEF ThreadWait, Arrive, objVars, IInv, TypeOK, Same
  <2>4. obj[t] = "live"
    BY <1>3, <2>1 DEF InStep, SideBySide, ByItself
  <2>5. Follows(t)
    BY <2>1, <2>2, <2>4 DEF View, Follows
  <2> QED  BY <2>3, <2>5, FollowsLife
<1>7. CASE Run(t)
  <2>1. at[t] = "wait" /\ at'[t] = "run" /\ obj' = obj /\ cur' = cur /\ Open(t)
    BY <1>7, <1>1 DEF Run, Leave, objVars
  <2>2. PICK l \in Launcher : cur[l] = t
    BY <1>3, <2>1 DEF InStep, ByItself
  <2>3. at[l] \in Met
    BY <1>3, <2>1, <2>2, BothArrived DEF InStep
  <2>4. Together(t) /\ Together(t)'
    BY <1>2, <2>1, <2>2, <2>3 DEF Together, ThreadMet
  <2>5. Follows(t)
    BY <2>1, <2>4, Unseen
  <2>6. Others
    BY <1>7 DEF Run, Leave, objVars, IInv, TypeOK, Same
  <2> QED  BY <2>5, <2>6, FollowsLife
<1>8. CASE FunEnds(t)
  <2>1. at[t] = "run" /\ at'[t] = "set_end" /\ obj' = obj /\ cur' = cur
    BY <1>8, <1>1 DEF FunEnds, objVars
  <2>2. Together(t)' <=> Together(t)
    BY <1>2, <2>1 DEF Together, ThreadMet
  <2>3. Follows(t)
    BY <2>1, <2>2, Unseen
  <2>4. Others
    BY <1>8 DEF FunEnds, objVars, barVars, IInv, TypeOK, Same
  <2> QED  BY <2>3, <2>4, FollowsLife
<1>9. CASE SetEnd(t)
  <2>1. at[t] = "set_end" /\ at'[t] = "drop" /\ obj' = obj /\ cur' = cur
    BY <1>9, <1>1 DEF SetEnd
  <2>2. Together(t)' <=> Together(t)
    BY <1>2, <2>1 DEF Together, ThreadMet
  <2>3. obj[t] = "live"
    BY <1>3, <2>1 DEF InStep, SideBySide, ByItself
  <2>4. Follows(t)
    BY <2>1, <2>2, <2>3 DEF View, Follows
  <2>5. Others
    BY <1>9 DEF SetEnd, barVars, Same
  <2> QED  BY <2>4, <2>5, FollowsLife
<1>10. CASE Exit(t)
  <2>1. at[t] = "drop" /\ at'[t] = "done" /\ cur' = cur /\ Drop(t, t)
    BY <1>10, <1>1 DEF Exit
  <2>2. Together(t)' <=> Together(t)
    BY <1>2, <2>1 DEF Together, ThreadMet
  <2>3. obj[t] = "live"
    BY <1>3, <2>1 DEF InStep, SideBySide, ByItself
  <2>4. obj'[t] = "live" \/ (obj'[t] = "gone" /\ ~Together(t))
    <3>1. CASE refs[t] = {t}
      <4>1. ~Together(t)
        BY <1>3, <3>1 DEF Together, InStep, SideBySide
      <4> QED  BY <2>1, <3>1, <4>1 DEF Drop, IInv, TypeOK
    <3>2. CASE refs[t] # {t}
      BY <2>1, <2>3, <3>2 DEF Drop
    <3> QED  BY <3>1, <3>2
  <2>5. Follows(t)
    BY <2>1, <2>2, <2>3, <2>4 DEF View, Follows
  <2>6. Others
    BY <1>10 DEF Exit, Drop, IInv, TypeOK, Same
  <2> QED  BY <2>5, <2>6, FollowsLife
<1> QED  BY <1>4, <1>5, <1>6, <1>7, <1>8, <1>9, <1>10 DEF ThreadStep

LEMMA StepFollows == IInv /\ View /\ View' /\ [Next]_vars => [Life!LifeNext]_(Life!lifeVars)
<1> SUFFICES ASSUME IInv, View, View', [Next]_vars
             PROVE  [Life!LifeNext]_(Life!lifeVars)
  OBVIOUS
<1>1. CASE \E l \in Launcher, t \in Thread : Construct(l, t)
  BY <1>1, ConstructFollows
<1>2. ASSUME NEW l \in Launcher, LauncherStep(l) PROVE [Life!LifeNext]_(Life!lifeVars)
  <2>1. at[l] # "idle"
    BY <1>2 DEF LauncherStep, Create, SetPpid, StartWait, GoOn, FreeBarrier, Register, Forget
  <2>2. PICK t \in Thread : cur[l] = t /\ SideBySide(l, t)
    BY <2>1, Launching
  <2> QED  BY <1>2, <2>2, LauncherFollows
<1>3. CASE \E t \in Thread : ThreadStep(t)
  BY <1>3, ThreadFollows
<1>4. CASE UNCHANGED vars
  BY <1>4 DEF vars, objVars, barVars, Life!lifeVars, Open
<1> QED  BY <1>1, <1>2, <1>3, <1>4 DEF Next, Terminated

\* The whole start, two threads and a barrier, does what ThreadLife says in four
\* steps: the ids become known together and before either goes on, the function
\* runs once, and the object is destroyed by the later of the two that own it.
THEOREM Implements == Spec => LifeSpec
<1>1. Init => Life!LifeInit
  BY StartAssumption, FS_EmptySet DEF Init, Life!LifeInit, Open
<1> QED
  BY <1>1, AlwaysGood, ViewIsTrue, StepFollows, PTL DEF Spec, LifeSpec, Life!LifeSpec
===============================================================================

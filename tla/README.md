# light_shadow: a TLA+ model of the server skeleton

light_shadow is the skeleton of an HTTP server in C++: a command line, a
configuration file, a daemon, a registry of threads, two lock guards and the
beginning of an event loop. This directory holds TLA+ modules that model it, TLC
configurations that check them on small instances, and proofs for TLAPS of what
holds for every instance. All line numbers are those of `src/source/`.

    tlc -config pool_setters.cfg MCThreadPool.tla     # one run
    tlapm ThreadPoolProofs.tla                        # one module's proofs

## The system and its parts

| part | state | operations | hard to get right |
|---|---|---|---|
| `thread_pool` (thread.cpp 267-666) | per kind (I/O, calculation): kernel id -> `weak_ptr<_thread>`, `pthread_t` -> kernel id, a lock; counters of free places under `other_lock` | `set_thread`, `remove`, two `get_thread`, getters of counters | several setters, destructors that run `remove` in whatever thread drops the last `shared_ptr`, lookups that unlock half-way, roll backs, reused kernel ids, an unsigned counter |
| `_thread`, `thread<F>` (thread.h 67-158, thread.cpp 12-265) | both ids, state, a barrier for two, a `weak_ptr` to the pool | constructor, `start`, `start_wait`, `thread_main`, setters, destructor | ids written by two threads at either side of `pthread_create`; a raw `this`; a barrier that one party frees; an object that owns itself while its function runs |
| `rwlock` (rwlock.h) | the bits the guard remembers of what it holds | constructor, `locked`, `unlock`, `operator bool`, destructor | unlock early, lock again, convert; the guard must know what it holds |
| `mutex_lock` (mutex_lock.h) | the same for a mutex | the same | the same |
| event loop's gate (eventloop.cpp 245-317) | `wait`, a mutex, a condition | `loop_wait`, `loop_continue`, `loop_end`, `start` | signals sent without the mutex, spurious wakeups, a request while the loop is awake |
| event loop's dispatcher (eventloop.cpp 318-410) | maps from descriptors to callbacks, events of two rounds | dispatch, `add_fd` | cannot be reached: it follows a `while(1)` |
| `epoll_fd` (eventloop.cpp 18-69) | array of events and its size | `wait` | grows and shrinks; bytes taken for events |
| `insert_func_fd` (eventloop.cpp 71-152) | queue, mutex, eventfd | `insert_func`, `do_func` | an edge that is reported once against five functions at a time; the mutex given back for each function, which may queue others |
| `_fd`, `fd_callback` (fd.h) | descriptor, events, functions, a lock | setters, getters, calls | calls made under the lock |
| `conf` (conf.h, conf.cpp) | fields, state bits, a lock | constructor, ten getters, ten setters, `get_conf_err`, `get_conf_message` | lines in any order, without a word, with a word that is no number; twenty copied methods |
| `arg` (arg.h, arg.cpp) | path, state bits | constructor, `get_state`, `get_conf_file_path` | getopt's indices |
| `init`, `light_shadow` (init.cpp, light_shadow.cpp) | singleton's state and pool; which process this is | `get_light_shadow`, `set_pool`, `get_pool`, `init::init`, `daemonize` | a failure at any of ten stages, before or after a fork, and what it leaves; threads that a fork does not inherit; later calls |

How they interact: `light_shadow::get_light_shadow` runs `init::init` once; init
reads `arg`, then `conf`, makes the `thread_pool`, stores it in `light_shadow`,
daemonizes, and launches two threads, one I/O and one of both kinds: construct,
`start`, `start_wait`, `set_thread`, let the `shared_ptr` go. A `_thread` owns
itself through the `shared_ptr` its function is given; when the last owner lets
go, `~_thread` runs `thread_pool::remove`. All classes lock with the guards of
rwlock.h and mutex_lock.h, but `conf`, which calls pthreads itself. The event loop
is not built by the makefile and has no user yet.

## The modules

| module | models | composes |
|---|---|---|
| `ThreadPool` | thread_pool, and as much of a thread's life as the pool sees | refines `Registry` |
| `Registry` | abstract: what a pool promises who registers threads and looks them up | |
| `ThreadStart` | `_thread`, `thread<F>` and their launch by init | refines `ThreadLife` |
| `ThreadLife` | abstract: what starting a thread promises | |
| `GuardLock` | rwlock.h over glibc's lock | |
| `LoopGate` | the reachable part of the event loop, with mutex_lock.h | |
| `InsertQueue` | insert_func_fd: the queue of functions, its eventfd, do_func | |
| `EventLoop` | the threads that use a loop's gate and queue, and the functions they queue | `LoopGate`, `InsertQueue` |
| `Conf` | conf: its constructor, getters and setters | |
| `Startup` | arg, init, daemonize, light_shadow | `Conf` |
| `MC...` | instances for TLC: values, types of threads, symmetry | |
| `...Proofs` | theorems, see *What is proved* | |

In each module the definitions headed *Slip* stand before the definition they
spoil. They are plausible mistakes of the code, used only to see that each
property would notice them (PROJECT.json, `mutants`).

### ThreadPool

`thread_map`, `pthread_to_pid`, `surplus` and `lock` are indexed by the kind of
thread and stand for the two copies of each member of `thread_pool_data`. `op[a]`
is the pool operation actor `a` executes: its next step, thread, kind, the
`thread_type` it was given and the kernel id a lookup has read.

A step is one critical section, or the part of one before another lock is
requested. `set_thread` is `SetThread`, `SetCheck` (surplus read under
`other_lock`, which is released), `SetLock`, `SetInsert` (both maps, under the
lock of the kind), `SetCount` (the counter, under both locks; or the roll back).
`remove` is `Destroy` (the destructor starts it), `RemoveLock`, `RemoveErase`,
`RemoveCount`. The lookup by `pthread_t` is `Find` then `Fetch`, with no lock in
between. Sections under a read lock, or under `other_lock`, are atomic, for no
writer is inside and they ask for nothing more; so readers need no state in the
model. Failing lock requests are branches that `LockFail` switches on, for the
requests whose result the code tests. The one at `SetLock` (460, 509), which it does
not test, always succeeds: it blocks on a valid lock its caller does not hold, and if
it were refused all the same two threads would be in one `std::map`, of which nothing
can be said.

Threads are never joined, so the `pthread_t` is the object. The kernel id is one of
`Tid`; `TidReuse` lets the kernel give out the id of a thread that has finished
while somebody still owns its object. `UMax` is the width of the counters.
`asked` and `accepted` (by kind) are history variables.

The pool outlives its threads in the model, as it does while `light_shadow` holds
it. Getters of the counters read one number under a lock and are left out.

`Registry` says what all this is for, in three variables: the members of each kind, the
life of each object, the answer of each lookup. Admitting, dismissing and looking up
are one step each; a kind never has more members than places, a thread is admitted while
somebody owns it, a member may be dismissed from when it is dying (a member that dies is not
promised to be dismissed, for `remove` may be refused a lock), and a lookup yields a member.
ThreadPool maps to it by `Members`: a thread is a member (`Settled`) from the step in
which `set_thread` has counted its place to the one in which `remove` erases its entry.
The sections before and after, roll backs included, are stutters. `RegistrySpec` is
checked as a property, and proved, for ids that are not reused. With reused ids the lookup
by `pthread_t` may answer another thread than the one asked for, because it unlocks between
its two maps (369): that thread then had the same kernel id before or after it. What is left
is `LookupAnswers`, checked in `pool_failures` and proved without hypotheses: the answer is
a thread that was accepted, with the kernel id that was looked up, and of two threads that
are both running it is never the wrong one.

### ThreadStart and ThreadLife

`at` is the next step of each launcher and thread; `arrived` and `inside` are
pthreads' barrier, whose destruction waits until nobody is inside; `refs` are the
owners of the object. `Create` is `pthread_create`, after which both sides run;
when it fails the launcher goes on nevertheless, as start's caller does not look
(init.cpp 109, 117), and stays at the barrier: `Stranded`. Exceptions of the
function are caught (thread.h 150), so `FunEnds` is one action.

`ThreadLife` has four phases, none, running, ended, gone, and says that the ids
become known together, before function and launcher go on, and that the object
dies after both. `Life` in ThreadStart maps the phase to the barrier, the ids, the
THREAD_END bit and the object; `LifeSpec` is checked as a property.

### GuardLock

`writer` and `reads` are the lock, `state[a]` the bits of the guard of thread `a`,
`request[a]` the pthreads call it is in. A default lock of glibc refuses its own
writer whatever it asks for (EDEADLK, EBUSY), refuses a try when it is not free,
and lets everything else wait. `Convert` allows `locked` on a guard that holds the
other mode, which the class admits and no caller does.

### LoopGate

`loop` says where `start` is: at the gate, testing with the mutex, asleep in
`pthread_cond_wait`, woken and waiting for the mutex, awake with it, ended. Sleeping
and releasing the mutex is one step; waking and getting the mutex are two; there
are spurious wakeups. A call of `loop_continue` or `loop_end` is three steps: lock,
set and unlock, signal.

### InsertQueue

`que` is the queue, its functions numbered in the order they were pushed; `counter`
says whether the count of the eventfd is above zero and `edge` whether it was added
to since epoll last looked. `insert_func` is `BeginInsert` (the guard's constructor),
`Push` (push, unlock) and `Write` (the eventfd). `do_func` is `ReadCounter`, which
empties the eventfd before the queue is looked at, then `Relock`, `Take`, `RunEnds`
for each function, and `Answer`. The function runs without the mutex and may itself
insert. `Report` is what do_func sees of epoll and the round: an edge is reported
once, and only while the descriptor is readable. This idealises the code: the round
(318-378) follows a `while(1)` and is not reached, and `add_fd` registers a mask nothing
has set (403), so that no function runs at all. The module says what `insert_func` and
`do_func` would do under a round that is reached and a mask `EPOLLIN|EPOLLET`, and claims
safety only; in `EventLoop` nothing is assumed to move the dispatcher. What `do_func` answers
(`NOT_FINISH` when it stopped at its fifth function) is dropped by the round, so
`Answer` has no effect on what is reported. `ran`, `pushed` and `burst` are history.

### EventLoop

The two parts of one `eventloop_data` share no member, but they share threads: a
thread that steers the loop is the thread that queues functions, one call after the
other, and a queued function may do both while `do_func` runs it. `EventLoop` EXTENDS
both modules and interleaves their steps under that condition (`MayCall`,
`RunEnds` only when the function's own calls are over). The thread that waits at the
gate and the dispatcher are two in the model, because `start` never leaves its gate.

### Conf

A file is any sequence of the lines `Line`, each a key and a word; `Number` and
`Absolute` are functions on words that stand for `>>` into an unsigned and for
`path_to_absolute_path`. `state` is the set of bits that are set. After the file
the getters and setters are called in any order, for the fields `Asked` and the words
`Input`; `Source` says which member a getter copies. The constructor asks
`get_conf_err` and `get_conf_message` again until they get the lock (77-80, 84-87): rounds
that change nothing, left out as stutters. `lines` is a history variable, and
forgotten when the file is closed, so that what follows does not depend on it.

### Startup

`stage` is the next stage of `init::init`, in the order of the code: the directory of
the binary, the command line, the file, the pool, and then daemonize with its limit,
first fork, SIGHUP, second fork and root directory, and the launch of two threads.
The test of the file fails for what the file says or because one of conf's getters is
refused the lock (init.cpp 67, 73-74).
`NextStage` is that order. Each stage goes on or ends init (`Fail`), and what the
stages before did stays: the pool in the singleton, the object of conf (which is
static), the process. `get_light_shadow` is `FirstCall`, which makes the static object
and runs init, and `LaterCall`, which returns what its state tells.

`Parsed` is what getopt makes of a command line with the pattern `c:h`, word by word:
which bits `arg` sets, and the path, which is the word after the argument of `-c`
because the code takes `argv[optind]`. `given` keeps the argument itself.

Launching a thread is one step of Startup that goes well or leaves init at the
barrier for ever; ThreadStart has it in detail. A fork that goes well is the step to the
child, whose number of threads is zero: the parent exits at once. There is one caller of
`get_light_shadow`, as in the repository (test.cpp 4).

## The runs

| run | instance | states | question |
|---|---|---|---|
| `pool_client` | 1 setter, 1 client, 2 threads, 1 I/O place, threads submitted again, fair | 167 000 | are places accounted for and accepted threads found; does the pool implement Registry; does every call return? |
| `pool_setters` | 2 setters, 3 threads, one of them without a type, 1 place per kind | 48 000 | do the maps agree, are destroyed threads not found, do the places come back, when setters compete and overfill? |
| `pool_failures` | 1 setter, 1 client, 2 threads of both kinds, every tested request may fail, ids reused, threads submitted again | 1 370 000 | does a refusal leave nothing in either map, is no place given twice, what may a lookup answer? |
| `pool_atypism` | ids reused | violation | the branch of `assert("thread_pool atypism\n")` is reached |
| `pool_surplus` | 2 setters, 3 threads, 1 place | violation | `assert(surplus<=num)` fails |
| `start` | 2 launchers, 3 threads, creation may fail, fair | 76 000 | the safety of the start, its refinement of ThreadLife, its liveness |
| `guard_use` | 3 threads, no conversion | 1 650 | do guards hold what they claim and nothing else, and release it? |
| `guard_leak` | conversion | violation | the destructor does not release |
| `eventloop` | 2 threads and the functions they queue, 3 functions, batch of 2, fair | 66 600 | no missed continue, heard continue and end; functions run at most once, in order, and not left behind unannounced |
| `startup` | 7 command lines, files of up to 4 of 11 lines, 1 call of the conf, 2 of get_light_shadow, fair | 65 000 | is what is handed out ready, is a failure final, does the help start nothing, does init end; conf's state and fields against a reference |
| `startup_conf_path` | `-c f g` among the command lines | violation | the file read is not the argument of `-c` |
| `conf_bind_ip` | 2 calls of the conf | violation | `get_bind_ip` answers another field |

Why the bounds are enough. *Threads and places*: the races over the pool are
between two operations of one kind and a third thread that has made the pool full
or is leaving it; with one place and three threads, one of them of both kinds, each
kind fills, overfills, falls back and empties. Two overfilling threads, a third that
the wrapped counter admits, and one removal are what SurplusAssertion takes. A thread that registers alone cannot overfill,
and there `WithinCapacity` and `PlacesAddUp` hold. *Kernel ids*: one id shared by two threads
is what reuse is about. *Launchers*: start involves one launcher and one thread; a
second launcher and thread bring the sharing of the pool and of nothing else.
*Guards*: one writer and two readers, one of them waiting. *The event loop*: a
thread that sets, one that signals late, one that overwrites, of which one is the
function that the loop runs. *Functions*: three against a batch of two is one more than a
wakeup may run, and one inserted while another runs; Batch is 5 in the code, and the
theorems hold for every batch. *Lines*: four are what a file needs for a start, three
settings of the database and `io_thread_num`; two are enough to repeat a key or to give it
without a word. *Command lines*: none, both forms of `-c`, `-c` without an argument, the
help, a bad option, both. *Calls*: one of the conf, which no stage looks at any more, and
in `conf_bind_ip` a set and a get; a call after the first one of `get_light_shadow`.
`UMax = 3`, `MaxReads`, `MaxInserts`, `MaxLines`, `MaxCalls` and `MaxAsks` are bounds; none
hides an overflow: the counters of the pool do wrap in the runs.

Deadlock is checked in every passing run. `Terminated` marks the states where the
system may stop: all threads over and destroyed, or launchers stranded by
`pthread_create`; `Stopped` of Startup is the same of init, or all calls made. `guard_leak`
is not checked for deadlock: a lock that is never released is what it is about.

### Fairness

`ThreadPool` and `ThreadStart`: each thread that can take its next step takes it in
the end (weak fairness per actor), which is the scheduler's promise. Nothing has to
call, construct, or drop a reference of its own accord, except that a launcher goes
on with what it has begun and a thread function comes to an end. Nothing is assumed of
the pool's locks beyond that: a setter that submits threads without end may keep a lookup
from its lock for ever, so `EveryCallReturns` excepts endless submission, and says that
otherwise every call returns although no request fails.
`EventLoop`: calls that steer the loop, once begun, go on (weak); the loop gets the mutex of
the gate if it is free again and again (strong), for no caller keeps it. Nothing makes the
dispatcher move, nobody need call, and spurious wakeups need not happen. `Startup`: the
process that runs init is scheduled (weak fairness of `InitStep`), the lock conf's
constructor asks for again and again, which nobody else has yet, is granted, and nobody
need call `get_light_shadow`.

### What the violations show

* `pool_atypism`. T1 ends while its object is still owned, so the pool keeps its
  entry. The kernel gives its id to T2. `set_thread(T2)` is refused; `~_thread` of T2
  calls `remove` all the same, erases by kernel id the entry of T1 and does not find
  its own `pthread_t`: the branch thread.cpp 574 takes for impossible. Its
  `assert("...")` is always true, so nothing stops. T1's place is not given back.
* `pool_surplus`. The surplus is tested in one critical section of `other_lock` (441)
  and counted down in another (482). Two setters take the last place, and the counter
  goes 1, 0, maximum. A removal now would bring it back to 0, and the assertion of 584
  would hold; but a third thread is admitted first, for the maximum is not `<=0`, and
  counts it down once more, so that the next removal leaves the counter at its maximum.
  `pool_setters` shows that the maps agree in spite of that, that destroyed threads
  are not found, and that the counter is right again when all have left; init registers from one thread only.
* `guard_leak`. `locked` on a guard that holds the other mode overwrites the state when
  it is refused; the destructor then does not release (rwlock.h 187), against the
  comment of 33.
* `startup_conf_path`. arg stores `argv[optind]` when getopt has answered `c` (arg.cpp 45),
  but `optind` is past the option's argument by then: `-c f g` reads `g`, `-c f` the
  default file. arg.h 23 and the message of arg.cpp 57 say otherwise.
* `conf_bind_ip`. `get_bind_ip` copies `db_ip` (conf.cpp 286), against conf.h 44.

Two more things the models show and no line of the repository denies. When more than five
functions are in the queue at a wakeup, and the round were reached, the rest wait until
somebody inserts again, for `NOT_FINISH` is dropped (eventloop.cpp 145); `NoneStranded`
excepts that case by `burst`, and nothing else. And a lookup by `pthread_t` may answer a
thread that has got the kernel id of the one that was asked for (thread.cpp 369).

## What is proved

All proofs are checked by tlapm, for any number of threads, setters, clients, launchers,
ids and callers, any file and command line, and need the named assumptions on the
constants (disjointness of the sets of actors, ranges of the numbers) and, for the pool,
the hypotheses each theorem states. Every safety property of a passing run is the
statement of a theorem.

* **ThreadPoolProofs.** `TypeCorrect`; `MutualExclusion` (the maps of a kind have one
  writer); and, unless kernel ids are reused, `MapsAgreeAlways` and `NeverAtypical`:
  the maps of a kind are mirror images at every moment, and remove never reaches the
  atypism branch, whatever lock requests fail. MapsAgree is not inductive: a step of
  `SetInsert` keeps it only if its actor holds the lock (`LockInv`), the thread has an
  id (`OpInv`), no other thread has that id (`OneThreadPerTid`) and the second map
  knows the thread by no other id (`IndexInv`). `Base` collects the first two with
  TypeOK, and is proved first; the others build on it. `OneThreadPerTid` is where
  `TidReuse = FALSE` is used, and `pool_atypism` shows that it is needed.
* **ThreadStartProofs.** `TypeCorrect`, `IdsAreKnown`, `NeverDangling`, `BarrierIsThere`,
  `GoneHasEnded`, and `Implements`: ThreadStart implements ThreadLife. All follow from one
  inductive invariant, `IInv`, which says where the two may be: a launcher and its thread
  are `SideBySide`, and owners, arrivals, barrier and ids are functions of their two places;
  a thread without a launcher is `ByItself`, not begun, running on its own, or gone. Each
  launcher has one thread and each thread at most one launcher (`OneLauncher`), so a step
  touches one pair and `OthersKeep` the rest. `BothArrived`, a fact about cardinalities, is
  what the barrier adds. For the refinement, `View` reads the abstract phase off the two
  places, and `Follows` lists what a step may do to it; `FollowsLife` turns each case into a
  step of ThreadLife, `Unseen` covers the steps that are none.
* **StartupProofs.** `ServedIsAlwaysReady`, `AnswersAlwaysAgree`, `HelpNeverStarts`, from an
  invariant that says for each stage what the stages before have achieved (`Achieved`), in
  which process they ran and how many threads it has (`Progress`), which answers the
  singleton's state has given (`AnswersFit`), and that nothing was touched before the command
  line was read (`Helped`).
* **GuardLockProofs.** `TypeCorrect`; `ClaimsAreTrue`, conversions included: a guard that
  says it holds a lock does; `DenialsAreTrue` and `DestructorsRelease`, without conversions,
  from `GuardIsExact`: a thread holds the lock once, exactly when its guard says so, and not
  while it asks for it. `guard_leak` shows that the restriction is needed.
* **EventLoopProofs.** The gate: `GateTypeCorrect`; `ContinueIsNeverMissed`, from
  `HolderIsInside`: `wait` changes only under the mutex, so not between the loop's test and
  its sleep, and whoever opens the gate has still to signal. The queue:
  `QueueTypeCorrect`; `EachRunsOnceInOrder`; `NoneIsStranded`, from `EdgeIsPending` (what is
  readable will be reported), `QueueHolder` and `RoomForSilent`: functions that nobody is
  about to announce have room in the call under way (all three under a round that is
  reached). The composition: `LoopUsesGate` and
  `LoopUsesQueue` show that a loop in use, whose functions steer it and insert while it runs
  them, implements the specifications of both parts, so that `LoopIsSteered` and
  `LoopRunsItsFunctions` follow from the theorems about the parts.

The rest of the pool's theorems build on `Base` and on what follows it.

* **ThreadPoolLifeProofs**, about what the pool knows of a thread. `NextIsQuiet` divides the
  steps into those that touch neither maps nor counters nor the sections between them
  (`Quiet`) and four others, which `InsertStep`, `CountStep`, `EraseStep` and `GiveStep`
  describe once for all proofs.
  `RefusedIsForgotten` needs no hypothesis. What is listed was accepted or is being counted
  (`RefusedInv`); a roll back keeps this because an entry stands under the id of its own
  thread (`ListInv`) and the thread being counted is listed (`CountedInv`). It is `Listing`.
  `LookupsAnswer` needs none either. What a lookup holds between its maps is an id of the
  thread asked for (`SeenInv`: the index knows each thread by its own id), what it then finds
  under that id has it (`ListInv`), is accepted, for where nobody writes nothing is being
  counted, and is no other running thread, for two of those have different ids
  (`ApartInv`).
  `AcceptedIsFound` needs ids that are not reused. An accepted thread has a kind in which it is `Settled`, and no step of anybody else can change that: a
  writer is alone with its kind, and who removes a thread found it dying (`OwnInv`: whoever
  registers a thread owns it, so that it is live; a dying thread has one remover).
  `DestroyedIsForgotten` needs moreover that each thread is constructed with the pool and
  registered once, and that remove gets the lock of the maps: remove stops at the first kind
  it finds the thread in, so that the thread must be in one only (`EntryInv`), have one
  registration under way (`OnceInv`), and be gone from the I/O half when remove has
  passed it (`LeaveInv`).
* **ThreadPoolPlacesProofs**, about the counters. `Balance` is what the surplus of a kind
  should be: its size, less what is listed, corrected for the thread in the section between
  maps and counter. `StepMoves` shows that a step keeps both, takes a place, gives one, or loses
  one (`Moved`), and the theorems follow in order. With one setter, whatever fails and
  however ids are reused: the place that was seen in one section of `other_lock` is there in
  the next (`SeesPlaceInv`) and the surplus is not above its balance (`UpperInv`), hence
  `NoPlaceIsGivenTwice`, `NeverOverCapacity`, and `SurplusIsNeverOver`, the assertion that
  `pool_surplus` shows two setters break. If ids are not reused and remove gets `other_lock`
  nothing is lost, and surplus and balance are equal: `PlacesAlwaysAddUp`.
  `PlacesComeBack`, under the same two hypotheses, is for any number of setters: the unsigned counter may wrap, but stands
  whole rounds of UMax + 1 from its balance (`WrappedInv`), and so is exact whenever the
  balance is within its range.
* **RegistryProofs.** `PoolIsARegistry`, with one setter and ids that are not reused: the pool
  implements Registry, whatever requests fail and whoever is submitted again. The invariants
  are those of the last two modules (`Serving`). Admitting needs a place for a member: members
  are indexed, the indexed threads are the image of the listed ids (`IndexedAreListed`), and
  the one being counted is listed and no member yet (`RoomForOne`). Looking up needs the
  lock: where nobody writes nobody is being counted (`FetchedIsSettled`).
* **StartupProofs**, about Conf. `StartUsesConf`: every start, and what is called after it,
  implements Conf's specification, so that the theorems on Conf hold of the program.
  `StateAlwaysNamesMissing` and `LastWordAlwaysCounts` follow from `ConfInv`. That a field has the word of the last of its lines is not inductive, as the
  property says it of the whole file; `FieldsFit` says it of each field and the lines read
  so far.

Why the code justifies the hypotheses. *One setter*: init::init, the only caller of
`set_thread` in the repository, runs once and in one thread (init.cpp 103-126); what two do is
the run `pool_surplus`. *Ids not reused*: a hypothesis about the kernel, which keeps it while
finished threads lose their last owner before their id returns; `pool_atypism` shows what
happens otherwise. *Constructed with the pool, registered once*: init does both
(init.cpp 106-121). *Locks*: a request may fail wherever a hypothesis does not except it; when one
of those excepted fails, remove returns and leaves the entry or the place as it is (thread.cpp
557, 579), and the property can fail.

Only model-checked: the liveness properties (`EveryCallReturns`, `LaunchReturns`,
`EveryThreadIsReleased`, `ContinueIsHeard`, `EndIsHeard`, `EveryStartEnds`), for liveness under fairness is out of this prover's reach.

## What is not modelled, and why

* The round of `start` (eventloop.cpp 318-367) stands after `while(1)` and is never reached.
  What it would do is undefined: it indexes `events` by descriptor (327); `epoll_fd::wait`
  gives realloc a number of events where it wants bytes (58); `add_fd` registers a mask that
  nothing has set, because the getter takes its result by value (403, fd.h 164). So neither
  it nor `epoll_fd`, `add_fd`, `_fd` and `fd_callback`, which serve it only, are modelled.
  `InsertQueue` has what `do_func` sees of it. eventloop.cpp is not in the makefile and ends
  in the middle of `del_fd`.
* `thread_pool`'s getters of counters; `get_pool`; the destructor of the singleton.
* Options joined in one word (`-hc`) and the word `--`; the wording of messages.
* Two callers of `get_light_shadow` at once: the repository has one, before there are threads.
* What the exit code of the parent tells (it is 0 before the child has gone on).
* Memory that runs out, locks that cannot be initialised, attributes of threads,
  `get_arg` and `set_arg`.
* A thread without a pool pointer that is registered (it would never be removed), and a
  thread of both kinds that is registered in both halves by two calls (remove takes it
  out of one): `set_thread` permits both, no line of the repository speaks of them, and
  init does neither.
* A `loop_end` that comes while the loop is between two rounds: `start` looks for END only
  after `pthread_cond_wait` (310), so that the loop falls asleep on END until it is woken
  again. `EndIsHeard` states the case that works.
* `get_conf_err` in two threads at once: it writes a string under the read lock
  (conf.cpp 189).

## Plan

1. An abstract specification of the start as a whole (what `get_light_shadow` promises its
   callers), refined by Startup, and one of the event loop's queue as a queue.
2. The round of the event loop, once it is reachable and its undefined steps are gone.

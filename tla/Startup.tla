------------------------------- MODULE Startup -------------------------------
(***************************************************************************)
(* The start of the server: light_shadow::get_light_shadow makes the       *)
(* singleton and, the first time, runs init::init, which goes through a    *)
(* chain of stages: the directory, the command line (arg), the file (conf, *)
(* see Conf), the pool, the daemon, and two threads.  A failure at any     *)
(* stage ends the chain, wherever the process and the pool are by then.    *)
(*                                                                         *)
(* Launching a thread is one step here; it is a module of its own,         *)
(* ThreadStart.  The parent of a fork exits at once, so that one process   *)
(* is looked at: the one that goes on.                                     *)
(***************************************************************************)
EXTENDS Conf

CONSTANTS
  Argv,      \* the command lines: sequences of words, without the program's name
  Attached,  \* Attached[w]: the argument in a word that starts with -c
  Unknown,   \* words that are an option getopt does not know
  NoPath,    \* NULL
  Enough,    \* numbers of at least 3, as fields of conf
  MaxAsks    \* bound: calls of get_light_shadow that return

ASSUME StartupAssumption ==
  /\ \A v \in Argv : v \in Seq(STRING)
  /\ NoPath \notin UNION {{v[i] : i \in 1 .. Len(v)} : v \in Argv}
  /\ Unknown \cap DOMAIN Attached = {}
  /\ {"-h", "-c"} \cap (Unknown \cup DOMAIN Attached) = {}
  /\ Enough \subseteq Word
  /\ MaxAsks \in Nat

VARIABLES
  stage,    \* the stage of init that is next; idle outside it
  singleton,\* data->state of light_shadow: none (not constructed), gone (NULL),
            \* before, fail, succeed
  given,    \* history: the argument of the last -c
  path,     \* arg_data's conf_file_path
  helped,   \* history: was the help printed?
  pool,     \* has light_shadow been given a pool?
  process,  \* who runs: the process called, its child, or the child of that
  threads,  \* the threads that were launched in this process
  answers   \* history: what get_light_shadow returned, call by call

startVars == <<stage, singleton, given, path, helped, pool, process, threads, answers>>
allVars   == <<vars, startVars>>

\* Slip: the two threads are launched before the process becomes a daemon.
LaunchFirst ==
  [path |-> "arg", arg |-> "conf", conf |-> "pool", pool |-> "launch",
   launch |-> "limit", limit |-> "fork", fork |-> "hup", hup |-> "refork",
   refork |-> "root", root |-> "done"]
\* The stages of init::init and daemonize in their order.
NextStage ==
  [path |-> "arg", arg |-> "conf", conf |-> "pool", pool |-> "limit",
   limit |-> "fork", fork |-> "hup", hup |-> "refork", refork |-> "root",
   root |-> "launch", launch |-> "done"]
Advance == stage' = NextStage[stage]

\* Slip: a failed init leaves LIGHT_SHADOW_INIT_BEFORE behind.
FailForNow ==
  /\ stage' = "idle" /\ singleton' = "before"
  /\ answers' = Append(answers, "NULL")
\* state=INIT_FAIL or INIT_HELP_SUCCEED: get_light_shadow makes no difference.
Fail ==
  /\ stage' = "idle" /\ singleton' = "fail"
  /\ answers' = Append(answers, "NULL")

\* A call of the stage that either goes well or ends init.
Attempt ==
  \/ Advance /\ UNCHANGED <<singleton, answers>>
  \/ Fail

-----------------------------------------------------------------------------
(***************************************************************************)
(* get_light_shadow.                                                       *)
(***************************************************************************)
\* The static object is made by the first call, which then runs init.
FirstCall ==
  /\ stage = "idle" /\ singleton \in {"none", "before"} /\ Len(answers) < MaxAsks
  /\ \/ singleton' = "before" /\ stage' = "path" /\ UNCHANGED answers
     \/ /\ singleton = "none" /\ singleton' = "gone"
        /\ answers' = Append(answers, "NULL") /\ UNCHANGED stage
  /\ UNCHANGED <<vars, given, path, helped, pool, process, threads>>

LaterCall ==
  /\ stage = "idle" /\ singleton \notin {"none", "before"} /\ Len(answers) < MaxAsks
  /\ answers' = Append(answers, IF singleton = "succeed" THEN "self" ELSE "NULL")
  /\ UNCHANGED <<vars, stage, singleton, given, path, helped, pool, process, threads>>

Return ==
  /\ stage = "done" /\ stage' = "idle"
  /\ singleton' = "succeed" /\ answers' = Append(answers, "self")
  /\ UNCHANGED <<vars, given, path, helped, pool, process, threads>>

-----------------------------------------------------------------------------
(***************************************************************************)
(* arg.  What getopt makes of a command line, from its i-th word on; the   *)
(* path is the word optind is at when -c has been taken.                   *)
(***************************************************************************)
WordAt(v, i) == IF i <= Len(v) THEN v[i] ELSE NoPath
NoOptions == [bits |-> {}, path |-> NoPath, given |-> NoPath]

Parsed(v) ==
  LET TakesConf(rest, own, i) ==
        IF "conf" \in rest.bits THEN rest
        ELSE [bits |-> rest.bits \cup {"conf"}, path |-> WordAt(v, i), given |-> own]
      Adds(rest, b) == [rest EXCEPT !.bits = @ \cup {b}]
      scan[i \in 1 .. Len(v) + 1] ==
        IF i > Len(v) THEN NoOptions ELSE
        CASE v[i] = "-h" -> Adds(scan[i + 1], "help")
          [] v[i] = "-c" /\ i < Len(v) -> TakesConf(scan[i + 2], v[i + 1], i + 2)
          [] v[i] \in DOMAIN Attached -> TakesConf(scan[i + 1], Attached[v[i]], i + 1)
          [] (v[i] = "-c" /\ i = Len(v)) \/ v[i] \in Unknown -> Adds(scan[i + 1], "fail")
          [] OTHER -> scan[i + 1]
  IN  scan[1]

ChangePathToBin ==
  /\ stage = "path" /\ Attempt
  /\ UNCHANGED <<vars, given, path, helped, pool, process, threads>>

\* Slip: init goes on after the help.
ParseArgsOn(v) ==
  LET a == Parsed(v) IN
  /\ stage = "arg"
  /\ path' = a.path /\ given' = a.given
  /\ helped' = (helped \/ "help" \in a.bits)
  /\ \/ "fail" \in a.bits /\ Fail
     \/ "fail" \notin a.bits /\ Advance /\ UNCHANGED <<singleton, answers>>
  /\ UNCHANGED <<vars, pool, process, threads>>

\* The help is printed unless there were bad options and nothing else.
ParseArgs(v) ==
  LET a == Parsed(v) IN
  /\ stage = "arg"
  /\ path' = a.path /\ given' = a.given
  /\ helped' = (helped \/ "help" \in a.bits)
  /\ \/ a.bits \cap {"fail", "help"} # {} /\ Fail
     \/ a.bits \cap {"fail", "help"} = {} /\ Advance /\ UNCHANGED <<singleton, answers>>
  /\ UNCHANGED <<vars, pool, process, threads>>

-----------------------------------------------------------------------------
(***************************************************************************)
(* conf, and init's tests of it; the pool.                                 *)
(***************************************************************************)
ReadConf ==
  /\ stage = "conf"
  /\ ReadFile
  /\ UNCHANGED startVars

\* io_thread_num>=3, calculate_thread_num>=1 and no bit of CONF_ERR.
Accepts ==
  /\ state = {}
  /\ field["io_thread_num"] \in Enough
  /\ field["calculate_thread_num"] # "0"

\* Each of the three getters init asks may also answer that it did not get the lock,
\* which ends init whatever the file says.
TestConf ==
  /\ stage = "conf" /\ pc = "built"
  /\ \/ Accepts /\ Advance /\ UNCHANGED <<singleton, answers>>
     \/ Fail
  /\ UNCHANGED <<vars, given, path, helped, pool, process, threads>>

\* The pool is made, which may fail, and given to light_shadow; it stays there
\* when a later stage fails.
MakePool ==
  /\ stage = "pool"
  /\ \/ Advance /\ pool' = TRUE /\ UNCHANGED <<singleton, answers>>
     \/ Fail /\ UNCHANGED pool
  /\ UNCHANGED <<vars, given, path, helped, process, threads>>

-----------------------------------------------------------------------------
(***************************************************************************)
(* daemonize, and the two threads at the end of init.                      *)
(***************************************************************************)
\* getrlimit, sigaction, chdir("/").
Prepare ==
  /\ stage \in {"limit", "hup", "root"} /\ Attempt
  /\ UNCHANGED <<vars, given, path, helped, pool, process, threads>>

\* Slip: a fork that fails is tried again for ever.
ForkAgain ==
  /\ stage' = "limit" /\ UNCHANGED <<singleton, answers>>

\* The process that goes on after a fork of p: the child.
Child(p) == IF p = "called" THEN "child" ELSE "daemon"
ForkFails == Fail

\* Threads are not inherited.
Fork ==
  /\ stage \in {"fork", "refork"}
  /\ \/ /\ Advance /\ process' = Child(process) /\ threads' = 0
        /\ UNCHANGED <<singleton, answers>>
     \/ ForkFails /\ UNCHANGED <<process, threads>>
  /\ UNCHANGED <<vars, given, path, helped, pool>>

\* init looks at nothing start and start_wait answer: when pthread_create fails
\* it waits at the barrier for ever.
LaunchThread ==
  /\ stage = "launch"
  /\ \/ threads < 2 /\ threads' = threads + 1 /\ UNCHANGED stage
     \/ threads < 2 /\ stage' = "stranded" /\ UNCHANGED threads
     \/ threads = 2 /\ Advance /\ UNCHANGED threads
  /\ UNCHANGED <<vars, singleton, given, path, helped, pool, process, answers>>

-----------------------------------------------------------------------------
StartupInit ==
  /\ Init
  /\ stage = "idle" /\ singleton = "none"
  /\ given = NoPath /\ path = NoPath /\ helped = FALSE
  /\ pool = FALSE /\ process = "called" /\ threads = 0
  /\ answers = <<>>

InitStep ==
  \/ ChangePathToBin \/ ReadConf \/ TestConf \/ MakePool
  \/ Prepare \/ Fork \/ LaunchThread \/ Return
  \/ \E v \in Argv : ParseArgs(v)

\* The object of conf outlives init, whatever init came to.
UseConf == stage = "idle" /\ CallConf /\ UNCHANGED startVars

\* All has been asked that the bounds allow, or init waits for ever.
Stopped ==
  /\ \/ stage = "stranded"
     \/ stage = "idle" /\ Len(answers) = MaxAsks
  /\ UNCHANGED allVars

StartupNext == FirstCall \/ LaterCall \/ InitStep \/ UseConf \/ Stopped

StartupSpec == StartupInit /\ [][StartupNext]_allVars

\* The process that runs init is scheduled.
FairStartup == StartupSpec /\ WF_allVars(InitStep)

-----------------------------------------------------------------------------
\* What get_light_shadow hands out is a server that is ready: it runs detached, in
\* the process both threads were launched in, with a pool, and its file gave every
\* setting of the database and enough threads. A start that failed, before a fork
\* or after, leaves no thread behind.
ServedIsReady ==
  /\ stage = "done" =>
       /\ process = "daemon" /\ threads = 2 /\ pool
       /\ state = {} /\ field["io_thread_num"] \in Enough
  /\ stage = "idle" /\ singleton = "fail" => threads = 0

\* All calls of get_light_shadow get the same answer: a failure is final, and the
\* start is made once.
AnswersAgree == \A i, j \in 1 .. Len(answers) : answers[i] = answers[j]

\* The help is printed and nothing else is done, by that call or by a later one: no
\* file is read, no pool made, nothing forked, and no server handed out.
HelpStartsNothing ==
  helped => pc = "new" /\ ~pool /\ process = "called" /\ singleton # "succeed"

\* init::init comes to an end, but where a thread cannot be created.
EveryStartEnds == stage # "idle" ~> stage \in {"idle", "stranded"}

\* The file that is read is the one given to -c (arg.h: ARG_CONF_FILE_PATH=1;
\* //有配置文件路径, and the message "you should input conf file path after '-c'").
ConfFileIsTheGivenOne == stage = "conf" => path = given
===============================================================================

----------------------------- MODULE StartupProofs -----------------------------
(***************************************************************************)
(* Proofs about Startup, for every command line, file and bound.           *)
(***************************************************************************)
EXTENDS Startup, TLAPS

Called1 == {"path", "arg", "conf", "pool", "limit", "fork"}
Detached == {"root", "launch", "done", "stranded"}
Tested == {"limit", "fork", "hup", "refork"} \cup Detached

\* Where init is, and whether there was one.
Places ==
  /\ stage \in Called1 \cup {"idle", "hup", "refork"} \cup Detached
  /\ singleton \in {"none", "gone", "before", "fail", "succeed"}
  /\ stage = "idle" <=> singleton # "before"

\* The answers are told by the state of the singleton.
AnswersFit ==
  /\ answers \in Seq({"self", "NULL"})
  /\ singleton \in {"none", "before"} => answers = <<>>
  /\ \A i \in 1 .. Len(answers) :
       answers[i] = IF singleton = "succeed" THEN "self" ELSE "NULL"

\* The process and its threads at each stage.
Progress ==
  /\ stage \in Called1 => process = "called"
  /\ stage \in {"hup", "refork"} => process = "child"
  /\ stage \in Detached => process = "daemon"
  /\ threads \in 0 .. 2
  /\ singleton # "succeed" /\ stage \notin {"launch", "stranded", "done"} => threads = 0
  /\ stage = "done" => threads = 2

\* What the stages so far have seen to.
Achieved ==
  /\ stage \in Tested => pool
  /\ stage \in Tested \cup {"pool"} => Accepts

\* Nothing was done before the command line was read, or when it asked for help.
Untouched == pc = "new" /\ ~pool /\ process = "called"
Helped ==
  /\ singleton \in {"none", "gone"} \/ stage \in {"path", "arg"} => Untouched /\ ~helped
  /\ helped => Untouched /\ singleton = "fail"

IInv == Places /\ AnswersFit /\ Progress /\ Achieved /\ Helped

LEMMA InitIsGood == StartupInit => IInv
BY DEF StartupInit, Init, IInv, Places, AnswersFit, Progress, Achieved, Helped, Untouched,
       Called1, Detached, Tested

\* The stages in their order.
LEMMA StagesInOrder ==
  /\ NextStage["path"] = "arg" /\ NextStage["arg"] = "conf"
  /\ NextStage["conf"] = "pool" /\ NextStage["pool"] = "limit"
  /\ NextStage["limit"] = "fork" /\ NextStage["fork"] = "hup"
  /\ NextStage["hup"] = "refork" /\ NextStage["refork"] = "root"
  /\ NextStage["root"] = "launch" /\ NextStage["launch"] = "done"
BY DEF NextStage

\* A call that returns adds the answer that fits the singleton from then on, if it
\* is the first or the singleton stays as it was.
LEMMA AnswerFits ==
  ASSUME AnswersFit, NEW a \in {"self", "NULL"}, answers' = Append(answers, a),
         singleton' \notin {"none", "before"},
         a = IF singleton' = "succeed" THEN "self" ELSE "NULL",
         singleton \in {"none", "before"} \/ singleton' = singleton
  PROVE  AnswersFit'
<1>1. answers' \in Seq({"self", "NULL"}) /\ Len(answers') = Len(answers) + 1
  BY DEF AnswersFit
<1>2. ASSUME NEW i \in 1 .. Len(answers')
      PROVE  answers'[i] = IF singleton' = "succeed" THEN "self" ELSE "NULL"
  <2>1. CASE i = Len(answers) + 1
    BY <2>1 DEF AnswersFit
  <2>2. CASE i \in 1 .. Len(answers)
    <3>1. singleton \notin {"none", "before"}
      BY <2>2 DEF AnswersFit
    <3> QED  BY <2>2, <3>1 DEF AnswersFit
  <2> QED  BY <1>1, <2>1, <2>2 DEF AnswersFit
<1> QED  BY <1>1, <1>2 DEF AnswersFit

\* A stage that fails leaves what was achieved to the failed singleton.
LEMMA FailKeeps ==
  ASSUME IInv, Fail, stage \notin {"idle", "launch", "stranded", "done"},
         UNCHANGED <<pool, process, threads>>,
         helped' => Untouched'
  PROVE  IInv'
<1>1. singleton = "before" /\ stage' = "idle" /\ singleton' = "fail"
  BY DEF IInv, Places, Fail
<1>2. AnswersFit'
  BY <1>1, AnswerFits DEF IInv, Fail
<1>3. Progress'
  BY <1>1 DEF IInv, Progress, Called1, Detached
<1> QED
  BY <1>1, <1>2, <1>3 DEF IInv, Places, Achieved, Helped, Tested, Called1, Detached

\* A stage that goes well hands over to the next, whose part of the invariant it
\* has to bring about.
LEMMA AdvanceKeeps ==
  ASSUME IInv, Advance, stage \in Called1 \cup {"hup", "refork", "root"},
         UNCHANGED <<singleton, answers>>,
         ~helped', stage = "path" => Untouched',
         Progress', Achieved'
  PROVE  IInv'
<1>1. singleton = "before" /\ stage' \in Called1 \cup {"hup", "refork", "root", "launch"}
  BY StagesInOrder DEF IInv, Places, Advance, Called1, Detached
<1>2. stage' = "arg" => stage = "path"
  BY StagesInOrder DEF Advance, Called1
<1>3. stage' # "path" /\ stage' # "idle"
  BY StagesInOrder DEF Advance, Called1
<1>4. Places'
  BY <1>1, <1>3 DEF IInv, Places, Called1, Detached
<1>5. AnswersFit'
  BY <1>1 DEF IInv, AnswersFit
<1>6. Helped'
  BY <1>1, <1>2, <1>3 DEF Helped
<1> QED  BY <1>4, <1>5, <1>6 DEF IInv

-----------------------------------------------------------------------------
\* The conf is used by calls that return at once and leave init's state alone.
LEMMA CallNeedsConf == CallConf => pc = "built"
BY DEF CallConf, GetConfErr, Get, Set, SetState, Called

LEMMA FirstCallKeeps == IInv /\ FirstCall => IInv'
<1> SUFFICES ASSUME IInv, FirstCall PROVE IInv'
  OBVIOUS
<1>1. stage = "idle" /\ singleton = "none"
  BY DEF FirstCall, IInv, Places
<1>2. CASE singleton' = "before" /\ stage' = "path" /\ UNCHANGED answers
  BY <1>1, <1>2 DEF FirstCall, IInv, Places, AnswersFit, Progress, Achieved, Helped,
     Untouched, Tested, Called1, Detached, vars
<1>3. CASE singleton' = "gone" /\ answers' = Append(answers, "NULL") /\ UNCHANGED stage
  <2>1. AnswersFit'
    BY <1>1, <1>3, AnswerFits DEF IInv
  <2> QED
    BY <1>1, <1>3, <2>1 DEF FirstCall, IInv, Places, Progress, Achieved, Helped,
       Untouched, Tested, Called1, Detached, vars
<1> QED  BY <1>1, <1>2, <1>3 DEF FirstCall

LEMMA LaterCallKeeps == IInv /\ LaterCall => IInv'
<1> SUFFICES ASSUME IInv, LaterCall PROVE IInv'
  OBVIOUS
<1>1. AnswersFit'
  BY AnswerFits DEF LaterCall, IInv
<1> QED
  BY <1>1 DEF LaterCall, IInv, Places, Progress, Achieved, Helped, Untouched, Accepts,
     Tested, Called1, Detached, vars

LEMMA ReturnKeeps == IInv /\ Return => IInv'
<1> SUFFICES ASSUME IInv, Return PROVE IInv'
  OBVIOUS
<1>1. singleton = "before"
  BY DEF Return, IInv, Places
<1>2. AnswersFit'
  BY <1>1, AnswerFits DEF Return, IInv
<1> QED
  BY <1>1, <1>2 DEF Return, IInv, Places, Progress, Achieved, Helped, Untouched, Tested,
     Called1, Detached, vars

\* The stages before the daemon.
LEMMA EarlyStageKeeps ==
  ASSUME IInv,
         ChangePathToBin \/ TestConf \/ MakePool \/ (\E v \in Argv : ParseArgs(v))
  PROVE  IInv'
<1> USE DEF Called1, Detached
<1>1. CASE ChangePathToBin
  <2>1. ~helped /\ Untouched /\ Untouched' /\ helped' = helped
    BY <1>1 DEF ChangePathToBin, IInv, Helped, Untouched, vars
  <2>2. CASE Fail
    BY <1>1, <2>1, <2>2, FailKeeps DEF ChangePathToBin
  <2>3. CASE Advance /\ UNCHANGED <<singleton, answers>>
    <3>1. stage' = "arg" /\ Progress' /\ Achieved'
      BY <1>1, <2>3, StagesInOrder
      DEF ChangePathToBin, Advance, IInv, Progress, Achieved, Tested
    <3> QED  BY <1>1, <2>1, <2>3, <3>1, AdvanceKeeps DEF ChangePathToBin
  <2> QED  BY <1>1, <2>2, <2>3 DEF ChangePathToBin, Attempt
<1>2. CASE TestConf
  <2>1. ~helped /\ helped' = helped /\ (Accepts => Accepts')
    BY <1>2 DEF TestConf, IInv, Places, Helped, Accepts, vars
  <2>2. CASE Fail
    BY <1>2, <2>1, <2>2, FailKeeps DEF TestConf
  <2>3. CASE Accepts /\ Advance /\ UNCHANGED <<singleton, answers>>
    <3>1. stage' = "pool" /\ Progress' /\ Achieved'
      BY <1>2, <2>1, <2>3, StagesInOrder
      DEF TestConf, Advance, IInv, Progress, Achieved, Tested
    <3> QED  BY <1>2, <2>1, <2>3, <3>1, AdvanceKeeps DEF TestConf
  <2> QED  BY <1>2, <2>2, <2>3 DEF TestConf
<1>3. CASE MakePool
  <2>1. ~helped /\ helped' = helped /\ (Accepts => Accepts')
    BY <1>3 DEF MakePool, IInv, Places, Helped, Accepts, vars
  <2>2. CASE Fail /\ UNCHANGED pool
    BY <1>3, <2>1, <2>2, FailKeeps DEF MakePool
  <2>3. CASE Advance /\ pool' = TRUE /\ UNCHANGED <<singleton, answers>>
    <3>1. stage' = "limit" /\ Progress'
      BY <1>3, <2>3, StagesInOrder DEF MakePool, Advance, IInv, Progress
    <3>2. Accepts
      BY <1>3 DEF MakePool, IInv, Achieved
    <3>3. Achieved'
      BY <2>1, <2>3, <3>2 DEF Achieved
    <3> QED  BY <1>3, <2>1, <2>3, <3>1, <3>3, AdvanceKeeps DEF MakePool
  <2> QED  BY <1>3, <2>2, <2>3 DEF MakePool
<1>4. ASSUME NEW v \in Argv, ParseArgs(v) PROVE IInv'
  <2>1. ~helped /\ Untouched /\ Untouched'
    BY <1>4 DEF ParseArgs, IInv, Helped, Untouched, vars
  <2>2. CASE Fail
    BY <1>4, <2>1, <2>2, FailKeeps DEF ParseArgs
  <2>3. CASE Advance /\ UNCHANGED <<singleton, answers>> /\ "help" \notin Parsed(v).bits
    <3>1. stage' = "conf" /\ Progress' /\ Achieved' /\ ~helped'
      BY <1>4, <2>1, <2>3, StagesInOrder
      DEF ParseArgs, Advance, IInv, Progress, Achieved, Tested
    <3> QED  BY <1>4, <2>1, <2>3, <3>1, AdvanceKeeps DEF ParseArgs
  <2> QED  BY <1>4, <2>2, <2>3 DEF ParseArgs
<1> QED  BY <1>1, <1>2, <1>3, <1>4

\* The stages of daemonize.
LEMMA LateStageKeeps == IInv /\ (Prepare \/ Fork) => IInv'
<1> SUFFICES ASSUME IInv, Prepare \/ Fork PROVE IInv'
  OBVIOUS
<1> USE DEF Called1, Detached
<1>1. /\ stage \in {"limit", "fork", "hup", "refork", "root"}
      /\ ~helped /\ helped' = helped /\ threads = 0
      /\ pool /\ pool' = pool /\ Accepts /\ Accepts'
  BY DEF Prepare, Fork, IInv, Places, Helped, Progress, Achieved, Tested, Accepts, vars
<1>2. CASE Fail /\ UNCHANGED <<process, threads>>
  BY <1>1, <1>2, FailKeeps
<1>3. CASE Prepare /\ Advance /\ UNCHANGED <<singleton, answers>>
  <2>1. Progress' /\ Achieved'
    BY <1>1, <1>3, StagesInOrder DEF Prepare, Advance, IInv, Progress, Achieved
  <2> QED  BY <1>1, <1>3, <2>1, AdvanceKeeps
<1>4. CASE /\ Fork /\ Advance /\ UNCHANGED <<singleton, answers>>
           /\ process' = Child(process) /\ threads' = 0
  <2>1. Progress' /\ Achieved'
    BY <1>1, <1>4, StagesInOrder DEF Fork, Advance, Child, IInv, Progress, Achieved
  <2> QED  BY <1>1, <1>4, <2>1, AdvanceKeeps
<1> QED  BY <1>2, <1>3, <1>4 DEF Prepare, Fork, ForkFails, Attempt

LEMMA LaunchKeeps == IInv /\ LaunchThread => IInv'
<1> SUFFICES ASSUME IInv, LaunchThread PROVE IInv'
  OBVIOUS
<1>1. stage = "launch" /\ stage' \in {"launch", "stranded", "done"}
  BY StagesInOrder DEF LaunchThread, Advance
<1>2. Progress'
  BY <1>1, StagesInOrder DEF LaunchThread, Advance, IInv, Progress, Places, Called1, Detached
<1>3. Achieved'
  BY <1>1 DEF LaunchThread, IInv, Achieved, Accepts, Tested, Detached, vars
<1> QED
  BY <1>1, <1>2, <1>3 DEF LaunchThread, IInv, Places, AnswersFit, Helped, Untouched, vars,
     Called1, Detached

LEMMA ReadKeeps == IInv /\ ReadConf => IInv'
<1> SUFFICES ASSUME IInv, ReadConf PROVE IInv'
  OBVIOUS
<1> QED
  BY DEF ReadConf, startVars, IInv, Places, AnswersFit, Progress, Achieved, Helped, Tested,
     Called1, Detached

\* Whatever the conf is set to afterwards, no stage looks at it again.
LEMMA UseKeeps == IInv /\ UseConf => IInv'
<1> SUFFICES ASSUME IInv, UseConf PROVE IInv'
  OBVIOUS
<1>1. pc = "built" /\ UNCHANGED startVars /\ stage = "idle"
  BY CallNeedsConf DEF UseConf
<1> QED
  BY <1>1 DEF startVars, IInv, Places, AnswersFit, Progress, Achieved, Helped, Untouched,
     Tested, Called1, Detached

LEMMA StepKeeps == IInv /\ [StartupNext]_allVars => IInv'
<1> SUFFICES ASSUME IInv, [StartupNext]_allVars PROVE IInv'
  OBVIOUS
<1>1. CASE UNCHANGED allVars
  BY <1>1 DEF allVars, vars, startVars, IInv, Places, AnswersFit, Progress, Achieved,
     Helped, Untouched, Accepts
<1>2. CASE InitStep
  BY <1>2, EarlyStageKeeps, LateStageKeeps, LaunchKeeps, ReadKeeps, ReturnKeeps
  DEF InitStep
<1> QED
  BY <1>1, <1>2, FirstCallKeeps, LaterCallKeeps, UseKeeps DEF StartupNext, Stopped

-----------------------------------------------------------------------------
LEMMA Invariance == StartupSpec => []IInv
<1> QED  BY InitIsGood, StepKeeps, PTL DEF StartupSpec

\* What get_light_shadow hands out is a daemon with its pool, its two threads and an
\* acceptable file, and a start that failed leaves no thread behind.
THEOREM ServedIsAlwaysReady == StartupSpec => []ServedIsReady
<1>1. IInv => ServedIsReady
  BY DEF IInv, Places, Progress, Achieved, Accepts, ServedIsReady, Tested, Called1, Detached
<1> QED  BY <1>1, Invariance, PTL

\* However often get_light_shadow is called, its answers are the same.
THEOREM AnswersAlwaysAgree == StartupSpec => []AnswersAgree
<1>1. IInv => AnswersAgree
  BY DEF IInv, AnswersFit, AnswersAgree
<1> QED  BY <1>1, Invariance, PTL

\* A command line that asks for help starts nothing, in that call or a later one.
THEOREM HelpNeverStarts == StartupSpec => []HelpStartsNothing
<1>1. IInv => HelpStartsNothing
  BY DEF IInv, Helped, Untouched, HelpStartsNothing
<1> QED  BY <1>1, Invariance, PTL

-----------------------------------------------------------------------------
(***************************************************************************)
(* The file, and the calls made of the conf afterwards: every step of the  *)
(* start is a step of Conf or leaves the conf alone, so that what holds of *)
(* Conf holds during every start.                                          *)
(***************************************************************************)
Given(f) == {i \in LinesOf(f) : lines[i].word # Nothing}
Converted(f, w) == Path(f, IF f \in NumberKey THEN Number[w] ELSE w)

ConfTyped ==
  /\ pc \in {"new", "reading", "built"}
  /\ lines \in Seq(Line)
  /\ field \in [Field -> Word]
  /\ pc = "new" => field = Default /\ lines = <<>>

\* A field is untouched, or was made absolute by lines without a word, or holds
\* what the last of its lines with a word says.
FieldFits(f) ==
  /\ LinesOf(f) = {} => field[f] = Default[f]
  /\ LinesOf(f) # {} /\ Given(f) = {} => field[f] = Path(f, Default[f])
  /\ Given(f) # {} =>
       \E i \in Given(f) :
         (\A j \in Given(f) : j <= i) /\ field[f] = Converted(f, lines[i].word)
FieldsFit == pc = "reading" => \A f \in Field : FieldFits(f)

ConfInv == ConfTyped /\ StateNamesWhatIsMissing /\ FieldsFit

LEMMA DefaultsAreWords ==
  Default \in [Field -> Word] /\ \A k \in DbKey \cup {"log_file_path"} : Default[k] = Nothing
BY ConfAssumption DEF Default, Field, NumberKey, DbKey

LEMMA ConfInitIsGood == Init => ConfInv
<1> SUFFICES ASSUME Init PROVE ConfInv
  OBVIOUS
<1>1. ConfTyped
  BY DefaultsAreWords DEF Init, ConfTyped
<1>2. StateNamesWhatIsMissing /\ FieldsFit
  BY DEF Init, StateNamesWhatIsMissing, FieldsFit
<1> QED  BY <1>1, <1>2 DEF ConfInv

LEMMA WordsOfLines == \A l \in Line : l.word \in Word
BY ConfAssumption

\* Lines are added at the end, and no earlier line is another's afterwards.
LEMMA LinesGrow ==
  ASSUME ConfTyped, NEW l \in Line, lines' = Append(lines, l)
  PROVE  /\ l.word \in Word
         /\ Len(lines) \in Nat /\ Len(lines') = Len(lines) + 1
         /\ lines' \in Seq(Line)
         /\ lines'[Len(lines) + 1] = l
         /\ \A i \in 1 .. Len(lines) : lines'[i] = lines[i]
         /\ \A f : LinesOf(f)' = LinesOf(f) \cup
                     (IF l.key = f THEN {Len(lines) + 1} ELSE {})
         /\ \A f : Given(f)' = Given(f) \cup
              (IF l.key = f /\ l.word # Nothing THEN {Len(lines) + 1} ELSE {})
<1>1. l.word \in Word
  BY WordsOfLines
<1>2. /\ Len(lines) \in Nat /\ Len(lines') = Len(lines) + 1
      /\ lines' \in Seq(Line)
      /\ lines'[Len(lines) + 1] = l
      /\ \A i \in 1 .. Len(lines) : lines'[i] = lines[i]
  BY <1>1 DEF ConfTyped
<1>3. 1 .. Len(lines') = (1 .. Len(lines)) \cup {Len(lines) + 1}
  BY <1>2
<1>4. \A f : LinesOf(f)' = LinesOf(f) \cup
                 (IF l.key = f THEN {Len(lines) + 1} ELSE {})
  BY <1>2, <1>3 DEF LinesOf
<1>5. \A f : LinesOf(f) \subseteq 1 .. Len(lines)
  BY DEF LinesOf
<1>6. \A f : Given(f)' = Given(f) \cup
        (IF l.key = f /\ l.word # Nothing THEN {Len(lines) + 1} ELSE {})
  BY <1>2, <1>4, <1>5 DEF Given
<1> QED  BY <1>1, <1>2, <1>4, <1>6

\* A line changes the field of its key, as its word says, and no other.
LEMMA LineFits ==
  ASSUME ConfInv, NEW l \in Line, ReadLine(l), NEW f \in Field
  PROVE  FieldFits(f)'
<1> USE DEF ConfInv
<1>1. /\ FieldFits(f) /\ field \in [Field -> Word] /\ lines' = Append(lines, l)
      /\ Given(f) \subseteq LinesOf(f) /\ LinesOf(f) \subseteq 1 .. Len(lines)
  BY DEF ReadLine, FieldsFit, ConfTyped, Given, LinesOf
<1>2. l.word \in Word /\ Len(lines) \in Nat
  BY <1>1, LinesGrow
<1>3. LinesOf(f)' = LinesOf(f) \cup (IF l.key = f THEN {Len(lines) + 1} ELSE {})
  BY <1>1, LinesGrow
<1>4. /\ lines'[Len(lines) + 1] = l
      /\ \A i \in Given(f) : lines'[i] = lines[i]
      /\ Given(f)' = Given(f) \cup
           (IF l.key = f /\ l.word # Nothing THEN {Len(lines) + 1} ELSE {})
  BY <1>1, LinesGrow
<1>5. CASE l.key # f
  <2>1. LinesOf(f)' = LinesOf(f) /\ Given(f)' = Given(f)
    BY <1>3, <1>4, <1>5
  <2>2. field'[f] = field[f]
    BY <1>1, <1>5 DEF ReadLine
  <2>3. \A w : Converted(f, w)' = Converted(f, w) /\ Path(f, Default[f])' = Path(f, Default[f])
    BY DEF Converted, Path
  <2> QED  BY <1>1, <1>4, <2>1, <2>2, <2>3 DEF FieldFits
<1>6. CASE l.key = f
  <2>1. field'[f] = Path(f, Stored(f, l.word)) /\ LinesOf(f)' # {}
    BY <1>1, <1>3, <1>6 DEF ReadLine
  <2>2. CASE l.word # Nothing
    <3>1. field'[f] = Converted(f, lines'[Len(lines) + 1].word)
      BY <1>4, <2>1, <2>2 DEF Stored, Converted
    <3>2. /\ Len(lines) + 1 \in Given(f)'
          /\ \A j \in Given(f)' : j <= Len(lines) + 1
      BY <1>1, <1>2, <1>4, <1>6, <2>2
    <3> QED  BY <2>1, <3>1, <3>2 DEF FieldFits, Converted, Path
  <2>3. CASE l.word = Nothing
    <3>1. field'[f] = Path(f, field[f]) /\ Given(f)' = Given(f)
      BY <1>4, <2>1, <2>3 DEF Stored
    <3>2. ASSUME NEW w \in Word PROVE Path(f, Path(f, w)) = Path(f, w)
      BY ConfAssumption DEF Path
    <3>3. CASE Given(f) = {}
      <4>1. field[f] = Default[f] \/ field[f] = Path(f, Default[f])
        BY <1>1, <3>3 DEF FieldFits
      <4>2. field'[f] = Path(f, Default[f])
        BY <3>1, <3>2, <4>1, DefaultsAreWords
      <4> QED  BY <2>1, <3>1, <3>3, <4>2 DEF FieldFits, Path
    <3>4. CASE Given(f) # {}
      <4>1. PICK i \in Given(f) :
              (\A j \in Given(f) : j <= i) /\ field[f] = Converted(f, lines[i].word)
        BY <1>1, <3>4 DEF FieldFits
      <4>2. lines[i].word \in Word
        BY <1>1, WordsOfLines DEF ConfTyped
      <4>3. field'[f] = Converted(f, lines[i].word)
        BY <3>1, <3>2, <4>1, <4>2, ConfAssumption DEF Converted
      <4>4. lines'[i] = lines[i]
        BY <1>4
      <4> QED  BY <2>1, <3>1, <4>1, <4>3, <4>4 DEF FieldFits, Converted, Path
    <3> QED  BY <3>3, <3>4
  <2> QED  BY <2>2, <2>3
<1> QED  BY <1>5, <1>6

LEMMA LineKeeps == ASSUME ConfInv, NEW l \in Line, ReadLine(l) PROVE ConfInv'
<1>1. FieldsFit'
  BY LineFits DEF FieldsFit
<1>2. l.word \in Word /\ lines' \in Seq(Line)
  BY LinesGrow DEF ConfInv, ReadLine
<1>3. field' \in [Field -> Word]
  BY <1>2, ConfAssumption DEF ConfInv, ConfTyped, ReadLine, Path, Stored
<1>4. ConfTyped'
  BY <1>2, <1>3 DEF ConfInv, ConfTyped, ReadLine
<1>5. StateNamesWhatIsMissing'
  <2>1. state = {k \in DbKey : LinesOf(k) = {}} /\ state' = state \ {l.key}
    BY DEF ConfInv, StateNamesWhatIsMissing, ReadLine, Clear
  <2>2. \A k \in DbKey : LinesOf(k)' = {} <=> LinesOf(k) = {} /\ l.key # k
    BY LinesGrow DEF ConfInv, ReadLine
  <2> QED  BY <2>1, <2>2 DEF StateNamesWhatIsMissing
<1> QED  BY <1>1, <1>4, <1>5 DEF ConfInv

\* The other steps of the constructor.
LEMMA ConstructionKeeps == ASSUME ConfInv, NoFile \/ Open \/ EndOfFile PROVE ConfInv'
<1>1. field \in [Field -> Word]
  BY DEF ConfInv, ConfTyped
<1>2. CASE NoFile \/ EndOfFile
  <2>1. field' \in [Field -> Word]
    <3>1. CASE NoFile
      <4>1. "log_file_path" \in Field
        BY DEF Field
      <4>2. Absolute[field["log_file_path"]] \in Word
        BY <1>1, <4>1, ConfAssumption
      <4> QED  BY <1>1, <3>1, <4>1, <4>2 DEF NoFile
    <3>2. CASE EndOfFile
      BY <1>1, <3>2 DEF EndOfFile
    <3> QED  BY <1>2, <3>1, <3>2
  <2>2. lines' \in Seq(Line) /\ pc' = "built"
    <3>1. lines' = lines \/ lines' = <<>>
      BY <1>2 DEF NoFile, EndOfFile
    <3>2. pc' = "built"
      BY <1>2 DEF NoFile, EndOfFile
    <3>3. lines \in Seq(Line) /\ <<>> \in Seq(Line)
      BY DEF ConfInv, ConfTyped
    <3> QED  BY <3>1, <3>2, <3>3
  <2>3. ConfTyped' /\ StateNamesWhatIsMissing' /\ FieldsFit'
    BY <2>1, <2>2 DEF ConfTyped, StateNamesWhatIsMissing, FieldsFit
  <2> QED  BY <2>3 DEF ConfInv
<1>3. CASE Open
  <2>1. field = Default /\ lines = <<>> /\ lines' = <<>> /\ field' = Default
    BY <1>3 DEF Open, ConfInv, ConfTyped
  <2>2. \A f : LinesOf(f)' = {} /\ Given(f)' = {}
    BY <2>1 DEF LinesOf, Given
  <2> QED
    BY <1>1, <1>3, <2>1, <2>2
    DEF Open, ConfInv, ConfTyped, StateNamesWhatIsMissing, FieldsFit, FieldFits
<1> QED  BY <1>2, <1>3

\* A call finds the conf built and leaves words in its fields.
LEMMA CallsKeep == ASSUME ConfInv, CallConf PROVE ConfInv'
<1>1. field \in [Field -> Word] /\ pc = "built" /\ pc' = "built" /\ lines' = lines
  BY CallNeedsConf
  DEF ConfInv, ConfTyped, CallConf, GetConfErr, Get, Set, SetState, Called
<1>2. field' \in [Field -> Word]
  <2>1. CASE GetConfErr
    BY <1>1, <2>1, ConfAssumption DEF GetConfErr, Field
  <2>2. ASSUME NEW f \in Asked, NEW w \in Input, Set(f, w) PROVE field' \in [Field -> Word]
    BY <1>1, <2>2, ConfAssumption DEF Set
  <2>3. ASSUME field' = field PROVE field' \in [Field -> Word]
    BY <1>1, <2>3
  <2> QED  BY <2>1, <2>2, <2>3 DEF CallConf, Get, SetState
<1> QED
  BY <1>1, <1>2 DEF ConfInv, ConfTyped, StateNamesWhatIsMissing, FieldsFit

LEMMA ConfStepKeeps == ConfInv /\ [Next]_vars => ConfInv'
<1> SUFFICES ASSUME ConfInv, [Next]_vars PROVE ConfInv'
  OBVIOUS
<1>1. CASE UNCHANGED vars
  <2>1. \A f : LinesOf(f)' = LinesOf(f) /\ Given(f)' = Given(f)
    BY <1>1 DEF vars, LinesOf, Given
  <2>2. \A f : FieldFits(f)' <=> FieldFits(f)
    BY <1>1, <2>1 DEF vars, FieldFits, Converted, Path
  <2> QED
    BY <1>1, <2>1, <2>2
    DEF vars, ConfInv, ConfTyped, StateNamesWhatIsMissing, FieldsFit
<1> QED
  BY <1>1, LineKeeps, ConstructionKeeps, CallsKeep DEF Next, ReadFile

\* The file is read so that the last line that says something about a field counts.
LEMMA FitMeansLast == ConfInv => LastWordCounts
<1> SUFFICES ASSUME ConfInv, pc = "reading"
             PROVE  \A f \in Field :
    LET last == CHOOSE i \in Given(f) : \A j \in Given(f) : j <= i
        word == IF Given(f) = {} THEN Default[f] ELSE lines[last].word
    IN  field[f] = CASE LinesOf(f) = {} -> Default[f]
                     [] f = "log_file_path" /\ LinesOf(f) # {} -> Absolute[word]
                     [] f \in NumberKey /\ Given(f) # {} -> Number[word]
                     [] OTHER -> word
  BY DEF LastWordCounts, Given
<1> TAKE f \in Field
<1> DEFINE last == CHOOSE i \in Given(f) : \A j \in Given(f) : j <= i
           word == IF Given(f) = {} THEN Default[f] ELSE lines[last].word
<1>1. FieldFits(f) /\ Given(f) \subseteq LinesOf(f) /\ LinesOf(f) \subseteq Nat
  BY DEF ConfInv, FieldsFit, Given, LinesOf
<1>2. ASSUME Given(f) # {} PROVE field[f] = Converted(f, lines[last].word)
  <2>1. PICK i \in Given(f) :
          (\A j \in Given(f) : j <= i) /\ field[f] = Converted(f, lines[i].word)
    BY <1>1, <1>2 DEF FieldFits
  <2>2. last \in Given(f) /\ \A j \in Given(f) : j <= last
    BY <2>1
  <2>3. last = i
    BY <1>1, <2>1, <2>2
  <2> QED  BY <2>1, <2>3
<1> HIDE DEF last
<1>7. Given(f) # {} => word = lines[last].word
  OBVIOUS
<1>8. Given(f) = {} => word = Default[f]
  OBVIOUS
<1> HIDE DEF word
<1>3. "log_file_path" \notin NumberKey
  BY DEF NumberKey
<1>4. field[f] = CASE LinesOf(f) = {} -> Default[f]
                   [] f = "log_file_path" /\ LinesOf(f) # {} -> Absolute[word]
                   [] f \in NumberKey /\ Given(f) # {} -> Number[word]
                   [] OTHER -> word
  <2>1. CASE LinesOf(f) = {}
    BY <1>1, <2>1 DEF FieldFits
  <2>2. CASE LinesOf(f) # {} /\ Given(f) = {}
    BY <1>1, <1>3, <1>8, <2>2 DEF FieldFits, Path
  <2>3. CASE LinesOf(f) # {} /\ Given(f) # {}
    BY <1>2, <1>3, <1>7, <2>3 DEF Converted, Path
  <2> QED  BY <2>1, <2>2, <2>3
<1> QED  BY <1>4 DEF last, word

LEMMA ConfInvariance == Spec => []ConfInv
<1> QED  BY ConfInitIsGood, ConfStepKeeps, PTL DEF Spec

\* Every step of a start is a step of Conf, or none.
LEMMA StartStepsConf == [StartupNext]_allVars => [Next]_vars
BY DEF StartupNext, FirstCall, LaterCall, InitStep, ChangePathToBin, ParseArgs, ReadConf,
       TestConf, MakePool, Prepare, Fork, LaunchThread, Return, UseConf, Stopped, allVars, Next

\* light_shadow uses its conf by the operations of conf alone: the detailed
\* specification of the start implements that of the configuration.
THEOREM StartUsesConf == StartupSpec => Spec
<1>1. StartupInit => Init
  BY DEF StartupInit
<1> QED  BY <1>1, StartStepsConf, PTL DEF StartupSpec, Spec

\* While the file is read, the state of conf names the settings of the database no
\* line has given, for every file.
THEOREM StateAlwaysNamesMissing == StartupSpec => []StateNamesWhatIsMissing
<1>1. ConfInv => StateNamesWhatIsMissing
  BY DEF ConfInv
<1> QED  BY <1>1, ConfInvariance, StartUsesConf, PTL

\* The last word a file has for a field is the field's value, converted.
THEOREM LastWordAlwaysCounts == StartupSpec => []LastWordCounts
<1> QED  BY FitMeansLast, ConfInvariance, StartUsesConf, PTL
===============================================================================

--------------------------------- MODULE Conf ---------------------------------
(***************************************************************************)
(* class conf (conf.h, conf.cpp): reads the configuration file line by     *)
(* line into its fields and keeps, in its state, which of the three        *)
(* settings of the database no line has given; afterwards any thread may   *)
(* read and set the fields.  Each of those calls is one critical section   *)
(* of conf_lock, so that a call is one step; get_conf_err, which writes    *)
(* under the read lock, is one only while no other reader is inside.       *)
(*                                                                         *)
(* A line is a key and the word after it, Nothing when there is none.      *)
(* How words are converted is given by two functions on them.              *)
(***************************************************************************)
EXTENDS Naturals, Sequences, FiniteSets

CONSTANTS
  Line,      \* the lines a file may have: records of a key and a word
  Asked,     \* the fields that are set and got
  Input,     \* words a field may be set to
  Word,      \* what a field may hold
  Nothing,   \* the empty word
  Number,    \* Number[w]: what >> leaves in an unsigned int when it reads w
  Absolute,  \* Absolute[w]: path_to_absolute_path(w)
  MaxLines,  \* bound: lines of the file
  MaxCalls   \* bound: calls made of the object

NumberKey == {"io_thread_num", "calculate_thread_num", "port"}
DbKey == {"db_ip", "db_username", "db_password"}
Field == NumberKey \cup DbKey \cup {"bind_ip", "bind_domain_name", "log_file_path"}

Default ==
  [f \in Field |-> CASE f = "port" -> "80" [] f \in NumberKey \ {"port"} -> "1"
                     [] OTHER -> Nothing]

ASSUME ConfAssumption ==
  /\ Line \subseteq [key : STRING, word : Word]
  /\ Asked \subseteq Field
  /\ Input \cup {Nothing, "80", "1"} \subseteq Word
  /\ Number \in [Word -> Word]
  /\ Absolute \in [Word -> Word]
  /\ \A w \in Word : Absolute[Absolute[w]] = Absolute[w]
  /\ MaxLines \in Nat /\ MaxCalls \in Nat

VARIABLES
  pc,      \* new, reading, built
  lines,   \* history: the lines read, until the file is closed
  field,   \* the fields of conf_data
  state,   \* data->state: the bits that are set, CONF_FILE_MISS as "file"
  calls    \* history: the setters and getters called, with their answers

vars == <<pc, lines, field, state, calls>>

\* Slips: bits cleared by =; a word that fails to convert leaves the old number.
ClearAll(k) == IF k \in DbKey THEN {} ELSE state
StoredNumber(k, w) ==
  IF w = Nothing \/ (k \in NumberKey /\ Number[w] # w) THEN field[k] ELSE w

\* state&=~CONF_..._MISS
Clear(k) == state \ {k}

\* sline>>field: nothing to read leaves the field alone.
Stored(k, w) ==
  IF w = Nothing THEN field[k] ELSE IF k \in NumberKey THEN Number[w] ELSE w
Path(k, w) == IF k = "log_file_path" THEN Absolute[w] ELSE w

\* The member a getter copies.
Source(f) == IF f = "bind_ip" THEN "db_ip" ELSE f

-----------------------------------------------------------------------------
(***************************************************************************)
(* The constructor.                                                        *)
(***************************************************************************)
\* The constructor reports the missing file by get_conf_err, which looks for the
\* file's name in log_file_path.  It asks again until get_conf_err, here, or
\* get_conf_message, at the end of the file, gets the lock: rounds that change
\* nothing, of a lock nobody else has yet.
NoFile ==
  /\ pc = "new" /\ pc' = "built"
  /\ state' = {"file"}
  /\ field' = [field EXCEPT !["log_file_path"] = Absolute[@]]
  /\ UNCHANGED <<lines, calls>>

Open ==
  /\ pc = "new" /\ pc' = "reading"
  /\ state' = DbKey
  /\ UNCHANGED <<lines, field, calls>>

\* An unknown key is skipped with its line.
ReadLine(l) ==
  /\ pc = "reading" /\ Len(lines) < MaxLines
  /\ lines' = Append(lines, l)
  /\ \/ /\ l.key \in Field
        /\ field' = [field EXCEPT ![l.key] = Path(l.key, Stored(l.key, l.word))]
     \/ l.key \notin Field /\ UNCHANGED field
  /\ state' = Clear(l.key)
  /\ UNCHANGED <<pc, calls>>

EndOfFile ==
  /\ pc = "reading" /\ pc' = "built" /\ lines' = <<>>
  /\ UNCHANGED <<field, state, calls>>

-----------------------------------------------------------------------------
(***************************************************************************)
(* The calls of a conf that was built, whatever its state.                 *)
(***************************************************************************)
Called(c) ==
  /\ pc = "built" /\ Len(calls) < MaxCalls
  /\ calls' = Append(calls, c) /\ UNCHANGED <<pc, lines>>

Set(f, w) ==
  /\ f \in NumberKey => Number[w] = w
  /\ Called([op |-> "set", of |-> f, word |-> w])
  /\ field' = [field EXCEPT ![f] = w] /\ UNCHANGED state

SetState(s) ==
  /\ Called([op |-> "set", of |-> "state", word |-> Nothing])
  /\ state' = s /\ UNCHANGED field

Get(f) ==
  /\ Called([op |-> "get", of |-> f, word |-> field[Source(f)]])
  /\ UNCHANGED <<field, state>>

\* get_conf_err changes a field, when there was no file.
GetConfErr ==
  /\ Called([op |-> "err", of |-> "state", word |-> Nothing])
  /\ \/ /\ "file" \in state
        /\ field' = [field EXCEPT !["log_file_path"] = Absolute[@]]
     \/ "file" \notin state /\ UNCHANGED field
  /\ UNCHANGED state

-----------------------------------------------------------------------------
Init ==
  /\ pc = "new"
  /\ lines = <<>> /\ calls = <<>>
  /\ field = Default
  /\ state = {}

ReadFile == NoFile \/ Open \/ EndOfFile \/ (\E l \in Line : ReadLine(l))

CallConf ==
  \/ GetConfErr
  \/ \E f \in Asked : Get(f) \/ (\E w \in Input : Set(f, w))
  \/ \E s \in {{}, {"file"}, {"db_ip"}} : SetState(s)

Next ==
  \/ ReadFile \/ CallConf
  \/ pc = "built" /\ Len(calls) = MaxCalls /\ UNCHANGED vars

Spec == Init /\ [][Next]_vars
-----------------------------------------------------------------------------
LinesOf(k) == {i \in 1 .. Len(lines) : lines[i].key = k}

\* While the file is read the state names exactly the settings of the database
\* that no line has given, in whatever order and however often others come.
StateNamesWhatIsMissing ==
  pc = "reading" => state = {k \in DbKey : LinesOf(k) = {}}

\* A field has the value of the last of its lines that has one, converted; the
\* path of the log file is absolute by the time daemonize changes the directory.
LastWordCounts ==
  pc = "reading" => \A f \in Field :
    LET given == {i \in LinesOf(f) : lines[i].word # Nothing}
        last  == CHOOSE i \in given : \A j \in given : j <= i
        word  == IF given = {} THEN Default[f] ELSE lines[last].word
    IN  field[f] = CASE LinesOf(f) = {} -> Default[f]
                     [] f = "log_file_path" /\ LinesOf(f) # {} -> Absolute[word]
                     [] f \in NumberKey /\ given # {} -> Number[word]
                     [] OTHER -> word

\* get_bind_ip yields the address to bind to (conf.h: int get_bind_ip(string&)
\* const;//获取绑定ip): after set_bind_ip, and until it is set again, that one.
BindIpIsAnswered ==
  \A i, j \in 1 .. Len(calls) :
    /\ i < j /\ calls[i].op = "set" /\ calls[j].op = "get"
    /\ calls[i].of = "bind_ip" /\ calls[j].of = "bind_ip"
    /\ \A n \in i + 1 .. j - 1 : calls[n].op = "set" => calls[n].of # "bind_ip"
    => calls[j].word = calls[i].word
===============================================================================

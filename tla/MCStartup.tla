------------------------------ MODULE MCStartup ------------------------------
(***************************************************************************)
(* Instances of Startup for TLC.  Words are empty, a number, or a relative *)
(* path that is no number; the lines are those a start needs, and some it  *)
(* can do without.                                                         *)
(***************************************************************************)
EXTENDS Startup, TLC

Inputs == {"", "4", "a"}
Plain  == Inputs \cup {"0", "1", "80"}
Rooted == [w \in Plain |-> CASE w = "" -> "/" [] w = "4" -> "/4" [] w = "a" -> "/a"
                             [] w = "0" -> "/0" [] w = "1" -> "/1" [] w = "80" -> "/80"]
Paths == {Rooted[w] : w \in Plain}
Words == Plain \cup Paths
ToAbsolute == [w \in Words |-> IF w \in Paths THEN w ELSE Rooted[w]]
ToNumber   == [w \in Words |-> IF w \in Plain \ {"", "a"} THEN w ELSE "0"]
AtLeast3   == {"4", "80"}

LinesWith(k, words) == {[key |-> k, word |-> w] : w \in words}
Lines ==
  UNION {LinesWith("db_ip", {"a", ""}), LinesWith("db_username", {"a"}),
         LinesWith("db_password", {"a"}), LinesWith("io_thread_num", {"4", "a"}),
         LinesWith("port", {"4", ""}), LinesWith("log_file_path", {"a", ""}),
         LinesWith("unknown", {"a"})}
OneLine == LinesWith("bind_ip", {"a"})

Options == "-cf" :> "f"
CommandLines ==
  {<<>>, <<"-c", "f", "g">>, <<"-cf">>, <<"-h">>, <<"-x">>, <<"-h", "-x">>, <<"-c">>}
===============================================================================

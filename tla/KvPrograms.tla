------------------------------ MODULE KvPrograms ------------------------------
(***************************************************************************)
(* The key-value programs of projects 1 to 5 as far as one process goes:   *)
(* the dictionary of project 1, what opening a log store does to the       *)
(* working directory, how a server picks its engine, and how a command of  *)
(* the stand-alone programs ends.  The client/server part is KvService.    *)
(*                                                                         *)
(* A path is "missing", "file" or "directory"; a working directory has the *)
(* content of its file "engine" and the generations of its *.log files.    *)
(***************************************************************************)
EXTENDS Naturals, Sequences, FiniteSetsExt

CONSTANTS
  Key,    \* keys
  Value,  \* values
  none    \* no value, no engine, no answer

ASSUME NoneIsNeither == none \notin Key \cup Value

\* What a client asks a server for.
Command == [op : {"set"}, key : Key, value : Value] \cup [op : {"get", "rm"}, key : Key]

\* What a stand-alone program is asked for: a command, or its version.
Invocation == Command \cup [op : {"-V"}]

-----------------------------------------------------------------------------
(* Project 1: a dictionary that lives as long as the process. *)

new == [k \in Key |-> none]

set(cache, k, v) == [cache EXCEPT ![k] = v]

get(cache, k) == cache[k]

remove_key(cache, k) == [found |-> cache[k] # none, cache |-> [cache EXCEPT ![k] = none]]

\* A process starts from a new dictionary, runs one command on it and ends.  The value of a
\* set is read from the argument KEY; -V is a subcommand that execute does not know.
execute(cmd) ==
  CASE cmd.op = "set" -> [ends |-> "done", cache |-> set(new, cmd.key, cmd.key)]
    [] cmd.op = "get" -> [ends |-> "done", cache |-> new, shown |-> get(new, cmd.key)]
    [] cmd.op = "rm"  -> [ends |-> "done", cache |-> remove_key(new, cmd.key).cache]
    [] OTHER          -> [ends |-> "panicked", cache |-> new]

-----------------------------------------------------------------------------
(* Projects 2, 3 and 4: the log store is opened on a directory, and the writer of its first *)
(* log opens that same path for appending.                                                  *)

\* fs::read_dir lists a directory and nothing else.
sorted_generation2(path) == path = "directory"

sorted_generation3(path) == path = "directory"

sorted_generation4(path) == path = "directory"

\* The writer of project 2 opens the path it is given: a file is opened, a missing one is
\* created, a directory is refused.
new_log_file2(path) == path # "directory"

new_log_file3(path) == path # "directory"

new_log_file4(path) == path # "directory"

open2(path) == sorted_generation2(path) /\ new_log_file2(path)

open3(path) == sorted_generation3(path) /\ new_log_file3(path)

\* create_dir_all makes a missing directory and refuses a file.
create_dir_all(path) == IF path = "missing" THEN "directory" ELSE path

open4(path) ==
  LET made == create_dir_all(path) IN sorted_generation4(made) /\ new_log_file4(made)

\* Every command of the program kvs of project 2 opens the store in the working directory.
main2(cmd) == IF cmd.op = "-V" \/ open2("directory") THEN "done" ELSE "failed"

\* So does the program kvs-client of project 3, which talks to no server ...
main3_client(cmd) == IF cmd.op = "-V" \/ open3("directory") THEN "done" ELSE "failed"

\* ... and kvs-server takes the subcommands --addr, which no branch serves, and -V.
main3_server(subcommand) == IF subcommand = "-V" THEN "done" ELSE "panicked"

-----------------------------------------------------------------------------
(* Project 5: the writer creates <generation>.log inside the directory. *)

\* What the stream of commands read from a log yields.  LogReaderWithPos::read answers with
\* the number of calls so far in place of the number of bytes, so the end of the file is not
\* seen and zero bytes, no command (none), follow what the log holds.
streamed(log) == Append(log, none)

\* A zero byte is no command: the load fails there.
load_log_file(log) == \A i \in DOMAIN streamed(log) : streamed(log)[i] \in Command

\* The generations of the *.log files in the directory, the last of which counts.
sorted_generation5(logs) == Max(logs \cup {0})

new_log_file5(logs, gen) == logs \cup {gen}

\* Opening loads every log in the directory, whatever it holds (here nothing), and then
\* creates the log of the next generation.  The index is what was loaded.
open5(logs) ==
  LET curr_gen == sorted_generation5(logs) + 1
  IN  IF \A gen \in logs : load_log_file(<< >>)
      THEN [opened |-> TRUE,  logs |-> new_log_file5(logs, curr_gen)]
      ELSE [opened |-> FALSE, logs |-> logs]

\* LogWriterWithPos::write also answers with the number of calls.  The first piece of a
\* command is one byte and the answer 1; from the second on the answer exceeds what was
\* given, which write_all refuses by a panic.
write5(n) == n <= 1

\* set serialises its command, of two pieces at least, before it changes the index.
set5 == \A n \in 1..2 : write5(n)

\* get looks its key up in the index made by open, and remove in the writer's copy of it.
get5(index, k) == k \in index

remove5(index, k) == k \in index /\ set5

-----------------------------------------------------------------------------
(* The engine of a server. *)

Engines == {"kvs", "sled"}

\* The engine the file names; none if there is no file, or its content is not an engine.
check_current_engine4(file) == IF file \in Engines THEN file ELSE none

check_current_engine5(file) == IF file \in Engines THEN file ELSE none

\* What --engine may be.  That of project 4 admits only the value "Engines::VARIANTS", which
\* then parses as no engine: a server that starts was not given the option.
Opt4 == {none}

Opt5 == Engines \cup {none}

\* Mutant: the file is not compared.
main4_ignoresFile(file, opt) == [runs |-> TRUE, opt |-> opt]

\* The engine main asks run_server for (none: to choose), unless it exits on a wrong one.
main4(file, opt) ==
  LET v == check_current_engine4(file)
  IN  [runs |-> v # none /\ opt # none => v = opt, opt |-> IF v # none THEN v ELSE opt]

main5(file, opt) ==
  LET curr == check_current_engine5(file)
      want == IF opt = none THEN curr ELSE opt
  IN  [runs |-> curr # none => want = curr, opt |-> want]

\* The engine run_server takes: in project 5 the option is not looked at.
current_engine4(opt) == IF opt = none THEN "kvs" ELSE opt

current_engine5(opt) == "kvs"
=============================================================================

------------------------------ MODULE Porcupine ------------------------------
(***************************************************************************)
(* The linearizability checker and its key-value model: the Go package     *)
(* 6.5840/src/porcupine with models/kv.go, and crates/linearizability, its *)
(* port to Rust.  Both split a history into partitions, search each in a   *)
(* thread of its own (checkSingle, check_single: the same algorithm) and   *)
(* collect the answers (checkParallel, wait_res).                          *)
(*                                                                         *)
(* The operations on one key are 1..Len(ops), and their search is modelled *)
(* in full: node k of the linked list is the k-th entry, node 0 is         *)
(* headEntry and -1 the nil pointer; each turn of the loop is one action.  *)
(* There may be one operation on a second key, whose search is one step.   *)
(***************************************************************************)
EXTENDS Integers, Sequences, SequencesExt

CONSTANTS
  Op,        \* the operations of histories: [op, in, out]
  MaxOps,    \* bound: operations in a history
  MaxTime    \* bound: timestamps

ASSUME OpAssumption ==
  /\ \A o \in Op : o.op \in {"get", "put", "append"}
  /\ MaxOps \in Nat /\ MaxTime \in Nat

nil == -1

VARIABLES
  port,        \* go or rust
  verbose,     \* the Go caller asked for the partial linearizations
  ops,         \* the history: the operation, its Call and its Return time
  history,     \* its entries in the order they are put
  next, prev,  \* the pointers of the nodes
  entry,       \* the node the search is at
  calls,       \* stack of the operations linearized, with the state before
  linearized,  \* the bitset
  cache,       \* pairs of bitset and state
  state,
  longest,     \* of each operation: a longest partial linearization with it
  kill,        \* the searches have been told to stop
  result,      \* of the search: absent, running, or what it returned
  other,       \* the search of the second key: its pc, and the right answer
  results,     \* the channel with the answers of the searches
  main         \* the thread that collects them

input == <<port, verbose, ops, history>>

list == <<next, prev>>

vars == <<input, list, entry, calls, linearized, cache, state, longest, kill, result, other,
          results, main>>

-----------------------------------------------------------------------------
(* The key-value model: the value of one key, as the sequence of strings   *)
(* appended to it.                                                         *)

init == <<>>

\* Whether the operation may happen in state st, and the state after it.
Step(st, o) ==
  CASE o.op = "get"    -> [ok |-> o.out = st, state |-> st]
    [] o.op = "put"    -> [ok |-> TRUE, state |-> <<o.in>>]
    [] o.op = "append" -> [ok |-> TRUE, state |-> Append(st, o.in)]

-----------------------------------------------------------------------------
(* The list of entries.                                                    *)

Entry(n) == [kind : {"call", "return"}, id : 1..n]

time(h, e) == IF e.kind = "call" THEN h[e.id].call ELSE h[e.id].return

Less(h, a, b) ==
  IF time(h, a) # time(h, b) THEN time(h, a) < time(h, b)
                             ELSE a.kind = "call" /\ b.kind = "return"

\* The orders in which every operation returns after its call.
Orders == UNION {{s \in Bijection(1..(2 * n), Entry(n)) : \A i, j \in 1..(2 * n) :
  s[i].id = s[j].id /\ s[i].kind = "call" /\ s[j].kind = "return" => i < j} : n \in 0..MaxOps}

\* The results sort.Sort may have: it is not stable.
makeEntries(h) ==
  {s \in Orders : Len(s) = 2 * Len(h) /\ \A i, j \in DOMAIN s : i < j => ~Less(h, s[j], s[i])}

\* Rust: sorted by time alone and, since the sort is stable, at equal times as
\* they were put, call and return of each operation.
make_entries(h) ==
  LET put(e) == 2 * e.id + (IF e.kind = "call" THEN 0 ELSE 1)
  IN {s \in Orders : Len(s) = 2 * Len(h) /\ \A i, j \in DOMAIN s : i < j =>
        \/ time(h, s[i]) < time(h, s[j])
        \/ time(h, s[i]) = time(h, s[j]) /\ put(s[i]) < put(s[j])}

\* A history given as events: the calls numbered in the order they come.
renumber(s) ==
  \A i, j \in DOMAIN s : i < j /\ s[i].kind = "call" /\ s[j].kind = "call" => s[i].id < s[j].id

position(s, kind, id) == CHOOSE k \in DOMAIN s : s[k] = [kind |-> kind, id |-> id]

nodes == 1..Len(history)
isCall(k) == k \in nodes /\ history[k].kind = "call"
match(k) == CHOOSE j \in nodes : history[j].id = history[k].id /\ history[j].kind = "return"

\* Removes call k and its return from the list.
lift(k) ==
  LET m == match(k)
      n1 == [next EXCEPT ![prev[k]] = next[k]]
      p1 == [prev EXCEPT ![next[k]] = prev[k]] IN
  /\ next' = [n1 EXCEPT ![p1[m]] = n1[m]]
  /\ prev' = IF n1[m] # nil THEN [p1 EXCEPT ![n1[m]] = p1[m]] ELSE p1

\* Mutant: the call goes back into the list before its return.
unlift_callFirst(k) ==
  LET m == match(k)
      n1 == [next EXCEPT ![prev[k]] = k]
      p1 == [prev EXCEPT ![n1[k]] = k] IN
  /\ next' = [n1 EXCEPT ![p1[m]] = m]
  /\ prev' = p1

\* Puts them back.
unlift(k) ==
  LET m == match(k)
      n1 == [next EXCEPT ![prev[m]] = m]
      p1 == IF n1[m] # nil THEN [prev EXCEPT ![n1[m]] = m] ELSE prev IN
  /\ next' = [n1 EXCEPT ![p1[k]] = k]
  /\ prev' = [p1 EXCEPT ![n1[k]] = k]

-----------------------------------------------------------------------------
(* checkSingle.                                                            *)

timed == {o \in [op : Op, call : 1..MaxTime, return : 1..MaxTime] : o.call <= o.return}

\* A history of operations.  Go's checker compares their ids only for
\* equality: there they are numbered by Call and Return.
ofOperations ==
  /\ ops \in UNION {[1..n -> timed] : n \in 1..MaxOps}
  /\ IF port = "go"
     THEN /\ \A i, j \in DOMAIN ops : i < j =>
               \/ ops[i].call < ops[j].call
               \/ ops[i].call = ops[j].call /\ ops[i].return <= ops[j].return
          /\ history \in makeEntries(ops)
     ELSE history \in make_entries(ops)

\* A history of events, in the order they happened.
ofEvents ==
  \E n \in 0..MaxOps : \E s \in Orders, o \in [1..n -> Op] :
    /\ Len(s) = 2 * n /\ renumber(s)
    /\ history = s
    /\ ops = [k \in 1..n |-> [op |-> o[k], call |-> position(s, "call", k),
                              return |-> position(s, "return", k)]]

Init ==
  /\ port \in {"go", "rust"}
  /\ verbose \in {FALSE, port = "go"}
  /\ ofOperations \/ ofEvents
  /\ next = [k \in 0..Len(history) |-> IF k = Len(history) THEN nil ELSE k + 1]
  /\ prev = [k \in 0..Len(history) |-> k - 1]
  /\ entry = IF history = <<>> THEN nil ELSE 1
  /\ calls = <<>> /\ linearized = {} /\ cache = {} /\ state = init
  /\ longest = [o \in DOMAIN ops |-> <<>>]
  /\ kill = FALSE
  /\ result = IF ops = <<>> THEN "absent" ELSE "running"
  /\ other \in [pc : {"absent", "running"}, legal : BOOLEAN]
  /\ IF other.pc = "absent" THEN other.legal ELSE Len(ops) < MaxOps
  /\ results = <<>>
  /\ main = [pc |-> "wait", ok |-> TRUE, count |-> 0, timedOut |-> FALSE]

ids(stack) == [k \in DOMAIN stack |-> history[stack[k].entry].id]

\* The condition of the loop, and the look at kill.
loops == result = "running" /\ next[0] # nil /\ ~kill

\* Mutant: the cache is looked up by the operations linearized alone.
cacheContains_bits(bits, st) == \E c \in cache : c[1] = bits

cacheContains(bits, st) == <<bits, st>> \in cache

\* entry is a call that can be linearized next, and was not in this way.
linearize ==
  LET o == history[entry].id
      step == Step(state, ops[o].op) IN
  /\ loops /\ isCall(entry)
  /\ step.ok /\ ~cacheContains(linearized \cup {o}, step.state)
  /\ cache' = cache \cup {<<linearized \cup {o}, step.state>>}
  /\ calls' = Append(calls, [entry |-> entry, state |-> state])
  /\ state' = step.state
  /\ linearized' = linearized \cup {o}
  /\ lift(entry)
  /\ entry' = next'[0]
  /\ UNCHANGED <<input, longest, kill, result, other, results, main>>

\* Mutant: does not move on from a call that is in the cache.
advance_stays ==
  LET o == history[entry].id
      step == Step(state, ops[o].op) IN
  /\ loops /\ isCall(entry)
  /\ ~step.ok \/ cacheContains(linearized \cup {o}, step.state)
  /\ entry' = IF step.ok THEN entry ELSE next[entry]
  /\ UNCHANGED <<input, list, calls, linearized, cache, state, longest, kill, result, other,
                 results, main>>

\* entry is a call that cannot, or was.
advance ==
  LET o == history[entry].id
      step == Step(state, ops[o].op) IN
  /\ loops /\ isCall(entry)
  /\ ~step.ok \/ cacheContains(linearized \cup {o}, step.state)
  /\ entry' = next[entry]
  /\ UNCHANGED <<input, list, calls, linearized, cache, state, longest, kill, result, other,
                 results, main>>

\* Mutant: what was linearized is recorded for every operation.
recorded_forAll(o) ==
  IF verbose /\ Len(calls) > Len(longest[o]) THEN ids(calls) ELSE longest[o]

\* What was linearized is recorded for each operation it has.
recorded(o) ==
  IF verbose /\ o \in Range(ids(calls)) /\ Len(calls) > Len(longest[o]) THEN ids(calls) ELSE longest[o]

\* entry is the return of an operation that is not linearized: take back the
\* last one that is.
backtrack ==
  LET top == Last(calls) IN
  /\ loops /\ ~isCall(entry) /\ calls # <<>>
  /\ longest' = [o \in DOMAIN ops |-> recorded(o)]
  /\ state' = top.state
  /\ linearized' = linearized \ {history[top.entry].id}
  /\ calls' = Front(calls)
  /\ unlift(top.entry)
  /\ entry' = next'[top.entry]
  /\ UNCHANGED <<input, cache, kill, result, other, results, main>>

\* The three returns: the answer goes into the channel.
answer(b) ==
  /\ result' = IF b THEN "true" ELSE "false"
  /\ results' = Append(results, b)
  /\ UNCHANGED <<input, list, entry, calls, linearized, cache, state, kill, other, main>>

giveUp ==
  /\ loops /\ ~isCall(entry) /\ calls = <<>>
  /\ answer(FALSE)
  /\ UNCHANGED longest

succeed ==
  /\ result = "running" /\ next[0] = nil
  /\ longest' = [o \in DOMAIN ops |-> IF verbose THEN ids(calls) ELSE longest[o]]
  /\ answer(TRUE)

killed ==
  /\ result = "running" /\ next[0] # nil /\ kill
  /\ answer(FALSE)
  /\ UNCHANGED longest

checkSingle == linearize \/ advance \/ backtrack \/ giveUp \/ succeed \/ killed

\* The search of the second key: one operation, legal or not.
checkOther ==
  /\ other.pc = "running"
  /\ other' = [other EXCEPT !.pc = "done"]
  /\ results' = Append(results, other.legal /\ ~kill)
  /\ UNCHANGED <<input, list, entry, calls, linearized, cache, state, longest, kill, result, main>>

-----------------------------------------------------------------------------
(* The collecting thread.                                                  *)

\* One subhistory for each key that has operations.
partition == (IF ops = <<>> THEN 0 ELSE 1) + (IF other.pc = "absent" THEN 0 ELSE 1)

searching == <<input, list, entry, calls, linearized, cache, state, longest, result, other>>

\* Where the thread goes when it leaves its loop: Rust joins the searches; Go
\* waits for the other answers if it is to report on them, or returns.
left == IF port = "rust" THEN "join" ELSE IF verbose THEN "drain" ELSE "done"

\* Takes an answer: the first no ends the loop, unless all are wanted.
wait_res ==
  LET ok == main.ok /\ Head(results)
      count == main.count + 1 IN
  /\ main.pc = "wait" /\ results # <<>>
  /\ results' = Tail(results)
  /\ kill' = (kill \/ (~ok /\ ~verbose))
  /\ main' = [main EXCEPT !.ok = ok, !.count = count,
                          !.pc = IF (~ok /\ ~verbose) \/ count = partition THEN left ELSE "wait"]
  /\ UNCHANGED searching

\* Time is up.  Rust has looked for an answer first, and lets the searches run
\* on; Go may find both ready, and stops the searches.
timeout ==
  /\ main.pc = "wait" /\ (port = "rust" => results = <<>>)
  /\ kill' = (kill \/ port = "go")
  /\ main' = [main EXCEPT !.timedOut = TRUE, !.pc = left]
  /\ UNCHANGED <<searching, results>>

\* Mutant: the answers of searches that were told to stop count.
drain_counts ==
  /\ main.pc = "drain" /\ main.count < partition /\ results # <<>>
  /\ results' = Tail(results)
  /\ main' = [main EXCEPT !.count = @ + 1, !.ok = @ /\ Head(results)]
  /\ UNCHANGED <<searching, kill>>

\* Go, verbose: takes the answers that are still to come, unread.
drain ==
  /\ main.pc = "drain" /\ main.count < partition /\ results # <<>>
  /\ results' = Tail(results)
  /\ main' = [main EXCEPT !.count = @ + 1]
  /\ UNCHANGED <<searching, kill>>

drained ==
  /\ main.pc = "drain" /\ main.count >= partition
  /\ main' = [main EXCEPT !.pc = "done"]
  /\ UNCHANGED <<searching, kill, results>>

\* Rust: every search has ended.
join ==
  /\ main.pc = "join" /\ result # "running" /\ other.pc # "running"
  /\ main' = [main EXCEPT !.pc = "done"]
  /\ UNCHANGED <<searching, kill, results>>

collect == wait_res \/ drain \/ drained \/ join

Next == checkSingle \/ checkOther \/ collect \/ timeout

Spec == Init /\ [][Next]_vars

\* Every thread runs; the caller need not have set a timeout.
FairSpec == Spec /\ WF_vars(checkSingle) /\ WF_vars(checkOther) /\ WF_vars(collect)

-----------------------------------------------------------------------------
(* The reference definition.                                               *)

\* The state after the operations of seq, or "illegal".
run(seq) ==
  LET after[k \in 0..Len(seq)] ==
        IF k = 0 THEN [ok |-> TRUE, state |-> init]
        ELSE LET s == Step(after[k - 1].state, ops[seq[k]].op)
             IN [ok |-> after[k - 1].ok /\ s.ok, state |-> s.state]
  IN after[Len(seq)]

\* o had returned when p was called.  At equal times Go takes them as
\* concurrent, and Rust in the order they are listed.
before(o, p) ==
  \/ ops[o].return < ops[p].call
  \/ port = "rust" /\ ops[o].return = ops[p].call /\ o < p

\* seq has no operation after one that was called only when it had returned,
\* and leaves out none that had returned before one of seq was called.
respectsTime(seq) ==
  \A k \in DOMAIN seq : \A o \in DOMAIN ops :
    before(o, seq[k]) => \E j \in 1..(k - 1) : seq[j] = o

Linearizable ==
  \E seq \in Bijection(DOMAIN ops, DOMAIN ops) : respectsTime(seq) /\ run(seq).ok

-----------------------------------------------------------------------------
(* Properties.                                                             *)

\* checkSingle returns true exactly for the histories that are linearizable,
\* whatever pruning the cache does and however sort.Sort orders equal
\* timestamps; once told to stop it may only err towards false.
ResultIsLinearizability ==
  /\ result = "true" => Linearizable
  /\ result = "false" /\ ~kill => ~Linearizable

\* The list always has the entries of the operations not linearized, in the
\* order of the history, and entry is one of them: lift and unlift undo each
\* other although both leave the pointers of the nodes they remove alone.
ListIsRest ==
  LET rest == {k \in nodes : history[k].id \notin linearized}
      after(k) == {j \in rest : j > k} IN
  /\ \A k \in rest \cup {0} :
       next[k] = IF after(k) = {} THEN nil ELSE CHOOSE j \in after(k) : \A i \in after(k) : j <= i
  /\ \A k \in rest : next[prev[k]] = k
  /\ rest # {} => entry \in rest

\* Every partial linearization that checkSingle reports for an operation
\* contains it, and is a linearization of the operations it contains.
LongestIsLinearization ==
  \A o \in DOMAIN ops :
    longest[o] # <<>> =>
      o \in Range(longest[o]) /\ respectsTime(longest[o]) /\ run(longest[o]).ok

\* What the caller is told is right for the whole history, whatever order the
\* searches end in: "not linearizable" is never said because a search was told
\* to stop, and "linearizable" is said of every partition unless time was up.
\* Rust, and Go when it reports the partial linearizations, return only after
\* the last search has ended.
VerdictIsRight ==
  main.pc = "done" =>
    /\ ~main.ok => ~(Linearizable /\ other.legal)
    /\ main.ok /\ ~main.timedOut => Linearizable /\ other.legal
    /\ port = "rust" \/ verbose => result # "running" /\ other.pc # "running"

\* The search ends with an answer, also when it has to try every order; and
\* the caller gets its own, if the history has any operation.
CheckEnds ==
  /\ <>(result # "running")
  /\ partition > 0 => <>(main.pc = "done")
=============================================================================

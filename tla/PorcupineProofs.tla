--------------------------- MODULE PorcupineProofs ---------------------------
(***************************************************************************)
(* Proofs about Porcupine, for every set of key-value operations and every *)
(* bound: checkSingle decides linearizability, the list it works on and    *)
(* the partial linearizations it reports are right, and so is the verdict. *)
(***************************************************************************)
EXTENDS Porcupine, TLAPS, SequenceTheorems, FiniteSetTheorems, WellFoundedInduction

-----------------------------------------------------------------------------
(* Runs of operations.                                                     *)

States == Seq({o.in : o \in Op})

\* f has the state after each number of operations of seq, from st on.
Runs(seq, n, st, f) ==
  /\ f[0] = st
  /\ \A k \in 1..n : /\ Step(f[k - 1], ops[seq[k]].op).ok
                     /\ f[k] = Step(f[k - 1], ops[seq[k]].op).state

\* A set of naturals that is not empty has a least element: the induction of
\* the proofs below.
LEMMA Least ==
  ASSUME NEW T \in SUBSET Nat, T # {}
  PROVE  \E m \in T : \A y \in T : m <= y
<1>1. \E m \in T : \A y \in T : ~ (<<y, m>> \in OpToRel(<, Nat))
  BY Zenon, WFMin, NatLessThanWellFounded
<1>2. ASSUME NEW m \in T, NEW y \in T, ~ (<<y, m>> \in OpToRel(<, Nat))
      PROVE  m <= y
  BY <1>2 DEF OpToRel
<1>. QED  BY Zenon, <1>1, <1>2

\* What the operation on the key-value model returns.
LEMMA StepType ==
  ASSUME NEW st \in States, NEW o \in Op
  PROVE  Step(st, o).ok \in BOOLEAN /\ Step(st, o).state \in States
<1>1. o.op \in {"get", "put", "append"} /\ o.in \in {p.in : p \in Op}
  BY OpAssumption
<1>2. CASE o.op = "get"
  BY Zenon, <1>2 DEF Step
<1>. DEFINE V == {p.in : p \in Op}
<1>5. st \in Seq(V) /\ o.in \in V
  BY <1>1 DEF States
<1>6. <<o.in>> \in Seq(V) /\ Append(st, o.in) \in Seq(V)
  <2>. HIDE DEF V
  <2>. QED  BY <1>5
<1>3. CASE o.op = "put"
  BY Zenon, <1>6, <1>3 DEF Step, States
<1>4. CASE o.op = "append"
  BY Zenon, <1>6, <1>4 DEF Step, States
<1>. QED  BY <1>1, <1>2, <1>3, <1>4

\* The value after[k] of run, from the values before.
after(seq, f, k) ==
  IF k = 0 THEN [ok |-> TRUE, state |-> init]
  ELSE [ok |-> f[k - 1].ok /\ Step(f[k - 1].state, ops[seq[k]].op).ok,
        state |-> Step(f[k - 1].state, ops[seq[k]].op).state]

\* Its parts.
LEMMA AfterParts ==
  ASSUME NEW seq, NEW f, NEW k, k # 0
  PROVE  /\ after(seq, f, k).ok <=> (f[k - 1].ok /\ Step(f[k - 1].state, ops[seq[k]].op).ok)
         /\ after(seq, f, k).state = Step(f[k - 1].state, ops[seq[k]].op).state
<1>1. \A a, b : [ok |-> a, state |-> b].ok = a /\ [ok |-> a, state |-> b].state = b
  OBVIOUS
<1>2. after(seq, f, k).ok = (f[k - 1].ok /\ Step(f[k - 1].state, ops[seq[k]].op).ok)
  BY Zenon, <1>1 DEF after
<1>3. after(seq, f, k).state = Step(f[k - 1].state, ops[seq[k]].op).state
  BY Zenon, <1>1 DEF after
<1>. QED  BY Zenon, <1>2, <1>3

\* There is a function such as run defines.
LEMMA RunExists ==
  ASSUME NEW seq, NEW n \in Nat
  PROVE  \E f : f = [k \in 0..n |-> after(seq, f, k)]
<1>. DEFINE Good(m) == \E f : f = [k \in 0..m |-> after(seq, f, k)]
            T == {m \in Nat : ~Good(m)}
<1>1. SUFFICES ASSUME T # {} PROVE FALSE
  BY <1>1
<1>3. PICK m \in T : \A y \in T : m <= y
  BY Zenon, <1>1, Least
<1>4. \A y \in T : ~(y < m)
  BY <1>3
<1>5. m # 0
  <2>1. Good(0)
    <3>. DEFINE f == [k \in 0..0 |-> [ok |-> TRUE, state |-> init]]
    <3>1. f = [k \in 0..0 |-> after(seq, f, k)]
      BY DEF after
    <3>. QED  BY Zenon, <3>1
  <2>. QED  BY <2>1
<1>6. Good(m - 1) /\ m - 1 \in Nat
  <2>1. m - 1 \in Nat /\ m - 1 < m
    BY <1>5
  <2>. QED  BY <1>4, <2>1
<1>7. PICK f : f = [k \in 0..(m - 1) |-> after(seq, f, k)]
  BY <1>6
<1>. DEFINE g == [k \in 0..m |-> IF k = m THEN after(seq, f, m) ELSE f[k]]
<1>8. \A k \in 0..m : g[k] = after(seq, g, k)
  <2>. SUFFICES ASSUME NEW k \in 0..m PROVE g[k] = after(seq, g, k)
    OBVIOUS
  <2>1. k # 0 => g[k - 1] = f[k - 1]
    BY <1>5, <1>6
  <2>2. g[k] = after(seq, f, k)
    <3>1. CASE k = m
      BY <3>1
    <3>2. CASE k # m
      <4>1. k \in 0..(m - 1)
        BY <3>2, <1>6
      <4>2. f[k] = after(seq, f, k)
        BY <1>7, <4>1
      <4>. QED  BY <4>1, <4>2, <3>2
    <3>. QED  BY <3>1, <3>2
  <2>. HIDE DEF g
  <2>. QED  BY <2>1, <2>2 DEF after
<1>9. g = [k \in 0..m |-> after(seq, g, k)]
  BY <1>8
<1>. QED  BY Zenon, <1>9

\* What run computes.
LEMMA RunUnfold ==
  ASSUME NEW seq, NEW n \in Nat, Len(seq) = n
  PROVE  \E f : f = [k \in 0..n |-> after(seq, f, k)] /\ run(seq) = f[n]
<1>. DEFINE F == CHOOSE f : f = [k \in 0..n |-> after(seq, f, k)]
<1>1. F = [k \in 0..n |-> after(seq, F, k)]
  BY RunExists
<1>2. run(seq) = F[n]
  BY DEF run, after
<1>. QED  BY Zenon, <1>1, <1>2

\* A run that never fails is what run computes.
LEMMA RunOfRuns ==
  ASSUME NEW seq, NEW n \in Nat, Len(seq) = n, NEW g, Runs(seq, n, init, g)
  PROVE  run(seq).ok
<1>1. PICK f : f = [k \in 0..n |-> after(seq, f, k)] /\ run(seq) = f[n]
  BY RunUnfold
<1>. DEFINE T == {k \in 0..n : ~(f[k].ok /\ f[k].state = g[k])}
<1>2. SUFFICES ASSUME T # {} PROVE FALSE
  BY <1>1, <1>2
<1>3. PICK m \in T : \A y \in T : m <= y
  <2>1. T \in SUBSET Nat
    OBVIOUS
  <2>. QED  BY Zenon, <2>1, <1>2, Least
<1>4. f[m] = after(seq, f, m)
  BY <1>1
<1>5. m # 0
  BY <1>4 DEF after, Runs
<1>6. m \in 1..n /\ m - 1 \in 0..n /\ m - 1 \notin T
  BY <1>3, <1>5
<1>7. f[m - 1].ok /\ f[m - 1].state = g[m - 1]
  BY <1>6
<1>8. f[m].ok /\ f[m].state = g[m]
  <2>1. /\ f[m].ok <=> (f[m - 1].ok /\ Step(f[m - 1].state, ops[seq[m]].op).ok)
        /\ f[m].state = Step(f[m - 1].state, ops[seq[m]].op).state
    <3>1. /\ after(seq, f, m).ok <=> (f[m - 1].ok /\ Step(f[m - 1].state, ops[seq[m]].op).ok)
          /\ after(seq, f, m).state = Step(f[m - 1].state, ops[seq[m]].op).state
      BY <1>5, AfterParts
    <3>. QED  BY <3>1, <1>4
  <2>2. Step(g[m - 1], ops[seq[m]].op).ok /\ g[m] = Step(g[m - 1], ops[seq[m]].op).state
    BY <1>6 DEF Runs
  <2>. QED  BY Zenon, <2>1, <2>2, <1>7
<1>. QED  BY <1>3, <1>8

\* And a run computed as ok never fails.
LEMMA RunsOfRun ==
  ASSUME NEW seq, NEW n \in Nat, Len(seq) = n, run(seq).ok,
         \A k \in 1..n : ops[seq[k]].op \in Op
  PROVE  \E g \in [0..n -> States] : Runs(seq, n, init, g)
<1>1. PICK f : f = [k \in 0..n |-> after(seq, f, k)] /\ run(seq) = f[n]
  BY RunUnfold
<1>2. \A k \in 0..n : f[k] = after(seq, f, k)
  BY <1>1
<1>3. f[0].state = init
  <2>1. f[0] = after(seq, f, 0)
    BY <1>2
  <2>. QED  BY <2>1 DEF after
<1>4. \A k \in 1..n : /\ f[k].ok <=> (f[k - 1].ok /\ Step(f[k - 1].state, ops[seq[k]].op).ok)
                      /\ f[k].state = Step(f[k - 1].state, ops[seq[k]].op).state
  <2>. SUFFICES ASSUME NEW k \in 1..n
                PROVE  /\ f[k].ok <=> (f[k - 1].ok /\ Step(f[k - 1].state, ops[seq[k]].op).ok)
                       /\ f[k].state = Step(f[k - 1].state, ops[seq[k]].op).state
    OBVIOUS
  <2>1. f[k] = after(seq, f, k) /\ k # 0
    BY <1>2
  <2>2. /\ after(seq, f, k).ok <=> (f[k - 1].ok /\ Step(f[k - 1].state, ops[seq[k]].op).ok)
        /\ after(seq, f, k).state = Step(f[k - 1].state, ops[seq[k]].op).state
    BY <2>1, AfterParts
  <2>. QED  BY <2>1, <2>2
<1>5. \A k \in 0..n : f[k].state \in States
  <2>. DEFINE T == {k \in 0..n : f[k].state \notin States}
  <2>1. SUFFICES ASSUME T # {} PROVE FALSE
    BY <2>1
  <2>2. PICK m \in T : \A y \in T : m <= y
    <3>1. T \in SUBSET Nat
      OBVIOUS
    <3>. QED  BY Zenon, <3>1, <2>1, Least
  <2>3. m # 0
    <3>1. init \in States
      BY EmptySeq DEF init, States
    <3>. QED  BY <3>1, <1>3
  <2>4. m \in 1..n /\ f[m - 1].state \in States
    BY <2>2, <2>3
  <2>. QED  BY <2>2, <2>4, <1>4, StepType
<1>6. \A k \in 0..n : f[k].ok
  <2>. DEFINE T == {k \in 0..n : ~f[n - k].ok}
  <2>1. SUFFICES ASSUME T # {} PROVE FALSE
    <3>1. \A k \in 0..n : n - k \in 0..n /\ n - (n - k) = k
      OBVIOUS
    <3>. QED  BY Zenon, <2>1, <3>1
  <2>2. PICK m \in T : \A y \in T : m <= y
    <3>1. T \in SUBSET Nat
      OBVIOUS
    <3>. QED  BY Zenon, <3>1, <2>1, Least
  <2>3. m # 0
    BY <1>1
  <2>4. m \in 1..n /\ m - 1 \in 0..n /\ m - 1 \notin T
    BY <2>2, <2>3
  <2>5. f[n - m + 1].ok /\ n - m + 1 \in 1..n /\ (n - m + 1) - 1 = n - m
    BY <2>4
  <2>. QED  BY <2>2, <2>5, <1>4
<1>. DEFINE g == [k \in 0..n |-> f[k].state]
<1>7. g \in [0..n -> States]
  BY <1>5
<1>8. Runs(seq, n, init, g)
  <2>1. g[0] = init
    BY <1>3
  <2>2. ASSUME NEW k \in 1..n
        PROVE  /\ Step(g[k - 1], ops[seq[k]].op).ok
               /\ g[k] = Step(g[k - 1], ops[seq[k]].op).state
    <3>1. g[k] = f[k].state /\ g[k - 1] = f[k - 1].state /\ f[k].ok
      BY <1>6
    <3>. HIDE DEF g
    <3>. QED  BY <3>1, <1>4
  <2>. QED  BY Zenon, <2>1, <2>2 DEF Runs
<1>. QED  BY <1>7, <1>8

-----------------------------------------------------------------------------
(* The entries.                                                            *)

callAt(o) == position(history, "call", o)
returnAt(o) == position(history, "return", o)

\* The history has each operation's call and, after it, its return; and of two
\* operations one was before the other if its return is before the other's
\* call.
HistoryInv ==
  /\ Len(ops) \in Nat /\ DOMAIN ops = 1..Len(ops)
  /\ \A o \in DOMAIN ops : ops[o].op \in Op
  /\ Len(history) \in Nat /\ DOMAIN history = nodes
  /\ \A o \in DOMAIN ops :
       /\ callAt(o) \in nodes /\ history[callAt(o)].kind = "call" /\ history[callAt(o)].id = o
       /\ returnAt(o) \in nodes /\ history[returnAt(o)].kind = "return" /\ history[returnAt(o)].id = o
       /\ callAt(o) < returnAt(o)
  /\ \A k \in nodes :
       /\ history[k].id \in DOMAIN ops
       /\ history[k].kind \in {"call", "return"}
       /\ history[k].kind = "call" => k = callAt(history[k].id)
       /\ history[k].kind = "return" => k = returnAt(history[k].id)
  /\ \A o, p \in DOMAIN ops : before(o, p) <=> returnAt(o) < callAt(p)
  /\ history = <<>> <=> ops = <<>>

\* What an order of the entries of n operations is.
LEMMA OrderFacts ==
  ASSUME NEW n \in Nat, NEW s \in Orders, Len(s) = 2 * n
  PROVE  /\ s \in [1..(2 * n) -> Entry(n)] /\ DOMAIN s = 1..(2 * n)
         /\ \A kind \in {"call", "return"}, o \in 1..n :
              position(s, kind, o) \in 1..(2 * n) /\ s[position(s, kind, o)] = [kind |-> kind, id |-> o]
         /\ \A k \in 1..(2 * n) : s[k].id \in 1..n /\ s[k].kind \in {"call", "return"}
                                  /\ k = position(s, s[k].kind, s[k].id)
         /\ \A o \in 1..n : position(s, "call", o) < position(s, "return", o)
<1>1. PICK m \in 0..MaxOps :
        /\ s \in Bijection(1..(2 * m), Entry(m))
        /\ \A i, j \in 1..(2 * m) :
             s[i].id = s[j].id /\ s[i].kind = "call" /\ s[j].kind = "return" => i < j
  BY DEF Orders
<1>2. /\ s \in [1..(2 * m) -> Entry(m)]
      /\ \A a, b \in DOMAIN s : s[a] = s[b] => a = b
      /\ \A t \in Entry(m) : \E k \in 1..(2 * m) : s[k] = t
  BY <1>1 DEF Bijection, Injection, Surjection, IsInjective
<1>3. m = n
  <2>1. m \in Nat /\ DOMAIN s = 1..(2 * m)
    BY OpAssumption, <1>2
  <2>2. Len(s) = 2 * m
    BY <2>1, <1>2
  <2>. QED  BY <2>1, <2>2
<1>4. s \in [1..(2 * n) -> Entry(n)] /\ DOMAIN s = 1..(2 * n)
  BY <1>2, <1>3
<1>5. ASSUME NEW kind \in {"call", "return"}, NEW o \in 1..n
      PROVE  position(s, kind, o) \in 1..(2 * n) /\ s[position(s, kind, o)] = [kind |-> kind, id |-> o]
  <2>1. [kind |-> kind, id |-> o] \in Entry(n)
    BY DEF Entry
  <2>2. \E k \in DOMAIN s : s[k] = [kind |-> kind, id |-> o]
    BY <2>1, <1>2, <1>3
  <2>. QED  BY <2>2, <1>4 DEF position
<1>6. ASSUME NEW k \in 1..(2 * n)
      PROVE  /\ s[k].id \in 1..n /\ s[k].kind \in {"call", "return"}
             /\ k = position(s, s[k].kind, s[k].id)
  <2>1. s[k] \in Entry(n)
    BY <1>4
  <2>2. /\ s[k].id \in 1..n /\ s[k].kind \in {"call", "return"}
        /\ s[k] = [kind |-> s[k].kind, id |-> s[k].id]
    BY <2>1 DEF Entry
  <2>3. /\ position(s, s[k].kind, s[k].id) \in 1..(2 * n)
        /\ s[position(s, s[k].kind, s[k].id)] = s[k]
    BY <2>2, <1>5
  <2>. QED  BY <2>2, <2>3, <1>2, <1>4
<1>7. ASSUME NEW o \in 1..n
      PROVE  position(s, "call", o) < position(s, "return", o)
  <2>1. /\ position(s, "call", o) \in 1..(2 * n) /\ s[position(s, "call", o)] = [kind |-> "call", id |-> o]
        /\ position(s, "return", o) \in 1..(2 * n) /\ s[position(s, "return", o)] = [kind |-> "return", id |-> o]
    BY <1>5
  <2>. QED  BY <2>1, <1>1, <1>3
<1>. QED  BY <1>4, <1>5, <1>6, <1>7

\* HistoryInv but for the times.
LEMMA HistoryShape ==
  ASSUME NEW n \in Nat, ops \in [1..n -> [op : Op, call : Int, return : Int]],
         history \in Orders, Len(history) = 2 * n,
         \A o, p \in 1..n : before(o, p) <=> returnAt(o) < callAt(p)
  PROVE  HistoryInv
<1>1. Len(ops) = n /\ DOMAIN ops = 1..n /\ \A o \in 1..n : ops[o].op \in Op
  OBVIOUS
<1>2. nodes = 1..(2 * n)
  BY DEF nodes
<1>3. /\ history \in [1..(2 * n) -> Entry(n)] /\ DOMAIN history = 1..(2 * n)
      /\ \A kind \in {"call", "return"}, o \in 1..n :
           /\ position(history, kind, o) \in 1..(2 * n)
           /\ history[position(history, kind, o)] = [kind |-> kind, id |-> o]
      /\ \A k \in 1..(2 * n) : history[k].id \in 1..n /\ history[k].kind \in {"call", "return"}
                               /\ k = position(history, history[k].kind, history[k].id)
      /\ \A o \in 1..n : position(history, "call", o) < position(history, "return", o)
  BY OrderFacts
<1>4. history = <<>> <=> ops = <<>>
  <2>1. n = 0 => history = <<>> /\ ops = <<>>
    BY <1>1, <1>3
  <2>2. n # 0 => history # <<>> /\ ops # <<>>
    BY <1>1, <1>3
  <2>. QED  BY <2>1, <2>2
<1>5. \A o \in 1..n :
       /\ callAt(o) \in nodes /\ history[callAt(o)].kind = "call" /\ history[callAt(o)].id = o
       /\ returnAt(o) \in nodes /\ history[returnAt(o)].kind = "return" /\ history[returnAt(o)].id = o
       /\ callAt(o) < returnAt(o)
  <2>. SUFFICES ASSUME NEW o \in 1..n
                PROVE  /\ callAt(o) \in nodes
                       /\ history[callAt(o)].kind = "call" /\ history[callAt(o)].id = o
                       /\ returnAt(o) \in nodes
                       /\ history[returnAt(o)].kind = "return" /\ history[returnAt(o)].id = o
                       /\ callAt(o) < returnAt(o)
    OBVIOUS
  <2>1. callAt(o) \in nodes /\ history[callAt(o)] = [kind |-> "call", id |-> o]
    BY <1>2, <1>3 DEF callAt
  <2>2. returnAt(o) \in nodes /\ history[returnAt(o)] = [kind |-> "return", id |-> o]
    BY <1>2, <1>3 DEF returnAt
  <2>3. callAt(o) < returnAt(o)
    BY <1>3 DEF callAt, returnAt
  <2>. QED  BY <2>1, <2>2, <2>3
<1>6. \A k \in nodes :
       /\ history[k].id \in 1..n
       /\ history[k].kind \in {"call", "return"}
       /\ history[k].kind = "call" => k = callAt(history[k].id)
       /\ history[k].kind = "return" => k = returnAt(history[k].id)
  BY <1>2, <1>3 DEF callAt, returnAt
<1>. QED  BY <1>1, <1>2, <1>3, <1>4, <1>5, <1>6 DEF HistoryInv

\* The sorts put a return before a call exactly if the one operation was
\* before the other, in Go, which puts calls first at equal times,
LEMMA GoOrder ==
  ASSUME NEW n \in Nat, ops \in [1..n -> timed], history \in makeEntries(ops),
         port = "go", NEW o \in 1..n, NEW p \in 1..n
  PROVE  before(o, p) <=> returnAt(o) < callAt(p)
<1>1. Len(ops) = n /\ history \in Orders /\ Len(history) = 2 * n
  BY DEF makeEntries
<1>2. /\ \A i, j \in DOMAIN history : i < j => ~Less(ops, history[j], history[i])
      /\ DOMAIN history = 1..(2 * n)
      /\ callAt(p) \in 1..(2 * n) /\ history[callAt(p)] = [kind |-> "call", id |-> p]
      /\ returnAt(o) \in 1..(2 * n) /\ history[returnAt(o)] = [kind |-> "return", id |-> o]
  BY <1>1, OrderFacts DEF makeEntries, callAt, returnAt
<1>3. ops[o].return \in Int /\ ops[p].call \in Int
  BY DEF timed
<1>4. returnAt(o) # callAt(p)
  BY <1>2
<1>5. /\ Less(ops, history[returnAt(o)], history[callAt(p)]) <=> ops[o].return < ops[p].call
      /\ Less(ops, history[callAt(p)], history[returnAt(o)]) <=> ops[p].call <= ops[o].return
  BY <1>2, <1>3 DEF Less, time
<1>. QED  BY <1>2, <1>3, <1>4, <1>5 DEF before

\* and in Rust, which puts them as they are listed.
LEMMA RustOrder ==
  ASSUME NEW n \in Nat, ops \in [1..n -> timed], history \in make_entries(ops),
         port = "rust", NEW o \in 1..n, NEW p \in 1..n
  PROVE  before(o, p) <=> returnAt(o) < callAt(p)
<1>1. Len(ops) = n /\ history \in Orders /\ Len(history) = 2 * n
  BY DEF make_entries
<1>. DEFINE put(e) == 2 * e.id + (IF e.kind = "call" THEN 0 ELSE 1)
<1>2. /\ \A i, j \in DOMAIN history : i < j =>
        \/ time(ops, history[i]) < time(ops, history[j])
        \/ time(ops, history[i]) = time(ops, history[j]) /\ put(history[i]) < put(history[j])
      /\ DOMAIN history = 1..(2 * n)
      /\ callAt(p) \in 1..(2 * n) /\ history[callAt(p)] = [kind |-> "call", id |-> p]
      /\ returnAt(o) \in 1..(2 * n) /\ history[returnAt(o)] = [kind |-> "return", id |-> o]
  BY <1>1, OrderFacts DEF make_entries, callAt, returnAt
<1>3. ops[o].return \in Int /\ ops[p].call \in Int /\ o \in Int /\ p \in Int
  BY DEF timed
<1>4. returnAt(o) # callAt(p)
  BY <1>2
<1>5. /\ time(ops, history[returnAt(o)]) = ops[o].return /\ time(ops, history[callAt(p)]) = ops[p].call
      /\ put(history[returnAt(o)]) = 2 * o + 1 /\ put(history[callAt(p)]) = 2 * p
  BY <1>2, <1>3 DEF time
<1>6. returnAt(o) < callAt(p) => before(o, p)
  <2>. HIDE DEF put
  <2>. QED  BY <1>2, <1>3, <1>5 DEF before
<1>7. callAt(p) < returnAt(o) => ~before(o, p)
  <2>. HIDE DEF put
  <2>. QED  BY <1>2, <1>3, <1>5 DEF before
<1>. QED  BY <1>2, <1>4, <1>6, <1>7

\* The history given by operations or events is as HistoryInv says.
LEMMA HistoryInit ==
  ASSUME Init
  PROVE  HistoryInv
<1>1. CASE ofOperations
  <2>1. PICK n \in 1..MaxOps : ops \in [1..n -> timed]
    BY <1>1 DEF ofOperations
  <2>2. n \in Nat /\ ops \in [1..n -> [op : Op, call : Int, return : Int]] /\ Len(ops) = n
    BY <2>1, OpAssumption DEF timed
  <2>3. CASE port = "go"
    <3>1. history \in makeEntries(ops)
      BY <1>1, <2>3 DEF ofOperations
    <3>2. history \in Orders /\ Len(history) = 2 * n
      BY <3>1, <2>2 DEF makeEntries
    <3>3. \A o, p \in 1..n : before(o, p) <=> returnAt(o) < callAt(p)
      BY <3>1, <2>1, <2>2, <2>3, GoOrder
    <3>. QED  BY <2>2, <3>2, <3>3, HistoryShape
  <2>4. CASE port # "go"
    <3>1. history \in make_entries(ops) /\ port = "rust"
      BY <1>1, <2>4 DEF ofOperations, Init
    <3>2. history \in Orders /\ Len(history) = 2 * n
      BY <3>1, <2>2 DEF make_entries
    <3>3. \A o, p \in 1..n : before(o, p) <=> returnAt(o) < callAt(p)
      BY <3>1, <2>1, <2>2, RustOrder
    <3>. QED  BY <2>2, <3>2, <3>3, HistoryShape
  <2>. QED  BY <2>3, <2>4
<1>2. CASE ofEvents
  <2>0. PICK n \in 0..MaxOps : \E s \in Orders, f \in [1..n -> Op] :
          /\ Len(s) = 2 * n /\ history = s
          /\ ops = [k \in 1..n |-> [op |-> f[k], call |-> position(s, "call", k),
                                    return |-> position(s, "return", k)]]
    BY <1>2 DEF ofEvents
  <2>1. PICK s \in Orders, f \in [1..n -> Op] :
          /\ Len(s) = 2 * n /\ history = s
          /\ ops = [k \in 1..n |-> [op |-> f[k], call |-> position(s, "call", k),
                                    return |-> position(s, "return", k)]]
    BY <2>0
  <2>2. n \in Nat
    BY OpAssumption
  <2>3. \A k \in 1..n : /\ callAt(k) \in 1..(2 * n) /\ returnAt(k) \in 1..(2 * n)
                        /\ history[callAt(k)].kind = "call" /\ history[returnAt(k)].kind = "return"
    <3>1. \A kind \in {"call", "return"}, k \in 1..n :
            /\ position(history, kind, k) \in 1..(2 * n)
            /\ history[position(history, kind, k)] = [kind |-> kind, id |-> k]
      BY <2>1, <2>2, OrderFacts
    <3>. SUFFICES ASSUME NEW k \in 1..n
                  PROVE  /\ callAt(k) \in 1..(2 * n) /\ returnAt(k) \in 1..(2 * n)
                         /\ history[callAt(k)].kind = "call" /\ history[returnAt(k)].kind = "return"
      OBVIOUS
    <3>2. callAt(k) \in 1..(2 * n) /\ history[callAt(k)] = [kind |-> "call", id |-> k]
      BY <3>1 DEF callAt
    <3>3. returnAt(k) \in 1..(2 * n) /\ history[returnAt(k)] = [kind |-> "return", id |-> k]
      BY <3>1 DEF returnAt
    <3>. QED  BY <3>2, <3>3
  <2>4. ops = [k \in 1..n |-> [op |-> f[k], call |-> callAt(k), return |-> returnAt(k)]]
    BY <2>1 DEF callAt, returnAt
  <2>5. ops \in [1..n -> [op : Op, call : Int, return : Int]]
    BY <2>3, <2>4
  <2>6. \A o, p \in 1..n : before(o, p) <=> returnAt(o) < callAt(p)
    <3>1. \A o, p \in 1..n : returnAt(o) # callAt(p) /\ returnAt(o) \in Int /\ callAt(p) \in Int
      <4>1. \A k \in 1..(2 * n) : k \in Int
        BY <2>2
      <4>. QED  BY Zenon, <4>1, <2>3
    <3>2. \A o \in 1..n : ops[o].return = returnAt(o) /\ ops[o].call = callAt(o)
      BY <2>4
    <3>. QED  BY <3>1, <3>2 DEF before
  <2>. QED  BY Zenon, <2>1, <2>2, <2>5, <2>6, HistoryShape
<1>. QED  BY <1>1, <1>2 DEF Init

-----------------------------------------------------------------------------
(* The linked list.                                                        *)

\* x is the node of R after k, or before it; node 0 is before all.
Follows(R, k, x) ==
  \/ x = nil /\ \A j \in R : j <= k
  \/ x \in R /\ x > k /\ \A j \in R : j > k => x <= j

Precedes(R, k, x) ==
  (x = 0 \/ x \in R) /\ x < k /\ \A j \in R : j < k => j <= x

\* The pointers n and p link the nodes of R.
Linked(n, p, R) ==
  /\ \A k \in R \cup {0} : Follows(R, k, n[k])
  /\ \A k \in R : Precedes(R, k, p[k])

\* Takes node k out of the list, and puts it back.
unlinkNext(n, p, k) == [n EXCEPT ![p[k]] = n[k]]
unlinkPrev(n, p, k) == IF n[k] # nil THEN [p EXCEPT ![n[k]] = p[k]] ELSE p
relinkNext(n, p, k) == [n EXCEPT ![p[k]] = k]
relinkPrev(n, p, k) == IF n[k] # nil THEN [p EXCEPT ![n[k]] = k] ELSE p

\* n1 and p1 link the nodes T, and are n and p for node k and those not in R.
Relinked(N, R, k, n, p, n1, p1, T) ==
  /\ n1 \in [0..N -> Int] /\ p1 \in [0..N -> Int]
  /\ Linked(n1, p1, T)
  /\ \A j \in 1..N : j \notin R \/ j = k => n1[j] = n[j] /\ p1[j] = p[j]

\* Taking a node out leaves the others linked, and keeps its own pointers and
\* those of nodes that are not in the list.
LEMMA Unlink ==
  ASSUME NEW N \in Nat, NEW R \in SUBSET (1..N), NEW k \in R,
         NEW n \in [0..N -> Int], NEW p \in [0..N -> Int], Linked(n, p, R)
  PROVE  Relinked(N, R, k, n, p, unlinkNext(n, p, k), unlinkPrev(n, p, k), R \ {k})
<1>. DEFINE n1 == unlinkNext(n, p, k)
            p1 == unlinkPrev(n, p, k)
<1>1. p[k] \in 0..N /\ (p[k] = 0 \/ p[k] \in R) /\ p[k] < k /\ \A j \in R : j < k => j <= p[k]
  BY DEF Linked, Precedes
<1>2. \/ n[k] = nil /\ \A j \in R : j <= k
      \/ n[k] \in R /\ n[k] > k /\ \A j \in R : j > k => n[k] <= j
  BY DEF Linked, Follows
<1>3. nil \notin 0..N
  BY DEF nil
<1>4. n1 \in [0..N -> Int] /\ \A j \in 0..N : n1[j] = IF j = p[k] THEN n[k] ELSE n[j]
  BY <1>1 DEF unlinkNext
<1>5. p1 \in [0..N -> Int] /\ \A j \in 0..N : p1[j] = IF j = n[k] THEN p[k] ELSE p[j]
  BY <1>1, <1>2, <1>3 DEF unlinkPrev
<1>6. ASSUME NEW j \in (R \ {k}) \cup {0}
      PROVE  Follows(R \ {k}, j, n1[j])
  <2>1. Follows(R, j, n[j]) /\ j \in 0..N
    BY DEF Linked
  <2>2. CASE j = p[k]
    <3>1. n1[j] = n[k]
      BY <2>1, <2>2, <1>4
    <3>2. \A i \in R \ {k} : i > j => i > k
      BY <2>2, <1>1
    <3>3. CASE n[k] = nil /\ \A i \in R : i <= k
      <4>1. \A i \in R \ {k} : i <= j
        BY <3>2, <3>3, <2>1
      <4>. QED  BY <3>1, <3>3, <4>1 DEF Follows
    <3>4. CASE n[k] \in R /\ n[k] > k /\ \A i \in R : i > k => n[k] <= i
      <4>1. n[k] \in R \ {k} /\ n[k] > j
        BY <3>4, <2>1, <2>2, <1>1
      <4>2. \A i \in R \ {k} : i > j => n[k] <= i
        BY <3>2, <3>4
      <4>. QED  BY <3>1, <4>1, <4>2 DEF Follows
    <3>. QED  BY <1>2, <3>3, <3>4
  <2>3. CASE j # p[k]
    <3>1. n[j] # k
      BY <2>1, <2>3, <1>1, <1>3 DEF Follows
    <3>. QED  BY <2>1, <2>3, <3>1, <1>4 DEF Follows
  <2>. QED  BY <2>2, <2>3
<1>7. ASSUME NEW j \in R \ {k}
      PROVE  Precedes(R \ {k}, j, p1[j])
  <2>1. Precedes(R, j, p[j]) /\ j \in 0..N
    BY DEF Linked
  <2>2. CASE j = n[k]
    <3>1. p1[j] = p[k] /\ j > k
      BY <2>1, <2>2, <1>2, <1>3, <1>5
    <3>2. (p[k] = 0 \/ p[k] \in R \ {k}) /\ p[k] < j
      BY <3>1, <2>1, <1>1
    <3>3. \A i \in R \ {k} : i < j => i < k
      BY <2>1, <2>2, <1>2, <1>3
    <3>4. \A i \in R \ {k} : i < j => i <= p[k]
      BY <3>3, <1>1
    <3>. QED  BY <3>1, <3>2, <3>4 DEF Precedes
  <2>3. CASE j # n[k]
    <3>1. p[j] # k
      BY <2>1, <2>3, <1>2, <1>3 DEF Precedes
    <3>. QED  BY <2>1, <2>3, <3>1, <1>5 DEF Precedes
  <2>. QED  BY <2>2, <2>3
<1>8. Linked(n1, p1, R \ {k})
  BY Zenon, <1>6, <1>7 DEF Linked
<1>9. \A j \in 1..N : j \notin R \/ j = k => n1[j] = n[j] /\ p1[j] = p[j]
  <2>. HIDE DEF n1, p1
  <2>1. \A j \in 1..N : j \notin R \/ j = k => j \in 0..N /\ j # p[k] /\ j # n[k]
    BY <1>1, <1>2, <1>3
  <2>. QED  BY <2>1, <1>4, <1>5
<1>. QED  BY <1>4, <1>5, <1>8, <1>9 DEF Relinked

\* Putting it back, with the pointers it had, links all of them again.
LEMMA Relink ==
  ASSUME NEW N \in Nat, NEW R \in SUBSET (1..N), NEW k \in R,
         NEW n \in [0..N -> Int], NEW p \in [0..N -> Int], Linked(n, p, R \ {k}),
         Follows(R, k, n[k]), Precedes(R, k, p[k])
  PROVE  Relinked(N, R, k, n, p, relinkNext(n, p, k), relinkPrev(n, p, k), R)
<1>. DEFINE n1 == relinkNext(n, p, k)
            p1 == relinkPrev(n, p, k)
<1>1. p[k] \in 0..N /\ (p[k] = 0 \/ p[k] \in R) /\ p[k] < k /\ \A j \in R : j < k => j <= p[k]
  BY DEF Precedes
<1>2. \/ n[k] = nil /\ \A j \in R : j <= k
      \/ n[k] \in R /\ n[k] > k /\ \A j \in R : j > k => n[k] <= j
  BY DEF Follows
<1>3. nil \notin 0..N
  BY DEF nil
<1>4. n1 \in [0..N -> Int] /\ \A j \in 0..N : n1[j] = IF j = p[k] THEN k ELSE n[j]
  BY <1>1 DEF relinkNext
<1>5. p1 \in [0..N -> Int] /\ \A j \in 0..N : p1[j] = IF j = n[k] THEN k ELSE p[j]
  BY <1>1, <1>2, <1>3 DEF relinkPrev
<1>6. ASSUME NEW j \in R \cup {0}
      PROVE  Follows(R, j, n1[j])
  <2>1. j # k => Follows(R \ {k}, j, n[j])
    BY Zenon DEF Linked
  <2>2. CASE j = p[k]
    BY <2>2, <1>1, <1>4 DEF Follows
  <2>3. CASE j = k
    <3>1. n1[k] = n[k]
      BY <1>1, <1>4
    <3>. QED  BY <3>1, <2>3
  <2>4. CASE j # k /\ j > k
    <3>1. n1[j] = n[j] /\ Follows(R \ {k}, j, n[j])
      BY <2>1, <2>4, <1>1, <1>4
    <3>. QED  BY <3>1, <2>4 DEF Follows
  <2>5. CASE j # p[k] /\ j < k
    <3>1. p[k] \in R \ {k} /\ p[k] > j
      BY <2>5, <1>1
    <3>2. n[j] \in R \ {k} /\ n[j] > j /\ n[j] <= p[k] /\ \A i \in R \ {k} : i > j => n[j] <= i
      BY <3>1, <2>1, <2>5 DEF Follows
    <3>. QED  BY <3>1, <3>2, <2>5, <1>1, <1>4 DEF Follows
  <2>. QED  BY <2>2, <2>3, <2>4, <2>5
<1>7. ASSUME NEW j \in R
      PROVE  Precedes(R, j, p1[j])
  <2>1. j # k => Precedes(R \ {k}, j, p[j])
    BY Zenon DEF Linked
  <2>2. CASE j = n[k]
    BY <2>2, <1>2, <1>3, <1>5 DEF Precedes
  <2>3. CASE j = k
    BY <2>3, <1>2, <1>3, <1>5 DEF Precedes
  <2>4. CASE j # k /\ j < k
    <3>1. p1[j] = p[j] /\ Precedes(R \ {k}, j, p[j])
      BY <2>1, <2>4, <1>2, <1>3, <1>5
    <3>. QED  BY <3>1, <2>4 DEF Precedes
  <2>5. CASE j # n[k] /\ j > k
    <3>1. n[k] \in R \ {k} /\ n[k] < j
      BY <2>5, <1>2
    <3>2. p[j] \in R \ {k} /\ p[j] < j /\ p[j] >= n[k] /\ \A i \in R \ {k} : i < j => i <= p[j]
      BY <3>1, <2>1, <2>5 DEF Precedes
    <3>. QED  BY <3>1, <3>2, <2>5, <1>2, <1>5 DEF Precedes
  <2>. QED  BY <2>2, <2>3, <2>4, <2>5
<1>8. Linked(n1, p1, R)
  BY <1>6, <1>7 DEF Linked
<1>9. \A j \in 1..N : j \notin R \/ j = k => n1[j] = n[j] /\ p1[j] = p[j]
  <2>. HIDE DEF n1, p1
  <2>1. \A j \in 1..N : j \notin R \/ j = k => j \in 0..N /\ j # p[k] /\ j # n[k]
    BY <1>1, <1>2, <1>3
  <2>. QED  BY <2>1, <1>4, <1>5
<1>. QED  BY <1>4, <1>5, <1>8, <1>9 DEF Relinked

-----------------------------------------------------------------------------
(* The stack.                                                              *)

Frame == [entry : nodes, state : States]

\* The operation of a frame, those of the first k frames, and the entries of
\* the operations that are not in S.
op(cs, k) == history[cs[k].entry].id
done(cs, k) == {op(cs, j) : j \in 1..k}
remaining(S) == {k \in nodes : history[k].id \notin S}

\* The state and the place in the list of the search with k operations
\* linearized, when the whole stack is cs, the state st and the place e.
at(cs, st, k) == IF k < Len(cs) THEN cs[k + 1].state ELSE st
place(cs, e, k) == IF k < Len(cs) THEN cs[k + 1].entry ELSE e

\* The operations of the stack are distinct, and can happen in their order.
Chain(cs, st) ==
  /\ cs \in Seq(Frame) /\ st \in States
  /\ at(cs, st, 0) = init
  /\ \A k \in 1..Len(cs) :
       /\ isCall(cs[k].entry)
       /\ op(cs, k) \notin done(cs, k - 1)
       /\ Step(cs[k].state, ops[op(cs, k)].op).ok
       /\ at(cs, st, k) = Step(cs[k].state, ops[op(cs, k)].op).state

\* What a frame on top of the stack changes.
LEMMA Push ==
  ASSUME NEW F, NEW cs \in Seq(F), NEW fr \in F
  PROVE  /\ Append(cs, fr) \in Seq(F) /\ Len(cs) \in Nat
         /\ Len(Append(cs, fr)) = Len(cs) + 1
         /\ Append(cs, fr)[Len(cs) + 1] = fr
         /\ \A k \in 1..Len(cs) : Append(cs, fr)[k] = cs[k]
         /\ \A k \in 1..Len(cs) : op(Append(cs, fr), k) = op(cs, k)
         /\ op(Append(cs, fr), Len(cs) + 1) = history[fr.entry].id
         /\ \A k \in 0..Len(cs) : done(Append(cs, fr), k) = done(cs, k)
         /\ done(Append(cs, fr), Len(cs) + 1) = done(cs, Len(cs)) \cup {history[fr.entry].id}
         /\ \A st : \A k \in 0..Len(cs) : at(Append(cs, fr), st, k) = at(cs, fr.state, k)
         /\ \A st : at(Append(cs, fr), st, Len(cs) + 1) = st
         /\ \A e : \A k \in 0..Len(cs) : place(Append(cs, fr), e, k) = place(cs, fr.entry, k)
         /\ \A e : place(Append(cs, fr), e, Len(cs) + 1) = e
<1>. DEFINE c == Append(cs, fr)
            L == Len(cs)
<1>1. /\ c \in Seq(F) /\ L \in Nat /\ Len(c) = L + 1 /\ c[L + 1] = fr
      /\ \A k \in 1..L : c[k] = cs[k]
  OBVIOUS
<1>. HIDE DEF c, L
<1>2. /\ \A k \in 1..L : op(c, k) = op(cs, k)
      /\ op(c, L + 1) = history[fr.entry].id
  BY <1>1 DEF op
<1>3. \A k \in 0..L : done(c, k) = done(cs, k)
  <2>. SUFFICES ASSUME NEW k \in 0..L PROVE done(c, k) = done(cs, k)
    OBVIOUS
  <2>1. \A j \in 1..k : op(c, j) = op(cs, j)
    BY <1>1, <1>2
  <2>. QED  BY <2>1 DEF done
<1>4. done(c, L + 1) = done(cs, L) \cup {history[fr.entry].id}
  <2>1. \A j : j \in 1..(L + 1) <=> j \in 1..L \/ j = L + 1
    BY <1>1
  <2>2. \A x : x \in done(c, L + 1) <=> \E j \in 1..(L + 1) : x = op(c, j)
    BY DEF done
  <2>3. \A x : x \in done(cs, L) <=> \E j \in 1..L : x = op(cs, j)
    BY DEF done
  <2>4. \A x : x \in done(c, L + 1) <=> x \in done(cs, L) \/ x = history[fr.entry].id
    BY <2>1, <2>2, <2>3, <1>2
  <2>. QED  BY <2>4
<1>5. \A k \in 0..L : c[k + 1] = IF k < L THEN cs[k + 1] ELSE fr
  <2>. SUFFICES ASSUME NEW k \in 0..L PROVE c[k + 1] = IF k < L THEN cs[k + 1] ELSE fr
    OBVIOUS
  <2>1. k < L => k + 1 \in 1..L
    BY <1>1
  <2>2. ~(k < L) => k = L
    BY <1>1
  <2>. QED  BY <2>1, <2>2, <1>1
<1>6. \A k \in 0..L : k < Len(c)
  BY <1>1
<1>7. /\ \A st : \A k \in 0..L : at(c, st, k) = at(cs, fr.state, k)
      /\ \A e : \A k \in 0..L : place(c, e, k) = place(cs, fr.entry, k)
  BY <1>5, <1>6 DEF at, place, L
<1>8. /\ \A st : at(c, st, L + 1) = st
      /\ \A e : place(c, e, L + 1) = e
  BY <1>1 DEF at, place
<1>. QED  BY <1>1, <1>2, <1>3, <1>4, <1>7, <1>8 DEF c, L

\* The operations of more frames are more.
LEMMA DoneGrows ==
  ASSUME NEW cs, NEW k \in Nat, NEW l \in Nat, k <= l
  PROVE  done(cs, k) \subseteq done(cs, l)
<1>1. \A j \in 1..k : j \in 1..l
  OBVIOUS
<1>. QED  BY <1>1 DEF done

\* What linearize pushes, and backtrack pops, keeps the stack a chain.
LEMMA PushChain ==
  ASSUME NEW cs \in Seq(Frame), NEW fr \in Frame, NEW st \in States
  PROVE  Chain(Append(cs, fr), st) <=>
           /\ Chain(cs, fr.state)
           /\ isCall(fr.entry)
           /\ history[fr.entry].id \notin done(cs, Len(cs))
           /\ Step(fr.state, ops[history[fr.entry].id].op).ok
           /\ st = Step(fr.state, ops[history[fr.entry].id].op).state
<1>. DEFINE c == Append(cs, fr)
            L == Len(cs)
            o == history[fr.entry].id
            Link(d, s, k) == /\ isCall(d[k].entry)
                             /\ op(d, k) \notin done(d, k - 1)
                             /\ Step(d[k].state, ops[op(d, k)].op).ok
                             /\ at(d, s, k) = Step(d[k].state, ops[op(d, k)].op).state
<1>1. L \in Nat /\ c \in Seq(Frame) /\ Len(c) = L + 1 /\ fr.state \in States
  BY Push DEF Frame
<1>2. at(c, st, 0) = at(cs, fr.state, 0)
  <2>1. 0 \in 0..Len(cs)
    BY <1>1
  <2>. QED  BY <2>1, Push
<1>3. \A k \in 1..L : Link(c, st, k) <=> Link(cs, fr.state, k)
  <2>. SUFFICES ASSUME NEW k \in 1..L PROVE Link(c, st, k) <=> Link(cs, fr.state, k)
    OBVIOUS
  <2>1. k \in 0..L /\ k - 1 \in 0..L
    BY <1>1
  <2>2. c[k] = cs[k] /\ op(c, k) = op(cs, k)
    BY Push
  <2>3. done(c, k - 1) = done(cs, k - 1) /\ at(c, st, k) = at(cs, fr.state, k)
    BY <2>1, Push
  <2>. HIDE DEF c
  <2>. QED  BY <2>2, <2>3
<1>4. Link(c, st, L + 1) <=> /\ isCall(fr.entry) /\ o \notin done(cs, L)
                             /\ Step(fr.state, ops[o].op).ok
                             /\ st = Step(fr.state, ops[o].op).state
  <2>1. c[L + 1] = fr /\ op(c, L + 1) = o /\ at(c, st, L + 1) = st
    BY Push
  <2>2. (L + 1) - 1 = L /\ L \in 0..L
    BY <1>1
  <2>3. done(c, (L + 1) - 1) = done(cs, L)
    BY <2>2, Push
  <2>. HIDE DEF c, L, o
  <2>. QED  BY <2>1, <2>3
<1>5. (\A k \in 1..(L + 1) : Link(c, st, k)) <=> (\A k \in 1..L : Link(c, st, k)) /\ Link(c, st, L + 1)
  <2>1. \A j : j \in 1..(L + 1) <=> j \in 1..L \/ j = L + 1
    BY <1>1
  <2>. HIDE DEF c, L, o, Link
  <2>. QED  BY <2>1
<1>6. Chain(c, st) <=> c \in Seq(Frame) /\ st \in States /\ at(c, st, 0) = init
                       /\ \A k \in 1..Len(c) : Link(c, st, k)
  BY DEF Chain
<1>7. Chain(cs, fr.state) <=> cs \in Seq(Frame) /\ fr.state \in States /\ at(cs, fr.state, 0) = init
                              /\ \A k \in 1..L : Link(cs, fr.state, k)
  BY DEF Chain
<1>. HIDE DEF c, L, o, Link
<1>8. Chain(c, st) <=> /\ Chain(cs, fr.state) /\ isCall(fr.entry) /\ o \notin done(cs, L)
                       /\ Step(fr.state, ops[o].op).ok
                       /\ st = Step(fr.state, ops[o].op).state
  BY <1>1, <1>2, <1>3, <1>4, <1>5, <1>6, <1>7
<1>. QED  BY <1>8 DEF c, L, o

\* The stack that backtrack pops.
LEMMA Pop ==
  ASSUME NEW F, NEW cs \in Seq(F), cs # <<>>
  PROVE  /\ Front(cs) \in Seq(F) /\ Last(cs) \in F
         /\ cs = Append(Front(cs), Last(cs))
         /\ Len(cs) = Len(Front(cs)) + 1
<1>1. Len(cs) \in Nat \ {0} /\ DOMAIN cs = 1..Len(cs)
  BY EmptySeq
<1>2. Last(cs) = cs[Len(cs)] /\ Last(cs) \in F
  BY <1>1 DEF Last
<1>3. /\ Front(cs) \in Seq(F) /\ Len(Front(cs)) = Len(cs) - 1
      /\ \A i \in 1..(Len(cs) - 1) : Front(cs)[i] = cs[i]
  <2>1. \A i \in 1..(Len(cs) - 1) : cs[i] \in F
    BY <1>1
  <2>2. /\ SubSeq(cs, 1, Len(cs) - 1) \in Seq(F)
        /\ Len(SubSeq(cs, 1, Len(cs) - 1)) = IF 1 <= Len(cs) - 1 THEN (Len(cs) - 1) - 1 + 1 ELSE 0
        /\ \A i \in 1..((Len(cs) - 1) - 1 + 1) : SubSeq(cs, 1, Len(cs) - 1)[i] = cs[1 + i - 1]
    BY <2>1, <1>1, SubSeqProperties
  <2>3. Front(cs) = SubSeq(cs, 1, Len(cs) - 1)
    BY DEF Front
  <2>. HIDE DEF Front
  <2>. QED  BY <1>1, <2>2, <2>3
<1>4. Append(Front(cs), Last(cs)) = cs
  <2>1. /\ Append(Front(cs), Last(cs)) \in Seq(F)
        /\ Len(Append(Front(cs), Last(cs))) = Len(Front(cs)) + 1
        /\ Append(Front(cs), Last(cs))[Len(Front(cs)) + 1] = Last(cs)
        /\ \A k \in 1..Len(Front(cs)) : Append(Front(cs), Last(cs))[k] = Front(cs)[k]
    BY <1>2, <1>3, Push
  <2>2. Len(Append(Front(cs), Last(cs))) = Len(cs)
    BY <2>1, <1>1, <1>3
  <2>3. ASSUME NEW i \in 1..Len(cs)
        PROVE  Append(Front(cs), Last(cs))[i] = cs[i]
    <3>1. i \in 1..(Len(cs) - 1) \/ i = Len(cs)
      <4>1. \A n \in Nat \ {0} : \A k \in 1..n : k \in 1..(n - 1) \/ k = n
        OBVIOUS
      <4>. QED  BY Zenon, <4>1, <1>1
    <3>. QED  BY <3>1, <2>1, <1>1, <1>2, <1>3
  <2>. QED  BY <2>1, <2>2, <2>3, SeqEqual
<1>5. Len(cs) = Len(Front(cs)) + 1
  BY <1>1, <1>3
<1>. QED  BY <1>2, <1>3, <1>4, <1>5

-----------------------------------------------------------------------------
(* What the search has tried.                                              *)

\* The operations not in S can happen, in an order that respects time, from
\* the state st on.
Completable(S, st) ==
  \E n \in Nat : \E seq \in [1..n -> DOMAIN ops], f \in [0..n -> States] :
    /\ \A j, k \in 1..n : seq[j] = seq[k] => j = k
    /\ \A o \in DOMAIN ops : o \notin S <=> \E k \in 1..n : seq[k] = o
    /\ Runs(seq, n, st, f)
    /\ \A k \in 1..n : \A o \in DOMAIN ops :
         before(o, seq[k]) => o \in S \/ \E j \in 1..(k - 1) : seq[j] = o

\* It is no use to linearize o next.
Hopeless(S, st, o) ==
  Step(st, ops[o].op).ok => ~Completable(S \cup {o}, Step(st, ops[o].op).state)

\* At each depth the search has passed only calls, and linearizing one of
\* these was no use.
Tried(cs, st, e) ==
  \A k \in 0..Len(cs) : \A j \in remaining(done(cs, k)) :
    j < place(cs, e, k) => isCall(j) /\ Hopeless(done(cs, k), at(cs, st, k), history[j].id)

\* What is in the cache cannot be completed, or is being tried.
Cached(c, cs, st) ==
  /\ c \subseteq (SUBSET DOMAIN ops) \X States
  /\ \A x \in c : \/ ~Completable(x[1], x[2])
                  \/ \E k \in 1..Len(cs) : x = <<done(cs, k), at(cs, st, k)>>

\* If the operations left can happen, one of them can happen first.
LEMMA FirstOne ==
  ASSUME NEW S, NEW st, Completable(S, st), NEW q \in DOMAIN ops, q \notin S
  PROVE  \E o \in DOMAIN ops \ S :
           /\ Step(st, ops[o].op).ok
           /\ Completable(S \cup {o}, Step(st, ops[o].op).state)
           /\ \A p \in DOMAIN ops : before(p, o) => p \in S
<1>1. PICK n \in Nat : \E seq \in [1..n -> DOMAIN ops], f \in [0..n -> States] :
    /\ \A j, k \in 1..n : seq[j] = seq[k] => j = k
    /\ \A o \in DOMAIN ops : o \notin S <=> \E k \in 1..n : seq[k] = o
    /\ Runs(seq, n, st, f)
    /\ \A k \in 1..n : \A o \in DOMAIN ops :
         before(o, seq[k]) => o \in S \/ \E j \in 1..(k - 1) : seq[j] = o
  BY DEF Completable
<1>2. PICK seq \in [1..n -> DOMAIN ops], f \in [0..n -> States] :
    /\ \A j, k \in 1..n : seq[j] = seq[k] => j = k
    /\ \A o \in DOMAIN ops : o \notin S <=> \E k \in 1..n : seq[k] = o
    /\ Runs(seq, n, st, f)
    /\ \A k \in 1..n : \A o \in DOMAIN ops :
         before(o, seq[k]) => o \in S \/ \E j \in 1..(k - 1) : seq[j] = o
  BY <1>1
<1>3. n >= 1 /\ 1 \in 1..n /\ n - 1 \in Nat
  <2>1. \E k \in 1..n : seq[k] = q
    BY <1>2
  <2>. QED  BY <2>1
<1>. DEFINE o == seq[1]
            m == n - 1
            tl == [k \in 1..m |-> seq[k + 1]]
            g == [k \in 0..m |-> f[k + 1]]
<1>4. o \in DOMAIN ops /\ o \notin S
  BY <1>2, <1>3
<1>5. Step(st, ops[o].op).ok /\ f[1] = Step(st, ops[o].op).state
  <2>1. f[0] = st /\ Step(f[1 - 1], ops[seq[1]].op).ok /\ f[1] = Step(f[1 - 1], ops[seq[1]].op).state
    BY <1>2, <1>3 DEF Runs
  <2>2. 1 - 1 = 0
    OBVIOUS
  <2>. QED  BY <2>1, <2>2
<1>6. \A p \in DOMAIN ops : before(p, o) => p \in S
  <2>1. \A p \in DOMAIN ops : before(p, seq[1]) => p \in S \/ \E j \in 1..(1 - 1) : seq[j] = p
    BY <1>2, <1>3
  <2>. QED  BY <2>1
<1>7. /\ tl \in [1..m -> DOMAIN ops] /\ g \in [0..m -> States]
      /\ \A k \in 1..m : tl[k] = seq[k + 1] /\ k + 1 \in 1..n
      /\ \A k \in 0..m : g[k] = f[k + 1] /\ k + 1 \in 0..n
  <2>1. \A k \in 1..m : k + 1 \in 1..n
    BY <1>3
  <2>2. \A k \in 0..m : k + 1 \in 0..n
    BY <1>3
  <2>. QED  BY <2>1, <2>2
<1>. HIDE DEF tl, g
<1>8. \A j, k \in 1..m : tl[j] = tl[k] => j = k
  <2>. SUFFICES ASSUME NEW j \in 1..m, NEW k \in 1..m, tl[j] = tl[k]
                PROVE  j = k
    OBVIOUS
  <2>1. j + 1 \in 1..n /\ k + 1 \in 1..n /\ seq[j + 1] = seq[k + 1]
    BY <1>7
  <2>2. j + 1 = k + 1
    BY <2>1, <1>2
  <2>. QED  BY <2>2
<1>9. \A p \in DOMAIN ops : p \notin S \cup {o} <=> \E k \in 1..m : tl[k] = p
  <2>. SUFFICES ASSUME NEW p \in DOMAIN ops
                PROVE  p \notin S \cup {o} <=> \E k \in 1..m : tl[k] = p
    OBVIOUS
  <2>1. ASSUME p \notin S, p # o
        PROVE  \E k \in 1..m : tl[k] = p
    <3>1. PICK k \in 1..n : seq[k] = p
      BY <2>1, <1>2
    <3>2. k - 1 \in 1..m /\ (k - 1) + 1 = k
      BY <3>1, <2>1
    <3>. QED  BY Zenon, <3>1, <3>2, <1>7
  <2>2. ASSUME NEW k \in 1..m, tl[k] = p
        PROVE  p \notin S /\ p # o
    <3>1. k + 1 \in 1..n /\ seq[k + 1] = p /\ k + 1 # 1
      BY <2>2, <1>7
    <3>. QED  BY <3>1, <1>2, <1>3
  <2>. QED  BY <2>1, <2>2
<1>10. Runs(tl, m, Step(st, ops[o].op).state, g)
  <2>1. g[0] = Step(st, ops[o].op).state
    BY <1>3, <1>5, <1>7
  <2>2. ASSUME NEW k \in 1..m
        PROVE  /\ Step(g[k - 1], ops[tl[k]].op).ok
               /\ g[k] = Step(g[k - 1], ops[tl[k]].op).state
    <3>1. /\ tl[k] = seq[k + 1] /\ g[k] = f[k + 1] /\ g[k - 1] = f[k] /\ k + 1 \in 1..n
          /\ (k + 1) - 1 = k
      <4>1. k \in 0..m /\ k - 1 \in 0..m /\ (k - 1) + 1 = k /\ (k + 1) - 1 = k
        OBVIOUS
      <4>. QED  BY <4>1, <1>7
    <3>2. /\ Step(f[(k + 1) - 1], ops[seq[k + 1]].op).ok
          /\ f[k + 1] = Step(f[(k + 1) - 1], ops[seq[k + 1]].op).state
      BY <3>1, <1>2 DEF Runs
    <3>. QED  BY <3>1, <3>2
  <2>. QED  BY <2>1, <2>2 DEF Runs
<1>11. ASSUME NEW k \in 1..m, NEW p \in DOMAIN ops, before(p, tl[k])
       PROVE  p \in S \cup {o} \/ \E j \in 1..(k - 1) : tl[j] = p
  <2>1. tl[k] = seq[k + 1] /\ k + 1 \in 1..n /\ (k + 1) - 1 = k
    BY <1>7
  <2>2. p \in S \/ \E j \in 1..k : seq[j] = p
    BY <1>11, <2>1, <1>2
  <2>3. ASSUME NEW j \in 1..k, seq[j] = p, j # 1
        PROVE  \E i \in 1..(k - 1) : tl[i] = p
    <3>1. j - 1 \in 1..(k - 1) /\ j - 1 \in 1..m /\ (j - 1) + 1 = j
      BY <2>3
    <3>. QED  BY Zenon, <3>1, <2>3, <1>7
  <2>. QED  BY <2>2, <2>3
<1>12. Completable(S \cup {o}, Step(st, ops[o].op).state)
  <2>1. m \in Nat
    BY <1>3
  <2>. DEFINE T == S \cup {o}
              s == Step(st, ops[o].op).state
  <2>2. \A k \in 1..m : \A p \in DOMAIN ops : before(p, tl[k]) => p \in T \/ \E j \in 1..(k - 1) : tl[j] = p
    BY <1>11
  <2>3. \A p \in DOMAIN ops : p \notin T <=> \E k \in 1..m : tl[k] = p
    BY <1>9
  <2>4. Runs(tl, m, s, g)
    BY <1>10
  <2>5. tl \in [1..m -> DOMAIN ops] /\ g \in [0..m -> States]
    BY <1>7
  <2>. HIDE DEF o, m, T, s
  <2>6. Completable(T, s)
    BY Zenon, <2>1, <2>2, <2>3, <2>4, <2>5, <1>8 DEF Completable
  <2>. QED  BY <2>6 DEF T, s
<1>. QED  BY Zenon, <1>4, <1>5, <1>6, <1>12

\* The nodes of the list, but for the head, are numbered from 1.
LEMMA RemainingNat ==
  ASSUME HistoryInv, NEW S
  PROVE  remaining(S) \subseteq Nat \ {0}
<1>1. nodes \subseteq Nat \ {0}
  <2>1. Len(history) \in Nat
    BY DEF HistoryInv
  <2>. QED  BY <2>1 DEF nodes
<1>. QED  BY Zenon, <1>1 DEF remaining

\* The entries of the operations that are left.
LEMMA RemainingFacts ==
  ASSUME HistoryInv, NEW S, NEW o \in DOMAIN ops, o \notin S
  PROVE  /\ callAt(o) \in remaining(S) /\ returnAt(o) \in remaining(S) \ {callAt(o)}
         /\ match(callAt(o)) = returnAt(o) /\ callAt(o) < returnAt(o)
         /\ remaining(S \cup {o}) = (remaining(S) \ {callAt(o)}) \ {returnAt(o)}
<1>1. /\ callAt(o) \in nodes /\ history[callAt(o)].kind = "call" /\ history[callAt(o)].id = o
      /\ returnAt(o) \in nodes /\ history[returnAt(o)].kind = "return" /\ history[returnAt(o)].id = o
      /\ callAt(o) < returnAt(o)
  BY DEF HistoryInv
<1>2. \A k \in nodes :
       /\ history[k].kind = "call" \/ history[k].kind = "return"
       /\ history[k].kind = "call" => k = callAt(history[k].id)
       /\ history[k].kind = "return" => k = returnAt(history[k].id)
  BY DEF HistoryInv
<1>3. callAt(o) # returnAt(o)
  BY <1>1
<1>4. callAt(o) \in remaining(S) /\ returnAt(o) \in remaining(S) \ {callAt(o)}
  BY <1>1, <1>3 DEF remaining
<1>5. match(callAt(o)) = returnAt(o)
  <2>1. \A j \in nodes : history[j].id = history[callAt(o)].id /\ history[j].kind = "return" => j = returnAt(o)
    BY <1>1, <1>2
  <2>. QED  BY <2>1, <1>1 DEF match
<1>6. remaining(S \cup {o}) = (remaining(S) \ {callAt(o)}) \ {returnAt(o)}
  <2>1. \A k \in nodes : history[k].id = o <=> k = callAt(o) \/ k = returnAt(o)
    BY <1>1, <1>2
  <2>. QED  BY <2>1 DEF remaining
<1>. QED  BY <1>1, <1>4, <1>5, <1>6

\* The search has nothing left to try with an operation's return: what is
\* linearized cannot be completed.
LEMMA DeadEnd ==
  ASSUME HistoryInv, NEW S, NEW st, NEW e \in remaining(S), ~isCall(e),
         \A j \in remaining(S) : j < e => isCall(j) /\ Hopeless(S, st, history[j].id)
  PROVE  ~Completable(S, st)
<1>1. SUFFICES ASSUME Completable(S, st) PROVE FALSE
  BY <1>1
<1>2. e \in nodes /\ history[e].id \in DOMAIN ops /\ history[e].id \notin S
      /\ e = returnAt(history[e].id)
  <2>1. e \in nodes /\ history[e].id \notin S /\ history[e].kind # "call"
    BY DEF remaining, isCall
  <2>. QED  BY <2>1 DEF HistoryInv
<1>3. PICK o \in DOMAIN ops \ S :
           /\ Step(st, ops[o].op).ok
           /\ Completable(S \cup {o}, Step(st, ops[o].op).state)
           /\ \A p \in DOMAIN ops : before(p, o) => p \in S
  BY <1>1, <1>2, FirstOne
<1>4. ~(returnAt(history[e].id) < callAt(o))
  BY <1>2, <1>3 DEF HistoryInv
<1>5. callAt(o) \in remaining(S) /\ callAt(o) \in nodes /\ history[callAt(o)].id = o
      /\ history[callAt(o)].kind = "call"
  BY Zenon, RemainingFacts DEF HistoryInv
<1>6. callAt(o) < e
  <2>1. callAt(o) # e
    BY <1>5 DEF isCall
  <2>2. callAt(o) \in Int /\ e \in Int
    BY <1>2, <1>5 DEF nodes, HistoryInv
  <2>. QED  BY <2>1, <2>2, <1>2, <1>4
<1>7. Hopeless(S, st, o)
  BY <1>5, <1>6
<1>. QED  BY <1>3, <1>7 DEF Hopeless

-----------------------------------------------------------------------------
(* The list and the stack.                                                 *)

\* The call e and its return, out of the list R, still point to where they
\* were in it.
Parked(n, p, R, e) ==
  /\ Follows(R, e, n[e]) /\ Precedes(R, e, p[e])
  /\ Follows(R \ {e}, match(e), n[match(e)]) /\ Precedes(R \ {e}, match(e), p[match(e)])

\* The list has what the stack leaves, and each frame's nodes can go back.
ListOK(n, p, cs) ==
  /\ n \in [0..Len(history) -> Int] /\ p \in [0..Len(history) -> Int]
  /\ Linked(n, p, remaining(done(cs, Len(cs))))
  /\ \A k \in 1..Len(cs) : Parked(n, p, remaining(done(cs, k - 1)), cs[k].entry)

\* A call's operation and return.
LEMMA CallFacts ==
  ASSUME HistoryInv, NEW e, isCall(e)
  PROVE  /\ e \in nodes /\ history[e].id \in DOMAIN ops
         /\ e = callAt(history[e].id) /\ match(e) = returnAt(history[e].id)
         /\ match(e) \in nodes /\ history[match(e)].id = history[e].id /\ e < match(e)
<1>1. e \in nodes /\ history[e].id \in DOMAIN ops /\ e = callAt(history[e].id)
  BY DEF isCall, HistoryInv
<1>2. match(e) = returnAt(history[e].id) /\ e < match(e)
  <2>1. history[e].id \notin {}
    OBVIOUS
  <2>2. match(callAt(history[e].id)) = returnAt(history[e].id) /\ callAt(history[e].id) < returnAt(history[e].id)
    BY Zenon, <1>1, <2>1, RemainingFacts
  <2>. QED  BY Zenon, <1>1, <2>2
<1>. QED  BY <1>1, <1>2 DEF HistoryInv

\* The nodes of the frames are out of the list.
LEMMA FramesOut ==
  ASSUME HistoryInv, NEW cs, NEW st, Chain(cs, st), NEW k \in 1..Len(cs)
  PROVE  /\ cs[k].entry \in nodes /\ cs[k].entry \notin remaining(done(cs, Len(cs)))
         /\ match(cs[k].entry) \in nodes /\ match(cs[k].entry) \notin remaining(done(cs, Len(cs)))
<1>1. isCall(cs[k].entry)
  BY DEF Chain
<1>2. /\ cs[k].entry \in nodes /\ match(cs[k].entry) \in nodes
      /\ history[match(cs[k].entry)].id = history[cs[k].entry].id
  BY Zenon, <1>1, CallFacts
<1>3. history[cs[k].entry].id \in done(cs, Len(cs))
  BY DEF done, op
<1>. QED  BY Zenon, <1>2, <1>3 DEF remaining

\* lift takes the call and its return out of the list.
LEMMA LiftKeeps ==
  ASSUME HistoryInv, NEW cs, NEW st, Chain(cs, st), ListOK(next, prev, cs),
         NEW fr \in Frame, isCall(fr.entry), history[fr.entry].id \notin done(cs, Len(cs)),
         lift(fr.entry)
  PROVE  ListOK(next', prev', Append(cs, fr))
<1>. DEFINE N == Len(history)
            L == Len(cs)
            c == Append(cs, fr)
            e == fr.entry
            o == history[e].id
            m == match(e)
            R == remaining(done(cs, L))
            n1 == unlinkNext(next, prev, e)
            p1 == unlinkPrev(next, prev, e)
            n2 == unlinkNext(n1, p1, m)
            p2 == unlinkPrev(n1, p1, m)
<1>1. cs \in Seq(Frame) /\ N \in Nat /\ nodes = 1..N /\ L \in Nat
  <2>1. cs \in Seq(Frame)
    BY DEF Chain
  <2>2. N \in Nat
    BY DEF HistoryInv
  <2>. QED  BY <2>1, <2>2 DEF nodes
<1>2. R \in SUBSET (1..N) /\ next \in [0..N -> Int] /\ prev \in [0..N -> Int] /\ Linked(next, prev, R)
  BY <1>1 DEF ListOK, remaining
<1>3. e \in R /\ m \in R \ {e} /\ e < m /\ remaining(done(cs, L) \cup {o}) = (R \ {e}) \ {m}
  <2>1. /\ o \in DOMAIN ops /\ e = callAt(o) /\ m = returnAt(o)
        /\ o \notin done(cs, L)
    BY Zenon, CallFacts
  <2>. HIDE DEF o, e, m, L
  <2>. QED  BY Zenon, <2>1, RemainingFacts
<1>4. /\ n1 \in [0..N -> Int] /\ p1 \in [0..N -> Int]
      /\ Linked(n1, p1, R \ {e})
      /\ \A j \in 1..N : j \notin R \/ j = e => n1[j] = next[j] /\ p1[j] = prev[j]
  <2>. HIDE DEF e, R, N
  <2>1. Relinked(N, R, e, next, prev, n1, p1, R \ {e})
    BY Zenon, <1>1, <1>2, <1>3, Unlink
  <2>. HIDE DEF n1, p1
  <2>. QED  BY <2>1 DEF Relinked
<1>5. /\ n2 \in [0..N -> Int] /\ p2 \in [0..N -> Int]
      /\ Linked(n2, p2, (R \ {e}) \ {m})
      /\ \A j \in 1..N : j \notin R \ {e} \/ j = m => n2[j] = n1[j] /\ p2[j] = p1[j]
  <2>1. R \ {e} \in SUBSET (1..N)
    BY <1>2
  <2>. HIDE DEF n1, p1, m, e, R, N
  <2>2. Relinked(N, R \ {e}, m, n1, p1, n2, p2, (R \ {e}) \ {m})
    BY Zenon, <1>1, <2>1, <1>3, <1>4, Unlink
  <2>. HIDE DEF n2, p2
  <2>. QED  BY <2>2 DEF Relinked
<1>6. next[e] # nil
  <2>1. Follows(R, e, next[e])
    BY <1>2, <1>3 DEF Linked
  <2>2. R \subseteq Nat /\ e \in R /\ m \in R /\ e < m
    BY <1>1, <1>2, <1>3
  <2>. HIDE DEF R, e, m
  <2>. QED  BY <2>1, <2>2 DEF Follows, nil
<1>7. next' = n2 /\ prev' = p2
  BY <1>6 DEF lift, unlinkNext, unlinkPrev
<1>8. /\ c \in Seq(Frame) /\ Len(c) = L + 1 /\ c[L + 1] = fr
      /\ \A k \in 1..L : c[k] = cs[k]
      /\ \A k \in 0..L : done(c, k) = done(cs, k)
      /\ done(c, L + 1) = done(cs, L) \cup {o}
  <2>. HIDE DEF o
  <2>1. history[fr.entry].id = o
    BY DEF o
  <2>2. c \in Seq(Frame) /\ Len(c) = L + 1
    BY <1>1
  <2>3. c[L + 1] = fr /\ \A k \in 1..L : c[k] = cs[k]
    BY <1>1
  <2>4. \A k \in 0..L : done(c, k) = done(cs, k)
    BY <1>1, Push
  <2>5. done(c, L + 1) = done(cs, L) \cup {o}
    BY <1>1, <2>1, Push
  <2>. QED  BY Zenon, <2>2, <2>3, <2>4, <2>5
<1>9. Linked(n2, p2, remaining(done(c, Len(c))))
  BY Zenon, <1>3, <1>5, <1>8
<1>10. ASSUME NEW k \in 1..L
       PROVE  Parked(n2, p2, remaining(done(c, k - 1)), c[k].entry)
  <2>1. Parked(next, prev, remaining(done(cs, k - 1)), cs[k].entry)
    BY DEF ListOK
  <2>2. c[k] = cs[k] /\ done(c, k - 1) = done(cs, k - 1)
    <3>1. k - 1 \in 0..L
      BY <1>1
    <3>. QED  BY <3>1, <1>8
  <2>. DEFINE x == cs[k].entry
              y == match(x)
  <2>3. x \in 1..N /\ x \notin R /\ y \in 1..N /\ y \notin R
    BY Zenon, <1>1, FramesOut
  <2>. HIDE DEF x, y, n1, p1, n2, p2, R, N, c
  <2>4. n2[x] = next[x] /\ p2[x] = prev[x] /\ n2[y] = next[y] /\ p2[y] = prev[y]
    BY Zenon, <2>3, <1>4, <1>5
  <2>. QED  BY Zenon, <2>1, <2>2, <2>4 DEF Parked, x, y
<1>11. Parked(n2, p2, remaining(done(c, (L + 1) - 1)), c[L + 1].entry)
  <2>1. (L + 1) - 1 = L /\ L \in 0..L
    BY <1>1
  <2>2. remaining(done(c, (L + 1) - 1)) = R /\ c[L + 1].entry = e
    BY <2>1, <1>8
  <2>3. e \in 1..N /\ m \in 1..N
    BY <1>2, <1>3
  <2>. HIDE DEF n1, p1, n2, p2, R, N, e
  <2>4. n2[e] = next[e] /\ p2[e] = prev[e] /\ n2[m] = n1[m] /\ p2[m] = p1[m]
    BY Zenon, <2>3, <1>4, <1>5
  <2>5. Follows(R, e, next[e]) /\ Precedes(R, e, prev[e])
    BY <1>2, <1>3 DEF Linked
  <2>6. Follows(R \ {e}, m, n1[m]) /\ Precedes(R \ {e}, m, p1[m])
    BY Zenon, <1>3, <1>4 DEF Linked
  <2>. QED  BY Zenon, <2>2, <2>4, <2>5, <2>6 DEF Parked
<1>12. ASSUME NEW k \in 1..Len(c)
       PROVE  Parked(n2, p2, remaining(done(c, k - 1)), c[k].entry)
  <2>1. k \in 1..L \/ k = L + 1
    BY <1>1, <1>8
  <2>. HIDE DEF n2, p2, c, L
  <2>. QED  BY <2>1, <1>10, <1>11
<1>. HIDE DEF n2, p2, c
<1>13. ListOK(n2, p2, c)
  BY <1>5, <1>9, <1>12 DEF ListOK
<1>. QED  BY <1>7, <1>13 DEF c

\* unlift puts them back, in the order that undoes it.
LEMMA UnliftKeeps ==
  ASSUME HistoryInv, NEW cs \in Seq(Frame), NEW fr \in Frame, NEW st \in States,
         Chain(Append(cs, fr), st), ListOK(next, prev, Append(cs, fr)), unlift(fr.entry)
  PROVE  ListOK(next', prev', cs)
<1>. DEFINE N == Len(history)
            L == Len(cs)
            c == Append(cs, fr)
            e == fr.entry
            o == history[e].id
            m == match(e)
            R == remaining(done(cs, L))
            n1 == relinkNext(next, prev, m)
            p1 == relinkPrev(next, prev, m)
            n2 == relinkNext(n1, p1, e)
            p2 == relinkPrev(n1, p1, e)
<1>1. N \in Nat /\ nodes = 1..N /\ L \in Nat
  BY DEF HistoryInv, nodes
<1>2. R \in SUBSET (1..N) /\ next \in [0..N -> Int] /\ prev \in [0..N -> Int]
  BY <1>1 DEF ListOK, remaining
<1>0. Chain(cs, fr.state) /\ isCall(e) /\ o \notin done(cs, L)
  BY PushChain
<1>3. e \in R /\ m \in R \ {e} /\ e < m /\ remaining(done(cs, L) \cup {o}) = (R \ {e}) \ {m}
  <2>1. /\ o \in DOMAIN ops /\ e = callAt(o) /\ m = returnAt(o)
        /\ o \notin done(cs, L)
    BY Zenon, <1>0, CallFacts
  <2>. HIDE DEF o, e, m, L
  <2>. QED  BY Zenon, <2>1, RemainingFacts
<1>8. /\ c \in Seq(Frame) /\ Len(c) = L + 1 /\ c[L + 1] = fr
      /\ \A k \in 1..L : c[k] = cs[k]
      /\ \A k \in 0..L : done(c, k) = done(cs, k)
      /\ done(c, L + 1) = done(cs, L) \cup {o}
  BY Push
<1>4. Linked(next, prev, (R \ {e}) \ {m})
  BY Zenon, <1>3, <1>8 DEF ListOK
<1>5. Parked(next, prev, R, e)
  <2>1. (L + 1) - 1 = L /\ L \in 0..L /\ L + 1 \in 1..(L + 1)
    BY <1>1
  <2>2. Parked(next, prev, remaining(done(c, (L + 1) - 1)), c[L + 1].entry)
    BY <2>1, <1>8 DEF ListOK
  <2>. QED  BY <2>1, <2>2, <1>8
<1>6. /\ n1 \in [0..N -> Int] /\ p1 \in [0..N -> Int]
      /\ Linked(n1, p1, R \ {e})
      /\ \A j \in 1..N : j \notin R \ {e} \/ j = m => n1[j] = next[j] /\ p1[j] = prev[j]
  <2>1. R \ {e} \in SUBSET (1..N) /\ m \in R \ {e}
    BY <1>2, <1>3
  <2>2. Follows(R \ {e}, m, next[m]) /\ Precedes(R \ {e}, m, prev[m])
    BY Zenon, <1>5 DEF Parked
  <2>. HIDE DEF m, e, R, N
  <2>3. Relinked(N, R \ {e}, m, next, prev, n1, p1, R \ {e})
    BY Zenon, <1>1, <1>2, <2>1, <2>2, <1>4, Relink
  <2>. HIDE DEF n1, p1
  <2>. QED  BY <2>3 DEF Relinked
<1>7. n1[e] = next[e] /\ p1[e] = prev[e] /\ n1[m] = next[m]
  <2>1. e \in 1..N /\ m \in 1..N /\ e \notin R \ {e}
    BY <1>2, <1>3
  <2>. HIDE DEF n1, p1, m, e, R, N
  <2>. QED  BY <2>1, <1>6
<1>9. /\ n2 \in [0..N -> Int] /\ p2 \in [0..N -> Int]
      /\ Linked(n2, p2, R)
      /\ \A j \in 1..N : j \notin R \/ j = e => n2[j] = n1[j] /\ p2[j] = p1[j]
  <2>1. Follows(R, e, n1[e]) /\ Precedes(R, e, p1[e])
    BY Zenon, <1>5, <1>7 DEF Parked
  <2>. HIDE DEF n1, p1, m, e, R, N
  <2>2. Relinked(N, R, e, n1, p1, n2, p2, R)
    BY Zenon, <1>1, <1>2, <2>1, <1>3, <1>6, Relink
  <2>. HIDE DEF n2, p2
  <2>. QED  BY <2>2 DEF Relinked
<1>10. n1[e] # nil
  <2>1. Follows(R, e, next[e])
    BY <1>5 DEF Parked
  <2>2. R \subseteq Nat /\ e \in R /\ m \in R /\ e < m
    <3>. HIDE DEF R, e, m, N
    <3>. QED  BY <1>1, <1>2, <1>3
  <2>3. next[e] # nil
    <3>. HIDE DEF R, e, m
    <3>. QED  BY <2>1, <2>2 DEF Follows, nil
  <2>. QED  BY <2>3, <1>7
<1>11. next' = n2 /\ prev' = p2
  <2>1. [next EXCEPT ![prev[m]] = m] = n1
    BY DEF relinkNext
  <2>2. (IF n1[m] # nil THEN [prev EXCEPT ![n1[m]] = m] ELSE prev) = p1
    BY <1>7 DEF relinkPrev
  <2>3. next' = [n1 EXCEPT ![p1[e]] = e] /\ prev' = [p1 EXCEPT ![n1[e]] = e]
    BY Zenon, <2>1, <2>2 DEF unlift
  <2>. HIDE DEF n1, p1, e
  <2>. QED  BY <2>3, <1>10 DEF relinkNext, relinkPrev
<1>12. ASSUME NEW k \in 1..L
       PROVE  Parked(n2, p2, remaining(done(cs, k - 1)), cs[k].entry)
  <2>2. c[k] = cs[k] /\ done(c, k - 1) = done(cs, k - 1) /\ k \in 1..Len(c)
    <3>1. k - 1 \in 0..L /\ k \in 1..(L + 1)
      BY <1>1
    <3>. QED  BY <3>1, <1>8
  <2>1. Parked(next, prev, remaining(done(c, k - 1)), c[k].entry)
    BY <2>2 DEF ListOK
  <2>. DEFINE x == cs[k].entry
              y == match(x)
  <2>3. x \in 1..N /\ x \notin R /\ y \in 1..N /\ y \notin R
    BY Zenon, <1>0, <1>1, FramesOut
  <2>. HIDE DEF x, y, n1, p1, n2, p2, R, N, c
  <2>4. n2[x] = next[x] /\ p2[x] = prev[x] /\ n2[y] = next[y] /\ p2[y] = prev[y]
    BY Zenon, <2>3, <1>6, <1>9
  <2>. QED  BY Zenon, <2>1, <2>2, <2>4 DEF Parked, x, y
<1>. HIDE DEF n2, p2, c
<1>13. ListOK(n2, p2, cs)
  BY <1>9, <1>12 DEF ListOK
<1>. QED  BY <1>11, <1>13

-----------------------------------------------------------------------------
(* The search.                                                             *)

SearchInv ==
  /\ HistoryInv
  /\ Chain(calls, state)
  /\ linearized = done(calls, Len(calls))
  /\ ListOK(next, prev, calls)
  /\ remaining(linearized) # {} => entry \in remaining(linearized)
  /\ Tried(calls, state, entry)
  /\ Cached(cache, calls, state)

\* SearchInv after a step, in terms of the input, which does not change.
LEMMA SearchNext ==
  ASSUME UNCHANGED <<port, ops, history>>, HistoryInv,
         Chain(calls', state'), linearized' = done(calls', Len(calls')),
         ListOK(next', prev', calls'),
         remaining(linearized') # {} => entry' \in remaining(linearized'),
         Tried(calls', state', entry'), Cached(cache', calls', state')
  PROVE  SearchInv'
<1>1. HistoryInv'
  BY DEF HistoryInv, callAt, returnAt, nodes, before
<1>2. Chain(calls, state)'
  BY Zenon DEF Chain, Frame, nodes, at, isCall, op, done
<1>3. (linearized = done(calls, Len(calls)))'
  BY DEF done, op
<1>8. /\ \A S : remaining(S)' = remaining(S)
      /\ \A k : done(calls, k)' = done(calls', k)
      /\ \A k : at(calls, state, k)' = at(calls', state', k)
      /\ \A k : place(calls, entry, k)' = place(calls', entry', k)
      /\ \A k : match(k)' = match(k) /\ (isCall(k)' <=> isCall(k))
  BY DEF remaining, nodes, done, op, at, place, match, isCall
<1>9. \A S, st : Completable(S, st)' <=> Completable(S, st)
  BY DEF Completable, Runs, before
<1>4. ListOK(next, prev, calls)'
  <2>1. \A k \in 1..Len(calls') :
          (remaining(done(calls, k - 1)))' = remaining(done(calls', k - 1))
    BY Zenon DEF remaining, nodes, done, op
  <2>2. (remaining(done(calls, Len(calls))))' = remaining(done(calls', Len(calls')))
    BY DEF remaining, nodes, done, op
  <2>3. \A k \in 1..Len(calls') :
          (match(calls[k].entry))' = match(calls'[k].entry)
    BY DEF match, nodes
  <2>. QED  BY Zenon, <2>1, <2>2, <2>3 DEF ListOK, Parked
<1>5. (remaining(linearized) # {} => entry \in remaining(linearized))'
  BY DEF remaining, nodes
<1>6. Tried(calls, state, entry)'
  <2>1. \A k \in 0..Len(calls') :
          (remaining(done(calls, k)))' = remaining(done(calls', k))
    BY Zenon DEF remaining, nodes, done, op
  <2>2. \A k \in 0..Len(calls') : \A j : Hopeless(done(calls, k), at(calls, state, k), history[j].id)'
                                      <=> Hopeless(done(calls', k), at(calls', state', k), history[j].id)
    BY Zenon, <1>9 DEF Hopeless, done, op, at
  <2>. QED  BY <1>8, <2>1, <2>2 DEF Tried
<1>7. Cached(cache, calls, state)'
  BY <1>8, <1>9 DEF Cached
<1>. QED  BY <1>1, <1>2, <1>3, <1>4, <1>5, <1>6, <1>7 DEF SearchInv

\* Where the search is while it loops.
LEMMA LoopFacts ==
  ASSUME SearchInv, loops
  PROVE  /\ entry \in remaining(linearized) /\ entry \in nodes
         /\ history[entry].id \in DOMAIN ops /\ history[entry].id \notin linearized
         /\ ops[history[entry].id].op \in Op
         /\ Len(calls) \in Nat /\ calls \in Seq(Frame) /\ state \in States
<1>1. remaining(linearized) # {}
  <2>1. Follows(remaining(linearized), 0, next[0]) /\ next[0] # nil
    BY DEF SearchInv, ListOK, Linked, loops
  <2>. QED  BY <2>1 DEF Follows
<1>2. entry \in remaining(linearized)
  BY <1>1 DEF SearchInv
<1>3. entry \in nodes /\ history[entry].id \notin linearized
  BY <1>2 DEF remaining
<1>4. history[entry].id \in DOMAIN ops /\ ops[history[entry].id].op \in Op
  BY <1>3 DEF SearchInv, HistoryInv
<1>5. calls \in Seq(Frame) /\ state \in States
  BY DEF SearchInv, Chain
<1>6. Len(calls) \in Nat
  BY <1>5
<1>. QED  BY <1>2, <1>3, <1>4, <1>5, <1>6

\* The operations linearized are operations.
LEMMA DoneType ==
  ASSUME HistoryInv, NEW cs \in Seq(Frame), NEW k \in 0..Len(cs)
  PROVE  done(cs, k) \in SUBSET DOMAIN ops
<1>1. ASSUME NEW j \in 1..k
      PROVE  op(cs, j) \in DOMAIN ops
  <2>1. j \in 1..Len(cs)
    OBVIOUS
  <2>2. cs[j].entry \in nodes
    <3>1. cs[j] \in Frame
      BY <2>1
    <3>. QED  BY <3>1 DEF Frame
  <2>. QED  BY <2>2 DEF op, HistoryInv
<1>. QED  BY <1>1 DEF done

\* advance: the call was no use to linearize.
LEMMA AdvanceKeeps ==
  ASSUME SearchInv, advance
  PROVE  SearchInv'
<1>. DEFINE o == history[entry].id
            L == Len(calls)
            R == remaining(linearized)
            s == Step(state, ops[o].op)
<1>1. /\ loops /\ isCall(entry) /\ (~s.ok \/ cacheContains(linearized \cup {o}, s.state))
      /\ entry' = next[entry]
      /\ UNCHANGED <<port, ops, history, next, prev, calls, linearized, cache, state>>
  BY DEF advance, input, list
<1>2. entry \in R /\ o \notin linearized /\ L \in Nat
  BY <1>1, LoopFacts
<1>3. HistoryInv /\ linearized = done(calls, L) /\ Tried(calls, state, entry) /\ Cached(cache, calls, state)
      /\ ListOK(next, prev, calls) /\ calls \in Seq(Frame)
  BY DEF SearchInv, Chain
<1>4. R \subseteq Nat /\ match(entry) \in R /\ entry < match(entry)
  <2>1. R \subseteq Nat
    BY <1>3 DEF remaining, nodes, HistoryInv
  <2>2. match(entry) \in nodes /\ history[match(entry)].id = o /\ entry < match(entry)
    BY Zenon, <1>1, <1>3, CallFacts
  <2>. QED  BY Zenon, <2>1, <2>2, <1>2 DEF remaining
<1>5. entry' \in R /\ entry' > entry /\ \A j \in R : j > entry => entry' <= j
  <2>1. Follows(R, entry, next[entry])
    BY <1>2, <1>3 DEF ListOK, Linked
  <2>2. entry \in R /\ match(entry) \in R /\ R \subseteq Nat /\ entry < match(entry) /\ entry' = next[entry]
    BY Zenon, <1>1, <1>2, <1>4
  <2>. HIDE DEF R
  <2>3. ~\A j \in R : j <= entry
    <3>1. \A a, b \in Nat : a < b => ~(b <= a)
      OBVIOUS
    <3>. QED  BY Zenon, <2>2, <3>1
  <2>. QED  BY <2>1, <2>2, <2>3 DEF Follows
<1>6. Hopeless(linearized, state, o)
  <2>1. CASE ~s.ok
    BY <2>1 DEF Hopeless
  <2>2. CASE <<linearized \cup {o}, s.state>> \in cache
    <3>1. ASSUME NEW k \in 1..L, <<linearized \cup {o}, s.state>> = <<done(calls, k), at(calls, state, k)>>
          PROVE  FALSE
      <4>1. o \in done(calls, k)
        BY <3>1
      <4>2. done(calls, k) \subseteq done(calls, L)
        BY <1>2, DoneGrows
      <4>. QED  BY <4>1, <4>2, <1>2, <1>3
    <3>2. ~Completable(linearized \cup {o}, s.state)
      <4>. DEFINE x == <<linearized \cup {o}, s.state>>
      <4>1. \/ ~Completable(x[1], x[2])
            \/ \E k \in 1..L : x = <<done(calls, k), at(calls, state, k)>>
        BY Zenon, <1>3, <2>2 DEF Cached
      <4>2. x[1] = linearized \cup {o} /\ x[2] = s.state
        OBVIOUS
      <4>. QED  BY Zenon, <4>1, <4>2, <3>1
    <3>. QED  BY <3>2 DEF Hopeless
  <2>. QED  BY Zenon, <1>1, <2>1, <2>2 DEF cacheContains
<1>7. Tried(calls, state, next[entry])
  <2>. SUFFICES ASSUME NEW k \in 0..L, NEW j \in remaining(done(calls, k)), j < place(calls, next[entry], k)
                PROVE  isCall(j) /\ Hopeless(done(calls, k), at(calls, state, k), history[j].id)
    BY DEF Tried
  <2>1. CASE k < L
    <3>1. place(calls, next[entry], k) = place(calls, entry, k)
      BY <2>1 DEF place
    <3>. QED  BY <3>1, <1>3 DEF Tried
  <2>2. CASE k = L
    <3>1. /\ place(calls, next[entry], k) = next[entry] /\ place(calls, entry, k) = entry
          /\ at(calls, state, k) = state /\ done(calls, k) = linearized
      BY <2>2, <1>2, <1>3 DEF place, at
    <3>2. j \in R /\ j < entry'
      BY <3>1, <1>1
    <3>3. CASE j < entry
      BY <3>1, <3>3, <1>3 DEF Tried
    <3>4. CASE j = entry
      BY <3>1, <3>4, <1>1, <1>6
    <3>5. j < entry \/ j = entry
      <4>. HIDE DEF R
      <4>. QED  BY <3>2, <1>2, <1>4, <1>5
    <3>. QED  BY <3>3, <3>4, <3>5
  <2>. QED  BY <2>1, <2>2, <1>2
<1>8. /\ Chain(calls', state') /\ linearized' = done(calls', Len(calls'))
      /\ ListOK(next', prev', calls') /\ Cached(cache', calls', state')
      /\ Tried(calls', state', entry')
  BY Zenon, <1>1, <1>3, <1>7 DEF SearchInv
<1>9. entry' \in remaining(linearized')
  BY <1>1, <1>5
<1>. QED  BY Zenon, <1>1, <1>3, <1>8, <1>9, SearchNext

\* linearize: one operation more, and its list from the start.
LEMMA LinearizeKeeps ==
  ASSUME SearchInv, linearize
  PROVE  SearchInv'
<1>. DEFINE o == history[entry].id
            L == Len(calls)
            fr == [entry |-> entry, state |-> state]
            c == Append(calls, fr)
            s == Step(state, ops[o].op)
            R == remaining(linearized \cup {o})
<1>1. /\ loops /\ isCall(entry) /\ s.ok
      /\ cache' = cache \cup {<<linearized \cup {o}, s.state>>}
      /\ calls' = c /\ state' = s.state /\ linearized' = linearized \cup {o}
      /\ lift(entry) /\ entry' = next'[0]
      /\ UNCHANGED <<port, ops, history>>
  BY Zenon DEF linearize, input
<1>2. /\ HistoryInv /\ Chain(calls, state) /\ linearized = done(calls, L) /\ ListOK(next, prev, calls)
      /\ Tried(calls, state, entry) /\ Cached(cache, calls, state)
  BY DEF SearchInv
<1>3. /\ entry \in nodes /\ o \in DOMAIN ops /\ o \notin linearized /\ ops[o].op \in Op
      /\ L \in Nat /\ calls \in Seq(Frame) /\ state \in States
  BY <1>1, LoopFacts
<1>4. fr \in Frame /\ fr.entry = entry /\ fr.state = state /\ s.state \in States
  BY <1>3, StepType DEF Frame
<1>5. /\ c \in Seq(Frame) /\ Len(c) = L + 1
      /\ \A k \in 0..L : done(c, k) = done(calls, k)
      /\ done(c, L + 1) = linearized \cup {o}
      /\ \A k \in 0..L : at(c, s.state, k) = at(calls, state, k)
      /\ at(c, s.state, L + 1) = s.state
      /\ \A e : \A k \in 0..L : place(c, e, k) = place(calls, entry, k)
      /\ \A e : place(c, e, L + 1) = e
  <2>. HIDE DEF fr, o, s
  <2>1. history[fr.entry].id = o
    BY <1>4 DEF o
  <2>2. linearized = done(calls, L) /\ fr.entry = entry /\ fr.state = state /\ fr \in Frame
    BY <1>2, <1>4
  <2>3. c \in Seq(Frame) /\ Len(c) = L + 1 /\ \A k \in 0..L : done(c, k) = done(calls, k)
    BY <1>3, <2>2, Push
  <2>4. done(c, L + 1) = linearized \cup {o}
    BY <1>3, <2>1, <2>2, Push
  <2>5. /\ \A k \in 0..L : at(c, s.state, k) = at(calls, state, k)
        /\ at(c, s.state, L + 1) = s.state
    BY <1>3, <2>2, Push
  <2>6. /\ \A e : \A k \in 0..L : place(c, e, k) = place(calls, entry, k)
        /\ \A e : place(c, e, L + 1) = e
    BY <1>3, <2>2, Push
  <2>. QED  BY <2>3, <2>4, <2>5, <2>6
<1>6. Chain(c, s.state)
  <2>. HIDE DEF fr, o, s
  <2>1. history[fr.entry].id = o /\ s = Step(fr.state, ops[o].op)
    BY <1>4 DEF o, s
  <2>2. Chain(calls, fr.state) /\ isCall(fr.entry) /\ o \notin done(calls, L) /\ s.ok
    BY <1>1, <1>2, <1>3, <1>4
  <2>. QED  BY <1>3, <1>4, <2>1, <2>2, PushChain
<1>7. ListOK(next', prev', c)
  <2>. HIDE DEF fr
  <2>. QED  BY Zenon, <1>1, <1>2, <1>3, <1>4, LiftKeeps
<1>8. R = remaining(done(c, Len(c))) /\ R \subseteq Nat \ {0}
  <2>1. done(c, Len(c)) = linearized \cup {o}
    BY <1>5
  <2>. QED  BY Zenon, <1>2, <2>1, RemainingNat
<1>9. /\ R # {} => next'[0] \in R
      /\ \A j \in R : ~(j < next'[0])
  <2>1. Follows(R, 0, next'[0])
    BY <1>7, <1>8 DEF ListOK, Linked
  <2>. HIDE DEF R
  <2>2. \A j \in R : j \in Nat /\ j > 0
    BY <1>8
  <2>3. CASE next'[0] = nil /\ \A j \in R : j <= 0
    BY <2>2, <2>3
  <2>4. CASE next'[0] \in R /\ \A j \in R : j > 0 => next'[0] <= j
    BY <2>2, <2>4
  <2>. QED  BY <2>1, <2>3, <2>4 DEF Follows
<1>10. Tried(c, s.state, next'[0])
  <2>. SUFFICES ASSUME NEW k \in 0..Len(c), NEW j \in remaining(done(c, k)), j < place(c, next'[0], k)
                PROVE  isCall(j) /\ Hopeless(done(c, k), at(c, s.state, k), history[j].id)
    BY DEF Tried
  <2>1. CASE k = L + 1
    <3>1. j \in R /\ j < next'[0]
      BY Zenon, <2>1, <1>5, <1>8
    <3>. QED  BY Zenon, <3>1, <1>9
  <2>2. CASE k \in 0..L
    <3>1. /\ done(c, k) = done(calls, k) /\ at(c, s.state, k) = at(calls, state, k)
          /\ place(c, next'[0], k) = place(calls, entry, k)
      BY <2>2, <1>5
    <3>. HIDE DEF c, s
    <3>. QED  BY <3>1, <2>2, <1>2 DEF Tried
  <2>3. k = L + 1 \/ k \in 0..L
    BY <1>3, <1>5
  <2>. QED  BY <2>1, <2>2, <2>3
<1>11. Cached(cache', c, s.state)
  <2>1. cache' \subseteq (SUBSET DOMAIN ops) \X States
    <3>1. linearized \in SUBSET DOMAIN ops
      <4>1. L \in 0..L
        BY <1>3
      <4>. QED  BY <4>1, <1>2, <1>3, DoneType
    <3>2. cache \subseteq (SUBSET DOMAIN ops) \X States
      BY <1>2 DEF Cached
    <3>3. linearized \cup {o} \in SUBSET DOMAIN ops
      BY <3>1, <1>3
    <3>. HIDE DEF s, o
    <3>. QED  BY <3>2, <3>3, <1>1, <1>4
  <2>2. ASSUME NEW x \in cache, NEW k \in 1..L, x = <<done(calls, k), at(calls, state, k)>>
        PROVE  \E i \in 1..Len(c) : x = <<done(c, i), at(c, s.state, i)>>
    <3>1. k \in 1..(L + 1) /\ k \in 0..L
      BY <1>3
    <3>2. k \in 1..Len(c) /\ done(c, k) = done(calls, k) /\ at(c, s.state, k) = at(calls, state, k)
      BY Zenon, <3>1, <1>5
    <3>. HIDE DEF c, s
    <3>. QED  BY <3>2, <2>2
  <2>3. \E i \in 1..Len(c) : <<linearized \cup {o}, s.state>> = <<done(c, i), at(c, s.state, i)>>
    <3>1. L + 1 \in 1..Len(c)
      BY <1>3, <1>5
    <3>. HIDE DEF c, s, L
    <3>. QED  BY <3>1, <1>5
  <2>4. ASSUME NEW x \in cache'
        PROVE  \/ ~Completable(x[1], x[2])
               \/ \E k \in 1..Len(c) : x = <<done(c, k), at(c, s.state, k)>>
    <3>1. CASE x \in cache
      <4>1. \/ ~Completable(x[1], x[2])
            \/ \E k \in 1..L : x = <<done(calls, k), at(calls, state, k)>>
        BY <3>1, <1>2 DEF Cached
      <4>. HIDE DEF c, s
      <4>. QED  BY <4>1, <3>1, <2>2
    <3>2. CASE x = <<linearized \cup {o}, s.state>>
      <4>. HIDE DEF c, s, o
      <4>. QED  BY <3>2, <2>3
    <3>. QED  BY Zenon, <3>1, <3>2, <1>1
  <2>. HIDE DEF c, s
  <2>. QED  BY <2>1, <2>4 DEF Cached
<1>12. linearized' = done(calls', Len(calls'))
  BY Zenon, <1>1, <1>5
<1>13. /\ Chain(calls', state') /\ ListOK(next', prev', calls') /\ Tried(calls', state', entry')
       /\ Cached(cache', calls', state')
  <2>. HIDE DEF c, s
  <2>. QED  BY <1>1, <1>6, <1>7, <1>10, <1>11
<1>14. remaining(linearized') # {} => entry' \in remaining(linearized')
  BY Zenon, <1>1, <1>9
<1>. QED  BY Zenon, <1>1, <1>2, <1>12, <1>13, <1>14, SearchNext

\* backtrack: one operation less; what was linearized with it cannot be
\* completed.
LEMMA BacktrackKeeps ==
  ASSUME SearchInv, backtrack
  PROVE  SearchInv'
<1>. DEFINE fr == Last(calls)
            cs == Front(calls)
            L == Len(cs)
            e == fr.entry
            o == history[e].id
            st == fr.state
            S == done(cs, L)
            R == remaining(S)
<1>1. /\ loops /\ ~isCall(entry) /\ calls # <<>>
      /\ state' = st /\ linearized' = linearized \ {o} /\ calls' = cs
      /\ unlift(e) /\ entry' = next'[e]
      /\ UNCHANGED <<port, ops, history, cache>>
  BY DEF backtrack, input
<1>2. /\ HistoryInv /\ Chain(calls, state) /\ linearized = done(calls, Len(calls))
      /\ ListOK(next, prev, calls) /\ Tried(calls, state, entry) /\ Cached(cache, calls, state)
  BY DEF SearchInv
<1>3. /\ entry \in remaining(linearized) /\ calls \in Seq(Frame) /\ state \in States
  BY <1>1, LoopFacts
<1>4. cs \in Seq(Frame) /\ fr \in Frame /\ calls = Append(cs, fr) /\ Len(calls) = L + 1 /\ L \in Nat
  <2>1. cs \in Seq(Frame) /\ fr \in Frame /\ calls = Append(cs, fr) /\ Len(calls) = L + 1
    BY <1>1, <1>3, Pop
  <2>. HIDE DEF cs
  <2>. QED  BY <2>1
<1>. HIDE DEF cs, fr
<1>5. /\ Chain(cs, st) /\ isCall(e) /\ o \notin S
      /\ Step(st, ops[o].op).ok /\ state = Step(st, ops[o].op).state
  BY Zenon, <1>2, <1>3, <1>4, PushChain
<1>6. /\ \A k \in 0..L : done(calls, k) = done(cs, k)
      /\ done(calls, L + 1) = S \cup {o}
      /\ \A k \in 0..L : at(calls, state, k) = at(cs, st, k)
      /\ at(calls, state, L + 1) = state
      /\ \A k \in 0..L : place(calls, entry, k) = place(cs, e, k)
      /\ place(calls, entry, L + 1) = entry
  BY <1>4, Push
<1>7. linearized = S \cup {o} /\ linearized' = S
  BY Zenon, <1>1, <1>2, <1>4, <1>5, <1>6
<1>8. ListOK(next', prev', cs)
  BY Zenon, <1>1, <1>2, <1>3, <1>4, UnliftKeeps
<1>9. R \subseteq Nat /\ e \in R /\ match(e) \in R /\ e < match(e)
  <2>1. R \subseteq Nat
    BY <1>2 DEF remaining, nodes, HistoryInv
  <2>2. e \in nodes /\ match(e) \in nodes /\ history[match(e)].id = o /\ e < match(e)
    BY Zenon, <1>2, <1>5, CallFacts
  <2>. QED  BY Zenon, <2>1, <2>2, <1>5 DEF remaining
<1>10. entry' \in R /\ entry' > e /\ \A j \in R : j > e => entry' <= j
  <2>1. Follows(R, e, next'[e])
    BY <1>8, <1>9 DEF ListOK, Linked
  <2>2. ~\A j \in R : j <= e
    <3>1. \A a, b \in Nat : a < b => ~(b <= a)
      OBVIOUS
    <3>. QED  BY Zenon, <1>9, <3>1
  <2>. HIDE DEF R, e
  <2>. QED  BY <2>1, <2>2, <1>1 DEF Follows
<1>11. ~Completable(linearized, state)
  <2>1. \A j \in remaining(linearized) : j < entry => isCall(j) /\ Hopeless(linearized, state, history[j].id)
    <3>1. L + 1 \in 0..Len(calls)
      BY <1>4
    <3>2. done(calls, L + 1) = linearized
      BY <1>6, <1>7
    <3>. QED  BY <3>1, <3>2, <1>2, <1>6 DEF Tried
  <2>. QED  BY <2>1, <1>1, <1>2, <1>3, DeadEnd
<1>12. Tried(cs, st, entry')
  <2>. SUFFICES ASSUME NEW k \in 0..L, NEW j \in remaining(done(cs, k)), j < place(cs, entry', k)
                PROVE  isCall(j) /\ Hopeless(done(cs, k), at(cs, st, k), history[j].id)
    BY DEF Tried
  <2>0. k \in 0..Len(calls)
    BY <1>4
  <2>1. ASSUME j < place(cs, e, k)
        PROVE  isCall(j) /\ Hopeless(done(cs, k), at(cs, st, k), history[j].id)
    <3>1. done(calls, k) = done(cs, k) /\ at(calls, state, k) = at(cs, st, k)
          /\ place(calls, entry, k) = place(cs, e, k)
      BY <1>6
    <3>. QED  BY <2>0, <2>1, <3>1, <1>2 DEF Tried
  <2>2. CASE k < L
    <3>1. place(cs, entry', k) = place(cs, e, k)
      BY <2>2 DEF place
    <3>. QED  BY <3>1, <2>1
  <2>3. CASE k = L
    <3>1. place(cs, entry', k) = entry' /\ place(cs, e, k) = e /\ at(cs, st, k) = st /\ done(cs, k) = S
      BY <2>3, <1>4 DEF place, at
    <3>2. j \in R /\ j < entry'
      BY <3>1
    <3>3. CASE j < e
      BY <3>1, <3>3, <2>1
    <3>4. CASE j = e
      <4>1. Hopeless(S, st, o)
        BY Zenon, <1>5, <1>7, <1>11 DEF Hopeless
      <4>. QED  BY <3>1, <3>4, <4>1, <1>5
    <3>5. j < e \/ j = e
      <4>. HIDE DEF R, e
      <4>. QED  BY <3>2, <1>9, <1>10
    <3>. QED  BY <3>3, <3>4, <3>5
  <2>. QED  BY <2>2, <2>3, <1>4
<1>13. Cached(cache, cs, st)
  <2>1. ASSUME NEW x \in cache
        PROVE  \/ ~Completable(x[1], x[2])
               \/ \E k \in 1..L : x = <<done(cs, k), at(cs, st, k)>>
    <3>1. \/ ~Completable(x[1], x[2])
          \/ \E k \in 1..Len(calls) : x = <<done(calls, k), at(calls, state, k)>>
      BY <1>2 DEF Cached
    <3>2. ASSUME NEW k \in 1..Len(calls), x = <<done(calls, k), at(calls, state, k)>>
          PROVE  \/ ~Completable(x[1], x[2])
                 \/ \E i \in 1..L : x = <<done(cs, i), at(cs, st, i)>>
      <4>1. CASE k = L + 1
        <5>1. x[1] = linearized /\ x[2] = state
          BY <3>2, <4>1, <1>6, <1>7
        <5>. QED  BY <5>1, <1>11
      <4>2. CASE k \in 1..L
        <5>1. k \in 0..L
          BY <4>2
        <5>. QED  BY <5>1, <4>2, <3>2, <1>6
      <4>3. k = L + 1 \/ k \in 1..L
        BY <1>4
      <4>. QED  BY <4>1, <4>2, <4>3
    <3>. QED  BY <3>1, <3>2
  <2>. QED  BY <2>1, <1>2 DEF Cached
<1>14. /\ Chain(calls', state') /\ linearized' = done(calls', Len(calls'))
       /\ ListOK(next', prev', calls') /\ Tried(calls', state', entry')
       /\ Cached(cache', calls', state') /\ entry' \in remaining(linearized')
  BY Zenon, <1>1, <1>5, <1>7, <1>8, <1>10, <1>12, <1>13
<1>. QED  BY <1>1, <1>2, <1>14, SearchNext

\* The other steps leave the search where it is.
LEMMA SearchSame ==
  ASSUME SearchInv,
         UNCHANGED <<port, ops, history, next, prev, entry, calls, linearized, cache, state>>
  PROVE  SearchInv'
<1>1. /\ HistoryInv /\ Chain(calls', state') /\ linearized' = done(calls', Len(calls'))
      /\ ListOK(next', prev', calls') /\ Tried(calls', state', entry') /\ Cached(cache', calls', state')
      /\ remaining(linearized') # {} => entry' \in remaining(linearized')
  BY DEF SearchInv
<1>. QED  BY <1>1, SearchNext

\* The search starts with the whole list.
LEMMA SearchInit ==
  ASSUME Init
  PROVE  SearchInv
<1>1. HistoryInv
  BY HistoryInit
<1>. DEFINE N == Len(history)
<1>2. /\ next = [k \in 0..N |-> IF k = N THEN nil ELSE k + 1]
      /\ prev = [k \in 0..N |-> k - 1]
      /\ entry = IF history = <<>> THEN nil ELSE 1
      /\ calls = <<>> /\ linearized = {} /\ cache = {} /\ state = init
  BY DEF Init
<1>3. N \in Nat /\ nodes = 1..N /\ DOMAIN history = 1..N
  BY <1>1 DEF HistoryInv, nodes
<1>12. entry = IF N = 0 THEN nil ELSE 1
  <2>1. history = <<>> <=> N = 0
    BY <1>3
  <2>. QED  BY <2>1, <1>2
<1>. HIDE DEF N
<1>4. Len(calls) = 0 /\ calls \in Seq(Frame) /\ init \in States
  BY <1>2, EmptySeq DEF States, init
<1>5. done(calls, 0) = {} /\ remaining({}) = 1..N
  BY <1>3 DEF done, remaining
<1>6. at(calls, state, 0) = init /\ place(calls, entry, 0) = entry
  BY <1>2, <1>4 DEF at, place
<1>7. Chain(calls, state)
  BY <1>2, <1>4, <1>6 DEF Chain
<1>8. ListOK(next, prev, calls)
  <2>1. next \in [0..N -> Int] /\ prev \in [0..N -> Int]
    BY <1>2, <1>3 DEF nil
  <2>2. ASSUME NEW k \in (1..N) \cup {0} PROVE Follows(1..N, k, next[k])
    <3>1. k \in 0..N /\ next[k] = IF k = N THEN nil ELSE k + 1
      BY <1>2, <1>3
    <3>2. CASE k = N
      BY <3>1, <3>2, <1>3 DEF Follows
    <3>3. CASE k # N
      BY <3>1, <3>3, <1>3 DEF Follows
    <3>. QED  BY <3>2, <3>3
  <2>3. ASSUME NEW k \in 1..N PROVE Precedes(1..N, k, prev[k])
    <3>1. k \in 0..N /\ prev[k] = k - 1
      BY <1>2, <1>3
    <3>. QED  BY <3>1, <1>3 DEF Precedes
  <2>4. Linked(next, prev, 1..N)
    BY <2>2, <2>3 DEF Linked
  <2>. QED  BY <2>1, <2>4, <1>4, <1>5 DEF ListOK, N
<1>9. remaining({}) # {} => entry \in remaining({})
  BY <1>3, <1>5, <1>12
<1>10. Tried(calls, state, entry)
  <2>1. \A j \in 1..N : ~(j < entry)
    BY <1>12, <1>3 DEF nil
  <2>2. \A k \in 0..Len(calls) : k = 0
    BY <1>4
  <2>. QED  BY Zenon, <2>1, <2>2, <1>5, <1>6 DEF Tried
<1>11. Cached(cache, calls, state)
  BY <1>2 DEF Cached
<1>. QED  BY <1>1, <1>2, <1>4, <1>5, <1>7, <1>8, <1>9, <1>10, <1>11 DEF SearchInv

\* What is linearized can happen in its order, and the order respects time.
LEMMA StackIsLinearization ==
  ASSUME SearchInv
  PROVE  /\ ids(calls) \in [1..Len(calls) -> DOMAIN ops]
         /\ Range(ids(calls)) = linearized
         /\ \A j, k \in 1..Len(calls) : ids(calls)[j] = ids(calls)[k] => j = k
         /\ respectsTime(ids(calls)) /\ run(ids(calls)).ok
<1>. DEFINE L == Len(calls)
            q == ids(calls)
<1>1. calls \in Seq(Frame) /\ L \in Nat /\ DOMAIN calls = 1..L
  <2>1. calls \in Seq(Frame)
    BY DEF SearchInv, Chain
  <2>. QED  BY <2>1
<1>2. q = [k \in 1..L |-> op(calls, k)] /\ DOMAIN q = 1..L /\ \A k \in 1..L : q[k] = op(calls, k)
  BY <1>1 DEF ids, op
<1>. HIDE DEF q
<1>3. \A k \in 1..L : op(calls, k) \in DOMAIN ops
  <2>1. L \in 0..L
    BY <1>1
  <2>2. done(calls, L) \in SUBSET DOMAIN ops
    BY <1>1, <2>1, DoneType DEF SearchInv
  <2>. QED  BY <2>2 DEF done
<1>4. q \in [1..L -> DOMAIN ops]
  BY <1>2, <1>3
<1>5. Range(q) = linearized
  BY <1>2 DEF Range, SearchInv, done
<1>6. ASSUME NEW j \in 1..L, NEW k \in 1..L, q[j] = q[k], j < k
      PROVE  FALSE
  <2>1. op(calls, k) \notin done(calls, k - 1)
    BY DEF SearchInv, Chain
  <2>2. j \in 1..(k - 1)
    BY <1>6, <1>1
  <2>. QED  BY <2>1, <2>2, <1>2, <1>6 DEF done
<1>7. \A j, k \in 1..L : q[j] = q[k] => j = k
  <2>1. \A j, k \in 1..L : j < k \/ k < j \/ j = k
    BY <1>1
  <2>. QED  BY <2>1, <1>6
<1>8. respectsTime(q)
  <2>. SUFFICES ASSUME NEW k \in 1..L, NEW o \in DOMAIN ops, before(o, q[k])
                PROVE  \E j \in 1..(k - 1) : q[j] = o
    BY <1>2 DEF respectsTime
  <2>1. isCall(calls[k].entry) /\ HistoryInv
    BY DEF SearchInv, Chain
  <2>2. calls[k].entry = callAt(q[k]) /\ q[k] \in DOMAIN ops
    BY Zenon, <2>1, <1>2, <1>3, CallFacts DEF op
  <2>3. returnAt(o) < callAt(q[k]) /\ returnAt(o) \in nodes /\ history[returnAt(o)].id = o
        /\ history[returnAt(o)].kind = "return"
    BY <2>1, <2>2 DEF HistoryInv
  <2>4. k - 1 \in 0..L /\ k - 1 < L /\ (k - 1) + 1 = k
    BY <1>1
  <2>5. place(calls, entry, k - 1) = callAt(q[k])
    BY <2>2, <2>4 DEF place
  <2>6. o \in done(calls, k - 1)
    <3>1. ASSUME o \notin done(calls, k - 1) PROVE FALSE
      <4>1. returnAt(o) \in remaining(done(calls, k - 1))
        BY <3>1, <2>3 DEF remaining
      <4>2. isCall(returnAt(o))
        BY Zenon, <4>1, <2>3, <2>4, <2>5 DEF SearchInv, Tried
      <4>. QED  BY <4>2, <2>3 DEF isCall
    <3>. QED  BY <3>1
  <2>7. PICK j \in 1..(k - 1) : o = op(calls, j)
    BY <2>6 DEF done
  <2>8. j \in 1..L
    BY <1>1
  <2>. QED  BY <2>7, <2>8, <1>2
<1>9. run(q).ok
  <2>. DEFINE g == [k \in 0..L |-> at(calls, state, k)]
  <2>1. g[0] = init
    BY <1>1 DEF SearchInv, Chain
  <2>2. ASSUME NEW k \in 1..L
        PROVE  Step(g[k - 1], ops[q[k]].op).ok /\ g[k] = Step(g[k - 1], ops[q[k]].op).state
    <3>1. k - 1 \in 0..L /\ k - 1 < L /\ (k - 1) + 1 = k /\ k \in 0..L
      BY <1>1
    <3>2. g[k - 1] = calls[k].state /\ g[k] = at(calls, state, k)
      BY <3>1 DEF at
    <3>3. Step(calls[k].state, ops[op(calls, k)].op).ok
          /\ at(calls, state, k) = Step(calls[k].state, ops[op(calls, k)].op).state
      BY DEF SearchInv, Chain
    <3>. HIDE DEF g
    <3>. QED  BY Zenon, <3>2, <3>3, <1>2
  <2>3. Runs(q, L, init, g)
    <3>. HIDE DEF g
    <3>. QED  BY Zenon, <2>1, <2>2 DEF Runs
  <2>4. Len(q) = L
    BY <1>1, <1>4
  <2>. QED  BY <2>3, <2>4, <1>1, RunOfRuns
<1>. QED  BY <1>4, <1>5, <1>7, <1>8, <1>9 DEF q

\* When nothing is left, it is a linearization of the history.
LEMMA Success ==
  ASSUME SearchInv, next[0] = nil
  PROVE  Linearizable /\ linearized = DOMAIN ops
<1>. DEFINE L == Len(calls)
            N == Len(ops)
            q == ids(calls)
<1>1. HistoryInv /\ L \in Nat /\ N \in Nat /\ DOMAIN ops = 1..N
  <2>1. HistoryInv /\ Chain(calls, state)
    BY DEF SearchInv
  <2>2. calls \in Seq(Frame)
    BY <2>1 DEF Chain
  <2>3. N \in Nat /\ DOMAIN ops = 1..N
    BY <2>1 DEF HistoryInv
  <2>. QED  BY <2>1, <2>2, <2>3
<1>2. remaining(linearized) = {}
  <2>1. Follows(remaining(linearized), 0, nil)
    <3>1. ListOK(next, prev, calls) /\ linearized = done(calls, Len(calls))
      BY DEF SearchInv
    <3>. QED  BY <3>1 DEF ListOK, Linked
  <2>2. remaining(linearized) \subseteq Nat \ {0}
    BY <1>1, RemainingNat
  <2>. QED  BY <2>1, <2>2 DEF Follows, nil
<1>3. /\ q \in [1..L -> 1..N] /\ Range(q) = linearized
      /\ \A j, k \in 1..L : q[j] = q[k] => j = k
      /\ respectsTime(q) /\ run(q).ok
  BY <1>1, StackIsLinearization
<1>. HIDE DEF q, L
<1>4. linearized = DOMAIN ops
  <2>1. \A o \in DOMAIN ops : o \in linearized
    BY Zenon, <1>1, <1>2, RemainingFacts
  <2>2. linearized \subseteq DOMAIN ops
    BY <1>1, <1>3 DEF Range
  <2>. QED  BY <2>1, <2>2
<1>5. q \in Injection(1..L, 1..N) /\ q \in Surjection(1..L, 1..N)
  <2>1. \A t \in 1..N : \E k \in 1..L : q[k] = t
    BY <1>1, <1>3, <1>4 DEF Range
  <2>. QED  BY <2>1, <1>3 DEF Injection, Surjection, IsInjective
<1>6. L = N
  <2>1. IsFiniteSet(1..L) /\ IsFiniteSet(1..N) /\ Cardinality(1..L) = L /\ Cardinality(1..N) = N
    <3>1. /\ IsFiniteSet(1..L) /\ IsFiniteSet(1..N)
          /\ Cardinality(1..L) = IF 1 > L THEN 0 ELSE L - 1 + 1
          /\ Cardinality(1..N) = IF 1 > N THEN 0 ELSE N - 1 + 1
      BY <1>1, FS_Interval
    <3>. QED  BY <3>1, <1>1
  <2>2. Cardinality(1..L) <= Cardinality(1..N)
    BY <1>5, <2>1, FS_Injection
  <2>3. Cardinality(1..N) <= Cardinality(1..L)
    BY <1>5, <2>1, FS_Surjection
  <2>. QED  BY <2>1, <2>2, <2>3, <1>1
<1>7. q \in Bijection(DOMAIN ops, DOMAIN ops)
  BY <1>1, <1>5, <1>6 DEF Bijection
<1>8. Linearizable
  BY Zenon, <1>3, <1>7 DEF Linearizable
<1>. QED  BY <1>4, <1>8

\* A linearization completes the empty stack.
LEMMA LinearizableCompletes ==
  ASSUME HistoryInv, Linearizable
  PROVE  Completable({}, init)
<1>. DEFINE N == Len(ops)
<1>1. N \in Nat /\ DOMAIN ops = 1..N /\ \A o \in DOMAIN ops : ops[o].op \in Op
  BY DEF HistoryInv
<1>2. PICK q \in Bijection(1..N, 1..N) : respectsTime(q) /\ run(q).ok
  BY <1>1 DEF Linearizable
<1>3. /\ q \in [1..N -> 1..N] /\ \A j, k \in 1..N : q[j] = q[k] => j = k
      /\ \A t \in 1..N : \E k \in 1..N : q[k] = t
  BY DEF Bijection, Injection, Surjection, IsInjective
<1>4. Len(q) = N /\ \A k \in 1..N : ops[q[k]].op \in Op
  BY <1>1, <1>3
<1>5. PICK g \in [0..N -> States] : Runs(q, N, init, g)
  BY <1>1, <1>2, <1>4, RunsOfRun
<1>6. \A k \in 1..N : \A o \in DOMAIN ops :
         before(o, q[k]) => o \in {} \/ \E j \in 1..(k - 1) : q[j] = o
  BY Zenon, <1>2, <1>3 DEF respectsTime
<1>7. \A o \in DOMAIN ops : o \notin {} <=> \E k \in 1..N : q[k] = o
  BY <1>1, <1>3
<1>8. q \in [1..N -> DOMAIN ops]
  BY <1>1, <1>3
<1>. HIDE DEF N
<1>. QED  BY Zenon, <1>1, <1>3, <1>5, <1>6, <1>7, <1>8 DEF Completable

\* When there is nothing to take back, there is no linearization.
LEMMA Failure ==
  ASSUME SearchInv, loops, ~isCall(entry), calls = <<>>
  PROVE  ~Linearizable
<1>1. entry \in remaining(linearized) /\ HistoryInv
  BY LoopFacts DEF SearchInv
<1>2. Len(calls) = 0 /\ linearized = {} /\ done(calls, 0) = {}
  <2>1. Len(calls) = 0 /\ done(calls, 0) = {}
    BY DEF done
  <2>. QED  BY <2>1 DEF SearchInv
<1>3. at(calls, state, 0) = init /\ place(calls, entry, 0) = entry
  <2>1. Chain(calls, state)
    BY DEF SearchInv
  <2>2. at(calls, state, 0) = init
    BY <2>1 DEF Chain
  <2>3. place(calls, entry, 0) = entry
    BY <1>2 DEF place
  <2>. QED  BY <2>2, <2>3
<1>4. \A j \in remaining({}) : j < entry => isCall(j) /\ Hopeless({}, init, history[j].id)
  <2>1. 0 \in 0..Len(calls)
    BY <1>2
  <2>. QED  BY <2>1, <1>2, <1>3 DEF SearchInv, Tried
<1>5. ~Completable({}, init)
  BY <1>1, <1>2, <1>4, DeadEnd
<1>. QED  BY <1>1, <1>5, LinearizableCompletes

-----------------------------------------------------------------------------
(* The answers.                                                            *)

\* What is right of the history stays right.
LEMMA SameHistory ==
  ASSUME UNCHANGED <<port, ops>>
  PROVE  /\ Linearizable' <=> Linearizable
         /\ \A seq : respectsTime(seq)' <=> respectsTime(seq)
         /\ \A seq : run(seq)' = run(seq)
<1>1. \A seq : respectsTime(seq)' <=> respectsTime(seq)
  BY DEF respectsTime, before
<1>2. \A seq : run(seq)' = run(seq)
  BY DEF run
<1>3. Linearizable' <=> Linearizable
  BY <1>1, <1>2 DEF Linearizable
<1>. QED  BY <1>1, <1>2, <1>3

\* A partial linearization that may be reported for operation o.
Partial(o, seq) ==
  seq # <<>> => o \in Range(seq) /\ respectsTime(seq) /\ run(seq).ok

\* A step that records partial linearizations only.
LEMMA LongestKept ==
  ASSUME UNCHANGED <<port, ops>>, \A o \in DOMAIN ops : Partial(o, longest'[o])
  PROVE  LongestIsLinearization'
<1>1. \A o \in DOMAIN ops : longest'[o] # <<>> =>
        o \in Range(longest'[o]) /\ respectsTime(longest'[o]) /\ run(longest'[o]).ok
  BY DEF Partial
<1>2. \A o \in DOMAIN ops : (respectsTime(longest[o])' <=> respectsTime(longest'[o]))
                            /\ (run(longest[o]))' = run(longest'[o])
  BY DEF respectsTime, before, run
<1>. QED  BY <1>1, <1>2 DEF LongestIsLinearization

\* A step that records nothing.
LEMMA LongestSame ==
  ASSUME LongestIsLinearization, UNCHANGED <<port, ops, longest>>
  PROVE  LongestIsLinearization'
<1>1. \A o \in DOMAIN ops : Partial(o, longest'[o])
  BY DEF LongestIsLinearization, Partial
<1>. QED  BY <1>1, LongestKept

\* What backtrack records contains the operation it is recorded for,
LEMMA BacktrackRecords ==
  ASSUME SearchInv, LongestIsLinearization, backtrack
  PROVE  LongestIsLinearization'
<1>1. UNCHANGED <<port, ops>> /\ longest' = [o \in DOMAIN ops |-> recorded(o)]
  BY DEF backtrack, input
<1>2. respectsTime(ids(calls)) /\ run(ids(calls)).ok
  BY StackIsLinearization
<1>3. ASSUME NEW o \in DOMAIN ops
      PROVE  Partial(o, recorded(o))
  BY <1>2 DEF recorded, Partial, LongestIsLinearization
<1>4. \A o \in DOMAIN ops : longest'[o] = recorded(o)
  BY <1>1
<1>. QED  BY <1>1, <1>3, <1>4, LongestKept

\* and what succeed records has every operation.
LEMMA SucceedRecords ==
  ASSUME SearchInv, LongestIsLinearization, succeed
  PROVE  LongestIsLinearization'
<1>1. /\ UNCHANGED <<port, ops>> /\ next[0] = nil
      /\ longest' = [o \in DOMAIN ops |-> IF verbose THEN ids(calls) ELSE longest[o]]
  BY DEF succeed, answer, input
<1>2. respectsTime(ids(calls)) /\ run(ids(calls)).ok /\ Range(ids(calls)) = DOMAIN ops
  BY <1>1, StackIsLinearization, Success
<1>3. ASSUME NEW o \in DOMAIN ops
      PROVE  Partial(o, longest'[o])
  BY <1>1, <1>2 DEF Partial, LongestIsLinearization
<1>. QED  BY <1>1, <1>3, LongestKept

-----------------------------------------------------------------------------
(* The collecting thread.                                                  *)

TypesInv ==
  /\ port \in {"go", "rust"} /\ verbose \in BOOLEAN /\ kill \in BOOLEAN
  /\ result \in {"absent", "running", "true", "false"}
  /\ result = "absent" <=> ops = <<>>
  /\ other \in [pc : {"absent", "running", "done"}, legal : BOOLEAN]
  /\ other.pc = "absent" => other.legal
  /\ results \in Seq(BOOLEAN)
  /\ main \in [pc : {"wait", "join", "drain", "done"}, ok : BOOLEAN, count : Nat, timedOut : BOOLEAN]

\* The searches that have answered, and whether each of them said yes.
ended == (IF result \in {"true", "false"} THEN 1 ELSE 0) + (IF other.pc = "done" THEN 1 ELSE 0)
allYes == result # "false" /\ (other.pc = "done" => other.legal)
right == Linearizable /\ other.legal

\* An answer is in the channel or was taken.  A no that was looked at, or that
\* will be, is right: nobody has told the searches to stop before it is taken.
\* Without a no, and unless time is up, every search said yes.
CollectInv ==
  /\ main.count + Len(results) = ended
  /\ kill \/ main.timedOut => main.pc # "wait"
  /\ ~main.ok => ~right
  /\ main.pc = "wait" /\ (\E i \in 1..Len(results) : results[i] = FALSE) => ~right
  /\ ~main.timedOut /\ main.ok /\ (\A i \in 1..Len(results) : results[i] = TRUE) => allYes
  /\ main.pc # "wait" /\ ~main.timedOut /\ (main.ok \/ main.pc = "drain") => main.count = partition
  /\ main.pc = "drain" => verbose
  /\ main.pc = "done" /\ (port = "rust" \/ verbose) => result # "running" /\ other.pc # "running"

CheckInv ==
  SearchInv /\ ResultIsLinearizability /\ LongestIsLinearization /\ TypesInv /\ CollectInv

\* All searches have ended once all have answered.
LEMMA AllEnded ==
  ASSUME TypesInv
  PROVE  /\ ended \in Nat /\ partition \in Nat /\ ended <= partition
         /\ ended >= partition => result # "running" /\ other.pc # "running"
<1>1. /\ result \in {"absent", "running", "true", "false"}
      /\ result = "absent" <=> ops = <<>>
      /\ other.pc \in {"absent", "running", "done"}
  BY DEF TypesInv
<1>. QED  BY <1>1 DEF ended, partition

\* The answer of the search, if it is right.
LEMMA AnswerKeeps ==
  ASSUME TypesInv, CollectInv, ResultIsLinearizability, NEW b \in BOOLEAN, result = "running",
         result' = IF b THEN "true" ELSE "false", results' = Append(results, b),
         b => Linearizable, ~b /\ ~kill => ~Linearizable,
         UNCHANGED <<port, verbose, ops, kill, other, main>>
  PROVE  TypesInv' /\ CollectInv' /\ ResultIsLinearizability'
<1>1. Linearizable' <=> Linearizable
  BY SameHistory
<1>2. ResultIsLinearizability'
  <2>1. b = TRUE \/ b = FALSE
    OBVIOUS
  <2>2. CASE b = TRUE
    BY <2>2, <1>1 DEF ResultIsLinearizability
  <2>3. CASE b = FALSE
    BY <2>3, <1>1 DEF ResultIsLinearizability
  <2>. QED  BY Zenon, <2>1, <2>2, <2>3
<1>3. /\ results' \in Seq(BOOLEAN) /\ Len(results) \in Nat /\ Len(results') = Len(results) + 1
      /\ results'[Len(results) + 1] = b
      /\ \A i \in 1..Len(results) : results'[i] = results[i]
  <2>1. results \in Seq(BOOLEAN)
    BY DEF TypesInv
  <2>2. /\ Append(results, b) \in Seq(BOOLEAN) /\ Len(results) \in Nat
        /\ Len(Append(results, b)) = Len(results) + 1
        /\ Append(results, b)[Len(results) + 1] = b
        /\ \A k \in 1..Len(results) : Append(results, b)[k] = results[k]
    BY <2>1, Push
  <2>. QED  BY <2>2
<1>4. result' \in {"true", "false"} /\ (result' = "false" <=> b = FALSE)
  BY Zenon
<1>5. TypesInv'
  BY <1>3, <1>4 DEF TypesInv
<1>6. main'.count + Len(results') = ended'
  <2>1. ended' = ended + 1 /\ ended \in Nat
    BY <1>4 DEF ended, TypesInv
  <2>2. main.count \in Nat /\ main.count + Len(results) = ended
    BY DEF TypesInv, CollectInv
  <2>. QED  BY <2>1, <2>2, <1>3
<1>7. right' <=> right
  BY <1>1 DEF right
<1>8. \A i \in 1..Len(results') : i \in 1..Len(results) \/ i = Len(results) + 1
  BY <1>3
<1>9. main'.pc = "wait" /\ (\E i \in 1..Len(results') : results'[i] = FALSE) => ~right'
  <2>. SUFFICES ASSUME main.pc = "wait", NEW i \in 1..Len(results'), results'[i] = FALSE
                PROVE  ~right
    BY Zenon, <1>7
  <2>1. CASE i \in 1..Len(results)
    BY <2>1, <1>3 DEF CollectInv
  <2>2. CASE i = Len(results) + 1
    <3>1. b = FALSE /\ ~kill
      BY <2>2, <1>3 DEF CollectInv
    <3>. QED  BY <3>1 DEF right
  <2>. QED  BY <1>8, <2>1, <2>2
<1>10. ~main'.timedOut /\ main'.ok /\ (\A i \in 1..Len(results') : results'[i] = TRUE) => allYes'
  <2>. SUFFICES ASSUME ~main.timedOut, main.ok, \A i \in 1..Len(results') : results'[i] = TRUE
                PROVE  allYes'
    BY Zenon
  <2>1. \A i \in 1..Len(results) : i \in 1..Len(results')
    BY <1>3
  <2>2. \A i \in 1..Len(results) : results[i] = TRUE
    BY <2>1, <1>3
  <2>3. allYes
    BY <2>2 DEF CollectInv
  <2>4. Len(results) + 1 \in 1..Len(results')
    BY <1>3
  <2>5. b = TRUE
    BY <2>4, <1>3
  <2>. QED  BY <2>3, <2>5, <1>4 DEF allYes
<1>11. partition' = partition
  BY DEF partition
<1>12. result' # "running"
  BY <1>4
<1>13. CollectInv'
  <2>1. (main.pc = "done" /\ (port = "rust" \/ verbose) => result # "running" /\ other.pc # "running")'
    BY <1>12 DEF CollectInv
  <2>. QED  BY <2>1, <1>6, <1>7, <1>9, <1>10, <1>11 DEF CollectInv
<1>. QED  BY <1>2, <1>5, <1>13

\* The answer of the other search.
LEMMA OtherKeeps ==
  ASSUME TypesInv, CollectInv, ResultIsLinearizability, checkOther
  PROVE  TypesInv' /\ CollectInv' /\ ResultIsLinearizability'
<1>. DEFINE b == other.legal /\ ~kill
<1>0. /\ other.pc = "running" /\ other' = [other EXCEPT !.pc = "done"]
      /\ results' = Append(results, b)
      /\ UNCHANGED <<port, verbose, ops, kill, result, main>>
  BY DEF checkOther, input
<1>. HIDE DEF b
<1>01. b \in BOOLEAN /\ (b = TRUE => other.legal) /\ (b = FALSE /\ ~kill => ~other.legal)
  BY DEF b
<1>02. other'.pc = "done" /\ other'.legal = other.legal
       /\ other' \in [pc : {"absent", "running", "done"}, legal : BOOLEAN]
  BY <1>0 DEF TypesInv
<1>1. Linearizable' <=> Linearizable
  BY <1>0, SameHistory
<1>2. ResultIsLinearizability'
  BY <1>0, <1>1 DEF ResultIsLinearizability
<1>3. /\ results' \in Seq(BOOLEAN) /\ Len(results) \in Nat /\ Len(results') = Len(results) + 1
      /\ results'[Len(results) + 1] = b
      /\ \A i \in 1..Len(results) : results'[i] = results[i]
  <2>1. results \in Seq(BOOLEAN)
    BY DEF TypesInv
  <2>2. /\ Append(results, b) \in Seq(BOOLEAN) /\ Len(results) \in Nat
        /\ Len(Append(results, b)) = Len(results) + 1
        /\ Append(results, b)[Len(results) + 1] = b
        /\ \A k \in 1..Len(results) : Append(results, b)[k] = results[k]
    BY <2>1, <1>01, Push
  <2>. QED  BY <2>2, <1>0
<1>5. TypesInv'
  BY <1>0, <1>02, <1>3 DEF TypesInv
<1>6. main'.count + Len(results') = ended'
  <2>1. ended' = ended + 1 /\ ended \in Nat
    BY <1>0, <1>02 DEF ended, TypesInv
  <2>2. main.count \in Nat /\ main.count + Len(results) = ended
    BY DEF TypesInv, CollectInv
  <2>. QED  BY <2>1, <2>2, <1>0, <1>3
<1>7. right' <=> right
  BY <1>1, <1>02 DEF right
<1>8. \A i \in 1..Len(results') : i \in 1..Len(results) \/ i = Len(results) + 1
  BY <1>3
<1>9. main'.pc = "wait" /\ (\E i \in 1..Len(results') : results'[i] = FALSE) => ~right'
  <2>. SUFFICES ASSUME main.pc = "wait", NEW i \in 1..Len(results'), results'[i] = FALSE
                PROVE  ~right
    BY Zenon, <1>0, <1>7
  <2>1. CASE i \in 1..Len(results)
    BY <2>1, <1>3 DEF CollectInv
  <2>2. CASE i = Len(results) + 1
    <3>1. b = FALSE /\ ~kill
      BY <2>2, <1>3 DEF CollectInv
    <3>. QED  BY <3>1, <1>01 DEF right
  <2>. QED  BY <1>8, <2>1, <2>2
<1>10. ~main'.timedOut /\ main'.ok /\ (\A i \in 1..Len(results') : results'[i] = TRUE) => allYes'
  <2>. SUFFICES ASSUME ~main.timedOut, main.ok, \A i \in 1..Len(results') : results'[i] = TRUE
                PROVE  allYes'
    BY Zenon, <1>0
  <2>1. \A i \in 1..Len(results) : i \in 1..Len(results')
    BY <1>3
  <2>2. \A i \in 1..Len(results) : results[i] = TRUE
    BY <2>1, <1>3
  <2>3. allYes
    BY <2>2 DEF CollectInv
  <2>4. Len(results) + 1 \in 1..Len(results')
    BY <1>3
  <2>5. b = TRUE
    BY <2>4, <1>3
  <2>. QED  BY <2>3, <2>5, <1>0, <1>01, <1>02 DEF allYes
<1>11. partition' = partition
  BY <1>0, <1>02 DEF partition
<1>13. CollectInv'
  <2>1. (main.pc = "done" /\ (port = "rust" \/ verbose) => result # "running" /\ other.pc # "running")'
    BY <1>0, <1>02 DEF CollectInv
  <2>. QED  BY <2>1, <1>0, <1>6, <1>7, <1>9, <1>10, <1>11 DEF CollectInv
<1>. QED  BY <1>2, <1>5, <1>13

\* The collecting thread takes an answer.
LEMMA TakeKeeps ==
  ASSUME TypesInv, results # <<>>, results' = Tail(results)
  PROVE  /\ results' \in Seq(BOOLEAN) /\ Len(results) \in Nat \ {0} /\ Len(results') = Len(results) - 1
         /\ Head(results) \in BOOLEAN /\ Head(results) = results[1]
         /\ \A i \in 1..Len(results') : results'[i] = results[i + 1] /\ i + 1 \in 1..Len(results)
         /\ \A i \in 1..Len(results) : i = 1 \/ (i - 1 \in 1..Len(results') /\ results'[i - 1] = results[i])
<1>1. results \in Seq(BOOLEAN)
  BY DEF TypesInv
<1>2. Len(results) \in Nat \ {0}
  BY <1>1, EmptySeq
<1>3. /\ Head(results) \in BOOLEAN /\ Tail(results) \in Seq(BOOLEAN)
      /\ Len(Tail(results)) = Len(results) - 1
      /\ \A i \in 1..Len(Tail(results)) : Tail(results)[i] = results[i + 1]
  BY <1>1, HeadTailProperties
<1>4. Head(results) = results[1]
  BY <1>1
<1>5. \A i \in 1..Len(results') : i + 1 \in 1..Len(results)
  BY <1>2, <1>3
<1>6. \A i \in 1..Len(results) : i = 1 \/ (i - 1 \in 1..Len(results') /\ (i - 1) + 1 = i)
  BY <1>2, <1>3
<1>. QED  BY <1>2, <1>3, <1>4, <1>5, <1>6

\* What the steps of the collecting thread leave alone.
LEMMA SearchingSame ==
  ASSUME UNCHANGED searching
  PROVE  /\ UNCHANGED <<port, verbose, ops, result, other>>
         /\ ended' = ended /\ partition' = partition
         /\ right' <=> right
         /\ allYes' <=> allYes
<1>1. UNCHANGED <<port, verbose, ops, result, other>>
  BY DEF searching, input
<1>2. Linearizable' <=> Linearizable
  BY <1>1, SameHistory
<1>. QED  BY <1>1, <1>2 DEF ended, partition, right, allYes

\* wait_res: the thread tells the searches to stop only when it leaves.
LEMMA WaitKeeps ==
  ASSUME TypesInv, CollectInv, wait_res
  PROVE  TypesInv' /\ CollectInv'
<1>. DEFINE ok == main.ok /\ Head(results)
            leaves == (~ok /\ ~verbose) \/ main.count + 1 = partition
<1>1. /\ main.pc = "wait" /\ results # <<>> /\ results' = Tail(results)
      /\ kill' = (kill \/ (~ok /\ ~verbose))
      /\ main' = [main EXCEPT !.ok = ok, !.count = main.count + 1, !.pc = IF leaves THEN left ELSE "wait"]
      /\ UNCHANGED searching
  BY Zenon DEF wait_res
<1>2. /\ UNCHANGED <<port, verbose, ops, result, other>>
      /\ ended' = ended /\ partition' = partition /\ (right' <=> right) /\ (allYes' <=> allYes)
  BY Zenon, <1>1, SearchingSame
<1>3. /\ results' \in Seq(BOOLEAN) /\ Len(results) \in Nat \ {0} /\ Len(results') = Len(results) - 1
      /\ Head(results) \in BOOLEAN /\ Head(results) = results[1]
      /\ \A i \in 1..Len(results') : results'[i] = results[i + 1] /\ i + 1 \in 1..Len(results)
      /\ \A i \in 1..Len(results) : i = 1 \/ (i - 1 \in 1..Len(results') /\ results'[i - 1] = results[i])
  BY Zenon, <1>1, TakeKeeps
<1>4. main \in [pc : {"wait", "join", "drain", "done"}, ok : BOOLEAN, count : Nat, timedOut : BOOLEAN]
      /\ verbose \in BOOLEAN /\ kill \in BOOLEAN /\ port \in {"go", "rust"}
  BY DEF TypesInv
<1>5. /\ ok \in BOOLEAN /\ (ok = TRUE => main.ok = TRUE /\ results[1] = TRUE)
      /\ (ok = FALSE => main.ok = FALSE \/ results[1] = FALSE)
  BY Zenon, <1>3, <1>4
<1>. HIDE DEF ok
<1>6. leaves \in BOOLEAN /\ left \in {"join", "drain", "done"}
      /\ (left = "drain" => verbose) /\ (left = "join" => port = "rust")
      /\ (left = "done" => port # "rust" /\ ~verbose)
  BY <1>4 DEF left
<1>7. leaves => (~ok /\ ~verbose) \/ main.count + 1 = partition
  OBVIOUS
<1>71. ~leaves => ~(~ok /\ ~verbose)
  OBVIOUS
<1>. HIDE DEF leaves
<1>8. /\ main'.pc = (IF leaves THEN left ELSE "wait")
      /\ main'.ok = ok /\ main'.count = main.count + 1 /\ main'.timedOut = main.timedOut
      /\ main' \in [pc : {"wait", "join", "drain", "done"}, ok : BOOLEAN, count : Nat, timedOut : BOOLEAN]
  <2>. DEFINE v == IF leaves THEN left ELSE "wait"
  <2>1. v \in {"wait", "join", "drain", "done"} /\ main.count + 1 \in Nat
    BY <1>4, <1>6
  <2>2. main' = [main EXCEPT !.ok = ok, !.count = main.count + 1, !.pc = v]
    BY <1>1
  <2>. HIDE DEF v
  <2>3. /\ main'.pc = v /\ main'.ok = ok /\ main'.count = main.count + 1
        /\ main'.timedOut = main.timedOut
    BY <2>2, <1>4
  <2>4. main' \in [pc : {"wait", "join", "drain", "done"}, ok : BOOLEAN, count : Nat, timedOut : BOOLEAN]
    BY Zenon, <2>1, <2>2, <1>4, <1>5
  <2>. QED  BY <2>3, <2>4 DEF v
<1>9. TypesInv'
  <2>1. kill' \in BOOLEAN
    BY <1>1
  <2>. QED  BY <2>1, <1>2, <1>3, <1>8 DEF TypesInv
<1>10. main'.count + Len(results') = ended'
  <2>1. main.count \in Nat /\ main.count + Len(results) = ended
    BY DEF TypesInv, CollectInv
  <2>. QED  BY <2>1, <1>2, <1>3, <1>8
<1>11. ~kill /\ ~main.timedOut
  BY <1>1 DEF CollectInv
<1>12. kill' \/ main'.timedOut => main'.pc # "wait"
  <2>1. kill' <=> (~ok /\ ~verbose)
    BY Zenon, <1>1, <1>11
  <2>. QED  BY <2>1, <1>6, <1>71, <1>8, <1>11
<1>13. ~ok => ~right
  <2>1. 1 \in 1..Len(results)
    BY <1>3
  <2>2. ok = FALSE \/ ok = TRUE
    BY <1>5
  <2>3. CASE ok = FALSE
    BY <2>1, <2>3, <1>1, <1>5 DEF CollectInv
  <2>. QED  BY Zenon, <2>2, <2>3
<1>14. (\E i \in 1..Len(results') : results'[i] = FALSE) => ~right
  BY <1>1, <1>3 DEF CollectInv
<1>15. ok /\ (\A i \in 1..Len(results') : results'[i] = TRUE) => allYes
  <2>. SUFFICES ASSUME ok = TRUE, \A i \in 1..Len(results') : results'[i] = TRUE
                PROVE  allYes
    BY Zenon, <1>5
  <2>1. \A i \in 1..Len(results) : results[i] = TRUE
    BY <1>3, <1>5
  <2>. QED  BY <2>1, <1>5, <1>11 DEF CollectInv
<1>16. main'.pc # "wait" /\ ~main'.timedOut /\ (main'.ok \/ main'.pc = "drain") => main'.count = partition'
  <2>. SUFFICES ASSUME main'.pc # "wait", main'.ok \/ main'.pc = "drain"
                PROVE  main.count + 1 = partition
    BY <1>2, <1>8
  <2>1. leaves /\ main'.pc = left
    BY <1>6, <1>8
  <2>2. ok \/ verbose
    BY <2>1, <1>6, <1>8
  <2>. QED  BY <2>1, <2>2, <1>7
<1>17. main'.pc = "drain" => verbose'
  BY <1>2, <1>6, <1>8
<1>18. ~(main'.pc = "done" /\ (port' = "rust" \/ verbose'))
  BY <1>2, <1>6, <1>8
<1>19. CollectInv'
  <2>1. (~main.ok => ~right)'
    BY <1>2, <1>8, <1>13
  <2>2. (main.pc = "wait" /\ (\E i \in 1..Len(results) : results[i] = FALSE) => ~right)'
    BY <1>2, <1>14
  <2>3. (~main.timedOut /\ main.ok /\ (\A i \in 1..Len(results) : results[i] = TRUE) => allYes)'
    BY <1>2, <1>8, <1>15
  <2>. QED  BY <2>1, <2>2, <2>3, <1>10, <1>12, <1>16, <1>17, <1>18 DEF CollectInv
<1>. QED  BY <1>9, <1>19

\* timeout: the answer is no longer complete, and a no is still right.
LEMMA TimeoutKeeps ==
  ASSUME TypesInv, CollectInv, timeout
  PROVE  TypesInv' /\ CollectInv'
<1>1. /\ main.pc = "wait" /\ kill' = (kill \/ port = "go")
      /\ main' = [main EXCEPT !.timedOut = TRUE, !.pc = left]
      /\ results' = results /\ UNCHANGED searching
  BY DEF timeout
<1>2. /\ UNCHANGED <<port, verbose, ops, result, other>>
      /\ ended' = ended /\ partition' = partition /\ (right' <=> right) /\ (allYes' <=> allYes)
  BY <1>1, SearchingSame
<1>4. main \in [pc : {"wait", "join", "drain", "done"}, ok : BOOLEAN, count : Nat, timedOut : BOOLEAN]
      /\ verbose \in BOOLEAN /\ kill \in BOOLEAN /\ port \in {"go", "rust"}
  BY DEF TypesInv
<1>6. left \in {"join", "drain", "done"} /\ (left = "drain" => verbose)
      /\ (left = "done" => port # "rust" /\ ~verbose)
  BY <1>4 DEF left
<1>8. /\ main'.pc = left /\ main'.ok = main.ok /\ main'.count = main.count /\ main'.timedOut = TRUE
      /\ main' \in [pc : {"wait", "join", "drain", "done"}, ok : BOOLEAN, count : Nat, timedOut : BOOLEAN]
  BY Zenon, <1>1, <1>4, <1>6
<1>9. TypesInv'
  <2>1. kill' \in BOOLEAN
    BY <1>1
  <2>. QED  BY <2>1, <1>1, <1>2, <1>8 DEF TypesInv
<1>10. CollectInv'
  <2>1. (main.count + Len(results) = ended)'
    BY <1>1, <1>2, <1>8 DEF CollectInv
  <2>2. main'.pc # "wait" /\ main'.timedOut
    BY <1>6, <1>8
  <2>3. (~main.ok => ~right)'
    BY <1>2, <1>8 DEF CollectInv
  <2>4. (main.pc = "drain" => verbose)'
    BY <1>2, <1>6, <1>8
  <2>5. ~(main'.pc = "done" /\ (port' = "rust" \/ verbose'))
    BY <1>2, <1>6, <1>8
  <2>. QED  BY <2>1, <2>2, <2>3, <2>4, <2>5 DEF CollectInv
<1>. QED  BY <1>9, <1>10

\* drain, drained and join: the verdict is made.
LEMMA LeaveKeeps ==
  ASSUME TypesInv, CollectInv, drain \/ drained \/ join
  PROVE  TypesInv' /\ CollectInv'
<1>1. UNCHANGED searching /\ kill' = kill /\ main.pc # "wait"
  BY DEF drain, drained, join
<1>2. /\ UNCHANGED <<port, verbose, ops, result, other>>
      /\ ended' = ended /\ partition' = partition /\ (right' <=> right) /\ (allYes' <=> allYes)
  BY <1>1, SearchingSame
<1>4. main \in [pc : {"wait", "join", "drain", "done"}, ok : BOOLEAN, count : Nat, timedOut : BOOLEAN]
      /\ verbose \in BOOLEAN /\ kill \in BOOLEAN /\ port \in {"go", "rust"} /\ results \in Seq(BOOLEAN)
  BY DEF TypesInv
<1>5. CASE drain
  <2>1. /\ main.pc = "drain" /\ main.count < partition /\ results # <<>> /\ results' = Tail(results)
        /\ main' = [main EXCEPT !.count = main.count + 1]
    BY <1>5 DEF drain
  <2>2. /\ results' \in Seq(BOOLEAN) /\ Len(results) \in Nat \ {0} /\ Len(results') = Len(results) - 1
    BY <2>1, TakeKeeps
  <2>3. /\ main'.pc = "drain" /\ main'.ok = main.ok /\ main'.count = main.count + 1
        /\ main'.timedOut = main.timedOut
        /\ main' \in [pc : {"wait", "join", "drain", "done"}, ok : BOOLEAN, count : Nat, timedOut : BOOLEAN]
    BY <2>1, <1>4
  <2>4. main.timedOut
    <3>1. partition \in Nat /\ main.count \in Nat
      BY <1>4, AllEnded
    <3>2. ~main.timedOut => main.count = partition
      BY <2>1 DEF CollectInv
    <3>. QED  BY <2>1, <3>1, <3>2
  <2>5. TypesInv'
    BY <1>1, <1>2, <2>2, <2>3 DEF TypesInv
  <2>6. main'.count + Len(results') = ended'
    <3>1. main.count \in Nat /\ main.count + Len(results) = ended
      BY <1>4 DEF CollectInv
    <3>. QED  BY <3>1, <1>2, <2>2, <2>3
  <2>7. CollectInv'
    <3>1. (~main.ok => ~right)' /\ (main.pc = "drain" => verbose)'
      BY <1>2, <2>1, <2>3 DEF CollectInv
    <3>. QED  BY <3>1, <2>3, <2>4, <2>6 DEF CollectInv
  <2>. QED  BY <2>5, <2>7
<1>6. CASE drained \/ join
  <2>1. /\ main' = [main EXCEPT !.pc = "done"] /\ results' = results
        /\ \/ main.pc = "drain" /\ main.count >= partition
           \/ main.pc = "join" /\ result # "running" /\ other.pc # "running"
    BY <1>6 DEF drained, join
  <2>2. /\ main'.pc = "done" /\ main'.ok = main.ok /\ main'.count = main.count
        /\ main'.timedOut = main.timedOut
        /\ main' \in [pc : {"wait", "join", "drain", "done"}, ok : BOOLEAN, count : Nat, timedOut : BOOLEAN]
    BY <2>1, <1>4
  <2>3. result # "running" /\ other.pc # "running"
    <3>1. main.count \in Nat /\ Len(results) \in Nat /\ main.count + Len(results) = ended
      BY <1>4 DEF CollectInv
    <3>2. CASE main.count >= partition
      <4>1. partition \in Nat /\ ended \in Nat
        BY AllEnded
      <4>2. ended >= partition
        BY <4>1, <3>1, <3>2
      <4>. QED  BY <4>2, AllEnded
    <3>. QED  BY <3>2, <2>1
  <2>4. TypesInv'
    BY <1>1, <1>2, <2>1, <2>2 DEF TypesInv
  <2>5. CollectInv'
    <3>1. (main.count + Len(results) = ended)' /\ (~main.ok => ~right)'
      BY <1>2, <2>1, <2>2 DEF CollectInv
    <3>2. (~main.timedOut /\ main.ok /\ (\A i \in 1..Len(results) : results[i] = TRUE) => allYes)'
      BY <1>2, <2>1, <2>2 DEF CollectInv
    <3>3. (main.pc # "wait" /\ ~main.timedOut /\ (main.ok \/ main.pc = "drain") => main.count = partition)'
      BY <1>1, <1>2, <2>1, <2>2 DEF CollectInv
    <3>. QED  BY <3>1, <3>2, <3>3, <1>2, <2>2, <2>3 DEF CollectInv
  <2>. QED  BY <2>4, <2>5
<1>. QED  BY <1>5, <1>6

-----------------------------------------------------------------------------
(* The theorems.                                                           *)

\* The invariant holds at the start,
LEMMA CheckInit ==
  ASSUME Init
  PROVE  CheckInv
<1>1. SearchInv
  BY SearchInit
<1>2. /\ port \in {"go", "rust"} /\ verbose \in {FALSE, port = "go"}
      /\ longest = [o \in DOMAIN ops |-> <<>>]
      /\ kill = FALSE /\ result = (IF ops = <<>> THEN "absent" ELSE "running")
      /\ other \in [pc : {"absent", "running"}, legal : BOOLEAN]
      /\ other.pc = "absent" => other.legal
      /\ results = <<>>
      /\ main = [pc |-> "wait", ok |-> TRUE, count |-> 0, timedOut |-> FALSE]
  BY Zenon DEF Init
<1>3. results \in Seq(BOOLEAN) /\ Len(results) = 0
  BY <1>2, EmptySeq
<1>4. TypesInv
  <2>1. verbose \in BOOLEAN
    BY Zenon, <1>2
  <2>. QED  BY Zenon, <2>1, <1>2, <1>3 DEF TypesInv
<1>5. CollectInv
  <2>1. ended = 0 /\ allYes
    BY <1>2 DEF ended, allYes
  <2>. QED  BY <2>1, <1>2, <1>3 DEF CollectInv
<1>6. ResultIsLinearizability
  BY <1>2 DEF ResultIsLinearizability
<1>7. LongestIsLinearization
  BY <1>2 DEF LongestIsLinearization
<1>. QED  BY <1>1, <1>4, <1>5, <1>6, <1>7 DEF CheckInv

\* and every step keeps it.
LEMMA CheckNext ==
  ASSUME CheckInv, [Next]_vars
  PROVE  CheckInv'
<1>0. SearchInv /\ ResultIsLinearizability /\ LongestIsLinearization /\ TypesInv /\ CollectInv
  BY DEF CheckInv
<1>1. ASSUME UNCHANGED <<port, verbose, ops, kill, result, other, results, main>>
      PROVE  ResultIsLinearizability' /\ TypesInv' /\ CollectInv'
  <2>1. Linearizable' <=> Linearizable
    BY <1>1, SameHistory
  <2>2. ResultIsLinearizability'
    BY <1>0, <1>1, <2>1 DEF ResultIsLinearizability
  <2>3. TypesInv'
    BY <1>0, <1>1 DEF TypesInv
  <2>4. ended' = ended /\ partition' = partition /\ (right' <=> right) /\ (allYes' <=> allYes)
    BY <1>1, <2>1 DEF ended, partition, right, allYes
  <2>5. CollectInv'
    BY <1>0, <1>1, <2>4 DEF CollectInv
  <2>. QED  BY <2>2, <2>3, <2>5
<1>2. CASE linearize
  <2>1. SearchInv'
    BY <1>0, <1>2, LinearizeKeeps
  <2>2. UNCHANGED <<port, verbose, ops, longest, kill, result, other, results, main>>
    BY Zenon, <1>2 DEF linearize, input
  <2>3. LongestIsLinearization'
    BY <1>0, <2>2, LongestSame
  <2>. QED  BY <2>1, <2>2, <2>3, <1>1 DEF CheckInv
<1>3. CASE advance
  <2>1. SearchInv'
    BY <1>0, <1>3, AdvanceKeeps
  <2>2. UNCHANGED <<port, verbose, ops, longest, kill, result, other, results, main>>
    BY Zenon, <1>3 DEF advance, input
  <2>3. LongestIsLinearization'
    BY <1>0, <2>2, LongestSame
  <2>. QED  BY <2>1, <2>2, <2>3, <1>1 DEF CheckInv
<1>4. CASE backtrack
  <2>1. SearchInv' /\ LongestIsLinearization'
    BY <1>0, <1>4, BacktrackKeeps, BacktrackRecords
  <2>2. UNCHANGED <<port, verbose, ops, kill, result, other, results, main>>
    BY <1>4 DEF backtrack, input
  <2>. QED  BY <2>1, <2>2, <1>1 DEF CheckInv
<1>5. CASE giveUp \/ succeed \/ killed
  <2>1. UNCHANGED <<port, verbose, ops, history, next, prev, entry, calls, linearized, cache, state, kill,
                    other, main>>
    BY Zenon, <1>5 DEF giveUp, succeed, killed, answer, input, list
  <2>2. SearchInv'
    BY <1>0, <2>1, SearchSame
  <2>3. CASE giveUp
    <3>1. /\ loops /\ ~isCall(entry) /\ calls = <<>> /\ result = "running" /\ longest' = longest
          /\ result' = (IF FALSE THEN "true" ELSE "false") /\ results' = Append(results, FALSE)
      BY <2>3 DEF giveUp, answer, loops
    <3>2. ~Linearizable
      BY <1>0, <3>1, Failure
    <3>3. TypesInv' /\ CollectInv' /\ ResultIsLinearizability'
      BY Zenon, <1>0, <2>1, <3>1, <3>2, AnswerKeeps
    <3>4. LongestIsLinearization'
      BY <1>0, <2>1, <3>1, LongestSame
    <3>. QED  BY <2>2, <3>3, <3>4 DEF CheckInv
  <2>4. CASE succeed
    <3>1. /\ next[0] = nil /\ result = "running"
          /\ result' = (IF TRUE THEN "true" ELSE "false") /\ results' = Append(results, TRUE)
      BY Zenon, <2>4 DEF succeed, answer
    <3>2. Linearizable
      BY <1>0, <3>1, Success
    <3>3. TypesInv' /\ CollectInv' /\ ResultIsLinearizability'
      BY Zenon, <1>0, <2>1, <3>1, <3>2, AnswerKeeps
    <3>4. LongestIsLinearization'
      BY <1>0, <2>4, SucceedRecords
    <3>. QED  BY <2>2, <3>3, <3>4 DEF CheckInv
  <2>5. CASE killed
    <3>1. /\ kill /\ result = "running" /\ longest' = longest
          /\ result' = (IF FALSE THEN "true" ELSE "false") /\ results' = Append(results, FALSE)
      BY <2>5 DEF killed, answer
    <3>3. TypesInv' /\ CollectInv' /\ ResultIsLinearizability'
      BY Zenon, <1>0, <2>1, <3>1, AnswerKeeps
    <3>4. LongestIsLinearization'
      BY <1>0, <2>1, <3>1, LongestSame
    <3>. QED  BY <2>2, <3>3, <3>4 DEF CheckInv
  <2>. QED  BY <1>5, <2>3, <2>4, <2>5
<1>6. CASE checkOther
  <2>1. UNCHANGED <<port, ops, history, next, prev, entry, calls, linearized, cache, state, longest>>
    BY <1>6 DEF checkOther, input, list
  <2>2. SearchInv' /\ LongestIsLinearization'
    BY <1>0, <2>1, SearchSame, LongestSame
  <2>. QED  BY <1>0, <1>6, <2>2, OtherKeeps DEF CheckInv
<1>7. CASE collect \/ timeout
  <2>1. UNCHANGED searching /\ (kill => kill')
    <3>1. CASE wait_res
      BY Zenon, <3>1 DEF wait_res
    <3>2. CASE timeout
      BY Zenon, <3>2 DEF timeout
    <3>3. CASE drain \/ drained \/ join
      BY <3>3 DEF drain, drained, join
    <3>. QED  BY <1>7, <3>1, <3>2, <3>3 DEF collect
  <2>2. UNCHANGED <<port, ops, history, next, prev, entry, calls, linearized, cache, state, longest, result>>
    BY <2>1 DEF searching, input, list
  <2>3. SearchInv' /\ LongestIsLinearization'
    BY <1>0, <2>2, SearchSame, LongestSame
  <2>4. Linearizable' <=> Linearizable
    BY <2>2, SameHistory
  <2>5. ResultIsLinearizability'
    BY <1>0, <2>1, <2>2, <2>4 DEF ResultIsLinearizability
  <2>6. TypesInv' /\ CollectInv'
    BY <1>0, <1>7, WaitKeeps, TimeoutKeeps, LeaveKeeps DEF collect
  <2>. QED  BY <2>3, <2>5, <2>6 DEF CheckInv
<1>8. CASE UNCHANGED vars
  <2>1. UNCHANGED <<port, verbose, ops, history, next, prev, entry, calls, linearized, cache, state,
                    longest, kill, result, other, results, main>>
    BY <1>8 DEF vars, input, list
  <2>2. SearchInv' /\ LongestIsLinearization'
    BY <1>0, <2>1, SearchSame, LongestSame
  <2>. QED  BY <2>1, <2>2, <1>1 DEF CheckInv
<1>. QED  BY <1>2, <1>3, <1>4, <1>5, <1>6, <1>7, <1>8 DEF Next, checkSingle

\* So it always holds.
LEMMA CheckAlways == Spec => []CheckInv
  BY CheckInit, CheckNext, PTL DEF Spec

\* checkSingle, check_single: however the list is walked and whatever the cache
\* prunes, the search answers yes exactly for the linearizable histories; told
\* to stop it may answer no to others.
THEOREM SearchDecides == Spec => []ResultIsLinearizability
<1>1. CheckInv => ResultIsLinearizability
  BY DEF CheckInv
<1>. QED  BY <1>1, CheckAlways, PTL

\* checkSingle: every partial linearization it reports for an operation has
\* the operation, and linearizes those it has.
THEOREM ReportsLinearizations == Spec => []LongestIsLinearization
<1>1. CheckInv => LongestIsLinearization
  BY DEF CheckInv
<1>. QED  BY <1>1, CheckAlways, PTL

\* lift and unlift: the list always has exactly the entries of the operations
\* that are not linearized, in their order.
THEOREM ListRight == Spec => []ListIsRest
<1>1. ASSUME CheckInv PROVE ListIsRest
  <2>. DEFINE R == {k \in nodes : history[k].id \notin linearized}
              aft(k) == {j \in R : j > k}
  <2>0. /\ HistoryInv /\ linearized = done(calls, Len(calls)) /\ ListOK(next, prev, calls)
        /\ remaining(linearized) # {} => entry \in remaining(linearized)
    BY <1>1 DEF CheckInv, SearchInv
  <2>1. R = remaining(linearized) /\ R \subseteq Nat \ {0}
    <3>1. R = remaining(linearized)
      BY DEF remaining
    <3>. QED  BY <2>0, <3>1, RemainingNat
  <2>2. Linked(next, prev, R) /\ (R # {} => entry \in R)
    BY Zenon, <2>0, <2>1 DEF ListOK
  <2>. HIDE DEF R
  <2>3. ASSUME NEW k \in R \cup {0}
        PROVE  next[k] = IF aft(k) = {} THEN nil ELSE CHOOSE j \in aft(k) : \A i \in aft(k) : j <= i
    <3>1. Follows(R, k, next[k]) /\ k \in Nat
      BY <2>1, <2>2 DEF Linked
    <3>2. CASE next[k] = nil /\ \A j \in R : j <= k
      <4>1. aft(k) = {}
        BY <3>1, <3>2, <2>1
      <4>. QED  BY <4>1, <3>2
    <3>3. CASE next[k] \in R /\ next[k] > k /\ \A j \in R : j > k => next[k] <= j
      <4>1. next[k] \in aft(k) /\ \A i \in aft(k) : next[k] <= i
        BY <3>3
      <4>2. \A j \in aft(k) : (\A i \in aft(k) : j <= i) => j = next[k]
        BY <4>1, <2>1
      <4>. QED  BY <4>1, <4>2
    <3>. QED  BY <3>1, <3>2, <3>3 DEF Follows
  <2>4. ASSUME NEW k \in R
        PROVE  next[prev[k]] = k
    <3>1. /\ prev[k] = 0 \/ prev[k] \in R
          /\ prev[k] < k /\ \A j \in R : j < k => j <= prev[k]
      BY <2>2 DEF Linked, Precedes
    <3>2. Follows(R, prev[k], next[prev[k]])
      BY <2>2, <3>1 DEF Linked
    <3>3. prev[k] \in Nat /\ k \in Nat
      BY <2>1, <3>1
    <3>4. next[prev[k]] \in R /\ next[prev[k]] > prev[k] /\ next[prev[k]] <= k
      BY <3>1, <3>2, <3>3 DEF Follows
    <3>5. ~(next[prev[k]] < k)
      BY <3>1, <3>3, <3>4, <2>1
    <3>. QED  BY <3>3, <3>4, <3>5, <2>1
  <2>. QED  BY <2>2, <2>3, <2>4 DEF ListIsRest, R
<1>. QED  BY <1>1, CheckAlways, PTL

\* checkParallel, wait_res: what the caller is told is right, in whatever order
\* the searches end, are told to stop or run out of time.
THEOREM VerdictRight == Spec => []VerdictIsRight
<1>1. ASSUME CheckInv, main.pc = "done"
      PROVE  /\ ~main.ok => ~(Linearizable /\ other.legal)
             /\ main.ok /\ ~main.timedOut => Linearizable /\ other.legal
             /\ port = "rust" \/ verbose => result # "running" /\ other.pc # "running"
  <2>0. TypesInv /\ CollectInv /\ ResultIsLinearizability
    BY <1>1 DEF CheckInv
  <2>1. ~main.ok => ~(Linearizable /\ other.legal)
    BY <2>0 DEF CollectInv, right
  <2>2. port = "rust" \/ verbose => result # "running" /\ other.pc # "running"
    BY <1>1, <2>0 DEF CollectInv
  <2>3. ASSUME main.ok, ~main.timedOut
        PROVE  Linearizable /\ other.legal
    <3>1. main.count = partition /\ main.count + Len(results) = ended
      BY <1>1, <2>0, <2>3 DEF CollectInv
    <3>2. results \in Seq(BOOLEAN)
      BY <2>0 DEF TypesInv
    <3>3. Len(results) \in Nat /\ partition \in Nat /\ ended \in Nat /\ ended <= partition
      BY <2>0, <3>2, AllEnded
    <3>4. ended >= partition /\ Len(results) = 0
      BY <3>1, <3>3
    <3>5. result # "running" /\ other.pc # "running"
      BY <2>0, <3>4, AllEnded
    <3>6. allYes
      <4>1. \A i \in 1..Len(results) : results[i] = TRUE
        BY <3>4
      <4>. QED  BY <2>0, <2>3, <4>1 DEF CollectInv
    <3>7. other.legal
      BY <2>0, <3>5, <3>6 DEF TypesInv, allYes
    <3>8. Linearizable
      <4>1. CASE result = "true"
        BY <2>0, <4>1 DEF ResultIsLinearizability
      <4>2. CASE result = "absent"
        <5>1. ops = <<>> /\ history = <<>> /\ SearchInv
          BY Zenon, <1>1, <2>0, <4>2 DEF TypesInv, CheckInv, SearchInv, HistoryInv
        <5>2. remaining(linearized) = {}
          BY <5>1 DEF remaining, nodes
        <5>3. Follows(remaining(linearized), 0, next[0])
          <6>1. ListOK(next, prev, calls) /\ linearized = done(calls, Len(calls))
            BY <5>1 DEF SearchInv
          <6>. QED  BY <6>1 DEF ListOK, Linked
        <5>4. next[0] = nil
          BY <5>2, <5>3 DEF Follows
        <5>. QED  BY <5>1, <5>4, Success
      <4>. QED  BY <4>1, <4>2, <2>0, <3>5, <3>6 DEF TypesInv, allYes
    <3>. QED  BY <3>7, <3>8
  <2>. QED  BY <2>1, <2>2, <2>3
<1>2. CheckInv => VerdictIsRight
  BY <1>1 DEF VerdictIsRight
<1>. QED  BY <1>2, CheckAlways, PTL
=============================================================================

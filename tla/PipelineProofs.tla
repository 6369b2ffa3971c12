--------------------------- MODULE PipelineProofs ---------------------------
(***************************************************************************)
(* Proofs about recording, compiling, linting and replaying.               *)
(***************************************************************************)
EXTENDS PipelineInv, ChangesProofs, SequenceTheorems

-----------------------------------------------------------------------------
(* The account a compilation keeps: for every step the events it cites *)

\* What the first n events have become.  A finished event is nobody's source.
Rising(c) == \A k \in 1..(Len(c) - 1) : c[k] < c[k + 1]
Ledger(cites, n, tape) ==
  /\ cites \in Seq(Seq(Nat))
  /\ \A s \in DOMAIN cites : Rising(cites[s])
  /\ \A s \in DOMAIN cites : cites[s] # <<>> /\ ToSet(cites[s]) \subseteq 1..n
  /\ \A i \in 1..n : tape[i].kind # "finished" => \E s \in DOMAIN cites : i \in ToSet(cites[s])
  /\ \A s, t \in DOMAIN cites : s # t => ToSet(cites[s]) \cap ToSet(cites[t]) = {}
  /\ \A s, t \in DOMAIN cites : s < t => cites[s][1] < cites[t][1]

LEMMA LedgerSkips ==
  ASSUME NEW cites, NEW tape, NEW n \in Nat, Ledger(cites, n, tape), tape[n + 1].kind = "finished"
  PROVE  Ledger(cites, n + 1, tape)
<1>1. 1..n \subseteq 1..(n + 1) /\ \A i \in 1..(n + 1) : i \in 1..n \/ i = n + 1
  OBVIOUS
<1> QED BY <1>1 DEF Ledger

LEMMA LedgerGrows ==
  ASSUME NEW cites, NEW tape, NEW n \in Nat, Ledger(cites, n, tape),
         NEW more, more = Append(cites, <<n + 1>>)
  PROVE  Ledger(more, n + 1, tape)
<1> DEFINE k == Len(cites) + 1
<1>1. /\ cites \in Seq(Seq(Nat)) /\ DOMAIN cites = 1..Len(cites) /\ Len(cites) \in Nat
      /\ <<n + 1>> \in Seq(Nat) /\ <<n + 1>> # <<>> /\ ToSet(<<n + 1>>) = {n + 1} /\ <<n + 1>>[1] = n + 1
  BY DEF Ledger, ToSet
<1>2. /\ more \in Seq(Seq(Nat)) /\ DOMAIN more = 1..k /\ more[k] = <<n + 1>>
      /\ \A s \in 1..k : s \in DOMAIN cites \/ s = k
      /\ \A s \in DOMAIN cites : s \in 1..k /\ s < k /\ more[s] = cites[s]
  BY <1>1
<1>3. \A s \in DOMAIN cites : /\ cites[s] \in Seq(Nat) /\ cites[s] # <<>> /\ ToSet(cites[s]) \subseteq 1..n
                              /\ cites[s][1] \in ToSet(cites[s])
  <2> TAKE s \in DOMAIN cites
  <2>1. cites[s] \in Seq(Nat) /\ cites[s] # <<>> /\ ToSet(cites[s]) \subseteq 1..n
    BY <1>1 DEF Ledger
  <2>2. 1 \in DOMAIN cites[s]
    BY <2>1
  <2> QED BY <2>1, <2>2 DEF ToSet
<1>4. 1..n \subseteq 1..(n + 1) /\ n + 1 \in 1..(n + 1) /\ n + 1 \notin 1..n
      /\ \A i \in 1..(n + 1) : i \in 1..n \/ i = n + 1
  OBVIOUS
<1>5. \A s \in DOMAIN more : more[s] # <<>> /\ ToSet(more[s]) \subseteq 1..(n + 1)
  BY <1>1, <1>2, <1>3, <1>4
<1>6. \A i \in 1..(n + 1) : tape[i].kind # "finished" => \E s \in DOMAIN more : i \in ToSet(more[s])
  <2> TAKE i \in 1..(n + 1)
  <2>1. CASE i = n + 1
    BY <1>1, <1>2, <2>1
  <2>2. CASE i \in 1..n
    BY <1>2, <2>2 DEF Ledger
  <2> QED BY <1>4, <2>1, <2>2
<1>7. \A s, t \in DOMAIN more : s # t => ToSet(more[s]) \cap ToSet(more[t]) = {}
  <2> TAKE s, t \in DOMAIN more
  <2> HAVE s # t
  <2>1. CASE s \in DOMAIN cites /\ t \in DOMAIN cites
    BY <1>2, <2>1 DEF Ledger
  <2>2. ToSet(more[k]) = {n + 1} /\ n + 1 \notin 1..n
        /\ \A r \in DOMAIN cites : ToSet(more[r]) \subseteq 1..n
    BY <1>1, <1>2, <1>3, <1>4
  <2>3. CASE s = k /\ t \in DOMAIN cites
    BY ONLY <2>2, <2>3
  <2>4. CASE t = k /\ s \in DOMAIN cites
    BY ONLY <2>2, <2>4
  <2> QED BY <1>2, <2>1, <2>3, <2>4
<1>8. \A s, t \in DOMAIN more : s < t => more[s][1] < more[t][1]
  <2> TAKE s, t \in DOMAIN more
  <2> HAVE s < t
  <2>1. s \in DOMAIN cites
    BY <1>1, <1>2
  <2>2. CASE t \in DOMAIN cites
    BY <1>2, <2>1, <2>2 DEF Ledger
  <2>3. CASE t = k
    <3>1. more[s] = cites[s] /\ cites[s][1] \in ToSet(cites[s]) /\ ToSet(cites[s]) \subseteq 1..n
      BY <1>2, <1>3, <2>1
    <3>2. more[t] = <<n + 1>> /\ more[t][1] = n + 1
      BY <1>1, <1>2, <2>3
    <3>3. cites[s][1] \in 1..n
      BY ONLY <3>1
    <3> QED BY ONLY <3>1, <3>2, <3>3, n \in Nat
  <2> QED BY <1>2, <2>2, <2>3
<1>9. \A s \in DOMAIN more : Rising(more[s])
  <2>1. Rising(<<n + 1>>)
    BY DEF Rising
  <2>2. \A s \in DOMAIN cites : Rising(cites[s])
    BY DEF Ledger
  <2> QED BY ONLY <1>2, <2>1, <2>2
<1> QED BY <1>2, <1>5, <1>6, <1>7, <1>8, <1>9 DEF Ledger

LEMMA LedgerExtends ==
  ASSUME NEW cites, NEW tape, NEW n \in Nat, Ledger(cites, n, tape), NEW k \in DOMAIN cites,
         NEW more, more = [cites EXCEPT ![k] = Append(cites[k], n + 1)]
  PROVE  Ledger(more, n + 1, tape)
<1>1. /\ cites \in Seq(Seq(Nat)) /\ DOMAIN cites = 1..Len(cites) /\ Len(cites) \in Nat
  BY DEF Ledger
<1>2. ASSUME NEW c \in Seq(Nat), c # <<>>
      PROVE  /\ Append(c, n + 1) \in Seq(Nat) /\ Append(c, n + 1) # <<>>
             /\ ToSet(Append(c, n + 1)) = ToSet(c) \cup {n + 1}
             /\ Append(c, n + 1)[1] = c[1]
  <2>1. /\ Append(c, n + 1) \in Seq(Nat) /\ DOMAIN Append(c, n + 1) = 1..(Len(c) + 1)
        /\ Append(c, n + 1)[Len(c) + 1] = n + 1 /\ \A i \in 1..Len(c) : Append(c, n + 1)[i] = c[i]
        /\ Len(c) \in Nat \ {0} /\ DOMAIN c = 1..Len(c)
    BY <1>2
  <2>2. ToSet(Append(c, n + 1)) = ToSet(c) \cup {n + 1}
    <3> DEFINE d == Append(c, n + 1)
    <3>1. /\ Len(c) \in Nat /\ DOMAIN c = 1..Len(c) /\ DOMAIN d = 1..(Len(c) + 1)
          /\ d[Len(c) + 1] = n + 1 /\ \A i \in 1..Len(c) : d[i] = c[i]
      BY <2>1
    <3> HIDE DEF d
    <3>2. DOMAIN d = DOMAIN c \cup {Len(c) + 1} /\ \A i \in DOMAIN c : d[i] = c[i]
      BY ONLY <3>1
    <3>3. ToSet(d) = ToSet(c) \cup {n + 1}
      BY ONLY <3>1, <3>2 DEF ToSet
    <3> QED BY <3>3 DEF d
  <2>3. Append(c, n + 1) # <<>> /\ Append(c, n + 1)[1] = c[1]
    BY <2>1
  <2> QED BY <2>1, <2>2, <2>3
<1>3. \A s \in DOMAIN cites : /\ cites[s] \in Seq(Nat) /\ cites[s] # <<>> /\ ToSet(cites[s]) \subseteq 1..n
  BY <1>1 DEF Ledger
<1>4. /\ more \in Seq(Seq(Nat)) /\ DOMAIN more = DOMAIN cites
      /\ more[k] = Append(cites[k], n + 1) /\ \A s \in DOMAIN cites : s # k => more[s] = cites[s]
  BY <1>1, <1>2, <1>3
<1>5. /\ \A s \in DOMAIN cites : /\ more[s] # <<>> /\ more[s][1] = cites[s][1]
                                 /\ ToSet(cites[s]) \subseteq ToSet(more[s])
                                 /\ s # k => ToSet(more[s]) = ToSet(cites[s])
      /\ ToSet(more[k]) = ToSet(cites[k]) \cup {n + 1}
  BY <1>2, <1>3, <1>4
<1>6. 1..n \subseteq 1..(n + 1) /\ n + 1 \in 1..(n + 1) /\ n + 1 \notin 1..n
      /\ \A i \in 1..(n + 1) : i \in 1..n \/ i = n + 1
  OBVIOUS
<1>7. \A s \in DOMAIN more : more[s] # <<>> /\ ToSet(more[s]) \subseteq 1..(n + 1)
  BY <1>3, <1>4, <1>5, <1>6
<1>8. \A i \in 1..(n + 1) : tape[i].kind # "finished" => \E s \in DOMAIN more : i \in ToSet(more[s])
  <2> TAKE i \in 1..(n + 1)
  <2>1. CASE i = n + 1
    BY <1>4, <1>5, <2>1
  <2>2. CASE i \in 1..n
    BY <1>4, <1>5, <2>2 DEF Ledger
  <2> QED BY <1>6, <2>1, <2>2
<1>9. \A s, t \in DOMAIN more : s # t => ToSet(more[s]) \cap ToSet(more[t]) = {}
  <2> TAKE s, t \in DOMAIN more
  <2> HAVE s # t
  <2>1. ToSet(cites[s]) \cap ToSet(cites[t]) = {} /\ n + 1 \notin ToSet(cites[s]) /\ n + 1 \notin ToSet(cites[t])
    BY <1>3, <1>4, <1>6 DEF Ledger
  <2> QED BY <1>4, <1>5, <2>1
<1>10. \A s, t \in DOMAIN more : s < t => more[s][1] < more[t][1]
  BY <1>4, <1>5 DEF Ledger
<1>11. \A s \in DOMAIN more : Rising(more[s])
  <2>1. \A s \in DOMAIN cites : Rising(cites[s])
    BY DEF Ledger
  <2>2. PICK c, d : c = cites[k] /\ d = Append(c, n + 1)
    OBVIOUS
  <2>3. /\ c \in Seq(Nat) /\ c # <<>> /\ ToSet(c) \subseteq 1..n /\ Rising(c) /\ d = more[k]
    BY <1>3, <1>4, <2>1, <2>2
  <2>4. PICK L : L = Len(c)
    OBVIOUS
  <2>5. /\ L \in Nat \ {0} /\ DOMAIN c = 1..L /\ Len(d) = L + 1
        /\ d[L + 1] = n + 1 /\ \A i \in 1..L : d[i] = c[i]
    BY <2>2, <2>3, <2>4
  <2>6. \A i \in 1..L : c[i] \in 1..n
    BY ONLY <2>3, <2>5 DEF ToSet
  <2>7. ASSUME NEW i \in 1..L PROVE d[i] < d[i + 1]
    <3>1. CASE i = L
      <4>1. d[i] \in 1..n /\ d[i + 1] = n + 1
        BY ONLY <2>5, <2>6, <3>1
      <4> QED BY ONLY <4>1, n \in Nat
    <3>2. CASE i # L
      <4>1. i \in 1..(L - 1) /\ i + 1 \in 1..L
        BY ONLY <2>5, <3>2, i \in 1..L
      <4>2. c[i] < c[i + 1]
        BY ONLY <2>3, <2>4, <4>1 DEF Rising
      <4> QED BY ONLY <2>5, <4>1, <4>2, i \in 1..L
    <3> QED BY ONLY <3>1, <3>2
  <2>8. Rising(d)
    <3>1. Len(d) - 1 = L
      BY ONLY <2>5
    <3> QED BY ONLY <2>7, <3>1 DEF Rising
  <2> QED BY ONLY <1>4, <2>1, <2>3, <2>8
<1> QED BY <1>4, <1>7, <1>8, <1>9, <1>10, <1>11 DEF Ledger

-----------------------------------------------------------------------------
(* The compilation, one event after the other *)

LEMMA AcceptedIs ==
  ASSUME NEW T, NEW tape \in Seq(T), NEW acc, acc = Accepted(tape)
  PROVE  /\ acc[0] = Empty
         /\ \A n \in 1..Len(tape) : acc[n] = Accept(acc[n - 1], n, tape[n])
<1> DEFINE N == Len(tape)
           Is(f, m) == f = [n \in 0..m |-> IF n = 0 THEN Empty ELSE Accept(f[n - 1], n, tape[n])]
           S == {m \in Nat : \E f : Is(f, m)}
<1>1. 0 \in S
  <2> DEFINE f == [n \in 0..0 |-> Empty]
  <2>1. Is(f, 0)
    OBVIOUS
  <2> HIDE DEF Is, f
  <2> QED BY <2>1
<1>2. ASSUME NEW m \in Nat, m \in S PROVE m + 1 \in S
  <2>1. PICK f : Is(f, m)
    BY <1>2
  <2> DEFINE g == [n \in 0..(m + 1) |-> IF n = m + 1 THEN Accept(f[m], n, tape[n]) ELSE f[n]]
  <2>2. \A n \in 0..m : f[n] = IF n = 0 THEN Empty ELSE Accept(f[n - 1], n, tape[n])
    BY <2>1
  <2>3. \A n \in 0..(m + 1) : g[n] = IF n = 0 THEN Empty ELSE Accept(g[n - 1], n, tape[n])
    <3> TAKE n \in 0..(m + 1)
    <3>1. CASE n = m + 1
      BY <3>1
    <3>2. CASE n \in 1..m
      <4>1. n # m + 1 /\ n \in 0..m /\ n - 1 # m + 1 /\ n - 1 \in 0..(m + 1) /\ n # 0
        BY <3>2
      <4> QED BY <2>2, <4>1
    <3>3. CASE n = 0
      BY <2>2, <3>3
    <3> QED BY <3>1, <3>2, <3>3
  <2>4. g = [n \in 0..(m + 1) |-> g[n]]
    OBVIOUS
  <2> HIDE DEF g
  <2>5. Is(g, m + 1)
    BY <2>3, <2>4
  <2> HIDE DEF Is
  <2> QED BY <2>5
<1>3. Nat \subseteq S
  <2> HIDE DEF S
  <2> QED BY <1>1, <1>2, Induction
<1>4. N \in Nat
  OBVIOUS
<1>5. \E f : Is(f, N)
  <2> HIDE DEF Is, N
  <2> QED BY <1>3, <1>4
<1>6. acc = CHOOSE f : Is(f, N)
  BY DEF Accepted
<1>7. Is(acc, N)
  <2> HIDE DEF Is, N
  <2> QED BY <1>5, <1>6
<1> QED BY <1>4, <1>7

ExecOps ==
  [kind : {"exec"}, program : Seq(STRING), reads : BOOLEAN, inputs : SUBSET STRING, cites : Seq(Nat)]
\* A change as the compiler writes it.
Legible(c) ==
  /\ RecordablePaths(c)
  /\ ~Has(Name[c.path], Backslashed)
  /\ c.kind = "moved" => ~Has(Name[c.previous], Backslashed)

FileOps ==
  {o \in [kind : {"created", "modified", "deleted"}, path : Paths, previous : {NoPath},
          content : Contents \cup {Absent}, cites : Seq(Nat)]
         \cup [kind : {"moved"}, path : Paths, previous : Paths,
               content : Contents \cup {Absent}, cites : Seq(Nat)] : Legible(o)}
Ops == ExecOps \cup FileOps

Accs == [operations : Seq(Ops), index : [Paths -> Nat], open : Nat,
         error : {"none", "grouping", "path", "cancelled"}]

CitesOf(operations) == [i \in DOMAIN operations |-> operations[i].cites]

\* What the first n events of a tape have been compiled to, if none was refused.
Scanned(acc, n, tape) ==
  /\ acc \in Accs
  /\ acc.open \in 0..Len(acc.operations)
  /\ acc.open # 0 => acc.operations[acc.open] \in ExecOps
  /\ \A p \in Paths : /\ acc.index[p] \in 0..Len(acc.operations)
                      /\ acc.index[p] # 0 => acc.operations[acc.index[p]] \in FileOps
  /\ Ledger(CitesOf(acc.operations), n, tape)

Added(operations, acc, o, n, tape) ==
  /\ operations \in Seq(Ops) /\ Len(operations) = Len(acc.operations) + 1
  /\ Len(acc.operations) \in Nat
  /\ \A i \in 1..Len(acc.operations) : operations[i] = acc.operations[i]
  /\ operations[Len(acc.operations) + 1] = o
  /\ Ledger(CitesOf(operations), n + 1, tape)

LEMMA AddsOperation ==
  ASSUME NEW acc, NEW n \in Nat, NEW tape, Scanned(acc, n, tape),
         NEW o \in Ops, o.cites = <<n + 1>>, NEW operations, operations = Append(acc.operations, o)
  PROVE  Added(operations, acc, o, n, tape)
<1>1. acc.operations \in Seq(Ops) /\ Ledger(CitesOf(acc.operations), n, tape)
  BY DEF Scanned, Accs
<1>2. PICK old : old = acc.operations
  OBVIOUS
<1>3. /\ operations \in Seq(Ops) /\ Len(operations) = Len(old) + 1 /\ Len(old) \in Nat
      /\ \A i \in 1..Len(old) : operations[i] = old[i]
      /\ operations[Len(old) + 1] = o
      /\ DOMAIN old = 1..Len(old) /\ DOMAIN operations = 1..(Len(old) + 1)
  BY <1>1, <1>2
<1>4. CitesOf(operations) = Append(CitesOf(old), <<n + 1>>)
  <2> DEFINE c == CitesOf(old)
             d == CitesOf(operations)
  <2>1. /\ DOMAIN c = 1..Len(old) /\ DOMAIN d = 1..(Len(old) + 1) /\ d[Len(old) + 1] = <<n + 1>>
        /\ \A i \in 1..Len(old) : d[i] = c[i]
    BY <1>3, o.cites = <<n + 1>> DEF CitesOf
  <2>2. c \in Seq(Seq(Nat)) /\ Len(c) = Len(old)
    BY <1>1, <1>2, <1>3, <2>1 DEF Ledger
  <2>3. d = [i \in 1..(Len(old) + 1) |-> d[i]]
    BY <1>3 DEF CitesOf
  <2> HIDE DEF c, d
  <2> DEFINE e == Append(c, <<n + 1>>)
  <2>4. /\ e = [i \in 1..(Len(old) + 1) |-> e[i]]
        /\ e[Len(old) + 1] = <<n + 1>> /\ \A i \in 1..Len(old) : e[i] = c[i]
    BY ONLY <2>2
  <2> HIDE DEF e
  <2>5. \A i \in 1..(Len(old) + 1) : i \in 1..Len(old) \/ i = Len(old) + 1
    BY ONLY <1>3
  <2>6. \A i \in 1..(Len(old) + 1) : d[i] = e[i]
    BY ONLY <2>1, <2>4, <2>5
  <2>7. d = e
    BY ONLY <2>3, <2>4, <2>6
  <2> QED BY <2>7 DEF d, e, c
<1>5. Ledger(CitesOf(operations), n + 1, tape)
  <2>1. PICK c : c = CitesOf(old)
    OBVIOUS
  <2>2. Ledger(c, n, tape) /\ CitesOf(operations) = Append(c, <<n + 1>>)
    BY ONLY <1>1, <1>2, <1>4, <2>1
  <2> QED BY <2>2, LedgerGrows
<1> QED BY <1>2, <1>3, <1>5 DEF Added

Replaced(operations, acc, k, o, n, tape) ==
  /\ operations \in Seq(Ops) /\ Len(operations) = Len(acc.operations)
  /\ \A i \in 1..Len(acc.operations) : i # k => operations[i] = acc.operations[i]
  /\ operations[k] = o
  /\ Ledger(CitesOf(operations), n + 1, tape)

LEMMA ReplacesOperation ==
  ASSUME NEW acc, NEW n \in Nat, NEW tape, Scanned(acc, n, tape),
         NEW k \in 1..Len(acc.operations), NEW o \in Ops,
         o.cites = Append(acc.operations[k].cites, n + 1),
         NEW operations, operations = [acc.operations EXCEPT ![k] = o]
  PROVE  Replaced(operations, acc, k, o, n, tape)
<1>1. acc.operations \in Seq(Ops) /\ Ledger(CitesOf(acc.operations), n, tape)
  BY DEF Scanned, Accs
<1>2. PICK old : old = acc.operations
  OBVIOUS
<1>3. /\ operations \in Seq(Ops) /\ Len(operations) = Len(old) /\ Len(old) \in Nat
      /\ \A i \in 1..Len(old) : i # k => operations[i] = old[i]
      /\ operations[k] = o /\ k \in 1..Len(old)
      /\ DOMAIN old = 1..Len(old) /\ DOMAIN operations = 1..Len(old)
  BY <1>1, <1>2
<1>4. CitesOf(operations) = [CitesOf(old) EXCEPT ![k] = Append(CitesOf(old)[k], n + 1)]
  <2>1. o.cites = Append(old[k].cites, n + 1)
    BY <1>2
  <2> QED BY ONLY <1>3, <2>1 DEF CitesOf
<1>5. Ledger(CitesOf(operations), n + 1, tape)
  <2>1. PICK c : c = CitesOf(old)
    OBVIOUS
  <2>2. Ledger(c, n, tape) /\ CitesOf(operations) = [c EXCEPT ![k] = Append(c[k], n + 1)] /\ k \in DOMAIN c
    BY ONLY <1>1, <1>2, <1>3, <1>4, <2>1 DEF CitesOf
  <2> QED BY <2>2, LedgerExtends
<1> QED BY <1>2, <1>3, <1>5 DEF Replaced

LEMMA StartedScans ==
  ASSUME NEW acc, NEW n \in Nat, NEW tape, Scanned(acc, n, tape),
         NEW e \in [kind : {"started"}, program : Seq(STRING), reads : BOOLEAN, inputs : SUBSET STRING],
         acc.open = 0, NEW r, r = AcceptStarted(acc, n + 1, e)
  PROVE  Scanned(r, n + 1, tape) /\ r.error = acc.error
<1>1. PICK o : o = [kind |-> "exec", program |-> e.program, reads |-> e.reads, inputs |-> e.inputs,
                    cites |-> <<n + 1>>]
  OBVIOUS
<1>2. o \in ExecOps /\ o \in Ops /\ o.cites = <<n + 1>>
  <2>1. <<n + 1>> \in Seq(Nat)
    OBVIOUS
  <2> QED BY <1>1, <2>1 DEF ExecOps, Ops
<1>3. acc \in Accs
  BY DEF Scanned
<1>4. PICK operations : operations = Append(acc.operations, o)
  OBVIOUS
<1>5. /\ operations \in Seq(Ops) /\ Len(operations) = Len(acc.operations) + 1
      /\ Len(acc.operations) \in Nat
      /\ operations[Len(acc.operations) + 1] = o
      /\ Ledger(CitesOf(operations), n + 1, tape)
  <2>1. Added(operations, acc, o, n, tape)
    BY <1>2, <1>4, AddsOperation
  <2> QED BY ONLY <2>1 DEF Added
<1>6. PICK index : index = [p \in Paths |-> 0]
  OBVIOUS
<1>7. PICK open : open = Len(acc.operations) + 1
  OBVIOUS
<1>8. r = [acc EXCEPT !.operations = operations, !.index = index, !.open = open]
  BY <1>1, <1>4, <1>6, <1>7 DEF AcceptStarted
<1>9. index \in [Paths -> Nat] /\ (\A p \in Paths : index[p] = 0) /\ open \in Nat
  BY ONLY <1>5, <1>6, <1>7
<1>10. r \in Accs /\ r.operations = operations /\ r.index = index /\ r.open = open /\ r.error = acc.error
  BY ONLY <1>3, <1>5, <1>8, <1>9 DEF Accs
<1>11. open \in 0..Len(operations) /\ operations[open] \in ExecOps /\ 0 \in 0..Len(operations)
  BY ONLY <1>2, <1>5, <1>7
<1> QED BY ONLY <1>5, <1>9, <1>10, <1>11 DEF Scanned

LEMMA OutputScans ==
  ASSUME NEW acc, NEW n \in Nat, NEW tape, Scanned(acc, n, tape), acc.open # 0,
         NEW r, r = AcceptOutput(acc, n + 1)
  PROVE  Scanned(r, n + 1, tape) /\ r.error = acc.error
<1>1. PICK k : k = acc.open
  OBVIOUS
<1>2. /\ k \in 1..Len(acc.operations) /\ acc.operations[k] \in ExecOps /\ acc \in Accs
      /\ acc.operations \in Seq(Ops)
  BY <1>1 DEF Scanned, Accs
<1>3. PICK o : o = [acc.operations[k] EXCEPT !.cites = Append(acc.operations[k].cites, n + 1)]
  OBVIOUS
<1>4. o \in ExecOps /\ o \in Ops /\ o.cites = Append(acc.operations[k].cites, n + 1)
  <2>1. PICK x : x = acc.operations[k]
    OBVIOUS
  <2>2. PICK c : c = Append(x.cites, n + 1)
    OBVIOUS
  <2>3. x \in ExecOps /\ c \in Seq(Nat)
    BY <1>2, <2>1, <2>2 DEF ExecOps
  <2>4. o = [x EXCEPT !.cites = c]
    BY <1>3, <2>1, <2>2
  <2>5. o \in ExecOps /\ o.cites = c
    BY ONLY <2>3, <2>4 DEF ExecOps
  <2> QED BY <2>1, <2>2, <2>5 DEF Ops
<1>5. PICK operations : operations = [acc.operations EXCEPT ![k] = o]
  OBVIOUS
<1>6. /\ operations \in Seq(Ops) /\ Len(operations) = Len(acc.operations)
      /\ \A i \in 1..Len(acc.operations) : i # k => operations[i] = acc.operations[i]
      /\ operations[k] = o
      /\ Ledger(CitesOf(operations), n + 1, tape)
  <2>1. Replaced(operations, acc, k, o, n, tape)
    BY <1>2, <1>4, <1>5, ReplacesOperation
  <2> QED BY ONLY <2>1 DEF Replaced
<1>7. r = [acc EXCEPT !.operations = operations, !.open = 0]
  BY <1>1, <1>3, <1>5 DEF AcceptOutput
<1>8. /\ r \in Accs /\ r.operations = operations /\ r.index = acc.index /\ r.open = 0
      /\ r.error = acc.error
  BY ONLY <1>2, <1>6, <1>7 DEF Accs
<1>9. ASSUME NEW p \in Paths
      PROVE  /\ acc.index[p] \in 0..Len(operations)
             /\ acc.index[p] # 0 => operations[acc.index[p]] \in FileOps
  <2>1. /\ acc.index[p] \in 0..Len(acc.operations)
        /\ acc.index[p] # 0 => acc.operations[acc.index[p]] \in FileOps
    BY DEF Scanned
  <2>2. acc.operations[k] \notin FileOps
    BY <1>2 DEF ExecOps, FileOps
  <2>3. acc.index[p] # 0 => acc.index[p] \in 1..Len(acc.operations) /\ acc.index[p] # k
    BY <2>1, <2>2
  <2> QED BY <1>6, <2>1, <2>3
<1>10. Len(operations) \in Nat
  BY <1>6
<1> QED BY ONLY <1>6, <1>8, <1>9, <1>10 DEF Scanned

\* A change that may be recorded becomes an operation on a file.
LEMMA FileOperationType ==
  ASSUME NEW c \in FileChanges, Legible(c), NEW cites \in Seq(Nat)
  PROVE  FileOperation(c, cites) \in FileOps /\ FileOperation(c, cites).cites = cites
<1> DEFINE o == FileOperation(c, cites)
<1>1. o = [kind |-> c.kind, path |-> c.path, previous |-> c.previous, content |-> c.content, cites |-> cites]
  BY DEF FileOperation
<1>2. o.kind = c.kind /\ o.path = c.path /\ o.previous = c.previous /\ o.cites = cites
  BY <1>1
<1>3. Legible(o)
  BY <1>2 DEF Legible, RecordablePaths
<1>4. CASE c \in [kind : {"moved"}, path : Paths, previous : Paths, content : Contents \cup {Absent}]
  <2>1. o \in [kind : {"moved"}, path : Paths, previous : Paths,
               content : Contents \cup {Absent}, cites : Seq(Nat)]
    BY <1>1, <1>4
  <2> QED BY <1>2, <1>3, <2>1 DEF FileOps
<1>5. CASE c \in [kind : {"created", "modified", "deleted"}, path : Paths, previous : {NoPath},
                  content : Contents \cup {Absent}]
  <2>1. o \in [kind : {"created", "modified", "deleted"}, path : Paths, previous : {NoPath},
               content : Contents \cup {Absent}, cites : Seq(Nat)]
    BY <1>1, <1>5
  <2> QED BY <1>2, <1>3, <2>1 DEF FileOps
<1> QED BY <1>4, <1>5 DEF FileChanges

\* What parse_filesystem_event makes of a change.
LEMMA ParsedIs ==
  ASSUME NEW c \in FileChanges
  PROVE  /\ Parsed(c) \in FileChanges /\ Parsed(c).kind = c.kind /\ Parsed(c).content = c.content
         /\ Parsed(c).path = Written[c.path]
         /\ c.kind = "moved" => Parsed(c).previous = Written[c.previous]
<1>1. Written \in [Paths -> Paths]
  BY WrittenAssumption
<1>2. CASE c \in [kind : {"moved"}, path : Paths, previous : Paths, content : Contents \cup {Absent}]
  BY <1>1, <1>2 DEF Parsed, FileChanges
<1>3. CASE c \in [kind : {"created", "modified", "deleted"}, path : Paths, previous : {NoPath},
                  content : Contents \cup {Absent}]
  BY <1>1, <1>3 DEF Parsed, FileChanges
<1> QED BY <1>2, <1>3 DEF FileChanges

LEMMA ParsedIsLegible ==
  ASSUME NEW c \in FileChanges, RecordablePaths(c)
  PROVE  Parsed(c) \in FileChanges /\ Legible(Parsed(c))
<1>1. PICK d : d = Parsed(c)
  OBVIOUS
<1>2. /\ d \in FileChanges /\ d.kind = c.kind /\ d.path = Written[c.path]
      /\ c.kind = "moved" => d.previous = Written[c.previous]
  BY ONLY <1>1, c \in FileChanges, ParsedIs
<1>3. c.path \in Paths /\ (c.kind = "moved" => c.previous \in Paths)
  BY DEF FileChanges
<1>4. ASSUME NEW p \in Paths, Recordable(Name[p])
      PROVE  Recordable(Name[Written[p]]) /\ ~Has(Name[Written[p]], Backslashed)
  BY <1>4, WrittenAssumption
<1>5. Recordable(Name[d.path]) /\ ~Has(Name[d.path], Backslashed)
  BY <1>2, <1>3, <1>4 DEF RecordablePaths
<1>6. c.kind = "moved" => Recordable(Name[d.previous]) /\ ~Has(Name[d.previous], Backslashed)
  BY <1>2, <1>3, <1>4 DEF RecordablePaths
<1>7. Legible(d)
  BY ONLY <1>2, <1>5, <1>6 DEF Legible, RecordablePaths
<1> QED BY ONLY <1>1, <1>2, <1>7

LEMMA ChangeScans ==
  ASSUME NEW acc, NEW n \in Nat, NEW tape, Scanned(acc, n, tape),
         NEW c \in FileChanges, Legible(c), NEW r, r = AcceptChange(acc, n + 1, c)
  PROVE  Scanned(r, n + 1, tape) /\ r.error = acc.error
<1>1. /\ acc \in Accs /\ acc.operations \in Seq(Ops) /\ Len(acc.operations) \in Nat
      /\ acc.open \in 0..Len(acc.operations)
      /\ acc.open # 0 => acc.operations[acc.open] \in ExecOps
      /\ \A p \in Paths : /\ acc.index[p] \in 0..Len(acc.operations)
                          /\ acc.index[p] # 0 => acc.operations[acc.index[p]] \in FileOps
  BY DEF Scanned, Accs
<1>2. PICK k : k = acc.index[c.path]
  OBVIOUS
<1>3. c.path \in Paths
  BY DEF FileChanges
<1>4. k \in 0..Len(acc.operations) /\ (k # 0 => acc.operations[k] \in FileOps)
  BY <1>1, <1>2, <1>3
<1> DEFINE merges == k # 0 /\ c.kind # "moved" /\ acc.operations[k].kind # "moved"
<1>5. CASE merges
  <2>1. PICK o : o = FileOperation(c, Append(acc.operations[k].cites, n + 1))
    OBVIOUS
  <2>2. acc.operations[k].cites \in Seq(Nat) /\ Append(acc.operations[k].cites, n + 1) \in Seq(Nat)
    BY <1>4, <1>5 DEF FileOps
  <2>3. o \in FileOps /\ o \in Ops /\ o.cites = Append(acc.operations[k].cites, n + 1)
    BY <2>1, <2>2, FileOperationType DEF Ops
  <2>4. PICK operations : operations = [acc.operations EXCEPT ![k] = o]
    OBVIOUS
  <2>5. k \in 1..Len(acc.operations)
    BY <1>4, <1>5
  <2>6. /\ operations \in Seq(Ops) /\ Len(operations) = Len(acc.operations)
        /\ \A i \in 1..Len(acc.operations) : i # k => operations[i] = acc.operations[i]
        /\ operations[k] = o
        /\ Ledger(CitesOf(operations), n + 1, tape)
    <3>1. Replaced(operations, acc, k, o, n, tape)
      BY ONLY Scanned(acc, n, tape), n \in Nat, <2>3, <2>4, <2>5, ReplacesOperation
    <3> QED BY ONLY <3>1 DEF Replaced
  <2>7. r = [acc EXCEPT !.operations = operations]
    BY <1>2, <1>5, <2>1, <2>4 DEF AcceptChange
  <2>8. /\ r \in Accs /\ r.operations = operations /\ r.index = acc.index /\ r.open = acc.open
        /\ r.error = acc.error
    BY ONLY <1>1, <2>6, <2>7 DEF Accs
  <2>9. acc.open # 0 => acc.open # k /\ acc.open \in 1..Len(acc.operations)
    <3>1. acc.operations[k] \notin ExecOps
      BY <1>4, <1>5 DEF ExecOps, FileOps
    <3> QED BY <1>1, <3>1
  <2>10. acc.open # 0 => operations[acc.open] \in ExecOps
    BY <1>1, <2>6, <2>9
  <2>11. ASSUME NEW p \in Paths, acc.index[p] # 0
         PROVE  operations[acc.index[p]] \in FileOps
    <3>1. acc.index[p] \in 1..Len(acc.operations) /\ acc.operations[acc.index[p]] \in FileOps
      BY <1>1, <2>11
    <3> QED BY <2>3, <2>6, <3>1
  <2> QED BY ONLY <1>1, <2>6, <2>8, <2>10, <2>11 DEF Scanned
<1>6. CASE ~merges
  <2>1. PICK o : o = FileOperation(c, <<n + 1>>)
    OBVIOUS
  <2>2. <<n + 1>> \in Seq(Nat)
    OBVIOUS
  <2>3. o \in FileOps /\ o \in Ops /\ o.cites = <<n + 1>>
    BY <2>1, <2>2, FileOperationType DEF Ops
  <2>4. PICK operations : operations = Append(acc.operations, o)
    OBVIOUS
  <2>5. /\ operations \in Seq(Ops) /\ Len(operations) = Len(acc.operations) + 1
        /\ \A i \in 1..Len(acc.operations) : operations[i] = acc.operations[i]
        /\ operations[Len(acc.operations) + 1] = o
        /\ Ledger(CitesOf(operations), n + 1, tape)
    <3>1. Added(operations, acc, o, n, tape)
      BY ONLY Scanned(acc, n, tape), n \in Nat, <2>3, <2>4, AddsOperation
    <3> QED BY ONLY <3>1 DEF Added
  <2>6. r = [acc EXCEPT !.operations = operations, !.index[c.path] = Len(acc.operations) + 1]
    BY <1>2, <1>6, <2>1, <2>4 DEF AcceptChange
  <2>7. PICK index : index = [acc.index EXCEPT ![c.path] = Len(acc.operations) + 1]
    OBVIOUS
  <2>8. /\ acc.index \in [Paths -> Nat] /\ index \in [Paths -> Nat]
        /\ index[c.path] = Len(acc.operations) + 1
        /\ \A p \in Paths : p # c.path => index[p] = acc.index[p]
    BY <1>1, <1>3, <2>7 DEF Accs
  <2>9. r = [acc EXCEPT !.operations = operations, !.index = index]
    BY <2>6, <2>7
  <2>10. /\ r \in Accs /\ r.operations = operations /\ r.index = index /\ r.open = acc.open
         /\ r.error = acc.error
    BY ONLY <1>1, <2>5, <2>8, <2>9 DEF Accs
  <2>11. /\ acc.open \in 0..Len(operations)
         /\ acc.open # 0 => operations[acc.open] \in ExecOps
    BY ONLY <1>1, <2>5
  <2>12. ASSUME NEW p \in Paths
         PROVE  index[p] \in 0..Len(operations) /\ (index[p] # 0 => operations[index[p]] \in FileOps)
    <3>1. CASE p = c.path
      BY ONLY <1>1, <2>3, <2>5, <2>8, <3>1
    <3>2. CASE p # c.path
      <4>1. index[p] = acc.index[p] /\ acc.index[p] \in 0..Len(acc.operations)
            /\ (acc.index[p] # 0 => acc.operations[acc.index[p]] \in FileOps)
        BY ONLY <1>1, <2>8, <2>12, <3>2
      <4>2. index[p] \in 0..Len(operations)
        BY ONLY <1>1, <2>5, <4>1
      <4>3. index[p] # 0 => index[p] \in 1..Len(acc.operations)
        BY ONLY <1>1, <4>1
      <4> QED BY ONLY <2>5, <4>1, <4>2, <4>3
    <3> QED BY <3>1, <3>2
  <2> QED BY ONLY <2>5, <2>10, <2>11, <2>12 DEF Scanned
<1> QED BY <1>5, <1>6

\* A compilation after n events: once it is refused it stays so.
Compiling(acc, n, tape) == acc \in Accs /\ (acc.error = "none" => Scanned(acc, n, tape))

LEMMA RefusedStays ==
  ASSUME NEW acc \in Accs, NEW error \in {"grouping", "path", "cancelled"}
  PROVE  Refuse(acc, error) \in Accs /\ Refuse(acc, error).error = error
BY DEF Refuse, Accs

LEMMA AcceptIs ==
  ASSUME NEW acc, acc.error = "none", NEW i, NEW e
  PROVE  /\ e.kind = "started" => Accept(acc, i, e) = AcceptStarted(acc, i, e)
         /\ e.kind = "output" => Accept(acc, i, e) = AcceptOutput(acc, i)
         /\ e.kind = "changed" /\ RecordablePaths(e.change) =>
              Accept(acc, i, e) = AcceptChange(acc, i, Parsed(e.change))
         /\ e.kind = "changed" /\ ~RecordablePaths(e.change) => Accept(acc, i, e) = Refuse(acc, "path")
         /\ e.kind = "finished" => Accept(acc, i, e) \in {acc, Refuse(acc, "cancelled")}
<1>1. ASSUME e.kind = "started" PROVE Accept(acc, i, e) = AcceptStarted(acc, i, e)
  BY <1>1 DEF Accept
<1>2. ASSUME e.kind = "output" PROVE Accept(acc, i, e) = AcceptOutput(acc, i)
  BY <1>2 DEF Accept
<1>3. ASSUME e.kind = "changed", RecordablePaths(e.change)
      PROVE  Accept(acc, i, e) = AcceptChange(acc, i, Parsed(e.change))
  BY <1>3 DEF Accept
<1>4. ASSUME e.kind = "changed", ~RecordablePaths(e.change)
      PROVE  Accept(acc, i, e) = Refuse(acc, "path")
  BY <1>4 DEF Accept
<1>5. ASSUME e.kind = "finished" PROVE Accept(acc, i, e) \in {acc, Refuse(acc, "cancelled")}
  BY <1>5 DEF Accept
<1> QED BY <1>1, <1>2, <1>3, <1>4, <1>5

LEMMA AcceptScans ==
  ASSUME NEW acc, NEW n \in Nat, NEW tape, Compiling(acc, n, tape),
         NEW e \in ChangeEvents \cup TerminalEvents, e = tape[n + 1],
         NEW r, r = Accept(acc, n + 1, e)
  PROVE  Compiling(r, n + 1, tape)
<1>1. acc \in Accs /\ (acc.error = "none" => Scanned(acc, n, tape))
  BY DEF Compiling
<1>2. CASE acc.error # "none"
  <2>1. r = acc
    BY <1>2 DEF Accept
  <2> QED BY <1>1, <1>2, <2>1 DEF Compiling
<1>3. ASSUME NEW error \in {"grouping", "path", "cancelled"}, r = Refuse(acc, error)
      PROVE  Compiling(r, n + 1, tape)
  <2>1. r \in Accs /\ r.error = error
    BY <1>1, <1>3, RefusedStays
  <2> QED BY <2>1 DEF Compiling
<1>4. ASSUME Scanned(r, n + 1, tape) PROVE Compiling(r, n + 1, tape)
  BY <1>4 DEF Compiling, Scanned
<1>5. CASE acc.error = "none" /\ e \in ChangeEvents
  <2>1. e.kind = "changed" /\ e.change \in FileChanges
    BY <1>5 DEF ChangeEvents
  <2>2. CASE RecordablePaths(e.change)
    <3>1. PICK c : c = Parsed(e.change)
      OBVIOUS
    <3>2. r = AcceptChange(acc, n + 1, c)
      BY <1>5, <2>1, <2>2, <3>1, AcceptIs
    <3>3. c \in FileChanges /\ Legible(c)
      BY ONLY <2>1, <2>2, <3>1, ParsedIsLegible
    <3> QED BY <1>1, <1>4, <1>5, <3>2, <3>3, ChangeScans
  <2>3. CASE ~RecordablePaths(e.change)
    <3>1. r = Refuse(acc, "path")
      BY <1>5, <2>1, <2>3, AcceptIs
    <3> QED BY <1>3, <3>1
  <2> QED BY <2>2, <2>3
<1>6. CASE acc.error = "none"
           /\ e \in [kind : {"started"}, program : Seq(STRING), reads : BOOLEAN, inputs : SUBSET STRING]
  <2>1. r = AcceptStarted(acc, n + 1, e)
    BY <1>6, AcceptIs
  <2>2. CASE acc.open = 0
    BY <1>1, <1>4, <1>6, <2>1, <2>2, StartedScans
  <2>3. CASE acc.open # 0
    <3>1. r = Refuse(acc, "grouping")
      BY <2>1, <2>3 DEF AcceptStarted
    <3> QED BY <1>3, <3>1
  <2> QED BY <2>2, <2>3
<1>7. CASE acc.error = "none" /\ e \in [kind : {"output"}]
  <2>1. r = AcceptOutput(acc, n + 1)
    BY <1>7, AcceptIs
  <2>2. CASE acc.open # 0
    BY <1>1, <1>4, <1>7, <2>1, <2>2, OutputScans
  <2>3. CASE acc.open = 0
    <3>1. r = Refuse(acc, "grouping")
      BY <2>1, <2>3 DEF AcceptOutput
    <3> QED BY <1>3, <3>1
  <2> QED BY <2>2, <2>3
<1>8. CASE acc.error = "none" /\ e \in [kind : {"finished"}, cancelled : BOOLEAN]
  <2>1. e.kind = "finished"
    BY <1>8
  <2>2. r = acc \/ r = Refuse(acc, "cancelled")
    BY <1>8, <2>1, AcceptIs
  <2>3. CASE r = acc
    <3>1. Ledger(CitesOf(acc.operations), n, tape) /\ tape[n + 1].kind = "finished"
      BY <1>1, <1>8, <2>1 DEF Scanned
    <3>2. Ledger(CitesOf(acc.operations), n + 1, tape)
      BY <3>1, LedgerSkips
    <3>3. Scanned(r, n + 1, tape)
      BY <1>1, <1>8, <2>3, <3>2 DEF Scanned
    <3> QED BY <1>4, <3>3
  <2> QED BY <1>3, <2>2, <2>3
<1> QED BY <1>2, <1>5, <1>6, <1>7, <1>8 DEF TerminalEvents

LEMMA PathsAreNumbers == /\ Paths = 1..Len(Name) /\ Len(Name) \in Nat
                         /\ \A p \in Paths : p \in Nat \ {0} /\ Name[p] \in Seq(STRING)
BY NameAssumption DEF Paths

\* What the first events of a tape compile to.
LEMMA AcceptedScans ==
  ASSUME NEW tape \in Seq(ChangeEvents \cup TerminalEvents), NEW f, f = Accepted(tape)
  PROVE  \A n \in 0..Len(tape) : Compiling(f[n], n, tape)
<1>1. f = Accepted(tape)
  OBVIOUS
<1>2. f[0] = Empty /\ \A n \in 1..Len(tape) : f[n] = Accept(f[n - 1], n, tape[n])
  BY <1>1, AcceptedIs
<1> DEFINE S == {n \in Nat : n <= Len(tape) => Compiling(f[n], n, tape)}
<1>3. Len(tape) \in Nat /\ \A n \in 1..Len(tape) : tape[n] \in ChangeEvents \cup TerminalEvents
  OBVIOUS
<1>4. 0 \in S
  <2>1. Ledger(CitesOf(<<>>), 0, tape)
    <3>1. CitesOf(<<>>) = <<>>
      BY DEF CitesOf
    <3>2. PICK c : c = <<>>
      OBVIOUS
    <3>3. c \in Seq(Seq(Nat)) /\ DOMAIN c = {} /\ 1..0 = {}
      BY <3>2
    <3>4. Ledger(c, 0, tape)
      BY ONLY <3>3 DEF Ledger
    <3> QED BY <3>1, <3>2, <3>4
  <2>2. PICK index : index = [p \in Paths |-> 0]
    OBVIOUS
  <2>3. Empty = [operations |-> <<>>, index |-> index, open |-> 0, error |-> "none"]
        /\ index \in [Paths -> Nat] /\ <<>> \in Seq(Ops) /\ \A p \in Paths : index[p] = 0
    BY <2>2 DEF Empty
  <2>4. PICK e : e = Empty
    OBVIOUS
  <2>5. PICK none : none = <<>>
    OBVIOUS
  <2>6. none \in Seq(Ops) /\ Len(none) = 0 /\ Ledger(CitesOf(none), 0, tape)
    BY <2>1, <2>5
  <2>7. e = [operations |-> none, index |-> index, open |-> 0, error |-> "none"]
    BY <2>3, <2>4, <2>5
  <2>8. e \in Accs /\ e.operations = none /\ e.index = index /\ e.open = 0
    <3>1. index \in [Paths -> Nat] /\ none \in Seq(Ops)
      BY ONLY <2>3, <2>6
    <3> QED BY ONLY <2>7, <3>1 DEF Accs
  <2>9. Scanned(e, 0, tape)
    BY ONLY <2>3, <2>6, <2>8 DEF Scanned
  <2>10. Compiling(f[0], 0, tape)
    BY <1>2, <2>4, <2>8, <2>9 DEF Compiling
  <2> QED BY <2>10
<1>5. ASSUME NEW n \in Nat, n \in S PROVE n + 1 \in S
  <2> SUFFICES ASSUME n + 1 <= Len(tape) PROVE Compiling(f[n + 1], n + 1, tape)
    OBVIOUS
  <2>1. n + 1 \in 1..Len(tape) /\ n <= Len(tape)
    BY <1>3
  <2>2. f[n + 1] = Accept(f[n], n + 1, tape[n + 1]) /\ tape[n + 1] \in ChangeEvents \cup TerminalEvents
    BY <1>2, <1>3, <2>1
  <2>3. Compiling(f[n], n, tape)
    BY <1>5, <2>1
  <2> QED BY <2>2, <2>3, AcceptScans
<1>6. Nat \subseteq S
  <2> HIDE DEF S
  <2> QED BY <1>4, <1>5, Induction
<1> QED BY <1>3, <1>6

\* What a tape compiles to, if it does.
LEMMA OperationsAre ==
  ASSUME NEW tape \in Seq(ChangeEvents \cup TerminalEvents), NEW acc, acc = Operations(tape),
         acc.error = "none"
  PROVE  Scanned(acc, Len(tape), tape)
<1>1. PICK f : f = Accepted(tape)
  OBVIOUS
<1>7. Compiling(f[Len(tape)], Len(tape), tape)
  <2>1. Len(tape) \in 0..Len(tape)
    OBVIOUS
  <2>2. \A n \in 0..Len(tape) : Compiling(f[n], n, tape)
    BY ONLY <1>1, tape \in Seq(ChangeEvents \cup TerminalEvents), AcceptedScans
  <2> QED BY ONLY <2>1, <2>2
<1>8. acc = IF f[Len(tape)].open # 0 THEN Refuse(f[Len(tape)], "grouping") ELSE f[Len(tape)]
  BY <1>1 DEF Operations
<1>9. PICK g : g = f[Len(tape)]
  OBVIOUS
<1>10. g \in Accs
  BY <1>7, <1>9 DEF Compiling
<1>11. Refuse(g, "grouping").error = "grouping"
  BY <1>10, RefusedStays
<1>12. acc = g
  BY <1>8, <1>9, <1>11
<1> QED BY <1>7, <1>9, <1>12 DEF Compiling

-----------------------------------------------------------------------------
(* What is recorded *)

CollectedEntries == [at : Nat, source : {"files"}, event : ChangeEvents]
TerminalEntries == [at : Nat, source : {"tape"}, sequence : Nat, event : TerminalEvents]
Disks == [Paths -> Contents \cup {Absent}]

LEMMA EntriesAre ==
  CollectedEntries = FileEntries(FileChanges) /\ TerminalEntries = TapeEntries(TerminalEvents)
<1>1. \A c \in FileChanges : c.path \in Nat /\ c.previous \in Nat /\ c.kind \in Kinds
  BY PathsAreNumbers DEF FileChanges, NoPath, Kinds
<1>2. \A e \in CollectedEntries : e.event.change \in FileChanges
  BY DEF CollectedEntries, ChangeEvents
<1>3. CollectedEntries = FileEntries(FileChanges)
  BY <1>1, <1>2 DEF CollectedEntries, FileEntries, ChangeEvents
<1> QED BY <1>3 DEF TerminalEntries, TapeEntries

LEMMA ChangesAreTyped ==
  ASSUME NEW disk \in Disks
  PROVE  PlainChanges(Len(Name), disk) \cup MovedChanges(Len(Name), disk) \subseteq FileChanges
<1>1. ASSUME NEW c \in PlainChanges(Len(Name), disk) PROVE c \in FileChanges
  <2>1. PICK kind \in {"created", "modified", "deleted"}, path \in Paths :
           c = [kind |-> kind, path |-> path, previous |-> NoPath,
                content |-> IF kind = "deleted" THEN Absent ELSE disk[path]]
    BY <1>1, PathsAreNumbers DEF PlainChanges, ChangeFor
  <2>2. PICK x : x = IF kind = "deleted" THEN Absent ELSE disk[path]
    OBVIOUS
  <2>3. x \in Contents \cup {Absent}
    BY <2>2 DEF Disks
  <2> QED BY ONLY <2>1, <2>2, <2>3 DEF FileChanges
<1>2. ASSUME NEW c \in MovedChanges(Len(Name), disk) PROVE c \in FileChanges
  <2>1. PICK path \in Paths, previous \in Paths :
           c = [kind |-> "moved", path |-> path, previous |-> previous,
                content |-> IF "moved" = "deleted" THEN Absent ELSE disk[path]]
    BY <1>2, PathsAreNumbers DEF MovedChanges, ChangeFor
  <2>2. disk[path] \in Contents \cup {Absent}
    BY DEF Disks
  <2> QED BY ONLY <2>1, <2>2 DEF FileChanges
<1> QED BY <1>1, <1>2

LEMMA NowIsNumber == ASSUME TapeInv PROVE Now \in Nat
<1>1. collected \in Seq(CollectedEntries)
  BY DEF TapeInv, CollectedEntries
<1>2. CASE collected = <<>>
  BY <1>2 DEF Now
<1>3. CASE collected # <<>>
  <2>1. Len(collected) \in 1..Len(collected) /\ DOMAIN collected = 1..Len(collected)
    BY <1>1, <1>3
  <2>2. PICK e \in CollectedEntries : e = collected[Len(collected)]
    BY <1>1, <2>1
  <2>3. e.at \in Nat
    BY DEF CollectedEntries
  <2> QED BY <1>3, <2>2, <2>3 DEF Now, Last
<1> QED BY <1>2, <1>3

LEMMA RecordedStays ==
  ASSUME TapeInv, NEW e \in TerminalEvents, Record(e)
  PROVE  terminal' \in Seq(TerminalEntries)
<1>1. Now \in Nat
  BY NowIsNumber
<1>2. terminal \in Seq(TerminalEntries) /\ Len(terminal) \in Nat
  BY DEF TapeInv, TerminalEntries
<1>3. [at |-> Now, source |-> "tape", sequence |-> Len(terminal), event |-> e] \in TerminalEntries
  BY <1>1, <1>2 DEF TerminalEntries
<1> QED BY <1>2, <1>3 DEF Record

LEMMA TapeInit == ASSUME Init PROVE TapeInv
<1>1. PICK c \in Contents : c = CHOOSE x \in Contents : TRUE
  BY ContentsAssumption
<1>2. Begin \in Disks
  BY <1>1 DEF Begin, Disks
<1> QED BY <1>2 DEF Init, TapeInv, Disks

LEMMA TapeStarts == ASSUME TapeInv, Start PROVE TapeInv'
<1>1. did \in Seq(Seq(Edits)) /\ Len(did) \in Nat
  BY DEF TapeInv
<1>2. Len(did) + 1 \in DOMAIN CommandLines
  BY <1>1, CommandLinesAssumption DEF Start
<1>3. PICK line \in CommandLines[Len(did) + 1] :
        Record([kind |-> "started", program |-> line.program, reads |-> line.reads,
                inputs |-> line.inputs])
  BY DEF Start
<1>4. line \in [program : Seq(STRING), reads : BOOLEAN, inputs : SUBSET STRING]
  BY <1>2, <1>3, CommandLinesAssumption
<1>5. PICK e : e = [kind |-> "started", program |-> line.program, reads |-> line.reads,
                    inputs |-> line.inputs]
  OBVIOUS
<1>6. e \in TerminalEvents
  BY <1>4, <1>5 DEF TerminalEvents
<1>7. terminal' \in Seq(TerminalEntries)
  BY <1>3, <1>5, <1>6, RecordedStays
<1>8. did' \in Seq(Seq(Edits))
  BY <1>1 DEF Start
<1> QED BY <1>7, <1>8 DEF Start, TapeInv, TerminalEntries

LEMMA TapeEdits == ASSUME TapeInv, NEW edit \in Edits, Edit(edit) PROVE TapeInv'
<1>1. did' \in Seq(Seq(Edits))
  <2>1. did \in Seq(Seq(Edits)) /\ did' = [did EXCEPT ![Len(did)] = Append(@, edit)]
    BY DEF TapeInv, Edit
  <2>2. CASE Len(did) \in DOMAIN did
    <3>1. PICK k : k = Len(did)
      OBVIOUS
    <3>2. PICK x : x = Append(did[k], edit)
      OBVIOUS
    <3>3. did[k] \in Seq(Edits) /\ k \in DOMAIN did
      BY <2>1, <2>2, <3>1
    <3>4. x \in Seq(Edits) /\ did' = [did EXCEPT ![k] = x]
      BY <2>1, <3>1, <3>2, <3>3
    <3>5. PICK S : S = Seq(Edits)
      OBVIOUS
    <3>6. did \in Seq(S) /\ x \in S
      BY <2>1, <3>4, <3>5
    <3>7. did' \in Seq(S)
      BY ONLY <3>3, <3>4, <3>6
    <3> QED BY <3>5, <3>7
  <2>3. CASE Len(did) \notin DOMAIN did
    <3>1. PICK k, x : k = Len(did) /\ x = Append(did[k], edit)
      OBVIOUS
    <3>2. did' = [did EXCEPT ![k] = x] /\ k \notin DOMAIN did /\ did = [i \in DOMAIN did |-> did[i]]
      BY <2>1, <2>3, <3>1
    <3>3. did' = did
      BY ONLY <3>2
    <3> QED BY <2>1, <3>3
  <2> QED BY <2>2, <2>3
<1>2. world' \in [Paths -> Contents \cup {Absent}]
  BY DEF TapeInv, Edit, Edited, Edits
<1> QED BY <1>1, <1>2 DEF Edit, TapeInv

\* What one poll adds to what was collected.
Batch(changes, old, new) ==
  /\ changes \in Seq(FileChanges)
  /\ \A j, k \in DOMAIN changes : j < k => ChangeBefore(changes[j], changes[k])
  /\ \A i \in DOMAIN changes : TrueOf(changes[i], new)
  /\ \A p \in Paths : old[p] # new[p] => NamedIn(ToSet(changes), p)
Entries(changes, now) ==
  [i \in DOMAIN changes |-> [at |-> now, source |-> "files",
                             event |-> [kind |-> "changed", change |-> changes[i]]]]

LEMMA PollReports ==
  ASSUME TapeInv, Poll
  PROVE  \E changes : /\ changes = Adapt(ScanEvents(seen, world), world) /\ Batch(changes, seen, world)
                     /\ collected' = collected \o Entries(changes, Now + 1)
<1>1. PICK scan : scan = ScanEvents(seen, world)
  OBVIOUS
<1>2. PICK changes : changes = Adapt(scan, world)
  OBVIOUS
<1>3. seen \in Disks /\ world \in Disks /\ Disks = [1..Len(Name) -> Contents \cup {Absent}]
      /\ Len(Name) \in Nat
  BY PathsAreNumbers DEF TapeInv, Disks
<1>4. ReportsAll(scan, Len(Name), seen, world)
  BY <1>1, <1>3, ScanFinds
<1>5. scan \in Seq(PollEvents(Len(Name)))
  BY <1>4 DEF ReportsAll
<1>6. /\ changes \in Seq(PlainChanges(Len(Name), world) \cup MovedChanges(Len(Name), world))
      /\ \A i \in DOMAIN scan : NamedIn(ToSet(changes), scan[i].path)
      /\ \A j, k \in DOMAIN changes : j < k => ChangeBefore(changes[j], changes[k])
      /\ (\A i \in DOMAIN scan : scan[i].kind = "remove" <=> world[scan[i].path] = Absent)
              => \A i \in DOMAIN changes : TrueOf(changes[i], world)
  BY <1>2, <1>3, <1>5, AdaptNames
<1>7. changes \in Seq(FileChanges)
  BY <1>3, <1>6, ChangesAreTyped
<1>8. \A i \in DOMAIN changes : TrueOf(changes[i], world)
  BY <1>4, <1>6 DEF ReportsAll
<1>9. \A p \in Paths : seen[p] # world[p] => NamedIn(ToSet(changes), p)
  BY <1>4, <1>6, PathsAreNumbers DEF ReportsAll
<1>10. Batch(changes, seen, world)
  BY <1>6, <1>7, <1>8, <1>9 DEF Batch
<1>11. collected' = collected \o Entries(changes, Now + 1)
  BY <1>1, <1>2 DEF Poll, Entries
<1> QED BY <1>1, <1>2, <1>10, <1>11

\* The entries that a poll adds to the timeline.
AreEntries(entries, changes, now) ==
  /\ entries \in Seq(CollectedEntries) /\ Len(entries) = Len(changes)
  /\ \A i \in 1..Len(changes) :
       entries[i] = [at |-> now, source |-> "files",
                     event |-> [kind |-> "changed", change |-> changes[i]]]

LEMMA EntriesAreTyped ==
  ASSUME NEW changes \in Seq(FileChanges), NEW now \in Nat, NEW entries, entries = Entries(changes, now)
  PROVE  AreEntries(entries, changes, now)
<1>1. DOMAIN changes = 1..Len(changes) /\ Len(changes) \in Nat
  OBVIOUS
<1>2. ASSUME NEW i \in DOMAIN changes
      PROVE  [at |-> now, source |-> "files",
              event |-> [kind |-> "changed", change |-> changes[i]]] \in CollectedEntries
  <2>1. changes[i] \in FileChanges
    OBVIOUS
  <2> QED BY ONLY <2>1, now \in Nat DEF CollectedEntries, ChangeEvents
<1>3. entries = [i \in 1..Len(changes) |-> [at |-> now, source |-> "files",
                                            event |-> [kind |-> "changed", change |-> changes[i]]]]
  BY <1>1 DEF Entries
<1> QED BY ONLY <1>1, <1>2, <1>3 DEF AreEntries

LEMMA TapePolls == ASSUME TapeInv, Poll PROVE TapeInv'
<1>1. PICK changes : Batch(changes, seen, world) /\ collected' = collected \o Entries(changes, Now + 1)
  BY PollReports
<1>2. PICK now, entries : now = Now + 1 /\ entries = Entries(changes, now)
  OBVIOUS
<1>4. changes \in Seq(FileChanges) /\ now \in Nat
  BY <1>1, <1>2, NowIsNumber DEF Batch
<1>5. entries \in Seq(CollectedEntries)
  BY ONLY <1>2, <1>4, EntriesAreTyped DEF AreEntries
<1>3. collected' \in Seq(CollectedEntries)
  BY <1>1, <1>2, <1>5 DEF TapeInv, CollectedEntries
<1> QED BY <1>3 DEF Poll, TapeInv, CollectedEntries

LEMMA TapeFinishes == ASSUME TapeInv, NEW cancelled \in BOOLEAN, Finish(cancelled) PROVE TapeInv'
<1>1. [kind |-> "finished", cancelled |-> cancelled] \in TerminalEvents
  BY DEF TerminalEvents
<1>2. terminal' \in Seq(TerminalEntries)
  BY <1>1, RecordedStays DEF Finish
<1>3. collected \in Seq(CollectedEntries)
  BY DEF TapeInv, CollectedEntries
<1>4. PICK merged : merged = Merge(collected, terminal')
  OBVIOUS
<1>5. merged \in Seq(CollectedEntries \cup TerminalEntries)
  <2>1. PICK files, tape, s : files = collected /\ tape = terminal' /\ s = files \o tape
    OBVIOUS
  <2>2. files \in Seq(FileEntries(FileChanges)) /\ tape \in Seq(TapeEntries(TerminalEvents))
        /\ merged = Merge(files, tape)
    BY <1>2, <1>3, <1>4, <2>1, EntriesAre
  <2>3. merged \in Seq(FileEntries(FileChanges) \cup TapeEntries(TerminalEvents))
    <3>1. Reordered(merged, s, FileEntries(FileChanges) \cup TapeEntries(TerminalEvents))
      BY ONLY <2>1, <2>2, MergeReorders
    <3> QED BY ONLY <3>1 DEF Reordered
  <2> QED BY <2>3, EntriesAre
<1>6. events' = [i \in DOMAIN merged |-> merged[i].event]
  BY <1>4 DEF Finish
<1>7. \A e \in CollectedEntries \cup TerminalEntries : e.event \in ChangeEvents \cup TerminalEvents
  BY DEF CollectedEntries, TerminalEntries
<1>8. events' \in Seq(ChangeEvents \cup TerminalEvents)
  <2>1. DOMAIN merged = 1..Len(merged) /\ Len(merged) \in Nat
        /\ \A i \in DOMAIN merged : merged[i].event \in ChangeEvents \cup TerminalEvents
    BY <1>5, <1>7
  <2> QED BY ONLY <1>6, <2>1
<1> QED BY <1>2, <1>8 DEF Finish, TapeInv, TerminalEntries

LEMMA TapeStep == ASSUME TapeInv, [Next]_vars PROVE TapeInv'
<1>1. CASE Start
  BY <1>1, TapeStarts
<1>2. ASSUME NEW edit \in Edits, Edit(edit) PROVE TapeInv'
  BY <1>2, TapeEdits
<1>3. ASSUME NEW from \in Paths, NEW to \in Paths, MoveByHand(from, to) PROVE TapeInv'
  <2>1. world' \in [Paths -> Contents \cup {Absent}]
    BY <1>3 DEF MoveByHand, TapeInv
  <2> QED BY <1>3, <2>1 DEF MoveByHand, TapeInv
<1>4. CASE Poll
  BY <1>4, TapePolls
<1>5. CASE Output
  <2>1. [kind |-> "output"] \in TerminalEvents
    BY DEF TerminalEvents
  <2>2. terminal' \in Seq(TerminalEntries)
    BY <1>5, <2>1, RecordedStays DEF Output
  <2> QED BY <1>5, <2>2 DEF Output, TapeInv, TerminalEntries
<1>6. ASSUME NEW cancelled \in BOOLEAN, Finish(cancelled) PROVE TapeInv'
  BY <1>6, TapeFinishes
<1>7. CASE Compile \/ ReplayStep \/ ReplayDenied \/ ReplayFails \/ Deliver \/ UNCHANGED vars
  BY <1>7 DEF Compile, ReplayStep, ReplayDenied, ReplayFails, Deliver, vars, recording, TapeInv
<1> QED BY <1>1, <1>2, <1>3, <1>4, <1>5, <1>6, <1>7 DEF Next

-----------------------------------------------------------------------------
(* What the changes tell *)

Said(changes) == [i \in DOMAIN changes |-> [kind |-> "changed", change |-> changes[i]]]

\* The last change of a batch that names a path tells what the file is.
LEMMA BatchTells ==
  ASSUME NEW old, NEW new, NEW changes, Batch(changes, old, new), NEW p \in Paths
  PROVE  Leaves(Said(changes), Len(changes), p, old[p], new[p])
<1> DEFINE Names(i) == changes[i].path = p \/ (changes[i].kind = "moved" /\ changes[i].previous = p)
           T == {i \in 1..Len(changes) : Names(i)}
<1>1. changes \in Seq(FileChanges) /\ Len(changes) \in Nat /\ DOMAIN changes = 1..Len(changes)
  BY DEF Batch
<1>2. \A i \in 1..Len(changes) :
        Said(changes)[i].change = changes[i] /\ (Mentions(Said(changes)[i], p) <=> Names(i))
  BY <1>1 DEF Mentions, Said
<1>3. CASE T = {}
  <2>1. ~NamedIn(ToSet(changes), p)
    BY <1>1, <1>3 DEF NamedIn, ToSet
  <2>2. \A i \in 1..Len(changes) : ~Names(i)
    BY <1>3
  <2> QED BY <1>2, <2>1, <2>2 DEF Batch, Leaves
<1>4. CASE T # {}
  <2>1. PICK m \in T : \A i \in T : i <= m
    <3> DEFINE U == {Len(changes) - i : i \in T}
    <3>1. U \in SUBSET Nat /\ U # {}
      BY <1>1, <1>4
    <3>2. PICK x \in U : \A y \in U : x <= y
      <4> HIDE DEF U
      <4> QED BY <3>1, LeastElement
    <3>3. PICK m \in T : x = Len(changes) - m
      BY <3>2
    <3>4. \A i \in T : Len(changes) - m <= Len(changes) - i
      BY <3>2, <3>3
    <3>5. \A i \in T : i \in Nat
      BY <1>1
    <3> HIDE DEF T, Names, U
    <3> QED BY ONLY <1>1, <3>3, <3>4, <3>5, m \in T
  <2>2. m \in 1..Len(changes) /\ Names(m) /\ \A i \in 1..Len(changes) : i > m => ~Names(i)
    <3>1. \A i \in 1..Len(changes) : Names(i) => i <= m
      BY <2>1
    <3> QED BY <1>1, <2>1, <3>1
  <2>3. TrueOf(changes[m], new)
    BY <1>1, <2>2 DEF Batch
  <2>4. new[p] = Tells(changes[m], p)
    BY <2>2, <2>3 DEF Tells, TrueOf
  <2> QED BY <1>2, <2>2, <2>4 DEF Leaves
<1> QED BY <1>3, <1>4

\* What is collected after a batch.
Grown(more, old, changes) ==
  /\ Len(more) = Len(old) + Len(changes) /\ InTime(more)
  /\ \A i \in 1..Len(old) : EventsOf(more)[i] = EventsOf(old)[i]
  /\ \A i \in 1..Len(changes) : EventsOf(more)[Len(old) + i] = Said(changes)[i]

LEMMA TimelineGrows ==
  ASSUME NEW old \in Seq(CollectedEntries), NEW now \in Nat, old # <<>> => now = old[Len(old)].at,
         InTime(old), NEW changes \in Seq(FileChanges),
         \A j, k \in DOMAIN changes : j < k => ChangeBefore(changes[j], changes[k]),
         NEW more, more = old \o Entries(changes, now + 1)
  PROVE  Grown(more, old, changes)
<1>1. PICK entries, L, N : entries = Entries(changes, now + 1) /\ L = Len(old) /\ N = Len(changes)
  OBVIOUS
<1>2. now + 1 \in Nat
  OBVIOUS
<1>3. /\ entries \in Seq(CollectedEntries) /\ Len(entries) = N
      /\ \A i \in 1..N : entries[i] = [at |-> now + 1, source |-> "files",
                                       event |-> [kind |-> "changed", change |-> changes[i]]]
  <2>1. PICK at : at = now + 1 /\ at \in Nat
    BY <1>2
  <2>2. entries = Entries(changes, at) /\ changes \in Seq(FileChanges)
    BY <1>1, <2>1
  <2>3. /\ entries \in Seq(CollectedEntries) /\ Len(entries) = Len(changes)
        /\ \A i \in 1..Len(changes) :
             entries[i] = [at |-> at, source |-> "files",
                           event |-> [kind |-> "changed", change |-> changes[i]]]
    BY ONLY <2>1, <2>2, EntriesAreTyped DEF AreEntries
  <2> QED BY ONLY <1>1, <2>1, <2>3
<1>4. /\ L \in Nat /\ N \in Nat /\ DOMAIN old = 1..L /\ DOMAIN changes = 1..N
      /\ \A i \in 1..L : old[i] \in CollectedEntries
  BY <1>1
<1>5. more = old \o entries /\ old \in Seq(CollectedEntries)
  BY <1>1
<1>6. /\ Len(more) = L + N /\ DOMAIN more = 1..(L + N)
      /\ \A i \in 1..L : more[i] = old[i]
      /\ \A i \in 1..N : more[L + i] = entries[i]
  BY ONLY <1>1, <1>3, <1>4, <1>5
<1>7. \A i \in 1..(L + N) : i \in 1..L \/ (i - L \in 1..N /\ i = L + (i - L))
  BY ONLY <1>4
<1>8. \A i \in 1..L : old[i].at \in Nat /\ old[i].at <= now
  <2> TAKE i \in 1..L
  <2>1. L \in 1..L
    BY ONLY <1>4, i \in 1..L
  <2>2. old[i] \in CollectedEntries /\ old[L] \in CollectedEntries /\ old # <<>>
    BY <1>4, <2>1
  <2>3. old[i].at \in Nat /\ old[L].at \in Nat /\ now = old[L].at
    BY <1>1, <2>2 DEF CollectedEntries
  <2>4. i = L \/ TimelineBefore(old[i], old[L])
    <3>1. i = L \/ i < L
      BY ONLY <1>4, i \in 1..L
    <3> QED BY <1>4, <2>1, <3>1 DEF InTime
  <2> QED BY ONLY <2>3, <2>4 DEF TimelineBefore
<1>9. ASSUME NEW a \in 1..N
      PROVE  /\ more[L + a].at = now + 1 /\ more[L + a].source = "files"
             /\ more[L + a].event = [kind |-> "changed", change |-> changes[a]]
  BY ONLY <1>3, <1>6, a \in 1..N
<1>10. ASSUME NEW j \in 1..(L + N), NEW k \in 1..(L + N), j < k PROVE TimelineBefore(more[j], more[k])
  <2>1. CASE j \in 1..L /\ k \in 1..L
    BY <1>4, <1>6, <1>10, <2>1 DEF InTime
  <2>2. ASSUME j \in 1..L, NEW b \in 1..N, k = L + b PROVE TimelineBefore(more[j], more[k])
    <3>1. more[j].at \in Nat /\ more[j].at <= now /\ more[k].at = now + 1
      BY <1>6, <1>8, <1>9, <2>2
    <3> QED BY ONLY <3>1, now \in Nat DEF TimelineBefore
  <2>3. ASSUME NEW a \in 1..N, j = L + a, NEW b \in 1..N, k = L + b PROVE TimelineBefore(more[j], more[k])
    <3>1. a < b
      BY ONLY <1>4, <1>10, <2>3
    <3>2. ChangeBefore(changes[a], changes[b])
      BY <1>4, <3>1
    <3>3. PICK x, y : x = more[j] /\ y = more[k]
      OBVIOUS
    <3>4. /\ x.at = y.at /\ x.source = "files" /\ y.source = "files"
          /\ x.event = [kind |-> "changed", change |-> changes[a]]
          /\ y.event = [kind |-> "changed", change |-> changes[b]]
      BY <1>9, <2>3, <3>3
    <3> QED BY ONLY <3>2, <3>3, <3>4 DEF TimelineBefore
  <2>4. ASSUME NEW a \in 1..N, j = L + a, k \in 1..L PROVE FALSE
    BY ONLY <1>4, <1>10, <2>4
  <2> QED BY ONLY <1>7, <2>1, <2>2, <2>3, <2>4, j \in 1..(L + N), k \in 1..(L + N)
<1>11. /\ \A i \in 1..L : EventsOf(more)[i] = EventsOf(old)[i]
       /\ \A i \in 1..N : EventsOf(more)[L + i] = Said(changes)[i]
  <2>1. (\A i \in 1..L : i \in 1..(L + N)) /\ (\A i \in 1..N : L + i \in 1..(L + N))
    BY ONLY <1>4
  <2> QED BY <1>4, <1>6, <1>9, <2>1 DEF EventsOf, Said
<1> QED BY <1>1, <1>6, <1>10, <1>11 DEF Grown, InTime

LEMMA LeavesMore ==
  ASSUME NEW told, NEW L \in Nat, NEW batch, NEW N \in Nat, NEW more,
         \A i \in 1..L : more[i] = told[i],
         \A i \in 1..N : more[L + i] = batch[i],
         NEW p, NEW first, NEW before, NEW after,
         Leaves(told, L, p, first, before), Leaves(batch, N, p, before, after)
  PROVE  Leaves(more, L + N, p, first, after)
<1>1. \A i \in 1..(L + N) : i \in 1..L \/ (i - L \in 1..N /\ i = L + (i - L))
  OBVIOUS
<1>2. (\A i \in 1..L : i \in 1..(L + N)) /\ (\A i \in 1..N : L + i \in 1..(L + N))
  OBVIOUS
<1>3. CASE after = before /\ \A i \in 1..N : ~Mentions(batch[i], p)
  <2>1. \A i \in 1..(L + N) : i \notin 1..L => ~Mentions(more[i], p)
    <3> TAKE i \in 1..(L + N)
    <3> HAVE i \notin 1..L
    <3>1. PICK a \in 1..N : i = L + a
      BY <1>1
    <3> QED BY <1>3, <3>1
  <2>2. CASE before = first /\ \A i \in 1..L : ~Mentions(told[i], p)
    <3>1. \A i \in 1..(L + N) : ~Mentions(more[i], p)
      BY <2>1, <2>2
    <3> QED BY <1>3, <2>2, <3>1 DEF Leaves
  <2>3. ASSUME NEW m \in 1..L, Mentions(told[m], p), before = Tells(told[m].change, p),
               \A i \in 1..L : i > m => ~Mentions(told[i], p)
        PROVE  Leaves(more, L + N, p, first, after)
    <3>1. m \in 1..(L + N) /\ Mentions(more[m], p) /\ after = Tells(more[m].change, p)
      BY <1>2, <1>3, <2>3
    <3>2. \A i \in 1..(L + N) : i > m => ~Mentions(more[i], p)
      BY <2>1, <2>3
    <3> QED BY <3>1, <3>2 DEF Leaves
  <2> QED BY <2>2, <2>3 DEF Leaves
<1>4. ASSUME NEW m \in 1..N, Mentions(batch[m], p), after = Tells(batch[m].change, p),
             \A i \in 1..N : i > m => ~Mentions(batch[i], p)
      PROVE  Leaves(more, L + N, p, first, after)
  <2>1. L + m \in 1..(L + N) /\ Mentions(more[L + m], p) /\ after = Tells(more[L + m].change, p)
    BY <1>2, <1>4
  <2>2. ASSUME NEW i \in 1..(L + N), i > L + m PROVE ~Mentions(more[i], p)
    <3>1. i \notin 1..L
      BY <2>2
    <3>2. PICK a \in 1..N : i = L + a
      BY <1>1, <3>1
    <3>3. a > m
      BY <2>2, <3>2
    <3> QED BY <1>4, <3>2, <3>3
  <2> QED BY <2>1, <2>2 DEF Leaves
<1> QED BY <1>3, <1>4 DEF Leaves

LEMMA ToldPolls == ASSUME TapeInv, ToldInv, Poll PROVE ToldInv'
<1>1. PICK changes : Batch(changes, seen, world) /\ collected' = collected \o Entries(changes, Now + 1)
  BY PollReports
<1>2. PICK old, now, more : old = collected /\ now = Now /\ more = collected'
  OBVIOUS
<1>3. /\ old \in Seq(CollectedEntries) /\ now \in Nat /\ changes \in Seq(FileChanges)
      /\ \A j, k \in DOMAIN changes : j < k => ChangeBefore(changes[j], changes[k])
      /\ old # <<>> => now = old[Len(old)].at
      /\ InTime(old)
      /\ more = old \o Entries(changes, now + 1)
  BY <1>1, <1>2, NowIsNumber DEF Batch, TapeInv, ToldInv, CollectedEntries, Now, Last
<1>4. Grown(more, old, changes)
  BY ONLY <1>3, TimelineGrows
<1>5. PICK told, batch, then, L, N :
        /\ told = EventsOf(old) /\ batch = Said(changes) /\ then = EventsOf(more)
        /\ L = Len(old) /\ N = Len(changes)
  OBVIOUS
<1>6. /\ L \in Nat /\ N \in Nat /\ Len(more) = L + N /\ InTime(more)
      /\ \A i \in 1..L : then[i] = told[i]
      /\ \A i \in 1..N : then[L + i] = batch[i]
  <2>1. L \in Nat /\ N \in Nat
    BY ONLY <1>3, <1>5
  <2> QED BY ONLY <1>4, <1>5, <2>1 DEF Grown
<1>7. PICK B, before, after : B = Begin /\ before = seen /\ after = world
  OBVIOUS
<1>8. ASSUME NEW p \in Paths PROVE Leaves(then, L + N, p, B[p], after[p])
  <2>1. Leaves(told, L, p, B[p], before[p])
    BY <1>2, <1>5, <1>7 DEF ToldInv
  <2>2. Leaves(batch, N, p, before[p], after[p])
    <3>1. Batch(changes, before, after)
      BY <1>1, <1>7
    <3> QED BY <1>5, <3>1, BatchTells
  <2> QED BY ONLY <1>6, <2>1, <2>2, LeavesMore
<1>9. Begin' = Begin /\ seen' = world
  BY DEF Begin, Inputs, Poll
<1>10. \A p \in Paths : Leaves(EventsOf(collected'), Len(collected'), p, Begin'[p], seen'[p])
  BY <1>2, <1>5, <1>6, <1>7, <1>8, <1>9
<1>11. InTime(collected')
  BY <1>2, <1>6
<1> QED BY <1>10, <1>11 DEF ToldInv

LEMMA ToldFinishes ==
  ASSUME TapeInv, TapeInv', ToldInv, NEW cancelled \in BOOLEAN, Finish(cancelled)
  PROVE  TapeTellsTheFiles'
<1>1. PICK files, tape, merged, told, tale, B, result, P, V, S :
        /\ files = collected /\ tape = terminal' /\ merged = Merge(files, tape)
        /\ told = EventsOf(files) /\ tale = events' /\ B = Begin /\ result = Replayed(B, tale)
        /\ P = Paths /\ V = Contents \cup {Absent} /\ S = seen
  OBVIOUS
<1>2. files \in Seq(FileEntries(FileChanges)) /\ tape \in Seq(TapeEntries(TerminalEvents))
  BY <1>1, EntriesAre DEF TapeInv, CollectedEntries, TerminalEntries
<1>3. tale = EventsOf(merged)
  BY <1>1 DEF Finish, EventsOf
<1>4. tale \in Seq(ChangeEvents \cup TerminalEvents) /\ Len(tale) = Len(merged)
  <2>1. tale \in Seq(ChangeEvents \cup TerminalEvents)
    BY <1>1 DEF TapeInv
  <2>2. PICK s : s = files \o tape
    OBVIOUS
  <2>3. Reordered(merged, s, FileEntries(FileChanges) \cup TapeEntries(TerminalEvents))
    BY ONLY <1>1, <1>2, <2>2, MergeReorders
  <2>4. merged \in Seq(FileEntries(FileChanges) \cup TapeEntries(TerminalEvents))
    BY ONLY <2>3 DEF Reordered
  <2> QED BY ONLY <1>3, <2>1, <2>4 DEF EventsOf
<1>5. B \in [P -> V] /\ S \in [P -> V] /\ seen' = S
  <2>1. PICK c \in Contents : c = CHOOSE x \in Contents : TRUE
    BY ContentsAssumption
  <2> QED BY <1>1, <2>1 DEF Begin, TapeInv, Finish
<1>6. NoChanges(TerminalEvents)
  BY DEF TerminalEvents, NoChanges
<1>7. ASSUME NEW i \in DOMAIN tale PROVE FileEvent(tale[i], P)
  <2>1. tale[i] \in ChangeEvents \cup TerminalEvents
    BY <1>4
  <2>2. CASE tale[i] \in ChangeEvents
    <3>1. tale[i].change \in FileChanges
      BY <2>2 DEF ChangeEvents
    <3> QED BY <1>1, <3>1 DEF FileEvent, FileChanges
  <2>3. CASE tale[i] \in TerminalEvents
    BY <1>6, <2>3 DEF FileEvent, NoChanges
  <2> QED BY <2>1, <2>2, <2>3
<1>8. LeavesAll(tale, P, B, result)
  <2>1. result = Replayed(B, tale)
    BY <1>1
  <2> QED BY ONLY <1>4, <1>5, <1>7, <2>1, ReplayedTells
<1>9. ASSUME NEW p \in P PROVE result[p] = S[p]
  <2>1. PICK before, after, then : before = B[p] /\ after = S[p] /\ then = result[p]
    OBVIOUS
  <2>2. Leaves(told, Len(files), p, before, after)
    BY <1>1, <2>1 DEF ToldInv
  <2>3. Leaves(tale, Len(merged), p, before, then)
    BY <1>4, <1>8, <2>1 DEF LeavesAll
  <2>4. InTime(files)
    BY <1>1 DEF ToldInv
  <2>5. merged = Merge(files, tape) /\ told = EventsOf(files)
    BY <1>1
  <2>6. then = after
    <3>1. PICK C, E : C = FileChanges /\ E = TerminalEvents
      OBVIOUS
    <3>2. files \in Seq(FileEntries(C)) /\ tape \in Seq(TapeEntries(E)) /\ NoChanges(E)
      BY <1>2, <1>6, <3>1
    <3> QED BY ONLY <1>3, <2>2, <2>3, <2>4, <2>5, <3>2, MergeKeepsTheLast
  <2> QED BY <2>1, <2>6
<1>10. result = S
  BY <1>5, <1>8, <1>9 DEF LeavesAll
<1>11. Begin' = Begin
  BY DEF Begin, Inputs
<1> QED BY <1>1, <1>5, <1>10, <1>11 DEF TapeTellsTheFiles

LEMMA ToldStep ==
  ASSUME TapeInv, TapeInv', ToldInv, TapeTellsTheFiles, [Next]_vars
  PROVE  ToldInv' /\ TapeTellsTheFiles'
<1>1. Begin' = Begin
  BY DEF Begin, Inputs
<1>2. CASE UNCHANGED <<collected, seen>> /\ (UNCHANGED <<stage, events>> \/ stage' # "finished")
  BY <1>1, <1>2 DEF ToldInv, TapeTellsTheFiles
<1>3. CASE Poll
  <2>1. TapeTellsTheFiles'
    BY <1>3 DEF Poll, TapeTellsTheFiles
  <2> QED BY <1>3, <2>1, ToldPolls
<1>4. ASSUME NEW cancelled \in BOOLEAN, Finish(cancelled) PROVE ToldInv' /\ TapeTellsTheFiles'
  <2>1. ToldInv'
    BY <1>1, <1>4 DEF Finish, ToldInv
  <2> QED BY <1>4, <2>1, ToldFinishes
<1>5. CASE Start \/ (\E edit \in Edits : Edit(edit)) \/ (\E from, to \in Paths : MoveByHand(from, to)) \/ Output
  BY <1>2, <1>5 DEF Start, Edit, MoveByHand, Output
<1>6. CASE Compile \/ ReplayStep \/ ReplayDenied \/ ReplayFails \/ Deliver \/ UNCHANGED vars
  BY <1>2, <1>6 DEF Compile, ReplayStep, ReplayDenied, ReplayFails, Deliver, Stop, vars, recording
<1> QED BY <1>3, <1>4, <1>5, <1>6 DEF Next

-----------------------------------------------------------------------------
(* The package *)

LEMMA PackageStep == ASSUME PackageInv, [Next]_vars PROVE PackageInv'
<1> DEFINE Made(p, tape) == LET acc == Operations(tape) IN
             /\ acc.error = "none"
             /\ p = Compiled(acc.operations)
             /\ Accounted(p, tape)
             /\ Lint(p) = {}
<1>1. PackageInv = (stage \in {"compiled", "done"} => Made(package, events))
      /\ PackageInv' = (stage' \in {"compiled", "done"} => Made(package', events'))
  BY DEF PackageInv
<1>2. CASE Compile
  BY <1>1, <1>2 DEF Compile, recording
<1> HIDE DEF Made
<1>3. CASE Start \/ (\E edit \in Edits : Edit(edit)) \/ (\E from, to \in Paths : MoveByHand(from, to))
           \/ Poll \/ Output \/ (\E cancelled \in BOOLEAN : Finish(cancelled))
  BY <1>1, <1>3 DEF Start, Edit, MoveByHand, Poll, Output, Finish
<1>4. CASE ReplayStep \/ ReplayDenied \/ ReplayFails \/ Deliver
  BY <1>1, <1>4 DEF ReplayStep, ReplayDenied, ReplayFails, Deliver, Stop, recording
<1>5. CASE UNCHANGED vars
  BY <1>1, <1>5 DEF vars, recording
<1> QED BY <1>2, <1>3, <1>4, <1>5 DEF Next

(* What is recorded is a tape of typed events whose changes came in order and
   tell what the poller saw, and what is replayed is what that tape compiles
   to, after the linter has passed it. *)
THEOREM PipelineInvariance == Spec => []IInv
<1>1. Init => IInv
  <2>1. Init => PackageInv /\ TapeTellsTheFiles
    BY DEF Init, PackageInv, TapeTellsTheFiles
  <2>2. Init => ToldInv
    <3> SUFFICES ASSUME Init PROVE ToldInv
      OBVIOUS
    <3>1. collected = <<>> /\ seen = Begin
      BY DEF Init
    <3>2. InTime(collected) /\ Len(collected) = 0
      BY <3>1 DEF InTime
    <3>3. \A p \in Paths : Leaves(EventsOf(collected), 0, p, Begin[p], seen[p])
      BY <3>1 DEF Leaves
    <3> QED BY <3>2, <3>3 DEF ToldInv
  <2> QED BY <2>1, <2>2, TapeInit DEF IInv
<1>2. IInv /\ [Next]_vars => IInv'
  BY TapeStep, ToldStep, PackageStep DEF IInv
<1> QED BY <1>1, <1>2, PTL DEF Spec

(* Reading the changes of a finished tape in order gives the workspace the
   poller saw last, for every number of commands, polls and paths. *)
THEOREM TapeTells == Spec => []TapeTellsTheFiles
<1>1. IInv => TapeTellsTheFiles
  BY DEF IInv
<1> QED BY <1>1, PipelineInvariance, PTL

\* The operations a package that is replayed was made of.
LEMMA PackageIsScanned ==
  ASSUME IInv, stage = "compiled", NEW acc, acc = Operations(events)
  PROVE  /\ package = Compiled(acc.operations) /\ Scanned(acc, Len(events), events)
         /\ acc.operations \in Seq(Ops) /\ events \in Seq(ChangeEvents \cup TerminalEvents)
         /\ Accounted(package, events) /\ Lint(package) = {}
<1>1. acc.error = "none" /\ package = Compiled(acc.operations)
      /\ Accounted(package, events) /\ Lint(package) = {}
  BY DEF IInv, PackageInv
<1>2. events \in Seq(ChangeEvents \cup TerminalEvents)
  BY DEF IInv, TapeInv
<1>3. Scanned(acc, Len(events), events)
  BY <1>1, <1>2, OperationsAre
<1> QED BY <1>1, <1>2, <1>3 DEF Scanned, Accs

(* compile_steps merges the changes of a path within a scope, and adds the
   output of a command to the step of the command: still every command and
   every change of a tape is the source of exactly one step of the package. *)
THEOREM EventsAreCited == Spec => []EveryEventIsCited
<1>1. IInv => EveryEventIsCited
  <2> SUFFICES ASSUME IInv, stage = "compiled" PROVE EveryEventIsCited
    BY DEF EveryEventIsCited
  <2>1. PICK acc : acc = Operations(events)
    OBVIOUS
  <2>2. /\ package = Compiled(acc.operations) /\ Scanned(acc, Len(events), events)
        /\ events \in Seq(ChangeEvents \cup TerminalEvents)
    BY <2>1, PackageIsScanned
  <2>3. PICK cites : cites = CitesOf(acc.operations)
    OBVIOUS
  <2>4. package.cites = cites
    BY <2>2, <2>3 DEF Compiled, CitesOf
  <2>5. Ledger(cites, Len(events), events)
    BY <2>2, <2>3 DEF Scanned
  <2>6. ASSUME NEW i \in DOMAIN events, events[i].kind # "finished"
        PROVE  Cardinality({s \in DOMAIN cites : i \in ToSet(cites[s])}) = 1
    <3>1. i \in 1..Len(events)
      BY <2>2
    <3>2. PICK s \in DOMAIN cites : i \in ToSet(cites[s])
      BY <2>5, <2>6, <3>1 DEF Ledger
    <3>3. \A t \in DOMAIN cites : i \in ToSet(cites[t]) => t = s
      BY <2>5, <3>2 DEF Ledger
    <3>4. {t \in DOMAIN cites : i \in ToSet(cites[t])} = {s}
      BY <3>2, <3>3
    <3>5. Cardinality({s}) = 1
      BY FS_Singleton
    <3> QED BY <3>4, <3>5
  <2>7. \A s, t \in DOMAIN cites : s < t => cites[s][1] < cites[t][1]
    BY <2>5 DEF Ledger
  <2> QED BY <2>4, <2>6, <2>7 DEF EveryEventIsCited
<1> QED BY <1>1, PipelineInvariance, PTL

-----------------------------------------------------------------------------
(* The linter and the policy engine *)

\* The paths of a step and of a package are sequences.
IsPath(path) == \E S : path \in Seq(S)
IsStep(step) == \A path \in CheckedPaths(step) : IsPath(path)
AreBases(permissions) == \A s \in permissions.read \cup permissions.write : IsPath(s.base)
IsPackage(draft) ==
  AreBases(draft.permissions) /\ \A i \in DOMAIN draft.steps : IsStep(draft.steps[i])

\* What the linter and the proposals see to: a path that is not peculiar is in a scope.
Admitted(path, scopes) ==
  \/ Peculiar(path)
  \/ /\ path # <<>> /\ path[1] # "" /\ ~Has(path, {".."})
     /\ \E s \in scopes : InScope(path, s) /\ s.base # <<>>
AdmittedStep(step, permissions) ==
  CASE step.kind = "exec" ->
         step.program \in permissions.executables
         /\ \A o \in step.outputs : Admitted(o, permissions.write)
    [] step.kind = "script" ->
         Admitted(step.path, permissions.read) /\ \A o \in step.outputs : Admitted(o, permissions.write)
    [] step.kind = "file" ->
         Admitted(step.from, permissions.read) /\ Admitted(step.to, permissions.write)
    [] OTHER -> Admitted(step.path, permissions.read)

\* A path inside a scope begins as the scope does.
LEMMA InScopeBegins ==
  ASSUME NEW path, IsPath(path), NEW scope, IsPath(scope.base), InScope(path, scope)
  PROVE  \A i \in DOMAIN scope.base : i \in DOMAIN path /\ path[i] = scope.base[i]
<1>1. PICK base : base = scope.base
  OBVIOUS
<1>6. PICK T : base \in Seq(T)
  BY <1>1 DEF IsPath
<1>7. PICK S : path \in Seq(S)
  BY DEF IsPath
<1>2. base \in Seq(T) /\ Len(base) \in Nat /\ DOMAIN base = 1..Len(base)
  BY <1>6
<1>3. path = base \/ (Len(path) > Len(base) /\ SubSeq(path, 1, Len(base)) = base)
  BY <1>1 DEF InScope, Under
<1>4. Len(path) \in Nat /\ DOMAIN path = 1..Len(path)
  BY <1>7
<1>5. ASSUME Len(path) > Len(base), SubSeq(path, 1, Len(base)) = base, NEW i \in 1..Len(base)
      PROVE  i \in 1..Len(path) /\ path[i] = base[i]
  <2>1. SubSeq(path, 1, Len(base)) = [k \in 1..(1 + Len(base) - 1) |-> path[k + 1 - 1]]
    BY <1>2, <1>7
  <2>2. i \in 1..Len(path)
    BY <1>2, <1>4, <1>5
  <2>3. base[i] = path[i + 1 - 1] /\ i + 1 - 1 = i
    BY <1>2, <1>5, <2>1
  <2> QED BY <2>2, <2>3
<1> QED BY ONLY <1>1, <1>2, <1>3, <1>4, <1>5

\* The engine refuses a peculiar path, and allows one that is not, inside its scope.
LEMMA PathForeseen ==
  ASSUME NEW path, IsPath(path), NEW code, NEW scopes, \A s \in scopes : IsPath(s.base),
         Admitted(path, scopes)
  PROVE  PathDecision(path, code, scopes) \in {"allowed"} \cup If("PKG007", Peculiar(path))
<1>1. CASE Peculiar(path)
  <2>1. ~SafePath(path)
    BY <1>1 DEF Peculiar, SafePath, Has
  <2> QED BY <1>1, <2>1 DEF PathDecision, If
<1>2. CASE ~Peculiar(path)
  <2>1. SafePath(path)
    BY <1>2 DEF Admitted, Peculiar, SafePath, Has
  <2>2. PICK s \in scopes : InScope(path, s) /\ s.base # <<>>
    BY <1>2 DEF Admitted
  <2>3. PICK base : base = s.base
    OBVIOUS
  <2>4. IsPath(base) /\ base # <<>>
    BY <2>2, <2>3
  <2>5. \A i \in DOMAIN base : i \in DOMAIN path /\ path[i] = base[i]
    BY <2>2, <2>3, <2>4, InScopeBegins
  <2>6. 1 \in DOMAIN base
    <3>1. PICK S : base \in Seq(S)
      BY <2>4 DEF IsPath
    <3> QED BY ONLY <2>4, <3>1
  <2>7. SafePath(base)
    BY ONLY <2>1, <2>4, <2>5, <2>6 DEF SafePath, Has
  <2> QED BY <2>1, <2>2, <2>3, <2>7 DEF PathDecision
<1> QED BY <1>1, <1>2

LEMMA CommandForeseen ==
  ASSUME NEW program, NEW permissions
  PROVE  CommandDecision(program, permissions) \in
           {"allowed", "dangerous", "invalid"} \cup If("PKG004", program \notin permissions.executables)
BY DEF CommandDecision, If

\* A step whose paths are admitted: the engine says nothing of it that is not foreseen.
LEMMA StepForeseen ==
  ASSUME NEW step, IsStep(step), NEW permissions, AreBases(permissions), AdmittedStep(step, permissions)
  PROVE  PolicyChecks(step, permissions) \subseteq Foreseen(step, permissions)
<1> DEFINE Fine == Foreseen(step, permissions)
<1>1. /\ \A s \in permissions.read : IsPath(s.base)
      /\ \A s \in permissions.write : IsPath(s.base)
  BY DEF AreBases
<1>2. ASSUME NEW path \in CheckedPaths(step), Admitted(path, permissions.read)
      PROVE  ReadDecision(path, permissions) \in Fine
  <2>1. IsPath(path)
    BY DEF IsStep
  <2>2. PathDecision(path, "PKG005", permissions.read) \in {"allowed"} \cup If("PKG007", Peculiar(path))
    BY ONLY <1>1, <1>2, <2>1, PathForeseen
  <2> QED BY <2>2 DEF ReadDecision, Foreseen, If
<1>3. ASSUME NEW path \in CheckedPaths(step), Admitted(path, permissions.write)
      PROVE  WriteDecision(path, permissions) \in Fine
  <2>1. IsPath(path)
    BY DEF IsStep
  <2>2. PathDecision(path, "PKG006", permissions.write) \in {"allowed"} \cup If("PKG007", Peculiar(path))
    BY ONLY <1>1, <1>3, <2>1, PathForeseen
  <2> QED BY <2>2 DEF WriteDecision, Foreseen, If
<1>4. CASE step.kind = "exec"
  <2>1. step.program \in permissions.executables /\ \A o \in step.outputs : Admitted(o, permissions.write)
    BY <1>4 DEF AdmittedStep
  <2>2. CheckedPaths(step) = step.outputs
    BY <1>4 DEF CheckedPaths
  <2>3. \A o \in step.outputs : WriteDecision(o, permissions) \in Fine
    BY <1>3, <2>1, <2>2
  <2>4. CommandDecision(step.program, permissions) \in Fine
    BY <2>1, CommandForeseen DEF Foreseen, If
  <2>5. PolicyChecks(step, permissions) = {CommandDecision(step.program, permissions)}
                                          \cup {WriteDecision(o, permissions) : o \in step.outputs}
    BY <1>4 DEF PolicyChecks
  <2> HIDE DEF Fine
  <2> QED BY <2>3, <2>4, <2>5 DEF Fine
<1>5. CASE step.kind = "script"
  <2>1. Admitted(step.path, permissions.read) /\ \A o \in step.outputs : Admitted(o, permissions.write)
    BY <1>5 DEF AdmittedStep
  <2>2. CheckedPaths(step) = {step.path} \cup step.outputs
    BY <1>5 DEF CheckedPaths
  <2>3. ReadDecision(step.path, permissions) \in Fine
        /\ \A o \in step.outputs : WriteDecision(o, permissions) \in Fine
    BY <1>2, <1>3, <2>1, <2>2
  <2>4. CommandDecision(step.path, permissions) \in Fine
    BY <1>5, CommandForeseen DEF Foreseen, If
  <2>5. PolicyChecks(step, permissions) =
          {ReadDecision(step.path, permissions), CommandDecision(step.path, permissions)}
          \cup {WriteDecision(o, permissions) : o \in step.outputs}
    BY <1>5 DEF PolicyChecks
  <2> HIDE DEF Fine
  <2> QED BY <2>3, <2>4, <2>5 DEF Fine
<1>6. CASE step.kind = "file"
  <2>1. Admitted(step.from, permissions.read) /\ Admitted(step.to, permissions.write)
    BY <1>6 DEF AdmittedStep
  <2>2. CheckedPaths(step) = {step.to} \cup IF step.operation = "mkdir" THEN {} ELSE {step.from}
    BY <1>6 DEF CheckedPaths
  <2>3. WriteDecision(step.to, permissions) \in Fine
        /\ (step.operation # "mkdir" => ReadDecision(step.from, permissions) \in Fine)
    BY <1>2, <1>3, <2>1, <2>2
  <2>4. PolicyChecks(step, permissions) =
          {WriteDecision(step.to, permissions)}
          \cup IF step.operation = "mkdir" THEN {} ELSE {ReadDecision(step.from, permissions)}
    BY <1>6 DEF PolicyChecks
  <2> HIDE DEF Fine
  <2> QED BY <2>3, <2>4 DEF Fine
<1>7. CASE step.kind \notin {"exec", "script", "file"}
  <2>1. Admitted(step.path, permissions.read)
    BY <1>7 DEF AdmittedStep
  <2>2. CheckedPaths(step) = {step.path}
    BY <1>7 DEF CheckedPaths
  <2>3. PolicyChecks(step, permissions) = {ReadDecision(step.path, permissions)}
    BY <1>7 DEF PolicyChecks
  <2> HIDE DEF Fine
  <2> QED BY <1>2, <2>1, <2>2, <2>3 DEF Fine
<1> QED BY <1>4, <1>5, <1>6, <1>7

LEMMA LintedScopes ==
  ASSUME NEW p, Lint(p) = {}
  PROVE  /\ \A s \in p.permissions.read \cup p.permissions.write : LintSafePath(s.base)
         /\ \A i \in DOMAIN p.steps : LintStep(p.steps[i], p) = {}
<1>1. LintScopes(p) = {} /\ \A i \in DOMAIN p.steps : LintStep(p.steps[i], p) = {}
  BY DEF Lint
<1>2. \A q \in p.manifest.outputs
               \cup {s.base : s \in p.permissions.read \cup p.permissions.write} : LintName(q, p.manifest) = {}
  BY <1>1 DEF LintScopes
<1>3. \A q : LintName(q, p.manifest) = {} => LintSafePath(q)
  BY DEF LintName, If
<1> QED BY <1>1, <1>2, <1>3

LEMMA PathLinted ==
  ASSUME NEW path, NEW code, NEW scopes, NEW manifest, LintPath(path, code, scopes, manifest) = {},
         \A s \in scopes : LintSafePath(s.base)
  PROVE  Admitted(path, scopes)
<1>1. LintName(path, manifest) = {} /\ \E s \in scopes : InScope(path, s)
  BY DEF LintPath, If
<1>2. LintSafePath(path)
  BY <1>1 DEF LintName, If
<1> QED BY <1>1, <1>2 DEF Admitted, LintSafePath

\* What the linter accepts is admitted.
LEMMA LintedStep ==
  ASSUME NEW p, NEW step, LintStep(step, p) = {},
         \A s \in p.permissions.read \cup p.permissions.write : LintSafePath(s.base)
  PROVE  AdmittedStep(step, p.permissions)
<1> DEFINE reads == p.permissions.read
           writes == p.permissions.write
           Read(path)  == LintPath(path, "PKG005", reads, p.manifest)
           Write(path) == LintPath(path, "PKG006", writes, p.manifest)
<1>1. ASSUME NEW path, Read(path) = {} PROVE Admitted(path, reads)
  BY <1>1, PathLinted
<1>2. ASSUME NEW path, Write(path) = {} PROVE Admitted(path, writes)
  BY <1>2, PathLinted
<1>3. LintOutputs(step, p) = {} => \A o \in step.outputs : Write(o) = {}
  BY DEF LintOutputs
<1>4. CASE step.kind = "exec"
  <2>1. step.program \in p.permissions.executables /\ LintOutputs(step, p) = {}
    BY <1>4 DEF LintStep, If
  <2> QED BY <1>2, <1>3, <1>4, <2>1 DEF AdmittedStep
<1>5. CASE step.kind = "script"
  <2>1. Read(step.path) = {} /\ LintOutputs(step, p) = {}
    BY <1>5 DEF LintStep
  <2> QED BY <1>1, <1>2, <1>3, <1>5, <2>1 DEF AdmittedStep
<1>6. CASE step.kind = "file"
  <2>1. Read(step.from) = {} /\ Write(step.to) = {}
    BY <1>6 DEF LintStep
  <2> QED BY <1>1, <1>2, <1>6, <2>1 DEF AdmittedStep
<1>7. CASE step.kind \notin {"exec", "script", "file"}
  <2>1. step.path # <<>> => Read(step.path) = {}
    BY <1>7 DEF LintStep
  <2>2. Admitted(<<>>, reads)
    BY DEF Admitted, Peculiar
  <2> QED BY <1>1, <1>7, <2>1, <2>2 DEF AdmittedStep
<1> QED BY <1>4, <1>5, <1>6, <1>7

LEMMA PackageForeseen ==
  ASSUME NEW draft, IsPackage(draft) PROVE LintCovers(draft)
<1> SUFFICES ASSUME Lint(draft) = {}, NEW i \in DOMAIN draft.steps
             PROVE  PolicyChecks(draft.steps[i], draft.permissions)
                      \subseteq Foreseen(draft.steps[i], draft.permissions)
  BY DEF LintCovers, AllForeseen
<1>1. PICK step : step = draft.steps[i]
  OBVIOUS
<1>2. LintStep(step, draft) = {}
      /\ \A s \in draft.permissions.read \cup draft.permissions.write : LintSafePath(s.base)
  BY <1>1, LintedScopes
<1>3. AdmittedStep(step, draft.permissions)
  BY ONLY <1>2, LintedStep
<1>4. IsStep(step) /\ AreBases(draft.permissions)
  BY <1>1 DEF IsPackage
<1>5. PolicyChecks(step, draft.permissions) \subseteq Foreseen(step, draft.permissions)
  BY ONLY <1>3, <1>4, StepForeseen
<1> QED BY <1>1, <1>5

LEMMA SeqIsPath == ASSUME NEW S, NEW path \in Seq(S) PROVE IsPath(path)
BY DEF IsPath

LEMMA ShortPaths == /\ IsPath(<<>>)
                    /\ \A a : IsPath(<<a>>)
                    /\ \A a, b : IsPath(<<a, b>>)
<1>1. \A a : IsPath(<<a>>)
  <2> TAKE a
  <2>1. PICK S : S = {a}
    OBVIOUS
  <2>2. <<a>> \in Seq(S)
    BY <2>1
  <2> QED BY <2>2, SeqIsPath
<1>2. \A a, b : IsPath(<<a, b>>)
  <2> TAKE a, b
  <2>1. PICK S : S = {a, b}
    OBVIOUS
  <2>2. <<a, b>> \in Seq(S)
    BY <2>1
  <2> QED BY <2>2, SeqIsPath
<1>3. IsPath(<<>>)
  <2>1. <<>> \in Seq({})
    OBVIOUS
  <2> QED BY <2>1, SeqIsPath
<1> QED BY <1>1, <1>2, <1>3

\* The compiler writes no path that is peculiar.
IsPlain(step)    == \A path \in CheckedPaths(step) : ~Peculiar(path)
IsFair(path)     == IsPath(path) /\ ~Peculiar(path)
IsFairStep(step) == \A path \in CheckedPaths(step) : IsFair(path)

\* The steps of a compiled package, and its scopes.
LEMMA CompiledIsAPackage ==
  ASSUME NEW operations \in Seq(Ops), NEW p, p = Compiled(operations)
  PROVE  /\ IsPackage(p)
         /\ DOMAIN p.steps = 1..Len(operations) /\ Len(operations) \in Nat
         /\ p.steps = [i \in 1..Len(operations) |-> p.steps[i]]
         /\ \A o \in p.manifest.outputs : IsPath(o)
         /\ \A i \in DOMAIN p.steps : p.steps[i].kind \in {"exec", "file", "assert"} /\ IsPlain(p.steps[i])
<1>1. DOMAIN operations = 1..Len(operations) /\ Len(operations) \in Nat
      /\ \A i \in DOMAIN operations : operations[i] \in ExecOps \cup FileOps
  BY DEF Ops
<1>2. \A q \in Paths : IsPath(Name[q])
         /\ (Recordable(Name[q]) /\ ~Has(Name[q], Backslashed) => ~Peculiar(Name[q]))
  <2> TAKE q \in Paths
  <2>1. Name[q] \in Seq(STRING)
    BY PathsAreNumbers
  <2>2. IsPath(Name[q])
    BY <2>1, SeqIsPath
  <2>3. Recordable(Name[q]) /\ ~Has(Name[q], Backslashed) => ~Peculiar(Name[q])
    BY NamesAssumption DEF Recordable, Peculiar, Has
  <2> QED BY <2>2, <2>3
<1>3. \A o \in FileOps : /\ o.kind \in {"created", "modified", "deleted", "moved"}
                         /\ IsFair(Name[o.path]) /\ (o.kind = "moved" => IsFair(Name[o.previous]))
  <2> TAKE o \in FileOps
  <2>1. o.path \in Paths /\ (o.kind = "moved" => o.previous \in Paths)
        /\ o.kind \in {"created", "modified", "deleted", "moved"} /\ Legible(o)
    BY DEF FileOps
  <2> QED BY <1>2, <2>1 DEF Legible, RecordablePaths, IsFair
<1>4. \A o \in ExecOps : o.kind = "exec"
  BY DEF ExecOps
<1>5. \A i \in DOMAIN operations : operations[i].kind # "exec" =>
         IsFair(Name[operations[i].path])
         /\ (operations[i].kind = "moved" => IsFair(Name[operations[i].previous]))
  BY <1>1, <1>3, <1>4
<1>6. \A s \in ReadScopes(operations) : IsPath(s.base)
  <2> TAKE s \in ReadScopes(operations)
  <2>1. PICK i \in DOMAIN operations :
           s \in (CASE operations[i].kind = "exec"  -> ExecReads(operations[i])
                    [] operations[i].kind = "moved" -> {Exactly(Name[operations[i].previous])}
                    [] OTHER                        -> {Exactly(Name[operations[i].path])})
    BY DEF ReadScopes
  <2>2. CASE operations[i].kind = "exec"
    <3>1. s \in ExecReads(operations[i])
      BY <2>1, <2>2
    <3>2. s = Below(<<"workspace">>) \/ s = Below(<<"inputs">>)
      BY <3>1 DEF ExecReads
    <3>3. s.base = <<"workspace">> \/ s.base = <<"inputs">>
      BY <3>2 DEF Below
    <3> QED BY <3>3, ShortPaths
  <2>3. CASE operations[i].kind # "exec"
    <3>1. s = Exactly(Name[operations[i].path])
          \/ (operations[i].kind = "moved" /\ s = Exactly(Name[operations[i].previous]))
      BY <2>1, <2>3
    <3> QED BY <1>5, <2>3, <3>1 DEF Exactly, IsFair
  <2> QED BY <2>2, <2>3
<1>7. \A e \in DOMAIN operations : \A q \in OutputsOf(operations, e) : IsFair(q)
  <2> TAKE e \in DOMAIN operations
  <2> TAKE q \in OutputsOf(operations, e)
  <2>1. PICK j \in DOMAIN operations : Declares(operations, j) /\ q = Name[operations[j].path]
    BY DEF OutputsOf
  <2>2. operations[j].kind # "exec"
    BY <2>1 DEF Declares
  <2> QED BY <1>5, <2>1, <2>2
<1>8. \A s \in WriteScopes(operations) : IsPath(s.base)
  <2> TAKE s \in WriteScopes(operations)
  <2>1. CASE \E e \in Execs(operations) : \E q \in OutputsOf(operations, e) : s = Exactly(q)
    BY <1>7, <2>1 DEF Exactly, Execs, IsFair
  <2>2. CASE \E j \in DOMAIN operations : operations[j].kind = "moved" /\ s = Exactly(Name[operations[j].path])
    BY <1>5, <2>2 DEF Exactly, IsFair
  <2> QED BY <2>1, <2>2 DEF WriteScopes
<1>9. p.permissions.read = ReadScopes(operations) /\ p.permissions.write = WriteScopes(operations)
      /\ p.steps = [i \in DOMAIN operations |-> StepOf(operations, i)]
  BY DEF Compiled
<1>10. \A i \in DOMAIN operations : IsFairStep(StepOf(operations, i))
  <2> TAKE i \in DOMAIN operations
  <2>1. CASE operations[i].kind = "exec"
    <3>1. CheckedPaths(StepOf(operations, i)) = OutputsOf(operations, i)
      BY <2>1 DEF StepOf, CheckedPaths
    <3> QED BY <1>7, <3>1 DEF IsFairStep
  <2>2. CASE operations[i].kind = "moved"
    <3>1. CheckedPaths(StepOf(operations, i)) \subseteq
            {Name[operations[i].path], Name[operations[i].previous]}
      BY <2>2 DEF StepOf, CheckedPaths
    <3> QED BY <1>5, <2>2, <3>1 DEF IsFairStep
  <2>3. CASE operations[i].kind \notin {"exec", "moved"}
    <3>1. CheckedPaths(StepOf(operations, i)) = {Name[operations[i].path]}
      <4>1. CASE operations[i].kind = "deleted"
        BY <4>1 DEF StepOf, CheckedPaths
      <4>2. CASE operations[i].kind # "deleted"
        BY <2>3, <4>2 DEF StepOf, CheckedPaths
      <4> QED BY <4>1, <4>2
    <3> QED BY <1>5, <2>3, <3>1 DEF IsFairStep
  <2> QED BY <2>1, <2>2, <2>3
<1>11. IsPackage(p)
  BY <1>6, <1>8, <1>9, <1>10 DEF IsPackage, AreBases, IsStep, IsFairStep, IsFair
<1>12. \A o \in p.manifest.outputs : IsPath(o)
  <2>1. p.manifest.outputs = UNION {OutputsOf(operations, e) : e \in Execs(operations)}
    BY DEF Compiled
  <2> QED BY <1>7, <2>1 DEF Execs, IsFair
<1>13. \A i \in DOMAIN operations : StepOf(operations, i).kind \in {"exec", "file", "assert"}
  <2> TAKE i \in DOMAIN operations
  <2>1. CASE operations[i].kind = "exec"
    BY <2>1 DEF StepOf
  <2>2. CASE operations[i].kind = "moved"
    BY <2>2 DEF StepOf
  <2>3. CASE operations[i].kind = "deleted"
    BY <2>3 DEF StepOf
  <2>4. CASE operations[i].kind \notin {"exec", "moved", "deleted"}
    BY <2>4 DEF StepOf
  <2> QED BY <2>1, <2>2, <2>3, <2>4
<1>14. \A i \in DOMAIN p.steps : p.steps[i].kind \in {"exec", "file", "assert"} /\ IsPlain(p.steps[i])
  BY <1>9, <1>10, <1>13 DEF IsPlain, IsFairStep, IsFair
<1> QED BY <1>1, <1>9, <1>11, <1>12, <1>14

\* One step more.
LEMMA StepsGrow ==
  ASSUME NEW steps, NEW n \in Nat, steps = [i \in 1..n |-> steps[i]], \A i \in 1..n : IsStep(steps[i]),
         NEW step, IsStep(step), NEW more, more = Append(steps, step)
  PROVE  \A i \in DOMAIN more : IsStep(more[i])
<1>1. PICK K : K = {steps[i] : i \in 1..n} \cup {step}
  OBVIOUS
<1>2. steps \in Seq(K) /\ step \in K
  BY <1>1
<1>3. \A i \in DOMAIN more : more[i] \in K
  BY ONLY <1>2, more = Append(steps, step)
<1>4. \A k \in K : IsStep(k)
  BY <1>1
<1> QED BY ONLY <1>3, <1>4

LEMMA OddPathsArePaths ==
  /\ IsPath(NewOutput) /\ IsPath(Name[1]) /\ IsPath(<<>>)
  /\ \A path \in Alone : IsPath(path)
  /\ \A name \in OddNames : IsPath(<<"outputs", name>>) /\ IsPath(<<"inputs", name>>)
<1>2. 1 \in Paths
  <2>1. Name # <<>> /\ Name \in Seq(Seq(STRING))
    BY NameAssumption
  <2> QED BY <2>1 DEF Paths
<1>3. IsPath(Name[1])
  BY <1>2, PathsAreNumbers, SeqIsPath
<1>4. IsPath(NewOutput) /\ IsPath(<<>>)
  BY ShortPaths DEF NewOutput
<1>5. \A path \in Alone : IsPath(path)
  <2> TAKE path \in Alone
  <2>1. \E name : path = <<name>>
    BY DEF Alone
  <2> QED BY <2>1, ShortPaths
<1>6. \A name \in OddNames : IsPath(<<"outputs", name>>) /\ IsPath(<<"inputs", name>>)
  BY ShortPaths
<1> QED BY ONLY <1>3, <1>4, <1>5, <1>6

LEMMA AddedAreSteps == \A step \in AddedSteps : IsStep(step)
<1> TAKE step \in AddedSteps
<1>1. CASE step \in [kind : {"file"}, operation : {"copy", "mkdir"}, from : {Name[1]}, to : {NewOutput}]
  <2>1. CheckedPaths(step) \subseteq {NewOutput, Name[1]}
    BY <1>1 DEF CheckedPaths
  <2> QED BY <2>1, OddPathsArePaths DEF IsStep
<1>2. CASE step \in [kind : {"exec"}, program : {<<"tool">>}, inputs : {{}}, outputs : {{NewOutput}}]
  <2>1. CheckedPaths(step) = {NewOutput}
    BY <1>2 DEF CheckedPaths
  <2> QED BY <2>1, OddPathsArePaths DEF IsStep
<1>3. CASE step \in [kind : {"script"}, path : {Name[1]}, inputs : {{}}, outputs : {{}}]
  <2>1. CheckedPaths(step) = {Name[1]}
    BY <1>3 DEF CheckedPaths
  <2> QED BY <2>1, OddPathsArePaths DEF IsStep
<1>4. CASE step \in [kind : {"assert"}, check : {"file_exists"}, hash : {Absent},
                    path : {<<>>} \cup Alone \cup {<<"outputs", name>> : name \in OddNames}]
  <2>1. CheckedPaths(step) = {step.path}
    BY <1>4 DEF CheckedPaths
  <2>2. step.path \in {<<>>} \cup Alone \cup {<<"outputs", name>> : name \in OddNames}
    BY <1>4
  <2>3. IsPath(step.path)
    BY <2>2, OddPathsArePaths
  <2> QED BY <2>1, <2>3 DEF IsStep
<1> QED BY <1>1, <1>2, <1>3, <1>4 DEF AddedSteps

LEMMA RevisionsArePackages ==
  ASSUME NEW operations \in Seq(Ops), NEW p, p = Compiled(operations), NEW draft \in {p} \cup Revisions(p)
  PROVE  IsPackage(draft)
<1>1. /\ IsPackage(p) /\ Len(operations) \in Nat
      /\ DOMAIN p.steps = 1..Len(operations)
      /\ p.steps = [i \in 1..Len(operations) |-> p.steps[i]]
  BY CompiledIsAPackage
<1>2. CASE draft = p
  BY <1>1, <1>2
<1>3. PICK steps, cites, permissions, manifest, lock :
        p = [steps |-> steps, cites |-> cites, permissions |-> permissions, manifest |-> manifest, lock |-> lock]
  BY DEF Compiled
<1>4. PICK reads, writes, programs :
        permissions = [read |-> reads, write |-> writes, executables |-> programs]
  BY <1>3 DEF Compiled
<1>5. PICK tools, scripts : lock = [tools |-> tools, scripts |-> scripts]
  BY <1>3 DEF Compiled
<1>6. CASE draft = [p EXCEPT !.permissions.read = {}] \/ draft = [p EXCEPT !.permissions.executables = {}]
  <2>1. draft.steps = p.steps /\ draft.permissions.write = p.permissions.write
        /\ (draft.permissions.read = p.permissions.read \/ draft.permissions.read = {})
    BY <1>3, <1>4, <1>6
  <2> QED BY <1>1, <2>1 DEF IsPackage, AreBases
<1>7. ASSUME NEW step \in AddedSteps, NEW scopes,
             \/ scopes = {}
             \/ \E reach \in {"all", "one"} : scopes = p.permissions.write \cup Wider(reach),
             draft = Revised(p, step, scopes)
      PROVE  IsPackage(draft)
  <2>1. PICK all : all = p.permissions.read \cup scopes
    OBVIOUS
  <2>2. PICK declared : declared = [inputs |-> {"order"}, outputs |-> p.manifest.outputs \cup {NewOutput}]
    OBVIOUS
  <2>3. PICK listed : listed = {Name[1]}
    OBVIOUS
  <2>4. draft = [p EXCEPT !.steps = Append(@, step), !.permissions.read = all, !.permissions.write = scopes,
                          !.manifest = declared, !.lock.scripts = listed]
    BY <1>7, <2>1, <2>2, <2>3 DEF Revised
  <2>5. draft.steps = Append(p.steps, step) /\ draft.permissions.write = scopes
        /\ draft.permissions.read = all
    BY ONLY <1>3, <1>4, <1>5, <2>4
  <2>6. \A reach : \A s \in Wider(reach) : IsPath(s.base)
    <3> TAKE reach
    <3> TAKE s \in Wider(reach)
    <3>1. (\E path \in Alone : s.base = path) \/ s.base = <<"outputs">>
      BY DEF Wider, Exactly
    <3> QED BY <3>1, OddPathsArePaths, ShortPaths
  <2>7. \A s \in scopes : IsPath(s.base)
    BY <1>1, <1>7, <2>6 DEF IsPackage, AreBases
  <2>8. AreBases(draft.permissions)
    BY <1>1, <2>1, <2>5, <2>7 DEF IsPackage, AreBases
  <2>9. \A i \in 1..Len(operations) : IsStep(p.steps[i])
    BY <1>1 DEF IsPackage
  <2>10. PICK old, more : old = p.steps /\ more = draft.steps
    OBVIOUS
  <2>11. old = [i \in 1..Len(operations) |-> old[i]] /\ (\A i \in 1..Len(operations) : IsStep(old[i]))
         /\ more = Append(old, step)
    BY <1>1, <2>5, <2>9, <2>10
  <2>12. IsStep(step)
    BY AddedAreSteps
  <2>13. \A i \in DOMAIN more : IsStep(more[i])
    BY ONLY <1>1, <2>11, <2>12, StepsGrow
  <2> QED BY <2>8, <2>10, <2>13 DEF IsPackage
<1>8. \/ draft = [p EXCEPT !.permissions.read = {}] \/ draft = [p EXCEPT !.permissions.executables = {}]
      \/ draft = p
      \/ \E step \in AddedSteps :
           \E scopes \in {{}} \cup {p.permissions.write \cup Wider(reach) : reach \in {"all", "one"}} :
              draft = Revised(p, step, scopes)
  BY DEF Revisions
<1> QED BY <1>2, <1>6, <1>7, <1>8

(* The linter and the policy engine each have a reading of paths and scopes
   of their own.  Of any package the linter accepts, however it was made, the
   engine stops a step for the reasons of Foreseen only: inside a scope that the
   linter accepts, the two readings differ on peculiar paths and nothing else.
   So it is of a compiled package, and of one a team has revised. *)
THEOREM LintedIsAllowed ==
  /\ \A draft : IsPackage(draft) => LintCovers(draft)
  /\ Spec => []LintMeansAllowed
<1>1. \A draft : IsPackage(draft) => LintCovers(draft)
  BY PackageForeseen
<1>2. IInv => LintMeansAllowed
  <2> SUFFICES ASSUME IInv, stage = "compiled", NEW draft \in {package} \cup Revisions(package)
               PROVE  LintCovers(draft)
    BY DEF LintMeansAllowed
  <2>1. PICK acc : acc = Operations(events)
    OBVIOUS
  <2>2. package = Compiled(acc.operations) /\ acc.operations \in Seq(Ops)
    BY <2>1, PackageIsScanned
  <2>3. IsPackage(draft)
    BY <2>2, RevisionsArePackages
  <2> QED BY <1>1, <2>3
<1>3. Spec => []LintMeansAllowed
  BY <1>2, PipelineInvariance, PTL
<1> QED BY <1>1, <1>3

-----------------------------------------------------------------------------
(* The proposals *)

LEMMA PathProposed ==
  ASSUME NEW path, NEW scopes, ProposedPath(path, scopes), \A s \in scopes : LintSafePath(s.base)
  PROVE  Admitted(path, scopes)
<1>1. PICK s \in scopes : ProposedInScope(path, s)
  BY DEF ProposedPath
<1>2. path # <<>> /\ path[1] # "" /\ ~Has(path, {".."})
  BY DEF ProposedPath, ProposedSafe, Has
<1>3. InScope(path, s)
  <2>1. CASE s.reach = "all"
    BY <1>1, <2>1 DEF ProposedInScope, InScope
  <2>2. CASE s.reach = "itself"
    BY <1>1, <2>2 DEF ProposedInScope, InScope
  <2>3. CASE s.reach \notin {"all", "itself"}
    BY <1>1, <2>3 DEF ProposedInScope
  <2> QED BY <2>1, <2>2, <2>3
<1>4. s.base # <<>>
  BY DEF LintSafePath
<1> QED BY <1>2, <1>3, <1>4 DEF Admitted

LEMMA ProposedStep ==
  ASSUME NEW step, NEW permissions, WithinCapabilities(step, permissions),
         \A s \in permissions.read \cup permissions.write : LintSafePath(s.base)
  PROVE  AdmittedStep(step, permissions)
<1>1. ASSUME NEW path, ProposedPath(path, permissions.read) PROVE Admitted(path, permissions.read)
  BY <1>1, PathProposed
<1>2. ASSUME NEW path, ProposedPath(path, permissions.write) PROVE Admitted(path, permissions.write)
  BY <1>2, PathProposed
<1>3. CASE step.kind = "exec"
  <2>1. step.program \in permissions.executables
        /\ \A o \in step.outputs : ProposedPath(o, permissions.write)
    BY <1>3 DEF WithinCapabilities
  <2> QED BY <1>2, <1>3, <2>1 DEF AdmittedStep
<1>4. CASE step.kind = "script"
  <2>1. ProposedPath(step.path, permissions.read)
        /\ \A o \in step.outputs : ProposedPath(o, permissions.write)
    BY <1>4 DEF WithinCapabilities
  <2> QED BY <1>1, <1>2, <1>4, <2>1 DEF AdmittedStep
<1>5. CASE step.kind = "file"
  <2>1. ProposedPath(step.from, permissions.read) /\ ProposedPath(step.to, permissions.write)
    BY <1>5 DEF WithinCapabilities
  <2> QED BY <1>1, <1>2, <1>5, <2>1 DEF AdmittedStep
<1>6. CASE step.kind \notin {"exec", "script", "file"}
  <2>1. step.path = <<>> \/ ProposedPath(step.path, permissions.read)
    BY <1>6 DEF WithinCapabilities
  <2>2. Admitted(<<>>, permissions.read)
    BY DEF Admitted, Peculiar
  <2> QED BY <1>1, <1>6, <2>1, <2>2 DEF AdmittedStep
<1> QED BY <1>3, <1>4, <1>5, <1>6

\* The paths of a proposal are sequences of names.
IsProposal(proposal) == \A i \in DOMAIN proposal.workflow : IsStep(proposal.workflow[i].step)

\* Whatever a proposal says: what is accepted of it stays inside its base.
LEMMA AcceptedStaysInside ==
  ASSUME NEW operations, NEW base, base = Compiled(operations), AreBases(base.permissions), Lint(base) = {},
         NEW tape, Accounted(base, tape),
         NEW proposal, Acceptable(base, proposal, PolicyFrom(base)), IsProposal(proposal),
         NEW result, result = Proposed(base, proposal)
  PROVE  /\ AllForeseen(result.steps, result.permissions)
         /\ Accounted(result, tape)
         /\ PolicyFrom(result).events \subseteq PolicyFrom(base).events
<1>1. PICK workflow : workflow = proposal.workflow
  OBVIOUS
<1>2. PICK sources : sources = Sources(base, proposal)
  OBVIOUS
<1>3. PICK known : known = PolicyFrom(base).events
  OBVIOUS
<1>4. PolicyFrom(base).permissions = base.permissions
      /\ known = UNION {ToSet(c) : c \in ToSet(base.cites)}
  BY <1>3 DEF PolicyFrom
<1>5. /\ Sourced(workflow, sources, known)
      /\ \A s \in ToSet(workflow) : WithinCapabilities(s.step, base.permissions)
  BY <1>1, <1>2, <1>3, <1>4 DEF Acceptable
<1>6. PICK cites : cites = [i \in DOMAIN workflow |-> (CHOOSE p \in sources : p.id = workflow[i].id).cites]
  OBVIOUS
<1>7. PICK steps : steps = [i \in DOMAIN workflow |-> workflow[i].step]
  OBVIOUS
<1>8. result = [base EXCEPT !.steps = steps, !.cites = cites]
  BY <1>1, <1>2, <1>6, <1>7 DEF Proposed
<1>9. result.steps = steps /\ result.cites = cites /\ result.permissions = base.permissions
  <2>1. PICK s, c, permissions, manifest, lock :
          base = [steps |-> s, cites |-> c, permissions |-> permissions, manifest |-> manifest, lock |-> lock]
    BY DEF Compiled
  <2> QED BY ONLY <1>8, <2>1
<1>10. \A s \in base.permissions.read \cup base.permissions.write : LintSafePath(s.base)
  BY LintedScopes
<1>11. ASSUME NEW i \in DOMAIN workflow
       PROVE  PolicyChecks(workflow[i].step, base.permissions)
                \subseteq Foreseen(workflow[i].step, base.permissions)
  <2>1. workflow[i] \in ToSet(workflow)
    BY DEF ToSet
  <2>2. WithinCapabilities(workflow[i].step, base.permissions)
    BY <1>1, <1>5, <2>1
  <2>3. IsStep(workflow[i].step) /\ AreBases(base.permissions)
    BY <1>1 DEF IsProposal
  <2>4. AdmittedStep(workflow[i].step, base.permissions)
    BY <1>10, <2>2, ProposedStep
  <2> QED BY ONLY <2>3, <2>4, StepForeseen
<1>12. AllForeseen(result.steps, result.permissions)
  <2>1. DOMAIN steps = DOMAIN workflow /\ \A i \in DOMAIN workflow : steps[i] = workflow[i].step
    BY <1>7
  <2> QED BY <1>9, <1>11, <2>1 DEF AllForeseen
<1>13. known \subseteq DOMAIN tape
  <2>1. \A i \in DOMAIN base.cites : ToSet(base.cites[i]) \subseteq DOMAIN tape
    BY DEF Accounted
  <2> QED BY <1>4, <2>1 DEF ToSet
<1>14. ASSUME NEW i \in DOMAIN cites
       PROVE  /\ cites[i] # <<>> /\ (\A k \in 1..(Len(cites[i]) - 1) : cites[i][k] < cites[i][k + 1])
              /\ ToSet(cites[i]) \subseteq known
  <2>1. i \in DOMAIN workflow /\ workflow[i] \in ToSet(workflow)
    BY <1>6 DEF ToSet
  <2>2. Cardinality({p \in sources : p.id = workflow[i].id}) = 1
    BY <1>5, <2>1 DEF Sourced
  <2>3. {p \in sources : p.id = workflow[i].id} # {}
    BY <2>2, FS_EmptySet
  <2>4. PICK p \in sources : p = CHOOSE q \in sources : q.id = workflow[i].id
    BY <2>3
  <2>5. cites[i] = p.cites
    BY <1>6, <2>1, <2>4
  <2> QED BY <1>5, <2>5 DEF Sourced
<1>15. Accounted(result, tape)
  BY <1>9, <1>13, <1>14 DEF Accounted
<1>16. PolicyFrom(result).events \subseteq known
  <2>1. PolicyFrom(result).events = UNION {ToSet(c) : c \in ToSet(cites)}
    BY <1>9 DEF PolicyFrom
  <2>2. \A c \in ToSet(cites) : ToSet(c) \subseteq known
    <3> TAKE c \in ToSet(cites)
    <3>1. PICK i \in DOMAIN cites : c = cites[i]
      BY DEF ToSet
    <3> QED BY <1>14, <3>1
  <2> QED BY <2>1, <2>2
<1> QED BY <1>3, <1>12, <1>15, <1>16

LEMMA NewAreSteps ==
  ASSUME NEW base, \A o \in base.manifest.outputs : IsPath(o), NEW step \in NewSteps(base)
  PROVE  IsStep(step)
<1> DEFINE places == {Name[1]} \cup base.manifest.outputs
<1>1. \A place \in places : IsPath(place)
  BY OddPathsArePaths
<1>2. CASE step \in [kind : {"exec"}, program : {<<"tool">>}, inputs : {{}}, outputs : {{place} : place \in places}]
  <2>1. CheckedPaths(step) = step.outputs /\ \E place \in places : step.outputs = {place}
    BY <1>2 DEF CheckedPaths
  <2> QED BY <1>1, <2>1 DEF IsStep
<1>3. CASE step \in [kind : {"file"}, operation : {"copy"}, from : {Name[1]}, to : places]
  <2>1. CheckedPaths(step) \subseteq places
    BY <1>3 DEF CheckedPaths
  <2> QED BY <1>1, <2>1 DEF IsStep
<1>4. CASE step \in [kind : {"script"}, path : {Name[1]}, inputs : {{}}, outputs : {{}}]
  <2>1. CheckedPaths(step) \subseteq places
    BY <1>4 DEF CheckedPaths
  <2> QED BY <1>1, <2>1 DEF IsStep
<1>5. CASE step \in [kind : {"assert"}, check : {"file_exists"}, hash : {Absent},
                    path : {<<>>} \cup {<<"inputs", name>> : name \in Backslashed \cup Controlled}]
  <2>1. CheckedPaths(step) = {step.path}
    BY <1>5 DEF CheckedPaths
  <2>2. IsPath(step.path)
    BY <1>5, OddPathsArePaths DEF OddNames
  <2> QED BY <2>1, <2>2 DEF IsStep
<1> QED BY <1>2, <1>3, <1>4, <1>5 DEF NewSteps

LEMMA ProposalsAreProposals ==
  ASSUME NEW base, NEW n \in Nat, DOMAIN base.steps = 1..n, base.steps = [i \in 1..n |-> base.steps[i]],
         \A i \in 1..n : IsStep(base.steps[i]), \A o \in base.manifest.outputs : IsPath(o),
         NEW proposal \in Proposals(base)
  PROVE  IsProposal(proposal)
<1>0. n \in Nat
  OBVIOUS
<1>1. PICK kept : kept = Kept(base)
  OBVIOUS
<1>2. Len(base.steps) = n
  OBVIOUS
<1>3. kept = [i \in 1..n |-> [id |-> i, step |-> base.steps[i]]]
  BY <1>1, <1>2 DEF Kept
<1>4. \A step \in NewSteps(base) : IsStep(step)
  BY NewAreSteps
<1>5. ASSUME NEW step \in NewSteps(base), proposal = Changing(base, step)
      PROVE  IsProposal(proposal)
  <2>1. PICK last : last = [id |-> n, step |-> step]
    OBVIOUS
  <2>2. proposal.workflow = [kept EXCEPT ![n] = last]
    BY <1>1, <1>2, <1>5, <2>1 DEF Changing
  <2>3. last.step = step
    BY <2>1
  <2>4. PICK workflow : workflow = proposal.workflow
    OBVIOUS
  <2>5. DOMAIN kept = 1..n /\ \A i \in 1..n : IsStep(kept[i].step)
    BY <1>3
  <2>6. IsStep(last.step)
    BY <1>4, <2>3
  <2>7. workflow = [kept EXCEPT ![n] = last]
    BY <2>2, <2>4
  <2>8. \A i \in DOMAIN workflow : IsStep(workflow[i].step)
    BY ONLY <2>5, <2>6, <2>7
  <2> QED BY ONLY <2>4, <2>8 DEF IsProposal
<1>6. ASSUME NEW step \in NewSteps(base), NEW event, proposal = Adding(base, step, event)
      PROVE  IsProposal(proposal)
  <2>1. PICK last : last = [id |-> n + 1, step |-> step]
    OBVIOUS
  <2>2. proposal.workflow = Append(kept, last)
    BY <1>1, <1>2, <1>6, <2>1 DEF Adding
  <2>3. PICK K : K = {kept[i] : i \in 1..n} \cup {last}
    OBVIOUS
  <2>4. kept \in Seq(K) /\ last \in K
    <3>1. DOMAIN kept = 1..n /\ kept = [i \in 1..n |-> kept[i]]
      BY <1>3
    <3>2. \A i \in 1..n : kept[i] \in K
      BY ONLY <2>3
    <3>3. last \in K
      BY ONLY <2>3
    <3>4. kept \in Seq(K)
      BY ONLY <1>0, <3>1, <3>2
    <3> QED BY ONLY <3>3, <3>4
  <2>5. \A k \in K : IsStep(k.step)
    BY <1>3, <1>4, <2>1, <2>3
  <2>6. PICK workflow : workflow = proposal.workflow
    OBVIOUS
  <2>7. workflow = Append(kept, last)
    BY <2>2, <2>6
  <2>8. \A i \in DOMAIN workflow : workflow[i] \in K
    BY ONLY <2>4, <2>7
  <2>9. \A i \in DOMAIN workflow : IsStep(workflow[i].step)
    BY ONLY <2>5, <2>8
  <2> QED BY ONLY <2>6, <2>9 DEF IsProposal
<1>7. (\E step \in NewSteps(base) : proposal = Changing(base, step))
      \/ \E step \in NewSteps(base), event \in {1, Len(events)} : proposal = Adding(base, step, event)
  BY DEF Proposals
<1> QED BY <1>5, <1>6, <1>7

EveryProposalStaysInside ==
  stage = "compiled" => \A proposal : IsProposal(proposal) => StaysInside(proposal)

(* apply_proposal checks the paths of a proposal with a third reading of paths
   and scopes.  Of what it accepts, whatever is proposed, the engine stops a
   step for the reasons of Foreseen only, and it cites events the package
   cites.  So it is of the proposals that are tried. *)
THEOREM ProposalsAreInside == Spec => [](EveryProposalStaysInside /\ ProposalsStayInside)
<1>1. ASSUME IInv, stage = "compiled"
      PROVE  /\ \A proposal : IsProposal(proposal) => StaysInside(proposal)
             /\ \A proposal \in Proposals(package) : IsProposal(proposal)
  <2>1. PICK acc : acc = Operations(events)
    OBVIOUS
  <2>2. /\ package = Compiled(acc.operations) /\ acc.operations \in Seq(Ops)
        /\ Accounted(package, events) /\ Lint(package) = {}
    BY <1>1, <2>1, PackageIsScanned
  <2>3. /\ IsPackage(package)
        /\ DOMAIN package.steps = 1..Len(acc.operations) /\ Len(acc.operations) \in Nat
        /\ package.steps = [i \in 1..Len(acc.operations) |-> package.steps[i]]
        /\ \A o \in package.manifest.outputs : IsPath(o)
    BY <2>2, CompiledIsAPackage
  <2>4. AreBases(package.permissions) /\ \A i \in 1..Len(acc.operations) : IsStep(package.steps[i])
    BY <2>3 DEF IsPackage
  <2>5. ASSUME NEW proposal, IsProposal(proposal) PROVE StaysInside(proposal)
    <3>1. ASSUME Acceptable(package, proposal, PolicyFrom(package)),
                 NEW result, result = Proposed(package, proposal)
          PROVE  /\ AllForeseen(result.steps, result.permissions)
                 /\ Accounted(result, events)
                 /\ PolicyFrom(result).events \subseteq PolicyFrom(package).events
      BY <2>2, <2>4, <2>5, <3>1, AcceptedStaysInside
    <3> QED BY <3>1 DEF StaysInside
  <2>6. ASSUME NEW proposal \in Proposals(package) PROVE IsProposal(proposal)
    BY <2>3, <2>4, ProposalsAreProposals
  <2> QED BY <2>5, <2>6
<1>2. IInv => EveryProposalStaysInside /\ ProposalsStayInside
  BY <1>1 DEF EveryProposalStaysInside, ProposalsStayInside
<1> QED BY <1>2, PipelineInvariance, PTL

-----------------------------------------------------------------------------
(* The replay: what the commands did *)

\* The files after every edit.
Becomes(files, edits, result) ==
  \E after : /\ result = after[Len(edits)]
             /\ after[0] = files
             /\ \A n \in 1..Len(edits) : after[n] = Edited(after[n - 1], edits[n])

LEMMA EditedByIs ==
  ASSUME NEW T, NEW edits \in Seq(T), NEW files, NEW result, result = EditedBy(files, edits)
  PROVE  Becomes(files, edits, result)
<1> DEFINE N == Len(edits)
           Step(old, n) == Edited(old, edits[n])
           Is(f, m) == f = [n \in 0..m |-> IF n = 0 THEN files ELSE Step(f[n - 1], n)]
           S == {m \in Nat : \E f : Is(f, m)}
<1>6. result = (CHOOSE f : Is(f, N))[N]
  BY DEF EditedBy
<1>7. \A old, n : Step(old, n) = Edited(old, edits[n])
  OBVIOUS
<1> HIDE DEF Step
<1>1. 0 \in S
  <2> DEFINE f == [n \in 0..0 |-> files]
  <2>1. Is(f, 0)
    OBVIOUS
  <2> HIDE DEF Is, f
  <2> QED BY <2>1
<1>2. ASSUME NEW m \in Nat, m \in S PROVE m + 1 \in S
  <2>1. PICK f : Is(f, m)
    BY <1>2
  <2> DEFINE g == [n \in 0..(m + 1) |-> IF n = m + 1 THEN Step(f[m], n) ELSE f[n]]
  <2>2. \A n \in 0..m : f[n] = IF n = 0 THEN files ELSE Step(f[n - 1], n)
    BY <2>1
  <2>3. \A n \in 0..(m + 1) : g[n] = IF n = 0 THEN files ELSE Step(g[n - 1], n)
    <3> TAKE n \in 0..(m + 1)
    <3>1. CASE n = m + 1
      BY <3>1
    <3>2. CASE n \in 1..m
      <4>1. n # m + 1 /\ n \in 0..m /\ n - 1 # m + 1 /\ n - 1 \in 0..(m + 1) /\ n # 0
        BY <3>2
      <4> QED BY <2>2, <4>1
    <3>3. CASE n = 0
      BY <2>2, <3>3
    <3> QED BY <3>1, <3>2, <3>3
  <2>4. g = [n \in 0..(m + 1) |-> g[n]]
    OBVIOUS
  <2> HIDE DEF g
  <2>5. Is(g, m + 1)
    BY <2>3, <2>4
  <2> HIDE DEF Is
  <2> QED BY <2>5
<1>3. Nat \subseteq S
  <2> HIDE DEF S
  <2> QED BY <1>1, <1>2, Induction
<1>4. N \in Nat
  OBVIOUS
<1>5. PICK after : after = (CHOOSE f : Is(f, N)) /\ Is(after, N)
  <2> HIDE DEF Is, N
  <2>1. \E f : Is(f, N)
    BY <1>3, <1>4
  <2> QED BY <2>1
<1>8. after[0] = files /\ \A n \in 1..N : after[n] = Step(after[n - 1], n)
  BY <1>4, <1>5
<1>9. \A n \in 1..Len(edits) : after[n] = Edited(after[n - 1], edits[n])
  BY <1>7, <1>8
<1> HIDE DEF Is, S
<1>10. result = after[Len(edits)] /\ after[0] = files
  BY <1>5, <1>6, <1>8
<1> QED BY ONLY <1>9, <1>10 DEF Becomes

LEMMA NoEdits == ASSUME NEW files, NEW edits, edits = <<>> PROVE EditedBy(files, edits) = files
<1>1. PICK result : result = EditedBy(files, edits)
  OBVIOUS
<1>2. edits \in Seq({}) /\ Len(edits) = 0
  OBVIOUS
<1>3. Becomes(files, edits, result)
  BY ONLY <1>1, <1>2, EditedByIs
<1> QED BY <1>1, <1>2, <1>3 DEF Becomes

LEMMA OneMoreEdit ==
  ASSUME NEW T, NEW edits \in Seq(T), NEW e \in T, NEW files, NEW more, more = Append(edits, e)
  PROVE  EditedBy(files, more) = Edited(EditedBy(files, edits), e)
<1>1. PICK first, second : first = EditedBy(files, edits) /\ second = EditedBy(files, more)
  OBVIOUS
<1>2. PICK N : N = Len(edits)
  OBVIOUS
<1>3. /\ N \in Nat /\ more \in Seq(T) /\ Len(more) = N + 1 /\ more[N + 1] = e
      /\ \A n \in 1..N : more[n] = edits[n]
  BY <1>2
<1>4. PICK f : /\ first = f[N] /\ f[0] = files
               /\ \A n \in 1..N : f[n] = Edited(f[n - 1], edits[n])
  <2>1. Becomes(files, edits, first)
    BY ONLY edits \in Seq(T), <1>1, EditedByIs
  <2> QED BY ONLY <1>2, <2>1 DEF Becomes
<1>5. PICK g : /\ second = g[N + 1] /\ g[0] = files
               /\ \A n \in 1..(N + 1) : g[n] = Edited(g[n - 1], more[n])
  <2>1. Becomes(files, more, second)
    BY ONLY <1>1, <1>3, EditedByIs
  <2> QED BY ONLY <1>3, <2>1 DEF Becomes
<1> DEFINE S == {n \in Nat : n <= N => g[n] = f[n]}
<1>6. 0 \in S
  BY <1>4, <1>5
<1>7. ASSUME NEW n \in Nat, n \in S PROVE n + 1 \in S
  <2> SUFFICES ASSUME n + 1 <= N PROVE g[n + 1] = f[n + 1]
    OBVIOUS
  <2>1. n + 1 \in 1..N /\ n + 1 \in 1..(N + 1) /\ (n + 1) - 1 = n /\ n <= N
    BY <1>3
  <2>2. g[n] = f[n] /\ more[n + 1] = edits[n + 1]
    BY <1>3, <1>7, <2>1
  <2>3. g[n + 1] = Edited(g[n], more[n + 1]) /\ f[n + 1] = Edited(f[n], edits[n + 1])
    BY ONLY <1>4, <1>5, <2>1
  <2> QED BY ONLY <2>2, <2>3
<1>8. Nat \subseteq S
  <2> HIDE DEF S
  <2> QED BY <1>6, <1>7, Induction
<1>9. g[N] = f[N]
  BY <1>3, <1>8
<1>10. g[N + 1] = Edited(g[N], more[N + 1])
  <2>1. N + 1 \in 1..(N + 1) /\ (N + 1) - 1 = N
    BY <1>3
  <2> QED BY ONLY <1>5, <2>1
<1> QED BY <1>1, <1>3, <1>4, <1>5, <1>9, <1>10

-----------------------------------------------------------------------------
(* The replay: the files after every operation *)

\* What Unmoved says of the operations alone.
Follows(ops, index, edits, count, files, now, told) ==
  /\ Course(ops, edits, count, files)
  /\ \A n \in 0..Len(ops) : count[n] = Len(edits) => files[n] = now
  /\ \A n \in 1..Len(ops) : count[n] # Len(edits) => AsRecorded(files[n - 1], ops[n])
  /\ \A n \in 1..Len(ops) : count[n] = Len(edits) /\ ops[n].kind # "exec" =>
        ops[n].kind # "moved" /\ Shows(told, ops[n]) /\ index[ops[n].path] = n
  /\ \A p \in Paths : index[p] # 0 =>
        count[index[p]] = Len(edits) /\ ops[index[p]].kind # "exec" /\ ops[index[p]].path = p

LEMMA FollowsIs ==
  ASSUME NEW acc, NEW edits, NEW count, NEW files, NEW now, NEW told
  PROVE  Unmoved(acc, edits, count, files, now, told)
           <=> Follows(acc.operations, acc.index, edits, count, files, now, told)
BY DEF Unmoved, Follows

LEMMA DoneAlike ==
  ASSUME NEW files, NEW o, o.kind # "exec", NEW a, NEW b
  PROVE  Done(files, o, a) = Done(files, o, b)
BY DEF Done

LEMMA DoneIs ==
  ASSUME NEW files, NEW o, NEW edits
  PROVE  /\ o.kind = "exec" => Done(files, o, edits) = EditedBy(files, edits)
         /\ o.kind = "moved" => Done(files, o, edits) =
              [files EXCEPT ![o.previous] = Absent, ![o.path] = files[o.previous]]
         /\ o.kind # "exec" /\ o.kind # "moved" => Done(files, o, edits) = files
<1>1. CASE o.kind = "exec"
  BY <1>1 DEF Done
<1>2. CASE o.kind = "moved"
  BY <1>2 DEF Done
<1>3. CASE o.kind # "exec" /\ o.kind # "moved"
  BY <1>3 DEF Done
<1> QED BY <1>1, <1>2, <1>3

LEMMA StoodStill ==
  ASSUME NEW ops, Len(ops) \in Nat, NEW index, NEW edits, Len(edits) \in Nat, NEW count, NEW files, NEW now,
         Follows(ops, index, edits, count, files, now, now)
  PROVE  /\ Course(ops, edits, count, files)
         /\ \A n \in 1..Len(ops) : AsRecorded(files[n - 1], ops[n])
         /\ files[Len(ops)] = now
<1>1. Course(ops, edits, count, files) /\ files[Len(ops)] = now
  BY DEF Follows, Course
<1>2. ASSUME NEW n \in 1..Len(ops) PROVE AsRecorded(files[n - 1], ops[n])
  <2>1. CASE count[n] # Len(edits)
    BY <2>1 DEF Follows
  <2>2. CASE ops[n].kind = "exec"
    BY <2>2 DEF AsRecorded
  <2>3. CASE count[n] = Len(edits) /\ ops[n].kind # "exec"
    <3>1. ops[n].kind # "moved" /\ Shows(now, ops[n])
      BY <2>3 DEF Follows
    <3>2. count[n - 1] = Len(edits) /\ n - 1 \in 0..Len(ops)
      BY <1>1, <2>3 DEF Course
    <3>3. files[n - 1] = now
      BY <3>2 DEF Follows
    <3> QED BY <2>3, <3>1, <3>3 DEF AsRecorded
  <2> QED BY <2>1, <2>2, <2>3
<1> QED BY <1>1, <1>2

\* The operations of a scan, and one more.
OneMore(more, ops, o) ==
  /\ Len(ops) \in Nat /\ Len(more) = Len(ops) + 1
  /\ \A n \in 1..Len(ops) : more[n] = ops[n]
  /\ more[Len(ops) + 1] = o

\* What was done, with one more command if that is the next operation.
Longer(again, edits, o) ==
  /\ Len(again) \in {Len(edits), Len(edits) + 1}
  /\ \A k \in 1..Len(edits) : again[k] = edits[k]
  /\ Len(again) = Len(edits) + 1 <=> o.kind = "exec"

\* One value more than there were.
Extended(g, old, n, last) == g = [m \in 0..(n + 1) |-> IF m = n + 1 THEN last ELSE old[m]]

\* A step after the last one.
LEMMA CourseGrows ==
  ASSUME NEW ops, NEW more, NEW o, OneMore(more, ops, o),
         NEW edits, Len(edits) \in Nat, NEW count, NEW files, Course(ops, edits, count, files),
         NEW again, Longer(again, edits, o),
         NEW now, now = Done(files[Len(ops)], o, again[Len(again)]),
         NEW c, Extended(c, count, Len(ops), Len(again)), NEW f, Extended(f, files, Len(ops), now)
  PROVE  Course(more, again, c, f)
<1> /\ Len(again) \in {Len(edits), Len(edits) + 1}
    /\ \A k \in 1..Len(edits) : again[k] = edits[k]
    /\ Len(again) = Len(edits) + 1 <=> o.kind = "exec"
  BY DEF Longer
<1> /\ c = [n \in 0..(Len(ops) + 1) |-> IF n = Len(ops) + 1 THEN Len(again) ELSE count[n]]
    /\ f = [n \in 0..(Len(ops) + 1) |-> IF n = Len(ops) + 1 THEN now ELSE files[n]]
  BY DEF Extended
<1> DEFINE N == Len(ops)
           L == Len(edits)
<1>1. /\ N \in Nat /\ Len(more) = N + 1 /\ L \in Nat
      /\ \A n \in 1..N : more[n] = ops[n]
      /\ more[N + 1] = o
  BY DEF OneMore
<1>2. /\ count[0] = 0 /\ files[0] = Begin /\ count[N] = L
      /\ \A n \in 0..N : count[n] \in 0..L
      /\ \A n \in 1..N : /\ count[n] = IF ops[n].kind = "exec" THEN count[n - 1] + 1 ELSE count[n - 1]
                         /\ files[n] = Done(files[n - 1], ops[n], edits[count[n]])
  BY DEF Course
<1>3. /\ \A n \in 0..N : c[n] = count[n] /\ f[n] = files[n] /\ n \in 0..(N + 1)
      /\ c[N + 1] = Len(again) /\ f[N + 1] = now
  BY <1>1
<1> HIDE DEF N, L
<1>4. ASSUME NEW n \in 1..N
      PROVE  /\ c[n] = IF more[n].kind = "exec" THEN c[n - 1] + 1 ELSE c[n - 1]
             /\ f[n] = Done(f[n - 1], more[n], again[c[n]])
  <2>1. n \in 0..N /\ n - 1 \in 0..N
    BY <1>1
  <2>2. c[n] = count[n] /\ c[n - 1] = count[n - 1] /\ f[n] = files[n] /\ f[n - 1] = files[n - 1]
        /\ more[n] = ops[n]
    BY <1>1, <1>3, <2>1
  <2>3. Done(files[n - 1], ops[n], edits[count[n]]) = Done(files[n - 1], ops[n], again[count[n]])
    <3>1. CASE ops[n].kind # "exec"
      BY ONLY <3>1, DoneAlike
    <3>2. CASE ops[n].kind = "exec"
      <4>1. count[n] \in 1..L
        <5>1. count[n] = count[n - 1] + 1 /\ count[n - 1] \in 0..L /\ count[n] \in 0..L
          BY ONLY <1>2, <2>1, <3>2, n \in 1..N
        <5> QED BY ONLY <1>1, <5>1
      <4> QED BY <4>1 DEF L
    <3> QED BY <3>1, <3>2
  <2> QED BY <1>2, <2>2, <2>3
<1>5. /\ c[N + 1] = IF more[N + 1].kind = "exec" THEN c[N] + 1 ELSE c[N]
      /\ f[N + 1] = Done(f[N], more[N + 1], again[c[N + 1]])
  <2>1. N \in 0..N
    BY <1>1
  <2>2. c[N] = L /\ f[N] = files[N]
    BY <1>2, <1>3, <2>1
  <2>3. Len(again) = IF o.kind = "exec" THEN L + 1 ELSE L
    BY DEF L
  <2>4. c[N + 1] = Len(again) /\ f[N + 1] = now /\ more[N + 1] = o
    BY <1>1, <1>3
  <2>5. now = Done(files[N], o, again[Len(again)])
    BY DEF N
  <2> QED BY ONLY <2>2, <2>3, <2>4, <2>5
<1>6. \A n \in 1..(N + 1) : (n \in 1..N \/ n = N + 1) /\ (N + 1) - 1 = N
  BY <1>1
<1>7. \A n \in 1..(N + 1) : /\ c[n] = IF more[n].kind = "exec" THEN c[n - 1] + 1 ELSE c[n - 1]
                            /\ f[n] = Done(f[n - 1], more[n], again[c[n]])
  <2> TAKE n \in 1..(N + 1)
  <2>1. CASE n \in 1..N
    BY ONLY <1>4, <2>1
  <2>2. CASE n = N + 1
    BY ONLY <1>5, <1>6, <2>2
  <2> QED BY ONLY <1>6, <2>1, <2>2, n \in 1..(N + 1)
<1>8. c[0] = 0 /\ f[0] = Begin /\ \A n \in 0..(N + 1) : c[n] \in 0..Len(again)
  <2>1. \A n \in 0..(N + 1) : n \in 0..N \/ n = N + 1
    BY <1>1
  <2>2. \A n \in 0..N : count[n] \in 0..Len(again)
    BY <1>1, <1>2 DEF L
  <2>3. Len(again) \in 0..Len(again) /\ 0 \in 0..N
    BY <1>1 DEF L
  <2> QED BY ONLY <1>2, <1>3, <2>1, <2>2, <2>3
<1> QED BY ONLY <1>1, <1>3, <1>7, <1>8 DEF Course

\* All operations are as they were recorded, for some course of them; all but the last command's.
Recounts(ops, edits, count, files, now) ==
  /\ Course(ops, edits, count, files)
  /\ \A n \in 1..Len(ops) : AsRecorded(files[n - 1], ops[n])
  /\ files[Len(ops)] = now
Recounted(ops, edits, now) == \E count, files : Recounts(ops, edits, count, files, now)
Followed(ops, index, edits, now, told) == \E count, files : Follows(ops, index, edits, count, files, now, told)

LEMMA StartFollows ==
  ASSUME NEW ops, NEW more, NEW o, OneMore(more, ops, o), o.kind = "exec",
         NEW edits, Len(edits) \in Nat, NEW now, Recounted(ops, edits, now),
         NEW again, Len(again) = Len(edits) + 1, again[Len(edits) + 1] = <<>>,
         \A k \in 1..Len(edits) : again[k] = edits[k],
         NEW index, \A p \in Paths : index[p] = 0, NEW told
  PROVE  Followed(more, index, again, now, told)
<1>1. PICK count, files : Recounts(ops, edits, count, files, now)
  BY DEF Recounted
<1> DEFINE N == Len(ops)
           L == Len(edits)
           c == [n \in 0..(Len(ops) + 1) |-> IF n = Len(ops) + 1 THEN Len(again) ELSE count[n]]
           f == [n \in 0..(Len(ops) + 1) |-> IF n = Len(ops) + 1 THEN now ELSE files[n]]
<1>2. /\ N \in Nat /\ Len(more) = N + 1 /\ L \in Nat
      /\ \A n \in 1..N : more[n] = ops[n]
      /\ more[N + 1] = o
  BY DEF OneMore
<1>3. /\ Course(ops, edits, count, files) /\ files[N] = now
      /\ \A n \in 1..N : AsRecorded(files[n - 1], ops[n])
  BY <1>1 DEF Recounts
<1>4. now = Done(files[Len(ops)], o, again[Len(again)])
  <2>1. EditedBy(now, again[Len(again)]) = now
    <3>1. PICK none : none = again[Len(again)] /\ none = <<>>
      BY <1>2
    <3> QED BY <3>1, NoEdits
  <2> QED BY <1>3, <2>1, DoneIs
<1>5. /\ \A n \in 0..N : c[n] = count[n] /\ f[n] = files[n] /\ count[n] \in 0..L
      /\ c[N + 1] = L + 1 /\ f[N + 1] = now
  BY <1>2, <1>3 DEF Course
<1>6. Course(more, again, c, f)
  <2>1. PICK x, y : x = c /\ y = f
    OBVIOUS
  <2>2. Course(more, again, x, y)
    <3>1. Longer(again, edits, o)
      BY DEF Longer
    <3>2. Course(ops, edits, count, files)
      BY <1>3
    <3>3. Extended(x, count, Len(ops), Len(again))
      BY <2>1 DEF Extended
    <3>4. Extended(y, files, Len(ops), now)
      BY <2>1 DEF Extended
    <3> HIDE DEF c, f
    <3> QED BY ONLY OneMore(more, ops, o), Len(edits) \in Nat, <1>4, <3>1, <3>2, <3>3, <3>4, CourseGrows
  <2> QED BY <2>1, <2>2
<1> HIDE DEF c, f
<1>7. \A n \in 0..(N + 1) : c[n] = Len(again) => n = N + 1 /\ f[n] = now
  <2>1. \A n \in 0..(N + 1) : n \in 0..N \/ n = N + 1
    BY <1>2
  <2>2. \A n \in 0..N : count[n] # L + 1
    BY <1>2, <1>5
  <2> QED BY <1>5, <2>1, <2>2
<1>8. \A n \in 1..(N + 1) : c[n] # Len(again) => AsRecorded(f[n - 1], more[n])
  <2> TAKE n \in 1..(N + 1)
  <2> HAVE c[n] # Len(again)
  <2>1. n \in 1..N /\ n - 1 \in 0..N
    BY <1>2, <1>5
  <2>2. f[n - 1] = files[n - 1] /\ more[n] = ops[n]
    BY <1>2, <1>5, <2>1
  <2> QED BY <1>3, <2>1, <2>2
<1>9. \A n \in 1..(N + 1) : c[n] = Len(again) => more[n].kind = "exec"
  <2> TAKE n \in 1..(N + 1)
  <2> HAVE c[n] = Len(again)
  <2>1. n = N + 1
    BY <1>2, <1>7
  <2> QED BY <1>2, <2>1
<1>10. Follows(more, index, again, c, f, now, told)
  <2>1. Len(more) = N + 1
    BY <1>2
  <2> HIDE DEF N
  <2> QED BY ONLY <1>6, <1>7, <1>8, <1>9, <2>1, \A p \in Paths : index[p] = 0 DEF Follows
<1> QED BY <1>10 DEF Followed

LEMMA EditFollows ==
  ASSUME NEW ops, Len(ops) \in Nat, NEW index, NEW T, NEW edits, Len(edits) \in Nat \ {0},
         edits[Len(edits)] \in Seq(T), NEW e \in T, NEW now, NEW told,
         Followed(ops, index, edits, now, told),
         NEW again, Len(again) = Len(edits), again[Len(edits)] = Append(edits[Len(edits)], e),
         \A k \in 1..Len(edits) : k # Len(edits) => again[k] = edits[k],
         NEW after, after = Edited(now, e)
  PROVE  Followed(ops, index, again, after, told)
<1>1. PICK count, files : Follows(ops, index, edits, count, files, now, told)
  BY DEF Followed
<1> DEFINE N == Len(ops)
           L == Len(edits)
           f == [n \in 0..N |-> IF count[n] = L THEN after ELSE files[n]]
<1>2. /\ count[0] = 0 /\ files[0] = Begin /\ count[N] = L
      /\ \A n \in 0..N : count[n] \in 0..L
      /\ \A n \in 1..N : /\ count[n] = IF ops[n].kind = "exec" THEN count[n - 1] + 1 ELSE count[n - 1]
                         /\ files[n] = Done(files[n - 1], ops[n], edits[count[n]])
  BY <1>1 DEF Follows, Course
<1>3. /\ \A n \in 0..N : count[n] = L => files[n] = now
      /\ \A n \in 1..N : count[n] # L => AsRecorded(files[n - 1], ops[n])
      /\ \A n \in 1..N : count[n] = L /\ ops[n].kind # "exec" =>
            ops[n].kind # "moved" /\ Shows(told, ops[n]) /\ index[ops[n].path] = n
      /\ \A p \in Paths : index[p] # 0 =>
            count[index[p]] = L /\ ops[index[p]].kind # "exec" /\ ops[index[p]].path = p
  BY <1>1 DEF Follows
<1>4. /\ N \in Nat /\ L \in Nat /\ L # 0 /\ Len(again) = L
      /\ again[L] = Append(edits[L], e)
      /\ \A k \in 1..L : k # L => again[k] = edits[k]
  OBVIOUS
<1>5. /\ \A n \in 0..N : count[n] = L => f[n] = after
      /\ \A n \in 0..N : count[n] # L => f[n] = files[n]
  OBVIOUS
<1>12. \A old : EditedBy(old, again[L]) = Edited(EditedBy(old, edits[L]), e)
  <2> TAKE old
  <2>1. PICK a, b : a = edits[L] /\ b = again[L]
    OBVIOUS
  <2>2. a \in Seq(T) /\ b = Append(a, e)
    BY <2>1
  <2>3. EditedBy(old, b) = Edited(EditedBy(old, a), e)
    BY ONLY <2>2, e \in T, OneMoreEdit
  <2> QED BY <2>1, <2>3
<1> HIDE DEF f, L, N
<1>6. \A n \in 1..N : n - 1 \in 0..N /\ n \in 0..N
  BY <1>4
<1>7. \A n \in 1..N : f[n] = Done(f[n - 1], ops[n], again[count[n]])
  <2> TAKE n \in 1..N
  <2>1. CASE count[n] # L
    <3>1. count[n - 1] # L
      <4>1. count[n] \in 0..L /\ count[n - 1] \in 0..L
        BY ONLY <1>2, <1>6, n \in 1..N
      <4>2. count[n] = count[n - 1] + 1 \/ count[n] = count[n - 1]
        BY ONLY <1>2, n \in 1..N
      <4> QED BY ONLY <1>4, <2>1, <4>1, <4>2
    <3>2. f[n] = files[n] /\ f[n - 1] = files[n - 1]
      BY ONLY <1>5, <1>6, <2>1, <3>1, n \in 1..N
    <3>3. CASE ops[n].kind = "exec"
      <4>1. count[n] \in 1..L
        <5>1. count[n] = count[n - 1] + 1 /\ count[n - 1] \in 0..L /\ count[n] \in 0..L
          BY ONLY <1>2, <1>6, <3>3, n \in 1..N
        <5> QED BY ONLY <1>4, <5>1
      <4>2. again[count[n]] = edits[count[n]]
        BY ONLY <1>4, <2>1, <4>1
      <4> QED BY <1>2, <3>2, <4>2
    <3>4. CASE ops[n].kind # "exec"
      <4>1. Done(files[n - 1], ops[n], edits[count[n]]) = Done(files[n - 1], ops[n], again[count[n]])
        BY ONLY <3>4, DoneAlike
      <4> QED BY <1>2, <3>2, <4>1
    <3> QED BY <3>3, <3>4
  <2>2. CASE count[n] = L /\ ops[n].kind = "exec"
    <3>1. count[n - 1] # L
      <4>1. count[n] = count[n - 1] + 1 /\ count[n - 1] \in 0..L
        BY ONLY <1>2, <1>6, <2>2, n \in 1..N
      <4> QED BY ONLY <1>4, <2>2, <4>1
    <3>2. f[n] = after /\ f[n - 1] = files[n - 1] /\ files[n] = now
      BY ONLY <1>3, <1>5, <1>6, <2>2, <3>1, n \in 1..N
    <3>3. files[n] = EditedBy(files[n - 1], edits[L])
      <4>1. files[n] = Done(files[n - 1], ops[n], edits[L])
        BY ONLY <1>2, <2>2, n \in 1..N
      <4> QED BY ONLY <2>2, <4>1, DoneIs
    <3>4. Done(f[n - 1], ops[n], again[count[n]]) = EditedBy(files[n - 1], again[L])
      BY ONLY <2>2, <3>2, DoneIs
    <3>5. EditedBy(files[n - 1], again[L]) = Edited(now, e)
      BY ONLY <1>12, <3>2, <3>3
    <3> QED BY <3>2, <3>4, <3>5
  <2>3. CASE count[n] = L /\ ops[n].kind # "exec"
    <3>1. count[n - 1] = L /\ ops[n].kind # "moved"
      BY ONLY <1>2, <1>3, <1>6, <2>3, n \in 1..N
    <3>2. f[n] = after /\ f[n - 1] = after
      BY ONLY <1>5, <1>6, <2>3, <3>1, n \in 1..N
    <3>3. Done(f[n - 1], ops[n], again[count[n]]) = f[n - 1]
      BY ONLY <2>3, <3>1, DoneIs
    <3> QED BY ONLY <3>2, <3>3
  <2> QED BY <2>1, <2>2, <2>3
<1>8. Course(ops, again, count, f)
  <2>1. f[0] = Begin
    <3>1. 0 \in 0..N /\ count[0] # L
      BY ONLY <1>2, <1>4
    <3> QED BY ONLY <1>2, <1>5, <3>1
  <2> QED BY ONLY <1>2, <1>4, <1>7, <2>1 DEF Course, N
<1>9. \A n \in 1..N : count[n] # L => AsRecorded(f[n - 1], ops[n])
  <2> TAKE n \in 1..N
  <2> HAVE count[n] # L
  <2>1. count[n - 1] # L
    <3>1. count[n] \in 0..L /\ count[n - 1] \in 0..L
      BY ONLY <1>2, <1>6, n \in 1..N
    <3>2. count[n] = count[n - 1] + 1 \/ count[n] = count[n - 1]
      BY ONLY <1>2, n \in 1..N
    <3> QED BY ONLY <1>4, <3>1, <3>2, count[n] # L
  <2>2. f[n - 1] = files[n - 1]
    BY ONLY <1>5, <1>6, <2>1, n \in 1..N
  <2> QED BY <1>3, <2>2
<1>10. Follows(ops, index, again, count, f, after, told)
  BY ONLY <1>3, <1>4, <1>5, <1>8, <1>9 DEF Follows, N
<1> QED BY <1>10 DEF Followed

\* A plain change that is the last of its path in the scope, and what the poller has seen with it.
Learns(told, o, after) ==
  /\ o.kind # "exec" /\ o.kind # "moved" /\ o.path \in Paths
  /\ Shows(after, o)
  /\ \A p \in Paths : p # o.path => after[p] = told[p]
PathsKnown(ops) == \A n \in 1..Len(ops) : ops[n].kind # "exec" => ops[n].path \in Paths

LEMMA StillShows ==
  ASSUME NEW told, NEW o, NEW after, Learns(told, o, after), NEW x, x.path \in Paths, x.path # o.path,
         Shows(told, x)
  PROVE  Shows(after, x)
BY DEF Learns, Shows

LEMMA MergeFollows ==
  ASSUME NEW ops, Len(ops) \in Nat, PathsKnown(ops), NEW index, NEW edits, NEW now, NEW told,
         \A p \in Paths : index[p] \in 0..Len(ops), Followed(ops, index, edits, now, told),
         NEW o, NEW after, Learns(told, o, after),
         NEW k \in 1..Len(ops), index[o.path] = k,
         NEW more, Len(more) = Len(ops), more[k] = o, \A n \in 1..Len(ops) : n # k => more[n] = ops[n]
  PROVE  Followed(more, index, edits, now, after)
<1>1. PICK count, files : Follows(ops, index, edits, count, files, now, told)
  BY DEF Followed
<1> DEFINE N == Len(ops)
           L == Len(edits)
<1>2. /\ count[0] = 0 /\ files[0] = Begin /\ count[N] = L
      /\ \A n \in 0..N : count[n] \in 0..L
      /\ \A n \in 1..N : /\ count[n] = IF ops[n].kind = "exec" THEN count[n - 1] + 1 ELSE count[n - 1]
                         /\ files[n] = Done(files[n - 1], ops[n], edits[count[n]])
  BY <1>1 DEF Follows, Course
<1>3. /\ \A n \in 0..N : count[n] = L => files[n] = now
      /\ \A n \in 1..N : count[n] # L => AsRecorded(files[n - 1], ops[n])
      /\ \A n \in 1..N : count[n] = L /\ ops[n].kind # "exec" =>
            ops[n].kind # "moved" /\ Shows(told, ops[n]) /\ index[ops[n].path] = n
      /\ \A p \in Paths : index[p] # 0 =>
            count[index[p]] = L /\ ops[index[p]].kind # "exec" /\ ops[index[p]].path = p
  BY <1>1 DEF Follows
<1>4. /\ N \in Nat /\ Len(more) = N /\ more[k] = o /\ k \in 1..N /\ k # 0 /\ index[o.path] = k
      /\ \A n \in 1..N : n # k => more[n] = ops[n]
      /\ \A n \in 1..N : ops[n].kind # "exec" => ops[n].path \in Paths
      /\ \A p \in Paths : index[p] # 0 => index[p] \in 1..N
      /\ o.kind # "exec" /\ o.kind # "moved" /\ o.path \in Paths /\ Shows(after, o)
  BY DEF PathsKnown, Learns
<1> HIDE DEF L, N
<1>5. count[k] = L /\ ops[k].kind # "exec" /\ ops[k].path = o.path
  BY ONLY <1>3, <1>4
<1>6. ops[k].kind # "moved"
  BY ONLY <1>3, <1>4, <1>5
<1>7. \A n \in 1..N : /\ count[n] = IF more[n].kind = "exec" THEN count[n - 1] + 1 ELSE count[n - 1]
                      /\ files[n] = Done(files[n - 1], more[n], edits[count[n]])
  <2> TAKE n \in 1..N
  <2>1. CASE n # k
    BY <1>2, <1>4, <2>1
  <2>2. CASE n = k
    <3>1. Done(files[n - 1], more[n], edits[count[n]]) = files[n - 1]
      BY ONLY <1>4, <2>2, DoneIs
    <3>2. Done(files[n - 1], ops[n], edits[count[n]]) = files[n - 1]
      BY ONLY <1>5, <1>6, <2>2, DoneIs
    <3> QED BY ONLY <1>2, <1>4, <1>5, <2>2, <3>1, <3>2
  <2> QED BY <2>1, <2>2
<1>8. Course(more, edits, count, files)
  BY ONLY <1>2, <1>4, <1>7 DEF Course, L
<1>9. \A n \in 1..N : count[n] # L => AsRecorded(files[n - 1], more[n])
  BY ONLY <1>3, <1>4, <1>5
<1>10. \A n \in 1..N : count[n] = L /\ more[n].kind # "exec" =>
         more[n].kind # "moved" /\ Shows(after, more[n]) /\ index[more[n].path] = n
  <2> TAKE n \in 1..N
  <2> HAVE count[n] = L /\ more[n].kind # "exec"
  <2>1. CASE n = k
    BY ONLY <1>4, <2>1
  <2>2. CASE n # k
    <3>1. more[n] = ops[n] /\ ops[n].path \in Paths
      BY <1>4, <2>2
    <3>2. ops[n].kind # "moved" /\ Shows(told, ops[n]) /\ index[ops[n].path] = n
      BY <1>3, <3>1
    <3>3. ops[n].path # o.path
      BY ONLY <1>4, <2>2, <3>2
    <3>4. Shows(after, ops[n])
      BY ONLY Learns(told, o, after), <3>1, <3>2, <3>3, StillShows
    <3> QED BY <3>1, <3>2, <3>4
  <2> QED BY <2>1, <2>2
<1>11. \A p \in Paths : index[p] # 0 =>
         count[index[p]] = L /\ more[index[p]].kind # "exec" /\ more[index[p]].path = p
  <2> TAKE p \in Paths
  <2> HAVE index[p] # 0
  <2>1. count[index[p]] = L /\ ops[index[p]].kind # "exec" /\ ops[index[p]].path = p
    BY <1>3
  <2>2. CASE index[p] = k
    BY ONLY <1>4, <1>5, <2>1, <2>2
  <2>3. CASE index[p] # k /\ index[p] \in 1..N
    BY ONLY <1>4, <2>1, <2>3
  <2>4. index[p] \in 1..N
    BY <1>4
  <2> QED BY <2>2, <2>3, <2>4
<1>12. Follows(more, index, edits, count, files, now, after)
  BY ONLY <1>3, <1>4, <1>8, <1>9, <1>10, <1>11 DEF Follows, L
<1> QED BY <1>12 DEF Followed

LEMMA AppendFollows ==
  ASSUME NEW ops, NEW more, NEW o, OneMore(more, ops, o), PathsKnown(ops),
         NEW index, \A p \in Paths : index[p] \in 0..Len(ops),
         NEW edits, Len(edits) \in Nat, NEW now, NEW told, Followed(ops, index, edits, now, told),
         NEW after, Learns(told, o, after), index[o.path] = 0,
         NEW newer, newer[o.path] = Len(ops) + 1, \A p \in Paths : p # o.path => newer[p] = index[p]
  PROVE  Followed(more, newer, edits, now, after)
<1>1. PICK count, files : Follows(ops, index, edits, count, files, now, told)
  BY DEF Followed
<1> DEFINE N == Len(ops)
           L == Len(edits)
           c == [n \in 0..(Len(ops) + 1) |-> IF n = Len(ops) + 1 THEN Len(edits) ELSE count[n]]
           f == [n \in 0..(Len(ops) + 1) |-> IF n = Len(ops) + 1 THEN now ELSE files[n]]
<1>2. /\ N \in Nat /\ Len(more) = N + 1 /\ L \in Nat
      /\ \A n \in 1..N : more[n] = ops[n] /\ n # N + 1
      /\ more[N + 1] = o
  BY DEF OneMore
<1>3. /\ Course(ops, edits, count, files)
      /\ \A n \in 0..N : count[n] = L => files[n] = now
      /\ \A n \in 1..N : count[n] # L => AsRecorded(files[n - 1], ops[n])
      /\ \A n \in 1..N : count[n] = L /\ ops[n].kind # "exec" =>
            ops[n].kind # "moved" /\ Shows(told, ops[n]) /\ index[ops[n].path] = n
      /\ \A p \in Paths : index[p] # 0 =>
            count[index[p]] = L /\ ops[index[p]].kind # "exec" /\ ops[index[p]].path = p
  BY <1>1 DEF Follows
<1>4. count[N] = L /\ files[N] = now
  BY <1>2, <1>3 DEF Course
<1>5. /\ \A n \in 0..N : c[n] = count[n] /\ f[n] = files[n] /\ n # N + 1
      /\ c[N + 1] = L /\ f[N + 1] = now
  BY <1>2
<1>6. /\ o.kind # "exec" /\ o.kind # "moved" /\ o.path \in Paths /\ Shows(after, o)
      /\ \A n \in 1..N : ops[n].kind # "exec" => ops[n].path \in Paths
      /\ \A p \in Paths : index[p] # 0 => index[p] \in 1..N
      /\ index[o.path] = 0 /\ newer[o.path] = N + 1 /\ \A p \in Paths : p # o.path => newer[p] = index[p]
  BY <1>2 DEF PathsKnown, Learns
<1>7. Course(more, edits, c, f)
  <2>1. PICK x, y : x = c /\ y = f
    OBVIOUS
  <2>2. now = Done(files[Len(ops)], o, edits[Len(edits)])
    BY ONLY <1>4, <1>6, DoneIs DEF N
  <2>3. Longer(edits, edits, o)
    BY <1>6 DEF Longer
  <2>4. Extended(x, count, Len(ops), Len(edits))
    BY <2>1 DEF Extended
  <2>5. Extended(y, files, Len(ops), now)
    BY <2>1 DEF Extended
  <2>6. Course(ops, edits, count, files)
    BY <1>3
  <2> HIDE DEF c, f
  <2>7. Course(more, edits, x, y)
    BY ONLY OneMore(more, ops, o), Len(edits) \in Nat, <2>2, <2>3, <2>4, <2>5, <2>6, CourseGrows
  <2> QED BY <2>1, <2>7
<1> HIDE DEF c, f, L, N
<1>13. \A n \in 1..(N + 1) : (n \in 1..N \/ n = N + 1) /\ (n \in 1..N => n \in 0..N /\ n - 1 \in 0..N)
  BY ONLY <1>2
<1>8. \A n \in 0..(N + 1) : c[n] = L => f[n] = now
  <2>1. \A n \in 0..(N + 1) : n \in 0..N \/ n = N + 1
    BY ONLY <1>2
  <2> QED BY ONLY <1>3, <1>5, <2>1
<1>9. \A n \in 1..(N + 1) : c[n] # L => AsRecorded(f[n - 1], more[n])
  <2> TAKE n \in 1..(N + 1)
  <2> HAVE c[n] # L
  <2>1. n \in 1..N /\ n - 1 \in 0..N /\ n \in 0..N
    BY ONLY <1>5, <1>13, c[n] # L, n \in 1..(N + 1)
  <2>2. f[n - 1] = files[n - 1] /\ more[n] = ops[n] /\ count[n] = c[n]
    BY ONLY <1>2, <1>5, <2>1
  <2>3. AsRecorded(files[n - 1], ops[n])
    BY ONLY <1>3, <2>1, <2>2, c[n] # L
  <2> QED BY <2>2, <2>3
<1>10. \A n \in 1..(N + 1) : c[n] = L /\ more[n].kind # "exec" =>
         more[n].kind # "moved" /\ Shows(after, more[n]) /\ newer[more[n].path] = n
  <2> TAKE n \in 1..(N + 1)
  <2> HAVE c[n] = L /\ more[n].kind # "exec"
  <2>1. CASE n = N + 1
    BY ONLY <1>2, <1>6, <2>1
  <2>2. CASE n \in 1..N
    <3>1. more[n] = ops[n] /\ ops[n].path \in Paths /\ count[n] = L /\ n # 0
      <4>1. more[n] = ops[n] /\ n \in 0..N /\ n # 0
        BY ONLY <1>2, <2>2
      <4> QED BY <1>5, <1>6, <2>2, <4>1
    <3>2. ops[n].kind # "moved" /\ Shows(told, ops[n]) /\ index[ops[n].path] = n
      BY <1>3, <2>2, <3>1
    <3>3. ops[n].path # o.path
      BY ONLY <1>6, <3>1, <3>2
    <3>4. Shows(after, ops[n])
      BY ONLY Learns(told, o, after), <3>1, <3>2, <3>3, StillShows
    <3>5. newer[ops[n].path] = n
      BY ONLY <1>6, <3>1, <3>2, <3>3
    <3> QED BY ONLY <3>1, <3>2, <3>4, <3>5
  <2> QED BY ONLY <1>13, <2>1, <2>2, n \in 1..(N + 1)
<1>11. \A p \in Paths : newer[p] # 0 =>
         c[newer[p]] = L /\ more[newer[p]].kind # "exec" /\ more[newer[p]].path = p
  <2> TAKE p \in Paths
  <2> HAVE newer[p] # 0
  <2>1. CASE p = o.path
    BY ONLY <1>2, <1>5, <1>6, <2>1
  <2>2. CASE p # o.path
    <3>1. newer[p] = index[p] /\ index[p] \in 1..N /\ index[p] \in 0..N
      BY <1>6, <2>2
    <3>2. count[index[p]] = L /\ ops[index[p]].kind # "exec" /\ ops[index[p]].path = p
      BY <1>3, <3>1
    <3> QED BY ONLY <1>2, <1>5, <3>1, <3>2
  <2> QED BY <2>1, <2>2
<1>12. Follows(more, newer, edits, c, f, now, after)
  <2>1. Len(more) = N + 1
    BY <1>2
  <2> QED BY ONLY <1>7, <1>8, <1>9, <1>10, <1>11, <2>1 DEF Follows, L
<1> QED BY <1>12 DEF Followed

LEMMA MoveRecounts ==
  ASSUME NEW ops, NEW more, NEW o, OneMore(more, ops, o), o.kind = "moved",
         NEW edits, Len(edits) \in Nat, NEW now, Recounted(ops, edits, now),
         now[o.previous] # Absent, now[o.path] = Absent,
         NEW after, after = Relocated(now, o.previous, o.path)
  PROVE  Recounted(more, edits, after)
<1>1. PICK count, files : Recounts(ops, edits, count, files, now)
  BY DEF Recounted
<1> DEFINE N == Len(ops)
           c == [n \in 0..(Len(ops) + 1) |-> IF n = Len(ops) + 1 THEN Len(edits) ELSE count[n]]
           f == [n \in 0..(Len(ops) + 1) |-> IF n = Len(ops) + 1 THEN after ELSE files[n]]
<1>2. /\ N \in Nat /\ Len(more) = N + 1
      /\ \A n \in 1..N : more[n] = ops[n]
      /\ more[N + 1] = o
  BY DEF OneMore
<1>3. /\ Course(ops, edits, count, files) /\ files[N] = now
      /\ \A n \in 1..N : AsRecorded(files[n - 1], ops[n])
  BY <1>1 DEF Recounts
<1>4. \A n \in 0..N : f[n] = files[n] /\ f[N + 1] = after
  BY <1>2
<1>5. Course(more, edits, c, f)
  <2>1. PICK x, y : x = c /\ y = f
    OBVIOUS
  <2>2. after = Done(files[Len(ops)], o, edits[Len(edits)])
    <3>1. files[Len(ops)] = now
      BY <1>3
    <3>2. PICK e : e = edits[Len(edits)]
      OBVIOUS
    <3>3. Done(now, o, e) = [now EXCEPT ![o.previous] = Absent, ![o.path] = now[o.previous]]
      BY ONLY o.kind = "moved", DoneIs
    <3> QED BY ONLY <3>1, <3>2, <3>3, after = Relocated(now, o.previous, o.path) DEF Relocated
  <2>3. Longer(edits, edits, o)
    BY DEF Longer
  <2>4. Extended(x, count, Len(ops), Len(edits))
    BY <2>1 DEF Extended
  <2>5. Extended(y, files, Len(ops), after)
    BY <2>1 DEF Extended
  <2>6. Course(ops, edits, count, files)
    BY <1>3
  <2> HIDE DEF c, f
  <2>7. Course(more, edits, x, y)
    BY ONLY OneMore(more, ops, o), Len(edits) \in Nat, <2>2, <2>3, <2>4, <2>5, <2>6, CourseGrows
  <2> QED BY <2>1, <2>7
<1> HIDE DEF c, f, N
<1>6. \A n \in 1..(N + 1) : AsRecorded(f[n - 1], more[n])
  <2> TAKE n \in 1..(N + 1)
  <2>1. CASE n \in 1..N
    <3>1. n - 1 \in 0..N
      BY ONLY <1>2, <2>1
    <3> QED BY <1>2, <1>3, <1>4, <2>1, <3>1
  <2>2. CASE n = N + 1
    <3>1. N \in 0..N /\ n - 1 = N
      BY ONLY <1>2, <2>2
    <3>2. f[n - 1] = now /\ more[n] = o
      BY ONLY <1>2, <1>3, <1>4, <2>2, <3>1
    <3> QED BY <3>2 DEF AsRecorded
  <2>3. n \in 1..N \/ n = N + 1
    BY ONLY <1>2, n \in 1..(N + 1)
  <2> QED BY <2>1, <2>2, <2>3
<1>7. Recounts(more, edits, c, f, after)
  <2>1. f[N + 1] = after /\ Len(more) = N + 1
    <3>1. 0 \in 0..N
      BY ONLY <1>2
    <3> QED BY ONLY <1>2, <1>4, <3>1
  <2> QED BY ONLY <1>5, <1>6, <2>1 DEF Recounts
<1> QED BY <1>7 DEF Recounted

\* Operations that differ in what the commands cite only.
Alike(more, ops) ==
  /\ Len(more) = Len(ops)
  /\ \A n \in 1..Len(ops) : more[n] = ops[n] \/ (more[n].kind = "exec" /\ ops[n].kind = "exec")

LEMMA AlikeCourse ==
  ASSUME NEW ops, NEW more, Alike(more, ops), NEW edits, NEW count, NEW files, Course(ops, edits, count, files)
  PROVE  Course(more, edits, count, files)
<1>1. \A n \in 1..Len(ops) : \A old, e : Done(old, more[n], e) = Done(old, ops[n], e)
                             /\ (more[n].kind = "exec" <=> ops[n].kind = "exec")
  BY DoneIs DEF Alike
<1>2. Len(more) = Len(ops)
  BY DEF Alike
<1>3. \A n \in 1..Len(ops) :
        /\ count[n] = IF ops[n].kind = "exec" THEN count[n - 1] + 1 ELSE count[n - 1]
        /\ files[n] = Done(files[n - 1], ops[n], edits[count[n]])
  BY DEF Course
<1>4. \A n \in 1..Len(ops) :
        /\ count[n] = IF more[n].kind = "exec" THEN count[n - 1] + 1 ELSE count[n - 1]
        /\ files[n] = Done(files[n - 1], more[n], edits[count[n]])
  <2> TAKE n \in 1..Len(ops)
  <2>1. Done(files[n - 1], more[n], edits[count[n]]) = Done(files[n - 1], ops[n], edits[count[n]])
    BY ONLY <1>1, n \in 1..Len(ops)
  <2>2. more[n].kind = "exec" <=> ops[n].kind = "exec"
    BY ONLY <1>1, n \in 1..Len(ops)
  <2>3. /\ count[n] = IF ops[n].kind = "exec" THEN count[n - 1] + 1 ELSE count[n - 1]
        /\ files[n] = Done(files[n - 1], ops[n], edits[count[n]])
    BY ONLY <1>3, n \in 1..Len(ops)
  <2> QED BY ONLY <2>1, <2>2, <2>3
<1>5. /\ count[0] = 0 /\ files[0] = Begin /\ count[Len(ops)] = Len(edits)
      /\ \A n \in 0..Len(ops) : count[n] \in 0..Len(edits)
  BY DEF Course
<1> QED BY ONLY <1>2, <1>4, <1>5 DEF Course

LEMMA AlikeStory ==
  ASSUME NEW ops, Len(ops) \in Nat, NEW more, Alike(more, ops), NEW index, \A p \in Paths : index[p] \in 0..Len(ops),
         NEW edits, NEW now, NEW told
  PROVE  /\ Followed(ops, index, edits, now, told) => Followed(more, index, edits, now, told)
         /\ Recounted(ops, edits, now) => Recounted(more, edits, now)
<1>1. \A n \in 1..Len(ops) : more[n] = ops[n] \/ (more[n].kind = "exec" /\ ops[n].kind = "exec")
  BY DEF Alike
<1>2. Len(more) = Len(ops)
  BY DEF Alike
<1>3. \A n \in 1..Len(ops) : \A old : AsRecorded(old, ops[n]) => AsRecorded(old, more[n])
  BY <1>1 DEF AsRecorded
<1>4. ASSUME NEW count, NEW files, Follows(ops, index, edits, count, files, now, told)
      PROVE  Follows(more, index, edits, count, files, now, told)
  <2>1. Course(more, edits, count, files)
    <3>1. Course(ops, edits, count, files)
      BY <1>4 DEF Follows
    <3> QED BY <3>1, AlikeCourse
  <2>2. /\ \A n \in 0..Len(ops) : count[n] = Len(edits) => files[n] = now
        /\ \A n \in 1..Len(ops) : count[n] # Len(edits) => AsRecorded(files[n - 1], ops[n])
        /\ \A n \in 1..Len(ops) : count[n] = Len(edits) /\ ops[n].kind # "exec" =>
              ops[n].kind # "moved" /\ Shows(told, ops[n]) /\ index[ops[n].path] = n
        /\ \A p \in Paths : index[p] # 0 =>
              count[index[p]] = Len(edits) /\ ops[index[p]].kind # "exec" /\ ops[index[p]].path = p
    BY <1>4 DEF Follows
  <2>3. \A p \in Paths : index[p] # 0 =>
          count[index[p]] = Len(edits) /\ more[index[p]].kind # "exec" /\ more[index[p]].path = p
    <3> TAKE p \in Paths
    <3> HAVE index[p] # 0
    <3>1. index[p] \in 1..Len(ops)
      OBVIOUS
    <3> QED BY <1>1, <2>2, <3>1
  <2>4. \A n \in 1..Len(ops) : count[n] = Len(edits) /\ more[n].kind # "exec" =>
          more[n].kind # "moved" /\ Shows(told, more[n]) /\ index[more[n].path] = n
    BY ONLY <1>1, <2>2
  <2> QED BY ONLY <1>2, <1>3, <2>1, <2>2, <2>3, <2>4 DEF Follows
<1>5. ASSUME NEW count, NEW files, Recounts(ops, edits, count, files, now)
      PROVE  Recounts(more, edits, count, files, now)
  <2>1. Course(more, edits, count, files)
    <3>1. Course(ops, edits, count, files)
      BY <1>5 DEF Recounts
    <3> QED BY <3>1, AlikeCourse
  <2> QED BY <1>2, <1>3, <1>5, <2>1 DEF Recounts
<1> QED BY <1>4, <1>5 DEF Followed, Recounted

-----------------------------------------------------------------------------
(* The replay: what an event makes of the operations *)

LEMMA ScannedIs ==
  ASSUME NEW acc, NEW n, NEW tape, Scanned(acc, n, tape)
  PROVE  /\ acc \in Accs /\ acc.operations \in Seq(Ops) /\ Len(acc.operations) \in Nat
         /\ acc.open \in 0..Len(acc.operations)
         /\ acc.open # 0 => acc.operations[acc.open].kind = "exec"
         /\ \A p \in Paths : /\ acc.index[p] \in 0..Len(acc.operations)
                             /\ acc.index[p] # 0 => acc.operations[acc.index[p]].kind # "exec"
         /\ PathsKnown(acc.operations)
<1>1. /\ acc \in Accs /\ acc.operations \in Seq(Ops) /\ Len(acc.operations) \in Nat
      /\ acc.open \in 0..Len(acc.operations)
      /\ acc.open # 0 => acc.operations[acc.open] \in ExecOps
      /\ \A p \in Paths : /\ acc.index[p] \in 0..Len(acc.operations)
                          /\ acc.index[p] # 0 => acc.operations[acc.index[p]] \in FileOps
  BY DEF Scanned, Accs
<1>2. (\A o \in ExecOps : o.kind = "exec") /\ (\A o \in FileOps : o.kind # "exec" /\ o.path \in Paths)
  BY DEF ExecOps, FileOps
<1>3. \A i \in 1..Len(acc.operations) : acc.operations[i] \in Ops
  BY <1>1
<1>4. PathsKnown(acc.operations)
  BY <1>2, <1>3 DEF PathsKnown, Ops
<1> QED BY <1>1, <1>2, <1>4

\* What the start of a command makes of the operations.
StartMakes(r, acc, e) ==
  /\ \E o : OneMore(r.operations, acc.operations, o) /\ o.kind = "exec" /\ o.inputs = e.inputs
  /\ \A p \in Paths : r.index[p] = 0
  /\ r.open # 0

LEMMA StartedMakes ==
  ASSUME NEW acc, acc \in Accs, NEW i, NEW e, acc.open = 0, NEW r, r = AcceptStarted(acc, i, e)
  PROVE  StartMakes(r, acc, e)
<1>1. PICK o : o = [kind |-> "exec", program |-> e.program, reads |-> e.reads, inputs |-> e.inputs,
                    cites |-> <<i>>]
  OBVIOUS
<1>2. PICK ops, index, open : /\ ops = Append(acc.operations, o)
                              /\ index = [p \in Paths |-> 0] /\ open = Len(acc.operations) + 1
  OBVIOUS
<1>3. acc.operations \in Seq(Ops) /\ Len(acc.operations) \in Nat
  BY DEF Accs
<1>4. OneMore(ops, acc.operations, o)
  <2>1. PICK old : old = acc.operations /\ old \in Seq(Ops)
    BY <1>3
  <2>2. ops = Append(old, o)
    BY <1>2, <2>1
  <2>3. OneMore(ops, old, o)
    BY ONLY <2>1, <2>2 DEF OneMore
  <2> QED BY <2>1, <2>3
<1>5. r = [acc EXCEPT !.operations = ops, !.index = index, !.open = open]
  BY <1>1, <1>2 DEF AcceptStarted
<1>6. r.operations = ops /\ r.index = index /\ r.open = open
  BY ONLY <1>5, acc \in Accs DEF Accs
<1>7. o.kind = "exec" /\ o.inputs = e.inputs
  BY <1>1
<1> QED BY <1>2, <1>3, <1>4, <1>6, <1>7 DEF StartMakes

\* What its end makes of them.
OutputMakes(r, acc) ==
  /\ Alike(r.operations, acc.operations)
  /\ \A n \in 1..Len(acc.operations) : r.operations[n].kind = "exec" =>
        r.operations[n].inputs = acc.operations[n].inputs
  /\ r.index = acc.index
  /\ r.open = 0

LEMMA OutputIsMade ==
  ASSUME NEW acc, NEW n, NEW tape, Scanned(acc, n, tape), acc.open # 0, NEW i, NEW r, r = AcceptOutput(acc, i)
  PROVE  OutputMakes(r, acc)
<1>1. PICK k, old : k = acc.open /\ old = acc.operations
  OBVIOUS
<1>2. /\ acc \in Accs /\ old \in Seq(Ops) /\ Len(old) \in Nat /\ k \in 1..Len(old) /\ old[k] \in ExecOps
  BY <1>1 DEF Scanned, Accs
<1>3. PICK cites : cites = Append(old[k].cites, i)
  OBVIOUS
<1>4. PICK o : o = [old[k] EXCEPT !.cites = cites]
  OBVIOUS
<1>5. o.kind = "exec" /\ o.inputs = old[k].inputs /\ old[k].kind = "exec"
  BY <1>2, <1>4 DEF ExecOps
<1>6. PICK ops : ops = [old EXCEPT ![k] = o]
  OBVIOUS
<1>7. Len(ops) = Len(old) /\ ops[k] = o /\ \A j \in 1..Len(old) : j # k => ops[j] = old[j]
  BY <1>2, <1>6
<1>8. r = [acc EXCEPT !.operations = ops, !.open = 0]
  BY <1>1, <1>3, <1>4, <1>6 DEF AcceptOutput
<1>9. r.operations = ops /\ r.index = acc.index /\ r.open = 0
  BY ONLY <1>2, <1>8 DEF Accs
<1>10. Alike(ops, old) /\ \A j \in 1..Len(old) : ops[j].kind = "exec" => ops[j].inputs = old[j].inputs
  BY <1>5, <1>7 DEF Alike
<1> QED BY <1>1, <1>9, <1>10 DEF OutputMakes

\* What a change makes of them.
IsOf(o, c) == o.kind = c.kind /\ o.path = c.path /\ o.previous = c.previous /\ o.content = c.content
Merges(acc, c) ==
  LET k == acc.index[c.path] IN k # 0 /\ c.kind # "moved" /\ acc.operations[k].kind # "moved"
ChangeMakes(r, acc, c) ==
  /\ r.open = acc.open
  /\ Merges(acc, c) =>
       LET k == acc.index[c.path] IN
       /\ Len(r.operations) = Len(acc.operations) /\ IsOf(r.operations[k], c)
       /\ \A n \in 1..Len(acc.operations) : n # k => r.operations[n] = acc.operations[n]
       /\ r.index = acc.index
  /\ ~Merges(acc, c) =>
       /\ \E o : OneMore(r.operations, acc.operations, o) /\ IsOf(o, c)
       /\ r.index[c.path] = Len(acc.operations) + 1
       /\ \A p \in Paths : p # c.path => r.index[p] = acc.index[p]

LEMMA ChangeIsMade ==
  ASSUME NEW acc, NEW n, NEW tape, Scanned(acc, n, tape), NEW c, c.path \in Paths,
         NEW i, NEW r, r = AcceptChange(acc, i, c)
  PROVE  ChangeMakes(r, acc, c)
<1>1. PICK k, old : k = acc.index[c.path] /\ old = acc.operations
  OBVIOUS
<1>2. /\ acc \in Accs /\ old \in Seq(Ops) /\ Len(old) \in Nat /\ k \in 0..Len(old)
      /\ acc.index \in [Paths -> Nat]
  BY <1>1 DEF Scanned, Accs
<1>3. \A cites : IsOf(FileOperation(c, cites), c)
  BY DEF IsOf, FileOperation
<1>4. CASE Merges(acc, c)
  <2>1. PICK o : o = FileOperation(c, Append(old[k].cites, i))
    OBVIOUS
  <2>2. PICK ops : ops = [old EXCEPT ![k] = o]
    OBVIOUS
  <2>3. k \in 1..Len(old)
    BY <1>1, <1>2, <1>4 DEF Merges
  <2>4. Len(ops) = Len(old) /\ ops[k] = o /\ \A j \in 1..Len(old) : j # k => ops[j] = old[j]
    BY <1>2, <2>2, <2>3
  <2>5. r = [acc EXCEPT !.operations = ops]
    BY <1>1, <1>4, <2>1, <2>2 DEF AcceptChange, Merges
  <2>6. r.operations = ops /\ r.index = acc.index /\ r.open = acc.open
    BY ONLY <1>2, <2>5 DEF Accs
  <2>7. IsOf(o, c)
    BY <1>3, <2>1
  <2> QED BY <1>1, <1>4, <2>4, <2>6, <2>7 DEF ChangeMakes
<1>5. CASE ~Merges(acc, c)
  <2>1. PICK o : o = FileOperation(c, <<i>>)
    OBVIOUS
  <2>2. PICK ops, index : ops = Append(old, o) /\ index = [acc.index EXCEPT ![c.path] = Len(old) + 1]
    OBVIOUS
  <2>3. OneMore(ops, old, o)
    BY <1>2, <2>2 DEF OneMore
  <2>4. index[c.path] = Len(old) + 1 /\ \A p \in Paths : p # c.path => index[p] = acc.index[p]
    BY <1>2, <2>2
  <2>5. r = [acc EXCEPT !.operations = ops, !.index[c.path] = Len(old) + 1]
    BY <1>1, <1>5, <2>1, <2>2 DEF AcceptChange, Merges
  <2>6. r = [acc EXCEPT !.operations = ops, !.index = index]
    BY <2>2, <2>5
  <2>7. r.operations = ops /\ r.index = index /\ r.open = acc.open
    BY ONLY <1>2, <2>6 DEF Accs
  <2>8. IsOf(o, c)
    BY <1>3, <2>1
  <2> QED BY <1>1, <1>5, <2>3, <2>4, <2>7, <2>8 DEF ChangeMakes
<1> QED BY <1>4, <1>5

\* A recording that compiles so far, to operations without placeholders.
Clean(acc) ==
  acc.error = "none" /\ \A n \in DOMAIN acc.operations : Unmentioned(acc.operations[n])

LEMMA CleanIs ==
  ASSUME NEW acc, acc.operations \in Seq(Ops)
  PROVE  Clean(acc) <=> /\ acc.error = "none"
                        /\ \A n \in 1..Len(acc.operations) : Unmentioned(acc.operations[n])
<1>1. DOMAIN acc.operations = 1..Len(acc.operations)
  OBVIOUS
<1> QED BY ONLY <1>1 DEF Clean

LEMMA KindsOfChanges ==
  ASSUME NEW c \in FileChanges
  PROVE  c.path \in Paths /\ c.kind # "exec" /\ (c.kind = "moved" => c.previous \in Paths)
BY DEF FileChanges

LEMMA WritableIsUnmentioned ==
  ASSUME NEW c \in FileChanges, Writable(c), NEW d, d = Parsed(c) PROVE Unmentioned(d)
<1>1. /\ d.kind = c.kind /\ d.path = Written[c.path]
      /\ c.kind = "moved" => d.previous = Written[c.previous]
  BY ONLY c \in FileChanges, d = Parsed(c), ParsedIs
<1>2. c.kind # "exec"
  BY KindsOfChanges
<1> QED BY ONLY <1>1, <1>2, Writable(c) DEF Unmentioned, Writable

LEMMA ChangeClean ==
  ASSUME NEW acc, NEW n \in Nat, NEW tape, Scanned(acc, n, tape), Clean(acc),
         NEW c \in FileChanges, Legible(c), Unmentioned(c), NEW r, r = AcceptChange(acc, n + 1, c)
  PROVE  Scanned(r, n + 1, tape) /\ Clean(r) /\ r.open = acc.open
<1>1. Scanned(r, n + 1, tape) /\ r.error = acc.error
  BY ONLY n \in Nat, Scanned(acc, n, tape), c \in FileChanges, Legible(c),
          r = AcceptChange(acc, n + 1, c), ChangeScans
<1>2. ChangeMakes(r, acc, c)
  BY ChangeIsMade, KindsOfChanges
<1>3. /\ acc.operations \in Seq(Ops) /\ Len(acc.operations) \in Nat
      /\ \A p \in Paths : acc.index[p] \in 0..Len(acc.operations)
  BY ONLY Scanned(acc, n, tape), ScannedIs
<1>4. r.operations \in Seq(Ops)
  BY ONLY <1>1, ScannedIs
<1>5. acc.error = "none" /\ \A m \in 1..Len(acc.operations) : Unmentioned(acc.operations[m])
  BY ONLY Clean(acc), <1>3, CleanIs
<1>6. \A o : IsOf(o, c) => Unmentioned(o)
  <2> TAKE o
  <2> HAVE IsOf(o, c)
  <2>1. o.kind = c.kind /\ o.path = c.path /\ o.previous = c.previous /\ c.kind # "exec"
    BY KindsOfChanges DEF IsOf
  <2> QED BY ONLY <2>1, Unmentioned(c) DEF Unmentioned
<1>7. \A m \in 1..Len(r.operations) : Unmentioned(r.operations[m])
  <2> TAKE m \in 1..Len(r.operations)
  <2>1. CASE Merges(acc, c)
    <3>1. PICK k : k = acc.index[c.path]
      OBVIOUS
    <3>2. /\ Len(r.operations) = Len(acc.operations) /\ IsOf(r.operations[k], c)
          /\ \A j \in 1..Len(acc.operations) : j # k => r.operations[j] = acc.operations[j]
      BY <1>2, <2>1, <3>1 DEF ChangeMakes
    <3> QED BY ONLY <1>5, <1>6, <3>2
  <2>2. CASE ~Merges(acc, c)
    <3>1. PICK o : OneMore(r.operations, acc.operations, o) /\ IsOf(o, c)
      BY <1>2, <2>2 DEF ChangeMakes
    <3>2. /\ Len(r.operations) = Len(acc.operations) + 1 /\ IsOf(r.operations[Len(acc.operations) + 1], c)
          /\ \A j \in 1..Len(acc.operations) : r.operations[j] = acc.operations[j]
      BY <3>1 DEF OneMore
    <3>3. m \in 1..Len(acc.operations) \/ m = Len(acc.operations) + 1
      BY <1>3, <3>2
    <3> QED BY ONLY <1>5, <1>6, <3>2, <3>3
  <2> QED BY <2>1, <2>2
<1>8. Clean(r)
  BY <1>1, <1>4, <1>5, <1>7, CleanIs
<1>9. r.open = acc.open
  BY <1>2 DEF ChangeMakes
<1> QED BY <1>1, <1>8, <1>9

LEMMA ChangeFollows ==
  ASSUME NEW acc, NEW n \in Nat, NEW tape, Scanned(acc, n, tape),
         NEW c \in FileChanges, c.kind # "moved",
         NEW now, TrueOf(c, now), NEW told, NEW edits, Len(edits) \in Nat,
         Followed(acc.operations, acc.index, edits, now, told),
         NEW after, \A p \in Paths : after[p] = IF p = c.path THEN now[p] ELSE told[p],
         NEW i, NEW r, r = AcceptChange(acc, i, c)
  PROVE  Followed(r.operations, r.index, edits, now, after)
<1>1. c.path \in Paths /\ c.kind # "exec"
  BY KindsOfChanges
<1>2. ChangeMakes(r, acc, c)
  BY <1>1, ChangeIsMade
<1>3. PICK ops, index, k : ops = acc.operations /\ index = acc.index /\ k = index[c.path]
  OBVIOUS
<1>4. /\ Len(ops) \in Nat /\ PathsKnown(ops)
      /\ \A p \in Paths : /\ index[p] \in 0..Len(ops)
                          /\ index[p] # 0 => ops[index[p]].kind # "exec"
  <2>1. /\ Len(acc.operations) \in Nat /\ PathsKnown(acc.operations)
        /\ \A p \in Paths : /\ acc.index[p] \in 0..Len(acc.operations)
                            /\ acc.index[p] # 0 => acc.operations[acc.index[p]].kind # "exec"
    BY ONLY Scanned(acc, n, tape), ScannedIs
  <2> QED BY <1>3, <2>1
<1>5. Followed(ops, index, edits, now, told)
  BY <1>3
<1>6. ASSUME NEW o, IsOf(o, c) PROVE Learns(told, o, after)
  <2>1. o.kind = c.kind /\ o.path = c.path /\ o.content = c.content
    BY <1>6 DEF IsOf
  <2>2. after[o.path] = now[c.path] /\ \A p \in Paths : p # o.path => after[p] = told[p]
    BY <1>1, <2>1
  <2>3. c.content = now[c.path] /\ (c.kind = "deleted" <=> now[c.path] = Absent)
    BY DEF TrueOf
  <2>4. Shows(after, o)
    BY <2>1, <2>2, <2>3 DEF Shows
  <2> QED BY <1>1, <2>1, <2>2, <2>4 DEF Learns
<1>7. CASE Merges(acc, c)
  <2>1. k \in 1..Len(ops) /\ index[c.path] = k
    <3>1. k # 0
      BY <1>3, <1>7 DEF Merges
    <3> QED BY <1>1, <1>3, <1>4, <3>1
  <2>2. PICK more, o : more = r.operations /\ o = more[k]
    OBVIOUS
  <2>3. /\ Len(more) = Len(ops) /\ IsOf(o, c) /\ r.index = index
        /\ \A m \in 1..Len(ops) : m # k => more[m] = ops[m]
    BY <1>2, <1>3, <1>7, <2>2 DEF ChangeMakes
  <2>4. Learns(told, o, after) /\ index[o.path] = k
    BY <1>6, <2>1, <2>3 DEF IsOf
  <2>5. Followed(more, index, edits, now, after)
    <3>1. \A p \in Paths : index[p] \in 0..Len(ops)
      BY <1>4
    <3>2. Len(ops) \in Nat /\ PathsKnown(ops) /\ more[k] = o
      BY <1>4, <2>2
    <3> QED BY ONLY <1>5, <2>1, <2>3, <2>4, <3>1, <3>2, MergeFollows
  <2> QED BY <2>2, <2>3, <2>5
<1>8. CASE ~Merges(acc, c)
  <2>1. k = 0
    <3>1. PICK count, files : Follows(ops, index, edits, count, files, now, told)
      BY <1>5 DEF Followed
    <3>2. /\ \A m \in 1..Len(ops) : count[m] = Len(edits) /\ ops[m].kind # "exec" => ops[m].kind # "moved"
          /\ \A p \in Paths : index[p] # 0 => count[index[p]] = Len(edits) /\ ops[index[p]].kind # "exec"
      BY <3>1 DEF Follows
    <3>3. k # 0 => k \in 1..Len(ops)
      BY <1>1, <1>3, <1>4
    <3>4. k # 0 => ops[k].kind # "moved"
      BY <1>1, <1>3, <3>2, <3>3
    <3> QED BY <1>3, <1>8, <3>4 DEF Merges
  <2>2. PICK more, newer : more = r.operations /\ newer = r.index
    OBVIOUS
  <2>3. PICK o : OneMore(more, ops, o) /\ IsOf(o, c)
    BY <1>2, <1>3, <1>8, <2>2 DEF ChangeMakes
  <2>4. newer[c.path] = Len(ops) + 1 /\ \A p \in Paths : p # c.path => newer[p] = index[p]
    BY <1>2, <1>3, <1>8, <2>2 DEF ChangeMakes
  <2>5. o.path = c.path
    BY <2>3 DEF IsOf
  <2>6. /\ Learns(told, o, after) /\ index[o.path] = 0 /\ newer[o.path] = Len(ops) + 1
        /\ \A p \in Paths : p # o.path => newer[p] = index[p]
    BY <1>3, <1>6, <2>1, <2>3, <2>4, <2>5
  <2>7. Followed(more, newer, edits, now, after)
    <3>1. \A p \in Paths : index[p] \in 0..Len(ops)
      BY <1>4
    <3>2. PathsKnown(ops)
      BY <1>4
    <3> QED BY ONLY <1>5, <2>3, <2>6, <3>1, <3>2, Len(edits) \in Nat, AppendFollows
  <2> QED BY <2>2, <2>7
<1> QED BY <1>7, <1>8

LEMMA ChangeMoves ==
  ASSUME NEW acc, NEW n \in Nat, NEW tape, Scanned(acc, n, tape), NEW c \in FileChanges, c.kind = "moved",
         NEW now, NEW edits, Len(edits) \in Nat, Recounted(acc.operations, edits, now),
         now[c.previous] # Absent, now[c.path] = Absent,
         NEW after, after = Relocated(now, c.previous, c.path),
         NEW i, NEW r, r = AcceptChange(acc, i, c)
  PROVE  Recounted(r.operations, edits, after)
<1>1. ChangeMakes(r, acc, c) /\ ~Merges(acc, c)
  BY ChangeIsMade, KindsOfChanges DEF Merges
<1>2. PICK ops, more : ops = acc.operations /\ more = r.operations
  OBVIOUS
<1>3. PICK o : OneMore(more, ops, o) /\ IsOf(o, c)
  BY <1>1, <1>2 DEF ChangeMakes
<1>4. /\ o.kind = "moved" /\ now[o.previous] # Absent /\ now[o.path] = Absent
      /\ after = Relocated(now, o.previous, o.path)
      /\ Recounted(ops, edits, now)
  BY <1>2, <1>3 DEF IsOf
<1>5. Recounted(more, edits, after)
  BY ONLY <1>3, <1>4, Len(edits) \in Nat, MoveRecounts
<1> QED BY <1>2, <1>5

-----------------------------------------------------------------------------
(* The replay: a longer tape *)

AllEvents == ChangeEvents \cup TerminalEvents
ScanOf(tape) == Accepted(tape)[Len(tape)]

Extends(more, tape, n) ==
  /\ more \in Seq(AllEvents) /\ tape \in Seq(AllEvents) /\ Len(more) = Len(tape) + n
  /\ \A k \in 1..Len(tape) : more[k] = tape[k]

LEMMA ExcusedStays ==
  ASSUME NEW tape, NEW more, NEW n \in Nat, Extends(more, tape, n), Excused(tape)
  PROVE  Excused(more)
<1>1. /\ DOMAIN tape = 1..Len(tape) /\ DOMAIN more = 1..Len(more) /\ Len(tape) \in Nat
      /\ Len(more) = Len(tape) + n /\ \A k \in 1..Len(tape) : more[k] = tape[k]
  BY DEF Extends
<1>2. \A k \in DOMAIN tape : k \in DOMAIN more /\ more[k] = tape[k]
  BY <1>1
<1> QED BY <1>2 DEF Excused

\* The scan of a longer tape begins with that of the tape.
ScansOn(g, tape, more) ==
  /\ g[Len(tape)] = ScanOf(tape) /\ g[Len(more)] = ScanOf(more)
  /\ \A n \in 0..Len(more) : Compiling(g[n], n, more)
  /\ \A n \in 1..Len(more) : g[n] = Accept(g[n - 1], n, more[n])

LEMMA ScanGoesOn ==
  ASSUME NEW tape, NEW more, NEW m \in Nat, Extends(more, tape, m), NEW g, g = Accepted(more)
  PROVE  ScansOn(g, tape, more)
<1>1. PICK f : f = Accepted(tape)
  OBVIOUS
<1>2. /\ tape \in Seq(AllEvents) /\ more \in Seq(AllEvents) /\ Len(more) = Len(tape) + m
      /\ \A k \in 1..Len(tape) : more[k] = tape[k]
      /\ Len(tape) \in Nat
  BY DEF Extends
<1>3. f[0] = Empty /\ \A n \in 1..Len(tape) : f[n] = Accept(f[n - 1], n, tape[n])
  BY ONLY <1>1, <1>2, AcceptedIs
<1>4. g[0] = Empty /\ \A n \in 1..Len(more) : g[n] = Accept(g[n - 1], n, more[n])
  BY ONLY g = Accepted(more), <1>2, AcceptedIs
<1> DEFINE S == {n \in Nat : n <= Len(tape) => g[n] = f[n]}
<1>5. 0 \in S
  BY <1>3, <1>4
<1>6. ASSUME NEW n \in Nat, n \in S PROVE n + 1 \in S
  <2> SUFFICES ASSUME n + 1 <= Len(tape) PROVE g[n + 1] = f[n + 1]
    OBVIOUS
  <2>1. n + 1 \in 1..Len(tape) /\ n + 1 \in 1..Len(more) /\ (n + 1) - 1 = n /\ n <= Len(tape)
    BY <1>2
  <2>2. g[n] = f[n] /\ more[n + 1] = tape[n + 1]
    BY <1>2, <1>6, <2>1
  <2>3. g[n + 1] = Accept(g[n], n + 1, more[n + 1]) /\ f[n + 1] = Accept(f[n], n + 1, tape[n + 1])
    BY ONLY <1>3, <1>4, <2>1
  <2> QED BY ONLY <2>2, <2>3
<1>7. Nat \subseteq S
  <2> HIDE DEF S
  <2> QED BY <1>5, <1>6, Induction
<1>8. g[Len(tape)] = f[Len(tape)]
  BY <1>2, <1>7
<1>9. g[Len(tape)] = ScanOf(tape) /\ g[Len(more)] = ScanOf(more)
  BY <1>1, <1>8 DEF ScanOf
<1>10. \A n \in 0..Len(more) : Compiling(g[n], n, more)
  <2>1. more \in Seq(ChangeEvents \cup TerminalEvents)
    BY <1>2 DEF AllEvents
  <2> QED BY ONLY <2>1, g = Accepted(more), AcceptedScans
<1> QED BY ONLY <1>4, <1>9, <1>10 DEF ScansOn

\* A change event that is accepted by a scan without error.
LEMMA ChangeAccepted ==
  ASSUME NEW acc, NEW n \in Nat, NEW tape, Compiling(acc, n, tape), NEW c \in FileChanges,
         NEW e, e = [kind |-> "changed", change |-> c], NEW r, r = Accept(acc, n + 1, e), r.error = "none"
  PROVE  Scanned(acc, n, tape) /\ acc.error = "none" /\ RecordablePaths(c)
         /\ r = AcceptChange(acc, n + 1, Parsed(c))
<1>1. acc.error = "none"
  BY DEF Accept
<1>2. e.kind = "changed" /\ e.change = c
  OBVIOUS
<1>3. RecordablePaths(c)
  <2> SUFFICES ASSUME ~RecordablePaths(c) PROVE FALSE
    OBVIOUS
  <2>1. r = Refuse(acc, "path")
    BY ONLY <1>1, <1>2, ~RecordablePaths(c), r = Accept(acc, n + 1, e), AcceptIs
  <2>2. r.error = "path"
    BY <2>1, RefusedStays DEF Compiling
  <2> QED BY <2>2
<1>4. r = AcceptChange(acc, n + 1, Parsed(c))
  BY ONLY <1>1, <1>2, <1>3, r = Accept(acc, n + 1, e), AcceptIs
<1> QED BY <1>1, <1>3, <1>4 DEF Compiling

\* The tape after a poll.
GrowsBy(more, tape, changes) ==
  /\ changes \in Seq(FileChanges)
  /\ Extends(more, tape, Len(changes))
  /\ \A k \in 1..Len(changes) : more[Len(tape) + k] = [kind |-> "changed", change |-> changes[k]]

LEMMA BatchOpens ==
  ASSUME NEW tape, NEW more, NEW changes, GrowsBy(more, tape, changes),
         NEW acc, acc = ScanOf(tape), NEW result, result = ScanOf(more)
  PROVE  /\ result.error = "none" => acc.error = "none" /\ result.open = acc.open
         /\ Clean(acc) \/ Excused(tape) => Clean(result) \/ Excused(more)
<1>1. PICK g : g = Accepted(more)
  OBVIOUS
<1>2. PICK L, N : L = Len(tape) /\ N = Len(changes)
  OBVIOUS
<1>3. /\ changes \in Seq(FileChanges) /\ N \in Nat /\ L \in Nat /\ Extends(more, tape, N)
      /\ Len(more) = L + N /\ DOMAIN more = 1..(L + N)
      /\ \A k \in 1..N : changes[k] \in FileChanges /\ more[L + k] = [kind |-> "changed", change |-> changes[k]]
  BY <1>2 DEF GrowsBy, Extends
<1>4. ScansOn(g, tape, more)
  BY ONLY <1>1, <1>3, ScanGoesOn
<1>5. /\ g[L] = acc /\ g[L + N] = result
      /\ \A n \in 0..(L + N) : Compiling(g[n], n, more)
      /\ \A n \in 1..(L + N) : g[n] = Accept(g[n - 1], n, more[n])
  BY <1>2, <1>3, <1>4 DEF ScansOn
<1> DEFINE P(k) == /\ g[L + k].error = "none" => acc.error = "none" /\ g[L + k].open = acc.open
                   /\ Clean(acc) => Clean(g[L + k]) \/ Excused(more)
           S == {k \in Nat : k <= N => P(k)}
<1>6. 0 \in S
  <2>1. g[L + 0] = acc
    BY <1>3, <1>5
  <2> QED BY <2>1
<1>7. ASSUME NEW k \in Nat, k \in S PROVE k + 1 \in S
  <2> SUFFICES ASSUME k + 1 <= N PROVE P(k + 1)
    OBVIOUS
  <2>1. PICK h, r, n, c : h = g[L + k] /\ r = g[L + (k + 1)] /\ n = L + k /\ c = changes[k + 1]
    OBVIOUS
  <2>2. /\ n \in Nat /\ n \in 0..(L + N) /\ n + 1 \in 1..(L + N) /\ (n + 1) - 1 = n /\ n + 1 = L + (k + 1)
        /\ k + 1 \in 1..N /\ k <= N
    BY <1>3, <2>1
  <2>3. c \in FileChanges /\ more[n + 1] = [kind |-> "changed", change |-> c]
    BY <1>3, <2>1, <2>2
  <2>4. Compiling(h, n, more) /\ r = Accept(h, n + 1, more[n + 1])
    BY <1>5, <2>1, <2>2
  <2>5. /\ h.error = "none" => acc.error = "none" /\ h.open = acc.open
        /\ Clean(acc) => Clean(h) \/ Excused(more)
    BY <1>7, <2>1, <2>2
  <2>6. ASSUME r.error = "none" PROVE acc.error = "none" /\ r.open = acc.open
    <3>1. Scanned(h, n, more) /\ h.error = "none" /\ r = AcceptChange(h, n + 1, Parsed(c))
      BY ONLY <2>2, <2>3, <2>4, <2>6, ChangeAccepted
    <3>2. PICK d : d = Parsed(c)
      OBVIOUS
    <3>5. d.path \in Paths
      BY ONLY <2>3, <3>2, ParsedIs, KindsOfChanges
    <3>3. ChangeMakes(r, h, d)
      BY ONLY <3>1, <3>2, <3>5, ChangeIsMade
    <3>4. r.open = h.open
      BY <3>3 DEF ChangeMakes
    <3> QED BY <2>5, <3>1, <3>4
  <2>7. ASSUME Clean(acc), ~Excused(more) PROVE Clean(r)
    <3>1. Clean(h)
      BY <2>5, <2>7
    <3>2. h.error = "none" /\ Scanned(h, n, more)
      BY <2>4, <3>1 DEF Clean, Compiling
    <3>3. Writable(c)
      <4>1. n + 1 \in DOMAIN more /\ more[n + 1].kind = "changed" /\ more[n + 1].change = c
        BY <1>3, <2>2, <2>3
      <4> QED BY <2>7, <4>1 DEF Excused
    <3>5. RecordablePaths(c)
      BY <3>3 DEF Writable
    <3>6. PICK d : d = Parsed(c)
      OBVIOUS
    <3>7. d \in FileChanges /\ Legible(d)
      BY ONLY <2>3, <3>5, <3>6, ParsedIsLegible
    <3>8. Unmentioned(d)
      BY ONLY <2>3, <3>3, <3>6, WritableIsUnmentioned
    <3>4. r = AcceptChange(h, n + 1, d)
      <4>1. PICK e : e = more[n + 1]
        OBVIOUS
      <4>2. e.kind = "changed" /\ e.change = c /\ r = Accept(h, n + 1, e)
        BY <2>3, <2>4, <4>1
      <4>3. Accept(h, n + 1, e) = AcceptChange(h, n + 1, Parsed(e.change))
        BY ONLY <3>2, <3>5, <4>2, AcceptIs
      <4> QED BY <3>6, <4>2, <4>3
    <3> QED BY ONLY <2>2, <3>1, <3>2, <3>4, <3>7, <3>8, ChangeClean
  <2>8. P(k + 1)
    <3> HIDE DEF S
    <3> QED BY <2>1, <2>6, <2>7
  <2> QED BY <2>8
<1>8. Nat \subseteq S
  <2> HIDE DEF S
  <2> QED BY <1>6, <1>7, Induction
<1>9. P(N)
  <2> HIDE DEF P
  <2> QED BY <1>3, <1>8
<1>10. Excused(tape) => Excused(more)
  BY <1>3, ExcusedStays
<1> QED BY <1>5, <1>9, <1>10

\* What the poller has seen after the first changes of a batch.
Seen(told, now, changes, k) ==
  [p \in Paths |-> IF \E i \in 1..k : changes[i].path = p THEN now[p] ELSE told[p]]

LEMMA BatchFollows ==
  ASSUME NEW tape, NEW more, NEW changes, GrowsBy(more, tape, changes),
         \A k \in 1..Len(changes) : changes[k].kind # "moved" /\ Parsed(changes[k]) = changes[k],
         NEW told \in Disks, NEW now \in Disks, Batch(changes, told, now),
         NEW acc, acc = ScanOf(tape), NEW edits, Len(edits) \in Nat,
         Followed(acc.operations, acc.index, edits, now, told),
         NEW result, result = ScanOf(more), result.error = "none"
  PROVE  Followed(result.operations, result.index, edits, now, now)
<1>1. PICK g : g = Accepted(more)
  OBVIOUS
<1>2. PICK L, N : L = Len(tape) /\ N = Len(changes)
  OBVIOUS
<1>3. /\ changes \in Seq(FileChanges) /\ N \in Nat /\ L \in Nat /\ Extends(more, tape, N)
      /\ Len(more) = L + N /\ DOMAIN changes = 1..N
      /\ \A k \in 1..N : changes[k] \in FileChanges /\ more[L + k] = [kind |-> "changed", change |-> changes[k]]
  BY <1>2 DEF GrowsBy, Extends
<1>4. ScansOn(g, tape, more)
  BY ONLY <1>1, <1>3, ScanGoesOn
<1>5. /\ g[L] = acc /\ g[L + N] = result
      /\ \A n \in 0..(L + N) : Compiling(g[n], n, more)
      /\ \A n \in 1..(L + N) : g[n] = Accept(g[n - 1], n, more[n])
  BY <1>2, <1>3, <1>4 DEF ScansOn
<1>6. /\ \A k \in 1..N : /\ changes[k].kind # "moved" /\ Parsed(changes[k]) = changes[k]
                          /\ TrueOf(changes[k], now)
      /\ \A p \in Paths : told[p] # now[p] => \E k \in 1..N : changes[k].path = p
  <2>1. \A p \in Paths : told[p] # now[p] => NamedIn(ToSet(changes), p)
    BY DEF Batch
  <2>2. \A x \in ToSet(changes) : \E k \in 1..N : changes[k] = x
    BY <1>3 DEF ToSet
  <2>3. \A k \in 1..N : changes[k].kind # "moved" /\ Parsed(changes[k]) = changes[k]
    BY <1>2
  <2>4. \A p \in Paths : NamedIn(ToSet(changes), p) => \E k \in 1..N : changes[k].path = p
    BY ONLY <2>2, <2>3 DEF NamedIn
  <2> QED BY <1>3, <2>1, <2>3, <2>4 DEF Batch
<1> DEFINE P(k) == g[L + k].error = "none" =>
                     Followed(g[L + k].operations, g[L + k].index, edits, now, Seen(told, now, changes, k))
           S == {k \in Nat : k <= N => P(k)}
<1>7. 0 \in S
  <2>1. g[L + 0] = acc
    BY <1>3, <1>5
  <2>2. Seen(told, now, changes, 0) = told
    BY DEF Seen, Disks
  <2> QED BY <2>1, <2>2
<1>8. ASSUME NEW k \in Nat, k \in S PROVE k + 1 \in S
  <2> SUFFICES ASSUME k + 1 <= N, g[L + (k + 1)].error = "none"
               PROVE  Followed(g[L + (k + 1)].operations, g[L + (k + 1)].index, edits, now,
                               Seen(told, now, changes, k + 1))
    OBVIOUS
  <2>1. PICK h, r, n, c : h = g[L + k] /\ r = g[L + (k + 1)] /\ n = L + k /\ c = changes[k + 1]
    OBVIOUS
  <2>2. /\ n \in Nat /\ n \in 0..(L + N) /\ n + 1 \in 1..(L + N) /\ (n + 1) - 1 = n /\ n + 1 = L + (k + 1)
        /\ k + 1 \in 1..N /\ k <= N
    BY ONLY <1>3, <2>1, k \in Nat, k + 1 <= N
  <2>3. c \in FileChanges /\ more[n + 1] = [kind |-> "changed", change |-> c]
    BY <1>3, <2>1, <2>2
  <2>4. Compiling(h, n, more) /\ r = Accept(h, n + 1, more[n + 1])
    BY <1>5, <2>1, <2>2
  <2>5. r.error = "none"
    BY <2>1
  <2>6. Scanned(h, n, more) /\ h.error = "none" /\ r = AcceptChange(h, n + 1, c)
    <3>1. Parsed(c) = c
      BY <1>6, <2>1, <2>2
    <3>2. Scanned(h, n, more) /\ h.error = "none" /\ r = AcceptChange(h, n + 1, Parsed(c))
      BY ONLY <2>2, <2>3, <2>4, <2>5, ChangeAccepted
    <3> QED BY ONLY <3>1, <3>2
  <2>7. PICK before, after : before = Seen(told, now, changes, k) /\ after = Seen(told, now, changes, k + 1)
    OBVIOUS
  <2>8. Followed(h.operations, h.index, edits, now, before)
    BY <1>8, <2>1, <2>2, <2>6, <2>7
  <2>9. \A p \in Paths : after[p] = IF p = c.path THEN now[p] ELSE before[p]
    <3> TAKE p \in Paths
    <3>1. /\ after[p] = IF \E i \in 1..(k + 1) : changes[i].path = p THEN now[p] ELSE told[p]
          /\ before[p] = IF \E i \in 1..k : changes[i].path = p THEN now[p] ELSE told[p]
      BY <2>7 DEF Seen
    <3>2. \A i \in 1..(k + 1) : i \in 1..k \/ i = k + 1
      OBVIOUS
    <3>3. k + 1 \in 1..(k + 1) /\ \A i \in 1..k : i \in 1..(k + 1)
      OBVIOUS
    <3> QED BY ONLY <2>1, <3>1, <3>2, <3>3
  <2>10. c.kind # "moved" /\ TrueOf(c, now)
    BY <1>6, <2>1, <2>2
  <2>11. Followed(r.operations, r.index, edits, now, after)
    BY ONLY <2>2, <2>3, <2>6, <2>8, <2>9, <2>10, Len(edits) \in Nat, ChangeFollows
  <2> QED BY <2>1, <2>7, <2>11
<1>9. Nat \subseteq S
  <2> HIDE DEF S
  <2> QED BY <1>7, <1>8, Induction
<1>10. Followed(result.operations, result.index, edits, now, Seen(told, now, changes, N))
  BY <1>3, <1>5, <1>9
<1>11. Seen(told, now, changes, N) = now
  BY <1>6 DEF Seen, Disks
<1> QED BY <1>10, <1>11

-----------------------------------------------------------------------------
(* The replay: the tape grows at its end *)

AllEntries == CollectedEntries \cup TerminalEntries

LEMMA EventsAre ==
  ASSUME NEW m \in Seq(AllEntries), NEW e, e = EventsOf(m)
  PROVE  e \in Seq(AllEvents) /\ Len(e) = Len(m) /\ \A i \in 1..Len(m) : e[i] = m[i].event
<1>1. \A x \in AllEntries : x.event \in AllEvents
  BY DEF AllEntries, AllEvents, CollectedEntries, TerminalEntries
<1>2. DOMAIN m = 1..Len(m) /\ Len(m) \in Nat /\ \A i \in 1..Len(m) : m[i] \in AllEntries
  OBVIOUS
<1>3. e = [i \in 1..Len(m) |-> m[i].event]
  BY <1>2 DEF EventsOf
<1> QED BY ONLY <1>1, <1>2, <1>3

EndsIn(more, tape, new) ==
  /\ Extends(more, tape, Len(new))
  /\ \A k \in 1..Len(new) : more[Len(tape) + k] = new[k].event

LEMMA TapeGrows ==
  ASSUME NEW files \in Seq(CollectedEntries), NEW tape \in Seq(TerminalEntries),
         NEW files2 \in Seq(CollectedEntries), NEW tape2 \in Seq(TerminalEntries),
         NEW u, NEW new \in Seq(AllEntries), NEW v,
         NEW s, s = files \o tape, NEW t, t = files2 \o tape2,
         Later(s, u, new, v, t, AllEntries),
         NEW a, a = EventsOf(Merge(files, tape)), NEW b, b = EventsOf(Merge(files2, tape2))
  PROVE  EndsIn(b, a, new)
<1>1. PICK m, n : m = Merge(files, tape) /\ n = Merge(files2, tape2)
  OBVIOUS
<1>2. PICK T : T = FileEntries(FileChanges) \cup TapeEntries(TerminalEvents)
  OBVIOUS
<1>3. T = AllEntries
  BY <1>2, EntriesAre DEF AllEntries
<1>4. /\ files \in Seq(FileEntries(FileChanges)) /\ files2 \in Seq(FileEntries(FileChanges))
      /\ tape \in Seq(TapeEntries(TerminalEvents)) /\ tape2 \in Seq(TapeEntries(TerminalEvents))
  BY EntriesAre
<1>5. Reordered(m, s, T)
  <2>1. s = files \o tape /\ m = Merge(files, tape)
    BY <1>1
  <2>2. Reordered(m, s, FileEntries(FileChanges) \cup TapeEntries(TerminalEvents))
    BY ONLY <1>4, <2>1, MergeReorders
  <2> QED BY <1>2, <2>2
<1>6. Reordered(n, t, T)
  <2>1. t = files2 \o tape2 /\ n = Merge(files2, tape2)
    BY <1>1
  <2>2. Reordered(n, t, FileEntries(FileChanges) \cup TapeEntries(TerminalEvents))
    BY ONLY <1>4, <2>1, MergeReorders
  <2> QED BY <1>2, <2>2
<1>7. n = m \o new
  <2>1. Later(s, u, new, v, t, T)
    BY <1>3
  <2>2. Timeline(T)
    BY <1>2 DEF Timeline
  <2> QED BY ONLY <1>5, <1>6, <2>1, <2>2, LaterComesLast
<1>8. m \in Seq(AllEntries) /\ n \in Seq(AllEntries)
  BY <1>3, <1>5, <1>6 DEF Reordered
<1>9. Joins(n, m, new, AllEntries)
  BY ONLY <1>7, <1>8, new \in Seq(AllEntries), JoinIs
<1>10. /\ Len(n) = Len(m) + Len(new) /\ Len(m) \in Nat /\ Len(new) \in Nat
       /\ \A k \in 1..Len(m) : n[k] = m[k]
       /\ \A k \in 1..Len(new) : n[Len(m) + k] = new[k]
  BY ONLY <1>8, <1>9, new \in Seq(AllEntries) DEF Joins
<1>11. /\ a \in Seq(AllEvents) /\ Len(a) = Len(m) /\ \A i \in 1..Len(m) : a[i] = m[i].event
       /\ b \in Seq(AllEvents) /\ Len(b) = Len(n) /\ \A i \in 1..Len(n) : b[i] = n[i].event
  <2>1. a = EventsOf(m) /\ b = EventsOf(n)
    BY <1>1
  <2> QED BY ONLY <1>8, <2>1, EventsAre
<1>12. (\A k \in 1..Len(m) : k \in 1..Len(n)) /\ (\A k \in 1..Len(new) : Len(m) + k \in 1..Len(n))
  BY ONLY <1>10
<1>13. /\ \A k \in 1..Len(a) : b[k] = a[k]
       /\ \A k \in 1..Len(new) : b[Len(a) + k] = new[k].event
  BY ONLY <1>10, <1>11, <1>12
<1>14. Len(b) = Len(a) + Len(new)
  BY ONLY <1>10, <1>11
<1> QED BY ONLY <1>11, <1>13, <1>14 DEF EndsIn, Extends

LEMMA CollectedIsEarlier ==
  ASSUME NEW files \in Seq(CollectedEntries), InTime(files),
         NEW now \in Nat, files # <<>> => now = files[Len(files)].at
  PROVE  \A i \in DOMAIN files : files[i].at \in Nat /\ files[i].at <= now
<1>1. PICK L : L = Len(files) /\ L \in Nat
  OBVIOUS
<1>2. DOMAIN files = 1..L /\ \A i \in 1..L : files[i] \in CollectedEntries
  BY <1>1
<1> SUFFICES ASSUME NEW i \in 1..L PROVE files[i].at \in Nat /\ files[i].at <= now
  BY <1>2
<1>3. L \in 1..L /\ (i = L \/ i < L)
  BY ONLY <1>1, i \in 1..L
<1>4. files[i] \in CollectedEntries /\ files[L] \in CollectedEntries /\ files # <<>>
  BY <1>2, <1>3
<1>5. files[i].at \in Nat /\ files[L].at \in Nat /\ now = files[L].at
  BY <1>1, <1>4 DEF CollectedEntries
<1>6. i = L \/ TimelineBefore(files[i], files[L])
  BY <1>2, <1>3 DEF InTime
<1> QED BY ONLY <1>5, <1>6 DEF TimelineBefore

\* Everything on a timeline was recorded by now.
Dated(files, tape, now) ==
  /\ files \in Seq(CollectedEntries) /\ tape \in Seq(TerminalEntries) /\ now \in Nat
  /\ \A i \in DOMAIN files : files[i].at \in Nat /\ files[i].at <= now
  /\ \A i \in DOMAIN tape : tape[i].at <= now /\ tape[i].sequence = i - 1
Ends(more, tape, e) == Extends(more, tape, 1) /\ more[Len(tape) + 1] = e

LEMMA RecordGrows ==
  ASSUME NEW files, NEW tape, NEW now, Dated(files, tape, now),
         NEW e \in TerminalEvents,
         NEW entry, entry = [at |-> now, source |-> "tape", sequence |-> Len(tape), event |-> e],
         NEW tape2, tape2 = Append(tape, entry),
         NEW a, a = EventsOf(Merge(files, tape)), NEW b, b = EventsOf(Merge(files, tape2))
  PROVE  Ends(b, a, e)
<1> /\ files \in Seq(CollectedEntries) /\ tape \in Seq(TerminalEntries) /\ now \in Nat
    /\ \A i \in DOMAIN files : files[i].at \in Nat /\ files[i].at <= now
    /\ \A i \in DOMAIN tape : tape[i].at <= now /\ tape[i].sequence = i - 1
  BY DEF Dated
<1>1. entry \in TerminalEntries
  BY DEF TerminalEntries
<1>2. tape2 \in Seq(TerminalEntries)
  BY <1>1
<1>3. PICK new, s, t, u, v : new = <<entry>> /\ s = files \o tape /\ t = files \o tape2 /\ u = s /\ v = <<>>
  OBVIOUS
<1>4. new \in Seq(AllEntries) /\ files \in Seq(AllEntries) /\ tape \in Seq(AllEntries) /\ entry \in AllEntries
      /\ v \in Seq(AllEntries)
  BY <1>1, <1>3 DEF AllEntries
<1>5. s \in Seq(AllEntries)
  BY <1>3, <1>4
<1>6. s = u \o v
  BY ONLY <1>3, <1>5, ConcatEmptySeq
<1>7. t = u \o (new \o v)
  <2>1. new \o v = new
    BY ONLY <1>3, <1>4, ConcatEmptySeq
  <2>2. tape2 = tape \o new
    BY ONLY <1>3, <1>4, tape2 = Append(tape, entry), AppendIsConcat
  <2>3. (files \o tape) \o new = files \o (tape \o new)
    BY ONLY <1>4, ConcatAssociative
  <2> QED BY ONLY <1>3, <2>1, <2>2, <2>3
<1>8. InTime(new)
  <2>1. DOMAIN new = {1}
    BY <1>3
  <2> QED BY ONLY <2>1 DEF InTime
<1>9. \A i \in DOMAIN s, j \in DOMAIN new : TimelineBefore(s[i], new[j])
  <2> TAKE i \in DOMAIN s, j \in DOMAIN new
  <2>1. new[j] = entry
    BY <1>3
  <2>2. CASE i \in DOMAIN files
    <3>1. s[i] = files[i]
      BY <1>3, <2>2
    <3>2. files[i].at <= now /\ files[i].at \in Nat /\ files[i].source = "files"
      <4>1. files[i] \in CollectedEntries
        BY <2>2
      <4> QED BY <2>2, <4>1 DEF CollectedEntries
    <3> QED BY ONLY <2>1, <3>1, <3>2, now \in Nat, entry = [at |-> now, source |-> "tape", sequence |-> Len(tape), event |-> e]
            DEF TimelineBefore
  <2>3. CASE i \notin DOMAIN files
    <3>1. PICK k : k \in DOMAIN tape /\ s[i] = tape[k] /\ k \in Nat /\ k <= Len(tape) /\ Len(tape) \in Nat
      <4>1. i - Len(files) \in DOMAIN tape /\ s[i] = tape[i - Len(files)]
        BY <1>3, <2>3
      <4> QED BY <4>1
    <3>2. tape[k] \in TerminalEntries
      BY <3>1
    <3>3. tape[k].at <= now /\ tape[k].at \in Nat /\ tape[k].source = "tape" /\ tape[k].sequence = k - 1
      BY <3>1, <3>2 DEF TerminalEntries
    <3> QED BY ONLY <2>1, <3>1, <3>3, now \in Nat, entry = [at |-> now, source |-> "tape", sequence |-> Len(tape), event |-> e]
            DEF TimelineBefore
  <2> QED BY <2>2, <2>3
<1>10. u \in Seq(AllEntries)
  BY ONLY <1>3, <1>5
<1>11. Later(s, u, new, v, t, AllEntries)
  BY ONLY <1>4, <1>6, <1>7, <1>8, <1>9, <1>10 DEF Later
<1>12. EndsIn(b, a, new)
  <2>1. s = files \o tape
    BY <1>3
  <2>2. t = files \o tape2
    BY <1>3
  <2>3. new \in Seq(AllEntries)
    BY <1>4
  <2> QED BY ONLY <1>2, <1>11, <2>1, <2>2, <2>3, files \in Seq(CollectedEntries), tape \in Seq(TerminalEntries),
                  a = EventsOf(Merge(files, tape)), b = EventsOf(Merge(files, tape2)), TapeGrows
<1>13. Len(new) = 1 /\ new[1].event = e
  BY <1>3
<1> QED BY ONLY <1>12, <1>13 DEF EndsIn, Ends

LEMMA BatchGrows ==
  ASSUME NEW files, NEW tape, NEW now, Dated(files, tape, now),
         NEW changes \in Seq(FileChanges),
         \A j, k \in DOMAIN changes : j < k => ChangeBefore(changes[j], changes[k]),
         NEW files2, files2 = files \o Entries(changes, now + 1),
         NEW a, a = EventsOf(Merge(files, tape)), NEW b, b = EventsOf(Merge(files2, tape))
  PROVE  GrowsBy(b, a, changes)
<1> /\ files \in Seq(CollectedEntries) /\ tape \in Seq(TerminalEntries) /\ now \in Nat
    /\ \A i \in DOMAIN files : files[i].at \in Nat /\ files[i].at <= now
    /\ \A i \in DOMAIN tape : tape[i].at <= now
  BY DEF Dated
<1>1. PICK new, at, s, t : /\ new = Entries(changes, at) /\ at = now + 1 /\ at \in Nat
                           /\ s = files \o tape /\ t = files2 \o tape
  <2>1. now + 1 \in Nat
    BY ONLY now \in Nat
  <2> QED BY ONLY <2>1
<1>2. /\ new \in Seq(CollectedEntries) /\ Len(new) = Len(changes)
      /\ \A i \in 1..Len(changes) : new[i] = [at |-> at, source |-> "files",
                                              event |-> [kind |-> "changed", change |-> changes[i]]]
  <2>1. new = Entries(changes, at)
    BY <1>1
  <2>2. at \in Nat
    BY <1>1
  <2>3. changes \in Seq(FileChanges)
    OBVIOUS
  <2>4. AreEntries(new, changes, at)
    BY ONLY <2>1, <2>2, <2>3, EntriesAreTyped
  <2> QED BY ONLY <2>4 DEF AreEntries
<1>3. new \in Seq(AllEntries) /\ files \in Seq(AllEntries) /\ tape \in Seq(AllEntries)
  BY <1>2 DEF AllEntries
<1>4. files2 = files \o new /\ files2 \in Seq(CollectedEntries)
  BY <1>1, <1>2
<1>5. t = files \o (new \o tape)
  <2>1. (files \o new) \o tape = files \o (new \o tape)
    BY ONLY <1>3, ConcatAssociative
  <2> QED BY <1>1, <1>4, <2>1
<1>6. Len(changes) \in Nat /\ DOMAIN new = 1..Len(changes) /\ DOMAIN changes = 1..Len(changes)
  BY <1>2
<1>7. InTime(new)
  <2>1. ASSUME NEW j \in DOMAIN new, NEW k \in DOMAIN new, j < k PROVE TimelineBefore(new[j], new[k])
    <3>1. ChangeBefore(changes[j], changes[k])
      BY <1>6, <2>1
    <3>2. PICK x, y : x = new[j] /\ y = new[k]
      OBVIOUS
    <3>3. /\ x.at = y.at /\ x.source = "files" /\ y.source = "files"
          /\ x.event.change = changes[j] /\ y.event.change = changes[k]
      BY <1>2, <1>6, <3>2
    <3> QED BY ONLY <3>1, <3>2, <3>3 DEF TimelineBefore
  <2> QED BY <2>1 DEF InTime
<1>8. \A i \in DOMAIN s, j \in DOMAIN new : TimelineBefore(s[i], new[j])
  <2> TAKE i \in DOMAIN s, j \in DOMAIN new
  <2>1. new[j].at = now + 1
    <3>1. PICK y : y = new[j]
      OBVIOUS
    <3>2. y = [at |-> at, source |-> "files", event |-> [kind |-> "changed", change |-> changes[j]]]
      BY ONLY <1>2, <1>6, <3>1, j \in DOMAIN new
    <3>3. y.at = at
      BY ONLY <3>2
    <3> QED BY <1>1, <3>1, <3>3
  <2>2. s[i].at \in Nat /\ s[i].at <= now
    <3>1. CASE i \in DOMAIN files
      BY <1>1, <3>1
    <3>2. CASE i \notin DOMAIN files
      <4>1. i - Len(files) \in DOMAIN tape /\ s[i] = tape[i - Len(files)]
        BY <1>1, <3>2
      <4>2. tape[i - Len(files)] \in TerminalEntries
        BY <4>1
      <4> QED BY <4>1, <4>2 DEF TerminalEntries
    <3> QED BY <3>1, <3>2
  <2>3. PICK x, y : x = s[i] /\ y = new[j]
    OBVIOUS
  <2>4. x.at < y.at
    BY <2>1, <2>2, <2>3
  <2> QED BY ONLY <2>3, <2>4 DEF TimelineBefore
<1>9. Later(s, files, new, tape, t, AllEntries)
  <2>1. s = files \o tape
    BY <1>1
  <2> QED BY ONLY <1>3, <1>5, <1>7, <1>8, <2>1 DEF Later
<1>10. EndsIn(b, a, new)
  <2>1. s = files \o tape
    BY <1>1
  <2>2. t = files2 \o tape
    BY <1>1
  <2>3. new \in Seq(AllEntries)
    BY <1>3
  <2>4. files2 \in Seq(CollectedEntries)
    BY <1>4
  <2> QED BY ONLY <1>9, <2>1, <2>2, <2>3, <2>4, files \in Seq(CollectedEntries), tape \in Seq(TerminalEntries),
                  a = EventsOf(Merge(files, tape)), b = EventsOf(Merge(files2, tape)), TapeGrows
<1>11. \A k \in 1..Len(changes) : new[k].event = [kind |-> "changed", change |-> changes[k]]
  <2> TAKE k \in 1..Len(changes)
  <2>1. PICK y : y = new[k]
    OBVIOUS
  <2>2. y = [at |-> at, source |-> "files", event |-> [kind |-> "changed", change |-> changes[k]]]
    BY ONLY <1>2, <2>1, k \in 1..Len(changes)
  <2>3. y.event = [kind |-> "changed", change |-> changes[k]]
    BY ONLY <2>2
  <2> QED BY ONLY <2>1, <2>3
<1> QED BY ONLY <1>2, <1>10, <1>11, changes \in Seq(FileChanges) DEF EndsIn, GrowsBy

LEMMA TapeIsDated ==
  ASSUME TapeInv, ToldInv, ClockInv, NEW files, files = collected, NEW tape, tape = terminal, NEW now, now = Now
  PROVE  Dated(files, tape, now)
<1>1. now \in Nat
  BY NowIsNumber
<1>2. files \in Seq(CollectedEntries) /\ InTime(files) /\ tape \in Seq(TerminalEntries)
  BY DEF TapeInv, ToldInv, CollectedEntries, TerminalEntries
<1>3. files # <<>> => now = files[Len(files)].at
  BY DEF Now, Last
<1>4. \A i \in DOMAIN files : files[i].at \in Nat /\ files[i].at <= now
  BY ONLY <1>1, <1>2, <1>3, CollectedIsEarlier
<1>5. \A i \in DOMAIN tape : tape[i].at <= now /\ tape[i].sequence = i - 1
  BY DEF ClockInv
<1> QED BY ONLY <1>1, <1>2, <1>4, <1>5 DEF Dated

LEMMA RecordsOnTape ==
  ASSUME TapeInv, ToldInv, ClockInv, NEW e \in TerminalEvents, Record(e), collected' = collected
  PROVE  Ends(Tape', Tape, e) /\ ClockInv'
<1>1. PICK files, now, tape, tape2, entry :
        /\ files = collected /\ now = Now /\ tape = terminal /\ tape2 = terminal'
        /\ entry = [at |-> now, source |-> "tape", sequence |-> Len(tape), event |-> e]
  OBVIOUS
<1>2. Dated(files, tape, now)
  BY <1>1, TapeIsDated
<1>3. tape2 = Append(tape, entry)
  BY <1>1 DEF Record
<1>4. PICK a, b : a = EventsOf(Merge(files, tape)) /\ b = EventsOf(Merge(files, tape2))
  OBVIOUS
<1>5. Ends(b, a, e)
  <2>1. a = EventsOf(Merge(files, tape))
    BY <1>4
  <2>2. b = EventsOf(Merge(files, tape2))
    BY <1>4
  <2>3. entry = [at |-> now, source |-> "tape", sequence |-> Len(tape), event |-> e]
    BY <1>1
  <2> QED BY ONLY <1>2, <1>3, <2>1, <2>2, <2>3, e \in TerminalEvents, RecordGrows
<1>6. a = Tape /\ b = Tape'
  BY <1>1, <1>4 DEF Tape
<1>7. \A i \in DOMAIN tape2 : tape2[i].at <= now /\ tape2[i].sequence = i - 1
  <2> TAKE i \in DOMAIN tape2
  <2>1. now \in Nat /\ tape \in Seq(TerminalEntries) /\ Len(tape) \in Nat /\ DOMAIN tape = 1..Len(tape)
        /\ \A k \in DOMAIN tape : tape[k].at <= now /\ tape[k].sequence = k - 1
    BY <1>2 DEF Dated
  <2>2. entry.at = now /\ entry.sequence = Len(tape)
    BY <1>1
  <2>3. (i \in DOMAIN tape /\ tape2[i] = tape[i]) \/ (i = Len(tape) + 1 /\ tape2[i] = entry)
    BY ONLY <1>3, <2>1, i \in DOMAIN tape2
  <2> QED BY ONLY <2>1, <2>2, <2>3
<1>8. Now' = now
  BY <1>1 DEF Now
<1>9. ClockInv'
  BY <1>1, <1>7, <1>8 DEF ClockInv
<1> QED BY <1>5, <1>6, <1>9

LEMMA PollsOnTape ==
  ASSUME TapeInv, ToldInv, ClockInv, Poll
  PROVE  /\ \E changes : /\ changes = Adapt(ScanEvents(seen, world), world)
                         /\ Batch(changes, seen, world) /\ GrowsBy(Tape', Tape, changes)
         /\ ClockInv'
<1>1. PICK changes : /\ changes = Adapt(ScanEvents(seen, world), world) /\ Batch(changes, seen, world)
                     /\ collected' = collected \o Entries(changes, Now + 1)
  BY PollReports
<1>2. PICK files, now, tape, files2 :
        files = collected /\ now = Now /\ tape = terminal /\ files2 = collected'
  OBVIOUS
<1>3. Dated(files, tape, now)
  BY <1>2, TapeIsDated
<1>4. terminal' = tape
  BY <1>2 DEF Poll
<1>6. PICK a, b : a = EventsOf(Merge(files, tape)) /\ b = EventsOf(Merge(files2, tape))
  OBVIOUS
<1>7. changes \in Seq(FileChanges)
  BY <1>1 DEF Batch
<1>8. \A j, k \in DOMAIN changes : j < k => ChangeBefore(changes[j], changes[k])
  BY <1>1 DEF Batch
<1>9. files2 = files \o Entries(changes, now + 1)
  BY <1>1, <1>2
<1>10. GrowsBy(b, a, changes)
  <2>1. a = EventsOf(Merge(files, tape))
    BY <1>6
  <2>2. b = EventsOf(Merge(files2, tape))
    BY <1>6
  <2> QED BY ONLY <1>3, <1>7, <1>8, <1>9, <2>1, <2>2, BatchGrows
<1>11. a = Tape /\ b = Tape'
  BY <1>2, <1>4, <1>6 DEF Tape
<1>12. now <= Now' /\ Now' \in Nat
  <2>1. TapeInv' /\ ToldInv'
    BY TapePolls, ToldPolls
  <2>2. Now' \in Nat /\ now \in Nat
    <3>1. now \in Nat
      BY <1>2, NowIsNumber
    <3>2. files2 \in Seq(CollectedEntries)
      BY <1>2, <2>1 DEF TapeInv, CollectedEntries
    <3>3. CASE files2 = <<>>
      BY <1>2, <3>1, <3>3 DEF Now
    <3>4. CASE files2 # <<>>
      <4>1. files2[Len(files2)] \in CollectedEntries
        BY ONLY <3>2, <3>4
      <4> QED BY <1>2, <3>1, <3>4, <4>1 DEF Now, Last, CollectedEntries
    <3> QED BY <3>3, <3>4
  <2>3. CASE collected = <<>>
    BY <1>2, <2>2, <2>3 DEF Now
  <2>4. CASE collected # <<>>
    <3>1. PICK L, entries, at : L = Len(files) /\ entries = Entries(changes, at) /\ at = now + 1
      OBVIOUS
    <3>2. files \in Seq(CollectedEntries) /\ L \in Nat \ {0} /\ files2 \in Seq(CollectedEntries)
      BY <1>2, <2>1, <2>4, <3>1 DEF TapeInv, CollectedEntries
    <3>3. files2 = files \o entries
      BY <1>9, <3>1
    <3>4. entries \in Seq(CollectedEntries)
      BY <1>7, <2>2, <3>1, EntriesAreTyped DEF AreEntries
    <3>5. files2 # <<>> /\ L \in DOMAIN files2 /\ files2[L] = files[L] /\ L <= Len(files2)
      BY ONLY <3>1, <3>2, <3>3, <3>4
    <3>6. now = files[L].at /\ Now' = files2[Len(files2)].at
      BY <1>2, <2>4, <3>1, <3>5 DEF Now, Last
    <3>7. InTime(files2)
      BY <1>2, <2>1 DEF ToldInv
    <3>8. L = Len(files2) \/ TimelineBefore(files2[L], files2[Len(files2)])
      BY ONLY <3>2, <3>5, <3>7 DEF InTime
    <3> QED BY <2>2, <3>5, <3>6, <3>8 DEF TimelineBefore
  <2> QED BY <2>3, <2>4
<1>13. \A i \in DOMAIN tape : tape[i].at \in Nat /\ tape[i].at <= now /\ tape[i].sequence = i - 1
  <2> TAKE i \in DOMAIN tape
  <2>1. tape[i] \in TerminalEntries
    BY <1>3 DEF Dated
  <2> QED BY <1>3, <2>1 DEF Dated, TerminalEntries
<1>14. now \in Nat
  BY <1>3 DEF Dated
<1>15. ClockInv'
  BY <1>4, <1>12, <1>13, <1>14 DEF ClockInv
<1> QED BY <1>1, <1>10, <1>11, <1>15

-----------------------------------------------------------------------------
(* The replay: what an event of the terminal makes of the scan *)

Answers(acc, r, n, more, e) ==
  /\ n \in Nat /\ Compiling(acc, n, more) /\ Compiling(r, n + 1, more) /\ e = more[n + 1] /\ n + 1 \in DOMAIN more
  /\ r = Accept(acc, n + 1, e)

LEMMA EventAnswered ==
  ASSUME NEW tape, NEW more, NEW e, Ends(more, tape, e), NEW acc, acc = ScanOf(tape), NEW r, r = ScanOf(more)
  PROVE  Answers(acc, r, Len(tape), more, e)
<1>1. PICK g : g = Accepted(more)
  OBVIOUS
<1>2. Extends(more, tape, 1) /\ more[Len(tape) + 1] = e
  BY DEF Ends
<1>3. ScansOn(g, tape, more)
  <2>1. Extends(more, tape, 1)
    BY <1>2
  <2>2. 1 \in Nat
    OBVIOUS
  <2> QED BY ONLY <1>1, <2>1, <2>2, ScanGoesOn
<1>4. Len(tape) \in Nat /\ Len(more) = Len(tape) + 1 /\ DOMAIN more = 1..Len(more)
  BY <1>2 DEF Extends
<1>5. Len(tape) \in 0..Len(more) /\ Len(more) \in 0..Len(more) /\ Len(more) \in 1..Len(more)
      /\ Len(more) - 1 = Len(tape)
  BY ONLY <1>4
<1>6. g[Len(tape)] = acc /\ g[Len(more)] = r
  BY <1>3 DEF ScansOn
<1>7. Compiling(g[Len(tape)], Len(tape), more) /\ Compiling(g[Len(more)], Len(more), more)
  BY <1>3, <1>5 DEF ScansOn
<1>8. g[Len(more)] = Accept(g[Len(more) - 1], Len(more), more[Len(more)])
  BY <1>3, <1>5 DEF ScansOn
<1> QED BY <1>2, <1>4, <1>5, <1>6, <1>7, <1>8 DEF Answers

LEMMA StartsOnScan ==
  ASSUME NEW tape, NEW more, NEW e \in TerminalEvents, e.kind = "started", Ends(more, tape, e),
         NEW acc, acc = ScanOf(tape), NEW r, r = ScanOf(more),
         acc.error = "none" => acc.open = 0, Clean(acc) \/ Excused(tape)
  PROVE  /\ Clean(r) \/ Excused(more)
         /\ r.error = "none" => acc.error = "none" /\ r.open # 0 /\ StartMakes(r, acc, e)
<1>1. Answers(acc, r, Len(tape), more, e)
  BY ONLY Ends(more, tape, e), acc = ScanOf(tape), r = ScanOf(more), EventAnswered
<1>2. CASE acc.error # "none"
  <2>1. r = acc
    BY <1>1, <1>2 DEF Answers, Accept
  <2>2. Excused(tape)
    BY <1>2 DEF Clean
  <2>3. Extends(more, tape, 1) /\ 1 \in Nat
    BY DEF Ends
  <2>4. Excused(more)
    BY ONLY <2>2, <2>3, ExcusedStays
  <2> QED BY <1>2, <2>1, <2>4
<1>3. CASE acc.error = "none"
  <2>1. PICK n : n = Len(tape) /\ n \in Nat /\ n + 1 \in DOMAIN more /\ e = more[n + 1]
    BY <1>1 DEF Answers
  <2>2. Scanned(acc, n, more) /\ acc.open = 0 /\ acc \in Accs
    BY <1>1, <1>3, <2>1 DEF Answers, Compiling, Scanned
  <2>3. r = AcceptStarted(acc, n + 1, e)
    <3>1. r = Accept(acc, n + 1, e)
      BY <1>1, <2>1 DEF Answers
    <3>2. e.kind = "started"
      OBVIOUS
    <3> QED BY ONLY <1>3, <3>1, <3>2, AcceptIs
  <2>4. StartMakes(r, acc, e)
    <3>1. acc.open = 0
      BY <2>2
    <3>2. acc \in Accs
      BY <2>2
    <3> QED BY ONLY <2>3, <3>1, <3>2, StartedMakes
  <2>5. r.error = "none"
    <3>1. PICK s : s = acc.open
      OBVIOUS
    <3>2. r = [acc EXCEPT !.operations = r.operations, !.index = r.index, !.open = r.open]
      BY <2>2, <2>3 DEF AcceptStarted, Accs
    <3> QED BY <1>3, <2>2, <3>2 DEF Accs
  <2>6. CASE e.inputs = {}
    <3>1. Clean(acc) \/ Excused(more)
      <4>1. Extends(more, tape, 1) /\ 1 \in Nat
        BY DEF Ends
      <4>2. Excused(tape) => Excused(more)
        BY ONLY <4>1, ExcusedStays
      <4> QED BY <4>2
    <3>2. ASSUME Clean(acc) PROVE Clean(r)
      <4>1. PICK o : OneMore(r.operations, acc.operations, o) /\ Unmentioned(o)
        BY <2>4, <2>6 DEF StartMakes, Unmentioned
      <4>2. r \in Accs
        BY <1>1 DEF Answers, Compiling
      <4>3. DOMAIN r.operations = 1..Len(r.operations) /\ DOMAIN acc.operations = 1..Len(acc.operations)
        BY <2>2, <4>2 DEF Accs
      <4> QED BY <2>5, <3>2, <4>1, <4>3 DEF Clean, OneMore
    <3> QED BY <1>3, <2>4, <3>1, <3>2 DEF StartMakes
  <2>7. CASE e.inputs # {}
    BY <1>3, <2>1, <2>4, <2>7 DEF Excused, StartMakes
  <2> QED BY <2>6, <2>7
<1> QED BY <1>2, <1>3

LEMMA OutputOnScan ==
  ASSUME NEW tape, NEW more, NEW e \in TerminalEvents, e.kind = "output", Ends(more, tape, e),
         NEW acc, acc = ScanOf(tape), NEW r, r = ScanOf(more),
         acc.error = "none" => acc.open # 0, Clean(acc) \/ Excused(tape)
  PROVE  /\ Clean(r) \/ Excused(more)
         /\ r.error = "none" => acc.error = "none" /\ OutputMakes(r, acc) /\ Scanned(acc, Len(tape), more)
<1>1. Answers(acc, r, Len(tape), more, e)
  BY ONLY Ends(more, tape, e), acc = ScanOf(tape), r = ScanOf(more), EventAnswered
<1>2. Excused(tape) => Excused(more)
  <2>1. Extends(more, tape, 1) /\ 1 \in Nat
    BY DEF Ends
  <2> QED BY ONLY <2>1, ExcusedStays
<1>3. CASE acc.error # "none"
  <2>1. r = acc
    BY <1>1, <1>3 DEF Answers, Accept
  <2>2. Excused(tape)
    BY <1>3 DEF Clean
  <2> QED BY <1>2, <1>3, <2>1, <2>2
<1>4. CASE acc.error = "none"
  <2>1. PICK n : n = Len(tape) /\ n \in Nat
    BY <1>1 DEF Answers
  <2>2. Scanned(acc, n, more)
    BY <1>1, <1>4, <2>1 DEF Answers, Compiling
  <2>3. acc.open # 0
    BY <1>4
  <2>4. r = AcceptOutput(acc, n + 1)
    <3>1. r = Accept(acc, n + 1, e)
      BY <1>1, <2>1 DEF Answers
    <3>2. e.kind = "output"
      OBVIOUS
    <3> QED BY ONLY <1>4, <3>1, <3>2, AcceptIs
  <2>5. OutputMakes(r, acc)
    BY ONLY <2>2, <2>3, <2>4, OutputIsMade
  <2>6. r.error = "none"
    <3>1. r.error = acc.error
      BY ONLY <2>1, <2>2, <2>3, <2>4, OutputScans
    <3> QED BY <1>4, <3>1
  <2>7. ASSUME Clean(acc) PROVE Clean(r)
    <3>1. r \in Accs /\ acc \in Accs
      BY <1>1 DEF Answers, Compiling
    <3>2. DOMAIN r.operations = 1..Len(r.operations) /\ DOMAIN acc.operations = 1..Len(acc.operations)
      BY <3>1 DEF Accs
    <3>3. Len(r.operations) = Len(acc.operations)
          /\ \A k \in 1..Len(acc.operations) :
               \/ r.operations[k] = acc.operations[k]
               \/ /\ r.operations[k].kind = "exec" /\ acc.operations[k].kind = "exec"
                  /\ r.operations[k].inputs = acc.operations[k].inputs
      BY <2>5 DEF OutputMakes, Alike
    <3>4. \A k \in 1..Len(acc.operations) : Unmentioned(acc.operations[k])
      BY <2>7, <3>2 DEF Clean
    <3>5. \A k \in 1..Len(acc.operations) : Unmentioned(r.operations[k])
      BY ONLY <3>3, <3>4 DEF Unmentioned
    <3> QED BY <2>6, <3>2, <3>3, <3>5 DEF Clean
  <2> QED BY <1>2, <1>4, <2>1, <2>2, <2>5, <2>7
<1> QED BY <1>3, <1>4

LEMMA FinishOnScan ==
  ASSUME NEW tape, NEW more, NEW e \in TerminalEvents, e.kind = "finished", Ends(more, tape, e),
         NEW acc, acc = ScanOf(tape), NEW r, r = ScanOf(more), Clean(acc) \/ Excused(tape)
  PROVE  /\ Clean(r) \/ Excused(more)
         /\ r.error = "none" => r = acc
<1>1. Answers(acc, r, Len(tape), more, e)
  BY ONLY Ends(more, tape, e), acc = ScanOf(tape), r = ScanOf(more), EventAnswered
<1>2. Excused(tape) => Excused(more)
  <2>1. Extends(more, tape, 1) /\ 1 \in Nat
    BY DEF Ends
  <2> QED BY ONLY <2>1, ExcusedStays
<1>3. CASE acc.error # "none"
  <2>1. r = acc
    BY <1>1, <1>3 DEF Answers, Accept
  <2>2. Excused(tape)
    BY <1>3 DEF Clean
  <2> QED BY <1>2, <1>3, <2>1, <2>2
<1>4. CASE acc.error = "none"
  <2>1. PICK n : n = Len(tape) /\ n \in Nat /\ n + 1 \in DOMAIN more /\ e = more[n + 1]
    BY <1>1 DEF Answers
  <2>2. CASE e.cancelled
    <3>1. Excused(more)
      BY <2>1, <2>2 DEF Excused
    <3>2. r = Refuse(acc, "cancelled")
      BY <1>1, <1>4, <2>2 DEF Answers, Accept
    <3>3. r.error = "cancelled"
      BY <1>1, <3>2, RefusedStays DEF Answers, Compiling
    <3> QED BY <3>1, <3>3
  <2>3. CASE ~e.cancelled
    <3>1. r = acc
      BY <1>1, <1>4, <2>3 DEF Answers, Accept
    <3> QED BY <1>2, <3>1
  <2> QED BY <2>2, <2>3
<1> QED BY <1>3, <1>4

-----------------------------------------------------------------------------
(* The replay: the scan of every step *)

LEMMA TapeStays ==
  ASSUME UNCHANGED <<collected, terminal>>
  PROVE  Tape' = Tape /\ Scan' = Scan /\ (ClockInv => ClockInv')
<1>1. Tape' = Tape
  BY DEF Tape
<1>2. Scan' = Scan
  BY <1>1 DEF Scan
<1>3. Now' = Now
  BY DEF Now
<1> QED BY <1>1, <1>2, <1>3 DEF ClockInv

LEMMA ScansStart ==
  ASSUME TapeInv, ToldInv, ClockInv, ScanInv, Start
  PROVE  /\ ClockInv' /\ (Clean(Scan') \/ Excused(Tape'))
         /\ Scan'.error = "none" =>
              Scan.error = "none" /\ Scan'.open # 0 /\ \E e : StartMakes(Scan', Scan, e)
<1>1. did \in Seq(Seq(Edits)) /\ Len(did) \in Nat
  BY DEF TapeInv
<1>2. Len(did) + 1 \in DOMAIN CommandLines
  BY <1>1, CommandLinesAssumption DEF Start
<1>3. PICK line \in CommandLines[Len(did) + 1] :
        Record([kind |-> "started", program |-> line.program, reads |-> line.reads,
                inputs |-> line.inputs])
  BY DEF Start
<1>4. line \in [program : Seq(STRING), reads : BOOLEAN, inputs : SUBSET STRING]
  BY <1>2, <1>3, CommandLinesAssumption
<1>5. PICK e : e = [kind |-> "started", program |-> line.program, reads |-> line.reads,
                    inputs |-> line.inputs]
  OBVIOUS
<1>6. e \in TerminalEvents /\ e.kind = "started" /\ Record(e)
  BY <1>3, <1>4, <1>5 DEF TerminalEvents
<1>7. collected' = collected /\ ~running
  BY DEF Start
<1>8. Ends(Tape', Tape, e) /\ ClockInv'
  BY <1>6, <1>7, RecordsOnTape
<1>9. PICK tape, more, acc, r : tape = Tape /\ more = Tape' /\ acc = Scan /\ r = Scan'
  OBVIOUS
<1>10. acc = ScanOf(tape) /\ r = ScanOf(more)
  BY <1>9 DEF Scan, ScanOf
<1>11. Clean(acc) \/ Excused(tape)
  BY <1>9 DEF ScanInv, Clean
<1>12. acc.error = "none" => acc.open = 0
  BY <1>7, <1>9 DEF ScanInv
<1>13. /\ Clean(r) \/ Excused(more)
       /\ r.error = "none" => acc.error = "none" /\ r.open # 0 /\ StartMakes(r, acc, e)
  <2>1. Ends(more, tape, e)
    BY <1>8, <1>9
  <2>2. e \in TerminalEvents
    BY <1>6
  <2>3. e.kind = "started"
    BY <1>6
  <2>4. acc = ScanOf(tape)
    BY <1>10
  <2>5. r = ScanOf(more)
    BY <1>10
  <2> QED BY ONLY <1>11, <1>12, <2>1, <2>2, <2>3, <2>4, <2>5, StartsOnScan
<1> QED BY <1>8, <1>9, <1>13

LEMMA ScansOutput ==
  ASSUME TapeInv, ToldInv, ClockInv, ScanInv, Output
  PROVE  /\ ClockInv' /\ (Clean(Scan') \/ Excused(Tape'))
         /\ Scan'.error = "none" => /\ Scan.error = "none" /\ OutputMakes(Scan', Scan)
                                    /\ \E n, tape : Scanned(Scan, n, tape)
<1>1. PICK e : e = [kind |-> "output"]
  OBVIOUS
<1>2. e \in TerminalEvents /\ e.kind = "output" /\ Record(e)
  BY <1>1 DEF TerminalEvents, Output
<1>3. collected' = collected /\ running
  BY DEF Output
<1>4. Ends(Tape', Tape, e) /\ ClockInv'
  BY <1>2, <1>3, RecordsOnTape
<1>5. PICK tape, more, acc, r : tape = Tape /\ more = Tape' /\ acc = Scan /\ r = Scan'
  OBVIOUS
<1>6. acc = ScanOf(tape) /\ r = ScanOf(more)
  BY <1>5 DEF Scan, ScanOf
<1>7. Clean(acc) \/ Excused(tape)
  BY <1>5 DEF ScanInv, Clean
<1>8. acc.error = "none" => acc.open # 0
  BY <1>3, <1>5 DEF ScanInv
<1>9. /\ Clean(r) \/ Excused(more)
      /\ r.error = "none" => acc.error = "none" /\ OutputMakes(r, acc) /\ Scanned(acc, Len(tape), more)
  <2>1. Ends(more, tape, e)
    BY <1>4, <1>5
  <2>2. e \in TerminalEvents
    BY <1>2
  <2>3. e.kind = "output"
    BY <1>2
  <2>4. acc = ScanOf(tape)
    BY <1>6
  <2>5. r = ScanOf(more)
    BY <1>6
  <2> QED BY ONLY <1>7, <1>8, <2>1, <2>2, <2>3, <2>4, <2>5, OutputOnScan
<1> QED BY <1>4, <1>5, <1>9

LEMMA ScansFinish ==
  ASSUME TapeInv, ToldInv, ClockInv, ScanInv, NEW cancelled \in BOOLEAN, Finish(cancelled)
  PROVE  /\ ClockInv' /\ (Clean(Scan') \/ Excused(Tape'))
         /\ Scan'.error = "none" => Scan' = Scan
<1>1. PICK e : e = [kind |-> "finished", cancelled |-> cancelled]
  OBVIOUS
<1>2. e \in TerminalEvents /\ e.kind = "finished" /\ Record(e)
  BY <1>1 DEF TerminalEvents, Finish
<1>3. collected' = collected
  BY DEF Finish
<1>4. Ends(Tape', Tape, e) /\ ClockInv'
  BY <1>2, <1>3, RecordsOnTape
<1>5. PICK tape, more, acc, r : tape = Tape /\ more = Tape' /\ acc = Scan /\ r = Scan'
  OBVIOUS
<1>6. acc = ScanOf(tape) /\ r = ScanOf(more)
  BY <1>5 DEF Scan, ScanOf
<1>7. Clean(acc) \/ Excused(tape)
  BY <1>5 DEF ScanInv, Clean
<1>8. /\ Clean(r) \/ Excused(more)
      /\ r.error = "none" => r = acc
  <2>1. Ends(more, tape, e)
    BY <1>4, <1>5
  <2>2. e \in TerminalEvents
    BY <1>2
  <2>3. e.kind = "finished"
    BY <1>2
  <2>4. acc = ScanOf(tape)
    BY <1>6
  <2>5. r = ScanOf(more)
    BY <1>6
  <2> QED BY ONLY <1>7, <2>1, <2>2, <2>3, <2>4, <2>5, FinishOnScan
<1> QED BY <1>4, <1>5, <1>8

LEMMA ScansPoll ==
  ASSUME TapeInv, ToldInv, ClockInv, ScanInv, Poll
  PROVE  /\ ClockInv' /\ (Clean(Scan') \/ Excused(Tape'))
         /\ Scan'.error = "none" => Scan.error = "none" /\ Scan'.open = Scan.open
<1>1. PICK changes : GrowsBy(Tape', Tape, changes)
  BY PollsOnTape
<1>2. PICK tape, more, acc, r : tape = Tape /\ more = Tape' /\ acc = Scan /\ r = Scan'
  OBVIOUS
<1>3. acc = ScanOf(tape) /\ r = ScanOf(more)
  BY <1>2 DEF Scan, ScanOf
<1>4. Clean(acc) \/ Excused(tape)
  BY <1>2 DEF ScanInv, Clean
<1>5. /\ r.error = "none" => acc.error = "none" /\ r.open = acc.open
      /\ Clean(acc) \/ Excused(tape) => Clean(r) \/ Excused(more)
  <2>1. GrowsBy(more, tape, changes)
    BY <1>1, <1>2
  <2>2. acc = ScanOf(tape)
    BY <1>3
  <2>3. r = ScanOf(more)
    BY <1>3
  <2> QED BY ONLY <2>1, <2>2, <2>3, BatchOpens
<1>6. ClockInv'
  BY PollsOnTape
<1> QED BY <1>2, <1>4, <1>5, <1>6

LEMMA ScanStep ==
  ASSUME TapeInv, ToldInv, ClockInv, ScanInv, [Next]_vars
  PROVE  ClockInv' /\ ScanInv'
<1>1. ScanInv' <=>
        /\ Clean(Scan') \/ Excused(Tape')
        /\ Scan'.error = "none" => (Scan'.open # 0 <=> running')
        /\ running' => did' # <<>>
        /\ stage' # "recording" => events' = Tape' /\ seen' = world' /\ ~running'
  BY DEF ScanInv, Clean
<1>2. CASE Start
  <2>1. did' # <<>> /\ running' /\ stage' = "recording"
    BY <1>2 DEF Start, TapeInv
  <2> QED BY <1>1, <1>2, <2>1, ScansStart
<1>3. CASE Output
  <2>1. ~running' /\ stage' = "recording"
    BY <1>3 DEF Output
  <2>2. Scan'.error = "none" => Scan'.open = 0
    BY <1>3, ScansOutput DEF OutputMakes
  <2> QED BY <1>1, <1>3, <2>1, <2>2, ScansOutput
<1>4. ASSUME NEW cancelled \in BOOLEAN, Finish(cancelled) PROVE ClockInv' /\ ScanInv'
  <2>1. ~running /\ running' = running /\ seen' = world'
    BY <1>4 DEF Finish
  <2>2. events' = Tape'
    BY <1>4 DEF Finish, Tape, EventsOf
  <2>3. Scan'.error = "none" => Scan'.open = 0
    <3>1. Scan'.error = "none" => Scan' = Scan
      BY <1>4, ScansFinish
    <3> QED BY <2>1, <3>1 DEF ScanInv
  <2>4. ClockInv' /\ (Clean(Scan') \/ Excused(Tape'))
    BY <1>4, ScansFinish
  <2> QED BY <1>1, <2>1, <2>2, <2>3, <2>4
<1>5. CASE Poll
  <2>1. UNCHANGED <<running, did, stage>> /\ stage = "recording"
    BY <1>5 DEF Poll
  <2> QED BY <1>1, <1>5, <2>1, ScansPoll DEF ScanInv
<1>6. CASE UNCHANGED <<collected, terminal>> /\ UNCHANGED running
           /\ (UNCHANGED did \/ (running /\ Len(did') = Len(did) /\ did' \in Seq(Seq(Edits))))
           /\ (stage' = "recording" \/ (stage # "recording" /\ UNCHANGED <<events, seen, world>>))
  <2>1. Tape' = Tape /\ Scan' = Scan /\ ClockInv'
    BY <1>6, TapeStays
  <2>2. running' => did' # <<>>
    <3>1. did # <<>> /\ did \in Seq(Seq(Edits)) => Len(did) # 0
      OBVIOUS
    <3> QED BY <1>6, <3>1 DEF ScanInv, TapeInv
  <2> QED BY <1>1, <1>6, <2>1, <2>2 DEF ScanInv, Clean
<1>7. ASSUME NEW edit \in Edits, Edit(edit) PROVE ClockInv' /\ ScanInv'
  <2>1. did' \in Seq(Seq(Edits)) /\ Len(did') = Len(did)
    <3>1. TapeInv'
      BY <1>7, TapeEdits
    <3> QED BY <1>7, <3>1 DEF Edit, TapeInv
  <2> QED BY <1>6, <1>7, <2>1 DEF Edit
<1>8. ASSUME NEW from \in Paths, NEW to \in Paths, MoveByHand(from, to) PROVE ClockInv' /\ ScanInv'
  BY <1>6, <1>8 DEF MoveByHand
<1>9. CASE Compile \/ ReplayStep \/ ReplayDenied \/ ReplayFails \/ Deliver
  BY <1>6, <1>9 DEF Compile, ReplayStep, ReplayDenied, ReplayFails, Deliver, recording
<1>10. CASE UNCHANGED vars
  BY <1>6, <1>10 DEF vars, recording
<1> QED BY <1>2, <1>3, <1>4, <1>5, <1>7, <1>8, <1>9, <1>10 DEF Next

LEMMA FreshStep == ASSUME FreshInv, [Next]_vars PROVE FreshInv'
<1>1. Begin' = Begin
  BY DEF Begin, Inputs
<1>2. CASE Start \/ (\E edit \in Edits : Edit(edit)) \/ (\E from, to \in Paths : MoveByHand(from, to))
  BY <1>1, <1>2 DEF Start, Edit, MoveByHand, run, FreshInv
<1>3. CASE Poll \/ Output \/ \E cancelled \in BOOLEAN : Finish(cancelled)
  BY <1>1, <1>3 DEF Poll, Output, Finish, run, FreshInv
<1>4. CASE Compile
  BY <1>1, <1>4 DEF Compile, recording, run, FreshInv
<1>5. CASE ReplayStep \/ ReplayDenied \/ ReplayFails \/ Deliver
  BY <1>1, <1>5 DEF ReplayStep, ReplayDenied, ReplayFails, Deliver, Stop, recording, FreshInv
<1>6. CASE UNCHANGED vars
  BY <1>1, <1>6 DEF vars, recording, run, FreshInv
<1> QED BY <1>2, <1>3, <1>4, <1>5, <1>6 DEF Next

-----------------------------------------------------------------------------
(* The replay: what is recorded can be replayed *)

MovesTo(told, now) == \E from, to \in Paths : Moves(told, now, from, to)

\* What a recording that is going on can be replayed to.
Recorded(h, acc, edits, now, told) ==
  /\ h = "none" => Followed(acc.operations, acc.index, edits, now, told)
  /\ h = "pending" => Followed(acc.operations, acc.index, edits, told, told) /\ MovesTo(told, now)
  /\ h = "seen" => Recounted(acc.operations, edits, now) /\ told = now

LEMMA RecordedIs ==
  ASSUME NEW h \in {"none", "pending", "seen"}, NEW acc, NEW edits, NEW now, NEW told
  PROVE  (\E count, files :
            /\ h = "none" => Unmoved(acc, edits, count, files, now, told)
            /\ h = "pending" => Unmoved(acc, edits, count, files, told, told) /\ MovesTo(told, now)
            /\ h = "seen" => Moved(acc, edits, count, files, now) /\ told = now)
         <=> Recorded(h, acc, edits, now, told)
<1>1. \A count, files : Unmoved(acc, edits, count, files, now, told)
                          <=> Follows(acc.operations, acc.index, edits, count, files, now, told)
  BY FollowsIs
<1>2. \A count, files : Unmoved(acc, edits, count, files, told, told)
                          <=> Follows(acc.operations, acc.index, edits, count, files, told, told)
  BY FollowsIs
<1>3. \A count, files : Moved(acc, edits, count, files, now) <=> Recounts(acc.operations, edits, count, files, now)
  BY DEF Moved, Recounts
<1>4. CASE h = "none"
  BY <1>1, <1>4, Zenon DEF Recorded, Followed
<1>5. CASE h = "pending"
  BY <1>2, <1>5, Zenon DEF Recorded, Followed
<1>6. CASE h = "seen"
  BY <1>3, <1>6, Zenon DEF Recorded, Recounted
<1> QED BY <1>4, <1>5, <1>6

LEMMA StoryIs ==
  ASSUME stage = "recording", hand \in {"none", "pending", "seen"}
  PROVE  (\E count, files : Story(count, files)) <=> Recorded(hand, Scan, did, world, seen)
<1>1. PICK h, acc, edits, now, told : h = hand /\ acc = Scan /\ edits = did /\ now = world /\ told = seen
  OBVIOUS
<1>2. MovedByHand <=> MovesTo(told, now)
  BY <1>1 DEF MovedByHand, MovesTo, Moves, Relocated
<1>3. \A count, files : Story(count, files) <=>
            /\ h = "none" => Unmoved(acc, edits, count, files, now, told)
            /\ h = "pending" => Unmoved(acc, edits, count, files, told, told) /\ MovesTo(told, now)
            /\ h = "seen" => Moved(acc, edits, count, files, now) /\ told = now
  BY <1>1, <1>2 DEF Story
<1>4. (\E count, files :
            /\ h = "none" => Unmoved(acc, edits, count, files, now, told)
            /\ h = "pending" => Unmoved(acc, edits, count, files, told, told) /\ MovesTo(told, now)
            /\ h = "seen" => Moved(acc, edits, count, files, now) /\ told = now)
         <=> Recorded(h, acc, edits, now, told)
  <2>1. h \in {"none", "pending", "seen"}
    BY <1>1
  <2> QED BY ONLY <2>1, RecordedIs
<1> QED BY <1>1, <1>3, <1>4

LEMMA NextStoryIs ==
  ASSUME stage' = "recording", hand' \in {"none", "pending", "seen"}
  PROVE  (\E count, files : Story(count, files))' <=> Recorded(hand', Scan', did', world', seen')
<1>1. PICK h, acc, edits, now, told : h = hand' /\ acc = Scan' /\ edits = did' /\ now = world' /\ told = seen'
  OBVIOUS
<1>2. MovedByHand' <=> MovesTo(told, now)
  BY <1>1 DEF MovedByHand, MovesTo, Moves, Relocated
<1>3. \A count, files : Story(count, files)' <=>
            /\ h = "none" => Unmoved(acc, edits, count, files, now, told)
            /\ h = "pending" => Unmoved(acc, edits, count, files, told, told) /\ MovesTo(told, now)
            /\ h = "seen" => Moved(acc, edits, count, files, now) /\ told = now
  BY <1>1, <1>2 DEF Story
<1>4. (\E count, files :
            /\ h = "none" => Unmoved(acc, edits, count, files, now, told)
            /\ h = "pending" => Unmoved(acc, edits, count, files, told, told) /\ MovesTo(told, now)
            /\ h = "seen" => Moved(acc, edits, count, files, now) /\ told = now)
         <=> Recorded(h, acc, edits, now, told)
  <2>1. h \in {"none", "pending", "seen"}
    BY <1>1
  <2> QED BY ONLY <2>1, RecordedIs
<1> QED BY <1>1, <1>3, <1>4

LEMMA TapeIsTyped == ASSUME TapeInv PROVE Tape \in Seq(AllEvents)
<1>1. PICK files, tape, s, m, e :
        /\ files = collected /\ tape = terminal /\ s = files \o tape /\ m = Merge(files, tape) /\ e = EventsOf(m)
  OBVIOUS
<1>2. files \in Seq(FileEntries(FileChanges)) /\ tape \in Seq(TapeEntries(TerminalEvents))
  BY <1>1, EntriesAre DEF TapeInv, CollectedEntries, TerminalEntries
<1>3. m \in Seq(AllEntries)
  <2>1. s = files \o tape /\ m = Merge(files, tape)
    BY <1>1
  <2>2. Reordered(m, s, FileEntries(FileChanges) \cup TapeEntries(TerminalEvents))
    BY ONLY <1>2, <2>1, MergeReorders
  <2> QED BY ONLY <2>2, EntriesAre DEF Reordered, AllEntries
<1>4. e = EventsOf(m)
  BY <1>1
<1>5. e \in Seq(AllEvents)
  BY ONLY <1>3, <1>4, EventsAre
<1> QED BY <1>1, <1>5 DEF Tape

LEMMA ScanIsScanned ==
  ASSUME TapeInv, Scan.error = "none"
  PROVE  Scanned(Scan, Len(Tape), Tape)
<1>1. PICK tape, f : tape = Tape /\ f = Accepted(tape)
  OBVIOUS
<1>2. tape \in Seq(ChangeEvents \cup TerminalEvents)
  BY <1>1, TapeIsTyped DEF AllEvents
<1>3. f = Accepted(tape)
  BY <1>1
<1>4. \A n \in 0..Len(tape) : Compiling(f[n], n, tape)
  BY ONLY <1>2, <1>3, AcceptedScans
<1>5. Len(tape) \in 0..Len(tape)
  BY <1>2
<1>6. f[Len(tape)] = Scan
  BY <1>1 DEF Scan
<1> QED BY <1>1, <1>4, <1>5, <1>6 DEF Compiling

\* When the poller has seen all there is, everything so far can be replayed.
LEMMA RecordedStill ==
  ASSUME NEW h \in {"none", "pending", "seen"}, NEW acc, Len(acc.operations) \in Nat, NEW edits, Len(edits) \in Nat,
         NEW now \in Disks, NEW told, told = now, Recorded(h, acc, edits, now, told)
  PROVE  Recounted(acc.operations, edits, now)
<1>1. CASE h = "none"
  <2>1. PICK count, files : Follows(acc.operations, acc.index, edits, count, files, now, now)
    BY <1>1 DEF Recorded, Followed
  <2>2. PICK ops, index : ops = acc.operations /\ index = acc.index
    OBVIOUS
  <2>3. Follows(ops, index, edits, count, files, now, now) /\ Len(ops) \in Nat
    BY <2>1, <2>2
  <2>4. /\ Course(ops, edits, count, files)
        /\ \A n \in 1..Len(ops) : AsRecorded(files[n - 1], ops[n])
        /\ files[Len(ops)] = now
    BY ONLY <2>3, Len(edits) \in Nat, StoodStill
  <2> QED BY <2>2, <2>4 DEF Recounted, Recounts
<1>2. CASE h = "pending"
  <2>1. PICK from \in Paths, to \in Paths : told[from] # Absent /\ told[to] = Absent /\ now = Relocated(told, from, to)
    BY <1>2 DEF Recorded, MovesTo, Moves
  <2>2. now[from] = Absent
    BY <2>1 DEF Relocated, Disks
  <2> QED BY <2>1, <2>2
<1>3. CASE h = "seen"
  BY <1>3 DEF Recorded
<1> QED BY <1>1, <1>2, <1>3

LEMMA StoryGoesOn ==
  ASSUME StoryInv, stage = "recording", stage' = "recording", hand' \in {"none", "pending", "seen"},
         ~misread' /\ Scan'.error = "none" => ~misread /\ Scan.error = "none",
         ~misread' /\ Scan'.error = "none" /\ Recorded(hand, Scan, did, world, seen)
           => Recorded(hand', Scan', did', world', seen')
  PROVE  StoryInv'
<1>1. hand \in {"none", "pending", "seen"}
  BY DEF StoryInv
<1>2. SUFFICES ASSUME ~misread', Scan'.error = "none" PROVE (\E count, files : Story(count, files))'
  BY DEF StoryInv
<1>3. \E count, files : Story(count, files)
  BY <1>2 DEF StoryInv
<1>4. Recorded(hand, Scan, did, world, seen)
  BY <1>1, <1>3, StoryIs
<1> QED BY <1>2, <1>4, NextStoryIs

LEMMA StoryStarts ==
  ASSUME TapeInv, ToldInv, ClockInv, ScanInv, StoryInv, Start
  PROVE  StoryInv'
<1>1. /\ stage = "recording" /\ stage' = "recording" /\ hand' = "none" /\ misread' = misread
      /\ seen = world /\ world' = world /\ seen' = seen /\ did' = Append(did, <<>>)
  BY DEF Start
<1>2. Scan'.error = "none" => Scan.error = "none" /\ \E e : StartMakes(Scan', Scan, e)
  BY ScansStart
<1>3. ASSUME Scan'.error = "none", Recorded(hand, Scan, did, world, seen)
      PROVE  Recorded(hand', Scan', did', world', seen')
  <2>1. Scanned(Scan, Len(Tape), Tape)
    BY <1>2, <1>3, ScanIsScanned
  <2>2. PICK e : StartMakes(Scan', Scan, e)
    BY <1>2, <1>3
  <2>3. PICK acc, r, edits, again, now, h :
          acc = Scan /\ r = Scan' /\ edits = did /\ again = did' /\ now = world /\ h = hand
    OBVIOUS
  <2>4. PICK ops, more : ops = acc.operations /\ more = r.operations
    OBVIOUS
  <2>5. /\ Len(acc.operations) \in Nat /\ edits \in Seq(Seq(Edits)) /\ Len(edits) \in Nat /\ now \in Disks
        /\ h \in {"none", "pending", "seen"}
    BY <2>1, <2>3, ScannedIs DEF TapeInv, Disks, StoryInv
  <2>6. Recounted(ops, edits, now)
    <3>1. Recorded(h, acc, edits, now, now)
      BY <1>1, <1>3, <2>3
    <3>2. Recounted(acc.operations, edits, now)
      BY ONLY <2>5, <3>1, RecordedStill
    <3> QED BY <2>4, <3>2
  <2>7. PICK o : OneMore(more, ops, o) /\ o.kind = "exec"
    BY <2>2, <2>3, <2>4 DEF StartMakes
  <2>8. PICK index : index = r.index /\ \A p \in Paths : index[p] = 0
    BY <2>2, <2>3 DEF StartMakes
  <2>9. /\ Len(again) = Len(edits) + 1 /\ again[Len(edits) + 1] = <<>>
        /\ \A k \in 1..Len(edits) : again[k] = edits[k]
    <3>1. again = Append(edits, <<>>)
      BY <1>1, <2>3
    <3> QED BY ONLY <2>5, <3>1
  <2>10. Followed(more, index, again, now, now)
    BY ONLY <2>5, <2>6, <2>7, <2>8, <2>9, StartFollows
  <2> QED BY <1>1, <2>3, <2>4, <2>8, <2>10 DEF Recorded
<1> QED BY <1>1, <1>2, <1>3, StoryGoesOn

LEMMA StoryEdits ==
  ASSUME TapeInv, ScanInv, StoryInv, NEW edit \in Edits, Edit(edit)
  PROVE  StoryInv'
<1>1. /\ stage = "recording" /\ stage' = "recording" /\ hand = "none" /\ hand' = "none" /\ misread' = misread
      /\ running /\ world' = Edited(world, edit) /\ seen' = seen
      /\ did' = [did EXCEPT ![Len(did)] = Append(@, edit)]
      /\ UNCHANGED <<collected, terminal>>
  BY DEF Edit
<1>2. Scan' = Scan
  BY <1>1, TapeStays
<1>3. ASSUME Scan'.error = "none", Recorded(hand, Scan, did, world, seen)
      PROVE  Recorded(hand', Scan', did', world', seen')
  <2>1. Scanned(Scan, Len(Tape), Tape)
    BY <1>2, <1>3, ScanIsScanned
  <2>2. PICK ops, index, edits, again, now, told, after :
          /\ ops = Scan.operations /\ index = Scan.index /\ edits = did /\ again = did'
          /\ now = world /\ told = seen /\ after = world'
    OBVIOUS
  <2>3. Len(ops) \in Nat
    BY <2>1, <2>2, ScannedIs
  <2>4. edits \in Seq(Seq(Edits)) /\ edits # <<>>
    BY <1>1, <2>2 DEF TapeInv, ScanInv
  <2>5. Len(edits) \in Nat \ {0} /\ edits[Len(edits)] \in Seq(Edits)
    BY ONLY <2>4
  <2>6. /\ Len(again) = Len(edits) /\ again[Len(edits)] = Append(edits[Len(edits)], edit)
        /\ \A k \in 1..Len(edits) : k # Len(edits) => again[k] = edits[k]
    <3>1. again = [edits EXCEPT ![Len(edits)] = Append(edits[Len(edits)], edit)]
      BY <1>1, <2>2
    <3> QED BY ONLY <2>4, <2>5, <3>1
  <2>7. Followed(ops, index, edits, now, told)
    BY <1>1, <1>3, <2>2 DEF Recorded
  <2>8. after = Edited(now, edit)
    BY <1>1, <2>2
  <2>9. Followed(ops, index, again, after, told)
    BY ONLY <2>3, <2>5, <2>6, <2>7, <2>8, edit \in Edits, EditFollows
  <2> QED BY <1>1, <1>2, <2>2, <2>9 DEF Recorded
<1> QED BY <1>1, <1>2, <1>3, StoryGoesOn

LEMMA StoryIsMoved ==
  ASSUME TapeInv, StoryInv, NEW from \in Paths, NEW to \in Paths, MoveByHand(from, to)
  PROVE  StoryInv'
<1>1. /\ stage = "recording" /\ stage' = "recording" /\ hand = "none" /\ hand' = "pending" /\ misread' = misread
      /\ seen = world /\ world[from] # Absent /\ world[to] = Absent /\ world' = Relocated(world, from, to)
      /\ seen' = seen /\ did' = did
      /\ UNCHANGED <<collected, terminal>>
  BY DEF MoveByHand, Relocated
<1>2. Scan' = Scan
  BY <1>1, TapeStays
<1>3. MovesTo(seen', world')
  BY <1>1 DEF MovesTo, Moves
<1>4. ASSUME Recorded(hand, Scan, did, world, seen) PROVE Recorded(hand', Scan', did', world', seen')
  BY <1>1, <1>2, <1>3, <1>4 DEF Recorded
<1> QED BY <1>1, <1>2, <1>4, StoryGoesOn

LEMMA StoryOutputs ==
  ASSUME TapeInv, ToldInv, ClockInv, ScanInv, StoryInv, Output
  PROVE  StoryInv'
<1>1. /\ stage = "recording" /\ stage' = "recording" /\ hand' = hand /\ misread' = misread
      /\ world' = world /\ seen' = seen /\ did' = did
      /\ hand \in {"none", "pending", "seen"}
  BY DEF Output, StoryInv
<1>2. Scan'.error = "none" => /\ Scan.error = "none" /\ OutputMakes(Scan', Scan)
                              /\ \E n, tape : Scanned(Scan, n, tape)
  BY ScansOutput
<1>3. ASSUME Scan'.error = "none", Recorded(hand, Scan, did, world, seen)
      PROVE  Recorded(hand', Scan', did', world', seen')
  <2>1. PICK n, tape : Scanned(Scan, n, tape)
    BY <1>2, <1>3
  <2>2. PICK ops, more, index, edits, now, told :
          /\ ops = Scan.operations /\ more = Scan'.operations /\ index = Scan.index /\ edits = did
          /\ now = world /\ told = seen
    OBVIOUS
  <2>3. Len(ops) \in Nat /\ \A p \in Paths : index[p] \in 0..Len(ops)
    BY <2>1, <2>2, ScannedIs
  <2>4. Alike(more, ops) /\ Scan'.index = index
    BY <1>2, <1>3, <2>2 DEF OutputMakes
  <2>5. Followed(ops, index, edits, now, told) => Followed(more, index, edits, now, told)
    BY ONLY <2>3, <2>4, AlikeStory
  <2>6. Followed(ops, index, edits, told, told) => Followed(more, index, edits, told, told)
    BY ONLY <2>3, <2>4, AlikeStory
  <2>7. Recounted(ops, edits, now) => Recounted(more, edits, now)
    BY ONLY <2>3, <2>4, AlikeStory
  <2> QED BY <1>1, <1>3, <2>2, <2>4, <2>5, <2>6, <2>7 DEF Recorded
<1> QED BY <1>1, <1>2, <1>3, StoryGoesOn

LEMMA StoryPolls ==
  ASSUME TapeInv, ToldInv, ClockInv, ScanInv, StoryInv, Poll
  PROVE  StoryInv'
<1>1. /\ stage = "recording" /\ stage' = "recording" /\ seen # world /\ seen' = world /\ world' = world
      /\ did' = did /\ hand' = IF hand = "pending" THEN "seen" ELSE hand
      /\ hand \in {"none", "pending", "seen"}
  BY DEF Poll, StoryInv
<1>2. PICK changes : /\ changes = Adapt(ScanEvents(seen, world), world)
                     /\ Batch(changes, seen, world) /\ GrowsBy(Tape', Tape, changes)
  BY PollsOnTape
<1>3. misread' = (\/ misread
                  \/ hand # "pending" /\ OfKind(ToSet(changes), "moved") # {}
                  \/ \E change \in ToSet(changes) : Parsed(change) # change)
  BY <1>2 DEF Poll
<1>12. ~misread' => /\ hand = "pending" \/ OfKind(ToSet(changes), "moved") = {}
                    /\ \A k \in 1..Len(changes) : Parsed(changes[k]) = changes[k]
  <2>1. \A k \in 1..Len(changes) : changes[k] \in ToSet(changes)
    BY <1>2 DEF Batch, ToSet
  <2> QED BY ONLY <1>3, <2>1
<1>4. Scan'.error = "none" => Scan.error = "none"
  BY ScansPoll
<1>5. PICK tape, more, acc, r, edits, now, told :
        /\ tape = Tape /\ more = Tape' /\ acc = Scan /\ r = Scan' /\ edits = did /\ now = world /\ told = seen
  OBVIOUS
<1>6. acc = ScanOf(tape) /\ r = ScanOf(more)
  BY <1>5 DEF Scan, ScanOf
<1>7. GrowsBy(more, tape, changes) /\ Batch(changes, told, now)
  BY <1>2, <1>5
<1>8. Len(edits) \in Nat /\ now \in Disks /\ told \in Disks
  BY <1>5 DEF TapeInv, Disks
<1>9. ASSUME ~misread', Scan'.error = "none", Recorded(hand, Scan, did, world, seen)
      PROVE  Recorded(hand', Scan', did', world', seen')
  <2>1. CASE hand = "none"
    <3>1. \A k \in 1..Len(changes) : changes[k].kind # "moved" /\ Parsed(changes[k]) = changes[k]
      <4>1. OfKind(ToSet(changes), "moved") = {}
        BY <1>9, <1>12, <2>1
      <4>2. \A k \in 1..Len(changes) : changes[k] \in ToSet(changes)
        BY <1>7 DEF Batch, ToSet
      <4> QED BY <1>9, <1>12, <4>1, <4>2 DEF OfKind
    <3>2. PICK ops, index, result, newer :
            ops = acc.operations /\ index = acc.index /\ result = r.operations /\ newer = r.index
      OBVIOUS
    <3>3. Followed(acc.operations, acc.index, edits, now, told)
      BY <1>5, <1>9, <2>1 DEF Recorded
    <3>4. Followed(r.operations, r.index, edits, now, now)
      <4>1. GrowsBy(more, tape, changes)
        BY <1>7
      <4>2. Batch(changes, told, now)
        BY <1>7
      <4>3. acc = ScanOf(tape)
        BY <1>6
      <4>4. r = ScanOf(more)
        BY <1>6
      <4>5. r.error = "none"
        BY <1>5, <1>9
      <4> QED BY ONLY <1>8, <3>1, <3>3, <4>1, <4>2, <4>3, <4>4, <4>5, BatchFollows
    <3> QED BY <1>1, <1>5, <2>1, <3>4 DEF Recorded
  <2>2. CASE hand = "pending"
    <3>1. PICK from \in Paths, to \in Paths :
            told[from] # Absent /\ told[to] = Absent /\ now = Relocated(told, from, to)
      BY <1>5, <1>9, <2>2 DEF Recorded, MovesTo, Moves
    <3>2. PICK c : c = ChangeFor("moved", to, from, now)
      OBVIOUS
    <3>3. changes = <<c>>
      <4>1. PICK n, V : n = Len(Name) /\ V = Contents \cup {Absent}
        OBVIOUS
      <4>2. n \in Nat /\ told \in [1..n -> V] /\ now \in [1..n -> V] /\ from \in 1..n /\ to \in 1..n
        BY <1>8, <4>1, PathsAreNumbers DEF Disks
      <4>3. changes = Adapt(ScanEvents(told, now), now)
        BY <1>2, <1>5
      <4>4. Moves(told, now, from, to)
        BY <3>1 DEF Moves
      <4>5. from \in 1..n
        BY <4>2
      <4>6. to \in 1..n
        BY <4>2
      <4>7. told \in [1..n -> V]
        BY <4>2
      <4>8. now \in [1..n -> V]
        BY <4>2
      <4>9. n \in Nat
        BY <4>2
      <4>10. OneMove(changes, from, to, now)
        BY ONLY <4>3, <4>4, <4>5, <4>6, <4>7, <4>8, <4>9, MovesAreInferred
      <4> QED BY <3>2, <4>10 DEF OneMove
    <3>4. c \in FileChanges /\ c.kind = "moved" /\ c.previous = from /\ c.path = to
      BY <1>7, <3>2, <3>3 DEF Batch, ChangeFor
    <3>5. Len(tape) \in Nat /\ Extends(more, tape, 1) /\ more[Len(tape) + 1] = [kind |-> "changed", change |-> c]
      <4>1. Len(changes) = 1 /\ changes[1] = c
        BY <3>3
      <4> QED BY <1>7, <4>1 DEF GrowsBy, Extends
    <3>6. PICK e : e = [kind |-> "changed", change |-> c]
      OBVIOUS
    <3>7. Answers(acc, r, Len(tape), more, e)
      <4>1. Ends(more, tape, e)
        BY <3>5, <3>6 DEF Ends
      <4>2. acc = ScanOf(tape)
        BY <1>6
      <4>3. r = ScanOf(more)
        BY <1>6
      <4> QED BY ONLY <4>1, <4>2, <4>3, EventAnswered
    <3>8. PICK n : n = Len(tape) /\ n \in Nat
      BY <3>5
    <3>9. Scanned(acc, n, more) /\ r = AcceptChange(acc, n + 1, c)
      <4>1. Compiling(acc, n, more)
        BY <3>7, <3>8 DEF Answers
      <4>2. r = Accept(acc, n + 1, e)
        BY <3>7, <3>8 DEF Answers
      <4>3. r.error = "none"
        BY <1>5, <1>9
      <4>4. c \in FileChanges
        BY <3>4
      <4>5. Parsed(c) = c
        BY <1>9, <1>12, <3>3
      <4>6. Scanned(acc, n, more) /\ r = AcceptChange(acc, n + 1, Parsed(c))
        BY ONLY <3>6, <3>8, <4>1, <4>2, <4>3, <4>4, ChangeAccepted
      <4> QED BY ONLY <4>5, <4>6
    <3>10. Recounted(acc.operations, edits, told)
      <4>1. Recorded("none", acc, edits, told, told)
        BY <1>5, <1>9, <2>2 DEF Recorded
      <4>2. Len(acc.operations) \in Nat
        BY <3>9, ScannedIs
      <4>3. "none" \in {"none", "pending", "seen"}
        OBVIOUS
      <4> QED BY ONLY <1>8, <4>1, <4>2, <4>3, RecordedStill
    <3>11. told[c.previous] # Absent /\ told[c.path] = Absent /\ now = Relocated(told, c.previous, c.path)
      BY <3>1, <3>4
    <3>12. Recounted(r.operations, edits, now)
      <4>1. r = AcceptChange(acc, n + 1, c)
        BY <3>9
      <4>2. Scanned(acc, n, more)
        BY <3>9
      <4>3. c \in FileChanges
        BY <3>4
      <4>4. c.kind = "moved"
        BY <3>4
      <4>5. n \in Nat
        BY <3>8
      <4> QED BY ONLY <1>8, <3>10, <3>11, <4>1, <4>2, <4>3, <4>4, <4>5, ChangeMoves
    <3> QED BY <1>1, <1>5, <2>2, <3>12 DEF Recorded
  <2>3. CASE hand = "seen"
    BY <1>1, <1>9, <2>3 DEF Recorded
  <2> QED BY <1>1, <2>1, <2>2, <2>3
<1>10. ~misread' => ~misread
  BY <1>3
<1>11. hand' \in {"none", "pending", "seen"}
  BY <1>1
<1> QED BY <1>1, <1>4, <1>9, <1>10, <1>11, StoryGoesOn

-----------------------------------------------------------------------------
(* The replay: the steps of a package *)

LEMMA NamedPath == ASSUME NEW p \in Paths PROVE PathNamed(Name[p]) = p
<1>1. \A q \in Paths : Name[q] = Name[p] <=> q = p
  BY NameAssumption DEF Paths
<1> QED BY <1>1 DEF PathNamed

\* How a step does what its operation says.
StepTells(step, o) ==
  /\ step.kind = "exec" <=> o.kind = "exec"
  /\ o.kind = "exec" => step.program = o.program /\ step.inputs = o.inputs
  /\ o.kind = "moved" => /\ step.kind = "file" /\ step.operation = "move"
                         /\ step.from = Name[o.previous] /\ step.to = Name[o.path]
  /\ o.kind \notin {"exec", "moved"} =>
       /\ step.kind = "assert" /\ step.path = Name[o.path]
       /\ step.check = IF o.kind = "deleted" THEN "file_absent"
                       ELSE IF o.content = Absent THEN "file_exists" ELSE "file_hash"
       /\ o.kind # "deleted" => step.hash = o.content

LEMMA StepIs ==
  ASSUME NEW ops, NEW i, NEW o, o = ops[i], NEW step, step = StepOf(ops, i)
  PROVE  StepTells(step, o)
<1>1. CASE o.kind = "exec"
  BY <1>1 DEF StepOf, StepTells
<1>2. CASE o.kind = "moved"
  BY <1>2 DEF StepOf, StepTells
<1>3. CASE o.kind = "deleted"
  BY <1>3 DEF StepOf, StepTells
<1>4. CASE o.kind \notin {"exec", "moved", "deleted"}
  <2>1. step = [kind |-> "assert", path |-> Name[o.path], hash |-> o.content,
                check |-> IF o.content = Absent THEN "file_exists" ELSE "file_hash"]
    BY <1>4 DEF StepOf
  <2> QED BY <1>4, <2>1 DEF StepTells
<1> QED BY <1>1, <1>2, <1>3, <1>4

\* As many commands were run as the recording had.
LEMMA CommandsAre ==
  ASSUME NEW ops, Len(ops) \in Nat, NEW edits, Len(edits) \in Nat, NEW count, NEW files,
         Course(ops, edits, count, files), NEW n \in 0..Len(ops)
  PROVE  Cardinality({i \in 1..n : ops[i].kind = "exec"}) = count[n]
<1> DEFINE K(m) == {i \in 1..m : ops[i].kind = "exec"}
           S == {m \in Nat : m <= Len(ops) => IsFiniteSet(K(m)) /\ Cardinality(K(m)) = count[m]}
<1>1. /\ count[0] = 0
      /\ \A m \in 0..Len(ops) : count[m] \in Nat
      /\ \A m \in 1..Len(ops) : count[m] = IF ops[m].kind = "exec" THEN count[m - 1] + 1 ELSE count[m - 1]
  BY DEF Course
<1>2. 0 \in S
  <2>1. K(0) = {}
    OBVIOUS
  <2> QED BY <1>1, <2>1, FS_EmptySet
<1>3. ASSUME NEW m \in Nat, m \in S PROVE m + 1 \in S
  <2> SUFFICES ASSUME m + 1 <= Len(ops) PROVE IsFiniteSet(K(m + 1)) /\ Cardinality(K(m + 1)) = count[m + 1]
    OBVIOUS
  <2>1. m + 1 \in 1..Len(ops) /\ (m + 1) - 1 = m /\ m <= Len(ops) /\ m \in 0..Len(ops)
    OBVIOUS
  <2>2. IsFiniteSet(K(m)) /\ Cardinality(K(m)) = count[m] /\ count[m] \in Nat
    BY <1>1, <1>3, <2>1
  <2>3. m + 1 \notin K(m) /\ K(m + 1) = IF ops[m + 1].kind = "exec" THEN K(m) \cup {m + 1} ELSE K(m)
    OBVIOUS
  <2>4. count[m + 1] = IF ops[m + 1].kind = "exec" THEN count[m] + 1 ELSE count[m]
    BY <1>1, <2>1
  <2> HIDE DEF K
  <2>5. CASE ops[m + 1].kind = "exec"
    <3>1. IsFiniteSet(K(m) \cup {m + 1}) /\ Cardinality(K(m) \cup {m + 1}) = Cardinality(K(m)) + 1
      BY <2>2, <2>3, FS_AddElement
    <3> QED BY <2>2, <2>3, <2>4, <2>5, <3>1
  <2>6. CASE ops[m + 1].kind # "exec"
    BY <2>2, <2>3, <2>4, <2>6
  <2> QED BY <2>5, <2>6
<1>4. Nat \subseteq S
  <2> HIDE DEF S
  <2> QED BY <1>2, <1>3, Induction
<1>5. n \in Nat /\ n <= Len(ops) /\ n \in S
  <2>1. n \in Nat /\ n <= Len(ops)
    OBVIOUS
  <2> HIDE DEF S
  <2> QED BY <1>4, <2>1
<1>6. Cardinality(K(n)) = count[n]
  <2> HIDE DEF K
  <2> QED BY <1>5
<1> QED BY <1>6

LEMMA OpsAre ==
  ASSUME NEW o \in Ops
  PROVE  /\ o.kind = "exec" \/ o.kind \in {"created", "modified", "deleted", "moved"}
         /\ o.kind = "exec" => o.program \in Seq(STRING) /\ o.reads \in BOOLEAN
         /\ o.kind # "exec" => o.path \in Paths /\ Recordable(Name[o.path])
         /\ o.kind = "moved" => o.previous \in Paths /\ Recordable(Name[o.previous])
<1>1. CASE o \in ExecOps
  BY <1>1 DEF ExecOps
<1>2. CASE o \in FileOps
  BY <1>2 DEF FileOps, Legible, RecordablePaths
<1> QED BY <1>1, <1>2 DEF Ops

LEMMA StepPasses ==
  ASSUME NEW o \in Ops, NEW step, StepTells(step, o), AsRecorded(replay, o),
         step.kind = "exec" => Commands(next) \notin failed
  PROVE  Passes(step)
<1>1. CASE o.kind = "exec"
  BY <1>1 DEF StepTells, Passes
<1>2. CASE o.kind = "moved"
  <2>1. PathNamed(step.from) = o.previous /\ PathNamed(step.to) = o.path /\ step.kind = "file"
    BY <1>2, OpsAre, NamedPath DEF StepTells
  <2> QED BY <1>2, <2>1 DEF Passes, MovePasses, AsRecorded
<1>3. CASE o.kind \notin {"exec", "moved"}
  <2>1. PathNamed(step.path) = o.path /\ step.kind = "assert"
    BY <1>3, OpsAre, NamedPath DEF StepTells
  <2>2. Shows(replay, o)
    BY <1>3 DEF AsRecorded
  <2>3. AssertPasses(step)
    BY <1>3, <2>1, <2>2 DEF StepTells, AssertPasses, Shows
  <2> QED BY <2>1, <2>3 DEF Passes
<1> QED BY <1>1, <1>2, <1>3

LEMMA StepApplied ==
  ASSUME NEW o \in Ops, NEW step, StepTells(step, o), NEW edits, edits = did[Commands(next)]
  PROVE  Applied(step) = Done(replay, o, edits)
<1>1. CASE o.kind = "exec"
  BY <1>1 DEF StepTells, Applied, Again, Done
<1>2. CASE o.kind = "moved"
  <2>1. PathNamed(step.from) = o.previous /\ PathNamed(step.to) = o.path /\ step.kind = "file"
    BY <1>2, OpsAre, NamedPath DEF StepTells
  <2> QED BY <1>2, <2>1 DEF Applied, Done
<1>3. CASE o.kind \notin {"exec", "moved"}
  BY <1>3 DEF StepTells, Applied, Done
<1> QED BY <1>1, <1>2, <1>3

\* What is replayed is what the recording compiled to.
LEMMA ReplayedIsScanned ==
  ASSUME TapeInv, PackageInv, ScanInv, stage \in {"compiled", "done"}
  PROVE  /\ Scan.error = "none" /\ Scan = Operations(events) /\ package = Compiled(Scan.operations)
         /\ Scan.operations \in Seq(Ops) /\ Len(Scan.operations) \in Nat
         /\ package.steps = [i \in 1..Len(Scan.operations) |-> StepOf(Scan.operations, i)]
         /\ Lint(package) = {} /\ events = Tape
<1>1. PICK tape, g, acc : tape = Tape /\ g = Scan /\ acc = Operations(events)
  OBVIOUS
<1>2. events = tape
  BY <1>1 DEF ScanInv
<1>3. acc.error = "none" /\ package = Compiled(acc.operations) /\ Lint(package) = {}
  BY <1>1 DEF PackageInv
<1>4. acc = IF g.open # 0 THEN Refuse(g, "grouping") ELSE g
  BY <1>1, <1>2 DEF Operations, Scan
<1>5. g \in Accs
  <2>1. PICK f : f = Accepted(tape)
    OBVIOUS
  <2>2. tape \in Seq(ChangeEvents \cup TerminalEvents)
    BY <1>1, TapeIsTyped DEF AllEvents
  <2>3. \A n \in 0..Len(tape) : Compiling(f[n], n, tape)
    BY ONLY <2>1, <2>2, AcceptedScans
  <2>4. Len(tape) \in 0..Len(tape) /\ f[Len(tape)] = g
    BY <1>1, <2>1, <2>2 DEF Scan
  <2> QED BY <2>3, <2>4 DEF Compiling
<1>6. acc = g
  <2>1. Refuse(g, "grouping").error = "grouping"
    BY <1>5, RefusedStays
  <2> QED BY <1>3, <1>4, <2>1
<1>7. g.operations \in Seq(Ops) /\ Len(g.operations) \in Nat
  BY <1>5 DEF Accs
<1>8. package.steps = [i \in 1..Len(g.operations) |-> StepOf(g.operations, i)]
  BY <1>3, <1>6, <1>7 DEF Compiled
<1> QED BY <1>1, <1>2, <1>3, <1>6, <1>7, <1>8

-----------------------------------------------------------------------------
(* The replay: what was recorded is replayed *)

LEMMA StoryFinishes ==
  ASSUME TapeInv, ToldInv, ClockInv, ScanInv, StoryInv, NEW cancelled \in BOOLEAN, Finish(cancelled)
  PROVE  StoryInv'
<1>1. /\ stage = "recording" /\ stage' = "finished" /\ hand' = hand /\ misread' = misread
      /\ seen = world /\ world' = world /\ seen' = seen /\ did' = did
      /\ hand \in {"none", "pending", "seen"}
  BY DEF Finish, StoryInv
<1>2. SUFFICES ASSUME ~misread, Scan'.error = "none" PROVE \E count, files : Story(count, files)'
  BY <1>1 DEF StoryInv
<1>3. Scan' = Scan
  BY <1>2, ScansFinish
<1>4. Recorded(hand, Scan, did, world, seen)
  BY <1>1, <1>2, <1>3, StoryIs DEF StoryInv
<1>5. PICK h, acc, edits, now : h = hand /\ acc = Scan /\ edits = did /\ now = world
  OBVIOUS
<1>6. Scanned(acc, Len(Tape), Tape)
  BY <1>2, <1>3, <1>5, ScanIsScanned
<1>7. /\ h \in {"none", "pending", "seen"} /\ Len(acc.operations) \in Nat /\ Len(edits) \in Nat /\ now \in Disks
      /\ Recorded(h, acc, edits, now, now)
  BY <1>1, <1>4, <1>5, <1>6, ScannedIs DEF TapeInv, Disks
<1>8. Recounted(acc.operations, edits, now)
  <2>1. h \in {"none", "pending", "seen"}
    BY <1>7
  <2>2. Len(acc.operations) \in Nat
    BY <1>7
  <2>3. Len(edits) \in Nat
    BY <1>7
  <2>4. now \in Disks
    BY <1>7
  <2>5. Recorded(h, acc, edits, now, now)
    BY <1>7
  <2> QED BY ONLY <2>1, <2>2, <2>3, <2>4, <2>5, RecordedStill
<1>9. PICK count, files : Recounts(acc.operations, edits, count, files, now)
  BY <1>8 DEF Recounted
<1>10. Moved(Scan', did', count, files, world')
  BY <1>1, <1>3, <1>5, <1>9 DEF Moved, Recounts
<1> QED BY <1>1, <1>10 DEF Story

LEMMA StoryCompiles ==
  ASSUME FreshInv, ScanInv, StoryInv, Compile
  PROVE  StoryInv'
<1>1. /\ stage = "finished" /\ stage' \in {"compiled", "refused"} /\ hand' = hand /\ misread' = misread
      /\ world' = world /\ seen' = seen /\ did' = did /\ next' = next /\ replay' = replay
      /\ UNCHANGED <<collected, terminal>>
  BY DEF Compile, recording, run
<1>2. Scan' = Scan
  BY <1>1, TapeStays
<1>3. SUFFICES ASSUME ~misread, Scan.error = "none" PROVE \E count, files : Story(count, files)'
  BY <1>1, <1>2 DEF StoryInv
<1>4. PICK count, files : Story(count, files)
  BY <1>3 DEF StoryInv
<1>5. Moved(Scan, did, count, files, world) /\ seen = world
  BY <1>1, <1>4 DEF Story
<1>6. Moved(Scan', did', count, files, world') /\ seen' = world'
  BY <1>1, <1>2, <1>5
<1>7. next' = 1 /\ replay' = files[0]
  BY <1>1, <1>5 DEF FreshInv, Moved, Course
<1>8. 1 \in 1..(Len(Scan.operations) + 1) /\ 1 - 1 = 0
  BY DEF Scan
<1> QED BY <1>1, <1>2, <1>6, <1>7, <1>8 DEF Story

LEMMA StoryReplaysStep ==
  ASSUME TapeInv, PackageInv, ScanInv, StoryInv, ReplayStep
  PROVE  StoryInv'
<1>1. /\ stage = "compiled" /\ stage' = "compiled" /\ hand' = hand /\ misread' = misread
      /\ world' = world /\ seen' = seen /\ did' = did /\ next' = next + 1
      /\ next \in DOMAIN package.steps /\ replay' = Applied(package.steps[next])
      /\ UNCHANGED <<collected, terminal>>
  BY DEF ReplayStep, recording
<1>2. Scan' = Scan
  BY <1>1, TapeStays
<1>3. SUFFICES ASSUME ~misread, Scan.error = "none" PROVE \E count, files : Story(count, files)'
  BY <1>1, <1>2 DEF StoryInv
<1>4. PICK count, files : Story(count, files)
  BY <1>3 DEF StoryInv
<1>5. PICK ops, edits, n, o, step :
        /\ ops = Scan.operations /\ edits = did /\ n = next /\ o = ops[n] /\ step = package.steps[n]
  OBVIOUS
<1>6. /\ ops \in Seq(Ops) /\ Len(ops) \in Nat
      /\ package.steps = [i \in 1..Len(ops) |-> StepOf(ops, i)]
  BY <1>1, <1>5, ReplayedIsScanned
<1>7. n \in 1..Len(ops) /\ step = StepOf(ops, n) /\ o \in Ops /\ n \in Nat
  BY <1>1, <1>5, <1>6
<1>8. /\ Course(ops, edits, count, files) /\ replay = files[n - 1]
      /\ Moved(Scan, did, count, files, world) /\ seen = world
  BY <1>1, <1>4, <1>5 DEF Story, Moved
<1>9. StepTells(step, o)
  <2>1. o = ops[n]
    BY <1>5
  <2>2. step = StepOf(ops, n)
    BY <1>7
  <2> QED BY ONLY <2>1, <2>2, StepIs
<1>10. Commands(next) = count[n]
  <2>1. \A i \in 1..n : package.steps[i] = StepOf(ops, i) /\ StepTells(StepOf(ops, i), ops[i])
    BY <1>6, <1>7, StepIs
  <2>2. \A i \in 1..n : package.steps[i].kind = "exec" <=> ops[i].kind = "exec"
    BY <2>1 DEF StepTells
  <2>3. Commands(next) = Cardinality({i \in 1..n : package.steps[i].kind = "exec"})
    BY <1>5 DEF Commands
  <2>4. {i \in 1..n : package.steps[i].kind = "exec"} = {i \in 1..n : ops[i].kind = "exec"}
    BY <2>2
  <2>5. Cardinality({i \in 1..n : ops[i].kind = "exec"}) = count[n]
    <3>1. n \in 0..Len(ops)
      BY <1>6, <1>7
    <3>2. Len(edits) \in Nat
      BY <1>5 DEF TapeInv
    <3>3. Len(ops) \in Nat
      BY <1>6
    <3>4. Course(ops, edits, count, files)
      BY <1>8
    <3> QED BY ONLY <3>1, <3>2, <3>3, <3>4, CommandsAre
  <2> QED BY <2>3, <2>4, <2>5
<1>11. Applied(step) = Done(replay, o, edits[count[n]])
  <2>1. edits[count[n]] = did[Commands(next)]
    BY <1>5, <1>10
  <2> QED BY <1>7, <1>9, <2>1, StepApplied
<1>12. replay' = files[n]
  BY <1>1, <1>5, <1>7, <1>8, <1>11 DEF Course
<1>13. next' \in 1..(Len(ops) + 1) /\ next' - 1 = n
  BY <1>1, <1>5, <1>6, <1>7
<1> QED BY <1>1, <1>2, <1>5, <1>8, <1>12, <1>13 DEF Story

LEMMA StoryEnds ==
  ASSUME StoryInv, ReplayDenied \/ ReplayFails \/ Deliver
  PROVE  StoryInv'
<1>1. /\ stage = "compiled" /\ stage' = "done" /\ hand' = hand /\ misread' = misread
      /\ world' = world /\ seen' = seen /\ did' = did /\ next' = next /\ replay' = replay
      /\ UNCHANGED <<collected, terminal>>
  BY DEF ReplayDenied, ReplayFails, Deliver, Stop, recording
<1>2. Scan' = Scan
  BY <1>1, TapeStays
<1>3. ASSUME NEW count, NEW files, Story(count, files) PROVE Story(count, files)'
  BY <1>1, <1>2, <1>3 DEF Story
<1> QED BY <1>1, <1>2, <1>3 DEF StoryInv

LEMMA StoryStays ==
  ASSUME StoryInv, UNCHANGED vars
  PROVE  StoryInv'
<1>1. UNCHANGED <<stage, hand, misread, world, seen, did, next, replay, collected, terminal>>
  BY DEF vars, recording, run
<1>2. Scan' = Scan
  BY <1>1, TapeStays
<1>3. ASSUME NEW count, NEW files, Story(count, files) PROVE Story(count, files)'
  <2>1. MovedByHand' <=> MovedByHand
    BY <1>1 DEF MovedByHand
  <2> QED BY <1>1, <1>2, <1>3, <2>1 DEF Story
<1> QED BY <1>1, <1>2, <1>3 DEF StoryInv

LEMMA StoryStep ==
  ASSUME TapeInv, ToldInv, PackageInv, ClockInv, FreshInv, ScanInv, StoryInv, [Next]_vars
  PROVE  StoryInv'
<1>1. CASE Start
  BY <1>1, StoryStarts
<1>2. ASSUME NEW edit \in Edits, Edit(edit) PROVE StoryInv'
  BY <1>2, StoryEdits
<1>3. ASSUME NEW from \in Paths, NEW to \in Paths, MoveByHand(from, to) PROVE StoryInv'
  BY <1>3, StoryIsMoved
<1>4. CASE Poll
  BY <1>4, StoryPolls
<1>5. CASE Output
  BY <1>5, StoryOutputs
<1>6. ASSUME NEW cancelled \in BOOLEAN, Finish(cancelled) PROVE StoryInv'
  BY <1>6, StoryFinishes
<1>7. CASE Compile
  BY <1>7, StoryCompiles
<1>8. CASE ReplayStep
  BY <1>8, StoryReplaysStep
<1>9. CASE ReplayDenied \/ ReplayFails \/ Deliver
  BY <1>9, StoryEnds
<1>10. CASE UNCHANGED vars
  BY <1>10, StoryStays
<1> QED BY <1>1, <1>2, <1>3, <1>4, <1>5, <1>6, <1>7, <1>8, <1>9, <1>10 DEF Next

LEMMA StoryBegins ==
  ASSUME Init
  PROVE  ClockInv /\ FreshInv /\ ScanInv /\ StoryInv
<1>1. /\ stage = "recording" /\ ~running /\ running \in BOOLEAN /\ ~misread /\ misread \in BOOLEAN
      /\ collected = <<>> /\ terminal = <<>> /\ did = <<>> /\ hand = "none" /\ world = Begin /\ seen = Begin
      /\ replay = Begin /\ next = 1 /\ outcome = "none"
  BY DEF Init
<1>2. PICK m, tape, s : m = Merge(<<>>, <<>>) /\ tape = EventsOf(m) /\ s = <<>> \o <<>>
  OBVIOUS
<1>3. tape = <<>> /\ Tape = tape
  <2>1. PICK files, term, F, E : /\ files = <<>> /\ term = <<>> /\ F = FileChanges /\ E = TerminalEvents
    OBVIOUS
  <2>2. files \in Seq(FileEntries(F)) /\ term \in Seq(TapeEntries(E))
    BY <2>1
  <2>3. s = files \o term /\ m = Merge(files, term)
    BY <1>2, <2>1
  <2>4. Reordered(m, s, FileEntries(F) \cup TapeEntries(E))
    BY ONLY <2>2, <2>3, MergeReorders
  <2>5. Len(m) = Len(s) /\ m \in Seq(FileEntries(F) \cup TapeEntries(E))
    BY <2>4 DEF Reordered
  <2>6. s = <<>>
    BY <1>2
  <2>7. m = <<>>
    BY ONLY <2>5, <2>6
  <2> QED BY <1>1, <1>2, <2>7 DEF EventsOf, Tape
<1>4. Scan = Empty
  <2>1. PICK f : f = Accepted(tape)
    OBVIOUS
  <2>2. tape \in Seq({})
    BY <1>3
  <2>3. f[0] = Empty
    BY ONLY <2>1, <2>2, AcceptedIs
  <2> QED BY <1>3, <2>1, <2>3 DEF Scan
<1>5. ClockInv /\ FreshInv
  BY <1>1 DEF ClockInv, FreshInv
<1>6. ScanInv
  BY <1>1, <1>4 DEF ScanInv, Empty
<1>7. PICK count, files : count = [n \in {0} |-> 0] /\ files = [n \in {0} |-> Begin]
  OBVIOUS
<1>8. Follows(<<>>, [p \in Paths |-> 0], <<>>, count, files, Begin, Begin)
  <2>1. 0..0 = {0} /\ Len(<<>>) = 0 /\ 1..0 = {}
    OBVIOUS
  <2>2. Course(<<>>, <<>>, count, files)
    BY <1>7, <2>1 DEF Course
  <2> QED BY <1>7, <2>1, <2>2 DEF Follows
<1>9. Recorded(hand, Scan, did, world, seen)
  BY <1>1, <1>4, <1>8 DEF Recorded, Followed, Empty
<1>10. StoryInv
  BY <1>1, <1>9, StoryIs DEF StoryInv
<1> QED BY <1>5, <1>6, <1>10

-----------------------------------------------------------------------------
(* The replay: what the compiler derives, the linter accepts *)

\* The linter has nothing to say of the path.
Sound(path) == LintSafePath(path) /\ Mentioned(path) = {}

LEMMA RecordableIsSafe ==
  ASSUME NEW path, Recordable(path)
  PROVE  LintSafePath(path)
BY NamesAssumption DEF Recordable, LintSafePath, Has

LEMMA SoundNames == ASSUME NEW path, Sound(path), NEW manifest PROVE LintName(path, manifest) = {}
BY DEF Sound, LintName, If

LEMMA OwnScope ==
  ASSUME NEW path, Sound(path), NEW code, NEW scopes, Exactly(path) \in scopes, NEW manifest
  PROVE  LintPath(path, code, scopes, manifest) = {}
<1>1. InScope(path, Exactly(path))
  BY DEF InScope, Exactly
<1>2. LintName(path, manifest) = {}
  BY SoundNames
<1> QED BY <1>1, <1>2 DEF LintPath, If

LEMMA SoundOperations ==
  ASSUME NEW o \in Ops, Unmentioned(o), o.kind # "exec"
  PROVE  Sound(Name[o.path]) /\ (o.kind = "moved" => Sound(Name[o.previous]))
<1>1. Recordable(Name[o.path]) /\ (o.kind = "moved" => Recordable(Name[o.previous]))
  BY OpsAre
<1>2. LintSafePath(Name[o.path]) /\ (o.kind = "moved" => LintSafePath(Name[o.previous]))
  BY ONLY <1>1, RecordableIsSafe
<1> QED BY <1>2 DEF Sound, Unmentioned

LEMMA CompiledLints ==
  ASSUME NEW ops \in Seq(Ops), \A n \in 1..Len(ops) : Unmentioned(ops[n]),
         NEW p, p = Compiled(ops)
  PROVE  Lint(p) = {}
<1>1. /\ DOMAIN ops = 1..Len(ops) /\ \A i \in DOMAIN ops : ops[i] \in Ops
  OBVIOUS
<1>2. PICK programs, outs : /\ programs = {ops[e].program : e \in Execs(ops)}
                            /\ outs = UNION {OutputsOf(ops, e) : e \in Execs(ops)}
  OBVIOUS
<1>3. /\ p.permissions.read = ReadScopes(ops) /\ p.permissions.write = WriteScopes(ops)
      /\ p.permissions.executables = programs /\ p.manifest.outputs = outs /\ p.lock.tools = programs
      /\ p.steps = [i \in DOMAIN ops |-> StepOf(ops, i)]
  BY <1>2 DEF Compiled
<1>20. ASSUME NEW i \in DOMAIN ops, ops[i].kind # "exec"
       PROVE  Sound(Name[ops[i].path]) /\ (ops[i].kind = "moved" => Sound(Name[ops[i].previous]))
  <2>1. PICK o : o = ops[i]
    OBVIOUS
  <2>2. o \in Ops /\ Unmentioned(o) /\ o.kind # "exec"
    BY <1>1, <1>20, <2>1
  <2>3. Sound(Name[o.path]) /\ (o.kind = "moved" => Sound(Name[o.previous]))
    BY ONLY <2>2, SoundOperations
  <2> QED BY ONLY <2>1, <2>3
<1>4. \A i \in DOMAIN ops : ops[i].kind # "exec" => Sound(Name[ops[i].path])
  BY <1>20
<1>5. \A i \in DOMAIN ops : ops[i].kind = "moved" => Sound(Name[ops[i].previous])
  BY <1>20
<1>6. \A e : \A q \in OutputsOf(ops, e) : Sound(q)
  <2> TAKE e
  <2> TAKE q \in OutputsOf(ops, e)
  <2>1. PICK j \in DOMAIN ops : Declares(ops, j) /\ q = Name[ops[j].path]
    BY DEF OutputsOf
  <2> QED BY <1>4, <2>1 DEF Declares
<1>7. Sound(<<"workspace">>) /\ Sound(<<"inputs">>)
  <2>1. LintSafePath(<<"workspace">>) /\ LintSafePath(<<"inputs">>)
    BY DEF LintSafePath, Has
  <2>2. ToSet(<<"workspace">>) = {"workspace"} /\ ToSet(<<"inputs">>) = {"inputs"}
    BY DEF ToSet
  <2>3. ASSUME NEW path, ToSet(path) \cap DOMAIN Placeholders = {} PROVE Mentioned(path) = {}
    BY <2>3 DEF Mentioned
  <2>4. "workspace" \notin DOMAIN Placeholders /\ "inputs" \notin DOMAIN Placeholders
    BY NamesAssumption
  <2> QED BY <2>1, <2>2, <2>3, <2>4 DEF Sound
<1>8. \A s \in ReadScopes(ops) : Sound(s.base)
  <2> TAKE s \in ReadScopes(ops)
  <2>1. PICK i \in DOMAIN ops :
           s \in (CASE ops[i].kind = "exec"  -> ExecReads(ops[i])
                    [] ops[i].kind = "moved" -> {Exactly(Name[ops[i].previous])}
                    [] OTHER                 -> {Exactly(Name[ops[i].path])})
    BY DEF ReadScopes
  <2>2. CASE ops[i].kind = "exec"
    <3>1. s = Below(<<"workspace">>) \/ s = Below(<<"inputs">>)
      BY <2>1, <2>2 DEF ExecReads
    <3> QED BY <1>7, <3>1 DEF Below
  <2>3. CASE ops[i].kind # "exec"
    <3>1. s = Exactly(Name[ops[i].path]) \/ (ops[i].kind = "moved" /\ s = Exactly(Name[ops[i].previous]))
      BY <2>1, <2>3
    <3> QED BY <1>4, <1>5, <2>3, <3>1 DEF Exactly
  <2> QED BY <2>2, <2>3
<1>9. \A s \in WriteScopes(ops) : Sound(s.base)
  <2> TAKE s \in WriteScopes(ops)
  <2>1. CASE \E e \in Execs(ops) : \E q \in OutputsOf(ops, e) : s = Exactly(q)
    BY <1>6, <2>1 DEF Exactly
  <2>2. CASE \E j \in DOMAIN ops : ops[j].kind = "moved" /\ s = Exactly(Name[ops[j].path])
    BY <1>4, <2>2 DEF Exactly
  <2> QED BY <2>1, <2>2 DEF WriteScopes
<1>10. LintScopes(p) = {}
  <2>1. \A q \in outs : Sound(q)
    BY <1>2, <1>6
  <2>2. \A q \in p.manifest.outputs
               \cup {s.base : s \in p.permissions.read \cup p.permissions.write} : Sound(q)
    BY <1>3, <1>8, <1>9, <2>1
  <2>3. \A q : Sound(q) => LintName(q, p.manifest) = {}
    BY SoundNames
  <2> QED BY ONLY <2>2, <2>3 DEF LintScopes
<1>11. ASSUME NEW i \in DOMAIN ops PROVE StepTells(StepOf(ops, i), ops[i])
  <2>1. PICK o, step : o = ops[i] /\ step = StepOf(ops, i)
    OBVIOUS
  <2> QED BY <2>1, StepIs
<1>12. ASSUME NEW i \in DOMAIN ops
       PROVE  StepOf(ops, i).kind \in {"exec", "file", "assert"}
              /\ (StepOf(ops, i).kind = "exec" => StepOf(ops, i).program \in programs)
  BY <1>1, <1>2, <1>11, OpsAre DEF StepTells, Execs
<1>13. LintLock(p) = {}
  <2>1. \A step \in ToSet(p.steps) : /\ step.kind # "script"
                                     /\ step.kind = "exec" => step.program \in p.lock.tools
    BY <1>3, <1>12 DEF ToSet
  <2>2. p.lock.scripts = {}
    BY DEF Compiled
  <2> QED BY ONLY <2>1, <2>2 DEF LintLock, If
<1>14. ASSUME NEW i \in DOMAIN ops PROVE LintStep(p.steps[i], p) = {}
  <2>1. PICK o, step : o = ops[i] /\ step = p.steps[i] /\ step = StepOf(ops, i) /\ o \in Ops
    BY <1>1, <1>3
  <2>2. StepTells(step, o)
    BY <1>11, <2>1
  <2>3. CASE o.kind = "exec"
    <3>1. i \in Execs(ops) /\ step.outputs = OutputsOf(ops, i)
      BY <2>1, <2>3 DEF Execs, StepOf
    <3>2. step.kind = "exec" /\ step.program \in programs /\ step.inputs = {}
      BY <1>1, <1>2, <2>1, <2>2, <2>3, <3>1 DEF StepTells, Unmentioned
    <3>3. \A q \in step.outputs : Exactly(q) \in WriteScopes(ops) /\ Sound(q)
      BY <1>6, <3>1 DEF WriteScopes
    <3>4. \A q \in step.outputs : LintPath(q, "PKG006", p.permissions.write, p.manifest) = {}
      BY <1>3, <3>3, OwnScope
    <3>5. step.outputs \subseteq p.manifest.outputs
      BY <1>2, <1>3, <3>1
    <3>6. LintOutputs(step, p) = {} /\ LintArgs(step, p.manifest) = {}
      BY <3>2, <3>4, <3>5 DEF LintOutputs, LintArgs, If
    <3> QED BY <1>3, <2>1, <3>2, <3>6 DEF LintStep, If
  <2>4. CASE o.kind = "moved"
    <3>1. Exactly(Name[o.previous]) \in ReadScopes(ops)
      BY <2>1, <2>4 DEF ReadScopes
    <3>2. Exactly(Name[o.path]) \in WriteScopes(ops)
      BY <2>1, <2>4 DEF WriteScopes
    <3>3. step.kind = "file" /\ step.from = Name[o.previous] /\ step.to = Name[o.path]
      BY <2>2, <2>4 DEF StepTells
    <3>4. Sound(Name[o.path]) /\ Sound(Name[o.previous])
      BY <1>4, <1>5, <2>1, <2>4
    <3>5. LintPath(step.from, "PKG005", p.permissions.read, p.manifest) = {}
          /\ LintPath(step.to, "PKG006", p.permissions.write, p.manifest) = {}
      BY <1>3, <3>1, <3>2, <3>3, <3>4, OwnScope
    <3> QED BY <2>1, <3>3, <3>5 DEF LintStep
  <2>5. CASE o.kind \notin {"exec", "moved"}
    <3>1. Exactly(Name[o.path]) \in ReadScopes(ops)
      BY <2>1, <2>5 DEF ReadScopes
    <3>2. step.kind = "assert" /\ step.path = Name[o.path]
      BY <2>2, <2>5 DEF StepTells
    <3>3. LintPath(step.path, "PKG005", p.permissions.read, p.manifest) = {}
      BY <1>3, <1>4, <2>1, <2>5, <3>1, <3>2, OwnScope
    <3> QED BY <2>1, <3>2, <3>3 DEF LintStep
  <2> QED BY <2>3, <2>4, <2>5
<1>15. \A i \in DOMAIN p.steps : LintStep(p.steps[i], p) = {}
  BY <1>3, <1>14
<1>16. {LintStep(p.steps[i], p) : i \in DOMAIN p.steps} \subseteq {{}}
  BY <1>15
<1>17. UNION {LintStep(p.steps[i], p) : i \in DOMAIN p.steps} = {}
  BY ONLY <1>16
<1>18. Lint(p) = LintScopes(p) \cup LintLock(p) \cup UNION {LintStep(p.steps[i], p) : i \in DOMAIN p.steps}
  BY DEF Lint
<1> QED BY ONLY <1>10, <1>13, <1>17, <1>18

\* ... and what the linter accepts, the engine denies for a program only.
LEMMA OnlyProgramsAreDenied ==
  ASSUME NEW p, Lint(p) = {}, IsPackage(p), NEW i \in DOMAIN p.steps,
         NEW step, step = p.steps[i], step.kind \in {"exec", "file", "assert"}, IsPlain(step),
         PolicyChecks(step, p.permissions) # {"allowed"}
  PROVE  step.kind = "exec" /\ step.program \in Dangerous \cup Malformed
<1> DEFINE reads == p.permissions.read
           writes == p.permissions.write
           Read(path)  == LintPath(path, "PKG005", reads, p.manifest)
           Write(path) == LintPath(path, "PKG006", writes, p.manifest)
<1>1. /\ \A s \in reads : LintSafePath(s.base) /\ IsPath(s.base)
      /\ \A s \in writes : LintSafePath(s.base) /\ IsPath(s.base)
      /\ \A path \in CheckedPaths(step) : IsPath(path) /\ ~Peculiar(path)
  BY LintedScopes DEF IsPackage, AreBases, IsStep, IsPlain
<1>2. ASSUME NEW path \in CheckedPaths(step), Read(path) = {}
      PROVE  ReadDecision(path, p.permissions) = "allowed"
  <2>1. Admitted(path, reads)
    BY ONLY <1>1, <1>2, PathLinted
  <2>2. IsPath(path) /\ ~Peculiar(path) /\ \A s \in reads : IsPath(s.base)
    BY <1>1
  <2>3. PathDecision(path, "PKG005", reads) \in {"allowed"} \cup If("PKG007", Peculiar(path))
    BY ONLY <2>1, <2>2, PathForeseen
  <2> QED BY <2>2, <2>3 DEF ReadDecision, If
<1>3. ASSUME NEW path \in CheckedPaths(step), Write(path) = {}
      PROVE  WriteDecision(path, p.permissions) = "allowed"
  <2>1. Admitted(path, writes)
    BY ONLY <1>1, <1>3, PathLinted
  <2>2. IsPath(path) /\ ~Peculiar(path) /\ \A s \in writes : IsPath(s.base)
    BY <1>1
  <2>3. PathDecision(path, "PKG006", writes) \in {"allowed"} \cup If("PKG007", Peculiar(path))
    BY ONLY <2>1, <2>2, PathForeseen
  <2> QED BY <2>2, <2>3 DEF WriteDecision, If
<1>4. LintStep(step, p) = {}
  BY LintedScopes
<1>5. CASE step.kind = "file"
  <2>1. Read(step.from) = {} /\ Write(step.to) = {}
    BY <1>4, <1>5 DEF LintStep
  <2>2. CheckedPaths(step) = {step.to} \cup IF step.operation = "mkdir" THEN {} ELSE {step.from}
    BY <1>5 DEF CheckedPaths
  <2>3. WriteDecision(step.to, p.permissions) = "allowed"
        /\ (step.operation # "mkdir" => ReadDecision(step.from, p.permissions) = "allowed")
    BY <1>2, <1>3, <2>1, <2>2
  <2>4. PolicyChecks(step, p.permissions) = {"allowed"}
    BY <1>5, <2>3 DEF PolicyChecks
  <2> QED BY <2>4
<1>6. CASE step.kind = "assert"
  <2>1. step.path # <<>> => Read(step.path) = {}
    BY <1>4, <1>6 DEF LintStep
  <2>3. CheckedPaths(step) = {step.path}
    BY <1>6 DEF CheckedPaths
  <2>4. step.path # <<>>
    BY <1>1, <2>3 DEF Peculiar
  <2>2. PolicyChecks(step, p.permissions) = {ReadDecision(step.path, p.permissions)}
    BY <1>6 DEF PolicyChecks
  <2> QED BY <1>2, <2>1, <2>2, <2>3, <2>4
<1>7. CASE step.kind = "exec"
  <2>1. step.program \in p.permissions.executables
    BY <1>4, <1>7 DEF LintStep, If
  <2>2. CheckedPaths(step) = step.outputs /\ \A o \in step.outputs : Write(o) = {}
    BY <1>4, <1>7 DEF LintStep, LintOutputs, CheckedPaths
  <2>3. \A o \in step.outputs : WriteDecision(o, p.permissions) = "allowed"
    BY <1>3, <2>2
  <2>4. PolicyChecks(step, p.permissions) = {CommandDecision(step.program, p.permissions)}
                                            \cup {WriteDecision(o, p.permissions) : o \in step.outputs}
    BY <1>7 DEF PolicyChecks
  <2>5. CommandDecision(step.program, p.permissions) # "allowed"
    BY <2>3, <2>4
  <2>6. step.program \in Dangerous \cup Malformed
    BY <2>1, <2>5 DEF CommandDecision
  <2> QED BY <1>7, <2>6
<1> QED BY <1>5, <1>6, <1>7

\* The account of a tape that compiles is valid.
LEMMA ScannedIsAccounted ==
  ASSUME NEW tape \in Seq(AllEvents), NEW acc, Scanned(acc, Len(tape), tape),
         NEW p, p = Compiled(acc.operations)
  PROVE  Accounted(p, tape)
<1>1. PICK cites : cites = CitesOf(acc.operations)
  OBVIOUS
<1>2. p.cites = cites
  BY <1>1 DEF Compiled, CitesOf
<1>3. Ledger(cites, Len(tape), tape)
  BY <1>1 DEF Scanned
<1>4. DOMAIN tape = 1..Len(tape)
  OBVIOUS
<1>5. \A i \in DOMAIN cites : Rising(cites[i]) /\ cites[i] # <<>> /\ ToSet(cites[i]) \subseteq DOMAIN tape
  BY <1>3, <1>4 DEF Ledger
<1> QED BY <1>2, <1>5 DEF Accounted, Rising

LEMMA OnlyExcusedIsRefused ==
  ASSUME TapeInv, ScanInv, Compile, stage' = "refused"
  PROVE  Excused(events)
<1>1. stage = "finished" /\ events = Tape /\ ~running
  BY DEF Compile, ScanInv
<1>2. SUFFICES ASSUME ~Excused(Tape) PROVE FALSE
  BY <1>1
<1>3. PICK tape, g : tape = Tape /\ g = Scan
  OBVIOUS
<1>4. Clean(g) /\ g.open = 0
  BY <1>1, <1>2, <1>3 DEF ScanInv, Clean
<1>5. g.error = "none"
  BY <1>4 DEF Clean
<1>6. Operations(events) = g
  BY <1>1, <1>3, <1>4 DEF Operations, Scan
<1>7. tape \in Seq(AllEvents) /\ Scanned(g, Len(tape), tape)
  BY <1>3, <1>5, TapeIsTyped, ScanIsScanned
<1>8. PICK ops, p : ops = g.operations /\ p = Compiled(g.operations)
  OBVIOUS
<1>9. ops \in Seq(Ops)
  BY <1>7, <1>8 DEF Scanned, Accs
<1>10. \A n \in 1..Len(ops) : Unmentioned(ops[n])
  BY <1>4, <1>8, <1>9 DEF Clean
<1>11. p = Compiled(ops)
  BY <1>8
<1>12. Lint(p) = {}
  BY ONLY <1>9, <1>10, <1>11, CompiledLints
<1>13. Accounted(p, tape)
  <2>1. tape \in Seq(AllEvents)
    BY <1>7
  <2>2. Scanned(g, Len(tape), tape)
    BY <1>7
  <2>3. p = Compiled(g.operations)
    BY <1>8
  <2> QED BY ONLY <2>1, <2>2, <2>3, ScannedIsAccounted
<1> QED BY <1>1, <1>3, <1>5, <1>6, <1>8, <1>12, <1>13 DEF Compile

\* A recording that was refused, and a replay that is over, stay as they are.
LEMMA NothingFollows == ASSUME stage \in {"refused", "done"}, [Next]_vars PROVE UNCHANGED vars
BY DEF Next, Start, Edit, MoveByHand, Poll, Output, Finish, Compile, ReplayStep, ReplayDenied,
       ReplayFails, Deliver
LEMMA OnlyProgramsDeny ==
  ASSUME TapeInv, PackageInv, ScanInv, ReplayDenied
  PROVE  package.steps[next].kind = "exec" /\ package.steps[next].program \in Dangerous \cup Malformed
<1>1. stage = "compiled" /\ next \in DOMAIN package.steps /\ ~Allowed(package.steps[next])
  BY DEF ReplayDenied
<1>2. PICK p, i, step, ops : p = package /\ i = next /\ step = p.steps[i] /\ ops = Scan.operations
  OBVIOUS
<1>3. ops \in Seq(Ops) /\ p = Compiled(ops) /\ Lint(p) = {}
  BY <1>1, <1>2, ReplayedIsScanned
<1>4. IsPackage(p)
      /\ \A j \in DOMAIN p.steps : p.steps[j].kind \in {"exec", "file", "assert"} /\ IsPlain(p.steps[j])
  BY <1>3, CompiledIsAPackage
<1>5. i \in DOMAIN p.steps /\ PolicyChecks(step, p.permissions) # {"allowed"}
  BY <1>1, <1>2 DEF Allowed
<1>6. step.kind \in {"exec", "file", "assert"} /\ IsPlain(step)
  BY <1>2, <1>4, <1>5
<1>7. IsPackage(p)
  BY <1>4
<1>8. step.kind = "exec" /\ step.program \in Dangerous \cup Malformed
  <2>1. Lint(p) = {}
    BY <1>3
  <2>2. step = p.steps[i] /\ i \in DOMAIN p.steps
    BY <1>2, <1>5
  <2>3. PolicyChecks(step, p.permissions) # {"allowed"}
    BY <1>5
  <2> QED BY <1>6, <1>7, <2>1, <2>2, <2>3, OnlyProgramsAreDenied
<1> QED BY <1>2, <1>8

LEMMA OnlyTheseStepsFail ==
  ASSUME TapeInv, PackageInv, ScanInv, StoryInv, ReplayFails, ~Passes(package.steps[next])
  PROVE  misread \/ (package.steps[next].kind = "exec" /\ Commands(next) \in failed)
<1>1. stage = "compiled" /\ next \in DOMAIN package.steps
  BY DEF ReplayFails
<1>2. SUFFICES ASSUME ~misread, package.steps[next].kind = "exec" => Commands(next) \notin failed PROVE FALSE
  OBVIOUS
<1>3. PICK ops, n, o, step : ops = Scan.operations /\ n = next /\ o = ops[n] /\ step = package.steps[n]
  OBVIOUS
<1>4. /\ ops \in Seq(Ops) /\ Len(ops) \in Nat /\ Scan.error = "none"
      /\ package.steps = [i \in 1..Len(ops) |-> StepOf(ops, i)]
  BY <1>1, <1>3, ReplayedIsScanned
<1>5. n \in 1..Len(ops) /\ step = StepOf(ops, n) /\ o \in Ops
  BY <1>1, <1>3, <1>4
<1>6. PICK count, files : Story(count, files)
  BY <1>2, <1>4 DEF StoryInv
<1>7. Moved(Scan, did, count, files, world) /\ replay = files[n - 1]
  BY <1>1, <1>3, <1>6 DEF Story
<1>8. AsRecorded(replay, o)
  BY <1>3, <1>5, <1>7 DEF Moved
<1>9. StepTells(step, o)
  <2>1. o = ops[n]
    BY <1>3
  <2>2. step = StepOf(ops, n)
    BY <1>5
  <2> QED BY ONLY <2>1, <2>2, StepIs
<1>10. Passes(step)
  <2>1. step.kind = "exec" => Commands(next) \notin failed
    BY <1>2, <1>3
  <2> QED BY <1>5, <1>8, <1>9, <2>1, StepPasses
<1> QED BY <1>3, <1>10

LEMMA OnlyTheseStep ==
  ASSUME TapeInv, PackageInv, FreshInv, ScanInv, StoryInv, OnlyTheseFail, [Next]_vars
  PROVE  OnlyTheseFail'
<1>1. CASE UNCHANGED vars
  BY <1>1 DEF OnlyTheseFail, Commands, vars, recording, run
<1>2. CASE stage \in {"refused", "done"}
  BY <1>1, <1>2, NothingFollows
<1>3. CASE stage \notin {"refused", "done"} /\ Next
  <2>1. FreshInv'
    BY FreshStep
  <2>2. stage' # "done" => outcome' = "none"
    BY <2>1 DEF FreshInv
  <2>3. CASE Compile
    <3>1. events' = events /\ stage' # "done"
      BY <2>3 DEF Compile, recording
    <3>2. stage' = "refused" => Excused(events')
      BY <2>3, <3>1, OnlyExcusedIsRefused
    <3> QED BY <2>2, <3>1, <3>2 DEF OnlyTheseFail
  <2>4. CASE ReplayDenied
    <3>1. stage' = "done" /\ outcome' = "denied" /\ next' = next /\ package' = package
      BY <2>4 DEF ReplayDenied, Stop
    <3> QED BY <2>4, <3>1, OnlyProgramsDeny DEF OnlyTheseFail
  <2>5. CASE ReplayFails
    <3>1. /\ stage' = "done" /\ misread' = misread /\ failed' = failed
          /\ next' = next /\ package' = package
          /\ outcome' = "stopped" \/ (outcome' = "failed" /\ ~Passes(package.steps[next]))
      BY <2>5 DEF ReplayFails, Stop, recording
    <3>2. Commands(next)' = Commands(next)
      BY <3>1 DEF Commands
    <3>3. outcome' = "failed" => misread \/ (package.steps[next].kind = "exec" /\ Commands(next) \in failed)
      BY <2>5, <3>1, OnlyTheseStepsFail
    <3> QED BY <3>1, <3>2, <3>3 DEF OnlyTheseFail
  <2>6. CASE Deliver
    <3>1. stage' = "done" /\ outcome' \in {"outputs", "succeeded"}
      BY <2>6 DEF Deliver, Stop
    <3> QED BY <3>1 DEF OnlyTheseFail
  <2>7. CASE ~(Compile \/ ReplayDenied \/ ReplayFails \/ Deliver)
    <3>1. stage' # "refused" /\ stage' # "done"
      BY <1>3, <2>7 DEF Next, Start, Edit, MoveByHand, Poll, Output, Finish, ReplayStep
    <3> QED BY <2>2, <3>1 DEF OnlyTheseFail
  <2> QED BY <2>3, <2>4, <2>5, <2>6, <2>7
<1> QED BY <1>1, <1>2, <1>3

-----------------------------------------------------------------------------
(* The replay: what is delivered *)

LEMMA DeclaredAreNamed ==
  ASSUME NEW ops \in Seq(Ops), package = Compiled(ops), NEW name \in DeclaredOutputs
  PROVE  \E p \in Paths : Name[p] = name
<1>1. /\ DOMAIN ops = 1..Len(ops) /\ \A i \in DOMAIN ops : ops[i] \in Ops
  OBVIOUS
<1>2. /\ package.manifest.outputs = UNION {OutputsOf(ops, e) : e \in Execs(ops)}
      /\ package.steps = [i \in DOMAIN ops |-> StepOf(ops, i)]
  BY DEF Compiled
<1>3. ASSUME NEW e, NEW q \in OutputsOf(ops, e) PROVE \E p \in Paths : Name[p] = q
  <2>1. PICK i \in DOMAIN ops : q = Name[ops[i].path] /\ ops[i].kind \in {"created", "modified"}
    BY <1>3 DEF OutputsOf, Declares
  <2>2. ops[i].path \in Paths
    BY <1>1, <2>1, OpsAre
  <2> QED BY <2>1, <2>2
<1>4. CASE name \in package.manifest.outputs
  BY <1>2, <1>3, <1>4
<1>5. CASE \E s \in ToSet(package.steps) : s.kind = "exec" /\ name \in s.outputs
  <2>1. PICK i \in DOMAIN ops : StepOf(ops, i).kind = "exec" /\ name \in StepOf(ops, i).outputs
    BY <1>2, <1>5 DEF ToSet
  <2>2. StepTells(StepOf(ops, i), ops[i])
    BY StepIs
  <2>3. ops[i].kind = "exec"
    BY <2>1, <2>2 DEF StepTells
  <2>4. StepOf(ops, i).outputs = OutputsOf(ops, i)
    BY <2>3 DEF StepOf
  <2> QED BY <1>3, <2>1, <2>4
<1>6. CASE \E s \in ToSet(package.steps) : s.kind = "file" /\ name = s.to
  <2>1. PICK i \in DOMAIN ops : StepOf(ops, i).kind = "file" /\ name = StepOf(ops, i).to
    BY <1>2, <1>6 DEF ToSet
  <2>2. StepTells(StepOf(ops, i), ops[i])
    BY StepIs
  <2>3. ops[i].kind = "moved" /\ name = Name[ops[i].path]
    BY <2>1, <2>2 DEF StepTells
  <2>4. ops[i].path \in Paths
    BY <1>1, <2>3, OpsAre
  <2> QED BY <2>3, <2>4
<1>7. \/ name \in package.manifest.outputs
      \/ \E s \in ToSet(package.steps) : s.kind = "exec" /\ name \in s.outputs
      \/ \E s \in ToSet(package.steps) : s.kind = "file" /\ name = s.to
  BY DEF DeclaredOutputs
<1> QED BY <1>4, <1>5, <1>6, <1>7

\* The output that is copied to a place.
LEMMA PathForIs ==
  ASSUME NEW q \in Paths, Name[q] \in DeclaredOutputs,
         NEW place, place = Materialized(Name[q]), NEW p, p = PathFor(place)
  PROVE  p \in Paths /\ Name[p] \in DeclaredOutputs /\ Materialized(Name[p]) = place
<1>1. PICK declared : declared = DeclaredOutputs
  OBVIOUS
<1>2. PICK T : T = {r \in Paths : Name[r] \in declared /\ Materialized(Name[r]) = place}
  OBVIOUS
<1>3. T \in SUBSET Nat /\ T # {}
  BY <1>1, <1>2, NameAssumption DEF Paths
<1>4. \E x \in T : \A y \in T : x <= y
  BY <1>3, LeastElement
<1>5. \E x \in Paths : /\ Name[x] \in declared /\ Materialized(Name[x]) = place
                       /\ \A r \in Paths : Name[r] \in declared /\ Materialized(Name[r]) = place => x <= r
  BY ONLY <1>2, <1>4
<1> QED BY <1>1, <1>5 DEF PathFor

LEMMA AllIsReplayed ==
  ASSUME TapeInv, PackageInv, ScanInv, StoryInv, Deliver, ~misread
  PROVE  replay = world
<1>1. stage = "compiled" /\ next = Len(package.steps) + 1
  BY DEF Deliver
<1>2. PICK ops : ops = Scan.operations
  OBVIOUS
<1>3. /\ Len(ops) \in Nat /\ Scan.error = "none"
      /\ package.steps = [i \in 1..Len(ops) |-> StepOf(ops, i)]
  BY <1>1, <1>2, ReplayedIsScanned
<1>4. Len(package.steps) = Len(ops)
  BY <1>3
<1>5. PICK count, files : Story(count, files)
  BY <1>3 DEF StoryInv
<1>6. Moved(Scan, did, count, files, world) /\ replay = files[next - 1]
  BY <1>1, <1>5 DEF Story
<1>7. next - 1 = Len(ops)
  BY <1>1, <1>3, <1>4
<1> QED BY <1>2, <1>6, <1>7 DEF Moved

LEMMA OutputsStep ==
  ASSUME TapeInv, PackageInv, FreshInv, ScanInv, StoryInv, OutputsAreTheRecorded, [Next]_vars
  PROVE  OutputsAreTheRecorded'
<1>1. CASE UNCHANGED vars
  BY <1>1 DEF OutputsAreTheRecorded, DeclaredOutputs, vars, recording, run
<1>2. CASE stage \in {"refused", "done"}
  BY <1>1, <1>2, NothingFollows
<1>3. CASE stage \notin {"refused", "done"} /\ Next /\ ~Deliver
  <2>1. FreshInv'
    BY FreshStep
  <2>2. outcome' \notin {"outputs", "succeeded"}
    <3>1. CASE ReplayDenied \/ ReplayFails
      BY <3>1 DEF ReplayDenied, ReplayFails, Stop
    <3>2. CASE ~(ReplayDenied \/ ReplayFails)
      <4>1. stage' # "done"
        BY <1>3, <3>2 DEF Next, Start, Edit, MoveByHand, Poll, Output, Finish, Compile, ReplayStep
      <4> QED BY <2>1, <4>1 DEF FreshInv
    <3> QED BY <3>1, <3>2
  <2> QED BY <2>2 DEF OutputsAreTheRecorded
<1>4. CASE Deliver
  <2>1. misread' = misread /\ world' = world /\ package' = package /\ stage = "compiled"
    BY <1>4 DEF Deliver, recording
  <2>2. SUFFICES ASSUME ~misread PROVE OutputsAreTheRecorded'
    BY <2>1 DEF OutputsAreTheRecorded
  <2>3. PICK declared, now : declared = DeclaredOutputs /\ now = world
    OBVIOUS
  <2>4. DeclaredOutputs' = declared /\ world' = now /\ replay = now
    BY <1>4, <2>1, <2>2, <2>3, AllIsReplayed DEF DeclaredOutputs
  <2>5. ASSUME outcome' = "outputs"
        PROVE  \E name \in declared : now[PathNamed(name)] = Absent
    <3>1. {name \in declared : now[PathNamed(name)] = Absent} # {}
      BY <1>4, <2>3, <2>4, <2>5 DEF Deliver
    <3> QED BY <3>1
  <2>6. ASSUME outcome' = "succeeded", NEW name \in declared, NEW place, place = Materialized(name)
        PROVE  /\ place \in DOMAIN outputs'
               /\ \/ outputs'[place] = now[PathNamed(name)]
                  \/ \E other \in declared \ {name} : Materialized(other) = place
    <3>1. outputs' = [at \in {Materialized(n) : n \in declared} |-> now[PathFor(at)]]
      BY <1>4, <2>3, <2>4, <2>6 DEF Deliver, Stop
    <3>2. place \in {Materialized(n) : n \in declared}
      BY <2>6
    <3>3. PICK p : p = PathFor(place)
      OBVIOUS
    <3>4. outputs'[place] = now[p] /\ place \in DOMAIN outputs'
      BY <3>1, <3>2, <3>3
    <3>5. PICK q \in Paths : Name[q] = name
      <4>1. PICK ops : ops = Scan.operations
        OBVIOUS
      <4>2. ops \in Seq(Ops) /\ package = Compiled(ops)
        BY <2>1, <4>1, ReplayedIsScanned
      <4>3. name \in DeclaredOutputs
        BY <2>3
      <4> QED BY <4>2, <4>3, DeclaredAreNamed
    <3>6. p \in Paths /\ Name[p] \in declared /\ Materialized(Name[p]) = place
      <4>1. Name[q] \in DeclaredOutputs
        BY <2>3, <3>5
      <4>2. place = Materialized(Name[q])
        BY <2>6, <3>5
      <4> QED BY <2>3, <3>3, <4>1, <4>2, PathForIs
    <3>7. CASE Name[p] = name
      BY <3>4, <3>6, <3>7, NamedPath
    <3>8. CASE Name[p] # name
      BY <3>4, <3>6, <3>8
    <3> QED BY <3>7, <3>8
  <2> QED BY <2>3, <2>4, <2>5, <2>6 DEF OutputsAreTheRecorded
<1> QED BY <1>1, <1>2, <1>3, <1>4

-----------------------------------------------------------------------------
(* The theorems of the replay *)

(* Of every recording there is an account of the files after each operation,
   from the workspace it started with to the one it ended with, and the replay
   is at one of them; so the reasons for which a replay fails, and the outputs
   of one that succeeds, are those below. *)
THEOREM ReplayInvariance == Spec => []ReplayInv
<1>1. Init => ReplayInv
  <2> SUFFICES ASSUME Init PROVE ReplayInv
    OBVIOUS
  <2>1. ClockInv /\ FreshInv /\ ScanInv /\ StoryInv
    BY StoryBegins
  <2>2. OnlyTheseFail /\ OutputsAreTheRecorded
    BY DEF Init, OnlyTheseFail, OutputsAreTheRecorded
  <2> QED BY <2>1, <2>2 DEF ReplayInv
<1>2. IInv /\ ReplayInv /\ [Next]_vars => ReplayInv'
  <2> SUFFICES ASSUME IInv, ReplayInv, [Next]_vars PROVE ReplayInv'
    OBVIOUS
  <2>1. TapeInv /\ ToldInv /\ PackageInv
    BY DEF IInv
  <2>2. ClockInv /\ FreshInv /\ ScanInv /\ StoryInv /\ OnlyTheseFail /\ OutputsAreTheRecorded
    BY DEF ReplayInv
  <2>3. ClockInv' /\ ScanInv'
    BY <2>1, <2>2, ScanStep
  <2>4. FreshInv'
    BY <2>2, FreshStep
  <2>5. StoryInv'
    BY <2>1, <2>2, StoryStep
  <2>6. OnlyTheseFail'
    BY <2>1, <2>2, OnlyTheseStep
  <2>7. OutputsAreTheRecorded'
    BY <2>1, <2>2, OutputsStep
  <2> QED BY <2>3, <2>4, <2>5, <2>6, <2>7 DEF ReplayInv
<1> QED BY <1>1, <1>2, PipelineInvariance, PTL DEF Spec

(* A recording is refused, and its replay denied or failed at a step, for the
   named reasons only, whatever was recorded and whichever commands failed:
   what the compiler derives, the linter and the policy engine accept, and if
   no change was misread a step fails only where a recorded command failed. *)
THEOREM OnlyTheseReasons == Spec => []OnlyTheseFail
<1>1. ReplayInv => OnlyTheseFail
  BY DEF ReplayInv
<1> QED BY <1>1, ReplayInvariance, PTL

(* A replay that succeeds delivers the files the recorded workspace ended with,
   and one that lacks an output lacks one the recording had lost too. *)
THEOREM RecordedIsDelivered == Spec => []OutputsAreTheRecorded
<1>1. ReplayInv => OutputsAreTheRecorded
  BY DEF ReplayInv
<1> QED BY <1>1, ReplayInvariance, PTL
=============================================================================

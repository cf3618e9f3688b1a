------------------------- MODULE LockedFundsProofs -------------------------
(***************************************************************************)
(* What holds of locked funds for any moments in their order and for any   *)
(* number of fundings, blocks, crashes, failed queries and failed writes.  *)
(* Of the chain: each locking script opens to whoever has a share that is  *)
(* due, and to nobody else.  Of the wallet: its record of a script tells   *)
(* what is on the chain.                                                   *)
(***************************************************************************)
EXTENDS LockedFunds, SequenceTheorems, WellFoundedInduction, TLAPS

-----------------------------------------------------------------------------
(* How a script runs, step by step                                         *)

(* A set of numbers that has a member has a least one. *)
LEMMA LeastExists ==
    ASSUME NEW S \in SUBSET Nat, S # {}
    PROVE  \E i \in S : \A j \in S : i <= j
<1> DEFINE R == OpToRel(<, Nat)
<1>1. IsWellFoundedOn(R, Nat)
  BY NatLessThanWellFounded
<1>2. \A i, j \in Nat : i < j => <<i, j>> \in R
  BY DEF OpToRel
<1> HIDE DEF R
<1>3. PICK i \in S : \A j \in S : ~ (<<j, i>> \in R)
  BY <1>1, WFMin
<1>4. \A j \in S : ~ (j < i)
  BY <1>2, <1>3, Zenon
<1> QED
  BY <1>4

(* f holds the states of the first n steps of s.                           *)
Runs(f, n, m, s, tx, q) ==
    f = [i \in 0..n |-> IF i = 0 THEN m ELSE Advance(f[i - 1], s[i], tx, q)]

(* A script that has not begun has left the machine as it was.             *)
LEMMA RunsBegin == ASSUME NEW m, NEW s, NEW tx, NEW q PROVE Runs([i \in 0..0 |-> m], 0, m, s, tx, q)
BY DEF Runs

(* A run can be followed for one more step.                                *)
LEMMA RunsAhead ==
    ASSUME NEW m, NEW s, NEW tx, NEW q, NEW n \in Nat, NEW f, Runs(f, n, m, s, tx, q)
    PROVE  \E g : Runs(g, n + 1, m, s, tx, q)
<1> DEFINE g == [i \in 0..(n + 1) |-> IF i = n + 1 THEN Advance(f[n], s[n + 1], tx, q) ELSE f[i]]
<1>1. \A i \in 0..n : f[i] = IF i = 0 THEN m ELSE Advance(f[i - 1], s[i], tx, q)
  BY DEF Runs
<1>2. \A i \in 0..(n + 1) : g[i] = IF i = 0 THEN m ELSE Advance(g[i - 1], s[i], tx, q)
  <2> SUFFICES ASSUME NEW i \in 0..(n + 1) PROVE g[i] = IF i = 0 THEN m ELSE Advance(g[i - 1], s[i], tx, q)
    OBVIOUS
  <2>1. CASE i = n + 1
    BY <2>1
  <2>2. CASE i # n + 1 /\ i # 0
    <3>1. i \in 0..n /\ i - 1 \in 0..n /\ i - 1 # n + 1
      BY <2>2
    <3> QED
      BY <1>1, <2>2, <3>1
  <2>3. CASE i = 0
    BY <1>1, <2>3
  <2> QED
    BY <2>1, <2>2, <2>3
<1>3. g = [i \in 0..(n + 1) |-> g[i]]
  OBVIOUS
<1> HIDE DEF g
<1>4. Runs(g, n + 1, m, s, tx, q)
  BY <1>2, <1>3 DEF Runs
<1> QED
  BY <1>4

(* Every script has a run, of any length: by the shortest that has none.   *)
LEMMA RunsExist ==
    ASSUME NEW m, NEW s, NEW tx, NEW q, NEW n \in Nat
    PROVE  \E f : Runs(f, n, m, s, tx, q)
<1> DEFINE Bad == {k \in Nat : ~ \E f : Runs(f, k, m, s, tx, q)}
<1> SUFFICES ASSUME n \in Bad PROVE FALSE
  OBVIOUS
<1>1. PICK k \in Bad : \A j \in Bad : k <= j
  <2>1. Bad \in SUBSET Nat /\ Bad # {}
    OBVIOUS
  <2> HIDE DEF Bad
  <2> QED
    BY <2>1, LeastExists
<1>2. k # 0
  BY RunsBegin
<1>3. k - 1 \in Nat /\ k - 1 \notin Bad
  BY <1>1, <1>2
<1>4. \E f : Runs(f, k - 1, m, s, tx, q)
  BY <1>3
<1>5. \E g : Runs(g, (k - 1) + 1, m, s, tx, q)
  BY <1>3, <1>4, RunsAhead
<1> QED
  BY <1>5

Begins(s, t, k) == \A i \in 1..k : s[i] = t[i]

(* There is one such f.                                                    *)
LEMMA RunsAgree ==
    ASSUME NEW m, NEW s, NEW t, NEW tx, NEW q, NEW k \in Nat, NEW n \in Nat, NEW f, NEW g,
           Runs(f, k, m, s, tx, q), Runs(g, n, m, t, tx, q), k <= n, Begins(s, t, k)
    PROVE  \A i \in 0..k : f[i] = g[i]
<1> DEFINE Bad == {i \in 0..k : f[i] # g[i]}
<1> SUFFICES ASSUME Bad # {} PROVE FALSE
  OBVIOUS
<1>1. PICK i \in Bad : \A j \in Bad : i <= j
  <2>1. Bad \in SUBSET Nat
    OBVIOUS
  <2> HIDE DEF Bad
  <2> QED
    BY <2>1, LeastExists
<1>2. i # 0
  BY DEF Runs
<1>3. i - 1 \in 0..k /\ i - 1 \in 0..n /\ f[i - 1] = g[i - 1] /\ i \in 1..k
  BY <1>1, <1>2
<1>4. f[i] = Advance(f[i - 1], s[i], tx, q) /\ g[i] = Advance(g[i - 1], t[i], tx, q) /\ s[i] = t[i]
  BY <1>2, <1>3 DEF Runs, Begins
<1> QED
  BY <1>3, <1>4

(* What Run returns is the last state of that run.                         *)
LEMMA RunIs ==
    ASSUME NEW m, NEW s, NEW tx, NEW q, Len(s) \in Nat, NEW f, Runs(f, Len(s), m, s, tx, q)
    PROVE  Run(m, s, tx, q) = f[Len(s)]
<1> DEFINE ran == CHOOSE g : Runs(g, Len(s), m, s, tx, q)
<1>1. Runs(ran, Len(s), m, s, tx, q)
  OBVIOUS
<1>2. Run(m, s, tx, q) = ran[Len(s)]
  BY DEF Run, Runs
<1> HIDE DEF ran
<1>3. \A i \in 0..Len(s) : ran[i] = f[i]
  <2>1. Begins(s, s, Len(s))
    BY DEF Begins
  <2> QED
    BY <1>1, <2>1, RunsAgree
<1> QED
  BY <1>2, <1>3

(* An empty script changes nothing.                                        *)
LEMMA RunNothing == ASSUME NEW m, NEW tx, NEW q PROVE Run(m, <<>>, tx, q) = m
<1>1. Runs([i \in 0..0 |-> m], Len(<<>>), m, <<>>, tx, q)
  BY RunsBegin
<1>2. Run(m, <<>>, tx, q) = [i \in 0..0 |-> m][Len(<<>>)]
  BY <1>1, RunIs
<1> QED
  BY <1>2

(* A sequence that is not empty has a last member.                         *)
LEMMA SequenceSplit ==
    ASSUME NEW X, NEW u \in Seq(X), u # <<>>
    PROVE  \E v \in Seq(X), x \in X : u = Append(v, x) /\ Len(v) = Len(u) - 1 /\ Len(u) - 1 \in Nat
<1> DEFINE n == Len(u)
           v == [i \in 1..(n - 1) |-> u[i]]
<1>1. n \in Nat /\ n # 0 /\ u = [i \in 1..n |-> u[i]] /\ \A i \in 1..n : u[i] \in X
  OBVIOUS
<1>2. n - 1 \in Nat /\ n \in 1..n /\ \A i \in 1..(n - 1) : i \in 1..n
  BY <1>1
<1> HIDE DEF n
<1>3. v \in Seq(X) /\ Len(v) = n - 1
  <2>1. v \in [1..(n - 1) -> X]
    BY <1>1, <1>2
  <2> HIDE DEF v
  <2>2. v \in Seq(X)
    BY <1>2, <2>1, SeqDef
  <2> QED
    BY <1>2, <2>1, <2>2
<1>4. u = Append(v, u[n])
  BY <1>1, <1>2, <1>3
<1> HIDE DEF v
<1> QED
  BY <1>1, <1>2, <1>3, <1>4 DEF n

Operations == {"push", "IF", "ELSE", "ENDIF", "DROP", "CLTV", "CSV", "CHECKSIG", "CHECKMULTISIG"}
Types == {"none", "num", "key", "sig", "blocks", "time"}
Names == {"nobody", "immediate", "delayed1", "delayed2", "delayed3", "sender", "receiver",
          "multi1", "multi2", "multi3", "multi4", "multi5"}
Steps == [op : Operations, kind : Types, of : Names, n : Nat]
IsScript(s) == s \in Seq(Steps)
Extends(t, s, x) == x \in Steps /\ t = Append(s, x)

(* A script with one more step is run, and then the step.                  *)
LEMMA RunAppend ==
    ASSUME NEW s, IsScript(s), NEW x, NEW m, NEW tx, NEW q, NEW t, Extends(t, s, x)
    PROVE  Run(m, t, tx, q) = Advance(Run(m, s, tx, q), x, tx, q)
<1>1. /\ Len(s) \in Nat /\ Len(t) \in Nat /\ Len(t) = Len(s) + 1 /\ t[Len(s) + 1] = x
      /\ \A i \in 1..Len(s) : s[i] = t[i]
  BY DEF IsScript, Extends
<1>2. PICK f : Runs(f, Len(s), m, s, tx, q)
  BY <1>1, RunsExist
<1>3. PICK g : Runs(g, Len(t), m, t, tx, q)
  BY <1>1, RunsExist
<1>4. \A i \in 0..Len(s) : f[i] = g[i]
  <2>1. Len(s) \in Nat /\ Len(t) \in Nat /\ Len(s) <= Len(t)
    BY <1>1
  <2>2. Begins(s, t, Len(s))
    BY <1>1 DEF Begins
  <2> QED
    BY <1>2, <1>3, <2>1, <2>2, RunsAgree
<1>5. Run(m, s, tx, q) = f[Len(s)]
  BY <1>1, <1>2, RunIs
<1>7. Run(m, t, tx, q) = g[Len(t)]
  BY <1>1, <1>3, RunIs
<1>6. g[Len(t)] = Advance(g[Len(s)], x, tx, q)
  BY <1>1, <1>3 DEF Runs
<1> QED
  BY <1>1, <1>4, <1>5, <1>6, <1>7

(* A script that is not empty has a last step.                             *)
LEMMA LastStep ==
    ASSUME NEW u, IsScript(u), u # <<>>, NEW n, n = Len(u)
    PROVE  \E v, x : IsScript(v) /\ Extends(u, v, x) /\ Len(v) = n - 1 /\ n - 1 \in Nat
<1>1. \E v \in Seq(Steps), x \in Steps : u = Append(v, x) /\ Len(v) = Len(u) - 1 /\ Len(u) - 1 \in Nat
  BY SequenceSplit DEF IsScript
<1> QED
  BY <1>1 DEF IsScript, Extends

(* A script after another goes on from where that has come to.             *)
Joins(c, s, t) == c = s \o t

(* Of two scripts one after the other the second runs where the first      *)
(* ended.                                                                  *)
LEMMA RunBoth ==
    ASSUME NEW s, IsScript(s), NEW t, IsScript(t), NEW m, NEW tx, NEW q, NEW c, Joins(c, s, t)
    PROVE  Run(m, c, tx, q) = Run(Run(m, s, tx, q), t, tx, q)
<1> DEFINE Bad == {n \in Nat : \E u : /\ IsScript(u) /\ Len(u) = n
                                      /\ Run(m, s \o u, tx, q) # Run(Run(m, s, tx, q), u, tx, q)}
<1> SUFFICES ASSUME Run(m, c, tx, q) # Run(Run(m, s, tx, q), t, tx, q) PROVE FALSE
  OBVIOUS
<1>0. Len(t) \in Bad
  <2>1. Len(t) \in Nat
    BY DEF IsScript
  <2> QED
    BY <2>1 DEF Joins
<1>1. PICK n \in Bad : \A j \in Bad : n <= j
  <2>1. Bad \in SUBSET Nat /\ Bad # {}
    BY <1>0
  <2> HIDE DEF Bad
  <2> QED
    BY <2>1, LeastExists
<1>2. PICK u : /\ IsScript(u) /\ Len(u) = n
               /\ Run(m, s \o u, tx, q) # Run(Run(m, s, tx, q), u, tx, q)
  BY <1>1
<1>3. u # <<>>
  <2>1. s \o <<>> = s
    BY DEF IsScript
  <2>2. Run(m, s \o <<>>, tx, q) = Run(Run(m, s, tx, q), <<>>, tx, q)
    BY <2>1, RunNothing
  <2> QED
    BY <1>2, <2>2
<1>4. PICK v, x : IsScript(v) /\ Extends(u, v, x) /\ Len(v) = n - 1 /\ n - 1 \in Nat
  BY <1>2, <1>3, LastStep
<1>5. PICK a, b : a = s \o u /\ b = s \o v /\ Extends(a, b, x) /\ IsScript(b)
  <2>1. s \o u = Append(s \o v, x) /\ s \o v \in Seq(Steps)
    BY <1>4 DEF Extends, IsScript
  <2> QED
    BY <1>4, <2>1 DEF Extends, IsScript
<1>6. Run(m, b, tx, q) = Run(Run(m, s, tx, q), v, tx, q)
  BY <1>1, <1>4, <1>5
<1>7. Run(m, a, tx, q) = Advance(Run(m, b, tx, q), x, tx, q)
  BY <1>5, RunAppend
<1>8. Run(Run(m, s, tx, q), u, tx, q) = Advance(Run(Run(m, s, tx, q), v, tx, q), x, tx, q)
  BY <1>4, RunAppend
<1> QED
  BY <1>2, <1>5, <1>6, <1>7, <1>8

(* A script of one step does that step.                                    *)
LEMMA RunOne ==
    ASSUME NEW x \in Steps, NEW m, NEW tx, NEW q
    PROVE  Run(m, <<x>>, tx, q) = Advance(m, x, tx, q)
<1>1. IsScript(<<>>) /\ Extends(<<x>>, <<>>, x)
  BY DEF IsScript, Extends
<1>2. Run(m, <<x>>, tx, q) = Advance(Run(m, <<>>, tx, q), x, tx, q)
  BY <1>1, RunAppend
<1> QED
  BY <1>2, RunNothing

Failed(m) == m.ok = FALSE

(* Once a step has failed nothing happens.                                 *)
LEMMA RunStuck ==
    ASSUME NEW s, IsScript(s), NEW m, Failed(m), NEW tx, NEW q
    PROVE  Run(m, s, tx, q) = m
<1> DEFINE Bad == {n \in Nat : \E u : IsScript(u) /\ Len(u) = n /\ Run(m, u, tx, q) # m}
<1> SUFFICES ASSUME Run(m, s, tx, q) # m PROVE FALSE
  OBVIOUS
<1>0. Len(s) \in Bad
  <2>1. Len(s) \in Nat
    BY DEF IsScript
  <2> QED
    BY <2>1
<1>1. PICK n \in Bad : \A j \in Bad : n <= j
  <2>1. Bad \in SUBSET Nat /\ Bad # {}
    BY <1>0
  <2> HIDE DEF Bad
  <2> QED
    BY <2>1, LeastExists
<1>2. PICK u : IsScript(u) /\ Len(u) = n /\ Run(m, u, tx, q) # m
  BY <1>1
<1>3. u # <<>>
  BY <1>2, RunNothing
<1>4. PICK v, x : IsScript(v) /\ Extends(u, v, x) /\ Len(v) = n - 1 /\ n - 1 \in Nat
  BY <1>2, <1>3, LastStep
<1>5. Run(m, v, tx, q) = m
  BY <1>1, <1>4
<1>6. Run(m, u, tx, q) = Advance(m, x, tx, q)
  BY <1>4, <1>5, RunAppend
<1> QED
  BY <1>2, <1>6 DEF Advance, Failed

-----------------------------------------------------------------------------
(* Steps on a machine that executes: all branches that are open are taken. *)

Machine(st, tk) == [stack |-> st, taking |-> tk, ok |-> TRUE]
Stacks == Seq(Steps)
Taken  == Seq({TRUE})

(* What is in a sequence is in the set it is over.                         *)
LEMMA Member == ASSUME NEW S, NEW s \in Seq(S) PROVE \A i \in DOMAIN s : s[i] \in S
OBVIOUS

(* With every open branch taken the machine executes.                      *)
LEMMA TakenRuns ==
    ASSUME NEW st, NEW tk \in Taken
    PROVE  Running(Machine(st, tk))
<1>1. Machine(st, tk).taking = tk
  BY DEF Machine
<1>2. \A i \in DOMAIN tk : tk[i] = TRUE
  <2>1. PICK S : S = {TRUE} /\ tk \in Seq(S)
    BY DEF Taken
  <2>2. \A i \in DOMAIN tk : tk[i] \in S
    BY <2>1, Member, Zenon
  <2> QED
    BY <2>1, <2>2, Zenon
<1> QED
  BY <1>1, <1>2, Zenon DEF Running

(* What a push does.                                                       *)
LEMMA PushRuns ==
    ASSUME NEW st \in Stacks, NEW tk \in Taken, NEW x \in Steps, x.op = "push", NEW tx, NEW q
    PROVE  Advance(Machine(st, tk), x, tx, q) = Machine(Append(st, x), tk)
<1>1. Running(Machine(st, tk))
  BY TakenRuns
<1> HIDE DEF Running
<1> QED
  BY <1>1 DEF Advance, Execute, Machine

(* What DROP does.                                                         *)
LEMMA DropRuns ==
    ASSUME NEW st \in Stacks, st # <<>>, NEW tk \in Taken, NEW tx, NEW q
    PROVE  Advance(Machine(st, tk), Op("DROP"), tx, q) = Machine(Pop(st, 1), tk)
<1>1. Running(Machine(st, tk))
  BY TakenRuns
<1> QED
  BY <1>1 DEF Advance, Execute, Machine, Op

LockMet(tx, q, d) == q # "final" /\ tx.lock.kind = d.kind /\ tx.lock.n >= d.n

(* CHECKLOCKTIMEVERIFY passes the moments the transaction has reached.     *)
LEMMA CltvRuns ==
    ASSUME NEW st \in Stacks, NEW tk \in Taken, NEW tx, NEW q
    PROVE  Advance(Machine(st, tk), Op("CLTV"), tx, q) =
             IF LockMet(tx, q, Top(st, 0)) THEN Machine(st, tk) ELSE Fails(Machine(st, tk))
<1>1. Running(Machine(st, tk))
  BY TakenRuns
<1> QED
  BY <1>1 DEF Advance, Execute, Machine, Op, LockMet

(* CHECKSEQUENCEVERIFY fails where the sequence is no relative lock.       *)
LEMMA CsvFails ==
    ASSUME NEW st \in Stacks, NEW tk \in Taken, NEW tx, NEW q, q # "relative"
    PROVE  Advance(Machine(st, tk), Op("CSV"), tx, q) = Fails(Machine(st, tk))
<1>1. Running(Machine(st, tk))
  BY TakenRuns
<1> QED
  BY <1>1 DEF Advance, Execute, Machine, Op

IsSig(d, who) == d.kind = "sig" /\ d.of = who

(* What CHECKSIG says of the two things on top.                            *)
Verdict(d, st) == Len(st) >= 2 /\ d = Bool(IsSig(Top(st, 1), Top(st, 0).of))

(* CHECKSIG leaves whether the signature is of the key.                    *)
LEMMA ChecksigRuns ==
    ASSUME NEW st \in Stacks, NEW tk \in Taken, NEW tx, NEW q,
           NEW d, Verdict(d, st)
    PROVE  Advance(Machine(st, tk), Op("CHECKSIG"), tx, q) = Machine(Pop(st, 2) \o <<d>>, tk)
<1> DEFINE m == Machine(st, tk)
           b == Bool(Top(m.stack, 1).kind = "sig" /\ Top(m.stack, 1).of = Top(m.stack, 0).of)
<1>1. Running(m) /\ m.stack = st /\ m.ok = TRUE
  BY TakenRuns DEF Machine
<1>2. b = d
  BY <1>1, Zenon DEF IsSig, Verdict
<1>0. Len(st) >= 2
  BY DEF Verdict
<1>3. Execute(m, Op("CHECKSIG"), tx, q) = [m EXCEPT !.stack = Pop(@, 2) \o <<b>>]
  <2> HIDE DEF m
  <2> QED
    BY <1>0, <1>1 DEF Execute, Op
<1> HIDE DEF b
<1>4. Execute(m, Op("CHECKSIG"), tx, q) = Machine(Pop(st, 2) \o <<b>>, tk)
  BY <1>3 DEF Machine
<1>5. Advance(m, Op("CHECKSIG"), tx, q) = Execute(m, Op("CHECKSIG"), tx, q)
  BY <1>1, Zenon DEF Advance
<1> QED
  BY <1>2, <1>4, <1>5

(* CHECKSIG wants two things on the stack.                                 *)
LEMMA ChecksigFails ==
    ASSUME NEW st \in Stacks, NEW tk \in Taken, NEW tx, NEW q, Len(st) < 2
    PROVE  Advance(Machine(st, tk), Op("CHECKSIG"), tx, q) = Fails(Machine(st, tk))
<1>1. Running(Machine(st, tk))
  BY TakenRuns
<1> QED
  BY <1>1 DEF Advance, Execute, Machine, Op

(* CHECKMULTISIG is CheckMultisig.                                         *)
LEMMA MultisigRuns ==
    ASSUME NEW st \in Stacks, NEW tk \in Taken, NEW tx, NEW q
    PROVE  Advance(Machine(st, tk), Op("CHECKMULTISIG"), tx, q) = CheckMultisig(Machine(st, tk))
<1>1. Running(Machine(st, tk))
  BY TakenRuns
<1> QED
  BY <1>1 DEF Advance, Execute, Machine, Op

(* IF opens a branch, taken as the flag says.                              *)
LEMMA IfRuns ==
    ASSUME NEW st \in Stacks, st # <<>>, NEW tk \in Taken, NEW tx, NEW q
    PROVE  Advance(Machine(st, tk), Op("IF"), tx, q) =
             Machine(Pop(st, 1), Append(tk, Truthy(Top(st, 0))))
<1>1. Running(Machine(st, tk))
  BY TakenRuns
<1> QED
  BY <1>1 DEF Advance, Execute, Machine, Op

(* IF wants a flag.                                                        *)
LEMMA IfFails ==
    ASSUME NEW tk \in Taken, NEW tx, NEW q
    PROVE  Advance(Machine(<<>>, tk), Op("IF"), tx, q) = Fails(Machine(<<>>, tk))
<1>1. Running(Machine(<<>>, tk))
  BY TakenRuns
<1> QED
  BY <1>1 DEF Advance, Execute, Machine, Op

-----------------------------------------------------------------------------
(* Steps that only look at the branches *)

(* What was appended is last.                                              *)
LEMMA LastAdded ==
    ASSUME NEW B, NEW tk \in Seq(B), NEW b \in B, NEW w, w = Append(tk, b)
    PROVE  Len(w) \in DOMAIN w /\ w[Len(w)] = b /\ Pop(w, 1) = tk
<1>1. Len(tk) \in Nat /\ Len(w) = Len(tk) + 1 /\ DOMAIN w = 1..(Len(tk) + 1)
      /\ w[Len(w)] = b /\ \A i \in 1..Len(tk) : w[i] = tk[i]
  OBVIOUS
<1>2. Pop(w, 1) = tk
  BY <1>1 DEF Pop
<1> QED
  BY <1>1, <1>2

(* A sequence is a function on its positions.                              *)
LEMMA Shape ==
    ASSUME NEW B, NEW s \in Seq(B), NEW n, n = Len(s)
    PROVE  s = [i \in 1..n |-> s[i]]
OBVIOUS

(* To change what was appended is to append something else.                *)
LEMMA LastChanged ==
    ASSUME NEW B, NEW tk \in Seq(B), NEW b \in B, NEW c \in B, NEW w, w = Append(tk, b)
    PROVE  [w EXCEPT ![Len(w)] = c] = Append(tk, c)
<1>1. Len(tk) \in Nat /\ Len(w) = Len(tk) + 1 /\ \A i \in 1..Len(tk) : w[i] = tk[i]
  OBVIOUS
<1>2. PICK v : v = Append(tk, c)
  OBVIOUS
<1>3. PICK n \in Nat : n = Len(tk) /\ Len(w) = n + 1 /\ Len(v) = n + 1
  BY <1>1, <1>2
<1>4. v \in Seq(B) /\ w \in Seq(B)
  BY <1>2
<1>5. v = [i \in 1..(n + 1) |-> v[i]]
  BY <1>3, <1>4, Shape
<1>6. w = [i \in 1..(n + 1) |-> w[i]]
  BY <1>3, <1>4, Shape
<1>7. v[n + 1] = c /\ \A i \in 1..(n + 1) : i # n + 1 => v[i] = w[i]
  BY <1>1, <1>2, <1>3
<1>8. [w EXCEPT ![n + 1] = c] = v
  BY <1>5, <1>6, <1>7
<1> QED
  BY <1>2, <1>3, <1>8

Retake(m, v) == [m EXCEPT !.taking = v]

(* A machine with other branches open.                                     *)
LEMMA TakingChanged ==
    ASSUME NEW st, NEW w, NEW v, NEW o
    PROVE  Retake([stack |-> st, taking |-> w, ok |-> o], v) = [stack |-> st, taking |-> v, ok |-> o]
<1> DEFINE a == [stack |-> st, taking |-> w, ok |-> o]
           b == [a EXCEPT !.taking = v]
<1>1. DOMAIN b = {"stack", "taking", "ok"}
  OBVIOUS
<1>2. b.stack = st
  OBVIOUS
<1>3. b.taking = v
  OBVIOUS
<1>4. b.ok = o
  OBVIOUS
<1>5. b = [x \in {"stack", "taking", "ok"} |-> b[x]]
  OBVIOUS
<1>6. b = [stack |-> st, taking |-> v, ok |-> o]
  BY <1>1, <1>2, <1>3, <1>4, <1>5
<1> QED
  BY <1>6 DEF Retake

(* The same, of a machine that has not failed.                             *)
LEMMA Retaken ==
    ASSUME NEW st, NEW w, NEW v
    PROVE  [Machine(st, w) EXCEPT !.taking = v] = Machine(st, v)
<1>1. PICK o : o = TRUE
  OBVIOUS
<1>2. Machine(st, w) = [stack |-> st, taking |-> w, ok |-> o]
  BY <1>1, Zenon DEF Machine
<1>3. Machine(st, v) = [stack |-> st, taking |-> v, ok |-> o]
  BY <1>1, Zenon DEF Machine
<1>4. Retake([stack |-> st, taking |-> w, ok |-> o], v) = [stack |-> st, taking |-> v, ok |-> o]
  BY TakingChanged
<1>5. Retake(Machine(st, w), v) = Machine(st, v)
  BY <1>2, <1>3, <1>4, Zenon
<1> QED
  BY <1>5, Zenon DEF Retake

Opposite(b, c) == c = ~ b

(* ELSE takes the other branch.                                            *)
LEMMA ElseRuns ==
    ASSUME NEW st, NEW tk \in Seq(BOOLEAN), NEW tx, NEW q, NEW b \in BOOLEAN, NEW c \in BOOLEAN,
           Opposite(b, c)
    PROVE  Advance(Machine(st, Append(tk, b)), Op("ELSE"), tx, q) = Machine(st, Append(tk, c))
<1>1. PICK w : w = Append(tk, b)
  OBVIOUS
<1> DEFINE m == Machine(st, w)
<1>2. w[Len(w)] = b /\ [w EXCEPT ![Len(w)] = c] = Append(tk, c) /\ Len(w) \in DOMAIN w
  <2>1. PICK B : B = BOOLEAN
    OBVIOUS
  <2>2. tk \in Seq(B) /\ b \in B /\ c \in B
    BY <2>1, Zenon
  <2> QED
    BY <1>1, <2>2, LastChanged, LastAdded
<1>3. (~ w[Len(w)]) = c
  BY <1>2, Zenon DEF Opposite
<1>4. m.taking = w /\ m.ok = TRUE /\ m = [stack |-> st, taking |-> w, ok |-> TRUE]
  BY DEF Machine
<1>5. [m EXCEPT !.taking[Len(m.taking)] = ~ @] = [m EXCEPT !.taking = [w EXCEPT ![Len(w)] = ~ w[Len(w)]]]
  <2> HIDE DEF m
  <2> QED
    BY <1>4, Zenon
<1>6. Execute(m, Op("ELSE"), tx, q) = [m EXCEPT !.taking[Len(m.taking)] = ~ @]
  BY DEF Execute, Op
<1>7. Advance(m, Op("ELSE"), tx, q) = Execute(m, Op("ELSE"), tx, q)
  BY <1>4, Zenon DEF Advance
<1>8. Advance(m, Op("ELSE"), tx, q) = [m EXCEPT !.taking = Append(tk, c)]
  BY <1>2, <1>3, <1>5, <1>6, <1>7, Zenon
<1>9. [m EXCEPT !.taking = Append(tk, c)] = Machine(st, Append(tk, c))
  BY Retaken
<1> QED
  BY <1>1, <1>8, <1>9

(* ENDIF closes the branch.                                                *)
LEMMA EndifRuns ==
    ASSUME NEW st, NEW tk \in Seq(BOOLEAN), NEW tx, NEW q, NEW b \in BOOLEAN
    PROVE  Advance(Machine(st, Append(tk, b)), Op("ENDIF"), tx, q) = Machine(st, tk)
<1>1. PICK w : w = Append(tk, b)
  OBVIOUS
<1>2. Pop(w, 1) = tk
  <2>1. PICK B : B = BOOLEAN
    OBVIOUS
  <2>2. tk \in Seq(B) /\ b \in B
    BY <2>1, Zenon
  <2> QED
    BY <1>1, <2>2, LastAdded
<1>3. Advance(Machine(st, w), Op("ENDIF"), tx, q) = [Machine(st, w) EXCEPT !.taking = Pop(@, 1)]
  BY DEF Advance, Execute, Op, Machine
<1> QED
  BY <1>1, <1>2, <1>3 DEF Machine

(* A machine that is not in all of the branches. *)
Blocked == {tk \in Seq(BOOLEAN) : \E i \in DOMAIN tk : tk[i] = FALSE}

(* A machine inside a branch that is not taken does not execute.           *)
LEMMA BlockedWaits ==
    ASSUME NEW st, NEW tk \in Blocked
    PROVE  ~ Running(Machine(st, tk))
<1>1. Machine(st, tk).taking = tk
  BY DEF Machine
<1> QED
  BY <1>1, Zenon DEF Running, Blocked

(* Nor does it inside a branch of such a branch.                           *)
LEMMA BlockedMore ==
    ASSUME NEW tk, tk \in Seq(BOOLEAN), NEW b \in BOOLEAN, tk \in Blocked \/ b = FALSE
    PROVE  Append(tk, b) \in Blocked
<1>1. PICK w : w = Append(tk, b)
  OBVIOUS
<1>2. w \in Seq(BOOLEAN) /\ Len(w) \in DOMAIN w /\ w[Len(w)] = b /\ \A i \in DOMAIN tk : i \in DOMAIN w /\ w[i] = tk[i]
  BY <1>1
<1> QED
  BY <1>1, <1>2, Zenon DEF Blocked

Branching == {"IF", "ELSE", "ENDIF"}

(* It passes over a step that is no branching.                             *)
LEMMA PlainWaits ==
    ASSUME NEW st, NEW tk \in Blocked, NEW x \in Steps, x.op \notin Branching, NEW tx, NEW q
    PROVE  Advance(Machine(st, tk), x, tx, q) = Machine(st, tk)
<1> DEFINE m == Machine(st, tk)
<1>1. ~ Running(m) /\ m.ok = TRUE
  BY BlockedWaits DEF Machine
<1> HIDE DEF m
<1>2. Execute(m, x, tx, q) = m
  BY <1>1 DEF Execute, Branching
<1> QED
  BY <1>1, <1>2, Zenon DEF Advance, m

(* It counts the branches it passes over.                                  *)
LEMMA IfWaits ==
    ASSUME NEW st, NEW tk \in Blocked, NEW tx, NEW q
    PROVE  Advance(Machine(st, tk), Op("IF"), tx, q) = Machine(st, Append(tk, FALSE))
<1> DEFINE m == Machine(st, tk)
<1>1. ~ Running(m) /\ m.ok = TRUE
  BY BlockedWaits DEF Machine
<1> HIDE DEF m
<1>2. Execute(m, Op("IF"), tx, q) = [m EXCEPT !.taking = Append(@, FALSE)]
  BY <1>1 DEF Execute, Op
<1>3. Advance(m, Op("IF"), tx, q) = [m EXCEPT !.taking = Append(@, FALSE)]
  BY <1>1, <1>2, Zenon DEF Advance
<1> QED
  BY <1>3 DEF m, Machine

-----------------------------------------------------------------------------
(* Branches that are not taken                                             *)

(* A script that a machine outside of it passes over. *)
Skipped(s) ==
    \A st, tx, q : \A tk \in Blocked : Run(Machine(st, tk), s, tx, q) = Machine(st, tk)

(* A script without branches is one. *)
Plain(s) == IsScript(s) /\ \A i \in DOMAIN s : s[i].op \notin Branching

(* A script without branches has none before its last step.                *)
LEMMA PlainSplits ==
    ASSUME NEW u, NEW v, NEW x, Plain(u), IsScript(v), Extends(u, v, x)
    PROVE  Plain(v) /\ x \in Steps /\ x.op \notin Branching
<1>1. v \in Seq(Steps) /\ x \in Steps /\ u = Append(v, x)
  BY DEF IsScript, Extends
<1>2. \A i \in DOMAIN v : i \in DOMAIN u /\ u[i] = v[i]
  BY <1>1
<1>3. Len(v) + 1 \in DOMAIN u /\ u[Len(v) + 1] = x
  BY <1>1
<1> QED
  BY <1>1, <1>2, <1>3, Zenon DEF Plain

(* A script without branches is passed over: by the shortest that is not.  *)
LEMMA PlainSkipped ==
    ASSUME NEW s, Plain(s)
    PROVE  Skipped(s)
<1> SUFFICES ASSUME NEW st, NEW tx, NEW q, NEW tk \in Blocked PROVE Run(Machine(st, tk), s, tx, q) = Machine(st, tk)
  BY DEF Skipped
<1> DEFINE m == Machine(st, tk)
           Bad == {n \in Nat : \E u : Plain(u) /\ Len(u) = n /\ Run(m, u, tx, q) # m}
<1> HIDE DEF m
<1> SUFFICES ASSUME Run(m, s, tx, q) # m PROVE FALSE
  BY DEF m
<1>0. Len(s) \in Bad
  <2>1. Len(s) \in Nat
    BY DEF Plain, IsScript
  <2> QED
    BY <2>1
<1>1. PICK n \in Bad : \A j \in Bad : n <= j
  <2>1. Bad \in SUBSET Nat /\ Bad # {}
    BY <1>0
  <2> HIDE DEF Bad
  <2> QED
    BY <2>1, LeastExists
<1>2. PICK u : Plain(u) /\ Len(u) = n /\ Run(m, u, tx, q) # m
  BY <1>1
<1>3. u # <<>> /\ IsScript(u)
  BY <1>2, RunNothing DEF Plain
<1>4. PICK v, x : IsScript(v) /\ Extends(u, v, x) /\ Len(v) = n - 1 /\ n - 1 \in Nat
  BY <1>2, <1>3, LastStep
<1>5. Plain(v) /\ x \in Steps /\ x.op \notin Branching
  BY <1>2, <1>4, PlainSplits
<1>6. Run(m, v, tx, q) = m
  BY <1>1, <1>4, <1>5
<1>7. Run(m, u, tx, q) = Advance(m, x, tx, q)
  BY <1>4, <1>6, RunAppend
<1>8. Advance(m, x, tx, q) = m
  BY <1>5, PlainWaits DEF m
<1> QED
  BY <1>2, <1>7, <1>8

(* Two scripts one after the other are a script.                           *)
LEMMA RunJoined ==
    ASSUME NEW s, IsScript(s), NEW t, IsScript(t), NEW c, Joins(c, s, t)
    PROVE  IsScript(c) /\ \A m, tx, q : Run(m, c, tx, q) = Run(Run(m, s, tx, q), t, tx, q)
<1>1. IsScript(c)
  BY DEF IsScript, Joins
<1>2. ASSUME NEW m, NEW tx, NEW q PROVE Run(m, c, tx, q) = Run(Run(m, s, tx, q), t, tx, q)
  BY RunBoth
<1> QED
  BY <1>1, <1>2

(* The operations are steps.                                               *)
LEMMA OpStep == ASSUME NEW name \in Operations PROVE Op(name) \in Steps /\ Op(name).op = name
BY DEF Op, Steps, Types, Names

(* What is pushed is a step.                                               *)
LEMMA DataSteps ==
    ASSUME NEW who \in Names, NEW n \in Nat, NEW u \in Units
    PROVE  /\ {Num(n), Key(who), Sig(who), Moment(u, n)} \subseteq Steps
           /\ \A d \in {Num(n), Key(who), Sig(who), Moment(u, n)} : d.op = "push"
           /\ Num(n).kind = "num" /\ Num(n).n = n
           /\ Key(who).kind = "key" /\ Key(who).of = who
           /\ Sig(who).kind = "sig" /\ Sig(who).of = who
           /\ Moment(u, n).kind = u /\ Moment(u, n).n = n
<1>1. "nobody" \in Names /\ "push" \in Operations /\ {"num", "key", "sig"} \subseteq Types /\ u \in Types
  BY DEF Names, Operations, Types, Units
<1> HIDE DEF Names, Operations, Types, Units
<1> QED
  BY <1>1 DEF Num, Key, Sig, Moment, Datum, Steps

(* The steps of an If, one script after the other. *)
LEMMA RunIf ==
    ASSUME NEW a, IsScript(a), NEW b, IsScript(b), NEW m, NEW tx, NEW q,
           NEW m1, m1 = Advance(m, Op("IF"), tx, q),
           NEW m2, m2 = Run(m1, a, tx, q),
           NEW m3, m3 = Advance(m2, Op("ELSE"), tx, q),
           NEW m4, m4 = Run(m3, b, tx, q)
    PROVE  IsScript(If(a, b)) /\ Run(m, If(a, b), tx, q) = Advance(m4, Op("ENDIF"), tx, q)
<1>0. Op("IF") \in Steps /\ Op("ELSE") \in Steps /\ Op("ENDIF") \in Steps
  <2>1. {"IF", "ELSE", "ENDIF"} \subseteq Operations
    BY DEF Operations
  <2> QED
    BY <2>1, OpStep
<1>1. PICK i, e, f : i = <<Op("IF")>> /\ e = <<Op("ELSE")>> /\ f = <<Op("ENDIF")>>
  OBVIOUS
<1>2. IsScript(i) /\ IsScript(e) /\ IsScript(f)
  BY <1>0, <1>1 DEF IsScript
<1>3. /\ Run(m, i, tx, q) = m1
      /\ Run(m2, e, tx, q) = m3
      /\ Run(m4, f, tx, q) = Advance(m4, Op("ENDIF"), tx, q)
  BY <1>0, <1>1, RunOne
<1>4. PICK c : Joins(c, i, a)
  BY DEF Joins
<1>5. PICK d : Joins(d, c, e)
  BY DEF Joins
<1>6. PICK g : Joins(g, d, b)
  BY DEF Joins
<1>7. PICK h : Joins(h, g, f)
  BY DEF Joins
<1>8. h = If(a, b)
  BY <1>1, <1>4, <1>5, <1>6, <1>7 DEF If, Joins
<1>9. IsScript(c) /\ Run(m, c, tx, q) = m2
  BY <1>2, <1>3, <1>4, RunJoined
<1>10. IsScript(d) /\ Run(m, d, tx, q) = m3
  BY <1>2, <1>3, <1>5, <1>9, RunJoined
<1>11. IsScript(g) /\ Run(m, g, tx, q) = m4
  BY <1>6, <1>10, RunJoined
<1>12. IsScript(h) /\ Run(m, h, tx, q) = Advance(m4, Op("ENDIF"), tx, q)
  BY <1>2, <1>3, <1>7, <1>11, RunJoined
<1> QED
  BY <1>8, <1>12

(* A branch over scripts that are passed over is passed over.              *)
LEMMA IfSkipped ==
    ASSUME NEW a, IsScript(a), Skipped(a), NEW b, IsScript(b), Skipped(b)
    PROVE  Skipped(If(a, b))
<1> SUFFICES ASSUME NEW st, NEW tx, NEW q, NEW tk \in Blocked
             PROVE  Run(Machine(st, tk), If(a, b), tx, q) = Machine(st, tk)
  BY DEF Skipped
<1>1. PICK t, f : t = TRUE /\ f = FALSE
  OBVIOUS
<1>2. tk \in Seq(BOOLEAN) /\ t \in BOOLEAN /\ f \in BOOLEAN
  BY <1>1 DEF Blocked
<1>9. Opposite(f, t)
  BY <1>1, Zenon DEF Opposite
<1>3. Append(tk, t) \in Blocked /\ Append(tk, f) \in Blocked
  BY <1>2, BlockedMore
<1>4. Advance(Machine(st, tk), Op("IF"), tx, q) = Machine(st, Append(tk, f))
  BY <1>1, IfWaits
<1>5. Run(Machine(st, Append(tk, f)), a, tx, q) = Machine(st, Append(tk, f))
  BY <1>3 DEF Skipped
<1>6. Advance(Machine(st, Append(tk, f)), Op("ELSE"), tx, q) = Machine(st, Append(tk, t))
  BY <1>2, <1>9, ElseRuns
<1>7. Run(Machine(st, Append(tk, t)), b, tx, q) = Machine(st, Append(tk, t))
  BY <1>3 DEF Skipped
<1>8. Advance(Machine(st, Append(tk, t)), Op("ENDIF"), tx, q) = Machine(st, tk)
  BY <1>2, EndifRuns
<1> QED
  BY <1>4, <1>5, <1>6, <1>7, <1>8, RunIf

-----------------------------------------------------------------------------
(* What a script leaves on the stack                                       *)

(* What a script does to a stack in a machine that executes it: it leaves  *)
(* another one, or it fails; whatever branches are open.                   *)
Goes(s, st, tx, q, st2) ==
    \A tk \in Taken : Run(Machine(st, tk), s, tx, q) = Machine(st2, tk)
Breaks(s, st, tx, q) ==
    \A tk \in Taken : Run(Machine(st, tk), s, tx, q).ok = FALSE
Block(s) ==
    /\ IsScript(s) /\ Skipped(s)
    /\ \A st \in Stacks : \A tx, q : Breaks(s, st, tx, q) \/ \E st2 : Goes(s, st, tx, q, st2)

(* A script starts with no branch open.                                    *)
LEMMA NoneTaken == <<>> \in Taken
BY DEF Taken

(* A script that leaves a stack opens if that is one true value.           *)
LEMMA GoesOpens ==
    ASSUME NEW st, NEW s, NEW tx, NEW q, NEW st2, Goes(s, st, tx, q, st2)
    PROVE  Unlocks(st, s, tx, q) <=> Len(st2) = 1 /\ Truthy(Top(st2, 0))
<1>1. Run(Machine(st, <<>>), s, tx, q) = Machine(st2, <<>>)
  BY NoneTaken DEF Goes
<1>2. Machine(st2, <<>>).ok = TRUE /\ Machine(st2, <<>>).stack = st2
  BY DEF Machine
<1>3. Unlocks(st, s, tx, q) <=> /\ Run(Machine(st, <<>>), s, tx, q).ok
                                /\ Len(Run(Machine(st, <<>>), s, tx, q).stack) = 1
                                /\ Truthy(Top(Run(Machine(st, <<>>), s, tx, q).stack, 0))
  BY DEF Unlocks, Machine
<1> QED
  BY <1>1, <1>2, <1>3, Zenon

(* A script that fails does not open.                                      *)
LEMMA BreaksOpens ==
    ASSUME NEW st, NEW s, NEW tx, NEW q, Breaks(s, st, tx, q)
    PROVE  ~ Unlocks(st, s, tx, q)
<1>1. Run(Machine(st, <<>>), s, tx, q).ok = FALSE
  BY NoneTaken DEF Breaks
<1>2. Unlocks(st, s, tx, q) => Run(Machine(st, <<>>), s, tx, q).ok
  BY DEF Unlocks, Machine
<1> QED
  BY <1>1, <1>2, Zenon

(* The second of two scripts does to the stack of the first what it does.  *)
LEMMA GoesBoth ==
    ASSUME NEW s, IsScript(s), NEW t, IsScript(t), NEW c, Joins(c, s, t),
           NEW st, NEW st1, NEW tx, NEW q, Goes(s, st, tx, q, st1)
    PROVE  /\ \A st2 : Goes(t, st1, tx, q, st2) => Goes(c, st, tx, q, st2)
           /\ Breaks(t, st1, tx, q) => Breaks(c, st, tx, q)
<1>1. \A tk \in Taken : Run(Machine(st, tk), c, tx, q) = Run(Machine(st1, tk), t, tx, q)
  <2>1. \A m : Run(m, c, tx, q) = Run(Run(m, s, tx, q), t, tx, q)
    BY RunJoined
  <2> QED
    BY <2>1 DEF Goes
<1> QED
  BY <1>1 DEF Goes, Breaks

(* A script whose beginning fails fails.                                   *)
LEMMA BreaksBoth ==
    ASSUME NEW s, IsScript(s), NEW t, IsScript(t), NEW c, Joins(c, s, t),
           NEW st, NEW tx, NEW q, Breaks(s, st, tx, q)
    PROVE  Breaks(c, st, tx, q)
<1> SUFFICES ASSUME NEW tk \in Taken PROVE Run(Machine(st, tk), c, tx, q).ok = FALSE
  BY DEF Breaks
<1>1. PICK m : m = Run(Machine(st, tk), s, tx, q)
  OBVIOUS
<1>2. m.ok = FALSE
  BY <1>1 DEF Breaks
<1>3. Run(m, t, tx, q) = m
  <2>1. Failed(m)
    BY <1>2 DEF Failed
  <2> QED
    BY <2>1, RunStuck
<1>4. Run(Machine(st, tk), c, tx, q) = Run(m, t, tx, q)
  BY <1>1, RunJoined
<1> QED
  BY <1>2, <1>3, <1>4

(* A branch may be taken, or not, inside branches that are.                *)
LEMMA TakenMore ==
    ASSUME NEW tk \in Taken, NEW t, t = TRUE, NEW f, f = FALSE
    PROVE  /\ tk \in Seq(BOOLEAN) /\ t \in BOOLEAN /\ f \in BOOLEAN
           /\ Append(tk, t) \in Taken /\ Append(tk, f) \in Blocked
           /\ Opposite(t, f) /\ Opposite(f, t)
<1>1. tk \in Seq(BOOLEAN)
  <2>1. PICK S, B : S = {TRUE} /\ B = BOOLEAN /\ S \subseteq B
    OBVIOUS
  <2>2. tk \in Seq(S)
    BY <2>1 DEF Taken
  <2>3. tk \in Seq(B)
    BY <2>1, <2>2, SeqMonotonic
  <2> QED
    BY <2>1, <2>3
<1>2. Append(tk, t) \in Taken
  <2>1. PICK S : S = {TRUE}
    OBVIOUS
  <2>2. tk \in Seq(S) /\ t \in S
    BY <2>1 DEF Taken
  <2>3. Append(tk, t) \in Seq(S)
    BY <2>2, AppendProperties
  <2> QED
    BY <2>1, <2>3 DEF Taken
<1>3. t \in BOOLEAN /\ f \in BOOLEAN
  OBVIOUS
<1>4. Append(tk, f) \in Blocked
  BY <1>1, <1>3, BlockedMore
<1>5. Opposite(t, f) /\ Opposite(f, t)
  BY Zenon DEF Opposite
<1> QED
  BY <1>1, <1>2, <1>3, <1>4, <1>5

(* The first branch of an If.                                              *)
LEMMA IfTakes ==
    ASSUME NEW a, IsScript(a), NEW b, IsScript(b), Skipped(b),
           NEW st \in Stacks, st # <<>>, Truthy(Top(st, 0)), NEW tx, NEW q, NEW st1, st1 = Pop(st, 1)
    PROVE  /\ \A st2 : Goes(a, st1, tx, q, st2) => Goes(If(a, b), st, tx, q, st2)
           /\ Breaks(a, st1, tx, q) => Breaks(If(a, b), st, tx, q)
<1>0. PICK t, f : t = TRUE /\ f = FALSE
  OBVIOUS
<1>1. Truthy(Top(st, 0)) = t
  <2>1. Truthy(Top(st, 0)) \in BOOLEAN
    BY DEF Truthy
  <2> QED
    BY <1>0, <2>1
<1>2. \A tk \in Taken : Advance(Machine(st, tk), Op("IF"), tx, q) = Machine(st1, Append(tk, t))
  BY <1>1, IfRuns
<1>3. ASSUME NEW st2, Goes(a, st1, tx, q, st2)
      PROVE  Goes(If(a, b), st, tx, q, st2)
  <2> SUFFICES ASSUME NEW tk \in Taken
               PROVE  Run(Machine(st, tk), If(a, b), tx, q) = Machine(st2, tk)
    BY DEF Goes
  <2>0. /\ tk \in Seq(BOOLEAN) /\ t \in BOOLEAN /\ f \in BOOLEAN
        /\ Append(tk, t) \in Taken /\ Append(tk, f) \in Blocked
        /\ Opposite(t, f)
    BY <1>0, TakenMore
  <2>1. Run(Machine(st1, Append(tk, t)), a, tx, q) = Machine(st2, Append(tk, t))
    BY <1>3, <2>0 DEF Goes
  <2>2. Advance(Machine(st2, Append(tk, t)), Op("ELSE"), tx, q) = Machine(st2, Append(tk, f))
    BY <2>0, ElseRuns
  <2>3. Run(Machine(st2, Append(tk, f)), b, tx, q) = Machine(st2, Append(tk, f))
    BY <2>0 DEF Skipped
  <2>4. Advance(Machine(st2, Append(tk, f)), Op("ENDIF"), tx, q) = Machine(st2, tk)
    BY <2>0, EndifRuns
  <2> QED
    BY <1>2, <2>1, <2>2, <2>3, <2>4, RunIf
<1>4. ASSUME Breaks(a, st1, tx, q)
      PROVE  Breaks(If(a, b), st, tx, q)
  <2> SUFFICES ASSUME NEW tk \in Taken
               PROVE  Run(Machine(st, tk), If(a, b), tx, q).ok = FALSE
    BY DEF Breaks
  <2>0. Append(tk, t) \in Taken
    BY <1>0, TakenMore
  <2>1. PICK m : m = Run(Machine(st1, Append(tk, t)), a, tx, q)
    OBVIOUS
  <2>2. m.ok = FALSE
    BY <1>4, <2>0, <2>1 DEF Breaks
  <2>3. Advance(m, Op("ELSE"), tx, q) = m /\ Advance(m, Op("ENDIF"), tx, q) = m
    BY <2>2, Zenon DEF Advance
  <2>4. Run(m, b, tx, q) = m
    <3>1. Failed(m)
      BY <2>2 DEF Failed
    <3> QED
      BY <3>1, RunStuck
  <2>5. Run(Machine(st, tk), If(a, b), tx, q) = m
    BY <1>2, <2>1, <2>3, <2>4, RunIf
  <2> QED
    BY <2>2, <2>5
<1> QED
  BY <1>3, <1>4

(* The second one.                                                         *)
LEMMA IfElse ==
    ASSUME NEW a, IsScript(a), NEW b, IsScript(b), Skipped(a),
           NEW st \in Stacks, st # <<>>, ~ Truthy(Top(st, 0)), NEW tx, NEW q, NEW st1, st1 = Pop(st, 1)
    PROVE  /\ \A st2 : Goes(b, st1, tx, q, st2) => Goes(If(a, b), st, tx, q, st2)
           /\ Breaks(b, st1, tx, q) => Breaks(If(a, b), st, tx, q)
<1>0. PICK t, f : t = TRUE /\ f = FALSE
  OBVIOUS
<1>1. Truthy(Top(st, 0)) = f
  <2>1. Truthy(Top(st, 0)) \in BOOLEAN
    BY DEF Truthy
  <2> QED
    BY <1>0, <2>1
<1>2. \A tk \in Taken : Advance(Machine(st, tk), Op("IF"), tx, q) = Machine(st1, Append(tk, f))
  BY <1>1, IfRuns
<1>3. ASSUME NEW tk \in Taken
      PROVE  /\ Append(tk, t) \in Taken /\ tk \in Seq(BOOLEAN) /\ t \in BOOLEAN
             /\ Run(Machine(st1, Append(tk, f)), a, tx, q) = Machine(st1, Append(tk, f))
             /\ Advance(Machine(st1, Append(tk, f)), Op("ELSE"), tx, q) = Machine(st1, Append(tk, t))
  <2>0. /\ tk \in Seq(BOOLEAN) /\ t \in BOOLEAN /\ f \in BOOLEAN
        /\ Append(tk, t) \in Taken /\ Append(tk, f) \in Blocked
        /\ Opposite(f, t)
    BY <1>0, TakenMore
  <2>1. Run(Machine(st1, Append(tk, f)), a, tx, q) = Machine(st1, Append(tk, f))
    BY <2>0 DEF Skipped
  <2>2. Advance(Machine(st1, Append(tk, f)), Op("ELSE"), tx, q) = Machine(st1, Append(tk, t))
    BY <2>0, ElseRuns
  <2> QED
    BY <2>0, <2>1, <2>2
<1>4. ASSUME NEW st2, Goes(b, st1, tx, q, st2)
      PROVE  Goes(If(a, b), st, tx, q, st2)
  <2> SUFFICES ASSUME NEW tk \in Taken
               PROVE  Run(Machine(st, tk), If(a, b), tx, q) = Machine(st2, tk)
    BY DEF Goes
  <2>1. Run(Machine(st1, Append(tk, t)), b, tx, q) = Machine(st2, Append(tk, t))
    BY <1>3, <1>4 DEF Goes
  <2>2. Advance(Machine(st2, Append(tk, t)), Op("ENDIF"), tx, q) = Machine(st2, tk)
    BY <1>3, EndifRuns
  <2> QED
    BY <1>2, <1>3, <2>1, <2>2, RunIf
<1>5. ASSUME Breaks(b, st1, tx, q)
      PROVE  Breaks(If(a, b), st, tx, q)
  <2> SUFFICES ASSUME NEW tk \in Taken
               PROVE  Run(Machine(st, tk), If(a, b), tx, q).ok = FALSE
    BY DEF Breaks
  <2>1. PICK m : m = Run(Machine(st1, Append(tk, t)), b, tx, q)
    OBVIOUS
  <2>2. m.ok = FALSE
    BY <1>3, <1>5, <2>1 DEF Breaks
  <2>3. Advance(m, Op("ENDIF"), tx, q) = m
    BY <2>2, Zenon DEF Advance
  <2>5. Run(Machine(st, tk), If(a, b), tx, q) = m
    BY <1>2, <1>3, <2>1, <2>3, RunIf
  <2> QED
    BY <2>2, <2>5
<1> QED
  BY <1>4, <1>5

(* A branch without a flag fails.                                          *)
LEMMA IfEmpty ==
    ASSUME NEW a, IsScript(a), NEW b, IsScript(b), NEW tx, NEW q
    PROVE  Breaks(If(a, b), <<>>, tx, q)
<1> SUFFICES ASSUME NEW tk \in Taken
             PROVE  Run(Machine(<<>>, tk), If(a, b), tx, q).ok = FALSE
  BY DEF Breaks
<1>1. PICK m : m = Fails(Machine(<<>>, tk))
  OBVIOUS
<1>2. m.ok = FALSE
  BY <1>1 DEF Fails, Machine
<1>3. /\ Advance(Machine(<<>>, tk), Op("IF"), tx, q) = m
      /\ Advance(m, Op("ELSE"), tx, q) = m /\ Advance(m, Op("ENDIF"), tx, q) = m
  <2>1. Advance(m, Op("ELSE"), tx, q) = m /\ Advance(m, Op("ENDIF"), tx, q) = m
    BY <1>2, Zenon DEF Advance
  <2> QED
    BY <1>1, <2>1, IfFails
<1>4. Run(m, a, tx, q) = m /\ Run(m, b, tx, q) = m
  <2>1. Failed(m)
    BY <1>2 DEF Failed
  <2> QED
    BY <2>1, RunStuck
<1>5. Run(Machine(<<>>, tk), If(a, b), tx, q) = m
  BY <1>3, <1>4, RunIf
<1> QED
  BY <1>2, <1>5

(* What is left after a pop is what lay below.                             *)
LEMMA Popped ==
    ASSUME NEW S, NEW s \in Seq(S), NEW k \in 0..Len(s)
    PROVE  /\ Pop(s, k) \in Seq(S) /\ Len(Pop(s, k)) = Len(s) - k
           /\ \A i \in 1..(Len(s) - k) : Pop(s, k)[i] = s[i]
<1>0. PICK n : n = Len(s)
  OBVIOUS
<1>1. n \in Nat /\ k \in 0..n /\ n - k \in 0..n
  BY <1>0, LenProperties
<1>2. \A i \in 1..n : s[i] \in S
  BY <1>0, ElementOfSeq
<1>3. \A i \in 1..(n - k) : s[i] \in S
  BY <1>1, <1>2
<1>4. /\ SubSeq(s, 1, n - k) \in Seq(S)
      /\ Len(SubSeq(s, 1, n - k)) = IF 1 <= n - k THEN n - k - 1 + 1 ELSE 0
      /\ \A i \in 1..(n - k - 1 + 1) : SubSeq(s, 1, n - k)[i] = s[1 + i - 1]
  <2>1. 1 \in Int /\ n - k \in Int
    BY <1>1
  <2> QED
    BY <1>3, <2>1, SubSeqProperties
<1>5. PICK v : v = SubSeq(s, 1, n - k)
  OBVIOUS
<1>6. v \in Seq(S) /\ Len(v) = n - k /\ \A i \in 1..(n - k) : v[i] = s[i]
  BY <1>1, <1>4, <1>5
<1>7. Pop(s, k) = v
  BY <1>0, <1>5 DEF Pop
<1> QED
  BY <1>0, <1>6, <1>7

(* One value less is a stack.                                              *)
LEMMA PopStack == ASSUME NEW st \in Stacks, st # <<>> PROVE Pop(st, 1) \in Stacks /\ Len(Pop(st, 1)) = Len(st) - 1
<1>1. 1 \in 0..Len(st)
  BY EmptySeq DEF Stacks
<1> QED
  BY <1>1, Popped DEF Stacks

(* An If is a block, and who opens it opens one of its branches.           *)
LEMMA IfOpens ==
    ASSUME NEW a, Block(a), NEW b, Block(b)
    PROVE  /\ Block(If(a, b))
           /\ \A st \in Stacks : \A tx, q :
                Unlocks(st, If(a, b), tx, q) <=>
                  /\ st # <<>>
                  /\ IF Truthy(Top(st, 0)) THEN Unlocks(Pop(st, 1), a, tx, q)
                                           ELSE Unlocks(Pop(st, 1), b, tx, q)
<1>1. IsScript(If(a, b)) /\ Skipped(If(a, b))
  BY RunIf, IfSkipped DEF Block
<1>2. ASSUME NEW st \in Stacks, NEW tx, NEW q
      PROVE  /\ Breaks(If(a, b), st, tx, q) \/ \E st2 : Goes(If(a, b), st, tx, q, st2)
             /\ Unlocks(st, If(a, b), tx, q) <=>
                  /\ st # <<>>
                  /\ IF Truthy(Top(st, 0)) THEN Unlocks(Pop(st, 1), a, tx, q)
                                           ELSE Unlocks(Pop(st, 1), b, tx, q)
  <2>1. CASE st = <<>>
    BY <2>1, IfEmpty, BreaksOpens DEF Block
  <2>2. CASE st # <<>> /\ Truthy(Top(st, 0))
    <3>0. PICK st1 : st1 = Pop(st, 1)
      OBVIOUS
    <3>1. st1 \in Stacks
      BY <2>2, <3>0, PopStack
    <3>2. CASE Breaks(a, st1, tx, q)
      <4>1. Breaks(If(a, b), st, tx, q)
        BY <2>2, <3>0, <3>2, IfTakes DEF Block
      <4> QED
        BY <2>2, <3>0, <3>2, <4>1, BreaksOpens
    <3>3. CASE \E st2 : Goes(a, st1, tx, q, st2)
      <4>1. PICK st2 : Goes(a, st1, tx, q, st2)
        BY <3>3
      <4>2. Goes(If(a, b), st, tx, q, st2)
        BY <2>2, <3>0, <4>1, IfTakes DEF Block
      <4>3. Unlocks(st, If(a, b), tx, q) <=> Unlocks(st1, a, tx, q)
        BY <4>1, <4>2, GoesOpens
      <4> QED
        BY <2>2, <3>0, <4>2, <4>3
    <3> QED
      BY <3>1, <3>2, <3>3 DEF Block
  <2>3. CASE st # <<>> /\ ~ Truthy(Top(st, 0))
    <3>0. PICK st1 : st1 = Pop(st, 1)
      OBVIOUS
    <3>1. st1 \in Stacks
      BY <2>3, <3>0, PopStack
    <3>2. CASE Breaks(b, st1, tx, q)
      <4>1. Breaks(If(a, b), st, tx, q)
        BY <2>3, <3>0, <3>2, IfElse DEF Block
      <4> QED
        BY <2>3, <3>0, <3>2, <4>1, BreaksOpens
    <3>3. CASE \E st2 : Goes(b, st1, tx, q, st2)
      <4>1. PICK st2 : Goes(b, st1, tx, q, st2)
        BY <3>3
      <4>2. Goes(If(a, b), st, tx, q, st2)
        BY <2>3, <3>0, <4>1, IfElse DEF Block
      <4>3. Unlocks(st, If(a, b), tx, q) <=> Unlocks(st1, b, tx, q)
        BY <4>1, <4>2, GoesOpens
      <4> QED
        BY <2>3, <3>0, <4>2, <4>3
    <3> QED
      BY <3>1, <3>2, <3>3 DEF Block
  <2> QED
    BY <2>1, <2>2, <2>3
<1> QED
  BY <1>1, <1>2 DEF Block

-----------------------------------------------------------------------------
(* Signatures and time checks                                              *)

(* Two scripts without branches have none together.                        *)
LEMMA PlainJoined ==
    ASSUME NEW s, Plain(s), NEW t, Plain(t), NEW c, Joins(c, s, t)
    PROVE  Plain(c)
<1>1. s \in Seq(Steps) /\ t \in Seq(Steps) /\ c = s \o t
  BY DEF Plain, IsScript, Joins
<1>2. c \in Seq(Steps) /\ \A i \in DOMAIN c : (\E j \in DOMAIN s : c[i] = s[j]) \/ (\E j \in DOMAIN t : c[i] = t[j])
  BY <1>1
<1> QED
  BY <1>2, Zenon DEF Plain, IsScript

(* Nor has one step that is none.                                          *)
LEMMA PlainOne ==
    ASSUME NEW x \in Steps, x.op \notin Branching
    PROVE  Plain(<<x>>)
BY DEF Plain, IsScript

(* Whether a check passed is a value that is true when it did.             *)
LEMMA BoolTruthy ==
    ASSUME NEW b \in BOOLEAN
    PROVE  Bool(b) \in Steps /\ (Truthy(Bool(b)) <=> b)
<1>1. TRUE1 \in Steps /\ FALSE0 \in Steps /\ Truthy(TRUE1) /\ ~ Truthy(FALSE0)
  BY DEF TRUE1, FALSE0, Num, Datum, Truthy, Steps, Operations, Types, Names
<1>2. CASE b
  <2>1. Bool(b) = TRUE1
    BY <1>2, Zenon DEF Bool
  <2> QED
    BY <1>1, <1>2, <2>1, Zenon
<1>3. CASE ~ b
  <2>1. Bool(b) = FALSE0
    BY <1>3, Zenon DEF Bool
  <2> QED
    BY <1>1, <1>3, <2>1, Zenon
<1> QED
  BY <1>2, <1>3, Zenon

(* A step is a script.                                                     *)
LEMMA OneGoes ==
    ASSUME NEW x \in Steps, NEW st, NEW tx, NEW q, NEW st2,
           \A tk \in Taken : Advance(Machine(st, tk), x, tx, q) = Machine(st2, tk)
    PROVE  Goes(<<x>>, st, tx, q, st2)
BY RunOne DEF Goes

(* A step that always fails is a script that does.                         *)
LEMMA OneBreaks ==
    ASSUME NEW x \in Steps, NEW st, NEW tx, NEW q,
           \A tk \in Taken : Advance(Machine(st, tk), x, tx, q) = Fails(Machine(st, tk))
    PROVE  Breaks(<<x>>, st, tx, q)
<1>1. \A tk \in Taken : Fails(Machine(st, tk)).ok = FALSE
  BY DEF Fails, Machine
<1> QED
  BY <1>1, RunOne DEF Breaks

(* A push leaves what it pushes on top.                                    *)
LEMMA PushGoes ==
    ASSUME NEW x \in Steps, x.op = "push", NEW st \in Stacks, NEW tx, NEW q
    PROVE  Goes(<<x>>, st, tx, q, Append(st, x)) /\ Append(st, x) \in Stacks
<1>1. \A tk \in Taken : Advance(Machine(st, tk), x, tx, q) = Machine(Append(st, x), tk)
  BY PushRuns
<1>2. Goes(<<x>>, st, tx, q, Append(st, x))
  BY <1>1, OneGoes
<1> QED
  BY <1>2 DEF Stacks

(* One signature.                                                          *)
Signs(st, who) == Len(st) = 1 /\ IsSig(st[1], who)

(* A key and CHECKSIG leave true if its signature was on top.              *)
LEMMA ChecksigGoes ==
    ASSUME NEW st \in Stacks, st # <<>>, NEW k \in Steps, NEW tx, NEW q, NEW w, w = Append(st, k)
    PROVE  \E st2 : /\ Goes(<<Op("CHECKSIG")>>, w, tx, q, st2)
                    /\ Len(st2) = 1 /\ Truthy(Top(st2, 0)) <=> Signs(st, k.of)
<1>0. PICK n : n = Len(st)
  OBVIOUS
<1>1. n \in Nat /\ n >= 1 /\ Len(w) = n + 1 /\ w[n + 1] = k /\ w[n] = st[n] /\ w \in Stacks
  BY <1>0 DEF Stacks
<1>2. Top(w, 0) = k /\ Top(w, 1) = st[n]
  BY <1>1 DEF Top
<1>3. PICK b : b = IsSig(st[n], k.of)
  OBVIOUS
<1>4. b \in BOOLEAN
  BY <1>3 DEF IsSig
<1>5. PICK p : p = Pop(w, 2)
  OBVIOUS
<1>6. p \in Stacks /\ Len(p) = n - 1
  <2>1. 2 \in 0..Len(w)
    BY <1>1
  <2>2. w \in Seq(Steps)
    BY <1>1 DEF Stacks
  <2>3. Pop(w, 2) \in Seq(Steps) /\ Len(Pop(w, 2)) = Len(w) - 2
    BY <2>1, <2>2, Popped
  <2> QED
    BY <1>1, <1>5, <2>3 DEF Stacks
<1>7. PICK d : d = Bool(b)
  OBVIOUS
<1>8. d \in Steps /\ (Truthy(d) <=> b)
  BY <1>4, <1>7, BoolTruthy
<1>9. PICK st2 : st2 = p \o <<d>>
  OBVIOUS
<1>10. Goes(<<Op("CHECKSIG")>>, w, tx, q, st2)
  <2>0. Len(w) >= 2
    BY <1>1
  <2>1. Verdict(d, w)
    BY <1>2, <1>3, <1>7, <2>0, Zenon DEF Verdict
  <2>2. w \in Stacks
    BY <1>1
  <2>3. \A tk \in Taken : Advance(Machine(w, tk), Op("CHECKSIG"), tx, q) = Machine(st2, tk)
    <3> TAKE tk \in Taken
    <3>1. Advance(Machine(w, tk), Op("CHECKSIG"), tx, q) = Machine(Pop(w, 2) \o <<d>>, tk)
      BY <2>1, <2>2, ChecksigRuns
    <3> QED
      BY <3>1, <1>5, <1>9, Zenon
  <2>4. Op("CHECKSIG") \in Steps
    BY OpStep DEF Operations
  <2> QED
    BY <2>3, <2>4, OneGoes
<1>11. Len(st2) = n /\ Top(st2, 0) = d
  BY <1>1, <1>6, <1>8, <1>9 DEF Top, Stacks
<1>12. Len(st2) = 1 /\ Truthy(Top(st2, 0)) <=> n = 1 /\ IsSig(st[n], k.of)
  BY <1>3, <1>8, <1>11, Zenon
<1> QED
  BY <1>0, <1>10, <1>12 DEF Signs

(* Signed opens to one value, the signature of its key.                    *)
LEMMA SignedOpens ==
    ASSUME NEW who \in Names
    PROVE  /\ Block(Signed(who))
           /\ \A st \in Stacks : \A tx, q : Unlocks(st, Signed(who), tx, q) <=> Signs(st, who)
<1>0. "CHECKSIG" \in Operations /\ "blocks" \in Units /\ 0 \in Nat
  BY DEF Operations, Units
<1>1. PICK k, o : k = Key(who) /\ o = Op("CHECKSIG")
  OBVIOUS
<1>2. k \in Steps /\ o \in Steps /\ k.op = "push" /\ o.op = "CHECKSIG" /\ k.of = who
  BY <1>0, <1>1, DataSteps, OpStep
<1>3. PICK a, b, s : a = <<k>> /\ b = <<o>> /\ s = Signed(who)
  OBVIOUS
<1>4. Joins(s, a, b)
  BY <1>1, <1>3 DEF Signed, Joins
<1>5. Plain(a) /\ Plain(b)
  BY <1>2, <1>3, PlainOne DEF Branching
<1>6. Plain(s) /\ IsScript(s) /\ IsScript(a) /\ IsScript(b)
  BY <1>4, <1>5, PlainJoined DEF Plain
<1>7. ASSUME NEW st \in Stacks, NEW tx, NEW q
      PROVE  /\ Breaks(s, st, tx, q) \/ \E st2 : Goes(s, st, tx, q, st2)
             /\ Unlocks(st, s, tx, q) <=> Signs(st, who)
  <2>0. PICK w : w = Append(st, k)
    OBVIOUS
  <2>1. Goes(a, st, tx, q, w) /\ w \in Stacks
    BY <1>2, <1>3, <2>0, PushGoes
  <2>2. CASE st = <<>>
    <3>1. Len(w) < 2
      BY <2>0, <2>2
    <3>2. \A tk \in Taken : Advance(Machine(w, tk), o, tx, q) = Fails(Machine(w, tk))
      BY <1>1, <2>1, <3>1, ChecksigFails
    <3>3. Breaks(b, w, tx, q)
      BY <1>2, <1>3, <3>2, OneBreaks
    <3>4. Breaks(s, st, tx, q)
      BY <1>4, <1>6, <2>1, <3>3, GoesBoth
    <3>5. ~ Signs(st, who)
      BY <2>2 DEF Signs
    <3> QED
      BY <3>4, <3>5, BreaksOpens
  <2>3. CASE st # <<>>
    <3>1. PICK st2 : /\ Goes(b, w, tx, q, st2)
                     /\ Len(st2) = 1 /\ Truthy(Top(st2, 0)) <=> Signs(st, k.of)
      BY <1>1, <1>2, <1>3, <2>0, <2>3, ChecksigGoes
    <3>2. Goes(s, st, tx, q, st2)
      BY <1>4, <1>6, <2>1, <3>1, GoesBoth
    <3>3. Unlocks(st, s, tx, q) <=> Len(st2) = 1 /\ Truthy(Top(st2, 0))
      BY <3>2, GoesOpens
    <3> QED
      BY <1>2, <3>1, <3>2, <3>3
  <2> QED
    BY <2>2, <2>3
<1>8. Block(s)
  BY <1>6, <1>7, PlainSkipped DEF Block
<1> QED
  BY <1>3, <1>7, <1>8

(* A lock, in blocks or time since the beginning or since the coin.        *)
AgeMet(tx, q, d) == tx.version >= 2 /\ q = "relative" /\ tx.relative >= d.n
Met(op, tx, q, d) == IF op = "CLTV" THEN LockMet(tx, q, d) ELSE AgeMet(tx, q, d)

(* A time check passes, or fails, and leaves the stack.                    *)
LEMMA GuardRuns ==
    ASSUME NEW st \in Stacks, NEW tk \in Taken, NEW tx, NEW q, NEW op \in {"CLTV", "CSV"}
    PROVE  Advance(Machine(st, tk), Op(op), tx, q) =
             IF Met(op, tx, q, Top(st, 0)) THEN Machine(st, tk) ELSE Fails(Machine(st, tk))
<1>1. Running(Machine(st, tk))
  BY TakenRuns
<1>2. CASE op = "CLTV"
  BY <1>2, CltvRuns DEF Met
<1>3. CASE op = "CSV"
  BY <1>1, <1>3 DEF Advance, Execute, Machine, Op, Met, AgeMet
<1> QED
  BY <1>2, <1>3

Guarded(op, d, who) == <<d, Op(op), Op("DROP")>> \o Signed(who)

(* Date, check and DROP leave the stack when the check passes.             *)
LEMMA GuardGoes ==
    ASSUME NEW op \in {"CLTV", "CSV"}, NEW d \in Steps, d.op = "push", NEW g, g = <<d, Op(op), Op("DROP")>>
    PROVE  /\ Plain(g)
           /\ \A st \in Stacks : \A tx, q :
                IF Met(op, tx, q, d) THEN Goes(g, st, tx, q, st) ELSE Breaks(g, st, tx, q)
<1>1. PICK o, x : o = Op(op) /\ x = Op("DROP")
  OBVIOUS
<1>2. o \in Steps /\ x \in Steps /\ o.op = op /\ x.op = "DROP"
  <2>1. op \in Operations /\ "DROP" \in Operations
    BY DEF Operations
  <2> QED
    BY <1>1, <2>1, OpStep
<1>3. PICK a, b, c, e : a = <<d>> /\ b = <<o>> /\ c = <<x>> /\ Joins(e, a, b)
  BY DEF Joins
<1>4. Joins(g, e, c)
  BY <1>1, <1>3 DEF Joins
<1>5. Plain(a) /\ Plain(b) /\ Plain(c)
  <2>1. d.op \notin Branching /\ o.op \notin Branching /\ x.op \notin Branching
    BY <1>2 DEF Branching
  <2> QED
    BY <1>2, <1>3, <2>1, PlainOne
<1>6. Plain(e) /\ Plain(g)
  BY <1>3, <1>4, <1>5, PlainJoined
<1>7. IsScript(a) /\ IsScript(b) /\ IsScript(c) /\ IsScript(e)
  BY <1>5, <1>6 DEF Plain
<1>8. ASSUME NEW st \in Stacks, NEW tx, NEW q
      PROVE  IF Met(op, tx, q, d) THEN Goes(g, st, tx, q, st) ELSE Breaks(g, st, tx, q)
  <2>0. PICK w : w = Append(st, d)
    OBVIOUS
  <2>1. Goes(a, st, tx, q, w) /\ w \in Stacks
    BY <1>3, <2>0, PushGoes
  <2>2. Top(w, 0) = d /\ Pop(w, 1) = st /\ w # <<>>
    <3>1. st \in Seq(Steps)
      BY DEF Stacks
    <3>2. w[Len(w)] = d /\ Pop(w, 1) = st /\ Len(w) \in DOMAIN w
      BY <2>0, <3>1, LastAdded
    <3>3. Len(w) = Len(st) + 1 /\ Len(st) \in Nat
      BY <2>0, <3>1
    <3> QED
      BY <3>2, <3>3 DEF Top
  <2>3. CASE Met(op, tx, q, d)
    <3>1. \A tk \in Taken : Advance(Machine(w, tk), o, tx, q) = Machine(w, tk)
      BY <1>1, <2>1, <2>2, <2>3, GuardRuns
    <3>2. Goes(b, w, tx, q, w)
      BY <1>2, <1>3, <3>1, OneGoes
    <3>3. Goes(e, st, tx, q, w)
      BY <1>3, <1>7, <2>1, <3>2, GoesBoth
    <3>4. \A tk \in Taken : Advance(Machine(w, tk), x, tx, q) = Machine(st, tk)
      BY <1>1, <2>1, <2>2, DropRuns
    <3>5. Goes(c, w, tx, q, st)
      BY <1>2, <1>3, <3>4, OneGoes
    <3>6. Goes(g, st, tx, q, st)
      BY <1>4, <1>7, <3>3, <3>5, GoesBoth
    <3> QED
      BY <2>3, <3>6
  <2>4. CASE ~ Met(op, tx, q, d)
    <3>1. \A tk \in Taken : Advance(Machine(w, tk), o, tx, q) = Fails(Machine(w, tk))
      BY <1>1, <2>1, <2>2, <2>4, GuardRuns
    <3>2. Breaks(b, w, tx, q)
      BY <1>2, <1>3, <3>1, OneBreaks
    <3>3. Breaks(e, st, tx, q)
      BY <1>3, <1>7, <2>1, <3>2, GoesBoth
    <3>4. Breaks(g, st, tx, q)
      BY <1>4, <1>7, <3>3, BreaksBoth
    <3> QED
      BY <2>4, <3>4
  <2> QED
    BY <2>3, <2>4
<1> QED
  BY <1>6, <1>8

(* A guarded signature opens when the check passes, to the signature.      *)
LEMMA GuardedOpens ==
    ASSUME NEW op \in {"CLTV", "CSV"}, NEW d \in Steps, d.op = "push", NEW who \in Names
    PROVE  /\ Block(Guarded(op, d, who))
           /\ \A st \in Stacks : \A tx, q :
                Unlocks(st, Guarded(op, d, who), tx, q) <=> Met(op, tx, q, d) /\ Signs(st, who)
<1>1. PICK g, t, s : g = <<d, Op(op), Op("DROP")>> /\ t = Signed(who) /\ s = Guarded(op, d, who)
  OBVIOUS
<1>2. Joins(s, g, t)
  BY <1>1 DEF Joins, Guarded
<1>3. /\ Plain(g)
      /\ \A st \in Stacks : \A tx, q :
           IF Met(op, tx, q, d) THEN Goes(g, st, tx, q, st) ELSE Breaks(g, st, tx, q)
  BY <1>1, GuardGoes
<1>4. Block(t) /\ \A st \in Stacks : \A tx, q : Unlocks(st, t, tx, q) <=> Signs(st, who)
  BY <1>1, SignedOpens
<1>5. IsScript(g) /\ IsScript(t) /\ IsScript(s)
  BY <1>2, <1>3, <1>4, RunJoined DEF Plain, Block
<1>6. Skipped(s)
  <2>1. Skipped(g) /\ Skipped(t)
    BY <1>3, <1>4, PlainSkipped DEF Block
  <2>2. \A m, tx, q : Run(m, s, tx, q) = Run(Run(m, g, tx, q), t, tx, q)
    BY <1>2, <1>5, RunJoined
  <2> QED
    BY <2>1, <2>2 DEF Skipped
<1>7. ASSUME NEW st \in Stacks, NEW tx, NEW q
      PROVE  /\ Breaks(s, st, tx, q) \/ \E st2 : Goes(s, st, tx, q, st2)
             /\ Unlocks(st, s, tx, q) <=> Met(op, tx, q, d) /\ Signs(st, who)
  <2>1. CASE ~ Met(op, tx, q, d)
    <3>1. Breaks(s, st, tx, q)
      BY <1>2, <1>3, <1>5, <2>1, BreaksBoth
    <3> QED
      BY <2>1, <3>1, BreaksOpens
  <2>2. CASE Met(op, tx, q, d)
    <3>1. Goes(g, st, tx, q, st)
      BY <1>3, <2>2
    <3>2. /\ \A st2 : Goes(t, st, tx, q, st2) => Goes(s, st, tx, q, st2)
          /\ Breaks(t, st, tx, q) => Breaks(s, st, tx, q)
      BY <1>2, <1>5, <3>1, GoesBoth
    <3>3. CASE Breaks(t, st, tx, q)
      BY <1>4, <3>2, <3>3, BreaksOpens
    <3>4. CASE \E st2 : Goes(t, st, tx, q, st2)
      <4>1. PICK st2 : Goes(t, st, tx, q, st2)
        BY <3>4
      <4>2. Goes(s, st, tx, q, st2)
        BY <3>2, <4>1
      <4>3. Unlocks(st, s, tx, q) <=> Unlocks(st, t, tx, q)
        BY <4>1, <4>2, GoesOpens
      <4> QED
        BY <1>4, <2>2, <4>2, <4>3
    <3> QED
      BY <1>4, <3>3, <3>4 DEF Block
  <2> QED
    BY <2>1, <2>2
<1> QED
  BY <1>1, <1>5, <1>6, <1>7 DEF Block

-----------------------------------------------------------------------------
(* Signatures of several keys                                              *)

Pushes(s) == IsScript(s) /\ \A i \in DOMAIN s : s[i].op = "push"

(* A script of pushes is one before its last step.                         *)
LEMMA PushesSplit ==
    ASSUME NEW u, NEW v, NEW x, Pushes(u), IsScript(v), Extends(u, v, x)
    PROVE  Pushes(v) /\ x \in Steps /\ x.op = "push"
<1>1. v \in Seq(Steps) /\ x \in Steps /\ u = Append(v, x)
  BY DEF IsScript, Extends
<1>2. \A i \in DOMAIN v : i \in DOMAIN u /\ u[i] = v[i]
  BY <1>1
<1>3. Len(v) + 1 \in DOMAIN u /\ u[Len(v) + 1] = x
  BY <1>1
<1> QED
  BY <1>1, <1>2, <1>3, Zenon DEF Pushes

(* Data end on the stack, in their order.                                  *)
LEMMA PushesGo ==
    ASSUME NEW s, Pushes(s), NEW st \in Stacks, NEW tx, NEW q, NEW st2, Joins(st2, st, s)
    PROVE  Goes(s, st, tx, q, st2)
<1> SUFFICES ASSUME NEW tk \in Taken PROVE Run(Machine(st, tk), s, tx, q) = Machine(st2, tk)
  BY DEF Goes
<1> DEFINE Bad == {n \in Nat : \E u, w : /\ Pushes(u) /\ Len(u) = n /\ Joins(w, st, u)
                                         /\ Run(Machine(st, tk), u, tx, q) # Machine(w, tk)}
<1> SUFFICES ASSUME Run(Machine(st, tk), s, tx, q) # Machine(st2, tk) PROVE FALSE
  OBVIOUS
<1>0. Len(s) \in Bad
  <2>1. Len(s) \in Nat
    BY DEF Pushes, IsScript
  <2> QED
    BY <2>1
<1>1. PICK n \in Bad : \A j \in Bad : n <= j
  <2>1. Bad \in SUBSET Nat /\ Bad # {}
    BY <1>0
  <2> HIDE DEF Bad
  <2> QED
    BY <2>1, LeastExists
<1>2. PICK u, w : /\ Pushes(u) /\ Len(u) = n /\ Joins(w, st, u)
                  /\ Run(Machine(st, tk), u, tx, q) # Machine(w, tk)
  BY <1>1
<1>3. u # <<>> /\ IsScript(u)
  <2>1. Joins(st, st, <<>>)
    BY DEF Joins, Stacks
  <2>2. CASE u = <<>>
    <3>1. w = st
      BY <1>2, <2>1, <2>2 DEF Joins
    <3> QED
      BY <1>2, <2>2, <3>1, RunNothing
  <2> QED
    BY <1>2, <2>2 DEF Pushes
<1>4. PICK v, x : IsScript(v) /\ Extends(u, v, x) /\ Len(v) = n - 1 /\ n - 1 \in Nat
  BY <1>2, <1>3, LastStep
<1>5. Pushes(v) /\ x \in Steps /\ x.op = "push"
  BY <1>2, <1>4, PushesSplit
<1>6. PICK y : Joins(y, st, v)
  BY DEF Joins
<1>7. Run(Machine(st, tk), v, tx, q) = Machine(y, tk)
  BY <1>1, <1>4, <1>5, <1>6
<1>8. y \in Stacks /\ w = Append(y, x)
  BY SMTT(60), <1>2, <1>4, <1>6 DEF Joins, Extends, IsScript, Stacks
<1>9. Run(Machine(st, tk), u, tx, q) = Advance(Machine(y, tk), x, tx, q)
  BY <1>4, <1>7, RunAppend
<1>10. Advance(Machine(y, tk), x, tx, q) = Machine(w, tk)
  BY <1>5, <1>8, PushRuns
<1> QED
  BY <1>2, <1>9, <1>10

(* All of the signatures, in the order of the keys, and the superfluous    *)
(* item under them.                                                        *)
AllSign(st, who) == Len(st) = Len(who) + 1 /\ \A i \in DOMAIN who : IsSig(st[i + 1], who[i])

(* The stack before a CHECKMULTISIG with n keys: what was there, the       *)
(* number, the keys and the number again.                                  *)
Laid(w, st, who, n) ==
    /\ w \in Stacks /\ st \in Stacks /\ n = Len(who) /\ n \in Nat
    /\ Len(w) = Len(st) + n + 2
    /\ \A i \in 1..Len(st) : w[i] = st[i]
    /\ w[Len(st) + 1] = Num(n)
    /\ \A i \in 1..n : w[Len(st) + 1 + i] = Key(who[i])
    /\ w[Len(st) + n + 2] = Num(n)

(* Where CHECKMULTISIG finds its two counts.                               *)
LEMMA LaidTop ==
    ASSUME NEW w, NEW st, NEW who, NEW n, Laid(w, st, who, n)
    PROVE  Top(w, 0).n = n /\ Top(w, n + 1).n = n
<1>1. Top(w, 0) = Num(n) /\ Top(w, n + 1) = Num(n)
  BY DEF Laid, Top, Stacks
<1>2. Num(n).n = n
  BY DEF Num, Datum
<1> QED
  BY <1>1, <1>2

(* CHECKMULTISIG fails with fewer values than keys.                        *)
LEMMA MultisigFails ==
    ASSUME NEW w, NEW st, NEW who, NEW n, Laid(w, st, who, n), Len(st) < n + 1, NEW tk
    PROVE  CheckMultisig(Machine(w, tk)) = Fails(Machine(w, tk))
<1>1. Top(w, 0).n = n /\ Top(w, n + 1).n = n
  BY LaidTop
<1>2. Len(w) < n + n + 3
  BY DEF Laid, Stacks
<1>3. Machine(w, tk).stack = w
  BY DEF Machine
<1> QED
  BY <1>1, <1>2, <1>3 DEF CheckMultisig

Restack(m, s) == [m EXCEPT !.stack = s]

(* A machine with another stack.                                           *)
LEMMA StackChanged ==
    ASSUME NEW w, NEW v, NEW tk, NEW o
    PROVE  Restack([stack |-> w, taking |-> tk, ok |-> o], v) = [stack |-> v, taking |-> tk, ok |-> o]
<1> DEFINE a == [stack |-> w, taking |-> tk, ok |-> o]
           b == [a EXCEPT !.stack = v]
<1>1. DOMAIN b = {"stack", "taking", "ok"}
  OBVIOUS
<1>2. b.stack = v
  OBVIOUS
<1>3. b.taking = tk
  OBVIOUS
<1>4. b.ok = o
  OBVIOUS
<1>5. b = [x \in {"stack", "taking", "ok"} |-> b[x]]
  OBVIOUS
<1>6. b = [stack |-> v, taking |-> tk, ok |-> o]
  BY <1>1, <1>2, <1>3, <1>4, <1>5
<1> QED
  BY <1>6 DEF Restack

(* The same, of a machine that has not failed.                             *)
LEMMA Restacked ==
    ASSUME NEW w, NEW v, NEW tk
    PROVE  Restack(Machine(w, tk), v) = Machine(v, tk)
<1>1. PICK o : o = TRUE
  OBVIOUS
<1>2. Machine(w, tk) = [stack |-> w, taking |-> tk, ok |-> o]
  BY <1>1, Zenon DEF Machine
<1>3. Machine(v, tk) = [stack |-> v, taking |-> tk, ok |-> o]
  BY <1>1, Zenon DEF Machine
<1>4. Restack([stack |-> w, taking |-> tk, ok |-> o], v) = [stack |-> v, taking |-> tk, ok |-> o]
  BY StackChanged
<1> QED
  BY <1>2, <1>3, <1>4, Zenon

(* CHECKMULTISIG leaves true on the signatures of all the keys in their    *)
(* order, above one value.                                                 *)
LEMMA MultisigGoes ==
    ASSUME NEW w, NEW st, NEW who, NEW n, Laid(w, st, who, n), Len(st) >= n + 1
    PROVE  \E st2 : /\ \A tk : CheckMultisig(Machine(w, tk)) = Machine(st2, tk)
                    /\ Len(st2) = 1 /\ Truthy(Top(st2, 0)) <=> AllSign(st, who)
<1>0. PICK l : l = Len(st)
  OBVIOUS
<1>1. l \in Nat /\ n \in Nat /\ l >= n + 1 /\ Len(w) = l + n + 2 /\ w \in Seq(Steps)
  BY <1>0 DEF Laid, Stacks
<1>2. Top(w, 0).n = n /\ Top(w, n + 1).n = n
  BY LaidTop
<1>3. PICK keys, sigs : keys = SubSeq(w, l + 2, l + n + 1) /\ sigs = SubSeq(w, l - n + 1, l)
  OBVIOUS
<1>4. Len(keys) = n /\ DOMAIN keys = 1..n /\ \A i \in 1..n : keys[i] = w[l + 1 + i]
  <2>0. PICK x \in Int : x = l + 2
    BY <1>1
  <2>5. PICK z \in Int : z = l + n + 1
    BY <1>1
  <2>1. \A i \in x..z : w[i] \in Steps
    BY <1>1, <2>0, <2>5
  <2>2. /\ SubSeq(w, x, z) \in Seq(Steps)
        /\ Len(SubSeq(w, x, z)) = IF x <= z THEN z - x + 1 ELSE 0
        /\ \A i \in 1..(z - x + 1) : SubSeq(w, x, z)[i] = w[x + i - 1]
    BY <2>1, SubSeqProperties
  <2>3. /\ keys \in Seq(Steps)
        /\ Len(keys) = IF x <= z THEN z - x + 1 ELSE 0
        /\ \A i \in 1..(z - x + 1) : keys[i] = w[x + i - 1]
    BY <1>3, <2>0, <2>2, <2>5
  <2>4. Len(keys) = n /\ \A i \in 1..n : keys[i] = w[l + 1 + i]
    BY <1>1, <2>0, <2>3, <2>5
  <2> QED
    BY <2>3, <2>4, LenProperties
<1>5. Len(sigs) = n /\ DOMAIN sigs = 1..n /\ \A i \in 1..n : sigs[i] = w[l - n + i]
  <2>1. l - n + 1 \in Int /\ l \in Int /\ \A i \in (l - n + 1)..l : w[i] \in Steps
    BY <1>1
  <2>2. /\ SubSeq(w, l - n + 1, l) \in Seq(Steps)
        /\ Len(SubSeq(w, l - n + 1, l)) = IF l - n + 1 <= l THEN l - (l - n + 1) + 1 ELSE 0
        /\ \A i \in 1..(l - (l - n + 1) + 1) : SubSeq(w, l - n + 1, l)[i] = w[l - n + 1 + i - 1]
    BY <2>1, SubSeqProperties
  <2>3. /\ sigs \in Seq(Steps)
        /\ Len(sigs) = IF l - n + 1 <= l THEN l - (l - n + 1) + 1 ELSE 0
        /\ \A i \in 1..(l - (l - n + 1) + 1) : sigs[i] = w[l - n + 1 + i - 1]
    BY <1>3, <2>2
  <2>4. Len(sigs) = n /\ \A i \in 1..n : sigs[i] = w[l - n + i]
    BY <1>1, <2>3
  <2> QED
    BY <2>3, <2>4, LenProperties
<1>6. PICK b : b = InOrder(sigs, keys)
  OBVIOUS
<1>7. b \in BOOLEAN
  BY <1>6 DEF InOrder
<1>8. b <=> \A i \in 1..n : IsSig(st[l - n + i], who[i])
  <2>1. \A i \in 1..n : keys[i] = Key(who[i]) /\ sigs[i] = st[l - n + i]
    <3>1. \A i \in 1..n : w[l + 1 + i] = Key(who[i])
      BY <1>0 DEF Laid
    <3>2. \A i \in 1..l : w[i] = st[i]
      BY <1>0 DEF Laid
    <3>3. \A i \in 1..n : l - n + i \in 1..l
      BY <1>1
    <3> QED
      BY <1>4, <1>5, <3>1, <3>2, <3>3
  <2>2. \A i \in 1..n : Key(who[i]).of = who[i]
    BY DEF Key, Datum
  <2> QED
    BY <1>4, <1>5, <1>6, <2>1, <2>2 DEF InOrder, IsSig
<1>9. PICK d : d = Bool(b)
  OBVIOUS
<1>10. d \in Steps /\ (Truthy(d) <=> b)
  BY <1>7, <1>9, BoolTruthy
<1>11. PICK p : p = Pop(w, n + n + 3)
  OBVIOUS
<1>12. p \in Seq(Steps) /\ Len(p) = l - n - 1
  <2>1. n + n + 3 \in 0..Len(w)
    BY <1>1
  <2>2. Pop(w, n + n + 3) \in Seq(Steps) /\ Len(Pop(w, n + n + 3)) = Len(w) - (n + n + 3)
    BY <1>1, <2>1, Popped
  <2> QED
    BY <1>1, <1>11, <2>2
<1>13. PICK st2 : st2 = p \o <<d>>
  OBVIOUS
<1>14. Len(st2) = l - n /\ Top(st2, 0) = d
  BY <1>1, <1>10, <1>12, <1>13 DEF Top
<1>15. ASSUME NEW tk PROVE CheckMultisig(Machine(w, tk)) = Machine(st2, tk)
  <2>1. PICK m : m = Machine(w, tk)
    OBVIOUS
  <2>2. m.stack = w
    BY <2>1 DEF Machine
  <2>3. /\ Len(w) - n = l + 2 /\ Len(w) - 1 = l + n + 1
        /\ Len(w) - n - 1 - n = l - n + 1 /\ Len(w) - n - 2 = l
        /\ ~ (Len(w) < n + 2 \/ Len(w) < n + n + 3)
    BY <1>1
  <2>4. CheckMultisig(m) = [m EXCEPT !.stack = Pop(@, n + n + 3) \o <<Bool(InOrder(sigs, keys))>>]
    BY <1>2, <1>3, <2>2, <2>3 DEF CheckMultisig
  <2>5. Pop(m.stack, n + n + 3) \o <<Bool(InOrder(sigs, keys))>> = st2
    BY <1>6, <1>9, <1>11, <1>13, <2>2, Zenon
  <2>6. CheckMultisig(m) = Restack(m, st2)
    BY <2>4, <2>5, Zenon DEF Restack
  <2> QED
    BY <2>1, <2>6, Restacked
<1>16. Len(st2) = 1 /\ Truthy(Top(st2, 0)) <=> AllSign(st, who)
  <2>1. n = Len(who) /\ (AllSign(st, who) <=> l = n + 1 /\ \A i \in DOMAIN who : IsSig(st[i + 1], who[i]))
    BY <1>0 DEF AllSign, Laid
  <2> QED
    BY <1>1, <1>8, <1>10, <1>14, <2>1
<1> QED
  BY <1>15, <1>16

Data(p, who, n) ==
    n = Len(who) /\ p = <<Num(n)>> \o [i \in DOMAIN who |-> Key(who[i])] \o <<Num(n)>>

(* Two scripts of one step.                                                *)
LEMMA TwoSteps ==
    ASSUME NEW S, NEW a \in S, NEW b \in S
    PROVE  <<a>> \o <<b>> = <<a, b>>
<1>1. PICK v, w : v = <<a>> \o <<b>> /\ w = <<a, b>>
  OBVIOUS
<1>2. w \in Seq(S) /\ Len(w) = 2 /\ w[1] = a /\ w[2] = b
  BY <1>1
<1>3. v \in Seq(S) /\ Len(v) = 2 /\ v[1] = a /\ v[2] = b
  BY <1>1
<1>4. \A i \in 1..2 : v[i] = w[i]
  BY <1>2, <1>3
<1>5. v = w
  BY <1>2, <1>3, <1>4, SeqEqual
<1> QED
  BY <1>1, <1>5

(* A sequence between two values.                                          *)
LEMMA Between ==
    ASSUME NEW S, NEW d \in S, NEW k \in Seq(S), NEW n, n = Len(k), NEW p, p = <<d>> \o k \o <<d>>
    PROVE  /\ p \in Seq(S) /\ Len(p) = n + 2 /\ p[1] = d /\ p[n + 2] = d
           /\ \A i \in 1..n : p[i + 1] = k[i]
<1>1. PICK a, e : a = <<d>> /\ e = a \o k
  OBVIOUS
<1>2. a \in Seq(S) /\ Len(a) = 1 /\ a[1] = d /\ n \in Nat
  BY <1>1
<1>3. e \in Seq(S) /\ Len(e) = 1 + n /\ \A i \in 1..(1 + n) : e[i] = IF i <= 1 THEN a[i] ELSE k[i - 1]
  BY <1>1, <1>2, ConcatProperties
<1>4. p = e \o a
  BY <1>1
<1>5. p \in Seq(S) /\ Len(p) = 1 + n + 1
      /\ \A i \in 1..(1 + n + 1) : p[i] = IF i <= 1 + n THEN e[i] ELSE a[i - (1 + n)]
  BY <1>2, <1>3, <1>4, ConcatProperties
<1>6. \A i \in 1..n : p[i + 1] = k[i]
  <2>1. TAKE i \in 1..n
  <2>2. PICK j : j = i + 1
    OBVIOUS
  <2>3. j \in 1..(1 + n) /\ j \in 1..(1 + n + 1) /\ ~ (j <= 1) /\ j <= 1 + n /\ j - 1 = i
    BY <1>2, <2>2
  <2>4. p[j] = e[j] /\ e[j] = k[j - 1]
    BY <1>3, <1>5, <2>3
  <2> QED
    BY <2>2, <2>3, <2>4
<1>7. p[1] = d
  <2>1. 1 \in 1..(1 + n) /\ 1 \in 1..(1 + n + 1) /\ 1 <= 1 + n
    BY <1>2
  <2> QED
    BY <1>2, <1>3, <1>5, <2>1
<1>8. p[n + 2] = d
  <2>1. n + 2 \in 1..(1 + n + 1) /\ ~ (n + 2 <= 1 + n) /\ n + 2 - (1 + n) = 1
    BY <1>2
  <2> QED
    BY <1>2, <1>5, <2>1
<1> QED
  BY <1>2, <1>5, <1>6, <1>7, <1>8

(* AllOf pushes its keys between their count and calls CHECKMULTISIG.      *)
LEMMA AllOfShape ==
    ASSUME NEW who \in Seq(Names), NEW n, NEW p, Data(p, who, n)
    PROVE  /\ Pushes(p) /\ Joins(AllOf(who), p, <<Op("CHECKMULTISIG")>>)
           /\ n \in Nat /\ Len(p) = n + 2
           /\ p[1] = Num(n) /\ p[n + 2] = Num(n) /\ \A i \in 1..n : p[i + 1] = Key(who[i])
<1>1. n \in Nat /\ DOMAIN who = 1..n /\ \A i \in 1..n : who[i] \in Names
  BY LenProperties, ElementOfSeq DEF Data
<1>2. PICK d, c : d = Num(n) /\ c = Op("CHECKMULTISIG")
  OBVIOUS
<1>3. d \in Steps /\ d.op = "push" /\ c \in Steps
  <2>1. "nobody" \in Names /\ "blocks" \in Units /\ "CHECKMULTISIG" \in Operations
    BY DEF Names, Units, Operations
  <2> QED
    BY <1>1, <1>2, <2>1, DataSteps, OpStep
<1>4. \A i \in 1..n : Key(who[i]) \in Steps /\ Key(who[i]).op = "push"
  <2>1. "blocks" \in Units /\ 0 \in Nat
    BY DEF Units
  <2> QED
    BY <1>1, <2>1, DataSteps
<1>5. PICK k : k = [i \in DOMAIN who |-> Key(who[i])]
  OBVIOUS
<1>6. k \in Seq(Steps) /\ Len(k) = n /\ \A i \in 1..n : k[i] = Key(who[i])
  <2>1. k \in [1..n -> Steps] /\ \A i \in 1..n : k[i] = Key(who[i])
    BY <1>1, <1>4, <1>5
  <2>2. k \in Seq(Steps)
    BY <1>1, <2>1, SeqDef
  <2> QED
    BY <1>1, <2>1, <2>2
<1>7. p = <<d>> \o k \o <<d>>
  BY <1>2, <1>5 DEF Data
<1>8. /\ p \in Seq(Steps) /\ Len(p) = n + 2 /\ p[1] = d /\ p[n + 2] = d
      /\ \A i \in 1..n : p[i + 1] = k[i]
  BY <1>3, <1>6, <1>7, Between
<1>9. \A i \in DOMAIN p : p[i].op = "push"
  <2>1. TAKE i \in DOMAIN p
  <2>2. i \in 1..(n + 2)
    BY <1>8
  <2>3. CASE i = 1 \/ i = n + 2
    BY <1>3, <1>8, <2>3
  <2>4. CASE i # 1 /\ i # n + 2
    <3>1. i - 1 \in 1..n /\ i = (i - 1) + 1
      BY <1>1, <2>2, <2>4
    <3>2. p[i] = Key(who[i - 1])
      BY <1>6, <1>8, <3>1
    <3> QED
      BY <1>4, <3>1, <3>2
  <2> QED
    BY <2>3, <2>4
<1>10. Joins(AllOf(who), p, <<c>>)
  <2>1. AllOf(who) = <<d>> \o k \o <<d, c>>
    BY <1>2, <1>5 DEF AllOf, Data
  <2>2. PICK e : e = <<d>> \o k
    OBVIOUS
  <2>3. e \in Seq(Steps) /\ <<d>> \in Seq(Steps) /\ <<c>> \in Seq(Steps)
    BY <1>3, <1>6, <2>2
  <2>4. (e \o <<d>>) \o <<c>> = e \o (<<d>> \o <<c>>)
    BY <2>3, ConcatAssociative
  <2>5. <<d>> \o <<c>> = <<d, c>>
    BY <1>3, TwoSteps
  <2> QED
    BY <1>7, <2>1, <2>2, <2>4, <2>5 DEF Joins
<1> QED
  BY <1>1, <1>2, <1>6, <1>8, <1>9, <1>10 DEF Pushes, IsScript

(* Pushes are no branches.                                                 *)
LEMMA PushesPlain == ASSUME NEW s, Pushes(s) PROVE Plain(s)
BY DEF Pushes, Plain, Branching

(* AllOf opens to the signatures of its keys in their order.               *)
LEMMA AllOfOpens ==
    ASSUME NEW who \in Seq(Names)
    PROVE  /\ Block(AllOf(who))
           /\ \A st \in Stacks : \A tx, q : Unlocks(st, AllOf(who), tx, q) <=> AllSign(st, who)
<1>1. PICK n : n = Len(who)
  OBVIOUS
<1>2. PICK p : Data(p, who, n)
  BY <1>1 DEF Data
<1>3. PICK o, b, s : o = Op("CHECKMULTISIG") /\ b = <<o>> /\ s = AllOf(who)
  OBVIOUS
<1>4. /\ Pushes(p) /\ Joins(s, p, b)
      /\ n \in Nat /\ Len(p) = n + 2
      /\ p[1] = Num(n) /\ p[n + 2] = Num(n) /\ \A i \in 1..n : p[i + 1] = Key(who[i])
  BY SMTT(60), <1>1, <1>2, <1>3, AllOfShape
<1>5. o \in Steps /\ o.op = "CHECKMULTISIG"
  BY <1>3, OpStep DEF Operations
<1>6. Plain(p) /\ Plain(b)
  BY <1>3, <1>4, <1>5, PushesPlain, PlainOne DEF Branching
<1>7. Plain(s) /\ IsScript(s) /\ IsScript(p) /\ IsScript(b)
  BY <1>4, <1>6, PlainJoined DEF Plain
<1>8. ASSUME NEW st \in Stacks, NEW tx, NEW q
      PROVE  /\ Breaks(s, st, tx, q) \/ \E st2 : Goes(s, st, tx, q, st2)
             /\ Unlocks(st, s, tx, q) <=> AllSign(st, who)
  <2>0. PICK w : Joins(w, st, p)
    BY DEF Joins
  <2>1. Goes(p, st, tx, q, w)
    BY <1>4, <2>0, PushesGo
  <2>2. Laid(w, st, who, n)
    <3>1. st \in Seq(Steps) /\ p \in Seq(Steps) /\ w = st \o p
      BY <1>7, <2>0 DEF Stacks, IsScript, Joins
    <3>2. PICK l : l = Len(st)
      OBVIOUS
    <3>3. l \in Nat /\ w \in Seq(Steps) /\ Len(w) = l + n + 2
      BY <1>4, <3>1, <3>2
    <3>4. \A i \in 1..(l + (n + 2)) : w[i] = IF i <= l THEN st[i] ELSE p[i - l]
      BY SMTT(60), <1>4, <3>1, <3>2, ConcatProperties
    <3>5. \A i \in 1..l : w[i] = st[i]
      BY <1>4, <3>3, <3>4
    <3>6. \A i \in 1..(n + 2) : w[l + i] = p[i]
      <4>1. TAKE i \in 1..(n + 2)
      <4>2. PICK j : j = l + i
        OBVIOUS
      <4>3. j \in 1..(l + (n + 2)) /\ ~ (j <= l) /\ j - l = i
        BY <1>4, <3>3, <4>2
      <4>4. w[j] = p[j - l]
        BY <3>4, <4>3
      <4> QED
        BY <4>2, <4>3, <4>4
    <3>7. w[l + 1] = Num(n) /\ w[l + n + 2] = Num(n)
      <4>1. 1 \in 1..(n + 2) /\ n + 2 \in 1..(n + 2) /\ l + (n + 2) = l + n + 2
        BY <1>4, <3>3
      <4> QED
        BY <1>4, <3>6, <4>1
    <3>8. \A i \in 1..n : w[l + 1 + i] = Key(who[i])
      <4>1. TAKE i \in 1..n
      <4>2. i + 1 \in 1..(n + 2) /\ l + (i + 1) = l + 1 + i
        BY <1>4, <3>3
      <4> QED
        BY <1>4, <3>6, <4>2
    <3> QED
      BY <1>1, <1>4, <3>2, <3>3, <3>5, <3>7, <3>8 DEF Laid, Stacks
  <2>3. w \in Stacks /\ Len(st) \in Nat
    BY <2>2 DEF Laid, Stacks
  <2>4. \A tk \in Taken : Advance(Machine(w, tk), o, tx, q) = CheckMultisig(Machine(w, tk))
    BY <1>3, <2>3, MultisigRuns
  <2>5. CASE Len(st) < n + 1
    <3>1. \A tk \in Taken : Advance(Machine(w, tk), o, tx, q) = Fails(Machine(w, tk))
      BY <2>2, <2>4, <2>5, MultisigFails
    <3>2. Breaks(b, w, tx, q)
      BY <1>3, <1>5, <3>1, OneBreaks
    <3>3. Breaks(s, st, tx, q)
      BY <1>4, <1>7, <2>1, <3>2, GoesBoth
    <3>4. ~ AllSign(st, who)
      BY <1>1, <1>4, <2>3, <2>5 DEF AllSign
    <3> QED
      BY <3>3, <3>4, BreaksOpens
  <2>6. CASE Len(st) >= n + 1
    <3>1. PICK st2 : /\ \A tk : CheckMultisig(Machine(w, tk)) = Machine(st2, tk)
                     /\ Len(st2) = 1 /\ Truthy(Top(st2, 0)) <=> AllSign(st, who)
      BY <2>2, <2>6, MultisigGoes
    <3>2. Goes(b, w, tx, q, st2)
      BY <1>3, <1>5, <2>4, <3>1, OneGoes
    <3>3. Goes(s, st, tx, q, st2)
      BY <1>4, <1>7, <2>1, <3>2, GoesBoth
    <3> QED
      BY <3>1, <3>3, GoesOpens
  <2> QED
    BY <1>4, <2>3, <2>5, <2>6
<1>9. Block(s)
  BY <1>7, <1>8, PlainSkipped DEF Block
<1> QED
  BY <1>3, <1>8, <1>9

-----------------------------------------------------------------------------
(* What each locking script lets through                                   *)

(* After opens to its signature when its moment has come.                  *)
LEMMA AfterOpens ==
    ASSUME NEW u \in Units, NEW n \in Nat, NEW who \in Names
    PROVE  /\ Block(After(u, n, who))
           /\ \A st \in Stacks : \A tx, q :
                Unlocks(st, After(u, n, who), tx, q) <=> LockMet(tx, q, Moment(u, n)) /\ Signs(st, who)
<1>1. PICK d, op : d = Moment(u, n) /\ op = "CLTV"
  OBVIOUS
<1>2. d \in Steps /\ d.op = "push"
  BY <1>1, DataSteps
<1>3. Guarded(op, d, who) = After(u, n, who)
  BY <1>1 DEF Guarded, After
<1>4. \A tx, q : Met(op, tx, q, d) <=> LockMet(tx, q, d)
  BY <1>1 DEF Met
<1>5. op \in {"CLTV", "CSV"}
  BY <1>1
<1> QED
  BY <1>1, <1>2, <1>3, <1>4, <1>5, GuardedOpens

Aged == <<Num(Delay), Op("CSV"), Op("DROP")>> \o Signed("sender")

(* The sender's branch of a channel opens to relative locks only.          *)
LEMMA AgedOpens ==
    /\ Block(Aged)
    /\ \A st \in Stacks : \A tx, q : Unlocks(st, Aged, tx, q) => q = "relative"
<1>1. PICK d, op, who : d = Num(Delay) /\ op = "CSV" /\ who = "sender"
  OBVIOUS
<1>2. d \in Steps /\ d.op = "push" /\ who \in Names
  <2>1. "sender" \in Names /\ Delay \in Nat /\ "blocks" \in Units
    BY MomentsAscend DEF Names, Units
  <2> QED
    BY <1>1, <2>1, DataSteps
<1>3. Guarded(op, d, who) = Aged
  BY <1>1 DEF Guarded, Aged
<1>4. \A tx, q : Met(op, tx, q, d) => q = "relative"
  BY <1>1 DEF Met, AgeMet
<1>5. op \in {"CLTV", "CSV"}
  BY <1>1
<1> QED
  BY <1>2, <1>3, <1>4, <1>5, GuardedOpens

-----------------------------------------------------------------------------
(* What it takes to open a script *)

(* The signatures of a share are there, and the lock of its date is met.   *)
Has(st, who) == \A i \in DOMAIN who : \E j \in DOMAIN st : IsSig(st[j], who[i])
Due(share, tx, q) == share.date = NoDate \/ LockMet(tx, q, share.date)
Grants(s, shares) ==
    \A st \in Stacks : \A tx, q :
       q # "relative" /\ Unlocks(st, s, tx, q)
         => \E share \in shares : Has(st, share.who) /\ Due(share, tx, q)
Gate(s, shares) == Block(s) /\ Grants(s, shares)

(* A branch lets through what its two scripts do.                          *)
LEMMA IfGate ==
    ASSUME NEW a, NEW b, NEW shares, Gate(a, shares), Gate(b, shares)
    PROVE  Gate(If(a, b), shares)
<1>1. Block(a) /\ Block(b)
  BY DEF Gate
<1>2. ASSUME NEW st \in Stacks, NEW tx, NEW q, q # "relative", Unlocks(st, If(a, b), tx, q)
      PROVE  \E share \in shares : Has(st, share.who) /\ Due(share, tx, q)
  <2>1. st # <<>> /\ (Unlocks(Pop(st, 1), a, tx, q) \/ Unlocks(Pop(st, 1), b, tx, q))
    BY <1>1, <1>2, IfOpens
  <2>2. PICK v : v = Pop(st, 1)
    OBVIOUS
  <2>3. v \in Stacks /\ \A j \in DOMAIN v : j \in DOMAIN st /\ v[j] = st[j]
    <3>1. 1 \in 0..Len(st) /\ st \in Seq(Steps) /\ Len(st) \in Nat /\ DOMAIN st = 1..Len(st)
      BY SMTT(60), <2>1, EmptySeq DEF Stacks
    <3>2. v \in Seq(Steps) /\ Len(v) = Len(st) - 1 /\ \A i \in 1..(Len(st) - 1) : v[i] = st[i]
      BY <2>2, <3>1, Popped
    <3> QED
      BY <3>1, <3>2 DEF Stacks
  <2>4. PICK share \in shares : Has(v, share.who) /\ Due(share, tx, q)
    <3>1. CASE Unlocks(v, a, tx, q)
      BY <1>2, <2>3, <3>1 DEF Gate, Grants
    <3>2. CASE Unlocks(v, b, tx, q)
      BY <1>2, <2>3, <3>2 DEF Gate, Grants
    <3> QED
      BY <2>1, <2>2, <3>1, <3>2
  <2>5. Has(st, share.who)
    BY <2>3, <2>4, Zenon DEF Has
  <2> QED
    BY <2>4, <2>5
<1>3. Block(If(a, b))
  BY <1>1, IfOpens
<1> QED
  BY <1>2, <1>3 DEF Gate, Grants

(* One signature alone is had.                                             *)
LEMMA SignsHas ==
    ASSUME NEW st \in Stacks, NEW who, Signs(st, who)
    PROVE  Has(st, <<who>>)
<1>1. 1 \in DOMAIN st /\ IsSig(st[1], who)
  BY DEF Signs, Stacks
<1>2. \A i \in DOMAIN <<who>> : <<who>>[i] = who
  OBVIOUS
<1> QED
  BY <1>1, <1>2, Zenon DEF Has

(* A signature lets through the share it is of.                            *)
LEMMA SignedGate ==
    ASSUME NEW who \in Names, NEW shares, NEW share \in shares, share.who = <<who>>, share.date = NoDate
    PROVE  Gate(Signed(who), shares)
<1>1. ASSUME NEW st \in Stacks, NEW tx, NEW q, Unlocks(st, Signed(who), tx, q)
      PROVE  Has(st, share.who) /\ Due(share, tx, q)
  <2>1. Has(st, <<who>>)
    BY <1>1, SignedOpens, SignsHas
  <2> QED
    BY <2>1 DEF Due
<1> QED
  BY <1>1, SignedOpens DEF Gate, Grants

(* A guarded signature lets through a share that is due.                   *)
LEMMA AfterGate ==
    ASSUME NEW u \in Units, NEW n \in Nat, NEW who \in Names, NEW shares,
           NEW share \in shares, share.who = <<who>>, share.date = Moment(u, n)
    PROVE  Gate(After(u, n, who), shares)
<1>1. ASSUME NEW st \in Stacks, NEW tx, NEW q, Unlocks(st, After(u, n, who), tx, q)
      PROVE  Has(st, share.who) /\ Due(share, tx, q)
  <2>1. LockMet(tx, q, Moment(u, n)) /\ Signs(st, who)
    BY <1>1, AfterOpens
  <2>2. Has(st, <<who>>)
    BY <2>1, SignsHas
  <2> QED
    BY <2>1, <2>2 DEF Due
<1> QED
  BY <1>1, AfterOpens DEF Gate, Grants

(* So do the signatures of all.                                            *)
LEMMA AllOfGate ==
    ASSUME NEW who \in Seq(Names), NEW shares, NEW share \in shares, share.who = who, share.date = NoDate
    PROVE  Gate(AllOf(who), shares)
<1>1. ASSUME NEW st \in Stacks, NEW tx, NEW q, Unlocks(st, AllOf(who), tx, q)
      PROVE  Has(st, share.who) /\ Due(share, tx, q)
  <2>1. AllSign(st, who)
    BY <1>1, AllOfOpens
  <2>2. \A i \in DOMAIN who : i + 1 \in DOMAIN st /\ IsSig(st[i + 1], who[i])
    <3>1. Len(st) = Len(who) + 1 /\ \A i \in DOMAIN who : IsSig(st[i + 1], who[i])
      BY <2>1 DEF AllSign
    <3>2. DOMAIN st = 1..Len(st) /\ DOMAIN who = 1..Len(who) /\ Len(who) \in Nat
      BY LenProperties DEF Stacks
    <3> QED
      BY <3>1, <3>2
  <2>3. Has(st, who)
    BY <2>2, Zenon DEF Has
  <2> QED
    BY <2>3 DEF Due
<1> QED
  BY <1>1, AllOfOpens DEF Gate, Grants

(* The sender's branch of a channel lets no final or lock-timed            *)
(* transaction through.                                                    *)
LEMMA AgedGate == ASSUME NEW shares PROVE Gate(Aged, shares)
BY AgedOpens DEF Gate, Grants

(* The moments are numbers.                                                *)
LEMMA MomentsAre == {Early, Middle, Late, Delay} \subseteq Nat /\ Early > 0 /\ Middle > 0 /\ Late > 0
BY MomentsAscend

(* What a share says.                                                      *)
LEMMA ShareIs ==
    ASSUME NEW who, NEW r, NEW d
    PROVE  Share(who, r, d).who = who /\ Share(who, r, d).date = d /\ Share(who, r, d).release = r
BY DEF Share

(* simpleTime lets through its shares.                                     *)
LEMMA SimpleGate ==
    ASSUME NEW u \in Units
    PROVE  Gate(simpleTime(u), Shares("simpleTime", u))
<1>1. PICK S : S = Shares("simpleTime", u)
  OBVIOUS
<1>2. {Share(<<"immediate">>, 0, NoDate), Share(<<"delayed1">>, 1, Moment(u, Middle))} \subseteq S
  BY <1>1 DEF Shares
<1>3. Gate(After(u, Middle, "delayed1"), S)
  BY <1>2, ShareIs, AfterGate, MomentsAre DEF Names
<1>4. Gate(Signed("immediate"), S)
  BY <1>2, ShareIs, SignedGate DEF Names
<1> QED
  BY <1>1, <1>3, <1>4, IfGate DEF simpleTime

(* So does multiTime,                                                      *)
LEMMA MultiTimeGate ==
    ASSUME NEW u \in Units
    PROVE  Gate(multiTime(u), Shares("multiTime", u))
<1>1. PICK S : S = Shares("multiTime", u)
  OBVIOUS
<1>2. {Share(<<"immediate">>, 0, NoDate), Share(<<"delayed1">>, 1, Moment(u, Early)),
       Share(<<"delayed2">>, 2, Moment(u, Middle)),
       Share(<<"delayed3">>, 3, Moment(u, Late))} \subseteq S
  BY <1>1 DEF Shares
<1>3. Gate(After(u, Early, "delayed1"), S)
  BY <1>2, ShareIs, AfterGate, MomentsAre DEF Names
<1>4. Gate(After(u, Middle, "delayed2"), S)
  BY <1>2, ShareIs, AfterGate, MomentsAre DEF Names
<1>5. Gate(After(u, Late, "delayed3"), S)
  BY <1>2, ShareIs, AfterGate, MomentsAre DEF Names
<1>6. Gate(Signed("immediate"), S)
  BY <1>2, ShareIs, SignedGate DEF Names
<1>7. /\ Gate(If(After(u, Late, "delayed3"), After(u, Middle, "delayed2")), S)
      /\ Gate(If(After(u, Early, "delayed1"), Signed("immediate")), S)
  BY <1>3, <1>4, <1>5, <1>6, IfGate
<1> QED
  BY <1>1, <1>7, IfGate DEF multiTime

(* Who signs together.                                                     *)
LEMMA CommitteeIs == Committee \in Seq(Names) /\ Parties \in Seq(Names)
BY DEF Committee, Parties, Names

(* and multiTimeMultisig,                                                  *)
LEMMA MultisigGate ==
    ASSUME NEW u \in Units
    PROVE  Gate(multiTimeMultisig(u), Shares("multiTimeMultisig", u))
<1>1. PICK S : S = Shares("multiTimeMultisig", u)
  OBVIOUS
<1>2. {Share(<<"immediate">>, 0, NoDate), Share(Committee, 1, NoDate),
       Share(<<"delayed1">>, 2, Moment(u, Early)),
       Share(<<"delayed2">>, 3, Moment(u, Late))} \subseteq S
  BY <1>1 DEF Shares
<1>3. Gate(After(u, Early, "delayed1"), S)
  BY <1>2, ShareIs, AfterGate, MomentsAre DEF Names
<1>4. Gate(After(u, Late, "delayed2"), S)
  BY <1>2, ShareIs, AfterGate, MomentsAre DEF Names
<1>5. Gate(AllOf(Committee), S)
  BY <1>2, ShareIs, AllOfGate, CommitteeIs
<1>6. Gate(Signed("immediate"), S)
  BY <1>2, ShareIs, SignedGate DEF Names
<1>7. /\ Gate(If(After(u, Late, "delayed2"), After(u, Early, "delayed1")), S)
      /\ Gate(If(AllOf(Committee), Signed("immediate")), S)
  BY <1>3, <1>4, <1>5, <1>6, IfGate
<1> QED
  BY <1>1, <1>7, IfGate DEF multiTimeMultisig

(* and the channel in its two forms, and the multisignature without dates. *)
LEMMA ChannelGate ==
    ASSUME NEW u \in Units
    PROVE  /\ Gate(paymentChannel, Shares("paymentChannel", u))
           /\ Gate(paymentChannelExpiring(u), Shares("paymentChannelExpiring", u))
           /\ Gate(basicMultisig, Shares("basicMultisig", u))
<1>1. PICK S, E, B : S = Shares("paymentChannel", u) /\ E = Shares("paymentChannelExpiring", u)
                     /\ B = Shares("basicMultisig", u)
  OBVIOUS
<1>2. /\ Share(Parties, 0, NoDate) \in S /\ Share(Parties, 0, NoDate) \in B
      /\ Share(Parties, 0, NoDate) \in E /\ Share(<<"sender">>, 0, Moment(u, Late)) \in E
  BY <1>1 DEF Shares
<1>3. Gate(AllOf(Parties), S) /\ Gate(AllOf(Parties), B) /\ Gate(AllOf(Parties), E)
  BY <1>2, ShareIs, AllOfGate, CommitteeIs
<1>4. Gate(After(u, Late, "sender"), E)
  BY <1>2, ShareIs, AfterGate, MomentsAre DEF Names
<1>5. Gate(If(AllOf(Parties), Aged), S) /\ Gate(If(AllOf(Parties), After(u, Late, "sender")), E)
  BY <1>3, <1>4, AgedGate, IfGate
<1>6. paymentChannel = If(AllOf(Parties), Aged)
  BY DEF paymentChannel, Aged
<1> QED
  BY <1>1, <1>3, <1>5, <1>6 DEF paymentChannelExpiring, basicMultisig

(* Nobody opens a script but with the signatures of a share whose lock is  *)
(* met.                                                                    *)
LEMMA ScriptGate ==
    ASSUME NEW k \in Kinds, NEW u \in Units
    PROVE  Gate(Script(k, u), Shares(k, u))
<1>1. CASE k = "simpleTime"
  BY <1>1, SimpleGate DEF Script
<1>2. CASE k = "multiTime"
  BY <1>2, MultiTimeGate DEF Script
<1>3. CASE k = "multiTimeMultisig"
  BY <1>3, MultisigGate DEF Script
<1>4. CASE k = "paymentChannel"
  BY <1>4, ChannelGate DEF Script
<1>5. CASE k = "paymentChannelExpiring"
  BY <1>5, ChannelGate DEF Script
<1>6. CASE k = "basicMultisig"
  BY <1>6, ChannelGate DEF Script
<1> QED
  BY <1>1, <1>2, <1>3, <1>4, <1>5, <1>6 DEF Kinds

-----------------------------------------------------------------------------
(* What the unlocking parameters hold                                      *)

(* What a party puts on the stack holds no signatures but its own.         *)
Owned(p, who) ==
    p \in Stacks /\ \A i \in DOMAIN p : p[i].kind = "sig" => \E j \in DOMAIN who : p[i].of = who[j]

(* Two things a party puts on the stack.                                   *)
LEMMA OwnedJoined ==
    ASSUME NEW a, NEW b, NEW who, Owned(a, who), Owned(b, who), NEW c, Joins(c, a, b)
    PROVE  Owned(c, who)
<1>1. a \in Seq(Steps) /\ b \in Seq(Steps) /\ c = a \o b
  BY DEF Owned, Stacks, Joins
<1>2. c \in Seq(Steps) /\ \A i \in DOMAIN c : (\E j \in DOMAIN a : c[i] = a[j]) \/ (\E j \in DOMAIN b : c[i] = b[j])
  BY <1>1
<1>3. ASSUME NEW i \in DOMAIN c, c[i].kind = "sig"
      PROVE  \E j \in DOMAIN who : c[i].of = who[j]
  <2>1. CASE \E j \in DOMAIN a : c[i] = a[j]
    BY <1>3, <2>1 DEF Owned
  <2>2. CASE \E j \in DOMAIN b : c[i] = b[j]
    BY <1>3, <2>2 DEF Owned
  <2> QED
    BY <1>2, <2>1, <2>2
<1> QED
  BY <1>2, <1>3 DEF Owned, Stacks

(* One thing it does.                                                      *)
LEMMA OwnedOne ==
    ASSUME NEW x \in Steps, NEW who, x.kind = "sig" => \E j \in DOMAIN who : x.of = who[j]
    PROVE  Owned(<<x>>, who)
<1>1. <<x>> \in Stacks /\ \A i \in DOMAIN <<x>> : <<x>>[i] = x
  BY DEF Stacks
<1> QED
  BY <1>1, Zenon DEF Owned

(* The flags are no signatures.                                            *)
LEMMA FlagSteps ==
    /\ TRUE1 \in Steps /\ FALSE0 \in Steps /\ Num(0) \in Steps
    /\ TRUE1.kind # "sig" /\ FALSE0.kind # "sig" /\ Num(0).kind # "sig"
    /\ Truthy(TRUE1) /\ ~ Truthy(FALSE0)
BY DEF TRUE1, FALSE0, Num, Datum, Truthy, Steps, Operations, Types, Names

(* Flags are anyone's.                                                     *)
LEMMA OwnedFlags ==
    ASSUME NEW who, NEW x \in {TRUE1, FALSE0, Num(0)}, NEW y \in {TRUE1, FALSE0, Num(0)}
    PROVE  Owned(<<x>>, who) /\ Owned(<<x, y>>, who)
<1>1. x \in Steps /\ x.kind # "sig" /\ y \in Steps /\ y.kind # "sig"
  BY FlagSteps
<1>2. Owned(<<x>>, who) /\ Owned(<<y>>, who)
  BY <1>1, OwnedOne
<1>3. Joins(<<x, y>>, <<x>>, <<y>>)
  BY <1>1, TwoSteps DEF Joins
<1> QED
  BY <1>2, <1>3, OwnedJoined

Named(who) == who \in Seq(Names) /\ Len(who) >= 1

(* A party has its own signature.                                          *)
LEMMA OwnedSig ==
    ASSUME NEW who, Named(who)
    PROVE  Owned(<<Sig(who[1])>>, who) /\ who[1] \in Names
<1>1. 1 \in DOMAIN who /\ who[1] \in Names
  BY DEF Named
<1>2. Sig(who[1]) \in Steps /\ Sig(who[1]).of = who[1]
  <2>1. 0 \in Nat /\ "blocks" \in Units
    BY DEF Units
  <2> QED
    BY <1>1, <2>1, DataSteps
<1> QED
  BY <1>1, <1>2, OwnedOne

(* The signatures of several, in their order.                              *)
LEMMA SigsAre ==
    ASSUME NEW who \in Seq(Names)
    PROVE  Sigs(who) \in Seq(Steps) /\ Len(Sigs(who)) = Len(who) /\ \A i \in DOMAIN who : IsSig(Sigs(who)[i], who[i])
<1>1. Len(who) \in Nat /\ DOMAIN who = 1..Len(who) /\ \A i \in DOMAIN who : who[i] \in Names
  BY LenProperties, ElementOfSeq
<1>2. \A i \in DOMAIN who : Sig(who[i]) \in Steps /\ IsSig(Sig(who[i]), who[i])
  <2>1. 0 \in Nat /\ "blocks" \in Units
    BY DEF Units
  <2>2. \A i \in DOMAIN who : Sig(who[i]) \in Steps /\ Sig(who[i]).kind = "sig" /\ Sig(who[i]).of = who[i]
    BY <1>1, <2>1, DataSteps
  <2> QED
    BY <2>2 DEF IsSig
<1>3. PICK s : s = Sigs(who)
  OBVIOUS
<1>4. s \in [1..Len(who) -> Steps] /\ \A i \in DOMAIN who : s[i] = Sig(who[i])
  BY <1>1, <1>2, <1>3 DEF Sigs
<1>5. s \in Seq(Steps)
  BY <1>1, <1>4, SeqDef
<1>6. Len(s) = Len(who)
  BY <1>1, <1>4, <1>5
<1> QED
  BY <1>2, <1>3, <1>4, <1>5, <1>6

(* They have them.                                                         *)
LEMMA OwnedSigs == ASSUME NEW who \in Seq(Names) PROVE Owned(Sigs(who), who)
<1>1. PICK s : s = Sigs(who)
  OBVIOUS
<1>2. s \in Seq(Steps) /\ Len(s) = Len(who) /\ \A i \in DOMAIN who : IsSig(s[i], who[i])
  BY <1>1, SigsAre
<1>3. DOMAIN s = DOMAIN who
  BY <1>2, LenProperties
<1> QED
  BY <1>1, <1>2, <1>3, Zenon DEF Owned, Stacks, IsSig

(* One script after the other.                                             *)
LEMMA OwnedBoth ==
    ASSUME NEW a, NEW b, NEW who, Owned(a, who), Owned(b, who)
    PROVE  Owned(a \o b, who)
<1>1. PICK c : c = a \o b
  OBVIOUS
<1>2. Joins(c, a, b)
  BY <1>1 DEF Joins
<1>3. Owned(c, who)
  BY <1>2, OwnedJoined
<1> QED
  BY <1>1, <1>3

(* One and two are three.                                                  *)
LEMMA JoinThree ==
    ASSUME NEW x \in Steps, NEW y \in Steps, NEW z \in Steps
    PROVE  <<x, y, z>> = <<x>> \o <<y, z>>
<1>1. PICK v, w : v = <<x>> \o <<y, z>> /\ w = <<x, y, z>>
  OBVIOUS
<1>2. w \in Seq(Steps) /\ Len(w) = 3 /\ w[1] = x /\ w[2] = y /\ w[3] = z
  BY <1>1
<1>3. v \in Seq(Steps) /\ Len(v) = 3 /\ v[1] = x /\ v[2] = y /\ v[3] = z
  BY <1>1
<1>4. \A i \in 1..3 : v[i] = w[i]
  BY <1>2, <1>3
<1>5. v = w
  BY <1>2, <1>3, <1>4, SeqEqual
<1> QED
  BY <1>1, <1>5

(* What the multisignature functions put on the stack,                     *)
LEMMA OwnedMultisig ==
    ASSUME NEW who, Named(who)
    PROVE  Owned(multisig2Of2(who), who) /\ Owned(unlockPaymentChannel(who), who)
<1>1. who \in Seq(Names)
  BY DEF Named
<1>2. Owned(<<Num(0)>>, who) /\ Owned(<<TRUE1>>, who) /\ Owned(<<FALSE0>>, who) /\ Owned(Sigs(who), who)
      /\ Owned(<<Sig(who[1])>>, who)
  BY <1>1, OwnedFlags, OwnedSigs, OwnedSig
<1>3. Owned(multisig2Of2(who), who)
  BY <1>2, OwnedBoth DEF multisig2Of2
<1>4. Owned(<<Num(0)>> \o Sigs(who) \o <<TRUE1>>, who)
  <2>1. PICK a : a = <<Num(0)>> \o Sigs(who)
    OBVIOUS
  <2>2. Owned(a, who)
    BY <1>2, <2>1, OwnedBoth
  <2>3. Owned(a \o <<TRUE1>>, who)
    BY <1>2, <2>2, OwnedBoth
  <2> QED
    BY <2>1, <2>3
<1>5. Owned(<<Sig(who[1]), FALSE0>>, who)
  <2>1. Sig(who[1]) \in Steps /\ FALSE0 \in Steps
    <3>1. <<Sig(who[1])>> \in Seq(Steps)
      BY <1>2 DEF Owned, Stacks
    <3>2. PICK v : v = <<Sig(who[1])>>
      OBVIOUS
    <3>3. v \in Seq(Steps) /\ Len(v) = 1 /\ v[1] = Sig(who[1])
      BY <3>1, <3>2
    <3> QED
      BY <3>3, FlagSteps
  <2>2. <<Sig(who[1])>> \o <<FALSE0>> = <<Sig(who[1]), FALSE0>>
    BY <2>1, TwoSteps
  <2>3. Owned(<<Sig(who[1])>> \o <<FALSE0>>, who)
    BY <1>2, OwnedBoth
  <2> QED
    BY <2>2, <2>3
<1> QED
  BY <1>3, <1>4, <1>5 DEF unlockPaymentChannel

(* and the timed ones.                                                     *)
LEMMA OwnedTimed ==
    ASSUME NEW who, Named(who)
    PROVE  /\ \A r \in {0, 1} : Owned(unlockSimpleTime(who[1], r), who)
           /\ \A r \in 0..3 : Owned(unlockMultiTime(who[1], r), who)
           /\ \A r \in 0..3 : Owned(unlockMultiTimeMultisig(who, r), who)
<1>1. who \in Seq(Names) /\ TRUE1 \in {TRUE1, FALSE0, Num(0)} /\ FALSE0 \in {TRUE1, FALSE0, Num(0)}
  BY DEF Named
<1>2. /\ Owned(<<Num(0)>>, who) /\ Owned(<<TRUE1>>, who) /\ Owned(<<FALSE0>>, who)
      /\ Owned(<<TRUE1, TRUE1>>, who) /\ Owned(<<FALSE0, TRUE1>>, who)
      /\ Owned(<<TRUE1, FALSE0>>, who) /\ Owned(<<FALSE0, FALSE0>>, who)
      /\ Owned(Sigs(who), who) /\ Owned(<<Sig(who[1])>>, who)
  BY <1>1, OwnedFlags, OwnedSigs, OwnedSig
<1>3. PICK s : s = Sig(who[1])
  OBVIOUS
<1>4. s \in Steps /\ Owned(<<s>>, who)
  <2>1. PICK v : v = <<s>>
    OBVIOUS
  <2>2. v \in Seq(Steps) /\ Len(v) = 1 /\ v[1] = s
    BY <1>2, <1>3, <2>1 DEF Owned, Stacks
  <2> QED
    BY <1>2, <1>3, <2>2
<1>5. /\ Owned(<<s>> \o <<TRUE1>>, who) /\ Owned(<<s>> \o <<FALSE0>>, who)
      /\ Owned(<<s>> \o <<TRUE1, TRUE1>>, who) /\ Owned(<<s>> \o <<FALSE0, TRUE1>>, who)
      /\ Owned(<<s>> \o <<TRUE1, FALSE0>>, who) /\ Owned(<<s>> \o <<FALSE0, FALSE0>>, who)
  BY <1>2, <1>4, OwnedBoth
<1>6. \A r \in {0, 1} : Owned(unlockSimpleTime(who[1], r), who)
  <2>1. unlockSimpleTime(who[1], 1) = <<s>> \o <<TRUE1>> /\ unlockSimpleTime(who[1], 0) = <<s>> \o <<FALSE0>>
    BY <1>3 DEF unlockSimpleTime
  <2> QED
    BY <1>5, <2>1
<1>7. \A r \in 0..3 : Owned(unlockMultiTime(who[1], r), who)
  <2>1. /\ unlockMultiTime(who[1], 3) = <<s>> \o <<TRUE1, TRUE1>>
        /\ unlockMultiTime(who[1], 2) = <<s>> \o <<FALSE0, TRUE1>>
        /\ unlockMultiTime(who[1], 1) = <<s>> \o <<TRUE1, FALSE0>>
        /\ unlockMultiTime(who[1], 0) = <<s>> \o <<FALSE0, FALSE0>>
    BY <1>3 DEF unlockMultiTime
  <2>2. 0..3 = {0, 1, 2, 3}
    OBVIOUS
  <2>3. \A r \in {0, 1, 2, 3} : Owned(unlockMultiTime(who[1], r), who)
    BY <1>5, <2>1, Zenon
  <2> QED
    BY <2>2, <2>3, Zenon
<1>8. \A r \in 0..3 : Owned(unlockMultiTimeMultisig(who, r), who)
  <2>1. /\ unlockMultiTimeMultisig(who, 3) = <<s, TRUE1, TRUE1>>
        /\ unlockMultiTimeMultisig(who, 2) = <<s, FALSE0, TRUE1>>
        /\ unlockMultiTimeMultisig(who, 1) = <<Num(0)>> \o Sigs(who) \o <<TRUE1, FALSE0>>
        /\ unlockMultiTimeMultisig(who, 0) = <<s, FALSE0, FALSE0>>
    BY <1>3 DEF unlockMultiTimeMultisig
  <2>2. \A x, y \in {TRUE1, FALSE0} : <<s, x, y>> = <<s>> \o <<x, y>>
    BY SMTT(60), <1>4, FlagSteps, JoinThree
  <2>3. /\ Owned(<<s, TRUE1, TRUE1>>, who) /\ Owned(<<s, FALSE0, TRUE1>>, who)
        /\ Owned(<<s, FALSE0, FALSE0>>, who)
    BY <1>5, <2>2
  <2>4. Owned(<<Num(0)>> \o Sigs(who) \o <<TRUE1, FALSE0>>, who)
    <3>1. PICK a : a = <<Num(0)>> \o Sigs(who)
      OBVIOUS
    <3>2. Owned(a, who)
      BY <1>2, <3>1, OwnedBoth
    <3>3. Owned(a \o <<TRUE1, FALSE0>>, who)
      BY <1>2, <3>2, OwnedBoth
    <3> QED
      BY <3>1, <3>3
  <2>5. 0..3 = {0, 1, 2, 3}
    OBVIOUS
  <2>6. \A r \in {0, 1, 2, 3} : Owned(unlockMultiTimeMultisig(who, r), who)
    BY <2>1, <2>3, <2>4, Zenon
  <2> QED
    BY <2>5, <2>6, Zenon
<1> QED
  BY <1>6, <1>7, <1>8

(* Whoever signs has a name.                                               *)
LEMMA SignersNamed == ASSUME NEW who \in Signers PROVE Named(who)
<1>1. CASE who \in Singles
  <2>1. PICK k \in Names : who = <<k>>
    BY <1>1 DEF Singles, Names
  <2>2. who \in Seq(Names) /\ Len(who) = 1
    BY <2>1
  <2> QED
    BY <2>2 DEF Named
<1>2. CASE who \in {Committee, Parties, <<"sender", "sender">>, <<"receiver", "receiver">>}
  <2>1. CASE who = Committee
    BY <2>1, CommitteeIs DEF Named, Committee
  <2>2. CASE who = Parties
    BY <2>2, CommitteeIs DEF Named, Parties
  <2>3. CASE who \in {<<"sender", "sender">>, <<"receiver", "receiver">>}
    <3>1. PICK k \in Names : who = <<k, k>>
      BY <2>3 DEF Names
    <3>2. who \in Seq(Names) /\ Len(who) = 2
      BY <3>1
    <3> QED
      BY <3>2 DEF Named
  <2> QED
    BY <1>2, <2>1, <2>2, <2>3
<1>3. CASE who = SubSeq(Committee, 1, 4)
  <2>1. PICK s : s = Committee
    OBVIOUS
  <2>2. s \in Seq(Names) /\ Len(s) = 5
    BY <2>1, CommitteeIs DEF Committee
  <2>3. Pop(s, 1) \in Seq(Names) /\ Len(Pop(s, 1)) = Len(s) - 1
    <3>1. 1 \in 0..Len(s)
      BY <2>2
    <3> QED
      BY <2>2, <3>1, Popped
  <2>4. Len(s) - 1 = 4
    BY <2>2
  <2>5. Pop(s, 1) = who
    BY <1>3, <2>1, <2>4 DEF Pop
  <2> QED
    BY <2>3, <2>4, <2>5 DEF Named
<1>4. CASE who = Reverse(Parties)
  <2>1. PICK s : s = Parties
    OBVIOUS
  <2>2. s \in Seq(Names) /\ Len(s) = 2
    BY <2>1, CommitteeIs DEF Parties
  <2>3. \A i \in 1..2 : 2 - i + 1 \in 1..2
    OBVIOUS
  <2>4. who = [i \in 1..2 |-> s[2 - i + 1]]
    BY <1>4, <2>1, <2>2 DEF Reverse
  <2>8. \A i \in 1..2 : s[2 - i + 1] \in Names
    BY <2>2, <2>3, ElementOfSeq
  <2>5. who \in [1..2 -> Names]
    BY <2>4, <2>8
  <2>6. who \in Seq(Names)
    <3>1. PICK n \in Nat : n = 2
      OBVIOUS
    <3>2. who \in [1..n -> Names]
      BY <2>5, <3>1
    <3> QED
      BY <3>2, SeqDef
  <2>7. Len(who) = 2
    BY <2>5, <2>6
  <2> QED
    BY <2>6, <2>7 DEF Named
<1> QED
  BY <1>1, <1>2, <1>3, <1>4 DEF Signers

(* The parameters the wallet builds hold no signatures but those of who    *)
(* signs.                                                                  *)
LEMMA ParamsOwned ==
    ASSUME NEW who \in Signers, NEW params \in Params(who)
    PROVE  Owned(params, who)
<1>1. Named(who)
  BY SignersNamed
<1> QED
  BY <1>1, OwnedMultisig, OwnedTimed DEF Params

(* Whoever can take the funds, with whatever parameters and date, has the  *)
(* signatures of a share, and the lock of the claim is no earlier.         *)
LEMMA TakersShare ==
    ASSUME NEW k \in Kinds, NEW u \in Units, NEW claim \in TakersOf(k, u)
    PROVE  /\ claim[2] \in Dates
           /\ \E share \in Shares(k, u) :
                /\ \A i \in DOMAIN share.who : \E j \in DOMAIN claim[1] : claim[1][j] = share.who[i]
                /\ \/ share.date = NoDate
                   \/ claim[2].kind = share.date.kind /\ claim[2].n >= share.date.n
<1>1. PICK c \in Takers : claim = <<c[3], c[4]>> /\ c[1] = k /\ c[2] = u
  BY DEF TakersOf
<1>2. PICK kk \in Kinds, uu \in Units, who \in Signers, date \in Dates :
        c \in {<<kk, uu, who, date>> : params \in {p \in Params(who) : Opens(kk, uu, date, p)}}
  BY DEF Takers
<1>3. PICK params \in Params(who) : c = <<kk, uu, who, date>> /\ Opens(kk, uu, date, params)
  BY <1>2
<1>4. kk = k /\ uu = u /\ claim[1] = who /\ claim[2] = date
  BY <1>1, <1>3
<1>5. Owned(params, who)
  BY ParamsOwned
<1>6. PICK tx, q : tx = ClaimTx(date) /\ q = Sequence(date)
  OBVIOUS
<1>7. q # "relative" /\ tx.lock = date
  BY <1>6 DEF Sequence, ClaimTx
<1>8. PICK share \in Shares(k, u) : Has(params, share.who) /\ Due(share, tx, q)
  <2>1. Unlocks(params, Script(k, u), tx, q)
    BY <1>3, <1>4, <1>6 DEF Opens
  <2>2. params \in Stacks
    BY <1>5 DEF Owned
  <2> QED
    BY <1>7, <2>1, <2>2, ScriptGate DEF Gate, Grants
<1>9. \A i \in DOMAIN share.who : \E j \in DOMAIN who : who[j] = share.who[i]
  BY <1>5, <1>8, Zenon DEF Has, Owned, IsSig
<1>10. share.date = NoDate \/ (date.kind = share.date.kind /\ date.n >= share.date.n)
  BY <1>7, <1>8 DEF Due, LockMet
<1> QED
  BY <1>4, <1>9, <1>10

-----------------------------------------------------------------------------
(* What the unlocking parameters open                                      *)

(* The other way round: the parameters of a share open the script.         *)
Opening(p, s, tx, q) == p \in Stacks /\ Unlocks(p, s, tx, q)

(* A flag on top of the parameters is taken off.                           *)
LEMMA FlagPops ==
    ASSUME NEW p \in Stacks, NEW x \in Steps, NEW w, w = p \o <<x>>
    PROVE  w \in Stacks /\ w # <<>> /\ Top(w, 0) = x /\ Pop(w, 1) = p
<1>1. p \in Seq(Steps)
  BY DEF Stacks
<1>2. w = Append(p, x) /\ w \in Seq(Steps)
  BY <1>1
<1>3. Len(w) \in DOMAIN w /\ w[Len(w)] = x /\ Pop(w, 1) = p
  BY <1>1, <1>2, LastAdded
<1>4. Len(w) = Len(p) + 1 /\ Len(p) \in Nat
  BY <1>1, <1>2
<1> QED
  BY <1>2, <1>3, <1>4 DEF Top, Stacks

(* Parameters that open a script open the branch with it, under the flag   *)
(* for it.                                                                 *)
LEMMA BranchOpening ==
    ASSUME NEW a, Block(a), NEW b, Block(b), NEW p, NEW tx, NEW q
    PROVE  /\ Opening(p, a, tx, q) => Opening(p \o <<TRUE1>>, If(a, b), tx, q)
           /\ Opening(p, b, tx, q) => Opening(p \o <<FALSE0>>, If(a, b), tx, q)
<1>1. ASSUME Opening(p, a, tx, q) PROVE Opening(p \o <<TRUE1>>, If(a, b), tx, q)
  <2>1. PICK w : w = p \o <<TRUE1>>
    OBVIOUS
  <2>2. w \in Stacks /\ w # <<>> /\ Top(w, 0) = TRUE1 /\ Pop(w, 1) = p
    BY <1>1, <2>1, FlagPops, FlagSteps DEF Opening
  <2>3. Unlocks(w, If(a, b), tx, q)
    BY <1>1, <2>2, FlagSteps, IfOpens DEF Opening
  <2> QED
    BY <2>1, <2>2, <2>3 DEF Opening
<1>2. ASSUME Opening(p, b, tx, q) PROVE Opening(p \o <<FALSE0>>, If(a, b), tx, q)
  <2>1. PICK w : w = p \o <<FALSE0>>
    OBVIOUS
  <2>2. w \in Stacks /\ w # <<>> /\ Top(w, 0) = FALSE0 /\ Pop(w, 1) = p
    BY <1>2, <2>1, FlagPops, FlagSteps DEF Opening
  <2>3. Unlocks(w, If(a, b), tx, q)
    BY <1>2, <2>2, FlagSteps, IfOpens DEF Opening
  <2> QED
    BY <2>1, <2>2, <2>3 DEF Opening
<1> QED
  BY <1>1, <1>2

(* Flags are put one by one or together.                                   *)
LEMMA TwoFlags ==
    ASSUME NEW p \in Stacks, NEW x \in Steps, NEW y \in Steps
    PROVE  (p \o <<x>>) \o <<y>> = p \o <<x, y>>
<1>1. PICK a, b : a = <<x>> /\ b = <<y>>
  OBVIOUS
<1>2. a \in Seq(Steps) /\ b \in Seq(Steps) /\ p \in Seq(Steps)
  BY <1>1 DEF Stacks
<1>3. (p \o a) \o b = p \o (a \o b)
  BY <1>2, ConcatAssociative
<1>4. a \o b = <<x, y>>
  BY <1>1, TwoSteps
<1> QED
  BY <1>1, <1>3, <1>4

(* Two branches deep.                                                      *)
LEMMA DeepOpening ==
    ASSUME NEW a, Block(a), NEW b, Block(b), NEW c, Block(c), NEW d, Block(d),
           NEW p, NEW tx, NEW q, NEW s, s = If(If(a, b), If(c, d))
    PROVE  /\ Opening(p, a, tx, q) => Opening(p \o <<TRUE1, TRUE1>>, s, tx, q)
           /\ Opening(p, b, tx, q) => Opening(p \o <<FALSE0, TRUE1>>, s, tx, q)
           /\ Opening(p, c, tx, q) => Opening(p \o <<TRUE1, FALSE0>>, s, tx, q)
           /\ Opening(p, d, tx, q) => Opening(p \o <<FALSE0, FALSE0>>, s, tx, q)
<1>1. PICK e, f : e = If(a, b) /\ f = If(c, d)
  OBVIOUS
<1>2. Block(e) /\ Block(f)
  BY <1>1, IfOpens
<1>3. \A o : /\ Opening(o, e, tx, q) => Opening(o \o <<TRUE1>>, s, tx, q)
             /\ Opening(o, f, tx, q) => Opening(o \o <<FALSE0>>, s, tx, q)
  BY <1>1, <1>2, BranchOpening
<1>4. /\ Opening(p, a, tx, q) => Opening(p \o <<TRUE1>>, e, tx, q)
      /\ Opening(p, b, tx, q) => Opening(p \o <<FALSE0>>, e, tx, q)
      /\ Opening(p, c, tx, q) => Opening(p \o <<TRUE1>>, f, tx, q)
      /\ Opening(p, d, tx, q) => Opening(p \o <<FALSE0>>, f, tx, q)
  BY <1>1, BranchOpening
<1>5. \A x, y \in {TRUE1, FALSE0} : p \in Stacks => (p \o <<x>>) \o <<y>> = p \o <<x, y>>
  <2>1. \A x \in {TRUE1, FALSE0} : x \in Steps
    BY FlagSteps
  <2> QED
    BY <2>1, TwoFlags, Zenon
<1>6. \A t : Opening(p, t, tx, q) => p \in Stacks
  BY DEF Opening
<1>7. ASSUME Opening(p, a, tx, q) PROVE Opening(p \o <<TRUE1, TRUE1>>, s, tx, q)
  <2>1. Opening((p \o <<TRUE1>>) \o <<TRUE1>>, s, tx, q)
    BY <1>3, <1>4, <1>7, Zenon
  <2> QED
    BY <1>5, <1>6, <1>7, <2>1
<1>8. ASSUME Opening(p, b, tx, q) PROVE Opening(p \o <<FALSE0, TRUE1>>, s, tx, q)
  <2>1. Opening((p \o <<FALSE0>>) \o <<TRUE1>>, s, tx, q)
    BY <1>3, <1>4, <1>8, Zenon
  <2> QED
    BY <1>5, <1>6, <1>8, <2>1
<1>9. ASSUME Opening(p, c, tx, q) PROVE Opening(p \o <<TRUE1, FALSE0>>, s, tx, q)
  <2>1. Opening((p \o <<TRUE1>>) \o <<FALSE0>>, s, tx, q)
    BY <1>3, <1>4, <1>9, Zenon
  <2> QED
    BY <1>5, <1>6, <1>9, <2>1
<1>10. ASSUME Opening(p, d, tx, q) PROVE Opening(p \o <<FALSE0, FALSE0>>, s, tx, q)
  <2>1. Opening((p \o <<FALSE0>>) \o <<FALSE0>>, s, tx, q)
    BY <1>3, <1>4, <1>10, Zenon
  <2> QED
    BY <1>5, <1>6, <1>10, <2>1
<1> QED
  BY <1>7, <1>8, <1>9, <1>10

(* A signature opens Signed.                                               *)
LEMMA SignedOpening ==
    ASSUME NEW who \in Names, NEW tx, NEW q
    PROVE  Opening(<<Sig(who)>>, Signed(who), tx, q) /\ Signs(<<Sig(who)>>, who) /\ <<Sig(who)>> \in Stacks
<1>1. PICK x : x = Sig(who)
  OBVIOUS
<1>2. x \in Steps /\ IsSig(x, who)
  <2>1. 0 \in Nat /\ "blocks" \in Units
    BY DEF Units
  <2> QED
    BY <1>1, <2>1, DataSteps DEF IsSig
<1>3. PICK p : p = <<x>>
  OBVIOUS
<1>4. p \in Stacks /\ Len(p) = 1 /\ p[1] = x
  BY <1>2, <1>3 DEF Stacks
<1>5. Signs(p, who)
  BY <1>2, <1>4 DEF Signs
<1> QED
  BY <1>1, <1>3, <1>4, <1>5, SignedOpens DEF Opening

(* With the moment of the lock as the date of the claim the lock is met.   *)
LEMMA AfterOpening ==
    ASSUME NEW who \in Names, NEW u \in Units, NEW n \in Nat, n > 0, NEW d, d = Moment(u, n)
    PROVE  Opening(<<Sig(who)>>, After(u, n, who), ClaimTx(d), Sequence(d))
<1>1. d.n = n
  BY DEF Moment, Datum
<1>2. NoDate.n = 0
  BY DEF NoDate, Moment, Datum
<1>3. d # NoDate
  BY <1>1, <1>2
<1>4. Sequence(d) # "final" /\ ClaimTx(d).lock = d
  BY <1>3 DEF Sequence, ClaimTx
<1>5. LockMet(ClaimTx(d), Sequence(d), d)
  BY <1>1, <1>4 DEF LockMet
<1> QED
  BY <1>5, SignedOpening, AfterOpens DEF Opening

(* The signatures of all open AllOf.                                       *)
LEMMA AllOfOpening ==
    ASSUME NEW who \in Seq(Names), NEW tx, NEW q
    PROVE  Opening(<<Num(0)>> \o Sigs(who), AllOf(who), tx, q)
<1>1. PICK a, s, p : a = <<Num(0)>> /\ s = Sigs(who) /\ p = a \o s
  OBVIOUS
<1>2. s \in Seq(Steps) /\ Len(s) = Len(who) /\ \A i \in DOMAIN who : IsSig(s[i], who[i])
  BY <1>1, SigsAre
<1>3. PICK n : n = Len(who)
  OBVIOUS
<1>4. n \in Nat /\ DOMAIN who = 1..n
  BY <1>3, LenProperties
<1>5. a \in Seq(Steps) /\ Len(a) = 1
  BY <1>1, FlagSteps
<1>6. p \in Seq(Steps) /\ Len(p) = 1 + n /\ \A i \in 1..(1 + n) : p[i] = IF i <= 1 THEN a[i] ELSE s[i - 1]
  BY <1>1, <1>2, <1>3, <1>5, ConcatProperties
<1>7. \A i \in 1..n : p[i + 1] = s[i]
  <2>1. TAKE i \in 1..n
  <2>2. PICK j : j = i + 1
    OBVIOUS
  <2>3. j \in 1..(1 + n) /\ ~ (j <= 1) /\ j - 1 = i
    BY <1>4, <2>2
  <2>4. p[j] = s[j - 1]
    BY <1>6, <2>3
  <2> QED
    BY <2>2, <2>3, <2>4
<1>8. AllSign(p, who)
  BY <1>2, <1>3, <1>4, <1>6, <1>7 DEF AllSign
<1>9. p \in Stacks
  BY <1>6 DEF Stacks
<1> QED
  BY <1>1, <1>8, <1>9, AllOfOpens DEF Opening

-----------------------------------------------------------------------------

Works(k, u, share) == Opening(ParamsOf(k, share), Script(k, u), ClaimTx(share.date), Sequence(share.date))

(* The parameters of each share open simpleTime,                           *)
LEMMA SimpleWorks ==
    ASSUME NEW u \in Units, NEW share \in Shares("simpleTime", u)
    PROVE  Works("simpleTime", u, share)
<1>1. PICK a, b, m : a = After(u, Middle, "delayed1") /\ b = Signed("immediate") /\ m = Moment(u, Middle)
  OBVIOUS
<1>2. Block(a) /\ Block(b)
  BY <1>1, AfterOpens, SignedOpens, MomentsAre DEF Names
<1>3. Script("simpleTime", u) = If(a, b)
  BY <1>1 DEF Script, simpleTime
<1>4. CASE share = Share(<<"immediate">>, 0, NoDate)
  <2>1. ParamsOf("simpleTime", share) = <<Sig("immediate")>> \o <<FALSE0>>
    BY <1>4, ShareIs DEF ParamsOf, unlockSimpleTime
  <2>2. \A tx, q : Opening(<<Sig("immediate")>>, b, tx, q)
    BY <1>1, SignedOpening DEF Names
  <2>3. \A tx, q : Opening(<<Sig("immediate")>> \o <<FALSE0>>, If(a, b), tx, q)
    BY <1>2, <2>2, BranchOpening
  <2> QED
    BY <1>3, <2>1, <2>3 DEF Works
<1>5. CASE share = Share(<<"delayed1">>, 1, m)
  <2>1. ParamsOf("simpleTime", share) = <<Sig("delayed1")>> \o <<TRUE1>>
    BY <1>5, ShareIs DEF ParamsOf, unlockSimpleTime
  <2>2. Opening(<<Sig("delayed1")>>, a, ClaimTx(m), Sequence(m))
    BY <1>1, AfterOpening, MomentsAre DEF Names
  <2>3. Opening(<<Sig("delayed1")>> \o <<TRUE1>>, If(a, b), ClaimTx(m), Sequence(m))
    BY <1>2, <2>2, BranchOpening
  <2>4. share.date = m
    BY <1>5, ShareIs
  <2> QED
    BY <1>3, <2>1, <2>3, <2>4 DEF Works
<1> QED
  BY <1>1, <1>4, <1>5 DEF Shares

(* multiTime,                                                              *)
LEMMA MultiTimeWorks ==
    ASSUME NEW u \in Units, NEW share \in Shares("multiTime", u)
    PROVE  Works("multiTime", u, share)
<1>1. PICK a, b, c, d, s :
        /\ a = After(u, Late, "delayed3") /\ b = After(u, Middle, "delayed2")
        /\ c = After(u, Early, "delayed1") /\ d = Signed("immediate")
        /\ s = If(If(a, b), If(c, d))
  OBVIOUS
<1>2. Block(a) /\ Block(b) /\ Block(c) /\ Block(d)
  BY <1>1, AfterOpens, SignedOpens, MomentsAre DEF Names
<1>3. Script("multiTime", u) = s
  BY <1>1 DEF Script, multiTime
<1>4. \A p, tx, q :
        /\ Opening(p, a, tx, q) => Opening(p \o <<TRUE1, TRUE1>>, s, tx, q)
        /\ Opening(p, b, tx, q) => Opening(p \o <<FALSE0, TRUE1>>, s, tx, q)
        /\ Opening(p, c, tx, q) => Opening(p \o <<TRUE1, FALSE0>>, s, tx, q)
        /\ Opening(p, d, tx, q) => Opening(p \o <<FALSE0, FALSE0>>, s, tx, q)
  BY <1>1, <1>2, DeepOpening
<1>5. CASE share = Share(<<"immediate">>, 0, NoDate)
  <2>1. ParamsOf("multiTime", share) = <<Sig("immediate")>> \o <<FALSE0, FALSE0>>
    BY <1>5, ShareIs DEF ParamsOf, unlockMultiTime
  <2>2. \A tx, q : Opening(<<Sig("immediate")>>, d, tx, q)
    BY <1>1, SignedOpening DEF Names
  <2> QED
    BY <1>3, <1>4, <2>1, <2>2 DEF Works
<1>6. CASE share = Share(<<"delayed1">>, 1, Moment(u, Early))
  <2>1. ParamsOf("multiTime", share) = <<Sig("delayed1")>> \o <<TRUE1, FALSE0>> /\ share.date = Moment(u, Early)
    BY <1>6, ShareIs DEF ParamsOf, unlockMultiTime
  <2>2. Opening(<<Sig("delayed1")>>, c, ClaimTx(share.date), Sequence(share.date))
    BY <1>1, <2>1, AfterOpening, MomentsAre DEF Names
  <2> QED
    BY <1>3, <1>4, <2>1, <2>2 DEF Works
<1>7. CASE share = Share(<<"delayed2">>, 2, Moment(u, Middle))
  <2>1. ParamsOf("multiTime", share) = <<Sig("delayed2")>> \o <<FALSE0, TRUE1>> /\ share.date = Moment(u, Middle)
    BY <1>7, ShareIs DEF ParamsOf, unlockMultiTime
  <2>2. Opening(<<Sig("delayed2")>>, b, ClaimTx(share.date), Sequence(share.date))
    BY <1>1, <2>1, AfterOpening, MomentsAre DEF Names
  <2> QED
    BY <1>3, <1>4, <2>1, <2>2 DEF Works
<1>8. CASE share = Share(<<"delayed3">>, 3, Moment(u, Late))
  <2>1. ParamsOf("multiTime", share) = <<Sig("delayed3")>> \o <<TRUE1, TRUE1>> /\ share.date = Moment(u, Late)
    BY <1>8, ShareIs DEF ParamsOf, unlockMultiTime
  <2>2. Opening(<<Sig("delayed3")>>, a, ClaimTx(share.date), Sequence(share.date))
    BY <1>1, <2>1, AfterOpening, MomentsAre DEF Names
  <2> QED
    BY <1>3, <1>4, <2>1, <2>2 DEF Works
<1> QED
  BY <1>5, <1>6, <1>7, <1>8 DEF Shares

(* A signature is a step.                                                  *)
LEMMA SigStep == ASSUME NEW who \in Names PROVE Sig(who) \in Steps
<1>1. 0 \in Nat /\ "blocks" \in Units
  BY DEF Units
<1> QED
  BY <1>1, DataSteps

(* multiTimeMultisig,                                                      *)
LEMMA MultisigWorks ==
    ASSUME NEW u \in Units, NEW share \in Shares("multiTimeMultisig", u)
    PROVE  Works("multiTimeMultisig", u, share)
<1>1. PICK a, b, c, d, s :
        /\ a = After(u, Late, "delayed2") /\ b = After(u, Early, "delayed1")
        /\ c = AllOf(Committee) /\ d = Signed("immediate")
        /\ s = If(If(a, b), If(c, d))
  OBVIOUS
<1>2. Block(a) /\ Block(b) /\ Block(c) /\ Block(d)
  BY <1>1, AfterOpens, SignedOpens, AllOfOpens, CommitteeIs, MomentsAre DEF Names
<1>3. Script("multiTimeMultisig", u) = s
  BY <1>1 DEF Script, multiTimeMultisig
<1>4. \A p, tx, q :
        /\ Opening(p, a, tx, q) => Opening(p \o <<TRUE1, TRUE1>>, s, tx, q)
        /\ Opening(p, b, tx, q) => Opening(p \o <<FALSE0, TRUE1>>, s, tx, q)
        /\ Opening(p, c, tx, q) => Opening(p \o <<TRUE1, FALSE0>>, s, tx, q)
        /\ Opening(p, d, tx, q) => Opening(p \o <<FALSE0, FALSE0>>, s, tx, q)
  BY <1>1, <1>2, DeepOpening
<1>0. \A who \in Names : \A x, y \in {TRUE1, FALSE0} : <<Sig(who), x, y>> = <<Sig(who)>> \o <<x, y>>
  BY SigStep, FlagSteps, JoinThree
<1>5. CASE share = Share(<<"immediate">>, 0, NoDate)
  <2>1. ParamsOf("multiTimeMultisig", share) = <<Sig("immediate"), FALSE0, FALSE0>>
    BY <1>5, ShareIs DEF ParamsOf, unlockMultiTimeMultisig
  <2>2. \A tx, q : Opening(<<Sig("immediate")>>, d, tx, q)
    BY SMTT(60), <1>1, SignedOpening DEF Names
  <2>3. <<Sig("immediate"), FALSE0, FALSE0>> = <<Sig("immediate")>> \o <<FALSE0, FALSE0>>
    BY <1>0 DEF Names
  <2> QED
    BY <1>3, <1>4, <2>1, <2>2, <2>3 DEF Works
<1>6. CASE share = Share(<<"delayed1">>, 2, Moment(u, Early))
  <2>1. ParamsOf("multiTimeMultisig", share) = <<Sig("delayed1"), FALSE0, TRUE1>> /\ share.date = Moment(u, Early)
    BY <1>6, ShareIs DEF ParamsOf, unlockMultiTimeMultisig
  <2>2. Opening(<<Sig("delayed1")>>, b, ClaimTx(share.date), Sequence(share.date))
    BY SMTT(60), <1>1, <2>1, AfterOpening, MomentsAre DEF Names
  <2>3. <<Sig("delayed1"), FALSE0, TRUE1>> = <<Sig("delayed1")>> \o <<FALSE0, TRUE1>>
    BY <1>0 DEF Names
  <2> QED
    BY <1>3, <1>4, <2>1, <2>2, <2>3 DEF Works
<1>7. CASE share = Share(<<"delayed2">>, 3, Moment(u, Late))
  <2>1. ParamsOf("multiTimeMultisig", share) = <<Sig("delayed2"), TRUE1, TRUE1>> /\ share.date = Moment(u, Late)
    BY <1>7, ShareIs DEF ParamsOf, unlockMultiTimeMultisig
  <2>2. Opening(<<Sig("delayed2")>>, a, ClaimTx(share.date), Sequence(share.date))
    BY SMTT(60), <1>1, <2>1, AfterOpening, MomentsAre DEF Names
  <2>3. <<Sig("delayed2"), TRUE1, TRUE1>> = <<Sig("delayed2")>> \o <<TRUE1, TRUE1>>
    BY <1>0 DEF Names
  <2> QED
    BY <1>3, <1>4, <2>1, <2>2, <2>3 DEF Works
<1>8. CASE share = Share(Committee, 1, NoDate)
  <2>1. ParamsOf("multiTimeMultisig", share) = <<Num(0)>> \o Sigs(Committee) \o <<TRUE1, FALSE0>>
    BY <1>8, ShareIs DEF ParamsOf, unlockMultiTimeMultisig
  <2>2. \A tx, q : Opening(<<Num(0)>> \o Sigs(Committee), c, tx, q)
    BY <1>1, AllOfOpening, CommitteeIs
  <2> QED
    BY <1>3, <1>4, <2>1, <2>2 DEF Works
<1> QED
  BY <1>5, <1>6, <1>7, <1>8 DEF Shares

(* and the channel and the multisignature.                                 *)
LEMMA ChannelWorks ==
    ASSUME NEW u \in Units, NEW k \in {"paymentChannel", "paymentChannelExpiring", "basicMultisig"},
           NEW share \in Shares(k, u)
    PROVE  Works(k, u, share)
<1>1. PICK a, b, c, p :
        /\ a = AllOf(Parties) /\ b = After(u, Late, "sender") /\ c = Aged
        /\ p = <<Num(0)>> \o Sigs(Parties)
  OBVIOUS
<1>2. Block(a) /\ Block(b) /\ Block(c)
  BY <1>1, AfterOpens, AgedOpens, AllOfOpens, CommitteeIs, MomentsAre DEF Names
<1>3. /\ Script("paymentChannel", u) = If(a, c) /\ Script("paymentChannelExpiring", u) = If(a, b)
      /\ Script("basicMultisig", u) = a
  BY <1>1 DEF Script, paymentChannel, paymentChannelExpiring, basicMultisig, Aged
<1>4. \A tx, q : Opening(p, a, tx, q)
  BY <1>1, AllOfOpening, CommitteeIs
<1>5. CASE share = Share(Parties, 0, NoDate)
  <2>0. Len(Parties) = 2 /\ share.who = Parties
    BY <1>5, ShareIs DEF Parties
  <2>1. /\ k # "basicMultisig" => ParamsOf(k, share) = p \o <<TRUE1>>
        /\ k = "basicMultisig" => ParamsOf(k, share) = p
    BY <1>1, <2>0 DEF ParamsOf, unlockPaymentChannel, multisig2Of2
  <2>2. \A tx, q : Opening(p \o <<TRUE1>>, If(a, b), tx, q) /\ Opening(p \o <<TRUE1>>, If(a, c), tx, q)
    BY <1>2, <1>4, BranchOpening
  <2> QED
    BY <1>3, <1>4, <2>1, <2>2 DEF Works
<1>6. CASE k = "paymentChannelExpiring" /\ share = Share(<<"sender">>, 0, Moment(u, Late))
  <2>0. Len(<<"sender">>) = 1 /\ share.who = <<"sender">> /\ share.date = Moment(u, Late)
    BY <1>6, ShareIs
  <2>1. ParamsOf(k, share) = <<Sig("sender"), FALSE0>>
    BY <1>6, <2>0 DEF ParamsOf, unlockPaymentChannel
  <2>2. Opening(<<Sig("sender")>>, b, ClaimTx(share.date), Sequence(share.date))
    BY <1>1, <2>0, AfterOpening, MomentsAre DEF Names
  <2>3. Opening(<<Sig("sender")>> \o <<FALSE0>>, If(a, b), ClaimTx(share.date), Sequence(share.date))
    BY <1>2, <2>2, BranchOpening
  <2>4. <<Sig("sender")>> \o <<FALSE0>> = <<Sig("sender"), FALSE0>>
    BY SigStep, FlagSteps, TwoSteps DEF Names
  <2> QED
    BY <1>3, <1>6, <2>1, <2>3, <2>4 DEF Works
<1> QED
  BY <1>5, <1>6 DEF Shares

ServedOf(k, u) == {<<k, u, x>> : x \in {s \in Shares(k, u) : Opens(k, u, s.date, ParamsOf(k, s))}}

(* Every share is served: no funds are locked for good.                    *)
LEMMA SharesServed ==
    ASSUME NEW k \in Kinds, NEW u \in Units, NEW share \in Shares(k, u)
    PROVE  <<k, u, share>> \in Served
<1>1. Works(k, u, share)
  BY SimpleWorks, MultiTimeWorks, MultisigWorks, ChannelWorks DEF Kinds
<1>2. Opens(k, u, share.date, ParamsOf(k, share))
  BY <1>1 DEF Works, Opening, Opens
<1>3. share \in {s \in Shares(k, u) : Opens(k, u, s.date, ParamsOf(k, s))}
  BY <1>2
<1>4. <<k, u, share>> \in ServedOf(k, u)
  BY <1>3 DEF ServedOf
<1>5. Served = UNION {ServedOf(kk, uu) : kk \in Kinds, uu \in Units}
  BY DEF Served, ServedOf
<1> QED
  BY <1>4, <1>5

-----------------------------------------------------------------------------
USE LockedFundsAssumption, MomentsAscend

(* The inductive invariant *)

CoinsAt(h) ==
    [confirmed : 0..h,
     spent : [signers : Signers \cup {<<>>}, height : 0..h, time : 0..MaxTime]]
ScriptsFor(cs, h) ==
    {NoScript} \cup [status : Statuses, coin : DOMAIN cs, confirmed : {NotKnown} \cup 0..h]
ChecksFor(cs, h) ==
    [object : Nat, script : ScriptsFor(cs, h), present : BOOLEAN, height : 0..h]

ChainTyped ==
    /\ kind \in Kinds /\ unit \in Units
    /\ height \in 0..MaxHeight /\ time \in 0..MaxTime
    /\ coins \in Seq(CoinsAt(height)) /\ Len(coins) <= MaxCoins
    /\ faults \in 0..MaxFaults
WalletTyped ==
    /\ record \in ScriptsFor(coins, height) /\ file \in ScriptsFor(coins, height)
    /\ pending \in {0} \cup DOMAIN coins
    /\ object \in Nat /\ check \in ChecksFor(coins, height)

(* What a record says of its output is so: that it is spent, and when it   *)
(* was confirmed.  (Only the first output: a later funding keeps the       *)
(* height of the one before.)                                              *)
Gone(c, cs, seen) == "query" \notin seen => cs[c].spent # Unspent
Told(s, cs, seen) ==
    /\ s.status = "spent" => Gone(s.coin, cs, seen)
    /\ s.coin = 1 /\ s.confirmed # NotKnown =>
          s.confirmed # 0 /\ cs[1].confirmed = s.confirmed

(* The first funding is recorded over nothing.                             *)
FirstIsFirst == pending = 1 => record = NoScript /\ file = NoScript

(* A handler that waits for its answers, or has them, holds the record it  *)
(* will replace, and answers that the chain does not take back.            *)
Holds(c, r, o) == c.object <= o /\ (c.object = o => c.script = r)
Answered(c, cs, seen) ==
    /\ c.script # NoScript /\ Told(c.script, cs, seen)
    /\ ~c.present => Gone(c.script.coin, cs, seen)
    /\ c.height # 0 => cs[c.script.coin].confirmed = c.height
CheckFits ==
    check # NoCheck => Holds(check, record, object) /\ Answered(check, coins, failures)

RecordInv ==
    /\ Told(record, coins, failures) /\ Told(file, coins, failures)
    /\ FirstIsFirst /\ CheckFits /\ SurvivesCrash

IInv == ChainTyped /\ WalletTyped /\ RecordInv

-----------------------------------------------------------------------------
(* What the chain does *)

(* The chain and the history of failures only grow: an output stays, stays *)
(* spent, and stays confirmed where it is.                                 *)
Grows ==
    /\ height <= height' /\ failures \subseteq failures'
    /\ DOMAIN coins \subseteq DOMAIN coins'
    /\ \A i \in DOMAIN coins :
          /\ coins[i].spent # Unspent => coins'[i].spent # Unspent
          /\ coins[i].confirmed # 0 => coins'[i].confirmed = coins[i].confirmed

LEMMA TypesGrow ==
    ASSUME ChainTyped, ChainTyped', Grows
    PROVE  /\ ScriptsFor(coins, height) \subseteq ScriptsFor(coins', height')
           /\ ChecksFor(coins, height) \subseteq ChecksFor(coins', height')
<1>1. 0..height \subseteq 0..height' /\ DOMAIN coins \subseteq DOMAIN coins'
  BY SMTT(60) DEF ChainTyped, Grows
<1>2. ScriptsFor(coins, height) \subseteq ScriptsFor(coins', height')
  BY <1>1 DEF ScriptsFor
<1> QED
  BY <1>1, <1>2 DEF ChecksFor

(* What has been told stays true.                                          *)
LEMMA ToldStays ==
    ASSUME ChainTyped, Grows, NEW s \in ScriptsFor(coins, height), Told(s, coins, failures)
    PROVE  Told(s, coins', failures')
<1>1. CASE s = NoScript
  BY <1>1 DEF Told, NoScript
<1>2. CASE s # NoScript
  <2>1. s.coin \in DOMAIN coins
    BY <1>2 DEF ScriptsFor
  <2> QED
    BY <2>1 DEF Told, Gone, Grows
<1> QED
  BY <1>1, <1>2

LEMMA AnsweredStays ==
    ASSUME ChainTyped, Grows, NEW c \in ChecksFor(coins, height), Answered(c, coins, failures)
    PROVE  Answered(c, coins', failures')
<1>1. c.script \in ScriptsFor(coins, height) /\ c.script # NoScript
  BY DEF ChecksFor, Answered
<1>2. c.script.coin \in DOMAIN coins
  BY <1>1 DEF ScriptsFor
<1>3. Told(c.script, coins', failures')
  BY <1>1, ToldStays DEF Answered
<1> QED
  BY <1>1, <1>2, <1>3 DEF Answered, Gone, Grows

(* A step of the chain that leaves the wallet alone.                       *)
LEMMA ChainStep ==
    ASSUME IInv, ChainTyped', Grows, UNCHANGED <<walletVars, failures>>
    PROVE  IInv'
<1>1. UNCHANGED <<record, object, file, pending, check>>
  BY DEF walletVars
<1>2. WalletTyped'
  <2>1. DOMAIN coins \subseteq DOMAIN coins'
    BY DEF Grows
  <2> QED
    BY <1>1, <2>1, TypesGrow DEF IInv, WalletTyped
<1>3. Told(record', coins', failures') /\ Told(file', coins', failures')
  BY <1>1, ToldStays DEF IInv, RecordInv, WalletTyped
<1>4. CheckFits'
  BY <1>1, AnsweredStays DEF IInv, RecordInv, WalletTyped, CheckFits
<1> QED
  BY <1>1, <1>2, <1>3, <1>4 DEF IInv, RecordInv, FirstIsFirst, SurvivesCrash

LEMMA NextBlockStep == ASSUME IInv, NextBlock PROVE IInv'
<1>1. height' = height + 1 /\ height' \in 0..MaxHeight /\ height \in 0..MaxHeight
  BY DEF NextBlock, IInv, ChainTyped
<1>2. time' \in 0..MaxTime
  BY DEF NextBlock, IInv, ChainTyped
<1>3. PICK mined \in SUBSET {i \in DOMAIN coins : coins[i].confirmed = 0} :
         coins' = [i \in DOMAIN coins |->
                    IF i \in mined THEN [coins[i] EXCEPT !.confirmed = height + 1] ELSE coins[i]]
  BY DEF NextBlock
<1>4. coins \in Seq(CoinsAt(height)) /\ DOMAIN coins = 1..Len(coins) /\ Len(coins) \in Nat
  BY DEF IInv, ChainTyped
<1>5. ASSUME NEW i \in DOMAIN coins
      PROVE  /\ coins'[i] \in CoinsAt(height')
             /\ coins'[i].spent = coins[i].spent
             /\ coins[i].confirmed # 0 => coins'[i].confirmed = coins[i].confirmed
  <2>1. coins[i] \in CoinsAt(height)
    BY <1>4
  <2>2. coins[i].spent \in [signers : Signers \cup {<<>>}, height : 0..height, time : 0..MaxTime]
    BY <2>1 DEF CoinsAt
  <2>3. coins[i].spent \in [signers : Signers \cup {<<>>}, height : 0..height', time : 0..MaxTime]
    BY <1>1, <2>2
  <2>4. CASE i \in mined
    <3>1. coins'[i] = [confirmed |-> height', spent |-> coins[i].spent]
      BY <1>1, <1>3, <2>1, <2>4 DEF CoinsAt
    <3>2. height' \in 0..height' /\ coins[i].confirmed = 0
      BY <1>1, <2>4
    <3> QED
      BY <2>3, <3>1, <3>2 DEF CoinsAt
  <2>5. CASE i \notin mined
    <3>1. coins'[i] = [confirmed |-> coins[i].confirmed, spent |-> coins[i].spent]
          /\ coins[i].confirmed \in 0..height'
      BY <1>1, <1>3, <2>1, <2>5 DEF CoinsAt
    <3> QED
      BY <2>3, <3>1 DEF CoinsAt
  <2> QED
    BY <2>4, <2>5
<1>6. coins' \in Seq(CoinsAt(height')) /\ Len(coins') = Len(coins) /\ DOMAIN coins' = DOMAIN coins
  BY <1>3, <1>4, <1>5
<1>7. ChainTyped'
  BY <1>1, <1>2, <1>6 DEF NextBlock, NoFault, IInv, ChainTyped
<1>8. Grows
  BY <1>1, <1>5, <1>6 DEF Grows, NextBlock, NoFault
<1> QED
  BY <1>7, <1>8, ChainStep DEF NextBlock, NoFault

(* Whoever claims is one of the signers.                                   *)
LEMMA TakersSign ==
    ASSUME NEW k, NEW u, NEW claim \in TakersOf(k, u)
    PROVE  claim[1] \in Signers
<1>1. PICK c \in Takers : claim = <<c[3], c[4]>>
  BY DEF TakersOf
<1>2. \E who \in Signers : c[3] = who
  <2>1. PICK kk \in Kinds, uu \in Units, who \in Signers, date \in Dates :
           c \in {<<kk, uu, who, date>> : params \in {p \in Params(who) : Opens(kk, uu, date, p)}}
    BY DEF Takers
  <2>2. c = <<kk, uu, who, date>>
    BY <2>1
  <2> QED
    BY <2>2
<1> QED
  BY <1>1, <1>2

LEMMA Appended ==
    ASSUME NEW S, NEW a \in Seq(S), NEW b \in Seq(S)
    PROVE  /\ a \o b \in Seq(S) /\ Len(a \o b) = Len(a) + Len(b)
           /\ \A i \in DOMAIN a : (a \o b)[i] = a[i]
OBVIOUS

LEMMA ClaimStep == ASSUME IInv, Claim PROVE IInv'
<1>0. PICK c \in DOMAIN coins, claim \in TakersOf(kind, unit) :
         /\ coins[c].spent = Unspent
         /\ \E rest \in {<<>>} \cup (IF Channel /\ Len(claim[1]) = 2 /\ Len(coins) < MaxCoins
                                     THEN {<<[confirmed |-> 0, spent |-> Unspent]>>} ELSE {}) :
              coins' = [coins EXCEPT ![c].spent =
                          [signers |-> claim[1], height |-> height, time |-> time]] \o rest
  BY DEF Claim
<1>1. PICK rest \in {<<>>} \cup (IF Channel /\ Len(claim[1]) = 2 /\ Len(coins) < MaxCoins
                              THEN {<<[confirmed |-> 0, spent |-> Unspent]>>} ELSE {}) :
         coins' = [coins EXCEPT ![c].spent =
                         [signers |-> claim[1], height |-> height, time |-> time]] \o rest
  BY <1>0
<1> DEFINE how == [signers |-> claim[1], height |-> height, time |-> time]
           cs == [coins EXCEPT ![c].spent = how]
<1>2. coins \in Seq(CoinsAt(height)) /\ DOMAIN coins = 1..Len(coins) /\ Len(coins) \in Nat
  BY DEF IInv, ChainTyped
<1>3. UNCHANGED <<chainVars, walletVars, faults, failures>>
  BY DEF Claim, NoFault
<1>4. height \in 0..MaxHeight /\ time \in 0..MaxTime /\ height \in 0..height
  BY DEF IInv, ChainTyped
<1>5. how \in [signers : Signers \cup {<<>>}, height : 0..height, time : 0..MaxTime]
  BY <1>4, TakersSign
<1> HIDE DEF how
<1>6. cs[c] = [confirmed |-> coins[c].confirmed, spent |-> how] /\ cs[c] \in CoinsAt(height)
  <2>1. coins[c] \in CoinsAt(height)
    BY <1>2
  <2>2. cs[c] = [coins[c] EXCEPT !.spent = how]
    BY <1>2
  <2> QED
    BY <1>5, <2>1, <2>2 DEF CoinsAt
<1>7. \A i \in DOMAIN coins : i # c => cs[i] = coins[i]
  BY <1>2
<1>8. cs \in Seq(CoinsAt(height)) /\ Len(cs) = Len(coins) /\ DOMAIN cs = DOMAIN coins
  BY <1>2, <1>6, <1>7
<1>9. rest \in Seq(CoinsAt(height)) /\ Len(cs) + Len(rest) <= MaxCoins
  <2>1. CASE rest = <<>>
    BY <1>8, <2>1 DEF IInv, ChainTyped
  <2>2. CASE rest = <<[confirmed |-> 0, spent |-> Unspent]>> /\ Len(coins) < MaxCoins
    <3>1. [confirmed |-> 0, spent |-> Unspent] \in CoinsAt(height)
      BY <1>4 DEF CoinsAt, Unspent
    <3> QED
      BY <1>2, <1>8, <2>2, <3>1
  <2> QED
    BY <1>1, <2>1, <2>2
<1> HIDE DEF cs
<1>10. /\ coins' \in Seq(CoinsAt(height)) /\ Len(coins') <= MaxCoins
       /\ DOMAIN coins \subseteq DOMAIN coins'
       /\ \A i \in DOMAIN coins : coins'[i] = cs[i]
  <2>1. coins' = cs \o rest
    BY <1>1 DEF cs, how
  <2>2. coins' \in Seq(CoinsAt(height)) /\ Len(coins') = Len(cs) + Len(rest)
    BY <1>8, <1>9, <2>1, Appended
  <2>3. DOMAIN coins' = 1..(Len(cs) + Len(rest)) /\ Len(rest) \in Nat /\ Len(cs) \in Nat
    BY <1>8, <1>9, <2>2
  <2>4. \A i \in DOMAIN cs : coins'[i] = cs[i]
    BY <1>8, <1>9, <2>1, Appended
  <2>5. 1..Len(coins) \subseteq 1..(Len(cs) + Len(rest))
    BY <1>8, <2>3
  <2> QED
    BY <1>2, <1>8, <1>9, <2>2, <2>3, <2>4, <2>5
<1>11. ChainTyped'
  BY <1>3, <1>10 DEF IInv, ChainTyped, chainVars
<1>12. Grows
  <2>1. \A i \in DOMAIN coins : cs[i].confirmed = coins[i].confirmed
    BY <1>6, <1>7
  <2>2. \A i \in DOMAIN coins : coins[i].spent # Unspent => cs[i].spent # Unspent
    BY <1>0, <1>7
  <2> QED
    BY <1>3, <1>4, <1>10, <2>1, <2>2 DEF Grows, chainVars
<1> QED
  BY <1>3, <1>11, <1>12, ChainStep

-----------------------------------------------------------------------------
(* What the wallet does *)

LEMMA FaultsTyped ==
    ASSUME ChainTyped, NoFault \/ \E what : Fault(what)
    PROVE  faults' \in 0..MaxFaults /\ failures \subseteq failures'
BY SMTT(60) DEF ChainTyped, NoFault, Fault

(* A step that leaves the chain alone.                                     *)
LEMMA QuietChain ==
    ASSUME ChainTyped, UNCHANGED <<chainVars, coins>>, NoFault \/ \E what : Fault(what)
    PROVE  ChainTyped' /\ Grows
BY FaultsTyped DEF ChainTyped, Grows, chainVars

(* The wallet's new record and file, each the old one, the other's or one  *)
(* that is told truly.                                                     *)
LEMMA WalletStep ==
    ASSUME IInv, ChainTyped', Grows,
           pending' \in {0} \cup DOMAIN coins', object' \in Nat,
           check' \in ChecksFor(coins', height'),
           record' \in ScriptsFor(coins', height'), Told(record', coins', failures'),
           file' \in {file, record'}, "disk" \notin failures' => file' = record',
           FirstIsFirst', CheckFits'
    PROVE  IInv'
<1>1. file \in ScriptsFor(coins', height') /\ Told(file, coins', failures')
  BY TypesGrow, ToldStays DEF IInv, RecordInv, WalletTyped
<1>2. WalletTyped'
  BY <1>1 DEF WalletTyped
<1> QED
  BY <1>1, <1>2 DEF IInv, RecordInv, SurvivesCrash

LEMMA ProduceStep == ASSUME IInv, Produce PROVE IInv'
<1> DEFINE fresh == [confirmed |-> 0, spent |-> Unspent]
<1>1. /\ coins \in Seq(CoinsAt(height)) /\ Len(coins) \in Nat /\ DOMAIN coins = 1..Len(coins)
      /\ height \in 0..MaxHeight /\ time \in 0..MaxTime /\ fresh \in CoinsAt(height)
  BY DEF IInv, ChainTyped, CoinsAt, Unspent
<1>2. coins' = Append(coins, fresh) /\ Len(coins) < MaxCoins
  BY DEF Produce
<1>3. /\ coins' \in Seq(CoinsAt(height)) /\ Len(coins') = Len(coins) + 1
      /\ DOMAIN coins' = 1..Len(coins) + 1 /\ \A i \in DOMAIN coins : coins'[i] = coins[i]
  <2> HIDE DEF fresh
  <2> QED
    BY <1>1, <1>2
<1>4. UNCHANGED <<kind, unit, height, time, record, object, file, check>>
  BY DEF Produce, chainVars
<1>5. faults' \in 0..MaxFaults /\ failures \subseteq failures'
  BY FaultsTyped DEF Produce, IInv
<1>6. ChainTyped'
  BY <1>1, <1>2, <1>3, <1>4, <1>5 DEF IInv, ChainTyped
<1>7. Grows
  BY SMTT(60), <1>1, <1>3, <1>4, <1>5 DEF Grows
<1>8. pending' \in {0} \cup DOMAIN coins' /\ (pending' = 1 => DOMAIN coins = {})
  BY <1>1, <1>3 DEF Produce
<1>9. FirstIsFirst'
  BY <1>4, <1>8 DEF FirstIsFirst, IInv, WalletTyped, ScriptsFor
<1>10. WalletTyped'
  BY <1>4, <1>6, <1>7, <1>8, TypesGrow DEF IInv, WalletTyped
<1>11. Told(record', coins', failures') /\ Told(file', coins', failures')
  BY <1>4, <1>7, ToldStays DEF IInv, RecordInv, WalletTyped
<1>12. CheckFits'
  BY <1>4, <1>7, AnsweredStays DEF IInv, RecordInv, WalletTyped, CheckFits
<1>13. SurvivesCrash'
  BY <1>4, <1>5 DEF IInv, RecordInv, SurvivesCrash
<1> QED
  BY <1>6, <1>9, <1>10, <1>11, <1>12, <1>13 DEF IInv, RecordInv

LEMMA SaveScriptStep == ASSUME IInv, SaveScript PROVE IInv'
<1>1. ChainTyped' /\ Grows
  BY QuietChain DEF SaveScript, IInv
<1>2. UNCHANGED <<height, coins, check>> /\ pending' = 0 /\ object' = object + 1 /\ object \in Nat
  BY DEF SaveScript, chainVars, IInv, WalletTyped
<1>3. pending \in DOMAIN coins /\ record \in ScriptsFor(coins, height) /\ height \in Nat
  BY DEF SaveScript, IInv, WalletTyped, ChainTyped
<1>4. record.confirmed \in {NotKnown} \cup 0..height
  BY <1>3 DEF ScriptsFor, NoScript
<1>5. record' = [status |-> "funded", coin |-> pending, confirmed |-> record.confirmed]
  BY DEF SaveScript, Merged
<1>6. record' \in ScriptsFor(coins', height')
  BY <1>2, <1>3, <1>4, <1>5 DEF ScriptsFor, Statuses
<1>7. Told(record', coins', failures')
  <2>1. pending = 1 => record.confirmed = NotKnown
    BY DEF IInv, RecordInv, FirstIsFirst, NoScript
  <2> QED
    BY <1>5, <2>1 DEF Told
<1>8. file' \in {file, record'} /\ ("disk" \notin failures' => file' = record')
  BY DEF SaveScript, Fault
<1>9. check \in ChecksFor(coins, height)
  BY DEF IInv, WalletTyped
<1>10. CheckFits'
  <2>1. check # NoCheck => check.object <= object /\ Answered(check, coins', failures')
    BY <1>1, <1>9, AnsweredStays DEF IInv, RecordInv, CheckFits, Holds
  <2>2. check.object \in Nat
    BY <1>9 DEF ChecksFor
  <2>3. check # NoCheck => check.object <= object' /\ check.object # object'
    BY <1>2, <2>1, <2>2
  <2> QED
    BY <1>2, <2>1, <2>3 DEF CheckFits, Holds
<1>11. FirstIsFirst'
  BY <1>2 DEF FirstIsFirst
<1> QED
  BY <1>1, <1>2, <1>6, <1>7, <1>8, <1>9, <1>10, <1>11, WalletStep

LEMMA CheckBeginsStep == ASSUME IInv, CheckBegins PROVE IInv'
<1>1. ChainTyped' /\ Grows
  BY QuietChain DEF CheckBegins, IInv
<1>2. UNCHANGED <<height, coins, record, object, file, pending>> /\ record # NoScript
  BY DEF CheckBegins, chainVars
<1>3. record \in ScriptsFor(coins, height) /\ object \in Nat /\ height \in Nat
  BY DEF IInv, WalletTyped, ChainTyped
<1>4. record.coin \in DOMAIN coins
  BY <1>2, <1>3 DEF ScriptsFor
<1>5. coins[record.coin].confirmed \in 0..height
  <2>1. coins[record.coin] \in CoinsAt(height)
    BY <1>4 DEF IInv, ChainTyped
  <2> QED
    BY <2>1 DEF CoinsAt
<1>6. PICK present \in BOOLEAN, h \in 0..height :
         /\ check' = [object |-> object, script |-> record, present |-> present, height |-> h]
         /\ ~present => Gone(record.coin, coins, failures')
         /\ h # 0 => coins[record.coin].confirmed = h
  <2>1. CASE check' = [object |-> object, script |-> record,
                       present |-> coins[record.coin].spent = Unspent,
                       height |-> coins[record.coin].confirmed]
    <3> DEFINE there == coins[record.coin].spent = Unspent
               h == coins[record.coin].confirmed
    <3>1. /\ check' = [object |-> object, script |-> record, present |-> there, height |-> h]
          /\ there \in BOOLEAN /\ h \in 0..height
      BY <1>5, <2>1
    <3>2. (~there => Gone(record.coin, coins, failures')) /\ (h # 0 => coins[record.coin].confirmed = h)
      BY DEF Gone
    <3> HIDE DEF there, h
    <3> QED
      BY <3>1, <3>2
  <2>2. CASE /\ check' = [object |-> object, script |-> record, present |-> FALSE, height |-> 0]
             /\ Fault("query")
    <3>1. 0 \in 0..height /\ Gone(record.coin, coins, failures')
      BY <1>3, <2>2 DEF Gone, Fault
    <3> USE <3>1
    <3> WITNESS FALSE \in BOOLEAN, 0 \in 0..height
    <3> QED
      BY <2>2
  <2> QED
    BY <2>1, <2>2 DEF CheckBegins
<1>7. Told(record, coins', failures')
  BY <1>1, <1>3, ToldStays DEF IInv, RecordInv
<1>8. check' \in ChecksFor(coins', height')
  BY <1>2, <1>3, <1>6 DEF ChecksFor
<1>9. CheckFits'
  BY <1>2, <1>3, <1>6, <1>7 DEF CheckFits, Holds, Answered
<1>10. SurvivesCrash'
  BY <1>1, <1>2 DEF IInv, RecordInv, SurvivesCrash, Grows
<1>11. FirstIsFirst' /\ pending' \in {0} \cup DOMAIN coins'
  BY <1>2 DEF IInv, RecordInv, FirstIsFirst, WalletTyped
<1>12. Told(file', coins', failures')
  BY <1>1, <1>2, ToldStays DEF IInv, RecordInv, WalletTyped
<1>13. WalletTyped'
  BY <1>2, <1>8, <1>11 DEF IInv, WalletTyped
<1> QED
  BY <1>1, <1>2, <1>7, <1>9, <1>10, <1>11, <1>12, <1>13 DEF IInv, RecordInv

(* What a handler writes is so, although other steps came between its      *)
(* queries and its update.                                                 *)
LEMMA UpdatedTold ==
    ASSUME IInv, check # NoCheck
    PROVE  /\ Updated(check) \in ScriptsFor(coins, height)
           /\ Told(Updated(check), coins, failures)
           /\ Updated(check).status = check.script.status => Updated(check) = check.script
<1> DEFINE s == check.script
<1>1. /\ s \in ScriptsFor(coins, height) /\ s # NoScript /\ check.present \in BOOLEAN
      /\ check.height \in 0..height /\ height \in Nat
  BY DEF IInv, WalletTyped, ChecksFor, RecordInv, CheckFits, Answered, ChainTyped
<1>2. Told(s, coins, failures) /\ (~check.present => Gone(s.coin, coins, failures))
      /\ (check.height # 0 => coins[s.coin].confirmed = check.height)
  BY DEF IInv, RecordInv, CheckFits, Answered
<1>3. s \in [status : Statuses, coin : DOMAIN coins, confirmed : {NotKnown} \cup 0..height]
  BY <1>1 DEF ScriptsFor
<1>4. CASE ~check.present
  <2>1. Updated(check) = [s EXCEPT !.status = "spent"]
    BY <1>4 DEF Updated
  <2>2. Updated(check) = [status |-> "spent", coin |-> s.coin, confirmed |-> s.confirmed]
    BY <1>3, <2>1
  <2>3. s.status = "spent" => Updated(check) = s
    BY <1>3, <2>2
  <2> QED
    BY <1>2, <1>3, <1>4, <2>2, <2>3 DEF Told, ScriptsFor, Statuses
<1>5. CASE check.present /\ s.status = "funded"
  <2>1. Updated(check) = [s EXCEPT !.status = "active",
                          !.confirmed = IF check.height > 0 THEN check.height ELSE @]
    BY <1>5 DEF Updated
  <2>2. Updated(check) = [status |-> "active", coin |-> s.coin,
                          confirmed |-> IF check.height > 0 THEN check.height ELSE s.confirmed]
    BY <1>3, <2>1
  <2>3. Updated(check).status # s.status
    BY <1>5, <2>2
  <2>4. Updated(check) \in ScriptsFor(coins, height)
    BY <1>1, <1>3, <2>2 DEF ScriptsFor, Statuses
  <2>5. Told(Updated(check), coins, failures)
    BY <1>1, <1>2, <2>2 DEF Told
  <2> QED
    BY <2>3, <2>4, <2>5
<1>6. CASE check.present /\ s.status # "funded"
  BY <1>1, <1>2, <1>6 DEF Updated
<1> QED
  BY <1>1, <1>4, <1>5, <1>6

LEMMA CheckEndsStep == ASSUME IInv, CheckEnds PROVE IInv'
<1>1. ChainTyped' /\ Grows
  BY QuietChain DEF CheckEnds, IInv
<1>2. UNCHANGED <<height, coins, object, pending>> /\ check' = NoCheck /\ check # NoCheck
  BY DEF CheckEnds, chainVars
<1>3. record' \in ScriptsFor(coins', height') /\ Told(record', coins', failures')
  <2>1. record' \in {record, Updated(check)}
    BY DEF CheckEnds
  <2>2. record' \in ScriptsFor(coins, height)
    BY <1>2, <2>1, UpdatedTold DEF IInv, WalletTyped
  <2>3. Told(record', coins, failures)
    BY <1>2, <2>1, UpdatedTold DEF IInv, RecordInv
  <2>4. Told(record', coins', failures')
    BY <1>1, <2>2, <2>3, ToldStays DEF IInv
  <2> QED
    BY <1>2, <2>2, <2>4
<1>4. file' \in {file, record'} /\ ("disk" \notin failures' => file' = record')
  <2>1. CASE Updated(check).status = check.script.status
    <3>1. Updated(check) = check.script /\ (check.object = object => check.script = record)
      BY <1>2, <2>1, UpdatedTold DEF IInv, RecordInv, CheckFits, Holds
    <3>2. record' = record
      BY <3>1 DEF CheckEnds
    <3>3. file' = file /\ failures' = failures
      BY <2>1 DEF CheckEnds, NoFault
    <3> QED
      BY <3>2, <3>3 DEF IInv, RecordInv, SurvivesCrash
  <2>2. CASE Updated(check).status # check.script.status
    BY <2>2 DEF CheckEnds, Fault
  <2> QED
    BY <2>1, <2>2
<1>5. check' \in ChecksFor(coins', height')
  BY <1>1, <1>2 DEF ChecksFor, NoCheck, ScriptsFor, ChainTyped
<1>6. CheckFits'
  BY <1>2 DEF CheckFits
<1>7. FirstIsFirst'
  <2>1. pending = 1 => DOMAIN coins # {} /\ check.script \in ScriptsFor(coins, height)
    BY <1>2 DEF IInv, WalletTyped, ChecksFor
  <2> QED
    BY <1>2, <1>4 DEF CheckEnds, IInv, RecordInv, FirstIsFirst, CheckFits, Holds, Answered
<1> QED
  BY <1>1, <1>2, <1>3, <1>4, <1>5, <1>6, <1>7, WalletStep DEF IInv, WalletTyped

LEMMA CrashStep == ASSUME IInv, Crash PROVE IInv'
<1>1. ChainTyped' /\ Grows
  BY QuietChain DEF Crash, IInv
<1>2. /\ UNCHANGED <<height, coins, file>> /\ record' = file
      /\ pending' = 0 /\ check' = NoCheck /\ object' = object + 1
  BY DEF Crash, chainVars
<1>3. record' \in ScriptsFor(coins', height') /\ Told(record', coins', failures')
  BY <1>1, <1>2, ToldStays DEF IInv, RecordInv, WalletTyped
<1>4. check' \in ChecksFor(coins', height')
  BY <1>1, <1>2 DEF ChecksFor, NoCheck, ScriptsFor, ChainTyped
<1>5. FirstIsFirst' /\ CheckFits'
  BY <1>2 DEF FirstIsFirst, CheckFits
<1>6. object' \in Nat
  BY <1>2 DEF IInv, WalletTyped
<1> QED
  BY <1>1, <1>2, <1>3, <1>4, <1>5, <1>6, WalletStep

LEMMA InitIInv == Init => IInv
<1> SUFFICES ASSUME Init PROVE IInv
  OBVIOUS
<1>1. ChainTyped
  <2>1. coins = <<>>
    BY DEF Init
  <2>2. coins \in Seq(CoinsAt(height)) /\ Len(coins) = 0
    BY <2>1
  <2> QED
    BY <2>2 DEF Init, ChainTyped
<1>2. WalletTyped
  BY DEF Init, WalletTyped, ScriptsFor, ChecksFor, NoCheck
<1>3. RecordInv
  BY DEF Init, RecordInv, Told, FirstIsFirst, CheckFits, SurvivesCrash, NoScript
<1> QED
  BY <1>1, <1>2, <1>3 DEF IInv

LEMMA NextIInv == IInv /\ [Next]_vars => IInv'
<1> SUFFICES ASSUME IInv, [Next]_vars PROVE IInv'
  OBVIOUS
<1>1. CASE UNCHANGED vars
  BY <1>1 DEF vars, IInv, ChainTyped, WalletTyped, RecordInv, FirstIsFirst, CheckFits,
     SurvivesCrash
<1> QED
  BY <1>1, NextBlockStep, ClaimStep, ProduceStep, SaveScriptStep, CheckBeginsStep,
     CheckEndsStep, CrashStep DEF Next

LEMMA IInvAlways == Spec => []IInv
BY InitIInv, NextIInv, PTL DEF Spec

-----------------------------------------------------------------------------
(* What follows *)

(* Type correctness, for all moments and bounds.                           *)
THEOREM TypeCorrect == Spec => []TypeOK
<1>1. IInv => TypeOK
  <2> SUFFICES ASSUME IInv PROVE TypeOK
    OBVIOUS
  <2>1. ASSUME NEW i \in DOMAIN coins PROVE coins[i].confirmed \in 0..height
    <3>1. coins[i] \in CoinsAt(height)
      BY DEF IInv, ChainTyped
    <3> QED
      BY <3>1 DEF CoinsAt
  <2> QED
    BY <2>1 DEF IInv, ChainTyped, WalletTyped, ScriptsFor, TypeOK
<1> QED
  BY <1>1, IInvAlways, PTL

(* What the wallet calls spent is spent unless a query failed, and a crash *)
(* at any point loses nothing unless a write failed: for any number of     *)
(* fundings, claims, blocks and faults, and although the handler of a      *)
(* notification overlaps a new funding and a restart.                      *)
THEOREM RecordIsTrueAlways == Spec => []RecordIsTrue
<1>1. IInv => RecordIsTrue
  BY DEF IInv, RecordInv, Told, Gone, RecordIsTrue, SpentMeansGone, SurvivesCrash
<1> QED
  BY <1>1, IInvAlways, PTL

(* When the wallet says that a channel can be recalled, its lock is over   *)
(* on the chain: the height it has recorded is the height at which its     *)
(* output was confirmed, whatever the wallet missed or lost meanwhile.     *)
THEOREM RecallWindowAlways == Spec => []RecallWindow
<1>1. IInv => RecallWindow
  <2> SUFFICES ASSUME IInv, RecallAvailable, record.coin = 1 PROVE LockOver
    BY DEF RecallWindow
  <2>1. kind \in Kinds /\ height \in Nat
    BY DEF IInv, ChainTyped
  <2>2. CASE kind = "paymentChannel"
    <3>1. record.confirmed # NotKnown /\ height >= record.confirmed + Delay
      BY <2>2 DEF RecallAvailable
    <3>2. record.confirmed \in 0..height
      BY <3>1 DEF IInv, WalletTyped, ScriptsFor, NoScript
    <3>3. record.confirmed # 0 /\ coins[1].confirmed = record.confirmed
      BY <3>1 DEF IInv, RecordInv, Told
    <3> QED
      BY <2>1, <2>2, <3>1, <3>2, <3>3 DEF LockOver
  <2>3. CASE kind = "paymentChannelExpiring"
    BY <2>3 DEF RecallAvailable, LockOver, Past, Moment, Datum
  <2>4. CASE kind \notin {"paymentChannel", "paymentChannelExpiring"}
    BY <2>4 DEF RecallAvailable
  <2> QED
    BY <2>2, <2>3, <2>4
<1> QED
  BY <1>1, IInvAlways, PTL

-----------------------------------------------------------------------------
(* Every output that is spent was taken rightly                            *)

(* An output that was spent in this way was taken by whoever has a share.  *)
Rightly(k, u, how) ==
    \E share \in Shares(k, u) :
        /\ \A i \in DOMAIN share.who : \E j \in DOMAIN how.signers : how.signers[j] = share.who[i]
        /\ \/ share.date.kind = "blocks" /\ share.date.n <= how.height
           \/ share.date.kind = "time" /\ share.date.n < how.time

(* DelayRespected says it of every output.                                 *)
LEMMA DelayIsRightly ==
    DelayRespected <=> \A i \in DOMAIN coins : coins[i].spent # Unspent => Rightly(kind, unit, coins[i].spent)
BY DEF DelayRespected, Rightly

(* A date is a moment.                                                     *)
LEMMA DatesAre ==
    ASSUME NEW date \in Dates
    PROVE  date.n \in Nat /\ date.kind \in Units
<1>1. ASSUME NEW u \in Units, NEW n \in Nat PROVE Moment(u, n).n = n /\ Moment(u, n).kind = u
  BY DEF Moment, Datum
<1>2. PICK u \in Units, n \in Nat : date = Moment(u, n)
  <2>1. "blocks" \in Units /\ 0 \in Nat
    BY DEF Units
  <2> QED
    BY <2>1, MomentsAre DEF Dates, NoDate
<1> QED
  BY <1>1, <1>2

(* A share has one.                                                        *)
LEMMA SharesAre ==
    ASSUME NEW k \in Kinds, NEW u \in Units, NEW share \in Shares(k, u)
    PROVE  share.date \in Dates
<1>1. NoDate \in Dates /\ \A n \in {Early, Middle, Late} : Moment(u, n) \in Dates
  BY DEF Dates
<1>2. share.date = NoDate \/ \E n \in {Early, Middle, Late} : share.date = Moment(u, n)
  BY ShareIs DEF Shares, Kinds
<1> QED
  BY <1>1, <1>2

(* A claim is right: its lock was over, and it is no earlier than the      *)
(* share's.                                                                *)
LEMMA ClaimIsRight ==
    ASSUME IInv, NEW claim \in TakersOf(kind, unit), Past(ClaimTx(claim[2]).lock), NEW how,
           how.signers = claim[1], how.height = height, how.time = time
    PROVE  Rightly(kind, unit, how)
<1>1. kind \in Kinds /\ unit \in Units /\ height \in Nat /\ time \in Nat
  BY DEF IInv, ChainTyped
<1>2. PICK date : date = claim[2]
  OBVIOUS
<1>3. date \in Dates /\ ClaimTx(date).lock = date
  BY <1>1, <1>2, TakersShare DEF ClaimTx
<1>4. PICK share \in Shares(kind, unit) :
        /\ \A i \in DOMAIN share.who : \E j \in DOMAIN claim[1] : claim[1][j] = share.who[i]
        /\ \/ share.date = NoDate
           \/ date.kind = share.date.kind /\ date.n >= share.date.n
  BY <1>1, <1>2, TakersShare
<1>5. share.date.n \in Nat /\ share.date.kind \in Units /\ date.n \in Nat
  BY <1>1, <1>3, SharesAre, DatesAre
<1>6. \/ share.date.kind = "blocks" /\ share.date.n <= height
      \/ share.date.kind = "time" /\ share.date.n < time
  <2>1. CASE share.date = NoDate
    BY <1>1, <2>1 DEF NoDate, Moment, Datum
  <2>2. CASE date.kind = share.date.kind /\ date.n >= share.date.n
    <3>1. IF date.kind = "blocks" THEN date.n <= height ELSE date.n < time
      BY <1>2, <1>3 DEF Past
    <3> QED
      BY <1>1, <1>5, <2>2, <3>1 DEF Units
  <2> QED
    BY <1>4, <2>1, <2>2
<1>7. \A i \in DOMAIN share.who : \E j \in DOMAIN how.signers : how.signers[j] = share.who[i]
  BY <1>4, Zenon
<1> QED
  BY <1>4, <1>6, <1>7, Zenon DEF Rightly

(* Every step leaves what is spent as it was, but for a claim.             *)
Kept(how) ==
    \A i \in DOMAIN coins' :
        \/ i \in DOMAIN coins /\ coins'[i].spent = coins[i].spent
        \/ coins'[i].spent = Unspent
        \/ coins'[i].spent = how

(* A block spends nothing.                                                 *)
LEMMA NextBlockKeeps == ASSUME IInv, NextBlock PROVE Kept(Unspent)
<1>1. PICK mined \in SUBSET {i \in DOMAIN coins : coins[i].confirmed = 0} :
         coins' = [i \in DOMAIN coins |->
                    IF i \in mined THEN [coins[i] EXCEPT !.confirmed = height + 1] ELSE coins[i]]
  BY DEF NextBlock
<1>2. ASSUME NEW i \in DOMAIN coins PROVE coins'[i].spent = coins[i].spent
  <2>1. coins[i] \in CoinsAt(height)
    BY DEF IInv, ChainTyped
  <2> QED
    BY <1>1, <2>1 DEF CoinsAt
<1> QED
  BY <1>1, <1>2 DEF Kept

(* Nor does a funding.                                                     *)
LEMMA ProduceKeeps == ASSUME IInv, Produce PROVE Kept(Unspent)
<1>1. PICK fresh : fresh = [confirmed |-> 0, spent |-> Unspent]
  OBVIOUS
<1>2. coins' = Append(coins, fresh) /\ fresh.spent = Unspent
  BY <1>1 DEF Produce
<1>3. coins \in Seq(CoinsAt(height))
  BY DEF IInv, ChainTyped
<1>4. \A i \in DOMAIN coins' : (i \in DOMAIN coins /\ coins'[i] = coins[i]) \/ coins'[i] = fresh
  BY <1>2, <1>3
<1> QED
  BY <1>2, <1>4, Zenon DEF Kept

(* What one more member adds to a sequence.                                *)
LEMMA AddedAfter ==
    ASSUME NEW X, NEW s \in Seq(X), NEW x \in X, NEW w, w = s \o <<x>>
    PROVE  \A i \in DOMAIN w : (i \in DOMAIN s /\ w[i] = s[i]) \/ w[i] = x
<1>1. Len(s) \in Nat /\ DOMAIN s = 1..Len(s)
  OBVIOUS
<1>2. <<x>> \in Seq(X) /\ Len(<<x>>) = 1 /\ <<x>>[1] = x
  OBVIOUS
<1>3. /\ Len(w) = Len(s) + 1 /\ DOMAIN w = 1..(Len(s) + 1)
      /\ \A i \in 1..Len(s) : w[i] = s[i]
      /\ w[Len(s) + 1] = x
  BY <1>1, <1>2
<1> QED
  BY <1>1, <1>3

(* A claim spends one output, as its claim says, at this height and time.  *)
LEMMA ClaimKeeps ==
    ASSUME IInv, Claim
    PROVE  \E claim \in TakersOf(kind, unit) :
              /\ Past(ClaimTx(claim[2]).lock)
              /\ Kept([signers |-> claim[1], height |-> height, time |-> time])
<1>0. PICK c \in DOMAIN coins, claim \in TakersOf(kind, unit) :
         /\ Past(ClaimTx(claim[2]).lock)
         /\ \E rest \in {<<>>} \cup (IF Channel /\ Len(claim[1]) = 2 /\ Len(coins) < MaxCoins
                                     THEN {<<[confirmed |-> 0, spent |-> Unspent]>>} ELSE {}) :
              coins' = [coins EXCEPT ![c].spent =
                          [signers |-> claim[1], height |-> height, time |-> time]] \o rest
  BY DEF Claim
<1>1. PICK rest, how, fresh :
         /\ how = [signers |-> claim[1], height |-> height, time |-> time]
         /\ fresh = [confirmed |-> 0, spent |-> Unspent]
         /\ rest = <<>> \/ rest = <<fresh>>
         /\ coins' = [coins EXCEPT ![c].spent = how] \o rest
  BY <1>0
<1>2. coins \in Seq(CoinsAt(height)) /\ DOMAIN coins = 1..Len(coins) /\ Len(coins) \in Nat
  BY DEF IInv, ChainTyped
<1>3. PICK cs : cs = [coins EXCEPT ![c].spent = how]
  OBVIOUS
<1>4. /\ DOMAIN cs = DOMAIN coins /\ cs[c].spent = how
      /\ \A i \in DOMAIN coins : i # c => cs[i] = coins[i]
  <2>1. coins[c] \in CoinsAt(height)
    BY <1>2
  <2>2. cs[c] = [coins[c] EXCEPT !.spent = how]
    BY <1>2, <1>3
  <2>3. cs[c].spent = how
    BY <2>1, <2>2 DEF CoinsAt
  <2> QED
    BY <1>2, <1>3, <2>3
<1>5. PICK n, X : n \in Nat /\ n = Len(coins) /\ cs \in [1..n -> X] /\ fresh \in X
  <2>1. PICK X : X = {cs[i] : i \in DOMAIN coins} \cup {fresh}
    OBVIOUS
  <2>2. cs = [i \in DOMAIN coins |-> cs[i]]
    BY <1>3
  <2>3. cs \in [DOMAIN coins -> X]
    BY <2>1, <2>2
  <2> QED
    BY <1>2, <2>1, <2>3
<1>6. cs \in Seq(X) /\ rest \in Seq(X) /\ DOMAIN cs = 1..n
  <2>1. cs \in Seq(X)
    BY <1>5, SeqDef
  <2>2. rest \in Seq(X)
    <3>1. fresh \in X
      BY <1>5
    <3>2. <<fresh>> \in Seq(X)
      BY <3>1
    <3>3. <<>> \in Seq(X)
      BY EmptySeq
    <3>4. rest = <<>> \/ rest = <<fresh>>
      BY <1>1
    <3> QED
      BY <3>2, <3>3, <3>4, Zenon
  <2>3. DOMAIN cs = 1..n
    BY <1>5
  <2> QED
    BY <2>1, <2>2, <2>3
<1>7. \A i \in DOMAIN coins' : (i \in DOMAIN cs /\ coins'[i] = cs[i]) \/ coins'[i] = fresh
  <2>1. coins' = cs \o rest
    BY <1>1, <1>3
  <2>2. CASE rest = <<>>
    BY <1>6, <2>1, <2>2
  <2>3. CASE rest = <<fresh>>
    <3>1. cs \in Seq(X) /\ fresh \in X
      BY <1>5, <1>6
    <3>2. coins' = cs \o <<fresh>>
      BY <2>1, <2>3
    <3> QED
      BY <3>1, <3>2, AddedAfter
  <2> QED
    BY <1>1, <2>2, <2>3
<1>8. fresh.spent = Unspent
  BY <1>1
<1>9. Kept(how)
  BY <1>4, <1>7, <1>8 DEF Kept
<1> QED
  BY <1>0, <1>1, <1>9

(* The wallet's own steps leave the chain.                                 *)
LEMMA OthersKeep ==
    ASSUME IInv, SaveScript \/ CheckBegins \/ CheckEnds \/ Crash \/ UNCHANGED vars
    PROVE  Kept(Unspent) /\ UNCHANGED <<kind, unit>>
BY DEF SaveScript, CheckBegins, CheckEnds, Crash, vars, Kept, chainVars

(* Every step keeps DelayRespected.                                        *)
LEMMA NextDelay == IInv /\ DelayRespected /\ [Next]_vars => DelayRespected'
<1> SUFFICES ASSUME IInv, DelayRespected, [Next]_vars PROVE DelayRespected'
  OBVIOUS
<1>1. \A i \in DOMAIN coins : coins[i].spent # Unspent => Rightly(kind, unit, coins[i].spent)
  BY DelayIsRightly
<1>2. PICK how : Kept(how) /\ (how # Unspent => Rightly(kind, unit, how))
  <2>1. CASE NextBlock
    BY <2>1, NextBlockKeeps
  <2>2. CASE Produce
    BY <2>2, ProduceKeeps
  <2>3. CASE Claim
    <3>1. PICK claim \in TakersOf(kind, unit) :
              /\ Past(ClaimTx(claim[2]).lock)
              /\ Kept([signers |-> claim[1], height |-> height, time |-> time])
      BY <2>3, ClaimKeeps
    <3>2. PICK h : h = [signers |-> claim[1], height |-> height, time |-> time]
      OBVIOUS
    <3>3. h.signers = claim[1] /\ h.height = height /\ h.time = time
      BY <3>2
    <3>4. Rightly(kind, unit, h)
      BY <3>1, <3>3, ClaimIsRight
    <3> QED
      BY <3>1, <3>2, <3>4
  <2>4. CASE SaveScript \/ CheckBegins \/ CheckEnds \/ Crash \/ UNCHANGED vars
    BY <2>4, OthersKeep
  <2> QED
    BY <2>1, <2>2, <2>3, <2>4 DEF Next
<1>3. kind' = kind /\ unit' = unit
  BY OthersKeep DEF Next, NextBlock, Claim, Produce, chainVars
<1>4. \A i \in DOMAIN coins' : coins'[i].spent # Unspent => Rightly(kind, unit, coins'[i].spent)
  BY <1>1, <1>2 DEF Kept
<1> QED
  BY <1>3, <1>4 DEF DelayRespected, Rightly

(* Whoever took an output had a share in it, and its moment had come:      *)
(* with whatever parameters, signatures and lock times the parties tried,  *)
(* for every script and all moments.                                       *)
THEOREM DelayRespectedAlways == Spec => []DelayRespected
<1>1. Init => DelayRespected
  BY DEF Init, DelayRespected
<1> QED
  BY <1>1, NextDelay, IInvAlways, PTL DEF Spec

(* Whoever has a share gets it when its moment has come, with the          *)
(* parameters that the unlock module makes and the moment as the date: no  *)
(* funds are locked for good.                                              *)
THEOREM ClaimsWorkAlways == Spec => []ClaimsWork
<1>1. IInv => ClaimsWork
  <2> SUFFICES ASSUME IInv, NEW share \in Shares(kind, unit), Past(share.date)
               PROVE  <<kind, unit, share>> \in Served /\ Past(ClaimTx(share.date).lock)
    BY DEF ClaimsWork
  <2>1. kind \in Kinds /\ unit \in Units
    BY DEF IInv, ChainTyped
  <2>2. ClaimTx(share.date).lock = share.date
    BY DEF ClaimTx
  <2> QED
    BY <2>1, <2>2, SharesServed
<1> QED
  BY <1>1, IInvAlways, PTL
=============================================================================

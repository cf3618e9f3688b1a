--------------------------- MODULE SpendingProofs ---------------------------
(***************************************************************************)
(* What holds of a call of a transaction function for any arguments, any   *)
(* coins, any offers of Mundo and any number of refreshes in between: the  *)
(* fee that is paid, who is paid what, and that a function which calls     *)
(* itself with another fee comes to an end, and has the money for it.      *)
(***************************************************************************)
EXTENDS Spending, FiniteSetTheorems, SequenceTheorems, WellFoundedInduction, TLAPS

-----------------------------------------------------------------------------
(* Sums                                                                    *)

(* A set of numbers that has a member has a least one.                     *)
LEMMA LeastExists ==
    ASSUME NEW S \in SUBSET Nat, S # {}
    PROVE  \E i \in S : \A j \in S : i <= j
<1> DEFINE R == OpToRel(<, Nat)
<1>1. IsWellFoundedOn(R, Nat)
  BY NatLessThanWellFounded
<1>2. \A i, j \in Nat : i < j => <<i, j>> \in R
  BY DEF OpToRel
<1> HIDE DEF R
<1>3. PICK i \in S : \A j \in S : ~ (<<j, i>> \in R)
  BY <1>1, WFMin
<1>4. \A j \in S : ~ (j < i)
  BY <1>2, <1>3, Zenon
<1> QED
  BY <1>4

(* f holds the sums of the first 0 to n values.                            *)
Tally(f, n, values) ==
    f = [k \in 0..n |-> IF k = 0 THEN 0 ELSE f[k - 1] + values[k]]

(* A tally of nothing.                                                     *)
LEMMA TallyBegins == ASSUME NEW values PROVE Tally([k \in 0..0 |-> 0], 0, values)
BY DEF Tally

(* A tally can take in one more value.                                     *)
LEMMA TallyAhead ==
    ASSUME NEW values, NEW n \in Nat, NEW f, Tally(f, n, values)
    PROVE  \E g : Tally(g, n + 1, values)
<1> DEFINE g == [k \in 0..(n + 1) |-> IF k = n + 1 THEN f[n] + values[n + 1] ELSE f[k]]
<1>1. \A k \in 0..n : f[k] = IF k = 0 THEN 0 ELSE f[k - 1] + values[k]
  BY DEF Tally
<1>2. \A k \in 0..(n + 1) : g[k] = IF k = 0 THEN 0 ELSE g[k - 1] + values[k]
  <2> SUFFICES ASSUME NEW k \in 0..(n + 1)
               PROVE  g[k] = IF k = 0 THEN 0 ELSE g[k - 1] + values[k]
    OBVIOUS
  <2>1. CASE k = n + 1
    BY <2>1
  <2>2. CASE k # n + 1 /\ k # 0
    <3>1. k \in 0..n /\ k - 1 \in 0..n /\ k - 1 # n + 1
      BY <2>2
    <3> QED
      BY <1>1, <2>2, <3>1
  <2>3. CASE k = 0
    BY <1>1, <2>3
  <2> QED
    BY <2>1, <2>2, <2>3
<1>3. g = [k \in 0..(n + 1) |-> g[k]]
  OBVIOUS
<1> HIDE DEF g
<1>4. Tally(g, n + 1, values)
  BY <1>2, <1>3 DEF Tally
<1> QED
  BY <1>4

(* There is a tally of any length: by the shortest that there is not.      *)
LEMMA TallyExists ==
    ASSUME NEW values, NEW n \in Nat
    PROVE  \E f : Tally(f, n, values)
<1> DEFINE Bad == {k \in Nat : ~ \E f : Tally(f, k, values)}
<1> SUFFICES ASSUME n \in Bad PROVE FALSE
  OBVIOUS
<1>1. PICK k \in Bad : \A j \in Bad : k <= j
  <2>1. Bad \in SUBSET Nat /\ Bad # {}
    OBVIOUS
  <2> HIDE DEF Bad
  <2> QED
    BY <2>1, LeastExists
<1>2. k # 0
  BY TallyBegins
<1>3. k - 1 \in Nat /\ k - 1 \notin Bad
  BY <1>1, <1>2
<1>4. \E f : Tally(f, k - 1, values)
  BY <1>3
<1>5. \E g : Tally(g, (k - 1) + 1, values)
  BY <1>3, <1>4, TallyAhead
<1> QED
  BY <1>5

(* The sums of a sequence begin at 0 and grow by each value in turn.       *)
LEMMA SumsStep ==
    ASSUME NEW values \in Seq(Int)
    PROVE  /\ Len(values) \in Nat /\ DOMAIN Sums(values) = 0..Len(values)
           /\ Sums(values)[0] = 0
           /\ \A n \in 1..Len(values) : Sums(values)[n] = Sums(values)[n - 1] + values[n]
<1> DEFINE sum == CHOOSE f : Tally(f, Len(values), values)
<1>1. Len(values) \in Nat
  OBVIOUS
<1>2. \E f : Tally(f, Len(values), values)
  BY <1>1, TallyExists
<1>3. Tally(sum, Len(values), values)
  BY <1>2
<1>4. Sums(values) = sum
  BY DEF Sums, Tally
<1> HIDE DEF sum
<1> QED
  BY <1>1, <1>3, <1>4 DEF Tally

(* They are numbers, and natural ones if the values are.                   *)
LEMMA SumsAre ==
    ASSUME NEW values \in Seq(Int), NEW n \in 0..Len(values)
    PROVE  /\ Sums(values)[n] \in Int
           /\ values \in Seq(Nat) => Sums(values)[n] \in Nat
<1> DEFINE Right(k) == /\ Sums(values)[k] \in Int
                       /\ values \in Seq(Nat) => Sums(values)[k] \in Nat
           Bad == {k \in 0..Len(values) : ~ Right(k)}
<1> SUFFICES ASSUME Bad # {} PROVE FALSE
  OBVIOUS
<1>1. PICK k \in Bad : \A j \in Bad : k <= j
  <2>1. Bad \in SUBSET Nat
    BY SumsStep
  <2> HIDE DEF Bad
  <2> QED
    BY <2>1, LeastExists
<1>2. k # 0
  BY <1>1, SumsStep
<1>3. k \in 1..Len(values) /\ k - 1 \in 0..Len(values) /\ k - 1 \notin Bad
  BY <1>1, <1>2, SumsStep
<1>4. values[k] \in Int /\ (values \in Seq(Nat) => values[k] \in Nat)
  BY <1>3
<1>5. Sums(values)[k] = Sums(values)[k - 1] + values[k]
  BY <1>3, SumsStep
<1> QED
  BY SMTT(60), <1>3, <1>4, <1>5

(* The sums of two sequences that begin alike are alike so far.            *)
Begins(s, t, k) == \A i \in 1..k : s[i] = t[i]
LEMMA SumsAgree ==
    ASSUME NEW s \in Seq(Int), NEW t \in Seq(Int), NEW n \in 0..Len(s), n <= Len(t),
           Begins(s, t, n)
    PROVE  Sums(s)[n] = Sums(t)[n]
<1> DEFINE Bad == {k \in 0..n : Sums(s)[k] # Sums(t)[k]}
<1> SUFFICES ASSUME Bad # {} PROVE FALSE
  OBVIOUS
<1>1. PICK k \in Bad : \A j \in Bad : k <= j
  <2>1. Bad \in SUBSET Nat
    BY SumsStep
  <2> HIDE DEF Bad
  <2> QED
    BY <2>1, LeastExists
<1>2. k # 0
  BY <1>1, SumsStep
<1>3. k \in 1..n /\ k \in 1..Len(s) /\ k \in 1..Len(t) /\ k - 1 \in 0..n /\ k - 1 \notin Bad
  BY SMTT(60), <1>1, <1>2, SumsStep
<1>4. s[k] = t[k]
  BY <1>3 DEF Begins
<1>5. Sums(s)[k] = Sums(s)[k - 1] + s[k] /\ Sums(t)[k] = Sums(t)[k - 1] + t[k]
  BY <1>3, SumsStep
<1> QED
  BY <1>3, <1>4, <1>5

(* A sum of sums.                                                          *)
LEMMA TotalJoined ==
    ASSUME NEW s \in Seq(Int), NEW t \in Seq(Int)
    PROVE  Total(s \o t) = Total(s) + Total(t)
<1> DEFINE u == s \o t
           m == Len(s)
           Bad == {k \in 0..Len(t) : Sums(u)[m + k] # Sums(s)[m] + Sums(t)[k]}
<1>1. u \in Seq(Int) /\ Len(u) = m + Len(t) /\ m \in Nat /\ Len(t) \in Nat
  OBVIOUS
<1>2. Sums(u)[m] = Sums(s)[m]
  <2>1. Begins(s, u, m) /\ m \in 0..Len(s) /\ m <= Len(u)
    BY <1>1 DEF Begins
  <2> HIDE DEF u
  <2> QED
    BY <1>1, <2>1, SumsAgree
<1>3. \A k \in 1..Len(t) : u[m + k] = t[k]
  BY <1>1
<1>4. Sums(s)[m] \in Int /\ \A k \in 0..Len(t) : Sums(t)[k] \in Int
  BY <1>1, SumsAre
<1> HIDE DEF u
<1>5. ASSUME Bad # {} PROVE FALSE
  <2>1. PICK k \in Bad : \A j \in Bad : k <= j
    <3>1. Bad \in SUBSET Nat
      BY <1>1
    <3> HIDE DEF Bad
    <3> QED
      BY <1>5, <3>1, LeastExists
  <2>2. k # 0
    BY <1>1, <1>2, <1>4, <2>1, SumsStep
  <2>3. k \in 1..Len(t) /\ k - 1 \in 0..Len(t) /\ k - 1 \notin Bad
    BY SMTT(60), <1>1, <2>1, <2>2
  <2>4. Sums(t)[k] = Sums(t)[k - 1] + t[k] /\ t[k] \in Int
    BY <2>3, SumsStep
  <2>5. Sums(u)[m + k] = Sums(u)[m + k - 1] + t[k]
    <3>1. m + k \in 1..Len(u)
      BY <1>1, <2>3
    <3>2. Sums(u)[m + k] = Sums(u)[m + k - 1] + u[m + k]
      <4>1. PICK j \in 1..Len(u) : j = m + k
        BY <3>1
      <4>2. Sums(u)[j] = Sums(u)[j - 1] + u[j]
        BY <1>1, SumsStep
      <4> QED
        BY <4>1, <4>2
    <3> QED
      BY <1>3, <2>3, <3>2
  <2>6. Sums(u)[m + (k - 1)] = Sums(s)[m] + Sums(t)[k - 1]
    BY <2>3
  <2>7. m + k - 1 = m + (k - 1)
    BY <1>1, <2>3
  <2>8. Sums(s)[m] \in Int /\ Sums(t)[k - 1] \in Int
    BY <1>4, <2>3
  <2>9. Sums(u)[m + k] = Sums(s)[m] + Sums(t)[k - 1] + t[k]
    BY <2>5, <2>6, <2>7
  <2>10. Sums(u)[m + k] = Sums(s)[m] + Sums(t)[k]
    BY <2>4, <2>8, <2>9
  <2> QED
    BY <2>1, <2>10
<1>6. Sums(u)[m + Len(t)] = Sums(s)[m] + Sums(t)[Len(t)]
  BY SMTT(60), <1>1, <1>5
<1>7. Sums(u)[Len(u)] = Sums(s)[Len(s)] + Sums(t)[Len(t)]
  BY <1>1, <1>6
<1> HIDE DEF m, Bad
<1> QED
  BY <1>7, Zenon DEF Total, u

(* The total of nothing, of one value, and its kind.                       *)
LEMMA TotalNothing == Total(<<>>) = 0
<1>1. <<>> \in Seq(Int) /\ Len(<<>>) = 0
  OBVIOUS
<1>2. Sums(<<>>)[0] = 0
  BY <1>1, SumsStep
<1> QED
  BY <1>1, <1>2 DEF Total
LEMMA TotalOne == ASSUME NEW v \in Int PROVE Total(<<v>>) = v
<1>1. <<v>> \in Seq(Int) /\ Len(<<v>>) = 1 /\ <<v>>[1] = v
  OBVIOUS
<1>2. \A s \in Seq(Int) : Len(s) = 1 => Sums(s)[1] = Sums(s)[0] + s[1] /\ Sums(s)[0] = 0
  <2> SUFFICES ASSUME NEW s \in Seq(Int), Len(s) = 1
               PROVE  Sums(s)[1] = Sums(s)[0] + s[1] /\ Sums(s)[0] = 0
    OBVIOUS
  <2>1. 1 \in 1..Len(s) /\ 1 - 1 = 0
    OBVIOUS
  <2> QED
    BY <2>1, SumsStep
<1>3. PICK s \in Seq(Int) : s = <<v>> /\ Len(s) = 1 /\ s[1] = v
  BY <1>1
<1>4. Total(s) = v
  <2>1. Sums(s)[1] = Sums(s)[0] + s[1] /\ Sums(s)[0] = 0
    BY <1>2, <1>3
  <2>2. Sums(s)[1] = v
    BY <1>3, <2>1
  <2> QED
    BY <1>3, <2>2 DEF Total
<1> QED
  BY <1>3, <1>4
LEMMA TotalIs ==
    ASSUME NEW s \in Seq(Int)
    PROVE  Total(s) \in Int /\ (s \in Seq(Nat) => Total(s) \in Nat)
<1>1. Len(s) \in 0..Len(s)
  BY SumsStep
<1> QED
  BY <1>1, SumsAre DEF Total

(* The total of zeros.                                                     *)
LEMMA TotalZeros ==
    ASSUME NEW s \in Seq(Int), \A i \in 1..Len(s) : s[i] = 0
    PROVE  Total(s) = 0
<1> DEFINE Bad == {k \in 0..Len(s) : Sums(s)[k] # 0}
<1>1. ASSUME Bad # {} PROVE FALSE
  <2>1. PICK k \in Bad : \A j \in Bad : k <= j
    <3>1. Bad \in SUBSET Nat
      BY SumsStep
    <3> HIDE DEF Bad
    <3> QED
      BY <1>1, <3>1, LeastExists
  <2>2. k # 0
    BY <2>1, SumsStep
  <2>3. k \in 1..Len(s) /\ k - 1 \in 0..Len(s) /\ k - 1 \notin Bad
    BY <2>1, <2>2, SumsStep
  <2>4. Sums(s)[k] = Sums(s)[k - 1] + s[k]
    BY <2>3, SumsStep
  <2> QED
    BY <2>1, <2>3, <2>4
<1> QED
  BY <1>1, SumsStep DEF Total

-----------------------------------------------------------------------------
(* Outputs                                                                 *)

Recipients == {"self", "nobody", "payee", "mundo", "bridge", "channel", "burn", "script"}
Payments == [asset : {"satori", "currency", "memo"}, to : Recipients, slot : Nat, value : Int]

(* What the outputs hold of an asset, one by one.                          *)
Of(outs, asset) == [i \in DOMAIN outs |-> IF outs[i].asset = asset THEN outs[i].value ELSE 0]

LEMMA OfIs ==
    ASSUME NEW outs \in Seq(Payments), NEW asset
    PROVE  /\ Of(outs, asset) \in Seq(Int) /\ Len(Of(outs, asset)) = Len(outs)
           /\ \A i \in 1..Len(outs) :
                  Of(outs, asset)[i] = IF outs[i].asset = asset THEN outs[i].value ELSE 0
           /\ Values(outs, asset) = Total(Of(outs, asset)) /\ Len(outs) \in Nat
<1>1. Len(outs) \in Nat /\ DOMAIN outs = 1..Len(outs)
  OBVIOUS
<1>2. \A i \in 1..Len(outs) : outs[i] \in Payments
  BY <1>1
<1>3. \A i \in 1..Len(outs) : outs[i].value \in Int
  BY <1>2 DEF Payments
<1>4. Of(outs, asset) \in [1..Len(outs) -> Int]
  BY <1>1, <1>3 DEF Of
<1>5. Of(outs, asset) \in Seq(Int)
  BY <1>1, <1>4, SeqDef
<1> QED
  BY <1>1, <1>4, <1>5 DEF Of, Values

(* What is in two lists of outputs is in one or the other.                 *)
LEMMA ValuesJoined ==
    ASSUME NEW a \in Seq(Payments), NEW b \in Seq(Payments), NEW asset
    PROVE  Values(a \o b, asset) = Values(a, asset) + Values(b, asset)
<1>1. a \o b \in Seq(Payments)
  OBVIOUS
<1>2. PICK c \in Seq(Payments) : c = a \o b
  BY <1>1
<1>3. /\ Len(a) \in Nat /\ Len(b) \in Nat /\ Len(c) = Len(a) + Len(b)
      /\ \A i \in 1..Len(c) : c[i] = IF i <= Len(a) THEN a[i] ELSE b[i - Len(a)]
  BY <1>2
<1>4. /\ Of(a, asset) \in Seq(Int) /\ Len(Of(a, asset)) = Len(a)
      /\ \A i \in 1..Len(a) :
            Of(a, asset)[i] = IF a[i].asset = asset THEN a[i].value ELSE 0
  BY OfIs
<1>5. /\ Of(b, asset) \in Seq(Int) /\ Len(Of(b, asset)) = Len(b)
      /\ \A i \in 1..Len(b) :
            Of(b, asset)[i] = IF b[i].asset = asset THEN b[i].value ELSE 0
  BY OfIs
<1>6. /\ Of(c, asset) \in Seq(Int) /\ Len(Of(c, asset)) = Len(c)
      /\ \A i \in 1..Len(c) :
            Of(c, asset)[i] = IF c[i].asset = asset THEN c[i].value ELSE 0
  BY OfIs
<1>7. Of(c, asset) = Of(a, asset) \o Of(b, asset)
  <2>1. PICK x \in Seq(Int), y \in Seq(Int), z \in Seq(Int) :
           x = Of(a, asset) /\ y = Of(b, asset) /\ z = Of(c, asset)
    BY <1>4, <1>5, <1>6
  <2>2. Len(z) = Len(x) + Len(y) /\ Len(x) = Len(a) /\ Len(x) \in Nat /\ Len(y) \in Nat
    BY <1>3, <1>4, <1>5, <1>6, <2>1
  <2>3. \A i \in 1..Len(z) : z[i] = IF i <= Len(x) THEN x[i] ELSE y[i - Len(x)]
    <3> SUFFICES ASSUME NEW i \in 1..Len(z)
                 PROVE  z[i] = IF i <= Len(x) THEN x[i] ELSE y[i - Len(x)]
      OBVIOUS
    <3>1. i \in 1..Len(c) /\ z[i] = IF c[i].asset = asset THEN c[i].value ELSE 0
      BY <1>6, <2>1
    <3>2. CASE i <= Len(x)
      <4>1. i \in 1..Len(a) /\ c[i] = a[i]
        BY <1>3, <2>2, <3>1, <3>2
      <4> QED
        BY <1>4, <2>1, <3>1, <3>2, <4>1
    <3>3. CASE ~ (i <= Len(x))
      <4>1. PICK j \in 1..Len(b) : j = i - Len(a) /\ c[i] = b[j]
        <5>1. i - Len(a) \in 1..Len(b) /\ ~ (i <= Len(a))
          BY <1>3, <2>2, <3>1, <3>3
        <5>2. c[i] = b[i - Len(a)]
          BY <1>3, <3>1, <5>1
        <5> QED
          BY <5>1, <5>2
      <4>2. y[j] = IF b[j].asset = asset THEN b[j].value ELSE 0
        BY <1>5, <2>1
      <4> QED
        BY <2>2, <3>1, <3>3, <4>1, <4>2
    <3> QED
      BY <3>2, <3>3
  <2>4. z = x \o y
    <3>1. /\ x \o y \in Seq(Int) /\ Len(x \o y) = Len(x) + Len(y)
          /\ \A i \in 1..(Len(x) + Len(y)) :
                (x \o y)[i] = IF i <= Len(x) THEN x[i] ELSE y[i - Len(x)]
      BY ConcatProperties
    <3>2. PICK w \in Seq(Int) : w = x \o y
      BY <3>1
    <3>3. Len(w) = Len(z) /\ \A i \in 1..Len(z) : w[i] = z[i]
      BY <2>2, <2>3, <3>1, <3>2
    <3>4. w = z
      BY <3>3, SeqEqual
    <3> QED
      BY <3>2, <3>4
  <2> QED
    BY <2>1, <2>4
<1>8. Values(c, asset) = Total(Of(a, asset) \o Of(b, asset))
  BY <1>7, OfIs
<1>9. Total(Of(a, asset) \o Of(b, asset)) = Total(Of(a, asset)) + Total(Of(b, asset))
  BY <1>4, <1>5, TotalJoined
<1>10. Values(a, asset) = Total(Of(a, asset)) /\ Values(b, asset) = Total(Of(b, asset))
  BY OfIs
<1> QED
  BY <1>2, <1>8, <1>9, <1>10

(* An output holds its value, of its own asset.                            *)
LEMMA ValuesOne ==
    ASSUME NEW out \in Payments, NEW asset
    PROVE  Values(<<out>>, asset) = IF out.asset = asset THEN out.value ELSE 0
<1> DEFINE v == IF out.asset = asset THEN out.value ELSE 0
<1>1. v \in Int
  BY DEF Payments
<1>2. <<out>> \in Seq(Payments) /\ Len(<<out>>) = 1 /\ <<out>>[1] = out
  OBVIOUS
<1>3. PICK s \in Seq(Payments) : s = <<out>> /\ Len(s) = 1 /\ s[1] = out
  BY <1>2
<1>4. Of(s, asset) \in Seq(Int) /\ Len(Of(s, asset)) = 1 /\ Of(s, asset)[1] = v
  <2>1. 1 \in 1..Len(s)
    BY <1>3
  <2>2. Of(s, asset)[1] = IF s[1].asset = asset THEN s[1].value ELSE 0
    BY <2>1, OfIs
  <2> QED
    BY <1>3, <2>2, OfIs
<1> HIDE DEF v
<1>5. Of(s, asset) = <<v>>
  <2>1. PICK x \in Seq(Int) : x = Of(s, asset)
    BY <1>4
  <2>2. x = <<v>>
    BY <1>4, <2>1
  <2> QED
    BY <2>1, <2>2
<1>6. Values(s, asset) = v
  BY <1>1, <1>5, OfIs, TotalOne
<1> QED
  BY <1>3, <1>6 DEF v

LEMMA ValuesNothing == ASSUME NEW asset PROVE Values(<<>>, asset) = 0
<1>1. <<>> \in Seq(Payments) /\ Len(<<>>) = 0
  OBVIOUS
<1>2. PICK s \in Seq(Payments) : s = <<>> /\ Len(s) = 0
  BY <1>1
<1>3. Of(s, asset) \in Seq(Int) /\ Len(Of(s, asset)) = 0 /\ Values(s, asset) = Total(Of(s, asset))
  BY <1>2, OfIs
<1>4. Total(Of(s, asset)) = 0
  <2>1. \A i \in 1..Len(Of(s, asset)) : Of(s, asset)[i] = 0
    BY <1>3
  <2> QED
    BY <1>3, <2>1, TotalZeros
<1> QED
  BY <1>2, <1>3, <1>4

(* Outputs of other assets hold none.                                      *)
LEMMA ValuesOther ==
    ASSUME NEW outs \in Seq(Payments), NEW asset, \A i \in 1..Len(outs) : outs[i].asset # asset
    PROVE  Values(outs, asset) = 0
<1>1. Of(outs, asset) \in Seq(Int) /\ \A i \in 1..Len(Of(outs, asset)) : Of(outs, asset)[i] = 0
  BY OfIs
<1> QED
  BY <1>1, OfIs, TotalZeros

(* What outputs hold is a number, natural if every output's is.            *)
LEMMA ValuesAre ==
    ASSUME NEW outs \in Seq(Payments), NEW asset
    PROVE  /\ Values(outs, asset) \in Int
           /\ (\A i \in 1..Len(outs) : outs[i].value >= 0) => Values(outs, asset) \in Nat
<1>1. Of(outs, asset) \in Seq(Int) /\ Len(Of(outs, asset)) = Len(outs)
  BY OfIs
<1>2. ASSUME \A i \in 1..Len(outs) : outs[i].value >= 0
      PROVE  Of(outs, asset) \in Seq(Nat)
  <2>1. \A i \in 1..Len(outs) : Of(outs, asset)[i] \in Nat
    <3> SUFFICES ASSUME NEW i \in 1..Len(outs) PROVE Of(outs, asset)[i] \in Nat
      OBVIOUS
    <3>1. outs[i].value \in Int /\ outs[i].value >= 0
      <4>1. outs[i] \in Payments
        OBVIOUS
      <4> QED
        BY <1>2, <4>1 DEF Payments
    <3> QED
      BY <3>1, OfIs
  <2>2. PICK x \in Seq(Int) : x = Of(outs, asset)
    BY <1>1
  <2>3. x \in [1..Len(x) -> Nat] /\ Len(x) \in Nat
    BY <1>1, <2>1, <2>2
  <2> QED
    BY SMTT(60), <2>2, <2>3, SeqDef
<1> QED
  BY <1>1, <1>2, OfIs, TotalIs

-----------------------------------------------------------------------------
(* The coins that are gathered                                             *)

(* Coins are taken from the front; some are, if there are any and          *)
(* something is needed.                                                    *)
LEMMA TakenIs ==
    ASSUME NEW coins \in Seq(Nat), NEW need
    PROVE  /\ Taken(coins, need) \in Seq(Nat)
           /\ coins # <<>> /\ need[0] \in Nat \ {0} => Taken(coins, need) # <<>>
<1> DEFINE n == Len(coins)
           T == Enough(coins, need) \cup {n}
<1>1. n \in Nat /\ coins \in Seq(Int) /\ \A i \in 1..n : coins[i] \in Nat
  <2>1. Nat \subseteq Int
    OBVIOUS
  <2>2. coins \in Seq(Int)
    BY <2>1, SeqMonotonic
  <2> QED
    BY <2>2
<1>2. T \in SUBSET Nat /\ T \subseteq 0..n /\ T # {}
  BY <1>1 DEF Enough
<1>3. Min(T) \in T
  <2> HIDE DEF T
  <2>1. \E i \in T : \A j \in T : i <= j
    BY <1>2, LeastExists
  <2>2. \E i \in T : \A j \in T : i =< j
    BY <2>1
  <2> QED
    BY <2>2 DEF Min
<1>4. PICK k \in 0..n : k = Min(T)
  BY <1>2, <1>3
<1>5. Taken(coins, need) = SubSeq(coins, 1, k)
  BY <1>4 DEF Taken
<1>6. /\ SubSeq(coins, 1, k) \in Seq(Nat)
      /\ Len(SubSeq(coins, 1, k)) = IF 1 <= k THEN k - 1 + 1 ELSE 0
  <2>1. \A i \in 1..k : coins[i] \in Nat
    BY <1>1
  <2>2. 1 \in Int /\ k \in Int
    OBVIOUS
  <2> QED
    BY <2>1, <2>2, SubSeqProperties
<1>7. ASSUME coins # <<>>, need[0] \in Nat \ {0}, k = 0 PROVE FALSE
  <2>1. n # 0
    BY <1>7
  <2>2. 0 \in Enough(coins, need)
    BY <1>3, <1>4, <1>7, <2>1
  <2>3. Sums(coins)[0] >= need[0]
    BY <2>2 DEF Enough
  <2>4. Sums(coins)[0] = 0
    BY <1>1, SumsStep
  <2>5. 0 >= need[0]
    BY <2>3, <2>4
  <2> QED
    BY <1>7, <2>5
<1> QED
  <2>1. ASSUME coins # <<>>, need[0] \in Nat \ {0} PROVE SubSeq(coins, 1, k) # <<>>
    <3>1. k # 0
      BY <1>7, <2>1
    <3>2. 1 <= k
      BY <3>1
    <3> QED
      BY <1>6, <3>2
  <2> QED
    BY <1>5, <1>6, <2>1

(* The wallet's coins, of either asset.                                    *)
CoinsAre == purse \in Seq(Nat) /\ assets \in Seq(Nat)

LEMMA GatherIs ==
    ASSUME CoinsAre, NEW need
    PROVE  /\ GatherCurrency(need) \in Seq(Nat)
           /\ purse # <<>> /\ need[0] \in Nat \ {0} => GatherCurrency(need) # <<>>
<1>1. purse \in Seq(Nat)
  BY DEF CoinsAre
<1>2. Reverse(purse) \in Seq(Nat) /\ (purse # <<>> => Reverse(purse) # <<>>)
  <2>1. Len(purse) \in Nat /\ \A i \in 1..Len(purse) : purse[i] \in Nat
    BY <1>1
  <2>2. Reverse(purse) \in [1..Len(purse) -> Nat]
    BY <2>1 DEF Reverse
  <2>3. Reverse(purse) \in Seq(Nat) /\ Len(Reverse(purse)) = Len(purse)
    BY <2>1, <2>2, SeqDef
  <2>4. PICK r \in Seq(Nat) : r = Reverse(purse)
    BY <2>3
  <2> QED
    BY <1>1, <2>3, <2>4
<1> QED
  BY <1>1, <1>2, TakenIs DEF GatherCurrency

LEMMA GatherSatoriIs ==
    ASSUME CoinsAre, NEW sats
    PROVE  GatherSatori(sats) \in Seq(Nat)
BY TakenIs DEF GatherSatori, CoinsAre

(* Coins are so many, and worth so much.                                   *)
LEMMA CoinsTotal ==
    ASSUME NEW coins \in Seq(Nat)
    PROVE  Total(coins) \in Nat /\ Len(coins) \in Nat /\ (coins = <<>> => Total(coins) = 0)
<1>1. coins \in Seq(Int)
  <2>1. Nat \subseteq Int
    OBVIOUS
  <2> QED
    BY <2>1, SeqMonotonic
<1> QED
  BY <1>1, TotalIs, TotalNothing

-----------------------------------------------------------------------------
(* Sizes and fees                                                          *)

IsTx(t) ==
    /\ t.outs \in Seq(Payments)
    /\ t.ins \in Nat /\ t.claims \in Nat /\ t.satoriIn \in Nat /\ t.currencyIn \in Nat

(* The fee the network requires is a natural number, and the signatures    *)
(* may be shorter by a byte each.                                          *)
LEMMA RequiredIs ==
    ASSUME NEW t, IsTx(t), NEW shorter \in {0, t.ins + t.claims}
    PROVE  RequiredFee(t, shorter) \in Nat /\ shorter \in 0..(t.ins + t.claims)
<1> DEFINE sizes == [i \in DOMAIN t.outs |-> OutputSize(t.outs[i])]
<1>1. t.ins \in Nat /\ t.claims \in Nat /\ t.outs \in Seq(Payments)
  BY DEF IsTx
<1>2. \A i \in 1..Len(t.outs) : OutputSize(t.outs[i]) \in Nat
  <2> SUFFICES ASSUME NEW i \in 1..Len(t.outs) PROVE OutputSize(t.outs[i]) \in Nat
    OBVIOUS
  <2>1. t.outs[i] \in Payments
    BY <1>1
  <2>2. t.outs[i].asset \in {"satori", "currency", "memo"}
    BY <2>1 DEF Payments
  <2> QED
    BY <2>2 DEF OutputSize, AssetSize, OutSize, MemoSize
<1>3. sizes \in Seq(Nat)
  <2>1. Len(t.outs) \in Nat /\ DOMAIN t.outs = 1..Len(t.outs)
    BY <1>1
  <2>2. sizes \in [1..Len(t.outs) -> Nat]
    BY <1>2, <2>1
  <2> QED
    BY <2>1, <2>2, SeqDef
<1>4. Total(sizes) \in Nat
  BY <1>3, CoinsTotal
<1>5. RequiredFee(t, shorter) = 11 * (10 + 148 * t.ins + 260 * t.claims - shorter + Total(sizes))
  BY DEF RequiredFee, Size, PerByte, BaseSize, InSize, ClaimSize
<1> HIDE DEF sizes
<1>6. PICK a \in Nat, c \in Nat, z \in Nat : a = t.ins /\ c = t.claims /\ z = Total(sizes)
  BY <1>1, <1>4
<1>7. shorter \in 0..(a + c)
  BY <1>6
<1>8. 11 * (10 + 148 * a + 260 * c - shorter + z) \in Nat
  BY <1>7
<1> QED
  BY <1>5, <1>6, <1>7, <1>8

-----------------------------------------------------------------------------
(* The plans of the transaction functions                                  *)

(* The lists of a plan are lists of outputs, each of its asset, and a memo *)
(* pays nobody.                                                            *)
Listed(plan) ==
    /\ plan.satori \in Seq(Payments) /\ \A i \in 1..Len(plan.satori) : plan.satori[i].asset = "satori"
    /\ plan.currency \in Seq(Payments)
    /\ \A i \in 1..Len(plan.currency) : plan.currency[i].asset = "currency"
    /\ plan.memo \in Seq(Payments)
    /\ \A i \in 1..Len(plan.memo) : /\ plan.memo[i].asset = "memo" /\ plan.memo[i].to = "nobody"
                                    /\ plan.memo[i].value = 0
    /\ \A i \in 1..Len(plan.satori) : plan.satori[i].value >= 0

(* What a plan pays comes out of coins that are gathered, or else out of   *)
(* the claimed outputs of a lock, less the fee.                            *)
Sourced(plan) ==
    /\ plan.claims \in Nat /\ plan.counts \in Nat /\ plan.first \in Nat /\ plan.bump \in Nat
    /\ plan.expects \in Nat
    /\ \/ /\ plan.gathers = {"satori", "currency"} /\ plan.claims = 0
          /\ plan.expects > 0 \/ plan.first > 0
          /\ \A i \in 1..Len(plan.currency) : plan.currency[i].value >= 0
       \/ /\ plan.gathers = {"currency"}
          /\ plan.expects > 0 \/ plan.first > 0
          /\ \A i \in 1..Len(plan.currency) : plan.currency[i].value >= 0
       \/ /\ plan.gathers = {} /\ plan.first > 0 /\ plan.satori = <<>> /\ plan.claims > 0
          /\ Values(plan.currency, "currency") = task.amount * plan.claims - FirstFee(plan)

(* What the i-th output of a transaction may pay, see Asked.               *)
Owed(plan, out, i) ==
    \/ out.to = "script" /\ out.slot = i /\ out.value = task.amount
    \/ /\ out.to = "payee"
       /\ \/ out.value = task.amount \/ out.value = task.amount * plan.claims
          \/ /\ plan.claims > 0 /\ plan.gathers = {}
             /\ out.value = task.amount * plan.claims - FirstFee(plan)
    \/ out.to = "bridge" /\ out.value = BridgeFee
    \/ out.to = "burn" /\ out.value = task.amount

Pays(plan) == plan.satori \o plan.currency
PaysAsked(plan) == \A i \in 1..Len(Pays(plan)) : Owed(plan, Pays(plan)[i], i)
PaysAll(plan)   == plan.claims > 0 \/ Len(Pays(plan)) >= task.outs
PaysFee(plan)   == Settling => plan.settles

GoodPlan(plan) == Listed(plan) /\ Sourced(plan) /\ PaysAsked(plan) /\ PaysAll(plan) /\ PaysFee(plan)

(* A call is one of those considered, and Mundo's fees are numbers.        *)
Called == IsCall(task) /\ override \in Nat

LEMMA CallIs ==
    ASSUME Called
    PROVE  /\ task.amount \in Nat /\ task.outs \in Nat /\ task.outs > 0
           /\ task.kind \notin Repeating => task.outs = 1
           /\ override \in Nat /\ BridgeFee \in Nat /\ MundoFee \in Nat /\ Reserve \in Nat
           /\ Reserve > 0 /\ task.given \in Nat
BY SpendingAssumption DEF Called, IsCall

LEMMA MemoIs ==
    /\ Memo \in Seq(Payments)
    /\ \A i \in 1..Len(Memo) : /\ Memo[i].asset = "memo" /\ Memo[i].to = "nobody"
                               /\ Memo[i].value = 0
    /\ MemoCount \in Nat
<1>1. Output("memo", "nobody", 0) \in Payments
  BY DEF Output, Payments, Recipients
<1>2. CASE task.memo = "fits"
  <2>1. Memo = <<Output("memo", "nobody", 0)>>
    BY <1>2 DEF Memo
  <2>2. PICK o \in Payments : o = Output("memo", "nobody", 0)
    BY <1>1
  <2>3. o.asset = "memo" /\ o.to = "nobody" /\ o.value = 0
    BY <2>2 DEF Output
  <2>4. Memo = <<o>>
    BY <2>1, <2>2
  <2> QED
    BY <2>3, <2>4 DEF MemoCount
<1>3. CASE task.memo # "fits"
  BY <1>3 DEF Memo, MemoCount
<1> QED
  BY <1>2, <1>3

(* A lock has an output for each of its scripts, at its place.             *)
AreLocks(outs, asset) ==
    /\ outs \in Seq(Payments) /\ Len(outs) = task.outs
    /\ \A i \in 1..Len(outs) : /\ outs[i].asset = asset /\ outs[i].to = "script"
                               /\ outs[i].slot = i /\ outs[i].value = task.amount

LEMMA LocksAre ==
    ASSUME Called
    PROVE  AreLocks(Each(Satori), "satori") /\ AreLocks(Each(Currency), "currency")
<1>1. task.amount \in Nat /\ task.outs \in Nat
  BY CallIs
<1>2. AreLocks(Each(Satori), "satori")
  <2> DEFINE made == [i \in 1..task.outs |-> [asset |-> "satori", to |-> "script", slot |-> i,
                                             value |-> task.amount]]
  <2>1. Each(Satori) = made
    BY DEF Each, Satori, Output
  <2>2. made \in [1..task.outs -> Payments]
    BY <1>1 DEF Payments, Recipients
  <2>3. made \in Seq(Payments) /\ Len(made) = task.outs
    BY <1>1, <2>2, SeqDef
  <2>4. \A i \in 1..task.outs : /\ made[i].asset = "satori" /\ made[i].to = "script"
                                /\ made[i].slot = i /\ made[i].value = task.amount
    OBVIOUS
  <2> HIDE DEF made
  <2> QED
    BY <2>1, <2>3, <2>4 DEF AreLocks
<1>3. AreLocks(Each(Currency), "currency")
  <2> DEFINE made == [i \in 1..task.outs |-> [asset |-> "currency", to |-> "script", slot |-> i,
                                             value |-> task.amount]]
  <2>1. Each(Currency) = made
    BY DEF Each, Currency, Output
  <2>2. made \in [1..task.outs -> Payments]
    BY <1>1 DEF Payments, Recipients
  <2>3. made \in Seq(Payments) /\ Len(made) = task.outs
    BY <1>1, <2>2, SeqDef
  <2>4. \A i \in 1..task.outs : /\ made[i].asset = "currency" /\ made[i].to = "script"
                                /\ made[i].slot = i /\ made[i].value = task.amount
    OBVIOUS
  <2> HIDE DEF made
  <2> QED
    BY <2>1, <2>3, <2>4 DEF AreLocks
<1> QED
  BY <1>2, <1>3

(* A plan that locks an asset, and nothing else.                           *)
Locks(plan) ==
    /\ \/ plan.satori = Each(Satori) /\ plan.currency = <<>> /\ plan.gathers = {"satori", "currency"}
       \/ plan.satori = <<>> /\ plan.currency = Each(Currency) /\ plan.gathers = {"currency"}
    /\ plan.memo = Memo /\ plan.claims = 0 /\ plan.first = 0
    /\ plan.counts \in Nat /\ plan.bump \in Nat /\ plan.expects \in Nat /\ plan.expects > 0

LEMMA LocksGood ==
    ASSUME Called, NEW plan, Locks(plan)
    PROVE  Listed(plan) /\ Sourced(plan) /\ PaysAsked(plan) /\ PaysAll(plan)
<1>1. task.amount \in Nat /\ task.outs \in Nat
  BY CallIs
<1>2. <<>> \in Seq(Payments) /\ Len(<<>>) = 0
  OBVIOUS
<1>3. PICK e \in Seq(Payments) : e = <<>> /\ Len(e) = 0
  BY <1>2
<1>4. \E asset : AreLocks(Pays(plan), asset)
  <2>1. PICK s \in Seq(Payments), c \in Seq(Payments) : s = Each(Satori) /\ c = Each(Currency)
    BY LocksAre DEF AreLocks
  <2>2. s \o <<>> = s /\ <<>> \o c = c
    BY ConcatEmptySeq
  <2>3. Pays(plan) = Each(Satori) \/ Pays(plan) = Each(Currency)
    BY <2>1, <2>2 DEF Pays, Locks
  <2> QED
    BY <2>3, LocksAre
<1>5. PaysAsked(plan) /\ PaysAll(plan)
  BY <1>1, <1>4 DEF AreLocks, PaysAsked, PaysAll, Owed
<1>6. CASE plan.satori = Each(Satori) /\ plan.currency = <<>> /\ plan.gathers = {"satori", "currency"}
  <2>1. AreLocks(plan.satori, "satori")
    BY <1>6, LocksAre
  <2>2. plan.currency = e
    BY <1>3, <1>6
  <2>3. Listed(plan)
    BY <1>1, <1>3, <2>1, <2>2, MemoIs DEF Listed, Locks, AreLocks
  <2>4. Sourced(plan)
    BY <1>3, <1>6, <2>2 DEF Sourced, Locks
  <2> QED
    BY <1>5, <2>3, <2>4
<1>7. CASE plan.satori = <<>> /\ plan.currency = Each(Currency) /\ plan.gathers = {"currency"}
  <2>1. AreLocks(plan.currency, "currency")
    BY <1>7, LocksAre
  <2>2. plan.satori = e
    BY <1>3, <1>7
  <2>3. Listed(plan)
    BY <1>1, <1>3, <2>1, <2>2, MemoIs DEF Listed, Locks, AreLocks
  <2>4. Sourced(plan)
    BY <1>1, <1>7, <2>1 DEF Sourced, Locks, AreLocks
  <2> QED
    BY <1>5, <2>3, <2>4
<1> QED
  BY <1>6, <1>7 DEF Locks

(* A single output, of either asset.                                       *)
Kinds == {"satori", "currency"}
LEMMA OutputIs ==
    ASSUME NEW asset \in Kinds \cup {"memo"}, NEW to \in Recipients, NEW value \in Int
    PROVE  /\ Output(asset, to, value) \in Payments
           /\ Output(asset, to, value).asset = asset /\ Output(asset, to, value).to = to
           /\ Output(asset, to, value).value = value
BY DEF Output, Payments, Kinds

(* The functions that pay an amount of SATORI, of currency, or of both.    *)
LEMMA satoriGood ==
    ASSUME Called, task.outs = 1
    PROVE  GoodPlan(satoriTransaction)
<1> DEFINE p == satoriTransaction
           o == Satori("payee", task.amount)
<1>1. task.amount \in Nat /\ task.outs \in Nat
  BY CallIs
<1>2. o \in Payments /\ o.asset = "satori" /\ o.to = "payee" /\ o.value = task.amount
  BY <1>1, OutputIs DEF Satori, Kinds, Recipients
<1>3. /\ p.satori = <<o>> /\ p.currency = <<>> /\ p.memo = <<>> /\ p.expects = 3 /\ p.counts = 3
      /\ p.claims = 0 /\ p.first = 0 /\ p.bump = 0 /\ p.gathers = {"satori", "currency"}
      /\ p.settles = TRUE
  BY DEF satoriTransaction, Plan
<1> HIDE DEF p, o
<1>4. p.satori \in Seq(Payments) /\ Len(p.satori) = 1 /\ p.satori[1] = o
  BY <1>2, <1>3
<1>5. Listed(p)
  BY <1>1, <1>2, <1>3, <1>4 DEF Listed
<1>6. Sourced(p)
  BY <1>3 DEF Sourced
<1>7. Pays(p) = p.satori
  BY <1>3, <1>4, ConcatEmptySeq DEF Pays
<1>8. PaysAsked(p) /\ PaysAll(p)
  BY <1>2, <1>4, <1>7 DEF PaysAsked, PaysAll, Owed
<1> QED
  BY <1>3, <1>5, <1>6, <1>8 DEF GoodPlan, PaysFee, p

LEMMA currencyGood ==
    ASSUME Called, task.outs = 1
    PROVE  GoodPlan(currencyTransaction)
<1> DEFINE p == currencyTransaction
           o == Currency("payee", task.amount)
<1>1. task.amount \in Nat /\ task.outs \in Nat
  BY CallIs
<1>2. o \in Payments /\ o.asset = "currency" /\ o.to = "payee" /\ o.value = task.amount
  BY <1>1, OutputIs DEF Currency, Kinds, Recipients
<1>3. /\ p.satori = <<>> /\ p.currency = <<o>> /\ p.memo = <<>> /\ p.expects = 1 /\ p.counts = 2
      /\ p.claims = 0 /\ p.first = 0 /\ p.bump = 0 /\ p.gathers = {"currency"}
      /\ p.settles = TRUE
  BY DEF currencyTransaction, Plan
<1> HIDE DEF p, o
<1>4. p.currency \in Seq(Payments) /\ Len(p.currency) = 1 /\ p.currency[1] = o
  BY <1>2, <1>3
<1>5. Listed(p)
  <2>1. \A i \in 1..Len(p.currency) : p.currency[i].asset = "currency"
    BY <1>2, <1>4
  <2>2. p.satori \in Seq(Payments) /\ Len(p.satori) = 0 /\ p.memo \in Seq(Payments) /\ Len(p.memo) = 0
    BY <1>3
  <2> QED
    BY <1>4, <2>1, <2>2 DEF Listed
<1>6. Sourced(p)
  <2>1. \A i \in 1..Len(p.currency) : p.currency[i].value >= 0
    BY <1>1, <1>2, <1>4
  <2> QED
    BY <1>3, <2>1 DEF Sourced
<1>7. Pays(p) = p.currency
  BY <1>3, <1>4, ConcatEmptySeq DEF Pays
<1>8. PaysAsked(p) /\ PaysAll(p)
  BY <1>2, <1>4, <1>7 DEF PaysAsked, PaysAll, Owed
<1> QED
  BY <1>3, <1>5, <1>6, <1>8 DEF GoodPlan, PaysFee, p

LEMMA bothGood ==
    ASSUME Called, task.outs = 1
    PROVE  GoodPlan(satoriAndCurrencyTransaction)
<1> DEFINE p == satoriAndCurrencyTransaction
           o == Satori("payee", task.amount)
           q == Currency("payee", task.amount)
<1>1. task.amount \in Nat /\ task.outs \in Nat
  BY CallIs
<1>2. /\ o \in Payments /\ o.asset = "satori" /\ o.to = "payee" /\ o.value = task.amount
      /\ q \in Payments /\ q.asset = "currency" /\ q.to = "payee" /\ q.value = task.amount
  BY <1>1, OutputIs DEF Satori, Currency, Kinds, Recipients
<1>3. /\ p.satori = <<o>> /\ p.currency = <<q>> /\ p.memo = <<>> /\ p.expects = 4 /\ p.counts = 4
      /\ p.claims = 0 /\ p.first = 0 /\ p.bump = 0 /\ p.gathers = {"satori", "currency"}
      /\ p.settles = TRUE
  BY DEF satoriAndCurrencyTransaction, Plan
<1> HIDE DEF p, o, q
<1>4. /\ p.satori \in Seq(Payments) /\ Len(p.satori) = 1 /\ p.satori[1] = o
      /\ p.currency \in Seq(Payments) /\ Len(p.currency) = 1 /\ p.currency[1] = q
  BY <1>2, <1>3
<1>5. Listed(p)
  <2>1. \A i \in 1..Len(p.currency) : p.currency[i].asset = "currency"
    BY <1>2, <1>4
  <2>2. \A i \in 1..Len(p.satori) : p.satori[i].asset = "satori" /\ p.satori[i].value >= 0
    BY <1>1, <1>2, <1>4
  <2>3. p.memo \in Seq(Payments) /\ Len(p.memo) = 0
    BY <1>3
  <2> QED
    BY <1>4, <2>1, <2>2, <2>3 DEF Listed
<1>6. Sourced(p)
  <2>1. \A i \in 1..Len(p.currency) : p.currency[i].value >= 0
    BY <1>1, <1>2, <1>4
  <2> QED
    BY <1>3, <2>1 DEF Sourced
<1>7. Len(Pays(p)) = 2 /\ Pays(p)[1] = o /\ Pays(p)[2] = q
  BY <1>2, <1>3 DEF Pays
<1>8. PaysAsked(p) /\ PaysAll(p)
  BY <1>2, <1>7 DEF PaysAsked, PaysAll, Owed
<1> QED
  BY <1>3, <1>5, <1>6, <1>8 DEF GoodPlan, PaysFee, p

(* Claims of SATORI and of currency.                                       *)
LEMMA claimSatoriGood ==
    ASSUME Called, NEW n \in Nat, n > 0
    PROVE  GoodPlan(ClaimSatori(n))
<1> DEFINE p == ClaimSatori(n)
           o == Satori("payee", n * task.amount)
<1>1. task.amount \in Nat /\ task.outs \in Nat /\ n * task.amount \in Nat
  BY CallIs
<1>2. o \in Payments /\ o.asset = "satori" /\ o.to = "payee" /\ o.value = n * task.amount
  BY <1>1, OutputIs DEF Satori, Kinds, Recipients
<1>3. /\ p.satori = <<o>> /\ p.currency = <<>> /\ p.memo = Memo /\ p.expects = 0 /\ p.counts = 0
      /\ p.claims = n /\ p.first = 2500 /\ p.bump = 0 /\ p.gathers = {"currency"}
      /\ p.settles = TRUE
  BY DEF ClaimSatori, Plan, DefaultFee
<1>9. n * task.amount = task.amount * n
  BY <1>1
<1> HIDE DEF p, o
<1>4. p.satori \in Seq(Payments) /\ Len(p.satori) = 1 /\ p.satori[1] = o
  BY <1>2, <1>3
<1>10. \A i \in 1..Len(p.satori) : p.satori[i].asset = "satori" /\ p.satori[i].value >= 0
  BY <1>1, <1>2, <1>4
<1>5. Listed(p)
  BY <1>3, <1>4, <1>10, MemoIs DEF Listed
<1>6. Sourced(p)
  BY <1>3 DEF Sourced
<1>7. Pays(p) = p.satori
  BY <1>3, <1>4, ConcatEmptySeq DEF Pays
<1>8. PaysAsked(p) /\ PaysAll(p)
  <2>1. o.to = "payee" /\ o.value = task.amount * p.claims /\ p.claims > 0
    BY <1>2, <1>3, <1>9
  <2> QED
    BY <1>4, <1>7, <2>1 DEF PaysAsked, PaysAll, Owed
<1> QED
  BY <1>3, <1>5, <1>6, <1>8 DEF GoodPlan, PaysFee, p

LEMMA claimCurrencyGood ==
    ASSUME Called, NEW n \in Nat, n > 0
    PROVE  GoodPlan(ClaimCurrency(n))
<1> DEFINE p == ClaimCurrency(n)
           fee == IF override > 0 THEN override ELSE 2500
           left == n * task.amount - fee
           o == Currency("payee", left)
<1>1. task.amount \in Nat /\ task.outs \in Nat /\ n * task.amount \in Nat /\ fee \in Nat
  BY CallIs
<1>2. o \in Payments /\ o.asset = "currency" /\ o.to = "payee" /\ o.value = left
  BY SMTT(60), <1>1, OutputIs DEF Currency, Kinds, Recipients
<1>3. /\ p.satori = <<>> /\ p.currency = (IF left = 0 THEN <<>> ELSE <<o>>)
      /\ p.memo = Memo /\ p.expects = 0 /\ p.counts = 0
      /\ p.claims = n /\ p.first = 2500 /\ p.bump = 0 /\ p.gathers = {}
      /\ p.settles = TRUE
  BY DEF ClaimCurrency, Plan, DefaultFee
<1>4. FirstFee(p) = fee
  BY <1>3 DEF FirstFee
<1>5. left = task.amount * n - FirstFee(p) /\ left \in Int
  <2>1. n * task.amount = task.amount * n
    BY <1>1
  <2> QED
    BY <1>1, <1>4, <2>1
<1> HIDE DEF p, o, left, fee
<1>6. /\ p.currency \in Seq(Payments) /\ Values(p.currency, "currency") = left
      /\ \A i \in 1..Len(p.currency) : p.currency[i] = o
  <2>1. CASE left = 0
    <3>1. p.currency = <<>> /\ <<>> \in Seq(Payments) /\ Len(<<>>) = 0
      BY <1>3, <2>1
    <3> QED
      BY <2>1, <3>1, ValuesNothing
  <2>2. CASE left # 0
    <3>1. p.currency = <<o>>
      BY <1>3, <2>2
    <3>2. Values(<<o>>, "currency") = left
      BY <1>2, ValuesOne
    <3> QED
      BY <1>2, <3>1, <3>2
  <2> QED
    BY <2>1, <2>2
<1>7. Listed(p)
  BY <1>2, <1>3, <1>6, MemoIs DEF Listed
<1>8. Sourced(p)
  BY <1>3, <1>5, <1>6 DEF Sourced
<1>9. Pays(p) = p.currency
  BY <1>3, <1>6, ConcatEmptySeq DEF Pays
<1>10. PaysAsked(p) /\ PaysAll(p)
  <2>1. o.to = "payee" /\ o.value = task.amount * p.claims - FirstFee(p) /\ p.claims > 0 /\ p.gathers = {}
    BY <1>2, <1>3, <1>5
  <2> QED
    BY <1>6, <1>9, <2>1 DEF PaysAsked, PaysAll, Owed
<1> QED
  BY <1>3, <1>7, <1>8, <1>10 DEF GoodPlan, PaysFee, p

(* What the neuron burns for the bridge, and its fee.                      *)
LEMMA bridgeGood ==
    ASSUME Called, task.kind = "typicalNeuronBridgeTransaction"
    PROVE  GoodPlan(PlanOf("typicalNeuronBridgeTransaction"))
<1> DEFINE p == PlanOf("typicalNeuronBridgeTransaction")
           o == Satori("bridge", BridgeFee)
           q == Satori("burn", task.amount)
           r == Output("memo", "nobody", 0)
<1>1. task.amount \in Nat /\ task.outs \in Nat /\ BridgeFee \in Nat /\ task.outs = 1
  BY CallIs DEF Repeating
<1>2. /\ o \in Payments /\ o.asset = "satori" /\ o.to = "bridge" /\ o.value = BridgeFee
      /\ q \in Payments /\ q.asset = "satori" /\ q.to = "burn" /\ q.value = task.amount
      /\ r \in Payments /\ r.asset = "memo" /\ r.to = "nobody" /\ r.value = 0
  BY <1>1, OutputIs DEF Satori, Kinds, Recipients
<1>3. p = [satoriDistribution EXCEPT !.satori = <<o, q>>, !.expects = 5, !.counts = 5,
                                     !.memo = <<r>>]
  BY DEF PlanOf
<1>4. satoriDistribution = [produceSimpleTime EXCEPT !.settles = FALSE]
  BY DEF satoriDistribution
<1>5. produceSimpleTime =
        [Plan EXCEPT !.satori = Each(Satori), !.expects = task.outs + 2 + MemoCount,
                     !.counts = task.outs + 2 + MemoCount]
  BY DEF produceSimpleTime
<1> HIDE DEF p, o, q, r
<1>6. /\ p.satori = <<o, q>> /\ p.currency = <<>> /\ p.memo = <<r>> /\ p.expects = 5
      /\ p.counts = 5 /\ p.claims = 0 /\ p.first = 0 /\ p.bump = 0
      /\ p.gathers = {"satori", "currency"}
  BY <1>3, <1>4, <1>5 DEF Plan
<1>7. /\ p.satori \in Seq(Payments) /\ Len(p.satori) = 2 /\ p.satori[1] = o /\ p.satori[2] = q
      /\ p.memo \in Seq(Payments) /\ Len(p.memo) = 1 /\ p.memo[1] = r
      /\ p.currency \in Seq(Payments) /\ Len(p.currency) = 0
  BY <1>2, <1>6
<1>8. Listed(p)
  BY <1>1, <1>2, <1>7 DEF Listed
<1>9. Sourced(p)
  BY <1>6, <1>7 DEF Sourced
<1>10. Pays(p) = p.satori
  BY <1>6, <1>7, ConcatEmptySeq DEF Pays
<1>11. PaysAsked(p) /\ PaysAll(p)
  BY SMTT(60), <1>1, <1>2, <1>7, <1>10 DEF PaysAsked, PaysAll, Owed
<1>12. PaysFee(p)
  BY DEF PaysFee, Settling, Bridges
<1> QED
  BY <1>8, <1>9, <1>11, <1>12 DEF GoodPlan, p

(* The locks and distributions.                                            *)
LEMMA lockGood ==
    ASSUME Called
    PROVE  /\ GoodPlan(produceSimpleTime) /\ GoodPlan(produceSimpleTimeCurrency)
           /\ GoodPlan(producePaymentChannel)
           /\ task.kind = "satoriDistribution" => GoodPlan(satoriDistribution)
<1>1. task.outs \in Nat /\ MemoCount \in Nat
  BY CallIs, MemoIs
<1>2. Locks(produceSimpleTime) /\ produceSimpleTime.settles = TRUE
  BY <1>1 DEF produceSimpleTime, Plan, Locks
<1>3. Locks(produceSimpleTimeCurrency) /\ produceSimpleTimeCurrency.settles = TRUE
  BY <1>1 DEF produceSimpleTimeCurrency, Plan, Locks
<1>4. Locks(producePaymentChannel) /\ producePaymentChannel.settles = TRUE
  BY <1>1 DEF producePaymentChannel, Plan, Locks
<1>5. Locks(satoriDistribution)
  BY <1>1 DEF satoriDistribution, produceSimpleTime, Plan, Locks
<1>6. /\ PaysFee(produceSimpleTime) /\ PaysFee(produceSimpleTimeCurrency)
      /\ PaysFee(producePaymentChannel)
  BY <1>2, <1>3, <1>4 DEF PaysFee
<1>7. task.kind = "satoriDistribution" => PaysFee(satoriDistribution)
  BY DEF PaysFee, Settling
<1> QED
  BY <1>2, <1>3, <1>4, <1>5, <1>6, <1>7, LocksGood DEF GoodPlan

(* Every function that drafts its transaction from a plan has a good one.  *)
Planned == {"produceSimpleTime", "produceMultiTimeMultisig", "producePaymentChannel",
            "produceSimpleTimeCurrency", "produceMultiTimeMultisigCurrency",
            "satoriDistribution", "satoriTransaction", "currencyTransaction",
            "satoriAndCurrencyTransaction", "simpleTimeTransaction",
            "multiTimeNotMultisigTransaction", "paymentChannelRecallTransaction",
            "simpleTimeCurrencyTransaction", "multiTimeNotMultisigCurrencyTransaction",
            "paymentChannelRecallCurrencyTransaction", "typicalNeuronTransaction",
            "typicalNeuronBridgeTransaction"}

LEMMA PlansGood ==
    ASSUME Called, task.kind \in Planned
    PROVE  GoodPlan(PlanOf(task.kind))
<1>1. task.outs \in Nat /\ task.outs > 0 /\ (task.kind \notin Repeating => task.outs = 1)
  BY CallIs
<1>2. CASE task.kind \in {"produceSimpleTime", "produceMultiTimeMultisig"}
  BY <1>2, lockGood DEF PlanOf, produceMultiTimeMultisig
<1>3. CASE task.kind \in {"produceSimpleTimeCurrency", "produceMultiTimeMultisigCurrency"}
  BY <1>3, lockGood DEF PlanOf, produceMultiTimeMultisigCurrency
<1>4. CASE task.kind \in {"producePaymentChannel", "satoriDistribution"}
  BY <1>4, lockGood DEF PlanOf
<1>5. CASE task.kind \in {"satoriTransaction", "typicalNeuronTransaction"}
  BY <1>1, <1>5, satoriGood DEF PlanOf, Repeating
<1>6. CASE task.kind = "currencyTransaction"
  BY <1>1, <1>6, currencyGood DEF PlanOf, Repeating
<1>7. CASE task.kind = "satoriAndCurrencyTransaction"
  BY <1>1, <1>7, bothGood DEF PlanOf, Repeating
<1>8. CASE task.kind \in {"simpleTimeTransaction", "multiTimeNotMultisigTransaction"}
  BY <1>8, claimSatoriGood DEF PlanOf, simpleTimeTransaction, multiTimeNotMultisigTransaction
<1>9. CASE task.kind = "paymentChannelRecallTransaction"
  BY <1>1, <1>9, claimSatoriGood DEF PlanOf, paymentChannelRecallTransaction
<1>10. CASE task.kind \in {"simpleTimeCurrencyTransaction", "multiTimeNotMultisigCurrencyTransaction"}
  BY <1>10, claimCurrencyGood
     DEF PlanOf, simpleTimeCurrencyTransaction, multiTimeNotMultisigCurrencyTransaction
<1>11. CASE task.kind = "paymentChannelRecallCurrencyTransaction"
  BY <1>1, <1>11, claimCurrencyGood DEF PlanOf, paymentChannelRecallCurrencyTransaction
<1>12. CASE task.kind = "typicalNeuronBridgeTransaction"
  BY <1>12, bridgeGood
<1> QED
  BY <1>2, <1>3, <1>4, <1>5, <1>6, <1>7, <1>8, <1>9, <1>10, <1>11, <1>12 DEF Planned

-----------------------------------------------------------------------------
(* What a plan is drafted into                                             *)

(* Change is one output that comes back, or none.                          *)
LEMMA ChangeIs ==
    ASSUME NEW asset \in Kinds, NEW value \in Int, NEW other
    PROVE  /\ Change(asset, value) \in Seq(Payments)
           /\ Values(Change(asset, value), other) = IF other = asset /\ value > 0 THEN value ELSE 0
           /\ \A i \in 1..Len(Change(asset, value)) : Change(asset, value)[i].to = "self"
<1> DEFINE o == Output(asset, "self", value)
<1>1. o \in Payments /\ o.asset = asset /\ o.to = "self" /\ o.value = value
  BY OutputIs DEF Recipients
<1>2. CASE value > 0
  <2>1. Change(asset, value) = <<o>>
    BY <1>2 DEF Change
  <2> HIDE DEF o
  <2>2. Values(<<o>>, other) = IF o.asset = other THEN o.value ELSE 0
    BY <1>1, ValuesOne
  <2> QED
    BY <1>1, <1>2, <2>1, <2>2
<1>3. CASE ~ (value > 0)
  <2>1. Change(asset, value) = <<>>
    BY <1>3 DEF Change
  <2> QED
    BY <1>3, <2>1, ValuesNothing
<1> QED
  BY <1>2, <1>3

(* The rest of the outputs pays nobody else.                               *)
ForSelf(outs) ==
    /\ outs \in Seq(Payments)
    /\ \A i \in 1..Len(outs) : \/ outs[i].to = "self"
                               \/ outs[i].to = "nobody" /\ outs[i].value = 0

LEMMA ForSelfJoined ==
    ASSUME NEW a, NEW b, ForSelf(a), ForSelf(b)
    PROVE  ForSelf(a \o b)
<1>1. a \in Seq(Payments) /\ b \in Seq(Payments)
  BY DEF ForSelf
<1>2. /\ a \o b \in Seq(Payments) /\ Len(a \o b) = Len(a) + Len(b)
      /\ \A i \in 1..(Len(a) + Len(b)) : (a \o b)[i] = IF i <= Len(a) THEN a[i] ELSE b[i - Len(a)]
  BY <1>1, ConcatProperties
<1>3. Len(a) \in Nat /\ Len(b) \in Nat
  BY <1>1
<1>4. ASSUME NEW i \in 1..(Len(a) + Len(b))
      PROVE  \/ (a \o b)[i].to = "self"
             \/ (a \o b)[i].to = "nobody" /\ (a \o b)[i].value = 0
  <2>1. CASE i <= Len(a)
    <3>1. i \in 1..Len(a) /\ (a \o b)[i] = a[i]
      BY <1>2, <1>3, <2>1
    <3> QED
      BY <3>1 DEF ForSelf
  <2>2. CASE ~ (i <= Len(a))
    <3>1. i - Len(a) \in 1..Len(b) /\ (a \o b)[i] = b[i - Len(a)]
      BY <1>2, <1>3, <2>2
    <3> QED
      BY <3>1 DEF ForSelf
  <2> QED
    BY <2>1, <2>2
<1> QED
  BY <1>2, <1>4 DEF ForSelf

(* Draft, part by part.                                                    *)
DraftSatori(plan) == IF "satori" \in plan.gathers
                     THEN GatherSatori(Values(plan.satori, "satori")) ELSE <<>>
DraftSats(plan) == Values(plan.currency, "currency")
DraftNeed(plan) ==
    [n \in 0..Len(purse) |->
        DraftSats(plan) + IF FirstFee(plan) > 0 THEN FirstFee(plan)
                          ELSE PerItem * (Len(DraftSatori(plan)) + plan.bump + n + plan.expects)]
DraftCurrency(plan) == IF "currency" \in plan.gathers THEN GatherCurrency(DraftNeed(plan)) ELSE <<>>
DraftFee(plan) == Fee(plan, Len(DraftSatori(plan)) + Len(DraftCurrency(plan)))
DraftLeft(plan) == IF DraftCurrency(plan) # <<>>
                   THEN Total(DraftCurrency(plan)) - DraftSats(plan) - DraftFee(plan) ELSE 0
DraftOver(plan) == IF DraftSatori(plan) # <<>>
                   THEN Total(DraftSatori(plan)) - Values(plan.satori, "satori") ELSE 0
DraftPoor(plan) ==
    \/ "satori" \in plan.gathers /\ Total(assets) < Values(plan.satori, "satori")
    \/ /\ "currency" \in plan.gathers
       /\ Total(purse) < DraftSats(plan) + IF FirstFee(plan) > 0 THEN FirstFee(plan) ELSE Reserve
DraftClaimed(plan, asset) ==
    IF plan.claims = 0 THEN 0
    ELSE IF asset = "satori" THEN Values(plan.satori, "satori")
    ELSE IF plan.gathers = {} THEN task.amount * plan.claims ELSE 0
DraftRest(plan) == Change("satori", DraftOver(plan)) \o Change("currency", DraftLeft(plan))

LEMMA DraftParts ==
    ASSUME NEW plan
    PROVE  /\ Draft(plan).raises <=> (DraftPoor(plan) \/ DraftLeft(plan) < 0)
           /\ Draft(plan).fee = DraftFee(plan) /\ Draft(plan).settles = plan.settles
           /\ Draft(plan).tx = Tx(Total(DraftSatori(plan)) + DraftClaimed(plan, "satori"),
                                  Total(DraftCurrency(plan)) + DraftClaimed(plan, "currency"),
                                  Len(DraftSatori(plan)) + Len(DraftCurrency(plan)), plan.claims,
                                  Outputs(plan, DraftRest(plan)))
           /\ Outputs(plan, DraftRest(plan)) = Pays(plan) \o DraftRest(plan) \o plan.memo
<1> DEFINE a == DraftPoor(plan) \/ DraftLeft(plan) < 0
           d == Tx(Total(DraftSatori(plan)) + DraftClaimed(plan, "satori"),
                   Total(DraftCurrency(plan)) + DraftClaimed(plan, "currency"),
                   Len(DraftSatori(plan)) + Len(DraftCurrency(plan)), plan.claims,
                   Outputs(plan, DraftRest(plan)))
<1>1. Draft(plan) = [raises |-> a, fee |-> DraftFee(plan), settles |-> plan.settles, tx |-> d]
  BY Zenon DEF Draft, DraftPoor, DraftLeft, DraftFee, DraftOver, DraftSats, DraftNeed, DraftSatori,
     DraftCurrency, DraftClaimed, DraftRest
<1>2. Outputs(plan, DraftRest(plan)) = Pays(plan) \o DraftRest(plan) \o plan.memo
  BY DEF Outputs, Pays
<1> HIDE DEF a, d
<1>3. Draft(plan).raises = a /\ Draft(plan).tx = d
  BY <1>1
<1>4. Draft(plan).fee = DraftFee(plan) /\ Draft(plan).settles = plan.settles
  BY <1>1
<1>5. Draft(plan).raises <=> (DraftPoor(plan) \/ DraftLeft(plan) < 0)
  BY <1>3, Zenon DEF a
<1> QED
  BY <1>2, <1>3, <1>4, <1>5, Zenon DEF d

(* The coins of a draft, and their worth.                                  *)
LEMMA DraftCoins ==
    ASSUME CoinsAre, Called, NEW plan, GoodPlan(plan)
    PROVE  /\ DraftSatori(plan) \in Seq(Nat) /\ DraftCurrency(plan) \in Seq(Nat)
           /\ FirstFee(plan) \in Nat /\ DraftFee(plan) \in Nat
           /\ DraftLeft(plan) \in Int /\ DraftOver(plan) \in Int
           /\ Values(plan.satori, "satori") \in Nat /\ DraftSats(plan) \in Int
           /\ Values(plan.currency, "satori") = 0 /\ Values(plan.satori, "currency") = 0
           /\ Values(plan.memo, "satori") = 0 /\ Values(plan.memo, "currency") = 0
<1>1. Listed(plan) /\ Sourced(plan)
  BY DEF GoodPlan
<1>2. override \in Nat /\ plan.counts \in Nat /\ plan.first \in Nat
  BY <1>1, CallIs DEF Sourced
<1>3. FirstFee(plan) \in Nat
  BY <1>2 DEF FirstFee
<1>4. DraftSatori(plan) \in Seq(Nat)
  BY GatherSatoriIs DEF DraftSatori
<1>5. DraftCurrency(plan) \in Seq(Nat)
  BY GatherIs DEF DraftCurrency
<1>6. /\ Total(DraftSatori(plan)) \in Nat /\ Len(DraftSatori(plan)) \in Nat
      /\ Total(DraftCurrency(plan)) \in Nat /\ Len(DraftCurrency(plan)) \in Nat
  BY <1>4, <1>5, CoinsTotal
<1>7. DraftFee(plan) \in Nat
  BY <1>2, <1>3, <1>6 DEF DraftFee, Fee, PerItem
<1>8. Values(plan.satori, "satori") \in Nat /\ DraftSats(plan) \in Int
  BY <1>1, ValuesAre DEF Listed, DraftSats
<1>9. DraftLeft(plan) \in Int /\ DraftOver(plan) \in Int
  BY <1>6, <1>7, <1>8 DEF DraftLeft, DraftOver
<1>10. Values(plan.currency, "satori") = 0 /\ Values(plan.satori, "currency") = 0
  <2>1. \A i \in 1..Len(plan.currency) : plan.currency[i].asset # "satori"
    BY <1>1 DEF Listed
  <2>2. \A i \in 1..Len(plan.satori) : plan.satori[i].asset # "currency"
    BY <1>1 DEF Listed
  <2>3. plan.satori \in Seq(Payments) /\ plan.currency \in Seq(Payments)
    BY <1>1 DEF Listed
  <2> QED
    BY <2>1, <2>2, <2>3, ValuesOther
<1>11. Values(plan.memo, "satori") = 0 /\ Values(plan.memo, "currency") = 0
  <2>1. /\ \A i \in 1..Len(plan.memo) : plan.memo[i].asset # "satori"
        /\ \A i \in 1..Len(plan.memo) : plan.memo[i].asset # "currency"
    BY <1>1 DEF Listed
  <2>2. plan.memo \in Seq(Payments)
    BY <1>1 DEF Listed
  <2> QED
    BY <2>1, <2>2, ValuesOther
<1> QED
  BY <1>3, <1>4, <1>5, <1>7, <1>8, <1>9, <1>10, <1>11

(* A draft that does not raise gathers some currency, if its plan says so. *)
LEMMA DraftFunded ==
    ASSUME CoinsAre, Called, NEW plan, GoodPlan(plan), "currency" \in plan.gathers,
           ~ DraftPoor(plan)
    PROVE  DraftCurrency(plan) # <<>>
<1>1. Listed(plan) /\ Sourced(plan)
  BY DEF GoodPlan
<1>2. DraftSats(plan) \in Nat
  <2>1. \A i \in 1..Len(plan.currency) : plan.currency[i].value >= 0
    BY <1>1 DEF Sourced
  <2>2. plan.currency \in Seq(Payments)
    BY <1>1 DEF Listed
  <2> QED
    BY <2>1, <2>2, ValuesAre DEF DraftSats
<1>3. FirstFee(plan) \in Nat /\ Reserve \in Nat /\ Reserve > 0 /\ DraftSatori(plan) \in Seq(Nat)
  BY DraftCoins, CallIs
<1>4. purse # <<>>
  <2>1. purse \in Seq(Nat) /\ Total(purse) \in Nat
    BY CoinsTotal DEF CoinsAre
  <2>2. ~ (Total(purse) < DraftSats(plan) + IF FirstFee(plan) > 0 THEN FirstFee(plan) ELSE Reserve)
    BY DEF DraftPoor
  <2>3. Total(purse) > 0
    BY <1>2, <1>3, <2>1, <2>2
  <2> QED
    BY <2>3, TotalNothing
<1>5. DraftNeed(plan)[0] \in Nat \ {0}
  <2>1. 0 \in 0..Len(purse)
    BY DEF CoinsAre
  <2>2. DraftNeed(plan)[0] =
          DraftSats(plan) + IF FirstFee(plan) > 0 THEN FirstFee(plan)
                            ELSE PerItem * (Len(DraftSatori(plan)) + plan.bump + 0 + plan.expects)
    BY <2>1 DEF DraftNeed
  <2>3. plan.bump \in Nat /\ plan.expects \in Nat /\ Len(DraftSatori(plan)) \in Nat
    BY <1>1, <1>3 DEF Sourced
  <2>4. plan.expects > 0 \/ FirstFee(plan) > 0
    <3>1. plan.expects > 0 \/ plan.first > 0
      BY <1>1 DEF Sourced
    <3> QED
      BY <3>1 DEF FirstFee
  <2> QED
    BY SMTT(60), <1>2, <1>3, <2>2, <2>3, <2>4 DEF PerItem
<1> QED
  BY <1>4, <1>5, GatherIs DEF DraftCurrency

LEMMA TxIs ==
    ASSUME NEW a, NEW b, NEW c, NEW d, NEW e
    PROVE  /\ Tx(a, b, c, d, e).satoriIn = a /\ Tx(a, b, c, d, e).currencyIn = b
           /\ Tx(a, b, c, d, e).ins = c /\ Tx(a, b, c, d, e).claims = d
           /\ Tx(a, b, c, d, e).outs = e
BY DEF Tx

(* A draft is a transaction: it pays what the plan says, to itself what is *)
(* left, and the fee it was drafted for.                                   *)
LEMMA DraftPays ==
    ASSUME CoinsAre, Called, NEW plan, GoodPlan(plan), ~ Draft(plan).raises
    PROVE  /\ IsTx(Draft(plan).tx) /\ Draft(plan).fee \in Nat
           /\ Paid(Draft(plan).tx) = Draft(plan).fee
           /\ Draft(plan).tx.claims = plan.claims
           /\ \E rest : ForSelf(rest) /\ Draft(plan).tx.outs = Pays(plan) \o rest
<1> DEFINE change == DraftRest(plan)
           t == Draft(plan).tx
<1>1. Listed(plan) /\ Sourced(plan)
  BY DEF GoodPlan
<1>2. /\ plan.satori \in Seq(Payments) /\ plan.currency \in Seq(Payments)
      /\ plan.memo \in Seq(Payments) /\ plan.claims \in Nat
  BY <1>1 DEF Listed, Sourced
<1>3. /\ DraftSatori(plan) \in Seq(Nat) /\ DraftCurrency(plan) \in Seq(Nat)
      /\ DraftFee(plan) \in Nat /\ DraftLeft(plan) \in Int /\ DraftOver(plan) \in Int
      /\ DraftSats(plan) \in Int /\ Values(plan.satori, "satori") \in Nat
      /\ Values(plan.satori, "currency") = 0 /\ Values(plan.memo, "currency") = 0
  BY DraftCoins
<1>4. /\ Total(DraftSatori(plan)) \in Nat /\ Len(DraftSatori(plan)) \in Nat
      /\ Total(DraftCurrency(plan)) \in Nat /\ Len(DraftCurrency(plan)) \in Nat
      /\ DraftCurrency(plan) = <<>> => Total(DraftCurrency(plan)) = 0
  BY <1>3, CoinsTotal
<1>5. /\ ~ DraftPoor(plan) /\ ~ (DraftLeft(plan) < 0)
      /\ Draft(plan).fee = DraftFee(plan)
      /\ t = Tx(Total(DraftSatori(plan)) + DraftClaimed(plan, "satori"),
                Total(DraftCurrency(plan)) + DraftClaimed(plan, "currency"),
                Len(DraftSatori(plan)) + Len(DraftCurrency(plan)), plan.claims,
                Outputs(plan, change))
      /\ Outputs(plan, change) = Pays(plan) \o change \o plan.memo
  BY DraftParts
<1>6. /\ t.satoriIn = Total(DraftSatori(plan)) + DraftClaimed(plan, "satori")
      /\ t.currencyIn = Total(DraftCurrency(plan)) + DraftClaimed(plan, "currency")
      /\ t.ins = Len(DraftSatori(plan)) + Len(DraftCurrency(plan))
      /\ t.claims = plan.claims /\ t.outs = Pays(plan) \o change \o plan.memo
  <2>1. \A a, b, c, d, e, u : u = Tx(a, b, c, d, e) =>
           /\ u.satoriIn = a /\ u.currencyIn = b /\ u.ins = c /\ u.claims = d /\ u.outs = e
    BY TxIs
  <2> DEFINE a == Total(DraftSatori(plan)) + DraftClaimed(plan, "satori")
             b == Total(DraftCurrency(plan)) + DraftClaimed(plan, "currency")
             c == Len(DraftSatori(plan)) + Len(DraftCurrency(plan))
             e == Outputs(plan, change)
  <2>2. t = Tx(a, b, c, plan.claims, e)
    BY <1>5
  <2> HIDE DEF t, a, b, c, e
  <2>3. t.satoriIn = a /\ t.currencyIn = b /\ t.ins = c /\ t.claims = plan.claims /\ t.outs = e
    BY <2>1, <2>2
  <2> QED
    BY <1>5, <2>3 DEF a, b, c, e
<1> HIDE DEF t
<1>7. /\ Change("satori", DraftOver(plan)) \in Seq(Payments)
      /\ Change("currency", DraftLeft(plan)) \in Seq(Payments)
      /\ Values(Change("satori", DraftOver(plan)), "currency") = 0
      /\ Values(Change("currency", DraftLeft(plan)), "currency") = DraftLeft(plan)
      /\ \A i \in 1..Len(Change("satori", DraftOver(plan))) :
            Change("satori", DraftOver(plan))[i].to = "self"
      /\ \A i \in 1..Len(Change("currency", DraftLeft(plan))) :
            Change("currency", DraftLeft(plan))[i].to = "self"
  <2>1. "satori" \in Kinds /\ "currency" \in Kinds
    BY DEF Kinds
  <2>2. /\ Change("satori", DraftOver(plan)) \in Seq(Payments)
        /\ Values(Change("satori", DraftOver(plan)), "currency")
             = IF "currency" = "satori" /\ DraftOver(plan) > 0 THEN DraftOver(plan) ELSE 0
        /\ \A i \in 1..Len(Change("satori", DraftOver(plan))) :
              Change("satori", DraftOver(plan))[i].to = "self"
    BY <1>3, <2>1, ChangeIs
  <2>3. /\ Change("currency", DraftLeft(plan)) \in Seq(Payments)
        /\ Values(Change("currency", DraftLeft(plan)), "currency")
             = IF "currency" = "currency" /\ DraftLeft(plan) > 0 THEN DraftLeft(plan) ELSE 0
        /\ \A i \in 1..Len(Change("currency", DraftLeft(plan))) :
              Change("currency", DraftLeft(plan))[i].to = "self"
    BY <1>3, <2>1, ChangeIs
  <2>4. Values(Change("satori", DraftOver(plan)), "currency") = 0
    BY <2>2
  <2>5. Values(Change("currency", DraftLeft(plan)), "currency") = DraftLeft(plan)
    BY <1>3, <1>5, <2>3
  <2> QED
    BY <2>2, <2>3, <2>4, <2>5
<1>8. /\ change \in Seq(Payments) /\ Values(change, "currency") = DraftLeft(plan)
      /\ ForSelf(change)
  <2>1. /\ ForSelf(Change("satori", DraftOver(plan)))
        /\ ForSelf(Change("currency", DraftLeft(plan)))
    BY <1>7 DEF ForSelf
  <2>2. change = Change("satori", DraftOver(plan)) \o Change("currency", DraftLeft(plan))
    BY DEF DraftRest
  <2>3. ForSelf(change)
    BY <2>1, <2>2, ForSelfJoined
  <2>4. Values(change, "currency") = 0 + DraftLeft(plan)
    BY <1>7, <2>2, ValuesJoined
  <2> QED
    BY <1>3, <2>3, <2>4 DEF ForSelf
<1> HIDE DEF change
<1>9. Pays(plan) \in Seq(Payments) /\ Values(Pays(plan), "currency") = DraftSats(plan)
  <2>1. Values(Pays(plan), "currency") = 0 + DraftSats(plan)
    BY SMTT(60), <1>2, <1>3, ValuesJoined DEF Pays, DraftSats
  <2> QED
    BY <1>2, <1>3, <2>1 DEF Pays
<1>10. ForSelf(plan.memo)
  BY <1>1 DEF Listed, ForSelf
<1>11. \E rest : ForSelf(rest) /\ t.outs = Pays(plan) \o rest
  <2>1. ForSelf(change \o plan.memo)
    BY <1>8, <1>10, ForSelfJoined
  <2>2. t.outs = Pays(plan) \o (change \o plan.memo)
    <3>1. \A a, b, c \in Seq(Payments) : (a \o b) \o c = a \o (b \o c)
      BY SMTT(60), ConcatAssociative
    <3>2. (Pays(plan) \o change) \o plan.memo = Pays(plan) \o (change \o plan.memo)
      BY <1>2, <1>8, <1>9, <3>1
    <3> QED
      BY <1>6, <3>2
  <2> QED
    BY <2>1, <2>2
<1>12. t.outs \in Seq(Payments) /\ Values(t.outs, "currency") = DraftSats(plan) + DraftLeft(plan)
  <2>1. Pays(plan) \o change \in Seq(Payments)
    BY <1>8, <1>9, ConcatProperties
  <2>2. Values(Pays(plan) \o change, "currency") = DraftSats(plan) + DraftLeft(plan)
    BY <1>8, <1>9, ValuesJoined
  <2>3. Values((Pays(plan) \o change) \o plan.memo, "currency")
          = Values(Pays(plan) \o change, "currency") + Values(plan.memo, "currency")
    BY <1>2, <2>1, ValuesJoined
  <2>4. (Pays(plan) \o change) \o plan.memo \in Seq(Payments)
    BY <1>2, <2>1, ConcatProperties
  <2> QED
    BY <1>3, <1>6, <2>2, <2>3, <2>4
<1>13. /\ DraftClaimed(plan, "satori") \in Nat /\ DraftClaimed(plan, "currency") \in Nat
  <2>1. task.amount \in Nat
    BY CallIs
  <2>2. task.amount * plan.claims \in Nat
    BY <1>2, <2>1
  <2> QED
    BY <1>3, <2>2 DEF DraftClaimed
<1>14. IsTx(t)
  <2>1. t.ins \in Nat /\ t.claims \in Nat
    BY <1>2, <1>4, <1>6
  <2>2. t.satoriIn \in Nat /\ t.currencyIn \in Nat
    BY <1>4, <1>6, <1>13
  <2> QED
    BY <1>12, <2>1, <2>2 DEF IsTx
<1>15. Paid(t) = DraftFee(plan)
  <2>1. Paid(t) = (Total(DraftCurrency(plan)) + DraftClaimed(plan, "currency"))
                    - (DraftSats(plan) + DraftLeft(plan))
    <3>1. Paid(t) = t.currencyIn - Values(t.outs, "currency")
      BY DEF Paid
    <3>2. t.currencyIn = Total(DraftCurrency(plan)) + DraftClaimed(plan, "currency")
      BY <1>6
    <3>3. Values(t.outs, "currency") = DraftSats(plan) + DraftLeft(plan)
      BY <1>12
    <3> QED
      BY <3>1, <3>2, <3>3, Zenon
  <2>2. CASE "currency" \in plan.gathers
    <3>1. DraftCurrency(plan) # <<>>
      BY <1>5, <2>2, DraftFunded
    <3>2. DraftLeft(plan) = Total(DraftCurrency(plan)) - DraftSats(plan) - DraftFee(plan)
      BY <3>1 DEF DraftLeft
    <3>3. DraftClaimed(plan, "currency") = 0
      BY <2>2 DEF DraftClaimed
    <3> QED
      BY <1>3, <1>4, <2>1, <3>2, <3>3
  <2>3. CASE "currency" \notin plan.gathers
    <3>1. /\ plan.gathers = {} /\ plan.first > 0 /\ plan.claims > 0
          /\ DraftSats(plan) = task.amount * plan.claims - FirstFee(plan)
      BY <1>1, <2>3 DEF Sourced, DraftSats
    <3>2. DraftCurrency(plan) = <<>> /\ DraftLeft(plan) = 0
      BY <2>3 DEF DraftCurrency, DraftLeft
    <3>3. DraftClaimed(plan, "currency") = task.amount * plan.claims
      BY <1>2, <3>1 DEF DraftClaimed
    <3>4. FirstFee(plan) \in Nat /\ FirstFee(plan) > 0 /\ DraftFee(plan) = FirstFee(plan)
      <4>1. override \in Nat
        BY CallIs
      <4>2. plan.first \in Nat
        BY <1>1 DEF Sourced
      <4>3. FirstFee(plan) \in Nat /\ FirstFee(plan) > 0
        BY <3>1, <4>1, <4>2 DEF FirstFee
      <4> QED
        BY <4>3 DEF DraftFee, Fee
    <3>5. task.amount * plan.claims \in Nat
      <4>1. task.amount \in Nat
        BY CallIs
      <4> QED
        BY <1>2, <4>1
    <3> QED
      BY <1>4, <2>1, <3>1, <3>2, <3>3, <3>4, <3>5
  <2> QED
    BY <2>2, <2>3
<1> QED
  BY <1>3, <1>5, <1>6, <1>11, <1>14, <1>15 DEF t

-----------------------------------------------------------------------------
(* What a transaction pays to others                                       *)

Payees(t) == {i \in DOMAIN t.outs : t.outs[i].to \notin {"self", "nobody", "mundo"}}
FewestPayees(t) == IF Sweeps THEN 1 ELSE IF t.claims > 0 THEN 0 ELSE task.outs
AllAsked(t) == \A i \in DOMAIN t.outs : Asked(t, i)
PaysEnough(t)  == t.outs # <<>> => Cardinality(Payees(t)) >= FewestPayees(t)

(* Outputs at the front that pay others are among those that pay others.   *)
LEMMA PayeesAre ==
    ASSUME NEW t, t.outs \in Seq(Payments), NEW n \in Nat, n <= Len(t.outs),
           \A i \in 1..n : t.outs[i].to \notin {"self", "nobody", "mundo"}
    PROVE  Cardinality(Payees(t)) \in Nat /\ Cardinality(Payees(t)) >= n
<1>1. Len(t.outs) \in Nat /\ DOMAIN t.outs = 1..Len(t.outs)
  OBVIOUS
<1>2. IsFiniteSet(1..Len(t.outs))
  BY <1>1, FS_Interval
<1>3. Payees(t) \subseteq 1..Len(t.outs)
  BY <1>1 DEF Payees
<1>4. IsFiniteSet(Payees(t)) /\ Cardinality(Payees(t)) \in Nat
  BY <1>2, <1>3, FS_Subset, FS_CardinalityType
<1>5. 1..n \subseteq Payees(t)
  BY <1>1 DEF Payees
<1>6. Cardinality(1..n) = n
  <2>1. 1 \in Int /\ n \in Int
    OBVIOUS
  <2>2. Cardinality(1..n) = IF 1 > n THEN 0 ELSE n - 1 + 1
    BY <2>1, FS_Interval
  <2> QED
    BY <2>2
<1>7. Cardinality(1..n) <= Cardinality(Payees(t))
  BY <1>4, <1>5, FS_Subset
<1> QED
  BY <1>4, <1>6, <1>7

(* The draft of a plan pays what the call asked for.                       *)
LEMMA DraftAsked ==
    ASSUME CoinsAre, Called, NEW plan, GoodPlan(plan), ~ Draft(plan).raises, ~ Sweeps
    PROVE  AllAsked(Draft(plan).tx) /\ PaysEnough(Draft(plan).tx)
<1> DEFINE t == Draft(plan).tx
<1>1. /\ IsTx(t) /\ Paid(t) = Draft(plan).fee /\ t.claims = plan.claims
      /\ \E rest : ForSelf(rest) /\ t.outs = Pays(plan) \o rest
  BY DraftPays
<1>2. PICK rest : ForSelf(rest) /\ t.outs = Pays(plan) \o rest
  BY <1>1
<1>3. Draft(plan).fee = DraftFee(plan)
  BY DraftParts
<1>4. plan.gathers = {} => DraftFee(plan) = FirstFee(plan)
  <2>1. Sourced(plan) /\ override \in Nat
    BY CallIs DEF GoodPlan
  <2> SUFFICES ASSUME plan.gathers = {} PROVE DraftFee(plan) = FirstFee(plan)
    OBVIOUS
  <2>2. plan.first > 0 /\ plan.first \in Nat
    BY <2>1 DEF Sourced
  <2>3. FirstFee(plan) > 0
    BY <2>1, <2>2 DEF FirstFee
  <2> QED
    BY <2>3 DEF DraftFee, Fee
<1> HIDE DEF t
<1>5. /\ Pays(plan) \in Seq(Payments) /\ rest \in Seq(Payments)
      /\ Len(Pays(plan)) \in Nat /\ Len(rest) \in Nat
  <2>1. plan.satori \in Seq(Payments) /\ plan.currency \in Seq(Payments)
    BY DEF GoodPlan, Listed
  <2>2. Pays(plan) \in Seq(Payments)
    BY <2>1, ConcatProperties DEF Pays
  <2> QED
    BY <1>2, <2>2 DEF ForSelf
<1>6. /\ t.outs \in Seq(Payments) /\ Len(t.outs) = Len(Pays(plan)) + Len(rest)
      /\ DOMAIN t.outs = 1..Len(t.outs)
      /\ \A i \in 1..(Len(Pays(plan)) + Len(rest)) :
            t.outs[i] = IF i <= Len(Pays(plan)) THEN Pays(plan)[i] ELSE rest[i - Len(Pays(plan))]
  <2>1. t.outs \in Seq(Payments)
    BY <1>1 DEF IsTx
  <2> QED
    BY <1>2, <1>5, <2>1, ConcatProperties
<1>7. \A i \in 1..Len(Pays(plan)) : Owed(plan, t.outs[i], i)
  <2>1. \A i \in 1..Len(Pays(plan)) : i \in 1..(Len(Pays(plan)) + Len(rest)) /\ t.outs[i] = Pays(plan)[i]
    BY <1>5, <1>6
  <2> QED
    BY <2>1 DEF GoodPlan, PaysAsked
<1>8. AllAsked(t)
  <2> SUFFICES ASSUME NEW i \in 1..Len(t.outs) PROVE Asked(t, i)
    BY <1>6 DEF AllAsked
  <2>1. CASE i <= Len(Pays(plan))
    <3>1. Owed(plan, t.outs[i], i)
      BY <1>5, <1>7, <2>1
    <3>2. CASE t.outs[i].to = "payee"
      <4>1. \/ t.outs[i].value = task.amount
            \/ t.outs[i].value = task.amount * t.claims
            \/ t.claims > 0 /\ t.outs[i].value = task.amount * t.claims - Paid(t)
        BY <1>1, <1>3, <1>4, <3>1, <3>2 DEF Owed
      <4> QED
        BY <3>2, <4>1 DEF Asked
    <3>3. CASE t.outs[i].to # "payee"
      BY <3>1, <3>3 DEF Owed, Asked
    <3> QED
      BY <3>2, <3>3
  <2>2. CASE ~ (i <= Len(Pays(plan)))
    <3>1. i - Len(Pays(plan)) \in 1..Len(rest) /\ t.outs[i] = rest[i - Len(Pays(plan))]
      BY <1>5, <1>6, <2>2
    <3>2. \/ t.outs[i].to = "self"
          \/ t.outs[i].to = "nobody" /\ t.outs[i].value = 0
      BY <1>2, <3>1 DEF ForSelf
    <3> QED
      BY <3>2 DEF Asked
  <2> QED
    BY <2>1, <2>2
<1>9. PaysEnough(t)
  <2>1. CASE t.claims > 0
    <3>1. FewestPayees(t) = 0
      BY <2>1 DEF FewestPayees
    <3>2. \A i \in 1..0 : t.outs[i].to \notin {"self", "nobody", "mundo"}
      OBVIOUS
    <3>3. Cardinality(Payees(t)) >= 0
      BY <1>6, <3>2, PayeesAre
    <3> QED
      BY <3>1, <3>3 DEF PaysEnough
  <2>2. CASE ~ (t.claims > 0)
    <3>1. FewestPayees(t) = task.outs /\ task.outs \in Nat
      BY <2>2, CallIs DEF FewestPayees
    <3>2. Len(Pays(plan)) >= task.outs
      BY <1>1, <2>2 DEF GoodPlan, PaysAll
    <3>3. \A i \in 1..Len(Pays(plan)) : t.outs[i].to \notin {"self", "nobody", "mundo"}
      BY <1>7 DEF Owed
    <3>4. Len(Pays(plan)) <= Len(t.outs)
      BY <1>5, <1>6
    <3>5. Cardinality(Payees(t)) \in Nat /\ Cardinality(Payees(t)) >= Len(Pays(plan))
      BY <1>5, <1>6, <3>3, <3>4, PayeesAre
    <3> QED
      BY <1>5, <3>1, <3>2, <3>5 DEF PaysEnough
  <2> QED
    BY <2>1, <2>2
<1> QED
  BY <1>8, <1>9 DEF t

(* The fields of a draft.                                                  *)
LEMMA PartsOf ==
    ASSUME NEW a, NEW b, NEW c, NEW d, NEW r,
           r = [raises |-> a, fee |-> b, settles |-> c, tx |-> d]
    PROVE  r.raises = a /\ r.fee = b /\ r.settles = c /\ r.tx = d
OBVIOUS
MadeOf(t, a, b, c, d, e) == t = Tx(a, b, c, d, e)
Shaped(t) == \E a, b, c, d, e : MadeOf(t, a, b, c, d, e)
LEMMA PartsOfTx ==
    ASSUME NEW t, NEW a, NEW b, NEW c, NEW d, NEW e, MadeOf(t, a, b, c, d, e)
    PROVE  t.satoriIn = a /\ t.currencyIn = b /\ t.ins = c /\ t.claims = d /\ t.outs = e
BY TxIs DEF MadeOf

BalanceIs == balance.satori \in Nat /\ balance.currency \in Nat

(* A sweep pays the payee everything but the fee.                          *)
LEMMA SweepPays ==
    ASSUME CoinsAre, BalanceIs, Called, Sweeps, ~ sendAllTransaction.raises
    PROVE  /\ IsTx(sendAllTransaction.tx) /\ sendAllTransaction.fee \in Nat
           /\ Paid(sendAllTransaction.tx) = sendAllTransaction.fee
           /\ AllAsked(sendAllTransaction.tx) /\ PaysEnough(sendAllTransaction.tx)
           /\ sendAllTransaction.settles
<1> DEFINE fee  == IF override > 0 THEN override ELSE PerItem * (Len(assets) + Len(purse) + 2)
           left == Total(purse) - fee
           o == Satori("payee", balance.satori)
           q == Currency("payee", left)
           a == IF assets # <<>> THEN <<o>> ELSE <<>>
           c == IF left > 0 THEN <<q>> ELSE <<>>
           raises == balance.currency < Reserve \/ left < 0
           t == Tx(Total(assets), Total(purse), Len(assets) + Len(purse), 0, a \o c)
           r == sendAllTransaction
<1>1. r = [raises |-> raises, fee |-> fee, settles |-> TRUE, tx |-> t]
  BY Zenon DEF sendAllTransaction
<1>2. /\ Total(assets) \in Nat /\ Total(purse) \in Nat
      /\ Len(assets) \in Nat /\ Len(purse) \in Nat
  BY CoinsTotal DEF CoinsAre
<1>3. fee \in Nat /\ left \in Int
  BY <1>2, CallIs DEF PerItem
<1>4. /\ o \in Payments /\ o.asset = "satori" /\ o.to = "payee"
      /\ q \in Payments /\ q.asset = "currency" /\ q.to = "payee" /\ q.value = left
  <2>1. balance.satori \in Int /\ "payee" \in Recipients
    BY DEF BalanceIs, Recipients
  <2> QED
    BY <1>3, <2>1, OutputIs DEF Satori, Currency, Kinds
<1> HIDE DEF r, raises, t
<1>5. r.raises = raises /\ r.fee = fee /\ r.settles = TRUE /\ r.tx = t
  <2> HIDE DEF fee
  <2> QED
    BY <1>1, PartsOf
<1>6. ~ raises
  BY <1>5, Zenon DEF r
<1>7. left >= 0
  <2>1. ~ (left < 0)
    BY <1>6, Zenon DEF raises
  <2> QED
    BY <1>3, <2>1
<1> HIDE DEF fee, left, o, q
<1>8. /\ a \in Seq(Payments) /\ c \in Seq(Payments)
      /\ Values(a, "currency") = 0 /\ Values(c, "currency") = left
      /\ \A i \in 1..Len(a) : a[i].to = "payee"
      /\ \A i \in 1..Len(c) : c[i].to = "payee"
  <2>1. Values(<<o>>, "currency") = 0 /\ Values(<<q>>, "currency") = left
    BY <1>4, ValuesOne
  <2>2. /\ <<>> \in Seq(Payments) /\ Len(<<>>) = 0 /\ Values(<<>>, "currency") = 0
        /\ <<o>> \in Seq(Payments) /\ Len(<<o>>) = 1 /\ <<o>>[1].to = "payee"
        /\ <<q>> \in Seq(Payments) /\ Len(<<q>>) = 1 /\ <<q>>[1].to = "payee"
    BY <1>4, ValuesNothing
  <2>3. /\ a \in Seq(Payments) /\ Values(a, "currency") = 0
        /\ \A i \in 1..Len(a) : a[i].to = "payee"
    <3>1. CASE assets # <<>>
      <4>1. a = <<o>>
        BY <3>1
      <4> QED
        BY <2>1, <2>2, <4>1
    <3>2. CASE assets = <<>>
      <4>1. a = <<>>
        BY <3>2
      <4> QED
        BY <2>1, <2>2, <4>1
    <3> QED
      BY <3>1, <3>2
  <2>4. /\ c \in Seq(Payments) /\ Values(c, "currency") = left
        /\ \A i \in 1..Len(c) : c[i].to = "payee"
    <3>1. CASE left > 0
      <4>1. c = <<q>>
        BY <3>1
      <4> QED
        BY <2>1, <2>2, <4>1
    <3>2. CASE ~ (left > 0)
      <4>1. c = <<>> /\ left = 0
        BY <1>3, <1>7, <3>2
      <4> QED
        BY <2>1, <2>2, <4>1
    <3> QED
      BY <3>1, <3>2
  <2> QED
    BY <2>3, <2>4
<1> HIDE DEF a, c
<1>9. /\ t.satoriIn = Total(assets) /\ t.currencyIn = Total(purse)
      /\ t.ins = Len(assets) + Len(purse) /\ t.claims = 0 /\ t.outs = a \o c
  <2>1. MadeOf(t, Total(assets), Total(purse), Len(assets) + Len(purse), 0, a \o c)
    BY DEF t, MadeOf
  <2> QED
    BY <2>1, PartsOfTx
<1>10. /\ a \o c \in Seq(Payments) /\ Values(a \o c, "currency") = left
       /\ Len(a) \in Nat /\ Len(c) \in Nat /\ Len(a \o c) = Len(a) + Len(c)
       /\ \A i \in 1..(Len(a) + Len(c)) : (a \o c)[i] = IF i <= Len(a) THEN a[i] ELSE c[i - Len(a)]
  <2>1. Values(a \o c, "currency") = 0 + left
    BY <1>8, ValuesJoined
  <2> QED
    BY <1>3, <1>8, <2>1, ConcatProperties
<1>11. \A i \in 1..Len(t.outs) : t.outs[i].to = "payee"
  <2> SUFFICES ASSUME NEW i \in 1..(Len(a) + Len(c)) PROVE (a \o c)[i].to = "payee"
    BY <1>9, <1>10
  <2>1. CASE i <= Len(a)
    BY <1>8, <1>10, <2>1
  <2>2. CASE ~ (i <= Len(a))
    <3>1. i - Len(a) \in 1..Len(c) /\ (a \o c)[i] = c[i - Len(a)]
      BY <1>10, <2>2
    <3> QED
      BY <1>8, <3>1
  <2> QED
    BY <2>1, <2>2
<1>12. IsTx(t)
  BY <1>2, <1>9, <1>10 DEF IsTx
<1>13. Paid(t) = fee
  <2>1. Paid(t) = Total(purse) - left
    BY <1>9, <1>10 DEF Paid
  <2> QED
    BY <1>2, <1>3, <2>1 DEF left
<1>14. AllAsked(t)
  <2>1. t.outs \in Seq(Payments) /\ DOMAIN t.outs = 1..Len(t.outs)
    BY <1>9, <1>10
  <2> QED
    BY <1>11, <2>1 DEF AllAsked, Asked
<1>15. PaysEnough(t)
  <2>1. FewestPayees(t) = 1
    BY DEF FewestPayees
  <2>2. t.outs \in Seq(Payments) /\ Len(t.outs) \in Nat
    BY <1>9, <1>10
  <2>3. ASSUME t.outs # <<>> PROVE Cardinality(Payees(t)) >= 1
    <3>1. 1 <= Len(t.outs)
      BY <2>2, <2>3
    <3>2. \A i \in 1..1 : t.outs[i].to \notin {"self", "nobody", "mundo"}
      BY <1>11, <2>2, <3>1
    <3> QED
      BY <2>2, <3>1, <3>2, PayeesAre
  <2> QED
    BY <2>1, <2>3 DEF PaysEnough
<1>16. r.settles
  BY <1>5, Zenon
<1> QED
  BY <1>3, <1>5, <1>12, <1>13, <1>14, <1>15, <1>16, Zenon DEF r

(* What the outputs of a multisignature transaction may pay.               *)
Shares(outs) ==
    /\ outs \in Seq(Payments)
    /\ \A i \in 1..Len(outs) :
          \/ outs[i].to = "payee" /\ outs[i].value \in {task.amount, task.amount - MultisigFee}
          \/ outs[i].to = "channel" /\ outs[i].value = Locked - task.amount
          \/ outs[i].to = "self"
          \/ outs[i].to = "nobody" /\ outs[i].value = 0

LEMMA SharesJoined ==
    ASSUME NEW u, NEW v, Shares(u), Shares(v)
    PROVE  Shares(u \o v)
<1>1. u \in Seq(Payments) /\ v \in Seq(Payments)
  BY DEF Shares
<1>2. /\ u \o v \in Seq(Payments) /\ Len(u \o v) = Len(u) + Len(v)
      /\ \A i \in 1..(Len(u) + Len(v)) : (u \o v)[i] = IF i <= Len(u) THEN u[i] ELSE v[i - Len(u)]
      /\ Len(u) \in Nat /\ Len(v) \in Nat
  BY <1>1, ConcatProperties
<1>3. ASSUME NEW i \in 1..(Len(u) + Len(v))
      PROVE  \/ i \in 1..Len(u) /\ (u \o v)[i] = u[i]
             \/ i - Len(u) \in 1..Len(v) /\ (u \o v)[i] = v[i - Len(u)]
  BY <1>2
<1> QED
  BY <1>2, <1>3 DEF Shares

(* A multisignature transaction pays the payee, and the channel or the     *)
(* sender the rest.                                                        *)
LEMMA MultisigPays ==
    ASSUME CoinsAre, Called, task.kind = "paymentChannelMultisig",
           ~ paymentChannelMultisigTransactionStart.raises
    PROVE  /\ IsTx(paymentChannelMultisigTransactionStart.tx)
           /\ AllAsked(paymentChannelMultisigTransactionStart.tx)
           /\ PaysEnough(paymentChannelMultisigTransactionStart.tx)
<1> DEFINE g == GatherCurrency([n \in 0..Len(purse) |-> MultisigFee])
           o == Satori("payee", task.amount)
           q == Satori("channel", Locked - task.amount)
           a == <<o>>
           b == Change("currency", Total(g) - MultisigFee)
           c == IF Locked > task.amount THEN <<q>> ELSE <<>>
           raises == Total(purse) < MultisigFee \/ task.coins
           t == Tx(Locked, Total(g), Len(g), task.outs, a \o b \o c \o Memo)
           r == paymentChannelMultisigTransactionStart
<1>1. r = [raises |-> raises, fee |-> MultisigFee, settles |-> FALSE, tx |-> t]
  BY Zenon DEF paymentChannelMultisigTransactionStart
<1>2. /\ g \in Seq(Nat) /\ task.amount \in Nat /\ task.outs \in Nat /\ task.outs > 0
      /\ Locked \in Nat
  <2>1. g \in Seq(Nat)
    BY GatherIs
  <2>2. task.amount \in Nat /\ task.outs \in Nat /\ task.outs > 0
    BY CallIs
  <2>3. Locked \in Nat
    BY <2>2 DEF Locked
  <2> QED
    BY <2>1, <2>2, <2>3
<1> HIDE DEF g
<1>3. Total(g) \in Nat /\ Len(g) \in Nat /\ Total(g) - MultisigFee \in Int
  BY <1>2, CoinsTotal DEF MultisigFee, DefaultFee
<1>4. /\ o \in Payments /\ o.asset = "satori" /\ o.to = "payee" /\ o.value = task.amount
      /\ q \in Payments /\ q.asset = "satori" /\ q.to = "channel" /\ q.value = Locked - task.amount
  <2>1. "channel" \in Recipients /\ "payee" \in Recipients /\ Locked - task.amount \in Int
    BY <1>2 DEF Recipients
  <2> QED
    BY <1>2, <2>1, OutputIs DEF Satori, Kinds
<1> HIDE DEF r, raises, t, o, q
<1>5. r.tx = t
  BY <1>1
<1>6. /\ b \in Seq(Payments) /\ \A i \in 1..Len(b) : b[i].to = "self"
  BY <1>3, ChangeIs DEF Kinds
<1>7. /\ Memo \in Seq(Payments)
      /\ \A i \in 1..Len(Memo) : Memo[i].to = "nobody" /\ Memo[i].value = 0
  BY MemoIs
<1>8. a \in Seq(Payments) /\ \A i \in 1..Len(a) : a[i] = o
  BY <1>4
<1>9. c \in Seq(Payments) /\ \A i \in 1..Len(c) : c[i] = q
  <2>1. CASE Locked > task.amount
    BY <1>4, <2>1
  <2>2. CASE ~ (Locked > task.amount)
    BY <2>2
  <2> QED
    BY <2>1, <2>2
<1> HIDE DEF a, b, c
<1>10. Shares(a) /\ Shares(b) /\ Shares(c) /\ Shares(Memo)
  BY <1>4, <1>6, <1>7, <1>8, <1>9 DEF Shares
<1>11. Shares(a \o b \o c \o Memo)
  <2>1. Shares(a \o b)
    BY <1>10, SharesJoined
  <2>2. Shares((a \o b) \o c)
    BY <1>10, SharesJoined, <2>1
  <2> QED
    BY <1>10, SharesJoined, <2>2
<1>12. /\ t.satoriIn = Locked /\ t.currencyIn = Total(g) /\ t.ins = Len(g)
       /\ t.claims = task.outs /\ t.outs = a \o b \o c \o Memo
  <2> DEFINE outs == a \o b \o c \o Memo
  <2>1. MadeOf(t, Locked, Total(g), Len(g), task.outs, outs)
    BY Zenon DEF t, MadeOf
  <2> HIDE DEF outs
  <2>2. /\ t.satoriIn = Locked /\ t.currencyIn = Total(g) /\ t.ins = Len(g)
        /\ t.claims = task.outs /\ t.outs = outs
    BY <2>1, PartsOfTx
  <2> QED
    BY <2>2 DEF outs
<1>13. IsTx(t) /\ Shares(t.outs)
  BY <1>2, <1>3, <1>11, <1>12 DEF IsTx, Shares
<1>14. AllAsked(t)
  <2>1. DOMAIN t.outs = 1..Len(t.outs)
    BY <1>13 DEF IsTx
  <2> QED
    BY <1>13, <2>1 DEF AllAsked, Asked, Multisigs, Shares
<1>15. PaysEnough(t)
  <2>1. FewestPayees(t) \in {0, 1} /\ (~ Sweeps => FewestPayees(t) = 0) /\ ~ Sweeps
    BY <1>2, <1>12 DEF FewestPayees, Sweeps
  <2>2. \A i \in 1..0 : t.outs[i].to \notin {"self", "nobody", "mundo"}
    OBVIOUS
  <2>3. Cardinality(Payees(t)) >= 0
    <3>1. 0 \in Nat /\ 0 <= Len(t.outs) /\ t.outs \in Seq(Payments)
      BY <1>13 DEF IsTx
    <3> QED
      BY <2>2, <3>1, PayeesAre
  <2> QED
    BY <2>1, <2>3 DEF PaysEnough
<1> QED
  BY <1>5, <1>13, <1>14, <1>15 DEF r

LEMMA MultisigCurrencyPays ==
    ASSUME CoinsAre, Called, task.kind = "paymentChannelMultisigCurrency",
           ~ paymentChannelMultisigCurrencyTransactionStart.raises
    PROVE  /\ IsTx(paymentChannelMultisigCurrencyTransactionStart.tx)
           /\ AllAsked(paymentChannelMultisigCurrencyTransactionStart.tx)
           /\ PaysEnough(paymentChannelMultisigCurrencyTransactionStart.tx)
<1> DEFINE left == Locked - task.amount - MultisigFee
           o == Currency("payee", task.amount - MultisigFee)
           a == IF task.amount = MultisigFee THEN <<>> ELSE <<o>>
           b == Change("currency", left)
           raises == task.coins \/ left < 0
           t == Tx(0, Locked, 0, task.outs, a \o b \o Memo)
           r == paymentChannelMultisigCurrencyTransactionStart
<1>1. r = [raises |-> raises, fee |-> MultisigFee, settles |-> FALSE, tx |-> t]
  BY Zenon DEF paymentChannelMultisigCurrencyTransactionStart
<1>2. task.amount \in Nat /\ task.outs \in Nat /\ task.outs > 0 /\ Locked \in Nat
  BY CallIs DEF Locked
<1>3. left \in Int /\ task.amount - MultisigFee \in Int
  BY <1>2 DEF MultisigFee, DefaultFee
<1>4. o \in Payments /\ o.to = "payee" /\ o.value = task.amount - MultisigFee
  <2>1. "payee" \in Recipients
    BY DEF Recipients
  <2> QED
    BY <1>3, <2>1, OutputIs DEF Currency, Kinds
<1> HIDE DEF r, raises, t, o, left
<1>5. r.tx = t
  BY <1>1
<1>6. b \in Seq(Payments) /\ \A i \in 1..Len(b) : b[i].to = "self"
  BY <1>3, ChangeIs DEF Kinds
<1>7. /\ Memo \in Seq(Payments)
      /\ \A i \in 1..Len(Memo) : Memo[i].to = "nobody" /\ Memo[i].value = 0
  BY MemoIs
<1>8. a \in Seq(Payments) /\ \A i \in 1..Len(a) : a[i] = o
  <2>1. CASE task.amount = MultisigFee
    BY <2>1
  <2>2. CASE task.amount # MultisigFee
    BY <1>4, <2>2
  <2> QED
    BY <2>1, <2>2
<1> HIDE DEF a, b
<1>9. Shares(a) /\ Shares(b) /\ Shares(Memo)
  BY <1>4, <1>6, <1>7, <1>8 DEF Shares
<1>10. Shares(a \o b \o Memo)
  <2>1. Shares(a \o b)
    BY <1>9, SharesJoined
  <2> QED
    BY <1>9, <2>1, SharesJoined
<1>11. /\ t.satoriIn = 0 /\ t.currencyIn = Locked /\ t.ins = 0
       /\ t.claims = task.outs /\ t.outs = a \o b \o Memo
  <2>1. MadeOf(t, 0, Locked, 0, task.outs, a \o b \o Memo)
    BY Zenon DEF t, MadeOf
  <2> QED
    BY ZenonT(60), <2>1, PartsOfTx
<1>12. IsTx(t) /\ Shares(t.outs)
  <2>1. Shares(t.outs) /\ t.outs \in Seq(Payments)
    BY <1>10, <1>11 DEF Shares
  <2>2. t.ins \in Nat /\ t.claims \in Nat /\ t.satoriIn \in Nat /\ t.currencyIn \in Nat
    BY <1>2, <1>11
  <2> QED
    BY <2>1, <2>2 DEF IsTx
<1>13. AllAsked(t)
  <2>1. DOMAIN t.outs = 1..Len(t.outs)
    BY <1>12 DEF IsTx
  <2> QED
    BY <1>12, <2>1 DEF AllAsked, Asked, Multisigs, Shares
<1>14. PaysEnough(t)
  <2>1. FewestPayees(t) = 0
    BY <1>2, <1>11 DEF FewestPayees, Sweeps
  <2>2. \A i \in 1..0 : t.outs[i].to \notin {"self", "nobody", "mundo"}
    OBVIOUS
  <2>3. Cardinality(Payees(t)) >= 0
    <3>1. 0 \in Nat /\ 0 <= Len(t.outs) /\ t.outs \in Seq(Payments)
      BY <1>12 DEF IsTx
    <3> QED
      BY <2>2, <3>1, PayeesAre
  <2> QED
    BY <2>1, <2>3 DEF PaysEnough
<1> QED
  BY <1>5, <1>12, <1>13, <1>14 DEF r

(* Whatever is drafted pays what the call asked for, and the fee it was    *)
(* drafted for if the call is one that settles its fee.                    *)
LEMMA DraftedPays ==
    ASSUME CoinsAre, BalanceIs, Called, task.kind \notin Misdirected, ~ Drafted.raises
    PROVE  /\ IsTx(Drafted.tx) /\ AllAsked(Drafted.tx) /\ PaysEnough(Drafted.tx)
           /\ Settling => Drafted.settles /\ Paid(Drafted.tx) = Drafted.fee
<1>1. CASE Sweeps
  <2>1. Drafted = sendAllTransaction
    BY <1>1 DEF Drafted
  <2> QED
    BY <1>1, <2>1, SweepPays, Zenon
<1>2. CASE task.kind = "paymentChannelMultisig"
  <2>1. Drafted = paymentChannelMultisigTransactionStart
    BY <1>2 DEF Drafted, Sweeps
  <2>2. ~ Settling
    BY <1>2 DEF Settling, Multisigs
  <2> QED
    BY <1>2, <2>1, <2>2, MultisigPays, Zenon
<1>3. CASE task.kind = "paymentChannelMultisigCurrency"
  <2>1. Drafted = paymentChannelMultisigCurrencyTransactionStart
    BY <1>3 DEF Drafted, Sweeps
  <2>2. ~ Settling
    BY <1>3 DEF Settling, Multisigs
  <2> QED
    BY <1>3, <2>1, <2>2, MultisigCurrencyPays, Zenon
<1>4. CASE ~ Sweeps /\ ~ Multisigs
  <2>1. Drafted = Draft(PlanOf(task.kind))
    BY <1>4 DEF Drafted, Multisigs
  <2>2. task.kind \in Planned
    BY <1>4 DEF Called, IsCall, Repeating, Neuron, Single, Misdirected, Planned, Sweeps, Multisigs
  <2>3. GoodPlan(PlanOf(task.kind))
    BY <2>2, PlansGood
  <2>4. PICK plan : plan = PlanOf(task.kind)
    OBVIOUS
  <2>5. GoodPlan(plan) /\ ~ Draft(plan).raises /\ Drafted = Draft(plan)
    BY <2>1, <2>3, <2>4, Zenon
  <2>6. /\ IsTx(Draft(plan).tx) /\ Paid(Draft(plan).tx) = Draft(plan).fee
        /\ AllAsked(Draft(plan).tx) /\ PaysEnough(Draft(plan).tx)
    BY <1>4, <2>5, DraftPays, DraftAsked
  <2>7. Settling => Draft(plan).settles
    <3>1. Settling => plan.settles
      BY <2>5, Zenon DEF GoodPlan, PaysFee
    <3>2. Draft(plan).settles = plan.settles
      BY DraftParts, Zenon
    <3> QED
      BY <3>1, <3>2, Zenon
  <2> QED
    BY <2>5, <2>6, <2>7, Zenon
<1> QED
  BY <1>1, <1>2, <1>3, <1>4 DEF Multisigs

-----------------------------------------------------------------------------
(* What a partial transaction pays                                         *)

OfferIs ==
    /\ offer # NoOffer
    /\ offer.reserved \in Nat /\ offer.feeSats \in Nat /\ offer.satoriFee \in Nat

(* The outputs that a partial transaction may have.                        *)
Parts ==
    {o \in Payments :
        \/ o.to = "payee" /\ (Sweeps \/ o.value \in {task.amount, task.amount - SatoriFee})
        \/ o.to = "mundo" /\ (o.asset = "satori" => o.value = SatoriFee)
        \/ o.to = "bridge" /\ o.value = BridgeFee
        \/ o.to = "burn" /\ o.value = task.amount
        \/ o.to = "self"
        \/ o.to = "nobody" /\ o.value = 0}

(* What Partial makes of its outputs: Mundo's change comes after them.     *)
PartialOf(t, s, c, outs, counted, last, back) ==
    /\ t = Partial(s, c, outs, counted, last).tx
    /\ back = Returned(Len(s) + Len(c), counted)

PartialMade(t, c, outs, last, back) ==
    /\ Shaped(t) /\ IsTx(t) /\ t.claims = 0 /\ t.currencyIn = Total(c)
    /\ t.outs \in Seq(Parts) /\ Len(t.outs) = Len(outs) + 1 + Len(last)
    /\ \A i \in 1..Len(outs) : t.outs[i] = outs[i]
    /\ t.outs[Len(outs) + 1] = Currency("mundo", back)
    /\ Values(t.outs, "currency") = Values(outs, "currency") + back + Values(last, "currency")

LEMMA PartialIs ==
    ASSUME NEW s \in Seq(Nat), NEW c \in Seq(Nat), NEW outs \in Seq(Parts), NEW counted,
           NEW last \in Seq(Parts), NEW back \in Nat, NEW t,
           PartialOf(t, s, c, outs, counted, last, back)
    PROVE  PartialMade(t, c, outs, last, back)
<1> DEFINE o == Currency("mundo", back)
           raises == Total(s) < Values(outs, "satori") \/ back <= 0
           fee == offer.reserved - back
           made == Tx(Total(s), Total(c), Len(s) + Len(c), 0, outs \o <<o>> \o last)
<1>1. t = made
  <2>1. Partial(s, c, outs, counted, last).tx =
          Tx(Total(s), Total(c), Len(s) + Len(c), 0,
             outs \o <<Currency("mundo", Returned(Len(s) + Len(c), counted))>> \o last)
    BY DEF Partial
  <2> QED
    BY <2>1, Zenon DEF PartialOf
<1>2. o \in Payments /\ o.asset = "currency" /\ o.to = "mundo" /\ o.value = back
  <2>1. "mundo" \in Recipients /\ back \in Int
    BY DEF Recipients
  <2> QED
    BY <2>1, OutputIs DEF Currency, Kinds
<1> HIDE DEF o
<1>3. o \in Parts
  BY <1>2 DEF Parts
<1>4. Parts \subseteq Payments
  BY DEF Parts
<1>7. PICK w \in Seq(Parts) : w = <<o>> /\ Len(w) = 1 /\ w[1] = o
  <2>1. <<o>> \in Seq(Parts) /\ Len(<<o>>) = 1 /\ <<o>>[1] = o
    BY <1>3
  <2> QED
    BY <2>1
<1> HIDE DEF made
<1>5. MadeOf(t, Total(s), Total(c), Len(s) + Len(c), 0, outs \o w \o last)
  BY <1>1, <1>7, Zenon DEF MadeOf, made
<1>6. /\ t.satoriIn = Total(s) /\ t.currencyIn = Total(c) /\ t.ins = Len(s) + Len(c)
      /\ t.claims = 0 /\ t.outs = outs \o w \o last
  BY <1>5, PartsOfTx
<1>8. PICK u \in Seq(Parts) : u = outs \o w
  BY <1>7, ConcatProperties
<1>9. /\ Len(u) = Len(outs) + 1 /\ u[Len(outs) + 1] = o /\ \A i \in 1..Len(outs) : u[i] = outs[i]
      /\ Len(outs) \in Nat /\ Len(last) \in Nat
  BY <1>7, <1>8
<1>10. /\ u \o last \in Seq(Parts) /\ Len(u \o last) = Len(u) + Len(last)
       /\ \A i \in 1..Len(u) : (u \o last)[i] = u[i]
  <2>1. /\ u \o last \in Seq(Parts) /\ Len(u \o last) = Len(u) + Len(last)
        /\ \A i \in 1..(Len(u) + Len(last)) :
              (u \o last)[i] = IF i <= Len(u) THEN u[i] ELSE last[i - Len(u)]
    BY ConcatProperties
  <2>2. \A i \in 1..Len(u) : i \in 1..(Len(u) + Len(last)) /\ i <= Len(u)
    BY <1>9
  <2> QED
    BY <2>1, <2>2
<1>11. t.outs = u \o last
  BY <1>6, <1>8
<1>12. u[Len(outs) + 1] = (u \o last)[Len(outs) + 1] /\ \A i \in 1..Len(outs) : (u \o last)[i] = outs[i]
  <2>1. Len(outs) + 1 \in 1..Len(u) /\ \A i \in 1..Len(outs) : i \in 1..Len(u)
    BY <1>9
  <2> QED
    BY <1>9, <1>10, <2>1
<1>13. Values(t.outs, "currency") = Values(outs, "currency") + back + Values(last, "currency")
  <2>1. /\ outs \in Seq(Payments) /\ last \in Seq(Payments) /\ u \in Seq(Payments)
        /\ w \in Seq(Payments)
    BY <1>2, <1>4, SeqMonotonic
  <2>2. Values(w, "currency") = back
    BY <1>2, <1>7, ValuesOne
  <2>3. Values(outs \o w, "currency") = Values(outs, "currency") + back
    BY <2>1, <2>2, ValuesJoined
  <2>4. Values(u \o last, "currency") = Values(u, "currency") + Values(last, "currency")
    BY <2>1, ValuesJoined
  <2> QED
    BY <1>8, <1>11, <2>3, <2>4
<1>14. IsTx(t)
  <2>1. t.outs \in Seq(Payments)
    BY <1>4, <1>10, <1>11, SeqMonotonic
  <2>2. Total(s) \in Nat /\ Total(c) \in Nat /\ Len(s) \in Nat /\ Len(c) \in Nat
    BY CoinsTotal
  <2> QED
    BY <1>6, <2>1, <2>2 DEF IsTx
<1> QED
  <2>1. Shaped(t)
    BY <1>5, Zenon DEF Shaped
  <2> QED
    BY <1>6, <1>9, <1>10, <1>11, <1>12, <1>13, <1>14, <2>1 DEF o, PartialMade

(* What Mundo is to find in a partial transaction.                         *)
Payable(t) ==
    /\ Shaped(t) /\ IsTx(t) /\ t.claims = 0 /\ t.outs \in Seq(Parts) /\ PaysEnough(t)
    /\ Len(t.outs) >= IF Bridges THEN 4 ELSE 2
    /\ LET back  == t.outs[Len(t.outs) - IF Bridges THEN 1 ELSE 0]
           claim == t.outs[Len(t.outs) - IF Bridges THEN 3 ELSE 1]
       IN  /\ back.asset = "currency" /\ back.to = "mundo" /\ back.value > 0 /\ back.value \in Nat
           /\ claim.to = "mundo"
           /\ Values(t.outs, "currency") = t.currencyIn + back.value
    /\ \E i \in DOMAIN t.outs : t.outs[i].asset = "satori" /\ t.outs[i].value = SatoriFee
    /\ Bridges => \E i \in DOMAIN t.outs : t.outs[i].asset = "satori" /\ t.outs[i].value = BridgeFee

(* A partial transaction is payable if it begins with someone's payment,   *)
(* and ends with Mundo's and the bridge's.                                 *)
Placed(c, outs, last) ==
    /\ Values(outs, "currency") = Total(c) /\ Values(last, "currency") = 0
    /\ Len(last) = IF Bridges THEN 1 ELSE 0
    /\ Len(outs) >= IF Bridges THEN 2 ELSE 1
    /\ outs[1].to \notin {"self", "nobody", "mundo"}
    /\ LET claim == outs[Len(outs) - IF Bridges THEN 1 ELSE 0]
       IN  claim.to = "mundo" /\ claim.asset = "satori"
    /\ Bridges => outs[Len(outs)].asset = "satori" /\ outs[Len(outs)].value = BridgeFee

LEMMA PartialPayable ==
    ASSUME Called, OfferIs, task.kind \in Neuron,
           NEW s \in Seq(Nat), NEW c \in Seq(Nat), NEW outs \in Seq(Parts), NEW counted,
           NEW last \in Seq(Parts), NEW back \in Nat, NEW t,
           PartialOf(t, s, c, outs, counted, last, back), back > 0, Placed(c, outs, last)
    PROVE  Payable(t)
<1> DEFINE n == Len(t.outs)
<1>1. /\ Shaped(t) /\ IsTx(t) /\ t.claims = 0 /\ t.currencyIn = Total(c)
      /\ t.outs \in Seq(Parts) /\ Len(t.outs) = Len(outs) + 1 + Len(last)
      /\ \A i \in 1..Len(outs) : t.outs[i] = outs[i]
      /\ t.outs[Len(outs) + 1] = Currency("mundo", back)
      /\ Values(t.outs, "currency") = Values(outs, "currency") + back + Values(last, "currency")
  <2>1. PartialMade(t, c, outs, last, back)
    BY PartialIs
  <2> QED
    BY <2>1 DEF PartialMade
<1>11. PICK m \in 1..Len(outs) : /\ m = Len(outs) - (IF Bridges THEN 1 ELSE 0)
                                 /\ outs[m].to = "mundo" /\ outs[m].asset = "satori"
  <2>1. CASE Bridges
    <3>1. Len(outs) - 1 \in 1..Len(outs)
      BY <2>1 DEF Placed
    <3> QED
      BY SMTT(60), <2>1, <3>1 DEF Placed
  <2>2. CASE ~ Bridges
    <3>1. Len(outs) - 0 \in 1..Len(outs) /\ Len(outs) - 0 = Len(outs)
      BY <2>2 DEF Placed
    <3> QED
      BY <2>2, <3>1 DEF Placed
  <2> QED
    BY <2>1, <2>2
<1>12. /\ Values(outs, "currency") = Total(c) /\ Values(last, "currency") = 0
       /\ Len(last) = (IF Bridges THEN 1 ELSE 0) /\ Len(outs) >= (IF Bridges THEN 2 ELSE 1)
       /\ outs[1].to \notin {"self", "nobody", "mundo"}
       /\ Bridges => outs[Len(outs)].asset = "satori" /\ outs[Len(outs)].value = BridgeFee
  BY DEF Placed
<1>2. /\ Len(outs) \in Nat /\ n \in Nat /\ Total(c) \in Nat /\ DOMAIN t.outs = 1..n
      /\ Len(outs) <= n
  <2>1. Len(outs) \in Nat /\ Len(t.outs) \in Nat /\ DOMAIN t.outs = 1..Len(t.outs)
    BY <1>1
  <2>2. Total(c) \in Nat
    BY CoinsTotal
  <2>3. Len(last) \in Nat /\ Len(t.outs) = Len(outs) + 1 + Len(last)
    BY <1>1
  <2>4. Len(outs) <= Len(t.outs)
    BY <2>1, <2>3
  <2> QED
    BY <2>1, <2>2, <2>4
<1>3. PICK o : o = Currency("mundo", back) /\ o.asset = "currency" /\ o.to = "mundo" /\ o.value = back
  <2>1. "mundo" \in Recipients /\ back \in Int
    BY DEF Recipients
  <2> QED
    BY <2>1, OutputIs DEF Currency, Kinds
<1>4. /\ t.outs[n - (IF Bridges THEN 1 ELSE 0)] = o
      /\ t.outs[n - (IF Bridges THEN 3 ELSE 1)] = outs[m]
      /\ n >= IF Bridges THEN 4 ELSE 2
  <2>1. CASE Bridges
    <3>1. n - 1 = Len(outs) + 1 /\ n - 3 = m /\ n >= 4
      BY <1>1, <1>2, <1>11, <1>12, <2>1
    <3> QED
      BY <1>1, <1>3, <2>1, <3>1
  <2>2. CASE ~ Bridges
    <3>1. n - 0 = Len(outs) + 1 /\ n - 1 = m /\ n >= 2
      BY <1>1, <1>2, <1>11, <1>12, <2>2
    <3> QED
      BY <1>1, <1>3, <2>2, <3>1
  <2> QED
    BY <2>1, <2>2
<1>5. Values(t.outs, "currency") = t.currencyIn + o.value
  BY <1>1, <1>2, <1>3, <1>12
<1>6. outs[m] \in Parts /\ outs[m].value = SatoriFee
  <2>1. outs[m] \in Parts
    OBVIOUS
  <2> QED
    BY <1>11, <2>1 DEF Parts
<1>7. \E i \in DOMAIN t.outs : t.outs[i].asset = "satori" /\ t.outs[i].value = SatoriFee
  <2>1. m \in 1..n /\ t.outs[m] = outs[m]
    BY <1>1, <1>2
  <2> QED
    BY <1>2, <1>6, <1>11, <2>1
<1>8. Bridges => \E i \in DOMAIN t.outs : t.outs[i].asset = "satori" /\ t.outs[i].value = BridgeFee
  <2> SUFFICES ASSUME Bridges
               PROVE  \E i \in DOMAIN t.outs : t.outs[i].asset = "satori" /\ t.outs[i].value = BridgeFee
    OBVIOUS
  <2>1. Len(outs) \in 1..n /\ t.outs[Len(outs)] = outs[Len(outs)]
    <3>1. Len(outs) \in 1..Len(outs) /\ Len(outs) \in 1..n
      BY <1>2, <1>12
    <3> QED
      BY <1>1, <3>1
  <2> QED
    BY <1>2, <1>12, <2>1
<1>9. PaysEnough(t)
  <2>1. t.outs \in Seq(Payments)
    BY <1>1 DEF IsTx
  <2>2. 1 <= n /\ \A i \in 1..1 : t.outs[i].to \notin {"self", "nobody", "mundo"}
    <3>1. 1 \in 1..Len(outs) /\ 1 <= n
      BY <1>2, <1>12
    <3>2. t.outs[1] = outs[1]
      BY <1>1, <3>1
    <3>3. \A i \in 1..1 : i = 1
      OBVIOUS
    <3> QED
      BY <1>12, <3>1, <3>2, <3>3
  <2>3. Cardinality(Payees(t)) \in Nat /\ Cardinality(Payees(t)) >= 1
    BY <2>1, <2>2, PayeesAre
  <2>4. FewestPayees(t) = 1
    <3>1. task.outs = 1
      BY CallIs DEF Neuron, Repeating
    <3> QED
      BY <1>1, <3>1 DEF FewestPayees
  <2> QED
    BY <2>3, <2>4 DEF PaysEnough
<1> HIDE DEF n
<1>10. Payable(t)
  <2>1. n = Len(t.outs)
    BY DEF n
  <2>2. o.asset = "currency" /\ o.to = "mundo" /\ o.value > 0 /\ o.value \in Nat
    BY <1>3
  <2>3. /\ t.outs[Len(t.outs) - (IF Bridges THEN 1 ELSE 0)] = o
        /\ t.outs[Len(t.outs) - (IF Bridges THEN 3 ELSE 1)] = outs[m]
        /\ Len(t.outs) >= IF Bridges THEN 4 ELSE 2
    BY <1>4, <2>1
  <2>4. /\ Shaped(t) /\ IsTx(t) /\ t.claims = 0 /\ t.outs \in Seq(Parts) /\ PaysEnough(t)
    BY <1>1, <1>9
  <2>5. /\ t.outs[Len(t.outs) - (IF Bridges THEN 1 ELSE 0)].asset = "currency"
        /\ t.outs[Len(t.outs) - (IF Bridges THEN 1 ELSE 0)].to = "mundo"
        /\ t.outs[Len(t.outs) - (IF Bridges THEN 1 ELSE 0)].value > 0
        /\ t.outs[Len(t.outs) - (IF Bridges THEN 1 ELSE 0)].value \in Nat
        /\ t.outs[Len(t.outs) - (IF Bridges THEN 3 ELSE 1)].to = "mundo"
        /\ Values(t.outs, "currency")
             = t.currencyIn + t.outs[Len(t.outs) - (IF Bridges THEN 1 ELSE 0)].value
    BY <1>5, <1>11, <2>2, <2>3
  <2> QED
    BY <1>7, <1>8, <2>3, <2>4, <2>5, Zenon DEF Payable
<1> QED
  BY <1>10

(* How the outputs of a partial transaction begin and end before Mundo's   *)
(* change is added.                                                        *)
Leading(front, c) ==
    /\ front \in Seq(Parts) /\ Len(front) >= 1
    /\ front[1].to \notin {"self", "nobody", "mundo"}
    /\ Values(front, "currency") = Total(c)
Rear(rear) ==
    /\ rear \in Seq(Parts) /\ Len(rear) = IF Bridges THEN 2 ELSE 1
    /\ rear[1].to = "mundo" /\ rear[1].asset = "satori" /\ Values(rear, "currency") = 0
    /\ Bridges => rear[2].asset = "satori" /\ rear[2].value = BridgeFee
Final(last) ==
    last \in Seq(Parts) /\ Values(last, "currency") = 0 /\ Len(last) = IF Bridges THEN 1 ELSE 0

LEMMA PlacedIs ==
    ASSUME NEW c \in Seq(Nat), NEW front, Leading(front, c), NEW rear, Rear(rear), NEW last, Final(last)
    PROVE  front \o rear \in Seq(Parts) /\ Placed(c, front \o rear, last)
<1>1. /\ front \in Seq(Parts) /\ rear \in Seq(Parts) /\ last \in Seq(Parts)
      /\ front \in Seq(Payments) /\ rear \in Seq(Payments)
  <2>1. Parts \subseteq Payments
    BY DEF Parts
  <2> QED
    BY <2>1, SeqMonotonic DEF Leading, Rear, Final
<1>2. PICK f \in Nat, n \in Nat : f = Len(front) /\ n = Len(rear) /\ f >= 1
                                  /\ n = IF Bridges THEN 2 ELSE 1
  <2>1. Len(front) \in Nat /\ Len(rear) \in Nat
    BY <1>1
  <2> QED
    BY <2>1 DEF Leading, Rear
<1>3. PICK outs \in Seq(Parts) : /\ outs = front \o rear /\ Len(outs) = f + n
                                 /\ \A i \in 1..(f + n) :
                                      outs[i] = IF i <= f THEN front[i] ELSE rear[i - f]
  <2>1. /\ front \o rear \in Seq(Parts) /\ Len(front \o rear) = Len(front) + Len(rear)
        /\ \A i \in 1..(Len(front) + Len(rear)) :
             (front \o rear)[i] = IF i <= Len(front) THEN front[i] ELSE rear[i - Len(front)]
    BY <1>1, ConcatProperties
  <2> QED
    BY <1>2, <2>1
<1>4. Values(outs, "currency") = Total(c)
  <2>1. Values(front \o rear, "currency") = Values(front, "currency") + Values(rear, "currency")
    BY <1>1, ValuesJoined
  <2>2. Total(c) \in Nat
    BY CoinsTotal
  <2> QED
    BY <1>3, <2>1, <2>2 DEF Leading, Rear
<1>5. outs[1] = front[1] /\ outs[f + 1] = rear[1]
  <2>1. 1 \in 1..(f + n) /\ f + 1 \in 1..(f + n) /\ 1 <= f /\ ~ (f + 1 <= f) /\ f + 1 - f = 1
    BY <1>2
  <2> QED
    BY SMTT(60), <1>3, <2>1
<1>6. f + 1 = Len(outs) - IF Bridges THEN 1 ELSE 0
  BY <1>2, <1>3
<1>7. Bridges => outs[Len(outs)] = rear[2]
  <2>1. Bridges => f + 2 \in 1..(f + n) /\ ~ (f + 2 <= f) /\ f + 2 - f = 2 /\ Len(outs) = f + 2
    BY <1>2, <1>3
  <2> QED
    BY <1>3, <2>1
<1>8. Len(outs) >= IF Bridges THEN 2 ELSE 1
  BY <1>2, <1>3
<1>9. Placed(c, outs, last)
  BY <1>4, <1>5, <1>6, <1>7, <1>8 DEF Placed, Leading, Rear, Final
<1> QED
  BY <1>3, <1>9

(* An offer leaves so much for Mundo, and a partial transaction is only    *)
(* made if that is something.                                              *)
LEMMA ReturnedIs ==
    ASSUME OfferIs, NEW ins \in Nat, NEW outs \in Nat
    PROVE  Returned(ins, outs) \in Int
BY DEF Returned, OfferIs, PerItem

LEMMA PartialSound ==
    ASSUME Called, OfferIs, task.kind \in Neuron, NEW s \in Seq(Nat), NEW c \in Seq(Nat),
           NEW counted \in Nat, NEW front, Leading(front, c), NEW rear, Rear(rear),
           NEW last, Final(last), Returned(Len(s) + Len(c), counted) > 0
    PROVE  Payable(Partial(s, c, front \o rear, counted, last).tx)
<1>1. PICK outs \in Seq(Parts) : outs = front \o rear /\ Placed(c, outs, last)
  BY PlacedIs
<1>2. PICK back : back = Returned(Len(s) + Len(c), counted)
  OBVIOUS
<1>3. back \in Nat /\ back > 0
  <2>1. Len(s) + Len(c) \in Nat
    OBVIOUS
  <2>2. Returned(Len(s) + Len(c), counted) \in Int
    BY <2>1, ReturnedIs
  <2> QED
    BY <1>2, <2>2
<1>4. PICK t : t = Partial(s, c, outs, counted, last).tx
  OBVIOUS
<1>5. PartialOf(t, s, c, outs, counted, last, back)
  BY <1>2, <1>4, Zenon DEF PartialOf
<1>6. last \in Seq(Parts)
  BY DEF Final
<1>7. Payable(t)
  BY <1>1, <1>3, <1>5, <1>6, PartialPayable
<1> QED
  BY <1>1, <1>4, <1>7, Zenon

(* One output, and what is passed through.                                 *)
LEMMA PartIs ==
    ASSUME NEW o \in Parts, NEW asset
    PROVE  /\ <<o>> \in Seq(Parts) /\ Len(<<o>>) = 1 /\ <<o>>[1] = o
           /\ Values(<<o>>, asset) = IF o.asset = asset THEN o.value ELSE 0
<1>1. o \in Payments
  BY DEF Parts
<1> QED
  BY <1>1, ValuesOne

(* Change is a part of any partial transaction.                            *)
LEMMA ChangeParts ==
    ASSUME NEW asset \in Kinds, NEW value \in Int
    PROVE  Change(asset, value) \in Seq(Parts) /\ Len(Change(asset, value)) \in Nat
<1>1. PICK o \in Payments : o = Output(asset, "self", value) /\ o.to = "self"
  BY OutputIs DEF Recipients
<1>2. <<o>> \in Seq(Parts) /\ <<>> \in Seq(Parts)
  BY <1>1 DEF Parts
<1> QED
  BY <1>1, <1>2 DEF Change

(* A payment in SATORI, and the change after it.                           *)
LEMMA LeadingPayment ==
    ASSUME NEW o \in Parts, o.asset = "satori", o.to \notin {"self", "nobody", "mundo"},
           NEW value \in Int
    PROVE  Leading(<<o>> \o Change("satori", value), <<>>)
<1>1. PICK x \in Seq(Parts) : x = <<o>> /\ Len(x) = 1 /\ x[1] = o /\ Values(x, "currency") = 0
  BY PartIs
<1>2. PICK y \in Seq(Parts) : y = Change("satori", value) /\ Values(y, "currency") = 0
  <2>1. "satori" \in Kinds
    BY DEF Kinds
  <2>2. Change("satori", value) \in Seq(Parts)
    BY <2>1, ChangeParts
  <2>3. Values(Change("satori", value), "currency") = 0
    BY <2>1, ChangeIs
  <2> QED
    BY <2>2, <2>3
<1>3. x \in Seq(Payments) /\ y \in Seq(Payments)
  <2>1. Parts \subseteq Payments
    BY DEF Parts
  <2> QED
    BY <2>1, SeqMonotonic
<1>4. /\ x \o y \in Seq(Parts) /\ Len(x \o y) >= 1 /\ (x \o y)[1] = o
  <2>1. Len(y) \in Nat
    OBVIOUS
  <2> QED
    BY <1>1, <2>1
<1>5. Values(x \o y, "currency") = 0
  <2>1. Values(x \o y, "currency") = Values(x, "currency") + Values(y, "currency")
    BY <1>3, ValuesJoined
  <2> QED
    BY <1>1, <1>2, <2>1
<1>6. Total(<<>>) = 0
  BY TotalNothing
<1> QED
  BY <1>1, <1>2, <1>4, <1>5, <1>6 DEF Leading

(* The fee in SATORI is a number.                                          *)
LEMMA SatoriFeeIs ==
    ASSUME Called, OfferIs
    PROVE  SatoriFee \in Nat
BY CallIs DEF SatoriFee, OfferIs

LEMMA PartialRaises ==
    ASSUME NEW s, NEW c, NEW outs, NEW counted, NEW last
    PROVE  Partial(s, c, outs, counted, last).raises
             <=> Total(s) < Values(outs, "satori") \/ Returned(Len(s) + Len(c), counted) <= 0
BY Zenon DEF Partial

LEMMA satoriOnlyPays ==
    ASSUME CoinsAre, BalanceIs, Called, OfferIs, task.kind \in Neuron, ~ Bridges,
           ~ satoriOnlyPartialSimple.raises
    PROVE  Payable(satoriOnlyPartialSimple.tx)
<1> DEFINE pulled == task.amount + SatoriFee > balance.satori
           amount == IF pulled THEN task.amount - SatoriFee ELSE task.amount
           s      == GatherSatori(amount + SatoriFee)
           value  == Total(s) - amount - SatoriFee
           over   == Change("satori", value)
           o      == Satori("payee", amount)
           m      == Satori("mundo", SatoriFee)
<1>1. satoriOnlyPartialSimple = Partial(s, <<>>, <<o>> \o over \o <<m>>, 3 + Len(over), <<>>)
  BY Zenon DEF satoriOnlyPartialSimple
<1>2. /\ task.amount \in Nat /\ SatoriFee \in Nat /\ amount \in Int
      /\ amount \in {task.amount, task.amount - SatoriFee}
  BY CallIs, SatoriFeeIs
<1>3. /\ o \in Payments /\ o.asset = "satori" /\ o.to = "payee" /\ o.value = amount
      /\ m \in Payments /\ m.asset = "satori" /\ m.to = "mundo" /\ m.value = SatoriFee
  BY <1>2, OutputIs DEF Satori, Kinds, Recipients
<1>4. s \in Seq(Nat) /\ value \in Int
  <2> HIDE DEF amount
  <2>1. s \in Seq(Nat)
    BY GatherSatoriIs
  <2> QED
    BY <1>2, <2>1, CoinsTotal
<1> HIDE DEF s, value, o, m, amount
<1>5. o \in Parts /\ m \in Parts
  BY <1>2, <1>3 DEF Parts
<1>6. Leading(<<o>> \o over, <<>>)
  BY <1>3, <1>4, <1>5, LeadingPayment
<1>7. Rear(<<m>>)
  BY <1>3, <1>5, PartIs DEF Rear
<1>8. Final(<<>>)
  BY ValuesNothing DEF Final
<1>9. PICK counted \in Nat : counted = 3 + Len(over)
  BY <1>4, ChangeParts DEF Kinds
<1>10. PICK front : front = <<o>> \o over
  OBVIOUS
<1>11. satoriOnlyPartialSimple = Partial(s, <<>>, front \o <<m>>, counted, <<>>)
  BY <1>1, <1>9, <1>10, Zenon
<1>12. <<>> \in Seq(Nat)
  OBVIOUS
<1>13. Returned(Len(s) + Len(<<>>), counted) > 0
  <2>1. ~ Partial(s, <<>>, front \o <<m>>, counted, <<>>).raises
    BY <1>11, Zenon
  <2>2. ~ (Returned(Len(s) + Len(<<>>), counted) <= 0)
    BY <2>1, PartialRaises, Zenon
  <2>3. Len(s) + Len(<<>>) \in Nat
    BY <1>4
  <2> QED
    BY <2>2, <2>3, ReturnedIs
<1>14. Payable(Partial(s, <<>>, front \o <<m>>, counted, <<>>).tx)
  <2>1. Leading(front, <<>>)
    BY <1>6, <1>10
  <2> QED
    BY <1>4, <1>7, <1>8, <1>12, <1>13, <2>1, PartialSound
<1> QED
  BY <1>11, <1>14, Zenon

LEMMA SweptLeading ==
    ASSUME CoinsAre, NEW o \in Parts, o.asset = "satori", o.to = "payee",
           NEW q \in Parts, q.asset = "currency", q.to = "payee", q.value = Total(purse)
    PROVE  /\ Leading((IF purse # <<>> THEN <<q>> ELSE <<>>) \o <<o>>, purse)
           /\ Len((IF purse # <<>> THEN <<q>> ELSE <<>>) \o <<o>>) \in Nat
<1>1. PICK x \in Seq(Parts) : x = <<o>> /\ Len(x) = 1 /\ x[1] = o /\ Values(x, "currency") = 0
  BY PartIs
<1>2. PICK y \in Seq(Parts) : y = <<q>> /\ Len(y) = 1 /\ y[1] = q /\ Values(y, "currency") = Total(purse)
  BY PartIs
<1>3. x \in Seq(Payments) /\ y \in Seq(Payments)
  <2>1. Parts \subseteq Payments
    BY DEF Parts
  <2> QED
    BY <2>1, SeqMonotonic
<1>4. CASE purse # <<>>
  <2>1. y \o x \in Seq(Parts) /\ Len(y \o x) = 2 /\ (y \o x)[1] = q
    BY <1>1, <1>2
  <2>2. Values(y \o x, "currency") = Total(purse) + 0
    <3>1. Values(y \o x, "currency") = Values(y, "currency") + Values(x, "currency")
      BY <1>3, ValuesJoined
    <3> QED
      BY <1>1, <1>2, <3>1
  <2>3. Total(purse) \in Nat
    BY CoinsTotal DEF CoinsAre
  <2>4. Leading(y \o x, purse)
    <3>1. PICK z : z = y \o x
      OBVIOUS
    <3>2. z \in Seq(Parts) /\ Len(z) = 2 /\ z[1] = q /\ Values(z, "currency") = Total(purse) + 0
      BY <2>1, <2>2, <3>1, Zenon
    <3>3. Leading(z, purse)
      BY <2>3, <3>2 DEF Leading
    <3> QED
      BY <3>1, <3>3, Zenon
  <2>5. (IF purse # <<>> THEN <<q>> ELSE <<>>) \o <<o>> = y \o x
    BY <1>1, <1>2, <1>4
  <2>6. Len(y \o x) \in Nat
    BY <2>1
  <2> QED
    BY <2>4, <2>5, <2>6, Zenon
<1>5. CASE purse = <<>>
  <2>1. Total(purse) = 0
    BY <1>5, TotalNothing
  <2>2. Leading(x, purse)
    BY <1>1, <2>1 DEF Leading
  <2>3. (IF purse # <<>> THEN <<q>> ELSE <<>>) \o <<o>> = x
    <3>1. (IF purse # <<>> THEN <<q>> ELSE <<>>) = <<>>
      BY <1>5
    <3>2. <<>> \o x = x
      BY ConcatEmptySeq
    <3> QED
      BY <1>1, <3>1, <3>2
  <2>4. Len(x) \in Nat
    BY <1>1
  <2> QED
    BY <2>2, <2>3, <2>4, Zenon
<1> QED
  BY <1>4, <1>5, Zenon

LEMMA sendAllPays ==
    ASSUME CoinsAre, BalanceIs, Called, OfferIs, task.kind \in Neuron, ~ Bridges, Sweeps,
           ~ sendAllPartialSimple.raises
    PROVE  Payable(sendAllPartialSimple.tx)
<1> DEFINE o == Satori("payee", balance.satori - SatoriFee)
           q == Currency("payee", Total(purse))
           m == Satori("mundo", SatoriFee)
           swept == (IF purse # <<>> THEN <<q>> ELSE <<>>) \o <<o>>
           counted == Len(swept) + 2
           draft == Partial(assets, purse, swept \o <<m>>, counted, <<>>)
           raises == balance.satori < SatoriFee
                       \/ Returned(Len(assets) + Len(purse), counted) <= 0
<1>1. sendAllPartialSimple = [draft EXCEPT !.raises = raises]
  BY Zenon DEF sendAllPartialSimple
<1>2. /\ SatoriFee \in Nat /\ Total(purse) \in Nat /\ Len(purse) \in Nat /\ Len(assets) \in Nat
      /\ balance.satori - SatoriFee \in Int /\ purse \in Seq(Nat) /\ assets \in Seq(Nat)
  BY SatoriFeeIs, CoinsTotal DEF CoinsAre, BalanceIs
<1>3. /\ o \in Payments /\ o.asset = "satori" /\ o.to = "payee"
      /\ m \in Payments /\ m.asset = "satori" /\ m.to = "mundo" /\ m.value = SatoriFee
      /\ q \in Payments /\ q.asset = "currency" /\ q.to = "payee" /\ q.value = Total(purse)
  BY SMTT(60), <1>2, OutputIs DEF Satori, Currency, Kinds, Recipients
<1> HIDE DEF o, m, q, counted, raises, draft
<1>4. o \in Parts /\ m \in Parts /\ q \in Parts
  BY <1>3 DEF Parts
<1>5. Leading(swept, purse) /\ Len(swept) \in Nat
  BY <1>3, <1>4, SweptLeading
<1> HIDE DEF swept
<1>6. Rear(<<m>>)
  BY <1>3, <1>4, PartIs DEF Rear
<1>7. Final(<<>>)
  BY ValuesNothing DEF Final
<1>8. counted \in Nat
  BY <1>5 DEF counted
<1>9. \E a, b, c : draft = [raises |-> a, fee |-> b, tx |-> c]
  BY Zenon DEF draft, Partial
<1>10. sendAllPartialSimple.raises = raises /\ sendAllPartialSimple.tx = draft.tx
  BY <1>1, <1>9
<1>11. Returned(Len(assets) + Len(purse), counted) > 0
  <2>1. ~ (Returned(Len(assets) + Len(purse), counted) <= 0)
    BY <1>10, Zenon DEF raises
  <2>2. Len(assets) + Len(purse) \in Nat
    BY <1>2
  <2> QED
    BY <1>8, <2>1, <2>2, ReturnedIs
<1>12. Payable(Partial(assets, purse, swept \o <<m>>, counted, <<>>).tx)
  BY <1>2, <1>5, <1>6, <1>7, <1>8, <1>11, PartialSound
<1> QED
  BY <1>10, <1>12, Zenon DEF draft

LEMMA bridgePays ==
    ASSUME CoinsAre, BalanceIs, Called, OfferIs, Bridges, ~ satoriOnlyBridgePartialSimple.raises
    PROVE  Payable(satoriOnlyBridgePartialSimple.tx)
<1> DEFINE total == task.amount + MundoFee + BridgeFee
           s     == GatherSatori(total)
           value == Total(s) - total
           over  == Change("satori", value)
           o     == Satori("burn", task.amount)
           m     == Satori("mundo", MundoFee)
           b     == Satori("bridge", BridgeFee)
           e     == Output("memo", "nobody", 0)
           draft == Partial(s, <<>>, <<o>> \o over \o <<m, b>>, 5 + Len(over), <<e>>)
<1>1. satoriOnlyBridgePartialSimple = [draft EXCEPT !.raises = @ \/ balance.satori < total]
  BY Zenon DEF satoriOnlyBridgePartialSimple
<1>2. /\ task.amount \in Nat /\ SatoriFee = MundoFee /\ MundoFee \in Nat /\ BridgeFee \in Nat
      /\ total \in Nat /\ task.kind \in Neuron
  BY CallIs DEF SatoriFee, Bridges, Neuron
<1>3. /\ o \in Payments /\ o.asset = "satori" /\ o.to = "burn" /\ o.value = task.amount
      /\ m \in Payments /\ m.asset = "satori" /\ m.to = "mundo" /\ m.value = SatoriFee
      /\ b \in Payments /\ b.asset = "satori" /\ b.to = "bridge" /\ b.value = BridgeFee
      /\ e \in Payments /\ e.asset = "memo" /\ e.to = "nobody" /\ e.value = 0
  BY <1>2, OutputIs DEF Satori, Kinds, Recipients
<1>4. s \in Seq(Nat) /\ value \in Int
  <2> HIDE DEF total
  <2>1. s \in Seq(Nat)
    BY GatherSatoriIs
  <2> QED
    BY <1>2, <2>1, CoinsTotal
<1> HIDE DEF s, value, o, m, b, e, total, draft
<1>5. o \in Parts /\ m \in Parts /\ b \in Parts /\ e \in Parts
  BY <1>3 DEF Parts
<1>6. Leading(<<o>> \o over, <<>>)
  BY <1>3, <1>4, <1>5, LeadingPayment
<1>7. Rear(<<m, b>>)
  <2>1. PICK r \in Seq(Parts) : r = <<m, b>> /\ Len(r) = 2 /\ r[1] = m /\ r[2] = b
    <3>1. /\ <<m, b>> \in Seq(Parts) /\ Len(<<m, b>>) = 2
          /\ <<m, b>>[1] = m /\ <<m, b>>[2] = b
      BY <1>5
    <3> QED
      BY <3>1
  <2>2. r \in Seq(Payments)
    <3>1. Parts \subseteq Payments
      BY DEF Parts
    <3> QED
      BY <3>1, SeqMonotonic
  <2>3. Values(r, "currency") = 0
    <3>1. \A i \in 1..Len(r) : r[i].asset # "currency"
      BY <1>3, <2>1
    <3> QED
      BY <2>2, <3>1, ValuesOther
  <2> QED
    BY <1>3, <2>1, <2>3 DEF Rear
<1>8. Final(<<e>>)
  BY <1>3, <1>5, PartIs DEF Final
<1>9. PICK counted \in Nat : counted = 5 + Len(over)
  BY <1>4, ChangeParts DEF Kinds
<1>10. PICK front : front = <<o>> \o over
  OBVIOUS
<1>11. draft = Partial(s, <<>>, front \o <<m, b>>, counted, <<e>>)
  BY <1>9, <1>10, Zenon DEF draft
<1>12. <<>> \in Seq(Nat)
  OBVIOUS
<1>13. PICK raises, fee, tr : draft = [raises |-> raises, fee |-> fee, tx |-> tr]
  BY Zenon DEF draft, Partial
<1>14. /\ satoriOnlyBridgePartialSimple.raises = (draft.raises \/ balance.satori < total)
       /\ satoriOnlyBridgePartialSimple.tx = draft.tx
  BY <1>1, <1>13
<1>15. Returned(Len(s) + Len(<<>>), counted) > 0
  <2>1. ~ Partial(s, <<>>, front \o <<m, b>>, counted, <<e>>).raises
    BY <1>11, <1>14, Zenon
  <2>2. ~ (Returned(Len(s) + Len(<<>>), counted) <= 0)
    BY <2>1, PartialRaises, Zenon
  <2>3. Len(s) + Len(<<>>) \in Nat
    BY <1>4
  <2> QED
    BY <1>9, <2>2, <2>3, ReturnedIs
<1>16. Payable(Partial(s, <<>>, front \o <<m, b>>, counted, <<e>>).tx)
  <2>1. Leading(front, <<>>)
    BY <1>6, <1>10
  <2> QED
    BY <1>2, <1>4, <1>7, <1>8, <1>9, <1>12, <1>15, <2>1, PartialSound
<1> QED
  BY <1>11, <1>14, <1>16, Zenon

(* Whatever partial transaction is drafted is one that Mundo is paid for.  *)
LEMMA PartialDraftedPays ==
    ASSUME CoinsAre, BalanceIs, Called, OfferIs, task.kind \in Neuron, ~ PartialDrafted.raises
    PROVE  Payable(PartialDrafted.tx)
<1>1. CASE Bridges
  BY <1>1, bridgePays, Zenon DEF PartialDrafted
<1>2. CASE ~ Bridges /\ task.sweep
  <2>1. Sweeps
    BY <1>2 DEF Sweeps, Bridges, Neuron
  <2> QED
    BY <1>2, <2>1, sendAllPays, Zenon DEF PartialDrafted
<1>3. CASE ~ Bridges /\ ~ task.sweep
  BY <1>3, satoriOnlyPays, Zenon DEF PartialDrafted
<1> QED
  BY <1>1, <1>2, <1>3, Zenon

-----------------------------------------------------------------------------
(* The inductive invariant                                                 *)

(* The transaction pays what the call asked for, as far as it is built.    *)
Built == IsTx(tx) /\ AllAsked(tx) /\ PaysEnough(tx)

(* What is decided by the stage a call is in: a call is built from what    *)
(* was asked and not from an offer, and the offer comes before a partial   *)
(* transaction is drafted.                                                 *)
Staged ==
    /\ stage \in {"called", "building"} => offer = NoOffer
    /\ stage \in {"called", "requesting"} => tx = NoTx
    /\ stage = "building" => task.kind \notin Misdirected
    /\ stage \in {"requesting", "drafting", "completing"} => task.kind \in Neuron
    /\ stage = "drafting" => OfferIs
    /\ stage = "reporting" => Bridges
    /\ stage = "signing" => Multisigs

(* A partial transaction that is to be completed can be.                   *)
Promised ==
    stage = "completing" \/ (stage = "reporting" /\ offer # NoOffer) => OfferIs /\ Payable(tx)

(* A call that broadcasts was asked to; the bridge's was also reported.    *)
Entitled ==
    /\ sending => task.broadcast \/ task.kind = "currencyTransaction"
    /\ stage = "sending" => task.broadcast \/ task.kind = "currencyTransaction"
    /\ stage \in {"sending", "completing"} /\ Bridges => reported

(* What is about to be sent has a fee that fits.                           *)
Fitted(t) == \E shorter \in 0..(t.ins + t.claims) : Fits(Paid(t), RequiredFee(t, shorter))
Fitting == stage = "sending" /\ Settling /\ offer = NoOffer => Fitted(tx)

(* Nothing is relayed before the call ends, and then only what was built.  *)
Relaying ==
    /\ stage # "ended" => relayed = {}
    /\ relayed \subseteq {tx}
    /\ relayed # {} =>
         /\ tx.outs # <<>>
         /\ task.broadcast \/ task.kind = "currencyTransaction"
         /\ Bridges => reported
         /\ Settling /\ offer = NoOffer => Fitted(tx)

Secure == /\ TypeOK /\ CoinsAre /\ BalanceIs
          /\ Built /\ Staged /\ Promised /\ Entitled /\ Fitting /\ Relaying

-----------------------------------------------------------------------------
(* What only the call and the offer decide stays as it is                  *)

LEMMA TermsStay ==
    ASSUME UNCHANGED <<task, offer>>
    PROVE  /\ SatoriFee' = SatoriFee /\ Locked' = Locked
           /\ (Sweeps' <=> Sweeps) /\ (Multisigs' <=> Multisigs) /\ (Bridges' <=> Bridges)
           /\ (Settling' <=> Settling) /\ (OfferIs' <=> OfferIs) /\ (Called /\ override' \in Nat => Called')
<1>1. task' = task /\ offer' = offer
  OBVIOUS
<1>2. SatoriFee' = SatoriFee /\ Locked' = Locked
  BY <1>1 DEF SatoriFee, Locked, Bridges
<1>3. (Sweeps' <=> Sweeps) /\ (Multisigs' <=> Multisigs) /\ (Bridges' <=> Bridges)
  BY <1>1 DEF Sweeps, Multisigs, Bridges
<1>4. Settling' <=> Settling
  BY <1>1, <1>3 DEF Settling
<1>5. OfferIs' <=> OfferIs
  BY <1>1 DEF OfferIs, NoOffer
<1>6. Called /\ override' \in Nat => Called'
  BY <1>1 DEF Called, IsCall
<1> QED
  BY <1>2, <1>3, <1>4, <1>5, <1>6

LEMMA AskedStays ==
    ASSUME UNCHANGED <<task, offer>>, NEW t, AllAsked(t)
    PROVE  AllAsked(t)'
<1>1. task' = task /\ offer' = offer
  OBVIOUS
<1>2. /\ SatoriFee' = SatoriFee /\ Locked' = Locked /\ MultisigFee' = MultisigFee
      /\ NoOffer' = NoOffer /\ Paid(t)' = Paid(t)
  BY <1>1, TermsStay DEF MultisigFee, NoOffer, Paid
<1>3. (Sweeps' <=> Sweeps) /\ (Multisigs' <=> Multisigs)
  BY TermsStay
<1>4. ASSUME NEW i \in DOMAIN t.outs PROVE Asked(t, i)'
  <2>1. Asked(t, i)
    BY DEF AllAsked
  <2> QED
    BY <1>1, <1>2, <1>3, <2>1, Zenon DEF Asked
<1> QED
  BY <1>4, Zenon DEF AllAsked

LEMMA EnoughStays ==
    ASSUME UNCHANGED task, NEW t, PaysEnough(t)
    PROVE  PaysEnough(t)'
BY DEF PaysEnough, Payees, FewestPayees, Sweeps

LEMMA PayableStays ==
    ASSUME UNCHANGED <<task, offer>>, NEW t, Payable(t)
    PROVE  Payable(t)'
<1>1. task' = task /\ offer' = offer
  OBVIOUS
<1>2. SatoriFee' = SatoriFee /\ (Sweeps' <=> Sweeps) /\ (Bridges' <=> Bridges)
  BY TermsStay
<1>3. Parts' = Parts
  BY <1>1, <1>2 DEF Parts, Payments, Recipients
<1>4. PaysEnough(t)'
  BY <1>1, EnoughStays DEF Payable
<1> QED
  BY <1>2, <1>3, <1>4, Zenon DEF Payable, IsTx, Payments, Recipients, Shaped, MadeOf, Tx

LEMMA FittedStays ==
    ASSUME NEW t, Fitted(t)
    PROVE  Fitted(t)'
BY DEF Fitted, Fits, Paid, RequiredFee, Size, OutputSize

(* A transaction that is left alone, and so its call and offer, goes on    *)
(* paying what was asked.                                                  *)
LEMMA BuiltStays ==
    ASSUME UNCHANGED <<task, offer>>, NEW t, IsTx(t), AllAsked(t), PaysEnough(t), t = tx'
    PROVE  Built'
<1>1. IsTx(t)' /\ AllAsked(t)' /\ PaysEnough(t)'
  BY AskedStays, EnoughStays DEF IsTx, Payments, Recipients
<1> QED
  BY <1>1, Zenon DEF Built

LEMMA PromiseStays ==
    ASSUME UNCHANGED <<task, offer>>, NEW t, Payable(t), t = tx'
    PROVE  Payable(tx)'
<1>1. Payable(t)'
  BY PayableStays
<1> QED
  BY <1>1, Zenon

(* A partial transaction pays what the call asked for, and goes on paying  *)
(* it when Mundo has added its coin.                                       *)
LEMMA PayableAsked ==
    ASSUME Called, OfferIs, task.kind \in Neuron, NEW t, Payable(t)
    PROVE  AllAsked(t)
<1>1. IsTx(t) /\ t.outs \in Seq(Parts) /\ DOMAIN t.outs = 1..Len(t.outs)
  BY DEF Payable
<1>2. offer # NoOffer
  BY DEF OfferIs
<1>3. ASSUME NEW i \in 1..Len(t.outs) PROVE Asked(t, i)
  <2>1. t.outs[i] \in Parts
    BY <1>1
  <2> QED
    BY <1>2, <2>1 DEF Parts, Asked
<1> QED
  BY <1>1, <1>3 DEF AllAsked

LEMMA CompletedPays ==
    ASSUME Called, OfferIs, task.kind \in Neuron, Payable(tx)
    PROVE  /\ IsTx(Completed) /\ AllAsked(Completed) /\ PaysEnough(Completed)
           /\ Completed.outs # <<>>
           /\ Paid(Completed) = ReportedFee
<1>1. /\ IsTx(tx) /\ tx.claims = 0 /\ PaysEnough(tx) /\ AllAsked(tx) /\ Shaped(tx)
      /\ tx.outs \in Seq(Payments) /\ Len(tx.outs) >= 2
  <2>1. AllAsked(tx)
    BY PayableAsked, Zenon
  <2>2. /\ IsTx(tx) /\ tx.claims = 0 /\ PaysEnough(tx) /\ Shaped(tx)
        /\ Len(tx.outs) >= (IF Bridges THEN 4 ELSE 2)
    BY Zenon DEF Payable
  <2>3. tx.outs \in Seq(Payments)
    BY <2>2 DEF IsTx
  <2>4. Len(tx.outs) >= 2
    BY <2>2, <2>3
  <2> QED
    BY <2>1, <2>2, <2>3, <2>4
<1>2. PICK a, b, c, d, e : MadeOf(tx, a, b, c, d, e)
  BY <1>1, Zenon DEF Shaped
<1>3. tx.satoriIn = a /\ tx.currencyIn = b /\ tx.ins = c /\ tx.claims = d /\ tx.outs = e
  BY <1>2, PartsOfTx
<1>4. PICK t : t = Completed
  OBVIOUS
<1>5. MadeOf(t, a, b + offer.reserved, c + 1, d, e)
  BY <1>2, <1>4 DEF MadeOf, Tx, Completed
<1>6. /\ t.satoriIn = tx.satoriIn /\ t.currencyIn = tx.currencyIn + offer.reserved
      /\ t.ins = tx.ins + 1 /\ t.claims = tx.claims /\ t.outs = tx.outs
  BY <1>3, <1>5, PartsOfTx
<1>7. IsTx(t)
  BY <1>1, <1>6 DEF IsTx, OfferIs
<1>8. AllAsked(t)
  <2>1. ASSUME NEW i \in DOMAIN tx.outs PROVE Asked(t, i)
    <3>1. Asked(tx, i) /\ tx.claims = 0 /\ ~ (tx.claims > 0)
      BY <1>1 DEF AllAsked
    <3> QED
      BY <1>6, <3>1, Zenon DEF Asked
  <2> QED
    BY <1>6, <2>1 DEF AllAsked
<1>9. PaysEnough(t)
  BY <1>1, <1>6, Zenon DEF PaysEnough, Payees, FewestPayees
<1>10. t.outs # <<>>
  BY <1>1, <1>6
<1>11. Paid(t) = ReportedFee
  <2>1. PICK back \in Nat : /\ Values(tx.outs, "currency") = tx.currencyIn + back
                            /\ ReportedFee = offer.reserved - back
    BY DEF Payable, ReportedFee, FromEnd
  <2> QED
    BY <1>1, <1>6, <2>1 DEF Paid, IsTx, OfferIs
<1> QED
  BY <1>4, <1>7, <1>8, <1>9, <1>10, <1>11, Zenon

(* Mundo completes a partial transaction that it is paid for, if the fee   *)
(* is within its limit.                                                    *)
LEMMA PayableVerified ==
    ASSUME Called, OfferIs, task.kind \in Neuron, Payable(tx), offer.satoriFee \in {0, MundoFee},
           ReportedFee < Coin
    PROVE  Verified
<1>1. SatoriFee = MundoFee
  BY DEF SatoriFee
<1>2. PICK back : /\ back = FromEnd(IF Bridges THEN 1 ELSE 0)
                  /\ back.asset = "currency" /\ back.to = "mundo"
                  /\ back.value > 0 /\ back.value \in Nat
  BY DEF Payable, FromEnd
<1>3. FromEnd(IF Bridges THEN 3 ELSE 1).to = "mundo"
  BY Zenon DEF Payable, FromEnd
<1>4. /\ \E i \in DOMAIN tx.outs : tx.outs[i].asset = "satori" /\ tx.outs[i].value = MundoFee
      /\ Bridges => \E i \in DOMAIN tx.outs : tx.outs[i].asset = "satori" /\ tx.outs[i].value = BridgeFee
  BY <1>1, Zenon DEF Payable
<1>5. ReportedFee < offer.reserved
  <2>1. ReportedFee = offer.reserved - back.value
    BY <1>2, Zenon DEF ReportedFee
  <2>2. offer.reserved \in Nat
    BY DEF OfferIs
  <2> QED
    BY <1>2, <2>1, <2>2
<1> QED
  BY <1>2, <1>3, <1>4, <1>5, Zenon DEF Verified

-----------------------------------------------------------------------------
(* The invariant holds at first                                            *)

LEMMA TypeParts ==
    ASSUME TypeOK
    PROVE  /\ task \in Requests /\ IsCall(task) /\ override \in Nat /\ Called
           /\ stage \in Stages /\ MaxRefreshes \in Nat
BY SpendingAssumption DEF TypeOK, Called

LEMMA NoTxPays == IsTx(NoTx) /\ AllAsked(NoTx) /\ PaysEnough(NoTx)
<1>1. PICK t : t = NoTx
  OBVIOUS
<1>2. MadeOf(t, 0, 0, 0, 0, <<>>)
  BY <1>1, Zenon DEF NoTx, MadeOf
<1>3. t.satoriIn = 0 /\ t.currencyIn = 0 /\ t.ins = 0 /\ t.claims = 0 /\ t.outs = <<>>
  BY <1>2, PartsOfTx
<1>4. IsTx(t)
  BY <1>3 DEF IsTx
<1>5. DOMAIN t.outs = {}
  BY <1>3
<1> QED
  BY <1>1, <1>3, <1>4, <1>5, Zenon DEF AllAsked, PaysEnough

LEMMA OffersAre ==
    ASSUME NEW o \in Offers
    PROVE  o.reserved \in Nat /\ o.feeSats \in Nat /\ o.satoriFee \in Nat
BY SpendingAssumption

LEMMA PursesAre ==
    ASSUME NEW p \in Purses \cup LaterPurses \cup Holdings
    PROVE  p \in Seq(Nat) /\ Total(p) \in Nat
BY SpendingAssumption, CoinsTotal

LEMMA InitSecure == Init => Secure
<1> SUFFICES ASSUME Init PROVE Secure
  OBVIOUS
<1>1. /\ task \in Requests /\ purse \in Seq(Nat) /\ assets \in Seq(Nat)
      /\ Total(purse) \in Nat /\ Total(assets) \in Nat /\ IsCall(task) /\ MaxRefreshes \in Nat
      /\ balance = [satori |-> Total(assets), currency |-> Total(purse)]
  BY SpendingAssumption, PursesAre DEF Init
<1>2. CoinsAre /\ BalanceIs
  BY <1>1 DEF CoinsAre, BalanceIs
<1>3. Built
  BY NoTxPays, Zenon DEF Init, Built
<1>4. TypeOK
  <2>1. tx.ins \in Nat /\ tx.currencyIn \in Nat /\ tx.satoriIn \in Nat
    BY <1>3 DEF Built, IsTx
  <2>2. sending \in BOOLEAN
    BY <1>1 DEF Init, IsCall
  <2>3. refreshes \in 0..MaxRefreshes /\ override \in Nat /\ retries \in Nat
    BY <1>1 DEF Init
  <2>6. refreshing \in BOOLEAN /\ reserved \in BOOLEAN /\ reported \in BOOLEAN
    BY Zenon DEF Init
  <2>4. stage \in Stages /\ outcome \in Outcomes /\ offer \in Offers \cup {NoOffer}
    BY DEF Init, Stages, Outcomes
  <2>5. (\A i \in DOMAIN purse : purse[i] \in Nat) /\ (\A i \in DOMAIN assets : assets[i] \in Nat)
    BY <1>1
  <2> QED
    BY <1>1, <2>1, <2>2, <2>3, <2>4, <2>5, <2>6, Zenon DEF TypeOK
<1>5. Staged
  BY DEF Init, Staged
<1>6. Promised
  BY DEF Init, Promised
<1>7. Entitled
  BY Zenon DEF Init, Entitled
<1>8. Fitting
  BY DEF Init, Fitting
<1>9. Relaying
  BY DEF Init, Relaying
<1> QED
  BY <1>2, <1>3, <1>4, <1>5, <1>6, <1>7, <1>8, <1>9, Zenon DEF Secure

-----------------------------------------------------------------------------
(* Each action preserves it                                                *)

(* What holds of a transaction goes on holding while nobody touches it.    *)
LEMMA PaysStill ==
    ASSUME Secure, UNCHANGED <<task, tx, offer>>
    PROVE  /\ Built' /\ (OfferIs' <=> OfferIs) /\ (Bridges' <=> Bridges) /\ (Multisigs' <=> Multisigs)
           /\ (Settling' <=> Settling) /\ NoOffer' = NoOffer /\ NoTx' = NoTx
           /\ Neuron' = Neuron /\ Misdirected' = Misdirected
           /\ (Payable(tx) => Payable(tx)') /\ (Fitted(tx) => Fitted(tx)')
<1>1. PICK t : t = tx
  OBVIOUS
<1>2. IsTx(t) /\ AllAsked(t) /\ PaysEnough(t) /\ t = tx'
  BY <1>1, Zenon DEF Secure, Built
<1>3. Built'
  BY <1>2, BuiltStays
<1>4. ASSUME Payable(tx) PROVE Payable(tx)'
  <2>1. Payable(t)
    BY <1>1, <1>4, Zenon
  <2> QED
    BY <1>2, <2>1, PromiseStays
<1>5. ASSUME Fitted(tx) PROVE Fitted(tx)'
  <2>1. Fitted(t)
    BY <1>1, <1>5, Zenon
  <2>2. Fitted(t)'
    BY <2>1, FittedStays
  <2> QED
    BY <1>2, <2>2, Zenon
<1>6. (OfferIs' <=> OfferIs) /\ (Bridges' <=> Bridges) /\ (Multisigs' <=> Multisigs)
       /\ (Settling' <=> Settling)
  BY TermsStay
<1>7. NoOffer' = NoOffer /\ NoTx' = NoTx /\ Neuron' = Neuron /\ Misdirected' = Misdirected
  BY DEF NoOffer, NoTx, Tx, Neuron, Misdirected
<1> QED
  BY <1>3, <1>4, <1>5, <1>6, <1>7

(* A step that only moves the call on, within a set of stages, or ends it. *)
LEMMA MovesOn ==
    ASSUME Secure, stage' \in Stages, outcome' \in Outcomes,
           UNCHANGED <<task, wallet, override, sending, retries, tx, offer, reserved, reported, relayed>>
    PROVE  /\ TypeOK' /\ CoinsAre' /\ BalanceIs' /\ Built'
           /\ stage # "ended" => relayed' = {}
<1>1. UNCHANGED <<task, tx, offer>>
  OBVIOUS
<1>2. Built'
  BY <1>1, PaysStill
<1>3. CoinsAre' /\ BalanceIs'
  BY DEF Secure, CoinsAre, BalanceIs, wallet
<1>4. TypeOK'
  BY DEF Secure, TypeOK, wallet, NoOffer, Stages, Outcomes
<1>5. stage # "ended" => relayed' = {}
  BY DEF Secure, Relaying
<1> QED
  BY <1>2, <1>3, <1>4, <1>5

LEMMA ValidateStep == ASSUME Secure, Validate PROVE Secure'
<1>1. UNCHANGED <<task, wallet, override, sending, retries, tx, offer, reserved, reported, relayed>>
  BY DEF Validate
<1>2. /\ stage = "called" /\ stage' \in {"ended", "building", "requesting"}
      /\ stage' = "building" => task.kind \notin Misdirected
      /\ stage' = "requesting" => task.kind \in Neuron
      /\ stage' = "ended" \/ UNCHANGED outcome
      /\ outcome' \in Outcomes
  BY DEF Validate, End, Neuron, Secure, TypeOK, Outcomes
<1>3. /\ Built' /\ (OfferIs' <=> OfferIs) /\ (Bridges' <=> Bridges) /\ (Multisigs' <=> Multisigs)
      /\ NoOffer' = NoOffer /\ NoTx' = NoTx /\ Neuron' = Neuron /\ Misdirected' = Misdirected
  BY <1>1, PaysStill
<1>4. TypeOK' /\ CoinsAre' /\ BalanceIs' /\ relayed' = {}
  <2>1. stage' \in Stages
    BY <1>2 DEF Stages
  <2> QED
    BY <1>1, <1>2, <2>1, MovesOn
<1>5. Staged'
  BY <1>1, <1>2, <1>3 DEF Secure, Staged
<1>6. Promised' /\ Fitting'
  BY <1>2 DEF Promised, Fitting
<1>7. Entitled'
  BY <1>1, <1>2 DEF Secure, Entitled
<1>8. Relaying'
  BY <1>2, <1>4 DEF Relaying
<1> QED
  BY <1>3, <1>4, <1>5, <1>6, <1>7, <1>8, Zenon DEF Secure

(* A step that ends the call and relays nothing.                           *)
LEMMA EndStep ==
    ASSUME Secure, stage # "ended", stage' = "ended", outcome' \in Outcomes,
           UNCHANGED <<task, wallet, override, sending, retries, tx, offer, reserved, reported, relayed>>
    PROVE  Secure'
<1>1. stage' \in Stages
  BY DEF Stages
<1>2. TypeOK' /\ CoinsAre' /\ BalanceIs' /\ Built' /\ relayed' = {}
  BY <1>1, MovesOn
<1>3. Staged' /\ Promised' /\ Fitting'
  BY DEF Staged, Promised, Fitting
<1>4. Entitled'
  BY DEF Secure, Entitled
<1>5. Relaying'
  BY <1>2 DEF Relaying
<1> QED
  BY <1>2, <1>3, <1>4, <1>5, Zenon DEF Secure

LEMMA BuildRaisesStep == ASSUME Secure, BuildRaises PROVE Secure'
<1>1. stage # "ended" /\ stage' = "ended" /\ outcome' \in Outcomes
  BY DEF BuildRaises, End, Outcomes
<1>2. UNCHANGED <<task, wallet, override, sending, retries, tx, offer, reserved, reported, relayed>>
  BY DEF BuildRaises
<1> QED
  BY <1>1, <1>2, EndStep

(* What is drafted when a call is built.                                   *)
LEMMA BuildingDrafts ==
    ASSUME Secure, stage = "building", ~ Drafted.raises
    PROVE  /\ IsTx(Drafted.tx) /\ AllAsked(Drafted.tx) /\ PaysEnough(Drafted.tx)
           /\ Settling => Drafted.settles /\ Paid(Drafted.tx) = Drafted.fee
<1>1. CoinsAre /\ BalanceIs /\ Called
  BY TypeParts DEF Secure
<1>2. task.kind \notin Misdirected
  BY DEF Secure, Staged
<1> QED
  BY <1>1, <1>2, DraftedPays

LEMMA AcceptStep == ASSUME Secure, Accept PROVE Secure'
<1>1. PICK t : /\ t = Drafted.tx /\ t = tx' /\ ~ Drafted.raises
               /\ \E shorter \in {0, t.ins + t.claims} :
                     Drafted.settles => Fits(Drafted.fee, RequiredFee(t, shorter))
  BY Zenon DEF Accept
<1>2. UNCHANGED <<task, wallet, override, sending, retries, offer, reserved, reported, relayed>>
  BY Zenon DEF Accept
<1>3. /\ stage = "building" /\ stage' \in {"reporting", "signing", "sending", "ended"}
      /\ stage' = "reporting" => Bridges
      /\ stage' = "signing" => Multisigs
      /\ stage' = "sending" => ~ Bridges /\ sending
      /\ outcome' \in Outcomes
  BY DEF Accept, End, Secure, TypeOK, Outcomes
<1>4. IsTx(t) /\ AllAsked(t) /\ PaysEnough(t)
  BY <1>1, <1>3, BuildingDrafts, Zenon
<1>5. Built'
  <2>1. UNCHANGED <<task, offer>>
    BY <1>2
  <2> QED
    BY <1>1, <1>4, <2>1, BuiltStays
<1>6. Settling => Fitted(t)
  <2>1. PICK shorter \in {0, t.ins + t.claims} :
            Drafted.settles => Fits(Drafted.fee, RequiredFee(t, shorter))
    BY <1>1
  <2>2. shorter \in 0..(t.ins + t.claims)
    BY <1>4, RequiredIs
  <2>3. Settling => Drafted.settles /\ Paid(t) = Drafted.fee
    BY <1>1, <1>3, BuildingDrafts, Zenon
  <2> QED
    BY <2>1, <2>2, <2>3, Zenon DEF Fitted
<1>7. /\ (OfferIs' <=> OfferIs) /\ (Bridges' <=> Bridges) /\ (Multisigs' <=> Multisigs)
      /\ (Settling' <=> Settling) /\ NoOffer' = NoOffer
  BY <1>2, TermsStay DEF NoOffer
<1>8. relayed' = {} /\ offer' = NoOffer
  BY <1>2, <1>3 DEF Secure, Relaying, Staged
<1>9. CoinsAre' /\ BalanceIs'
  BY <1>2 DEF Secure, CoinsAre, BalanceIs, wallet
<1>10. TypeOK'
  <2>1. tx'.ins \in Nat /\ tx'.currencyIn \in Nat /\ tx'.satoriIn \in Nat
    BY <1>1, <1>4 DEF IsTx
  <2>2. stage' \in Stages
    BY <1>3 DEF Stages
  <2> QED
    BY <1>2, <1>3, <2>1, <2>2 DEF Secure, TypeOK, wallet, NoOffer, Stages, Outcomes
<1>11. Staged'
  BY <1>3, <1>7 DEF Staged
<1>12. Promised'
  BY <1>3, <1>7, <1>8 DEF Promised
<1>13. Entitled'
  BY <1>2, <1>3, <1>7 DEF Secure, Entitled
<1>14. Fitting'
  <2>1. ASSUME Settling' PROVE Fitted(tx)'
    <3>1. Fitted(t)'
      BY <1>6, <1>7, <2>1, FittedStays
    <3> QED
      BY <1>1, <3>1, Zenon
  <2> QED
    BY <2>1, Zenon DEF Fitting
<1>15. Relaying'
  BY <1>8 DEF Relaying
<1> QED
  BY <1>5, <1>9, <1>10, <1>11, <1>12, <1>13, <1>14, <1>15, Zenon DEF Secure

LEMMA RetryStep == ASSUME Secure, Retry PROVE Secure'
<1>1. PICK t : /\ t = Drafted.tx /\ ~ Drafted.raises
               /\ \E shorter \in {0, t.ins + t.claims} : override' = RequiredFee(t, shorter)
  BY Zenon DEF Retry
<1>2. /\ stage = "building" /\ retries' = retries + 1
      /\ UNCHANGED <<task, wallet, stage, tx, offer, reserved, reported, relayed, outcome>>
  BY Zenon DEF Retry
<1>3. sending' \in BOOLEAN /\ (sending' => sending \/ task.kind = "currencyTransaction")
  BY Zenon DEF Retry
<1>4. override' \in Nat
  <2>1. IsTx(t)
    BY <1>1, <1>2, BuildingDrafts, Zenon
  <2> QED
    BY <1>1, <2>1, RequiredIs
<1>5. UNCHANGED <<task, tx, offer>>
  BY <1>2
<1>6. Built' /\ NoOffer' = NoOffer /\ Misdirected' = Misdirected
  BY <1>5, PaysStill
<1>7. CoinsAre' /\ BalanceIs'
  BY <1>2 DEF Secure, CoinsAre, BalanceIs, wallet
<1>8. TypeOK'
  <2>1. retries' \in Nat
    BY <1>2 DEF Secure, TypeOK
  <2> QED
    BY <1>2, <1>3, <1>4, <2>1 DEF Secure, TypeOK, wallet, NoOffer, Stages, Outcomes
<1>9. Staged'
  BY <1>2, <1>6 DEF Secure, Staged
<1>10. Promised' /\ Fitting'
  BY <1>2 DEF Promised, Fitting
<1>11. Entitled'
  <2>1. sending' => task'.broadcast \/ task'.kind = "currencyTransaction"
    BY <1>2, <1>3, Zenon DEF Secure, Entitled
  <2> QED
    BY <1>2, <2>1 DEF Entitled
<1>12. Relaying'
  BY <1>2 DEF Secure, Relaying
<1> QED
  BY <1>6, <1>7, <1>8, <1>9, <1>10, <1>11, <1>12, Zenon DEF Secure

LEMMA MultisigEndStep == ASSUME Secure, MultisigEnd PROVE Secure'
<1>1. UNCHANGED <<task, wallet, override, sending, retries, tx, offer, reserved, reported, relayed>>
  BY DEF MultisigEnd
<1>2. /\ stage = "signing" /\ stage' \in {"ended", "sending"}
      /\ stage' = "sending" => sending
      /\ outcome' \in Outcomes
  BY DEF MultisigEnd, End, Secure, TypeOK, Outcomes
<1>3. /\ Built' /\ (Bridges' <=> Bridges) /\ (Multisigs' <=> Multisigs) /\ (Settling' <=> Settling)
      /\ Multisigs /\ ~ Settling /\ ~ Bridges
  <2>1. Built' /\ (Bridges' <=> Bridges) /\ (Multisigs' <=> Multisigs) /\ (Settling' <=> Settling)
    BY <1>1, PaysStill
  <2>2. Multisigs
    BY <1>2 DEF Secure, Staged
  <2> QED
    BY <2>1, <2>2 DEF Multisigs, Settling, Bridges
<1>4. TypeOK' /\ CoinsAre' /\ BalanceIs' /\ relayed' = {}
  <2>1. stage' \in Stages
    BY <1>2 DEF Stages
  <2> QED
    BY <1>1, <1>2, <2>1, MovesOn
<1>5. Staged' /\ Promised'
  BY <1>2 DEF Staged, Promised
<1>6. Fitting'
  BY <1>3, Zenon DEF Fitting
<1>7. Entitled'
  <2>1. sending' => task'.broadcast \/ task'.kind = "currencyTransaction"
    BY <1>1, Zenon DEF Secure, Entitled
  <2>2. stage' = "sending" => sending'
    BY <1>1, <1>2
  <2> QED
    BY <1>3, <2>1, <2>2, Zenon DEF Entitled
<1>8. Relaying'
  BY <1>2, <1>4 DEF Relaying
<1> QED
  BY <1>3, <1>4, <1>5, <1>6, <1>7, <1>8, Zenon DEF Secure

(* A step that ends the call and relays what was to be sent.               *)
LEMMA BroadcastStep == ASSUME Secure, Broadcast PROVE Secure'
<1>1. UNCHANGED <<task, wallet, override, sending, retries, tx, offer, reserved, reported>>
  BY DEF Broadcast
<1>2. /\ stage = "sending" /\ stage' = "ended" /\ outcome' \in Outcomes
      /\ relayed = {}
  BY DEF Broadcast, End, Outcomes, Secure, Relaying
<1>3. relayed' = {} \/ (relayed' = {tx} /\ tx.outs # <<>>)
  BY <1>2, Zenon DEF Broadcast, Sound
<1>4. UNCHANGED <<task, tx, offer>>
  BY <1>1
<1>5. /\ Built' /\ (Bridges' <=> Bridges) /\ (Settling' <=> Settling) /\ NoOffer' = NoOffer
      /\ (Fitted(tx) => Fitted(tx)')
  BY <1>4, PaysStill
<1>6. CoinsAre' /\ BalanceIs'
  BY <1>1 DEF Secure, CoinsAre, BalanceIs, wallet
<1>7. TypeOK'
  <2>1. stage' \in Stages
    BY <1>2 DEF Stages
  <2> QED
    BY <1>1, <1>2, <2>1 DEF Secure, TypeOK, wallet, NoOffer, Stages, Outcomes
<1>8. Staged' /\ Promised' /\ Fitting'
  BY <1>2 DEF Staged, Promised, Fitting
<1>9. Entitled'
  BY <1>1, <1>2 DEF Secure, Entitled
<1>10. Relaying'
  <2>1. /\ task'.broadcast \/ task'.kind = "currencyTransaction"
        /\ Bridges => reported'
    BY <1>1, <1>2, Zenon DEF Secure, Entitled
  <2>2. Settling' /\ offer' = NoOffer' => Fitted(tx)'
    BY <1>1, <1>2, <1>5, Zenon DEF Secure, Fitting
  <2>3. relayed' \subseteq {tx'} /\ (relayed' # {} => tx'.outs # <<>>)
    BY <1>1, <1>3
  <2> QED
    BY <1>2, <1>5, <2>1, <2>2, <2>3, Zenon DEF Relaying
<1> QED
  BY <1>5, <1>6, <1>7, <1>8, <1>9, <1>10, Zenon DEF Secure

LEMMA RequestPartialStep == ASSUME Secure, RequestPartial PROVE Secure'
<1>1. /\ stage = "requesting" /\ tx = NoTx /\ task.kind \in Neuron /\ relayed = {}
  BY DEF RequestPartial, Secure, Staged, Relaying
<1>2. UNCHANGED <<task, wallet, override, sending, retries, tx, reported, relayed>>
  BY DEF RequestPartial
<1>3. CASE UNCHANGED <<offer, reserved>> /\ stage' = "ended" /\ outcome' \in Outcomes
  BY <1>1, <1>2, <1>3, EndStep
<1>4. CASE \E o \in Offers :
             /\ offer' = o
             /\ reserved' = (o.reserved > 0)
             /\ IF o.reserved = 0 THEN End(IF Bridges THEN "tryagain" ELSE "failed")
                ELSE stage' = "drafting" /\ UNCHANGED outcome
  <2>1. PICK o \in Offers : /\ offer' = o /\ reserved' = (o.reserved > 0)
                            /\ IF o.reserved = 0 THEN End(IF Bridges THEN "tryagain" ELSE "failed")
                               ELSE stage' = "drafting" /\ UNCHANGED outcome
    BY <1>4
  <2>2. o.reserved \in Nat /\ o.feeSats \in Nat /\ o.satoriFee \in Nat
    BY OffersAre
  <2>3. /\ stage' \in {"ended", "drafting"} /\ outcome' \in Outcomes
        /\ stage' = "drafting" => o.reserved # 0
    BY <2>1 DEF End, Outcomes, Secure, TypeOK
  <2>5. Built'
    <3>1. PICK t : t = tx' /\ t = NoTx
      BY <1>1, <1>2
    <3>2. IsTx(t) /\ t.outs = <<>>
      <4>1. MadeOf(t, 0, 0, 0, 0, <<>>)
        BY <3>1, Zenon DEF NoTx, MadeOf
      <4>2. t.outs = <<>>
        BY <4>1, PartsOfTx
      <4> QED
        BY <3>1, <4>2, NoTxPays, Zenon
    <3>3. IsTx(t)'
      BY <3>2 DEF IsTx, Payments, Recipients
    <3>4. AllAsked(t)' /\ PaysEnough(t)'
      <4>1. DOMAIN t.outs = {}
        BY <3>2
      <4> QED
        BY <3>2, <4>1, Zenon DEF AllAsked, PaysEnough
    <3> QED
      BY <3>1, <3>3, <3>4, Zenon DEF Built
  <2>6. CoinsAre' /\ BalanceIs'
    BY <1>2 DEF Secure, CoinsAre, BalanceIs, wallet
  <2>7. TypeOK'
    <3>1. stage' \in Stages
      BY <2>3 DEF Stages
    <3>2. reserved' \in BOOLEAN
      BY <2>1
    <3> QED
      BY <1>2, <2>1, <2>3, <3>1, <3>2 DEF Secure, TypeOK, wallet, Stages, Outcomes
  <2>8. Staged'
    BY <1>1, <1>2, <2>1, <2>2, <2>3 DEF Staged, OfferIs, NoOffer, Neuron
  <2>9. Promised' /\ Fitting'
    BY <2>3 DEF Promised, Fitting
  <2>10. Entitled'
    BY <1>2, <2>3 DEF Secure, Entitled
  <2>11. Relaying'
    BY <1>1, <1>2 DEF Relaying
  <2> QED
    BY <2>5, <2>6, <2>7, <2>8, <2>9, <2>10, <2>11, Zenon DEF Secure
<1>5. \/ UNCHANGED <<offer, reserved>> /\ stage' = "ended" /\ outcome' \in Outcomes
      \/ \E o \in Offers :
             /\ offer' = o
             /\ reserved' = (o.reserved > 0)
             /\ IF o.reserved = 0 THEN End(IF Bridges THEN "tryagain" ELSE "failed")
                ELSE stage' = "drafting" /\ UNCHANGED outcome
  <2>1. End(IF Bridges THEN "raised" ELSE "failed") => stage' = "ended" /\ outcome' \in Outcomes
    BY DEF End, Outcomes
  <2> QED
    BY <2>1, Zenon DEF RequestPartial
<1> QED
  BY <1>3, <1>4, <1>5

LEMMA DraftPartialStep == ASSUME Secure, DraftPartial PROVE Secure'
<1>1. /\ stage = "drafting" /\ CoinsAre /\ BalanceIs /\ Called /\ OfferIs /\ task.kind \in Neuron
      /\ relayed = {}
  BY TypeParts DEF DraftPartial, Secure, Staged, Relaying
<1>2. UNCHANGED <<task, wallet, override, sending, retries, offer, reserved, reported, relayed>>
  BY Zenon DEF DraftPartial
<1>3. CASE PartialDrafted.raises
  <2>1. stage' = "ended" /\ outcome' \in Outcomes
    BY <1>3 DEF DraftPartial, End, Outcomes
  <2>2. UNCHANGED tx
    BY <1>3, Zenon DEF DraftPartial
  <2> QED
    BY <1>1, <1>2, <2>1, <2>2, EndStep
<1>4. CASE ~ PartialDrafted.raises
  <2>1. PICK t : t = PartialDrafted.tx /\ t = tx'
    BY <1>4, Zenon DEF DraftPartial
  <2>2. /\ stage' = (IF Bridges THEN "reporting" ELSE "completing")
        /\ outcome' = outcome
    BY <1>4, Zenon DEF DraftPartial
  <2>3. Payable(t)
    BY <1>1, <1>4, <2>1, PartialDraftedPays, Zenon
  <2>4. IsTx(t) /\ AllAsked(t) /\ PaysEnough(t)
    <3>1. AllAsked(t)
      BY <1>1, <2>3, PayableAsked
    <3> QED
      BY <2>3, <3>1, Zenon DEF Payable
  <2>5. UNCHANGED <<task, offer>>
    BY <1>2
  <2>6. Built' /\ Payable(tx)'
    BY <2>1, <2>3, <2>4, <2>5, BuiltStays, PromiseStays
  <2>7. OfferIs' /\ (Bridges' <=> Bridges) /\ Neuron' = Neuron
    BY <1>1, <2>5, TermsStay DEF Neuron
  <2>8. CoinsAre' /\ BalanceIs'
    BY <1>2 DEF Secure, CoinsAre, BalanceIs, wallet
  <2>9. TypeOK'
    <3>1. tx'.ins \in Nat /\ tx'.currencyIn \in Nat /\ tx'.satoriIn \in Nat
      BY <2>1, <2>4 DEF IsTx
    <3>2. stage' \in Stages
      BY <2>2 DEF Stages
    <3> QED
      BY <1>2, <2>2, <3>1, <3>2 DEF Secure, TypeOK, wallet, NoOffer, Stages, Outcomes
  <2>10. Staged'
    BY <1>1, <1>2, <2>2, <2>7 DEF Staged
  <2>11. Promised'
    BY <2>6, <2>7, Zenon DEF Promised
  <2>12. Entitled'
    BY <1>2, <2>2, <2>7 DEF Secure, Entitled
  <2>13. Fitting'
    BY <2>2 DEF Fitting
  <2>14. Relaying'
    BY <1>1, <1>2 DEF Relaying
  <2> QED
    BY <2>6, <2>8, <2>9, <2>10, <2>11, <2>12, <2>13, <2>14, Zenon DEF Secure
<1> QED
  BY <1>3, <1>4, Zenon

LEMMA ReportStep == ASSUME Secure, Report PROVE Secure'
<1>1. stage = "reporting" /\ relayed = {} /\ Bridges
  BY DEF Report, Secure, Staged, Relaying
<1>2. UNCHANGED <<task, wallet, override, sending, retries, tx, offer, reserved, relayed>>
  BY DEF Report
<1>3. /\ stage' \in {"ended", "sending", "completing"} /\ outcome' \in Outcomes
      /\ stage' = "sending" => offer = NoOffer
      /\ stage' = "completing" => offer # NoOffer
  BY DEF Report, End, Outcomes, Secure, TypeOK
<1>4. reported' \in BOOLEAN /\ (stage' # "ended" => reported')
  BY DEF Report, End
<1>5. UNCHANGED <<task, tx, offer>>
  BY <1>2
<1>6. /\ Built' /\ (OfferIs' <=> OfferIs) /\ (Bridges' <=> Bridges) /\ (Settling' <=> Settling)
      /\ Neuron' = Neuron /\ (Payable(tx) => Payable(tx)')
  BY <1>5, PaysStill
<1>7. CoinsAre' /\ BalanceIs'
  BY <1>2 DEF Secure, CoinsAre, BalanceIs, wallet
<1>8. TypeOK'
  <2>1. stage' \in Stages
    BY <1>3 DEF Stages
  <2> QED
    BY <1>2, <1>3, <1>4, <2>1 DEF Secure, TypeOK, wallet, NoOffer, Stages, Outcomes
<1>9. task.kind \in Neuron /\ task.broadcast /\ ~ Settling
  <2>1. task.kind \in Neuron
    BY <1>1 DEF Bridges, Neuron
  <2>2. IsCall(task)
    BY TypeParts DEF Secure
  <2> QED
    BY <1>1, <2>1, <2>2 DEF IsCall, Settling
<1>10. Staged'
  BY <1>3, <1>5, <1>6, <1>9 DEF Staged
<1>11. Promised'
  <2>1. ASSUME stage' = "completing" PROVE OfferIs' /\ Payable(tx)'
    <3>1. OfferIs /\ Payable(tx)
      BY <1>1, <1>3, <2>1, Zenon DEF Secure, Promised
    <3> QED
      BY <1>6, <3>1
  <2>2. stage' # "reporting"
    BY <1>3
  <2> QED
    BY <2>1, <2>2, Zenon DEF Promised
<1>12. Entitled'
  <2>1. task'.broadcast
    BY <1>2, <1>9, Zenon
  <2>2. stage' \in {"sending", "completing"} => reported'
    BY <1>4
  <2> QED
    BY <2>1, <2>2, Zenon DEF Entitled
<1>13. Fitting'
  BY <1>6, <1>9, Zenon DEF Fitting
<1>14. Relaying'
  BY <1>1, <1>2 DEF Relaying
<1> QED
  BY <1>6, <1>7, <1>8, <1>10, <1>11, <1>12, <1>13, <1>14, Zenon DEF Secure

LEMMA CompleteStep == ASSUME Secure, Complete PROVE Secure'
<1>1. /\ stage = "completing" /\ relayed = {} /\ OfferIs /\ Payable(tx) /\ Called
      /\ task.kind \in Neuron /\ offer # NoOffer
  <2>1. stage = "completing"
    BY DEF Complete
  <2>2. OfferIs /\ Payable(tx)
    BY <2>1, Zenon DEF Secure, Promised
  <2> QED
    BY <2>1, <2>2, TypeParts DEF Secure, Staged, Relaying, OfferIs
<1>2. UNCHANGED <<task, wallet, override, sending, retries, offer, reserved, reported>>
  BY Zenon DEF Complete
<1>3. stage' = "ended" /\ outcome' \in Outcomes
  BY DEF Complete, End, Outcomes
<1>4. CASE UNCHANGED <<tx, relayed>>
  BY <1>1, <1>2, <1>3, <1>4, EndStep
<1>5. CASE tx' = Completed /\ relayed' \subseteq {Completed}
  <2>1. PICK t : t = Completed /\ t = tx'
    BY <1>5
  <2>2. IsTx(t) /\ AllAsked(t) /\ PaysEnough(t) /\ t.outs # <<>>
    BY <1>1, <2>1, CompletedPays, Zenon
  <2>3. UNCHANGED <<task, offer>>
    BY <1>2
  <2>4. Built'
    BY <2>1, <2>2, <2>3, BuiltStays
  <2>5. CoinsAre' /\ BalanceIs'
    BY <1>2 DEF Secure, CoinsAre, BalanceIs, wallet
  <2>6. TypeOK'
    <3>1. tx'.ins \in Nat /\ tx'.currencyIn \in Nat /\ tx'.satoriIn \in Nat
      BY <2>1, <2>2 DEF IsTx
    <3>2. stage' \in Stages
      BY <1>3 DEF Stages
    <3> QED
      BY <1>2, <1>3, <3>1, <3>2 DEF Secure, TypeOK, wallet, NoOffer, Stages, Outcomes
  <2>7. Staged' /\ Promised' /\ Fitting'
    BY <1>3 DEF Staged, Promised, Fitting
  <2>8. Entitled'
    BY <1>2, <1>3 DEF Secure, Entitled
  <2>9. Relaying'
    <3>1. relayed' \subseteq {tx'} /\ tx'.outs # <<>>
      BY <1>5, <2>1, <2>2
    <3>2. task'.broadcast
      <4>1. IsCall(task)
        BY <1>1 DEF Called
      <4> QED
        BY <1>1, <2>3, <4>1 DEF IsCall
    <3>3. Bridges' => reported'
      BY <1>1, <1>2, <2>3, TermsStay DEF Secure, Entitled
    <3>4. offer' # NoOffer'
      BY <1>1, <2>3 DEF NoOffer
    <3> QED
      BY <1>3, <3>1, <3>2, <3>3, <3>4, Zenon DEF Relaying
  <2> QED
    BY <2>4, <2>5, <2>6, <2>7, <2>8, <2>9, Zenon DEF Secure
<1>6. \/ UNCHANGED <<tx, relayed>>
      \/ tx' = Completed /\ relayed' \subseteq {Completed}
  <2>1. \/ UNCHANGED <<tx, relayed>>
        \/ tx' = Completed /\ (relayed' = relayed \cup {Completed} \/ relayed' = relayed)
    BY Zenon DEF Complete
  <2> QED
    BY <1>1, <2>1
<1> QED
  BY <1>4, <1>5, <1>6

(* The actions of others do not touch the call.                            *)
LEMMA OtherStep ==
    ASSUME Secure, CoinsAre', BalanceIs', TypeOK',
           UNCHANGED <<task, override, sending, retries, stage, tx, offer, reported, relayed, outcome>>
    PROVE  Secure'
<1>1. UNCHANGED <<task, tx, offer>>
  OBVIOUS
<1>2. /\ Built' /\ (OfferIs' <=> OfferIs) /\ (Bridges' <=> Bridges) /\ (Multisigs' <=> Multisigs)
      /\ (Settling' <=> Settling) /\ NoOffer' = NoOffer /\ NoTx' = NoTx
      /\ Neuron' = Neuron /\ Misdirected' = Misdirected
      /\ (Payable(tx) => Payable(tx)') /\ (Fitted(tx) => Fitted(tx)')
  BY <1>1, PaysStill
<1>3. Staged'
  BY <1>2 DEF Secure, Staged
<1>4. Promised'
  <2>1. stage' = stage /\ offer' = offer
    OBVIOUS
  <2> QED
    BY <1>2, <2>1, Zenon DEF Secure, Promised
<1>5. Entitled'
  BY <1>2 DEF Secure, Entitled
<1>6. Fitting'
  <2>1. stage' = stage /\ offer' = offer
    OBVIOUS
  <2> QED
    BY <1>2, <2>1, Zenon DEF Secure, Fitting
<1>7. Relaying'
  <2>1. /\ stage' = stage /\ offer' = offer /\ task' = task /\ reported' = reported
        /\ relayed' = relayed /\ tx' = tx
    OBVIOUS
  <2>2. (stage' # "ended" => relayed' = {}) /\ relayed' \subseteq {tx'}
    BY <2>1 DEF Secure, Relaying
  <2>3. ASSUME relayed' # {}
        PROVE  /\ tx'.outs # <<>>
               /\ task'.broadcast \/ task'.kind = "currencyTransaction"
               /\ Bridges' => reported'
               /\ Settling' /\ offer' = NoOffer' => Fitted(tx)'
    <3>1. relayed # {}
      BY <2>1, <2>3
    <3>2. /\ tx.outs # <<>>
          /\ task.broadcast \/ task.kind = "currencyTransaction"
          /\ Bridges => reported
          /\ Settling /\ offer = NoOffer => Fitted(tx)
      BY <3>1, Zenon DEF Secure, Relaying
    <3>3. tx'.outs # <<>> /\ (task'.broadcast \/ task'.kind = "currencyTransaction")
      BY <2>1, <3>2
    <3>4. Bridges' => reported'
      BY <1>2, <2>1, <3>2
    <3>5. Settling' /\ offer' = NoOffer' => Fitted(tx)'
      BY <1>2, <2>1, <3>2
    <3> QED
      BY <3>3, <3>4, <3>5, Zenon
  <2> QED
    BY <2>2, <2>3, Zenon DEF Relaying
<1> QED
  BY <1>2, <1>3, <1>4, <1>5, <1>6, <1>7, Zenon DEF Secure

LEMMA ForgetStep == ASSUME Secure, ForgetReserved PROVE Secure'
<1>1. /\ UNCHANGED <<task, wallet, override, sending, retries, stage, tx, offer, reported,
                     relayed, outcome>>
      /\ reserved' = FALSE
  BY DEF ForgetReserved
<1>2. CoinsAre' /\ BalanceIs'
  BY <1>1 DEF Secure, CoinsAre, BalanceIs, wallet
<1>3. TypeOK'
  BY <1>1 DEF Secure, TypeOK, wallet, NoOffer, Stages, Outcomes
<1> QED
  BY <1>1, <1>2, <1>3, OtherStep

LEMMA RefreshBalanceStep == ASSUME Secure, RefreshBalance PROVE Secure'
<1>1. /\ UNCHANGED <<task, purse, assets, refreshing, override, sending, retries, stage, tx,
                     offer, reserved, reported, relayed, outcome>>
      /\ refreshes < MaxRefreshes /\ refreshes' = refreshes + 1
  BY DEF RefreshBalance
<1>2. PICK p \in LaterPurses, h \in Holdings : balance' = [satori |-> Total(h), currency |-> Total(p)]
  BY DEF RefreshBalance
<1>3. Total(p) \in Nat /\ Total(h) \in Nat
  BY PursesAre
<1>4. CoinsAre' /\ BalanceIs'
  BY <1>1, <1>2, <1>3 DEF Secure, CoinsAre, BalanceIs
<1>5. refreshes' \in 0..MaxRefreshes
  BY <1>1, TypeParts DEF Secure, TypeOK
<1>6. TypeOK'
  BY <1>1, <1>5 DEF Secure, TypeOK, NoOffer, Stages, Outcomes
<1> QED
  BY <1>1, <1>4, <1>6, OtherStep

LEMMA RefreshCoinsStep == ASSUME Secure, RefreshCoins PROVE Secure'
<1>1. /\ UNCHANGED <<task, balance, override, sending, retries, stage, tx,
                     offer, reserved, reported, relayed, outcome>>
      /\ refreshes < MaxRefreshes /\ refreshes' = refreshes + 1
      /\ assets' = <<>> /\ refreshing' = TRUE /\ purse' \in LaterPurses
  BY DEF RefreshCoins
<1>2. purse' \in Seq(Nat) /\ assets' \in Seq(Nat)
  BY <1>1, PursesAre
<1>3. CoinsAre' /\ BalanceIs'
  BY <1>1, <1>2 DEF Secure, CoinsAre, BalanceIs
<1>4. refreshes' \in 0..MaxRefreshes
  BY <1>1, TypeParts DEF Secure, TypeOK
<1>5. (\A i \in DOMAIN purse' : purse'[i] \in Nat) /\ (\A i \in DOMAIN assets' : assets'[i] \in Nat)
  BY <1>2
<1>6. TypeOK'
  BY <1>1, <1>4, <1>5 DEF Secure, TypeOK, NoOffer, Stages, Outcomes
<1> QED
  BY <1>1, <1>3, <1>6, OtherStep

LEMMA RefreshAssetsStep == ASSUME Secure, RefreshAssets PROVE Secure'
<1>1. /\ UNCHANGED <<task, purse, balance, refreshes, override, sending, retries, stage, tx,
                     offer, reserved, reported, relayed, outcome>>
      /\ assets' \in Holdings /\ refreshing' = FALSE
  BY DEF RefreshAssets
<1>2. assets' \in Seq(Nat)
  BY <1>1, PursesAre
<1>3. CoinsAre' /\ BalanceIs'
  BY <1>1, <1>2 DEF Secure, CoinsAre, BalanceIs
<1>4. \A i \in DOMAIN assets' : assets'[i] \in Nat
  BY <1>2
<1>5. TypeOK'
  BY <1>1, <1>4 DEF Secure, TypeOK, NoOffer, Stages, Outcomes
<1> QED
  BY <1>1, <1>3, <1>5, OtherStep

LEMMA StutterStep == ASSUME Secure, UNCHANGED vars PROVE Secure'
<1>1. /\ UNCHANGED <<task, override, sending, retries, stage, tx, offer, reported, relayed, outcome>>
      /\ UNCHANGED <<purse, assets, balance, refreshes, refreshing, reserved>>
  BY DEF vars
<1>2. CoinsAre' /\ BalanceIs'
  BY <1>1 DEF Secure, CoinsAre, BalanceIs
<1>3. TypeOK'
  BY <1>1 DEF Secure, TypeOK, NoOffer, Stages, Outcomes
<1> QED
  BY <1>1, <1>2, <1>3, OtherStep

LEMMA NextSecure == Secure /\ [Next]_vars => Secure'
<1> SUFFICES ASSUME Secure, [Next]_vars PROVE Secure'
  OBVIOUS
<1>1. CASE Validate
  BY <1>1, ValidateStep
<1>2. CASE BuildRaises
  BY <1>2, BuildRaisesStep
<1>3. CASE Accept
  BY <1>3, AcceptStep
<1>4. CASE Retry
  BY <1>4, RetryStep
<1>5. CASE MultisigEnd
  BY <1>5, MultisigEndStep
<1>6. CASE Broadcast
  BY <1>6, BroadcastStep
<1>7. CASE RequestPartial
  BY <1>7, RequestPartialStep
<1>8. CASE DraftPartial
  BY <1>8, DraftPartialStep
<1>9. CASE Report
  BY <1>9, ReportStep
<1>10. CASE Complete
  BY <1>10, CompleteStep
<1>11. CASE ForgetReserved
  BY <1>11, ForgetStep
<1>12. CASE RefreshBalance
  BY <1>12, RefreshBalanceStep
<1>13. CASE RefreshCoins
  BY <1>13, RefreshCoinsStep
<1>14. CASE RefreshAssets
  BY <1>14, RefreshAssetsStep
<1>15. CASE UNCHANGED vars
  BY <1>15, StutterStep
<1> QED
  BY <1>1, <1>2, <1>3, <1>4, <1>5, <1>6, <1>7, <1>8, <1>9, <1>10, <1>11, <1>12, <1>13, <1>14,
     <1>15, Zenon DEF Next, Step

LEMMA AlwaysSecure == Spec => []Secure
<1>1. Init => Secure
  BY InitSecure
<1>2. Secure /\ [Next]_vars => Secure'
  BY NextSecure
<1> QED
  BY <1>1, <1>2, PTL DEF Spec

-----------------------------------------------------------------------------
(* How the fee grows with the coins                                        *)

(* What a transaction needs: b bytes and n signatures for everything but   *)
(* its k currency coins and the c bytes of its currency change.            *)
Billed(b, n, k, c, fee) ==
    \E shorter \in {0, n + k} : fee = 11 * (b + 148 * k + c - shorter)
ChangeSizes == {0, 34}
ChangeSize(value) == IF value > 0 THEN 34 ELSE 0
Base(b, n) == b \in Nat /\ n \in Nat /\ b >= 10 + 148 * n

(* A bill is between that with all signatures shorter and that with none.  *)
LEMMA BilledIs ==
    ASSUME NEW b, NEW n, Base(b, n), NEW k \in Nat, NEW c \in ChangeSizes, NEW fee,
           Billed(b, n, k, c, fee)
    PROVE  /\ fee \in Nat /\ fee > 0
           /\ 11 * (b + 148 * k + c - n - k) <= fee
           /\ fee <= 11 * (b + 148 * k + c)
<1>1. PICK shorter \in {0, n + k} : fee = 11 * (b + 148 * k + c - shorter)
  BY DEF Billed
<1>2. b \in Nat /\ n \in Nat /\ b >= 10 + 148 * n
  BY DEF Base
<1>3. c \in Nat
  BY DEF ChangeSizes
<1>4. shorter \in 0..(n + k)
  BY <1>1, <1>2
<1> QED
  BY <1>1, <1>2, <1>3, <1>4

(* The bills of two transactions with the same coins fit each other,       *)
LEMMA SameBills ==
    ASSUME NEW b, NEW n, Base(b, n), NEW k \in Nat, NEW c \in ChangeSizes,
           NEW o, Billed(b, n, k, c, o), NEW r, Billed(b, n, k, c, r)
    PROVE  Fits(o, r)
<1>1. /\ o \in Nat /\ r \in Nat
      /\ 11 * (b + 148 * k + c - n - k) <= o
      /\ 11 * (b + 148 * k + c - n - k) <= r
      /\ o <= 11 * (b + 148 * k + c)
      /\ r <= 11 * (b + 148 * k + c)
  BY BilledIs
<1>2. b \in Nat /\ n \in Nat /\ b >= 10 + 148 * n
  BY DEF Base
<1>3. c \in Nat
  BY DEF ChangeSizes
<1> QED
  BY <1>1, <1>2, <1>3 DEF Fits

(* and also if only the second goes without change.                        *)
LEMMA ChangeDropped ==
    ASSUME NEW b, NEW n, Base(b, n), NEW k \in Nat, n + k >= 1,
           NEW o, Billed(b, n, k, 34, o), NEW r, Billed(b, n, k, 0, r)
    PROVE  Fits(o, r)
<1>1. /\ o \in Nat /\ r \in Nat
      /\ 11 * (b + 148 * k + 34 - n - k) <= o /\ o <= 11 * (b + 148 * k + 34)
      /\ 11 * (b + 148 * k - n - k) <= r /\ r <= 11 * (b + 148 * k)
  <2>1. 0 \in ChangeSizes /\ 34 \in ChangeSizes
    BY DEF ChangeSizes
  <2>2. /\ o \in Nat /\ 11 * (b + 148 * k + 34 - n - k) <= o /\ o <= 11 * (b + 148 * k + 34)
    BY <2>1, BilledIs
  <2>3. /\ r \in Nat /\ 11 * (b + 148 * k + 0 - n - k) <= r /\ r <= 11 * (b + 148 * k + 0)
    BY <2>1, BilledIs
  <2>4. b \in Nat /\ n \in Nat
    BY DEF Base
  <2> QED
    BY <2>2, <2>3, <2>4
<1>2. b \in Nat /\ n \in Nat /\ b >= 10 + 148 * n
  BY DEF Base
<1> QED
  BY <1>1, <1>2 DEF Fits

(* More coins need much more, fewer need less.                             *)
LEMMA MoreCoins ==
    ASSUME NEW b, NEW n, Base(b, n), NEW k \in Nat, NEW m \in Nat, m > k,
           NEW c \in ChangeSizes, NEW d \in ChangeSizes,
           NEW o, Billed(b, n, k, c, o), NEW r, Billed(b, n, m, d, r)
    PROVE  4 * o < 5 * r
<1>1. o \in Nat /\ r \in Nat /\ o <= 11 * (b + 148 * k + 34) /\ 11 * (b + 148 * m - n - m) <= r
  <2>1. c \in 0..34 /\ d \in 0..34
    BY DEF ChangeSizes
  <2>2. /\ o \in Nat /\ r \in Nat /\ o <= 11 * (b + 148 * k + c)
        /\ 11 * (b + 148 * m + d - n - m) <= r
    BY BilledIs
  <2>3. b \in Nat /\ n \in Nat
    BY DEF Base
  <2> QED
    BY <2>1, <2>2, <2>3
<1>2. b \in Nat /\ n \in Nat /\ b >= 10 + 148 * n
  BY DEF Base
<1> QED
  BY <1>1, <1>2

LEMMA FewerCoins ==
    ASSUME NEW b, NEW n, Base(b, n), NEW k \in Nat, NEW m \in Nat, m < k,
           NEW c \in ChangeSizes, NEW d \in ChangeSizes,
           NEW o, Billed(b, n, k, c, o), NEW r, Billed(b, n, m, d, r)
    PROVE  99 * r < 100 * o
<1>1. o \in Nat /\ r \in Nat /\ r <= 11 * (b + 148 * m + 34) /\ 11 * (b + 148 * k - n - k) <= o
  <2>1. c \in 0..34 /\ d \in 0..34
    BY DEF ChangeSizes
  <2>2. /\ o \in Nat /\ r \in Nat /\ r <= 11 * (b + 148 * m + d)
        /\ 11 * (b + 148 * k + c - n - k) <= o
    BY BilledIs
  <2>3. b \in Nat /\ n \in Nat
    BY DEF Base
  <2> QED
    BY <2>1, <2>2, <2>3
<1>2. b \in Nat /\ n \in Nat /\ b >= 10 + 148 * n
  BY DEF Base
<1> QED
  BY <1>1, <1>2

(* Change that appears costs little next to a fee that was a quarter lower.*)
LEMMA ChangeAppears ==
    ASSUME NEW b, NEW n, Base(b, n), NEW k \in Nat, n + k >= 1, NEW p \in Nat,
           NEW o, Billed(b, n, k, 0, o), 5 * o <= 4 * p, NEW r, Billed(b, n, k, 34, r)
    PROVE  r < p /\ 4 * o < 5 * r
<1>1. /\ o \in Nat /\ r \in Nat
      /\ 11 * (b + 148 * k + 34 - n - k) <= r /\ r <= 11 * (b + 148 * k + 34)
      /\ 11 * (b + 148 * k - n - k) <= o /\ o <= 11 * (b + 148 * k)
  <2>1. 0 \in ChangeSizes /\ 34 \in ChangeSizes
    BY DEF ChangeSizes
  <2>2. /\ o \in Nat /\ 11 * (b + 148 * k + 0 - n - k) <= o /\ o <= 11 * (b + 148 * k + 0)
    BY <2>1, BilledIs
  <2>3. /\ r \in Nat /\ 11 * (b + 148 * k + 34 - n - k) <= r /\ r <= 11 * (b + 148 * k + 34)
    BY <2>1, BilledIs
  <2>4. b \in Nat /\ n \in Nat
    BY DEF Base
  <2> QED
    BY <2>2, <2>3, <2>4
<1>2. b \in Nat /\ n \in Nat /\ b >= 10 + 148 * n
  BY DEF Base
<1> QED
  BY <1>1, <1>2

(* The coins before the k-th, and no fewer, reach the amount a; s are      *)
(* their sums.                                                             *)
Cut(s, l, a, k) == k \in 0..l /\ s[k] >= a /\ \A j \in 0..(k - 1) : s[j] < a
IsSums(s, l) == l \in Nat /\ \A j \in 0..l : s[j] \in Nat

(* A larger amount takes no fewer coins.                                   *)
LEMMA CutsGrow ==
    ASSUME NEW s, NEW l, IsSums(s, l), NEW x \in Int, NEW y \in Int, x <= y,
           NEW k, NEW m, Cut(s, l, x, k), Cut(s, l, y, m)
    PROVE  k <= m
<1>1. k \in 0..l /\ m \in 0..l /\ s[m] >= y /\ s[m] \in Nat /\ l \in Nat
  BY DEF Cut, IsSums
<1>2. ASSUME m < k PROVE FALSE
  <2>1. s[m] < x
    <3>1. m \in 0..(k - 1)
      BY <1>1, <1>2
    <3> QED
      BY <3>1 DEF Cut
  <2> QED
    BY <1>1, <2>1
<1> QED
  BY <1>1, <1>2

-----------------------------------------------------------------------------
(* From one call to the next                                               *)

(* The fee o of a call, which was the bill of k coins, buys m coins and    *)
(* brings the bill r.                                                      *)
Turn(s, l, x, b, n, o, m, d, r) ==
    /\ Cut(s, l, x + o, m) /\ d = ChangeSize(s[m] - x - o) /\ Billed(b, n, m, d, r) /\ ~ Fits(o, r)

(* A fee that went up goes up again, for one coin more at least.           *)
LEMMA GoesUp ==
    ASSUME NEW s, NEW l, IsSums(s, l), NEW x \in Int, NEW b, NEW n, Base(b, n),
           NEW p \in Nat, NEW k, n + k >= 1, NEW c \in ChangeSizes, NEW o,
           Cut(s, l, x + p, k), c = ChangeSize(s[k] - x - p), Billed(b, n, k, c, o), 100 * p <= 99 * o,
           NEW m, NEW d \in ChangeSizes, NEW r, Turn(s, l, x, b, n, o, m, d, r)
    PROVE  m > k /\ 100 * o <= 99 * r
<1>1. /\ k \in Nat /\ m \in Nat /\ s[m] \in Nat /\ s[k] \in Nat /\ k \in 0..l /\ m \in 0..l
  BY DEF Cut, IsSums, Turn
<1>2. o \in Nat /\ r \in Nat /\ o > 0 /\ n \in Nat
  <2>1. Billed(b, n, m, d, r) /\ n \in Nat
    BY DEF Turn, Base
  <2> QED
    BY <1>1, <2>1, BilledIs
<1>3. Cut(s, l, x + o, m) /\ d = ChangeSize(s[m] - x - o) /\ Billed(b, n, m, d, r) /\ ~ Fits(o, r)
  BY DEF Turn
<1>4. k <= m
  BY <1>2, <1>3, CutsGrow
<1>5. k # m
  <2> SUFFICES ASSUME k = m PROVE FALSE
    OBVIOUS
  <2>1. s[k] >= x + o
    BY <1>3 DEF Cut
  <2>2. s[k] > x + p
    BY <1>1, <1>2, <2>1
  <2>3. c = 34
    BY <1>1, <2>2 DEF ChangeSize
  <2>4. CASE d = 34
    BY <1>1, <1>3, <2>3, <2>4, SameBills
  <2>5. CASE d # 34
    <3>1. d = 0
      BY <2>5 DEF ChangeSizes
    <3>2. Billed(b, n, k, 34, o) /\ Billed(b, n, k, 0, r)
      BY <1>3, <2>3, <3>1
    <3> QED
      BY <1>1, <1>3, <3>2, ChangeDropped
  <2> QED
    BY <2>4, <2>5
<1>6. 4 * o < 5 * r
  BY <1>1, <1>3, <1>4, <1>5, MoreCoins
<1>7. 100 * o <= 99 * r
  BY <1>2, <1>3, <1>6 DEF Fits
<1> QED
  BY <1>1, <1>4, <1>5, <1>7

(* A fee that went down goes down again, for one coin less at least; or    *)
(* the same coins now leave change, and will again.                        *)
LEMMA GoesDown ==
    ASSUME NEW s, NEW l, IsSums(s, l), NEW x \in Int, NEW b, NEW n, Base(b, n),
           NEW p \in Nat, NEW k \in 0..l, n + k >= 1, NEW c \in ChangeSizes, NEW o,
           Billed(b, n, k, c, o), 5 * o <= 4 * p, s[k] >= x + p,
           NEW m, NEW d \in ChangeSizes, NEW r, Turn(s, l, x, b, n, o, m, d, r)
    PROVE  \/ m < k /\ 5 * r <= 4 * o /\ s[m] >= x + o
           \/ m = k /\ d = 34 /\ Cut(s, l, x + r, k) /\ s[k] > x + r
<1>1. /\ k \in Nat /\ m \in Nat /\ s[m] \in Nat /\ s[k] \in Nat /\ m \in 0..l
  BY DEF Cut, IsSums, Turn
<1>2. o \in Nat /\ r \in Nat /\ o > 0 /\ n \in Nat
  <2>1. Billed(b, n, m, d, r) /\ n \in Nat
    BY DEF Turn, Base
  <2> QED
    BY <1>1, <2>1, BilledIs
<1>3. Cut(s, l, x + o, m) /\ d = ChangeSize(s[m] - x - o) /\ Billed(b, n, m, d, r) /\ ~ Fits(o, r)
  BY DEF Turn
<1>4. s[m] >= x + o
  BY <1>3 DEF Cut
<1>5. m <= k
  <2> SUFFICES ASSUME k < m PROVE FALSE
    BY <1>1
  <2>1. k \in 0..(m - 1)
    BY <1>1
  <2>2. s[k] < x + o
    BY <1>3, <2>1 DEF Cut
  <2> QED
    BY <1>1, <1>2, <2>2
<1>6. CASE m < k
  <2>1. 99 * r < 100 * o
    BY <1>1, <1>3, <1>6, FewerCoins
  <2>2. 5 * r <= 4 * o
    BY <1>2, <1>3, <2>1 DEF Fits
  <2> QED
    BY <1>4, <1>6, <2>2
<1>7. CASE m = k
  <2>1. d = 34
    BY <1>1, <1>2, <1>3, <1>7 DEF ChangeSize
  <2>2. c = 0
    <3> SUFFICES ASSUME c = 34 PROVE FALSE
      BY DEF ChangeSizes
    <3> QED
      BY <1>1, <1>3, <1>7, <2>1, SameBills
  <2>3. Billed(b, n, k, 0, o) /\ Billed(b, n, k, 34, r)
    BY <1>3, <1>7, <2>1, <2>2
  <2>4. r < p /\ 4 * o < 5 * r
    BY <1>1, <2>3, ChangeAppears
  <2>5. 100 * o <= 99 * r
    BY <1>2, <1>3, <2>4 DEF Fits
  <2>6. s[k] > x + r
    BY <1>1, <1>2, <2>4
  <2>7. Cut(s, l, x + r, k)
    <3>1. ASSUME NEW j \in 0..(k - 1) PROVE s[j] < x + r
      <4>1. s[j] < x + o
        BY <1>3, <1>7 DEF Cut
      <4>2. s[j] \in Nat
        BY <1>1 DEF IsSums
      <4> QED
        BY <1>2, <2>5, <4>1, <4>2
    <3> QED
      BY <1>1, <1>2, <2>6, <3>1 DEF Cut
  <2> QED
    BY <1>7, <2>1, <2>6, <2>7
<1> QED
  BY <1>1, <1>5, <1>6, <1>7

(* With change, and the same coins again, the fee fits.                    *)
LEMMA StaysPut ==
    ASSUME NEW s, NEW l, IsSums(s, l), NEW x \in Int, NEW b, NEW n, Base(b, n),
           NEW k, NEW o, Billed(b, n, k, 34, o), Cut(s, l, x + o, k), s[k] > x + o,
           NEW m, NEW d \in ChangeSizes, NEW r, Turn(s, l, x, b, n, o, m, d, r)
    PROVE  FALSE
<1>1. /\ k \in Nat /\ m \in Nat /\ k \in 0..l /\ m \in 0..l
  BY DEF Cut, IsSums, Turn
<1>2. o \in Nat
  <2>1. 34 \in ChangeSizes
    BY DEF ChangeSizes
  <2> QED
    BY <1>1, <2>1, BilledIs
<1>3. Cut(s, l, x + o, m) /\ d = ChangeSize(s[m] - x - o) /\ Billed(b, n, m, d, r) /\ ~ Fits(o, r)
  BY DEF Turn
<1>4. k <= m /\ m <= k
  BY <1>2, <1>3, CutsGrow
<1>5. m = k
  BY <1>1, <1>4
<1>6. d = 34 /\ d \in ChangeSizes
  BY <1>2, <1>3, <1>5 DEF ChangeSize, Cut, IsSums
<1> QED
  BY <1>1, <1>3, <1>5, <1>6, SameBills

-----------------------------------------------------------------------------
(* The size of outputs                                                     *)

Sizes(outs)  == [i \in DOMAIN outs |-> OutputSize(outs[i])]
Weight(outs) == Total(Sizes(outs))

(* The sizes of outputs are natural numbers, one for each of them.         *)
LEMMA SizesAre ==
    ASSUME NEW outs \in Seq(Payments)
    PROVE  /\ Sizes(outs) \in Seq(Nat) /\ Sizes(outs) \in Seq(Int)
           /\ Len(Sizes(outs)) = Len(outs) /\ Len(outs) \in Nat
           /\ \A i \in 1..Len(outs) : Sizes(outs)[i] = OutputSize(outs[i])
           /\ Weight(outs) \in Nat
<1>1. Len(outs) \in Nat /\ DOMAIN outs = 1..Len(outs)
  OBVIOUS
<1>2. ASSUME NEW i \in 1..Len(outs) PROVE OutputSize(outs[i]) \in Nat
  <2>1. outs[i] \in Payments
    BY <1>1
  <2>2. outs[i].asset \in {"satori", "currency", "memo"}
    BY <2>1 DEF Payments
  <2> QED
    BY <2>2 DEF OutputSize, AssetSize, OutSize, MemoSize
<1>3. Sizes(outs) \in [1..Len(outs) -> Nat]
  BY <1>1, <1>2 DEF Sizes
<1>4. Sizes(outs) \in Seq(Nat) /\ Len(Sizes(outs)) = Len(outs)
  BY <1>1, <1>3, SeqDef
<1>5. Sizes(outs) \in Seq(Int)
  <2>1. Nat \subseteq Int
    OBVIOUS
  <2> QED
    BY <1>4, <2>1, SeqMonotonic
<1>6. Weight(outs) \in Nat
  BY <1>4, CoinsTotal DEF Weight
<1>7. \A i \in 1..Len(outs) : Sizes(outs)[i] = OutputSize(outs[i])
  BY <1>1 DEF Sizes
<1> QED
  BY <1>1, <1>4, <1>5, <1>6, <1>7

(* What two lists of outputs weigh together, what one output weighs, and   *)
(* what none do.                                                           *)
LEMMA WeightJoined ==
    ASSUME NEW a \in Seq(Payments), NEW b \in Seq(Payments)
    PROVE  Weight(a \o b) = Weight(a) + Weight(b)
<1>1. a \o b \in Seq(Payments)
  OBVIOUS
<1>2. PICK c \in Seq(Payments) : c = a \o b
  BY <1>1
<1>3. /\ Len(a) \in Nat /\ Len(b) \in Nat /\ Len(c) = Len(a) + Len(b)
      /\ \A i \in 1..Len(c) : c[i] = IF i <= Len(a) THEN a[i] ELSE b[i - Len(a)]
  BY <1>2
<1>4. PICK x \in Seq(Int), y \in Seq(Int), z \in Seq(Int) :
         x = Sizes(a) /\ y = Sizes(b) /\ z = Sizes(c)
  BY SizesAre
<1>5. Len(x) = Len(a) /\ Len(y) = Len(b) /\ Len(z) = Len(x) + Len(y) /\ Len(x) \in Nat /\ Len(y) \in Nat
  BY <1>3, <1>4, SizesAre
<1>6. \A i \in 1..Len(z) : z[i] = IF i <= Len(x) THEN x[i] ELSE y[i - Len(x)]
  <2> SUFFICES ASSUME NEW i \in 1..Len(z)
               PROVE  z[i] = IF i <= Len(x) THEN x[i] ELSE y[i - Len(x)]
    OBVIOUS
  <2>1. i \in 1..Len(c) /\ z[i] = OutputSize(c[i])
    BY <1>3, <1>4, <1>5, SizesAre
  <2>2. CASE i <= Len(x)
    <3>1. i \in 1..Len(a) /\ c[i] = a[i]
      BY <1>3, <1>5, <2>1, <2>2
    <3>2. x[i] = OutputSize(a[i])
      BY <1>4, <3>1, SizesAre
    <3> QED
      BY <2>1, <2>2, <3>1, <3>2
  <2>3. CASE ~ (i <= Len(x))
    <3>1. i - Len(x) \in 1..Len(b) /\ c[i] = b[i - Len(x)]
      BY <1>3, <1>5, <2>1, <2>3
    <3>2. y[i - Len(x)] = OutputSize(b[i - Len(x)])
      BY <1>4, <3>1, SizesAre
    <3> QED
      BY <2>1, <2>3, <3>1, <3>2
  <2> QED
    BY <2>2, <2>3
<1>7. z = x \o y
  <2>1. /\ x \o y \in Seq(Int) /\ Len(x \o y) = Len(x) + Len(y)
        /\ \A i \in 1..(Len(x) + Len(y)) : (x \o y)[i] = IF i <= Len(x) THEN x[i] ELSE y[i - Len(x)]
    BY ConcatProperties
  <2>2. PICK w \in Seq(Int) : w = x \o y
    BY <2>1
  <2>3. Len(w) = Len(z) /\ \A i \in 1..Len(z) : w[i] = z[i]
    BY <1>5, <1>6, <2>1, <2>2
  <2>4. w = z
    BY <2>3, SeqEqual
  <2> QED
    BY <2>2, <2>4
<1>8. Total(z) = Total(x) + Total(y)
  BY <1>7, TotalJoined
<1> QED
  BY <1>2, <1>4, <1>8 DEF Weight

LEMMA WeightOne ==
    ASSUME NEW out \in Payments
    PROVE  Weight(<<out>>) = OutputSize(out) /\ OutputSize(out) \in Nat
<1>1. <<out>> \in Seq(Payments) /\ Len(<<out>>) = 1 /\ <<out>>[1] = out
  OBVIOUS
<1>2. PICK s \in Seq(Payments) : s = <<out>> /\ Len(s) = 1 /\ s[1] = out
  BY <1>1
<1>3. PICK z \in Seq(Nat) : z = Sizes(s) /\ z \in Seq(Int) /\ Len(z) = 1 /\ z[1] = OutputSize(out)
  <2>1. 1 \in 1..Len(s)
    BY <1>2
  <2> QED
    BY <1>2, <2>1, SizesAre
<1>4. z[1] \in Nat
  BY <1>3
<1>5. Sums(z)[0] = 0 /\ Sums(z)[1] = Sums(z)[0] + z[1]
  <2>1. 1 \in 1..Len(z) /\ 1 - 1 = 0
    BY <1>3
  <2> QED
    BY <1>3, <2>1, SumsStep
<1>6. Total(z) = z[1]
  BY <1>3, <1>4, <1>5 DEF Total
<1>7. Weight(s) = OutputSize(out)
  BY <1>3, <1>6 DEF Weight
<1> QED
  BY <1>2, <1>3, <1>4, <1>7

LEMMA WeightNothing == Weight(<<>>) = 0
<1>1. Sizes(<<>>) = <<>>
  <2>1. PICK s \in Seq(Payments) : s = <<>> /\ Len(s) = 0
    <3>1. <<>> \in Seq(Payments) /\ Len(<<>>) = 0
      OBVIOUS
    <3> QED
      BY <3>1
  <2>2. Sizes(s) \in Seq(Nat) /\ Len(Sizes(s)) = 0
    BY <2>1, SizesAre
  <2>3. Sizes(s) = <<>>
    BY <2>2
  <2> QED
    BY <2>1, <2>3
<1> QED
  BY <1>1, TotalNothing DEF Weight

(* Sums between bounds.                                                    *)
LEMMA SumsBounded ==
    ASSUME NEW s \in Seq(Nat), NEW z \in Nat, NEW n \in 0..Len(s)
    PROVE  /\ (\A i \in 1..Len(s) : s[i] <= z) => Sums(s)[n] <= z * n
           /\ (\A i \in 1..Len(s) : s[i] >= z) => Sums(s)[n] >= z * n
<1>1. s \in Seq(Int) /\ Len(s) \in Nat /\ \A i \in 1..Len(s) : s[i] \in Nat
  <2>1. Nat \subseteq Int
    OBVIOUS
  <2>2. s \in Seq(Int)
    BY <2>1, SeqMonotonic
  <2> QED
    BY <2>2
<1> DEFINE Right(k) == /\ (\A i \in 1..Len(s) : s[i] <= z) => Sums(s)[k] <= z * k
                       /\ (\A i \in 1..Len(s) : s[i] >= z) => Sums(s)[k] >= z * k
           Bad == {k \in 0..Len(s) : ~ Right(k)}
<1> SUFFICES ASSUME Bad # {} PROVE FALSE
  OBVIOUS
<1>2. PICK k \in Bad : \A j \in Bad : k <= j
  <2>1. Bad \in SUBSET Nat
    BY <1>1
  <2> HIDE DEF Bad
  <2> QED
    BY <2>1, LeastExists
<1>3. k \in 0..Len(s) /\ ~ Right(k)
  BY <1>2
<1>4. k # 0
  <2> SUFFICES ASSUME k = 0 PROVE FALSE
    OBVIOUS
  <2>1. Sums(s)[0] = 0
    BY <1>1, SumsStep
  <2> QED
    BY <1>3, <2>1
<1>5. k \in 1..Len(s) /\ k - 1 \in 0..Len(s) /\ k - 1 \notin Bad
  <2>1. k \in 1..Len(s) /\ k - 1 \in 0..Len(s) /\ ~ (k <= k - 1)
    BY <1>1, <1>3, <1>4
  <2> HIDE DEF Bad
  <2> QED
    BY <1>2, <2>1
<1>6. Right(k - 1)
  BY <1>5
<1>7. Sums(s)[k] = Sums(s)[k - 1] + s[k] /\ Sums(s)[k - 1] \in Nat /\ s[k] \in Nat
  BY <1>1, <1>5, SumsStep, SumsAre
<1>8. PICK g \in Nat, h \in Nat : g = z * k /\ h = z * (k - 1) /\ g = h + z
  BY <1>5
<1>9. ASSUME \A i \in 1..Len(s) : s[i] <= z PROVE Sums(s)[k] <= g
  <2>1. Sums(s)[k - 1] <= z * (k - 1)
    BY <1>6, <1>9
  <2>2. s[k] <= z
    BY <1>5, <1>9
  <2>3. Sums(s)[k - 1] <= h
    BY <1>8, <2>1
  <2> HIDE DEF Right
  <2> QED
    BY <1>7, <1>8, <2>2, <2>3
<1>10. ASSUME \A i \in 1..Len(s) : s[i] >= z PROVE Sums(s)[k] >= g
  <2>1. Sums(s)[k - 1] >= z * (k - 1)
    BY <1>6, <1>10
  <2>2. s[k] >= z
    BY <1>5, <1>10
  <2>3. Sums(s)[k - 1] >= h
    BY <1>8, <2>1
  <2> HIDE DEF Right
  <2> QED
    BY <1>7, <1>8, <2>2, <2>3
<1> QED
  BY <1>3, <1>8, <1>9, <1>10

(* So outputs of limited size weigh at most so much each.                  *)
LEMMA WeightBounded ==
    ASSUME NEW outs \in Seq(Payments), NEW z \in Nat,
           \A i \in 1..Len(outs) : OutputSize(outs[i]) <= z
    PROVE  Weight(outs) <= z * Len(outs)
<1>1. /\ Sizes(outs) \in Seq(Nat) /\ Len(Sizes(outs)) = Len(outs) /\ Len(outs) \in Nat
      /\ \A i \in 1..Len(Sizes(outs)) : Sizes(outs)[i] <= z
  BY SizesAre
<1>2. Len(outs) \in 0..Len(Sizes(outs))
  BY <1>1
<1> QED
  BY <1>1, <1>2, SumsBounded DEF Weight, Total

-----------------------------------------------------------------------------
(* How many coins are gathered                                             *)

(* A list of coins is a sequence of integers too, which is what lemmas on  *)
(* sums ask for.                                                           *)
LEMMA NatSeq == ASSUME NEW s \in Seq(Nat) PROVE s \in Seq(Int) /\ Len(s) \in Nat
<1>1. Nat \subseteq Int
  OBVIOUS
<1> QED
  BY <1>1, SeqMonotonic

(* The sums of the first coins are numbers, up to the total of all.        *)
LEMMA CoinSums ==
    ASSUME NEW coins \in Seq(Nat)
    PROVE  /\ IsSums(Sums(coins), Len(coins))
           /\ \A k \in 0..Len(coins) : Sums(coins)[k] <= Total(coins)
           /\ Sums(coins)[0] = 0 /\ Sums(coins)[Len(coins)] = Total(coins)
<1>1. coins \in Seq(Int) /\ Len(coins) \in Nat
  BY NatSeq
<1>2. IsSums(Sums(coins), Len(coins))
  BY <1>1, SumsAre DEF IsSums
<1>3. Sums(coins)[0] = 0 /\ Sums(coins)[Len(coins)] = Total(coins)
  BY <1>1, SumsStep DEF Total
<1>4. ASSUME NEW k \in 0..Len(coins) PROVE Sums(coins)[k] <= Total(coins)
  <2> DEFINE Right == {j \in 0..Len(coins) : j >= k /\ Sums(coins)[k] <= Sums(coins)[j]}
             Bad == {j \in 0..Len(coins) : j >= k} \ Right
  <2>1. ASSUME Bad # {} PROVE FALSE
    <3>1. PICK j \in Bad : \A i \in Bad : j <= i
      <4>1. Bad \in SUBSET Nat
        BY <1>1
      <4> HIDE DEF Bad
      <4> QED
        BY <2>1, <4>1, LeastExists
    <3>2. j \in 0..Len(coins) /\ j >= k /\ ~ (Sums(coins)[k] <= Sums(coins)[j])
      BY <3>1
    <3>3. j # k
      <4>1. Sums(coins)[k] \in Nat
        BY <1>2 DEF IsSums
      <4> QED
        BY <3>2, <4>1
    <3>4. j \in 1..Len(coins) /\ j - 1 \in 0..Len(coins) /\ j - 1 >= k /\ ~ (j <= j - 1)
      BY <1>1, <3>2, <3>3
    <3>5. j - 1 \notin Bad
      <4> HIDE DEF Bad
      <4> QED
        BY <3>1, <3>4
    <3>6. Sums(coins)[k] <= Sums(coins)[j - 1]
      BY <3>4, <3>5
    <3>7. Sums(coins)[j] = Sums(coins)[j - 1] + coins[j] /\ coins[j] \in Nat
      BY <1>1, <3>4, SumsStep
    <3>8. Sums(coins)[k] \in Nat /\ Sums(coins)[j - 1] \in Nat
      BY <1>2, <3>4 DEF IsSums
    <3> QED
      BY <3>2, <3>6, <3>7, <3>8
  <2>2. Len(coins) \in 0..Len(coins) /\ Len(coins) >= k
    BY <1>1
  <2>3. Sums(coins)[k] <= Sums(coins)[Len(coins)]
    BY <2>1, <2>2
  <2> QED
    BY <1>3, <2>3
<1> QED
  BY <1>2, <1>3, <1>4

(* The first k coins have the k-th sum.                                    *)
LEMMA PrefixTotal ==
    ASSUME NEW coins \in Seq(Nat), NEW k \in 0..Len(coins)
    PROVE  /\ Len(SubSeq(coins, 1, k)) = k
           /\ Total(SubSeq(coins, 1, k)) = Sums(coins)[k]
<1>1. coins \in Seq(Int) /\ Len(coins) \in Nat /\ k \in Nat /\ k <= Len(coins)
  BY NatSeq
<1>2. PICK s \in Seq(Nat) : s = SubSeq(coins, 1, k) /\ Len(s) = k /\ Begins(s, coins, k)
  <2>1. \A i \in 1..k : coins[i] \in Nat
    BY <1>1
  <2>2. 1 \in Int /\ k \in Int
    BY <1>1
  <2>3. /\ SubSeq(coins, 1, k) \in Seq(Nat)
        /\ Len(SubSeq(coins, 1, k)) = IF 1 <= k THEN k - 1 + 1 ELSE 0
        /\ \A i \in 1..(k - 1 + 1) : SubSeq(coins, 1, k)[i] = coins[1 + i - 1]
    BY <2>1, <2>2, SubSeqProperties
  <2>4. k - 1 + 1 = k /\ \A i \in 1..k : 1 + i - 1 = i
    BY <1>1
  <2>5. Len(SubSeq(coins, 1, k)) = k
    BY <1>1, <2>3, <2>4
  <2> QED
    BY <2>3, <2>4, <2>5 DEF Begins
<1>3. s \in Seq(Int) /\ k \in 0..Len(s)
  BY <1>1, <1>2, NatSeq
<1>4. Sums(s)[k] = Sums(coins)[k]
  BY <1>1, <1>2, <1>3, SumsAgree
<1> QED
  BY <1>2, <1>4 DEF Total

(* Coins are taken until there is enough, or all of them.                  *)
LEMMA TakenSums ==
    ASSUME NEW coins \in Seq(Nat), NEW need
    PROVE  \E k \in 0..Len(coins) :
              /\ Len(Taken(coins, need)) = k /\ Total(Taken(coins, need)) = Sums(coins)[k]
              /\ k \in Enough(coins, need) \/ (Enough(coins, need) = {} /\ k = Len(coins))
              /\ \A j \in 0..(k - 1) : j \notin Enough(coins, need)
<1> DEFINE T == Enough(coins, need) \cup {Len(coins)}
<1>1. Len(coins) \in Nat
  BY NatSeq
<1>2. T \in SUBSET Nat /\ T \subseteq 0..Len(coins) /\ T # {}
  BY <1>1 DEF Enough
<1>3. Min(T) \in T /\ \A j \in T : Min(T) <= j
  <2> HIDE DEF T
  <2>1. \E i \in T : \A j \in T : i <= j
    BY <1>2, LeastExists
  <2>2. \E i \in T : \A j \in T : i =< j
    BY <2>1
  <2> QED
    BY <2>2 DEF Min
<1>4. PICK k \in 0..Len(coins) : k = Min(T)
  BY <1>2, <1>3
<1>5. Taken(coins, need) = SubSeq(coins, 1, k)
  BY <1>4 DEF Taken
<1>6. Len(Taken(coins, need)) = k /\ Total(Taken(coins, need)) = Sums(coins)[k]
  BY <1>5, PrefixTotal
<1>7. ASSUME NEW j \in 0..(k - 1) PROVE j \notin Enough(coins, need)
  <2>1. ~ (k <= j)
    BY <1>1
  <2> QED
    BY <1>3, <1>4, <2>1
<1>8. ASSUME k \notin Enough(coins, need) PROVE Enough(coins, need) = {} /\ k = Len(coins)
  <2>1. k = Len(coins)
    BY <1>3, <1>4, <1>8
  <2>2. ASSUME NEW j \in Enough(coins, need) PROVE FALSE
    <3>1. k <= j /\ j \in 0..Len(coins)
      BY <1>2, <1>3, <1>4, <2>2
    <3>2. j = k
      BY <1>1, <2>1, <3>1
    <3> QED
      BY <1>8, <2>2, <3>2
  <2> QED
    BY <2>1, <2>2
<1> QED
  BY <1>6, <1>7, <1>8

(* For a need that is known, no more coins than it takes.                  *)
LEMMA GatherFixed ==
    ASSUME CoinsAre, NEW a \in Nat, a <= Total(purse),
           NEW need, need = [n \in 0..Len(purse) |-> a]
    PROVE  \E k \in 0..Len(purse) :
              /\ Len(GatherCurrency(need)) = k /\ Total(GatherCurrency(need)) = Sums(purse)[k]
              /\ Cut(Sums(purse), Len(purse), a, k)
<1>1. purse \in Seq(Nat) /\ Len(purse) \in Nat
  BY NatSeq DEF CoinsAre
<1>2. IsSums(Sums(purse), Len(purse)) /\ Sums(purse)[Len(purse)] = Total(purse)
  BY <1>1, CoinSums
<1>3. \A j \in 0..Len(purse) : j \in Enough(purse, need) <=> Sums(purse)[j] >= a
  BY DEF Enough
<1>4. Total(purse) >= a
  BY <1>1, CoinsTotal
<1>5. Len(purse) \in Enough(purse, need)
  BY <1>1, <1>2, <1>3, <1>4
<1>6. GatherCurrency(need) = Taken(purse, need)
  BY <1>5 DEF GatherCurrency
<1>7. PICK k \in 0..Len(purse) :
          /\ Len(Taken(purse, need)) = k /\ Total(Taken(purse, need)) = Sums(purse)[k]
          /\ k \in Enough(purse, need) \/ (Enough(purse, need) = {} /\ k = Len(purse))
          /\ \A j \in 0..(k - 1) : j \notin Enough(purse, need)
  BY <1>1, TakenSums
<1>8. Sums(purse)[k] >= a
  BY <1>3, <1>5, <1>7
<1>9. ASSUME NEW j \in 0..(k - 1) PROVE Sums(purse)[j] < a
  <2>1. j \in 0..Len(purse)
    BY <1>1
  <2>2. ~ (Sums(purse)[j] >= a)
    BY <1>3, <1>7, <2>1
  <2>3. Sums(purse)[j] \in Nat
    BY <1>2, <2>1 DEF IsSums
  <2> QED
    BY <2>2, <2>3
<1> QED
  BY <1>6, <1>7, <1>8, <1>9 DEF Cut

(* The sums from the end.                                                  *)
LEMMA ReverseSums ==
    ASSUME NEW coins \in Seq(Nat), NEW n \in 0..Len(coins)
    PROVE  /\ Reverse(coins) \in Seq(Nat) /\ Len(Reverse(coins)) = Len(coins)
           /\ Sums(Reverse(coins))[n] = Total(coins) - Sums(coins)[Len(coins) - n]
<1> DEFINE l == Len(coins)
           Bad == {k \in 0..l : Sums(Reverse(coins))[k] # Total(coins) - Sums(coins)[l - k]}
<1>1. coins \in Seq(Int) /\ l \in Nat /\ \A i \in 1..l : coins[i] \in Nat
  BY NatSeq
<1>2. PICK r \in Seq(Nat) : r = Reverse(coins) /\ Len(r) = l /\ \A i \in 1..l : r[i] = coins[l - i + 1]
  <2>1. Reverse(coins) \in [1..l -> Nat] /\ \A i \in 1..l : Reverse(coins)[i] = coins[l - i + 1]
    BY <1>1 DEF Reverse
  <2>2. Reverse(coins) \in Seq(Nat) /\ Len(Reverse(coins)) = l
    <3> HIDE DEF l
    <3> QED
      BY <1>1, <2>1, SeqDef
  <2> QED
    BY <2>1, <2>2
<1>3. r \in Seq(Int) /\ Sums(r)[0] = 0
  BY <1>2, NatSeq, SumsStep
<1>4. IsSums(Sums(coins), l) /\ Sums(coins)[l] = Total(coins) /\ Total(coins) \in Nat
  BY CoinSums, CoinsTotal
<1>5. ASSUME Bad # {} PROVE FALSE
  <2>1. PICK k \in Bad : \A j \in Bad : k <= j
    <3>1. Bad \in SUBSET Nat
      BY <1>1
    <3> HIDE DEF Bad
    <3> QED
      BY <1>5, <3>1, LeastExists
  <2>2. k \in 0..l /\ Sums(r)[k] # Total(coins) - Sums(coins)[l - k]
    BY <1>2, <2>1
  <2>3. k # 0
    <3> SUFFICES ASSUME k = 0 PROVE FALSE
      OBVIOUS
    <3>1. l - k = l
      BY <1>1
    <3>2. Sums(r)[k] = 0 /\ Total(coins) - Sums(coins)[l - k] = 0
      BY <1>3, <1>4, <3>1
    <3> QED
      BY <2>2, <3>2
  <2>4. k - 1 \in 0..l /\ k \in 1..l /\ ~ (k <= k - 1) /\ l - k + 1 \in 1..l
        /\ l - (k - 1) = l - k + 1 /\ (l - k + 1) - 1 = l - k /\ l - k \in 0..l
    BY <1>1, <2>2, <2>3
  <2>5. k - 1 \notin Bad
    <3> HIDE DEF Bad
    <3> QED
      BY <2>1, <2>4
  <2>6. Sums(r)[k - 1] = Total(coins) - Sums(coins)[l - k + 1]
    BY <1>2, <2>4, <2>5
  <2>7. Sums(r)[k] = Sums(r)[k - 1] + r[k]
    BY <1>2, <1>3, <2>4, SumsStep
  <2>8. Sums(coins)[l - k + 1] = Sums(coins)[l - k] + coins[l - k + 1]
    BY <1>1, <2>4, SumsStep
  <2>9. r[k] = coins[l - k + 1] /\ coins[l - k + 1] \in Nat
    BY <1>1, <1>2, <2>4
  <2>10. Sums(coins)[l - k] \in Nat
    BY <1>4, <2>4 DEF IsSums
  <2> HIDE DEF Bad
  <2> QED
    BY <1>4, <2>2, <2>6, <2>7, <2>8, <2>9, <2>10
<1> QED
  BY <1>2, <1>5

(* Coins that are worth more than the fee of an input are gathered from    *)
(* the smallest on; largest first there would not be enough either.        *)
Growing(a) == [n \in 0..Len(purse) |-> a + PerItem * n]
(* So whatever is gathered without a fixed fee is as much as some of the   *)
(* first coins.                                                            *)
LEMMA GatherFirst ==
    ASSUME CoinsAre, ~ Dusty, NEW a \in Int, NEW need, need = Growing(a)
    PROVE  \E k \in 0..Len(purse) :
              Len(GatherCurrency(need)) = k /\ Total(GatherCurrency(need)) = Sums(purse)[k]
<1> DEFINE l == Len(purse)
           r == Reverse(purse)
<1>0. need = [n \in 0..Len(purse) |-> a + 1500 * n]
  BY DEF Growing, PerItem
<1>1. purse \in Seq(Nat) /\ l \in Nat
  BY NatSeq DEF CoinsAre
<1>2. /\ IsSums(Sums(purse), l) /\ Sums(purse)[0] = 0 /\ Sums(purse)[l] = Total(purse)
      /\ Total(purse) \in Nat
  BY <1>1, CoinSums, CoinsTotal
<1>3. CASE Enough(purse, need) # {}
  <2>1. GatherCurrency(need) = Taken(purse, need)
    BY <1>3 DEF GatherCurrency
  <2>2. \E k \in 0..Len(purse) :
           Len(Taken(purse, need)) = k /\ Total(Taken(purse, need)) = Sums(purse)[k]
    BY <1>1, TakenSums, Zenon
  <2> QED
    BY <2>1, <2>2, Zenon
<1>4. CASE Enough(purse, need) = {}
  <2>1. GatherCurrency(need) = Taken(r, need)
    BY <1>4 DEF GatherCurrency
  <2>2. r \in Seq(Nat) /\ Len(r) = l /\ \A n \in 0..l : Sums(r)[n] = Total(purse) - Sums(purse)[l - n]
    <3>1. 0 \in 0..l
      BY <1>1
    <3> QED
      BY <1>1, <3>1, ReverseSums
  <2>3. PICK k \in 0..l :
            /\ Len(Taken(r, need)) = k /\ Total(Taken(r, need)) = Sums(r)[k]
            /\ k \in Enough(r, need) \/ k = l
    <3>1. \E k \in 0..Len(r) :
            /\ Len(Taken(r, need)) = k /\ Total(Taken(r, need)) = Sums(r)[k]
            /\ k \in Enough(r, need) \/ (Enough(r, need) = {} /\ k = Len(r))
            /\ \A j \in 0..(k - 1) : j \notin Enough(r, need)
      <4> HIDE DEF r
      <4> QED
        BY <2>2, TakenSums
    <3> QED
      BY <2>2, <3>1, Zenon
  <2>4. k = l
    <3> SUFFICES ASSUME k \in Enough(r, need) PROVE FALSE
      BY <2>3
    <3>1. Sums(r)[k] >= a + 1500 * k
      BY <1>0, <2>2 DEF Enough
    <3>2. l - k \in 0..l
      BY <1>1
    <3>3. Sums(purse)[l - k] >= 1628 * (l - k)
      <4>1. ASSUME NEW i \in 1..l PROVE purse[i] >= 1628
        <5>1. i \in DOMAIN purse /\ purse[i] \in Nat
          BY <1>1
        <5>2. ~ (purse[i] < 1628)
          BY <5>1 DEF Dusty, PerByte, InSize
        <5> QED
          BY <5>1, <5>2
      <4>2. 1628 \in Nat
        OBVIOUS
      <4>3. \A i \in 1..Len(purse) : purse[i] >= 1628
        BY <4>1
      <4>4. PICK n \in 0..Len(purse) : n = l - k
        BY <3>2
      <4>5. PICK z \in Nat : z = 1628
        BY <4>2
      <4>6. \A i \in 1..Len(purse) : purse[i] >= z
        BY <4>3, <4>5
      <4>7. Sums(purse)[n] >= z * n
        BY <1>1, <4>6, SumsBounded
      <4> QED
        BY <4>4, <4>5, <4>7
    <3>4. Sums(purse)[l - k] \in Nat
      BY <1>2, <3>2 DEF IsSums
    <3>5. Total(purse) >= a + 1500 * l
      BY <1>1, <1>2, <2>2, <3>1, <3>2, <3>3, <3>4
    <3>6. l \in Enough(purse, need)
      BY <1>0, <1>1, <1>2, <3>5 DEF Enough
    <3> QED
      BY <1>4, <3>6
  <2>5. Sums(r)[l] = Sums(purse)[l]
    <3>1. l \in 0..l /\ l - l = 0
      BY <1>1
    <3> QED
      BY <1>2, <2>2, <3>1
  <2> QED
    BY <2>1, <2>3, <2>4, <2>5
<1> QED
  BY <1>3, <1>4

-----------------------------------------------------------------------------
(* What a draft is billed                                                  *)

Signatures(plan) == Len(DraftSatori(plan)) + plan.claims
Rest(plan) ==
    Weight(Pays(plan)) + Weight(Change("satori", DraftOver(plan))) + Weight(plan.memo)
PlanBytes(plan) == 10 + 148 * Len(DraftSatori(plan)) + 260 * plan.claims + Rest(plan)

(* Change weighs as much as its size, and is outputs.                      *)
LEMMA ChangeWeighs ==
    ASSUME NEW value \in Int
    PROVE  /\ Weight(Change("currency", value)) = ChangeSize(value)
           /\ Weight(Change("satori", value)) \in 0..59 /\ ChangeSize(value) \in ChangeSizes
           /\ Change("currency", value) \in Seq(Payments) /\ Change("satori", value) \in Seq(Payments)
<1>1. Output("currency", "self", value) \in Payments /\ Output("satori", "self", value) \in Payments
  BY OutputIs DEF Recipients, Kinds
<1>2. /\ OutputSize(Output("currency", "self", value)) = 34
      /\ OutputSize(Output("satori", "self", value)) = 59
  BY DEF Output, OutputSize, OutSize, AssetSize
<1>3. /\ Weight(<<Output("currency", "self", value)>>) = 34
      /\ Weight(<<Output("satori", "self", value)>>) = 59
  BY <1>1, <1>2, WeightOne
<1>4. CASE value > 0
  <2>1. /\ Change("currency", value) = <<Output("currency", "self", value)>>
        /\ Change("satori", value) = <<Output("satori", "self", value)>> /\ ChangeSize(value) = 34
    BY <1>4 DEF Change, ChangeSize
  <2>2. /\ <<Output("currency", "self", value)>> \in Seq(Payments)
        /\ <<Output("satori", "self", value)>> \in Seq(Payments)
    BY <1>1
  <2>3. ChangeSize(value) \in ChangeSizes /\ 59 \in 0..59
    BY <2>1 DEF ChangeSizes
  <2> QED
    BY <1>3, <2>1, <2>2, <2>3, Zenon
<1>5. CASE ~ (value > 0)
  <2>1. Change("currency", value) = <<>> /\ Change("satori", value) = <<>> /\ ChangeSize(value) = 0
    BY <1>5 DEF Change, ChangeSize
  <2>2. <<>> \in Seq(Payments)
    OBVIOUS
  <2>3. ChangeSize(value) \in ChangeSizes /\ 0 \in 0..59
    BY <2>1 DEF ChangeSizes
  <2> QED
    BY <2>1, <2>2, <2>3, WeightNothing, Zenon
<1> QED
  BY <1>4, <1>5

(* What the bill of a plan is made of are natural numbers.                 *)
LEMMA BytesAre ==
    ASSUME CoinsAre, Called, NEW plan, GoodPlan(plan)
    PROVE  /\ Base(PlanBytes(plan), Signatures(plan)) /\ Rest(plan) \in Nat
           /\ Len(DraftSatori(plan)) \in Nat /\ plan.claims \in Nat
           /\ Weight(Pays(plan)) \in Nat /\ Weight(plan.memo) \in Nat
           /\ Weight(Change("satori", DraftOver(plan))) \in 0..59
           /\ Pays(plan) \in Seq(Payments) /\ plan.memo \in Seq(Payments)
           /\ plan.satori \in Seq(Payments) /\ plan.currency \in Seq(Payments)
<1>1. Listed(plan) /\ Sourced(plan)
  BY DEF GoodPlan
<1>2. DraftSatori(plan) \in Seq(Nat) /\ DraftOver(plan) \in Int
  BY DraftCoins
<1>3. Len(DraftSatori(plan)) \in Nat /\ plan.claims \in Nat
  BY <1>1, <1>2, NatSeq DEF Sourced
<1>4. /\ Pays(plan) \in Seq(Payments) /\ plan.memo \in Seq(Payments)
      /\ plan.satori \in Seq(Payments) /\ plan.currency \in Seq(Payments)
  BY <1>1 DEF Listed, Pays
<1>5. Weight(Pays(plan)) \in Nat /\ Weight(plan.memo) \in Nat
  BY <1>4, SizesAre
<1>6. Weight(Change("satori", DraftOver(plan))) \in 0..59
  BY <1>2, ChangeWeighs
<1>7. Rest(plan) \in Nat
  BY <1>5, <1>6 DEF Rest
<1>8. Base(PlanBytes(plan), Signatures(plan))
  BY <1>3, <1>7 DEF Base, PlanBytes, Signatures
<1> QED
  BY <1>3, <1>4, <1>5, <1>6, <1>7, <1>8

(* A draft is billed for its plan, the coins it gathers and the change it  *)
(* leaves.                                                                 *)
LEMMA DraftBilled ==
    ASSUME CoinsAre, Called, NEW plan, GoodPlan(plan),
           NEW t, t = Draft(plan).tx, NEW shorter \in {0, t.ins + t.claims}
    PROVE  /\ Billed(PlanBytes(plan), Signatures(plan), Len(DraftCurrency(plan)),
                     ChangeSize(DraftLeft(plan)), RequiredFee(t, shorter))
           /\ ChangeSize(DraftLeft(plan)) \in ChangeSizes
<1> DEFINE s == Len(DraftSatori(plan))
           k == Len(DraftCurrency(plan))
           c == ChangeSize(DraftLeft(plan))
           r == Rest(plan)
<1>1. /\ DraftSatori(plan) \in Seq(Nat) /\ DraftCurrency(plan) \in Seq(Nat)
      /\ DraftLeft(plan) \in Int /\ DraftOver(plan) \in Int
  BY DraftCoins
<1>2. s \in Nat /\ k \in Nat /\ plan.claims \in Nat /\ r \in Nat /\ c \in ChangeSizes
  BY <1>1, BytesAre, NatSeq, ChangeWeighs
<1>3. t.ins = s + k /\ t.claims = plan.claims /\ t.outs = Outputs(plan, DraftRest(plan))
  <2>1. MadeOf(t, Total(DraftSatori(plan)) + DraftClaimed(plan, "satori"),
               Total(DraftCurrency(plan)) + DraftClaimed(plan, "currency"),
               s + k, plan.claims, Outputs(plan, DraftRest(plan)))
    BY DraftParts, Zenon DEF MadeOf
  <2> HIDE DEF s, k
  <2> QED
    BY <2>1, PartsOfTx
<1>4. Weight(Outputs(plan, DraftRest(plan))) = r + c
  <2>1. /\ Weight(Change("currency", DraftLeft(plan))) = c
        /\ Change("currency", DraftLeft(plan)) \in Seq(Payments)
        /\ Change("satori", DraftOver(plan)) \in Seq(Payments)
    BY <1>1, ChangeWeighs
  <2>2. /\ DraftRest(plan) \in Seq(Payments)
        /\ Weight(DraftRest(plan)) = Weight(Change("satori", DraftOver(plan))) + c
    BY <2>1, WeightJoined DEF DraftRest
  <2>3. Pays(plan) \in Seq(Payments) /\ plan.memo \in Seq(Payments)
    BY BytesAre
  <2>4. /\ Pays(plan) \o DraftRest(plan) \in Seq(Payments)
        /\ Weight(Pays(plan) \o DraftRest(plan)) = Weight(Pays(plan)) + Weight(DraftRest(plan))
    BY <2>2, <2>3, WeightJoined
  <2>5. Weight((Pays(plan) \o DraftRest(plan)) \o plan.memo) =
            Weight(Pays(plan) \o DraftRest(plan)) + Weight(plan.memo)
    BY <2>3, <2>4, WeightJoined
  <2>6. Outputs(plan, DraftRest(plan)) = (Pays(plan) \o DraftRest(plan)) \o plan.memo
    BY DraftParts
  <2>7. /\ Weight(Pays(plan)) \in Nat /\ Weight(plan.memo) \in Nat
        /\ Weight(Change("satori", DraftOver(plan))) \in 0..59
    BY BytesAre
  <2> HIDE DEF c
  <2>8. c \in Nat
    BY <1>2 DEF ChangeSizes
  <2>9. Weight(Outputs(plan, DraftRest(plan))) =
           Weight(Pays(plan)) + (Weight(Change("satori", DraftOver(plan))) + c) + Weight(plan.memo)
    BY <2>2, <2>4, <2>5, <2>6
  <2> QED
    BY <2>7, <2>8, <2>9 DEF Rest
<1>5. RequiredFee(t, shorter) =
         11 * (10 + 148 * t.ins + 260 * t.claims - shorter + Weight(t.outs))
  BY DEF RequiredFee, Size, PerByte, BaseSize, InSize, ClaimSize, Weight, Sizes
<1> HIDE DEF s, k, c, r
<1>6. RequiredFee(t, shorter) =
         11 * (10 + 148 * (s + k) + 260 * plan.claims - shorter + (r + c))
  BY <1>3, <1>4, <1>5
<1>7. c \in Nat
  BY <1>2 DEF ChangeSizes
<1>8. shorter \in {0, (s + plan.claims) + k} /\ shorter \in Nat
  BY <1>2, <1>3
<1>9. RequiredFee(t, shorter) =
         11 * ((10 + 148 * s + 260 * plan.claims + r) + 148 * k + c - shorter)
  BY <1>2, <1>6, <1>7, <1>8
<1>10. Billed(10 + 148 * s + 260 * plan.claims + r, s + plan.claims, k, c, RequiredFee(t, shorter))
  BY <1>8, <1>9 DEF Billed
<1> QED
  BY <1>2, <1>10 DEF s, k, c, r, PlanBytes, Signatures

(* With a fee that is given, a draft takes the coins that reach it.        *)
Least(plan, a, k) == Cut(Sums(purse), Len(purse), DraftSats(plan) + a, k)
Over(plan, a, k)  == Sums(purse)[k] - DraftSats(plan) - a

LEMMA FixedDraft ==
    ASSUME CoinsAre, Called, NEW plan, GoodPlan(plan), "currency" \in plan.gathers,
           FirstFee(plan) > 0, ~ DraftPoor(plan)
    PROVE  /\ Len(DraftCurrency(plan)) \in 1..Len(purse)
           /\ Least(plan, FirstFee(plan), Len(DraftCurrency(plan)))
           /\ DraftFee(plan) = FirstFee(plan)
           /\ DraftLeft(plan) = Over(plan, FirstFee(plan), Len(DraftCurrency(plan)))
           /\ DraftLeft(plan) >= 0
<1> DEFINE a == DraftSats(plan) + FirstFee(plan)
<1>1. DraftCurrency(plan) \in Seq(Nat) /\ FirstFee(plan) \in Nat
  BY DraftCoins
<1>2. DraftSats(plan) \in Nat
  <2>1. \A i \in 1..Len(plan.currency) : plan.currency[i].value >= 0
    BY DEF GoodPlan, Sourced
  <2>2. plan.currency \in Seq(Payments)
    BY DEF GoodPlan, Listed
  <2> QED
    BY <2>1, <2>2, ValuesAre DEF DraftSats
<1>3. a \in Nat
  BY <1>1, <1>2
<1>4. a <= Total(purse)
  <2>1. Total(purse) \in Nat
    BY CoinsTotal DEF CoinsAre
  <2>2. ~ (Total(purse) < a)
    BY DEF DraftPoor
  <2> QED
    BY <1>3, <2>1, <2>2
<1>5. DraftNeed(plan) = [n \in 0..Len(purse) |-> a]
  BY DEF DraftNeed
<1> HIDE DEF a
<1>6. PICK k \in 0..Len(purse) :
         /\ Len(GatherCurrency(DraftNeed(plan))) = k
         /\ Total(GatherCurrency(DraftNeed(plan))) = Sums(purse)[k]
         /\ Cut(Sums(purse), Len(purse), a, k)
  BY <1>3, <1>4, <1>5, GatherFixed
<1>7. Len(DraftCurrency(plan)) = k /\ Total(DraftCurrency(plan)) = Sums(purse)[k]
  BY <1>6 DEF DraftCurrency
<1>8. DraftCurrency(plan) # <<>>
  BY DraftFunded
<1>9. k # 0
  BY <1>1, <1>7, <1>8
<1>10. DraftFee(plan) = FirstFee(plan)
  BY DEF DraftFee, Fee
<1>11. DraftLeft(plan) = Sums(purse)[k] - DraftSats(plan) - FirstFee(plan)
  BY <1>7, <1>8, <1>10 DEF DraftLeft
<1>12. Sums(purse)[k] >= a /\ Sums(purse)[k] \in Nat
  <2>1. IsSums(Sums(purse), Len(purse))
    BY CoinSums DEF CoinsAre
  <2> QED
    BY <1>6, <2>1 DEF IsSums, Cut
<1>13. DraftLeft(plan) >= 0
  BY <1>1, <1>2, <1>11, <1>12 DEF a
<1>14. Len(purse) \in Nat
  BY NatSeq DEF CoinsAre
<1> QED
  BY <1>6, <1>7, <1>9, <1>10, <1>11, <1>13, <1>14 DEF Least, Over, a

(* Without one, and with coins that each are worth their fee, it takes     *)
(* some of the smallest.                                                   *)
LEMMA FirstDraft ==
    ASSUME CoinsAre, Called, NEW plan, GoodPlan(plan), "currency" \in plan.gathers,
           FirstFee(plan) = 0, ~ Dusty, ~ DraftPoor(plan), DraftLeft(plan) >= 0
    PROVE  /\ Len(DraftCurrency(plan)) \in 1..Len(purse)
           /\ DraftFee(plan) = 1500 * (Len(DraftSatori(plan)) + Len(DraftCurrency(plan)) + plan.counts)
           /\ Sums(purse)[Len(DraftCurrency(plan))] >= DraftSats(plan) + DraftFee(plan)
<1> DEFINE a == DraftSats(plan) + 1500 * (Len(DraftSatori(plan)) + plan.bump + plan.expects)
<1>1. /\ DraftSatori(plan) \in Seq(Nat) /\ DraftCurrency(plan) \in Seq(Nat)
      /\ DraftSats(plan) \in Int /\ DraftFee(plan) \in Nat
  BY DraftCoins
<1>2. plan.bump \in Nat /\ plan.expects \in Nat /\ Len(DraftSatori(plan)) \in Nat
  BY <1>1, NatSeq DEF GoodPlan, Sourced
<1>3. a \in Int
  BY <1>1, <1>2
<1>4. DraftNeed(plan) = Growing(a)
  <2>1. ASSUME NEW n \in 0..Len(purse)
        PROVE  DraftSats(plan) + 1500 * (Len(DraftSatori(plan)) + plan.bump + n + plan.expects)
                  = a + 1500 * n
    <3>1. PICK x \in Int, s \in Nat, b \in Nat, e \in Nat :
             /\ x = DraftSats(plan) /\ s = Len(DraftSatori(plan))
             /\ b = plan.bump /\ e = plan.expects
      BY <1>1, <1>2
    <3>2. x + 1500 * (s + b + n + e) = (x + 1500 * (s + b + e)) + 1500 * n
      OBVIOUS
    <3> QED
      BY <3>1, <3>2
  <2>2. DraftNeed(plan) =
           [n \in 0..Len(purse) |->
              DraftSats(plan) + 1500 * (Len(DraftSatori(plan)) + plan.bump + n + plan.expects)]
    BY DEF DraftNeed, PerItem
  <2> HIDE DEF a
  <2> QED
    BY <2>1, <2>2 DEF Growing, PerItem
<1> HIDE DEF a
<1>5. PICK k \in 0..Len(purse) :
         /\ Len(GatherCurrency(DraftNeed(plan))) = k
         /\ Total(GatherCurrency(DraftNeed(plan))) = Sums(purse)[k]
  BY <1>3, <1>4, GatherFirst
<1>6. Len(DraftCurrency(plan)) = k /\ Total(DraftCurrency(plan)) = Sums(purse)[k]
  BY <1>5 DEF DraftCurrency
<1>7. DraftCurrency(plan) # <<>>
  BY DraftFunded
<1>8. k # 0
  BY <1>1, <1>6, <1>7
<1>9. DraftFee(plan) = 1500 * (Len(DraftSatori(plan)) + Len(DraftCurrency(plan)) + plan.counts)
  BY DEF DraftFee, Fee, PerItem
<1>10. DraftLeft(plan) = Sums(purse)[k] - DraftSats(plan) - DraftFee(plan)
  BY <1>6, <1>7 DEF DraftLeft
<1>11. Sums(purse)[k] \in Nat
  <2>1. IsSums(Sums(purse), Len(purse))
    BY CoinSums DEF CoinsAre
  <2> QED
    BY <1>5, <2>1 DEF IsSums
<1>12. Sums(purse)[k] >= DraftSats(plan) + DraftFee(plan)
  BY <1>1, <1>10, <1>11
<1>13. Len(purse) \in Nat
  BY NatSeq DEF CoinsAre
<1> QED
  BY <1>5, <1>6, <1>8, <1>9, <1>12, <1>13

-----------------------------------------------------------------------------
(* What the plans have in common                                           *)

(* The estimate for so many outputs is more than they cost, and more than  *)
(* what sixteen coins cost above the estimate for them.                    *)
SatoriBack(plan) == IF "satori" \in plan.gathers THEN 59 ELSE 0
Modest(plan) ==
    1089 * (44 + Weight(Pays(plan)) + SatoriBack(plan) + Weight(plan.memo)) + 178752 < 150000 * plan.counts

(* A memo weighs at most sixty bytes for each output that the estimate     *)
(* counts for it.                                                          *)
LEMMA MemoWeighs ==
    /\ Weight(Memo) <= 60 * MemoCount /\ Weight(Memo) \in Nat /\ MemoCount \in Nat
    /\ Memo \in Seq(Payments)
<1>1. Memo \in Seq(Payments) /\ MemoCount \in Nat
  BY MemoIs
<1>2. CASE task.memo = "fits"
  <2>1. Memo = <<Output("memo", "nobody", 0)>> /\ MemoCount = 1
    BY <1>2 DEF Memo, MemoCount
  <2>2. Output("memo", "nobody", 0) \in Payments
    BY DEF Output, Payments, Recipients
  <2>3. OutputSize(Output("memo", "nobody", 0)) = 60
    BY DEF Output, OutputSize, MemoSize
  <2>4. Weight(Memo) = 60
    BY <2>1, <2>2, <2>3, WeightOne
  <2> QED
    BY <1>1, <2>1, <2>4
<1>3. CASE task.memo # "fits"
  <2>1. Memo = <<>>
    BY <1>3 DEF Memo
  <2>2. Weight(Memo) = 0
    BY <2>1, WeightNothing
  <2> QED
    BY <1>1, <2>2
<1> QED
  BY <1>2, <1>3

(* A lock pays outputs of limited size only.                               *)
LEMMA LocksWeigh ==
    ASSUME Called, NEW plan, Locks(plan)
    PROVE  /\ Weight(Pays(plan)) \in Nat /\ Weight(plan.memo) \in Nat
           /\ "satori" \in plan.gathers => Weight(Pays(plan)) <= 59 * task.outs
           /\ "satori" \notin plan.gathers => Weight(Pays(plan)) <= 34 * task.outs
           /\ Weight(plan.memo) <= 60 * MemoCount /\ "currency" \in plan.gathers
<1>1. Weight(plan.memo) <= 60 * MemoCount /\ Weight(plan.memo) \in Nat
  BY MemoWeighs DEF Locks
<1>2. /\ Weight(Each(Satori)) <= 59 * task.outs /\ Weight(Each(Satori)) \in Nat
      /\ Weight(Each(Currency)) <= 34 * task.outs /\ Weight(Each(Currency)) \in Nat
  <2>1. AreLocks(Each(Satori), "satori") /\ AreLocks(Each(Currency), "currency")
    BY LocksAre
  <2>2. PICK s, c : s = Each(Satori) /\ c = Each(Currency)
    OBVIOUS
  <2>3. AreLocks(s, "satori") /\ AreLocks(c, "currency")
    BY <2>1, <2>2
  <2>4. Weight(s) <= 59 * task.outs /\ Weight(s) \in Nat
    <3>1. s \in Seq(Payments) /\ Len(s) = task.outs
      BY <2>3 DEF AreLocks
    <3>2. \A i \in 1..Len(s) : OutputSize(s[i]) <= 59
      BY <2>3 DEF AreLocks, OutputSize, AssetSize
    <3>3. PICK z \in Nat : z = 59
      OBVIOUS
    <3>4. Weight(s) <= z * Len(s) /\ Weight(s) \in Nat
      BY <3>1, <3>2, <3>3, WeightBounded, SizesAre
    <3> QED
      BY <3>1, <3>3, <3>4
  <2>5. Weight(c) <= 34 * task.outs /\ Weight(c) \in Nat
    <3>1. c \in Seq(Payments) /\ Len(c) = task.outs
      BY <2>3 DEF AreLocks
    <3>2. \A i \in 1..Len(c) : OutputSize(c[i]) <= 34
      BY <2>3 DEF AreLocks, OutputSize, OutSize
    <3>3. PICK z \in Nat : z = 34
      OBVIOUS
    <3>4. Weight(c) <= z * Len(c) /\ Weight(c) \in Nat
      BY <3>1, <3>2, <3>3, WeightBounded, SizesAre
    <3> QED
      BY <3>1, <3>3, <3>4
  <2> QED
    BY <2>2, <2>4, <2>5
<1>3. Each(Satori) \in Seq(Payments) /\ Each(Currency) \in Seq(Payments)
  BY LocksAre DEF AreLocks
<1>4. CASE plan.satori = Each(Satori) /\ plan.currency = <<>> /\ plan.gathers = {"satori", "currency"}
  <2>1. Pays(plan) = Each(Satori)
    BY <1>3, <1>4, ConcatEmptySeq DEF Pays
  <2> QED
    BY <1>1, <1>2, <1>4, <2>1
<1>5. CASE plan.satori = <<>> /\ plan.currency = Each(Currency) /\ plan.gathers = {"currency"}
  <2>1. Pays(plan) = Each(Currency)
    BY <1>3, <1>5, ConcatEmptySeq DEF Pays
  <2> QED
    BY <1>1, <1>2, <1>5, <2>1
<1> QED
  BY <1>4, <1>5 DEF Locks

(* The estimates for locks and for payments are generous in this way.      *)
LEMMA LocksModest ==
    ASSUME Called
    PROVE  /\ Modest(produceSimpleTime) /\ Modest(produceSimpleTimeCurrency)
           /\ task.outs = 1 => Modest(producePaymentChannel)
           /\ produceSimpleTime.first = 0 /\ produceSimpleTimeCurrency.first = 0
           /\ producePaymentChannel.first = 0
           /\ "currency" \in produceSimpleTime.gathers
           /\ "currency" \in produceSimpleTimeCurrency.gathers
           /\ "currency" \in producePaymentChannel.gathers
<1>1. task.outs \in Nat /\ MemoCount \in Nat /\ task.outs > 0
  BY CallIs, MemoIs
<1>2. ASSUME NEW plan, Locks(plan), "satori" \in plan.gathers,
             plan.counts = task.outs + 2 + MemoCount
      PROVE  Modest(plan)
  <2>1. /\ Weight(Pays(plan)) \in Nat /\ Weight(plan.memo) \in Nat
        /\ Weight(Pays(plan)) <= 59 * task.outs /\ Weight(plan.memo) <= 60 * MemoCount
    BY <1>2, LocksWeigh
  <2> QED
    BY <1>1, <1>2, <2>1 DEF Modest, SatoriBack
<1>3. ASSUME NEW plan, Locks(plan), "satori" \notin plan.gathers,
             plan.counts = task.outs + 1 + MemoCount
      PROVE  Modest(plan)
  <2>1. /\ Weight(Pays(plan)) \in Nat /\ Weight(plan.memo) \in Nat
        /\ Weight(Pays(plan)) <= 34 * task.outs /\ Weight(plan.memo) <= 60 * MemoCount
    BY <1>3, LocksWeigh
  <2> QED
    BY <1>1, <1>3, <2>1 DEF Modest, SatoriBack
<1>4. /\ Locks(produceSimpleTime) /\ produceSimpleTime.counts = task.outs + 2 + MemoCount
      /\ produceSimpleTime.gathers = {"satori", "currency"} /\ produceSimpleTime.first = 0
  BY <1>1 DEF produceSimpleTime, Plan, Locks
<1>5. /\ Locks(produceSimpleTimeCurrency)
      /\ produceSimpleTimeCurrency.counts = task.outs + 1 + MemoCount
      /\ produceSimpleTimeCurrency.gathers = {"currency"} /\ produceSimpleTimeCurrency.first = 0
  BY <1>1 DEF produceSimpleTimeCurrency, Plan, Locks
<1>6. /\ Locks(producePaymentChannel) /\ producePaymentChannel.counts = 3 + MemoCount
      /\ producePaymentChannel.gathers = {"satori", "currency"} /\ producePaymentChannel.first = 0
  BY <1>1 DEF producePaymentChannel, Plan, Locks
<1>7. Modest(produceSimpleTime)
  <2>1. "satori" \in produceSimpleTime.gathers
    BY <1>4
  <2> QED
    BY <1>2, <1>4, <2>1
<1>8. Modest(produceSimpleTimeCurrency)
  <2>1. "satori" \notin produceSimpleTimeCurrency.gathers
    BY <1>5
  <2> QED
    BY <1>3, <1>5, <2>1
<1>9. task.outs = 1 => Modest(producePaymentChannel)
  <2>1. "satori" \in producePaymentChannel.gathers
    BY <1>6
  <2>2. ASSUME task.outs = 1 PROVE producePaymentChannel.counts = task.outs + 2 + MemoCount
    BY <1>1, <1>6, <2>2
  <2> QED
    BY <1>2, <1>6, <2>1, <2>2
<1>10. /\ "currency" \in produceSimpleTime.gathers
       /\ "currency" \in produceSimpleTimeCurrency.gathers
       /\ "currency" \in producePaymentChannel.gathers
  BY <1>4, <1>5, <1>6
<1> QED
  BY <1>4, <1>5, <1>6, <1>7, <1>8, <1>9, <1>10

LEMMA PaymentsModest ==
    ASSUME Called
    PROVE  /\ Modest(satoriTransaction) /\ Modest(currencyTransaction)
           /\ Modest(satoriAndCurrencyTransaction)
           /\ satoriTransaction.first = 0 /\ currencyTransaction.first = 0
           /\ satoriAndCurrencyTransaction.first = 0
           /\ "currency" \in satoriTransaction.gathers
           /\ "currency" \in currencyTransaction.gathers
           /\ "currency" \in satoriAndCurrencyTransaction.gathers
<1> DEFINE o == Satori("payee", task.amount)
           q == Currency("payee", task.amount)
<1>1. task.amount \in Int
  BY CallIs
<1>2. /\ o \in Payments /\ OutputSize(o) = 59 /\ q \in Payments /\ OutputSize(q) = 34
  <2>1. o \in Payments /\ o.asset = "satori" /\ q \in Payments /\ q.asset = "currency"
    BY <1>1, OutputIs DEF Satori, Currency, Kinds, Recipients
  <2> HIDE DEF o, q
  <2> QED
    BY <2>1 DEF OutputSize, AssetSize, OutSize
<1>3. /\ satoriTransaction.satori = <<o>> /\ satoriTransaction.currency = <<>>
      /\ satoriTransaction.memo = <<>> /\ satoriTransaction.counts = 3
      /\ satoriTransaction.gathers = {"satori", "currency"} /\ satoriTransaction.first = 0
  BY DEF satoriTransaction, Plan
<1>4. /\ currencyTransaction.satori = <<>> /\ currencyTransaction.currency = <<q>>
      /\ currencyTransaction.memo = <<>> /\ currencyTransaction.counts = 2
      /\ currencyTransaction.gathers = {"currency"} /\ currencyTransaction.first = 0
  BY DEF currencyTransaction, Plan
<1>5. /\ satoriAndCurrencyTransaction.satori = <<o>> /\ satoriAndCurrencyTransaction.currency = <<q>>
      /\ satoriAndCurrencyTransaction.memo = <<>> /\ satoriAndCurrencyTransaction.counts = 4
      /\ satoriAndCurrencyTransaction.gathers = {"satori", "currency"}
      /\ satoriAndCurrencyTransaction.first = 0
  BY DEF satoriAndCurrencyTransaction, Plan
<1> HIDE DEF o, q
<1>6. /\ <<>> \in Seq(Payments) /\ <<o>> \in Seq(Payments) /\ <<q>> \in Seq(Payments)
      /\ Weight(<<>>) = 0 /\ Weight(<<o>>) = 59 /\ Weight(<<q>>) = 34
  <2>1. Weight(<<o>>) = 59 /\ Weight(<<q>>) = 34
    BY <1>2, WeightOne
  <2>2. <<>> \in Seq(Payments) /\ <<o>> \in Seq(Payments) /\ <<q>> \in Seq(Payments)
    BY <1>2
  <2> QED
    BY <2>1, <2>2, WeightNothing
<1>7. /\ Weight(<<o>> \o <<>>) = 59 + 0 /\ Weight(<<>> \o <<q>>) = 0 + 34
      /\ Weight(<<o>> \o <<q>>) = 59 + 34
  <2>1. PICK a \in Seq(Payments), b \in Seq(Payments), e \in Seq(Payments) :
           a = <<o>> /\ b = <<q>> /\ e = <<>>
    <3>1. <<>> \in Seq(Payments) /\ <<o>> \in Seq(Payments) /\ <<q>> \in Seq(Payments)
      BY <1>6, Zenon
    <3> QED
      BY <3>1
  <2>2. /\ Weight(a \o e) = Weight(a) + Weight(e) /\ Weight(e \o b) = Weight(e) + Weight(b)
        /\ Weight(a \o b) = Weight(a) + Weight(b)
    BY WeightJoined
  <2>3. Weight(a \o e) = 59 + 0 /\ Weight(e \o b) = 0 + 34 /\ Weight(a \o b) = 59 + 34
    <3>1. Weight(a) = 59 /\ Weight(b) = 34 /\ Weight(e) = 0
      BY <1>6, <2>1, Zenon
    <3> QED
      BY <2>2, <3>1
  <2> QED
    BY <2>1, <2>3, Zenon
<1>8. Modest(satoriTransaction)
  <2>1. Weight(Pays(satoriTransaction)) = 59 /\ Weight(satoriTransaction.memo) = 0
    BY <1>3, <1>6, <1>7 DEF Pays
  <2> QED
    BY <1>3, <2>1 DEF Modest, SatoriBack
<1>9. Modest(currencyTransaction)
  <2>1. Weight(Pays(currencyTransaction)) = 34 /\ Weight(currencyTransaction.memo) = 0
    BY <1>4, <1>6, <1>7 DEF Pays
  <2>2. "satori" \notin currencyTransaction.gathers
    BY <1>4
  <2> QED
    BY <1>4, <2>1, <2>2 DEF Modest, SatoriBack
<1>10. Modest(satoriAndCurrencyTransaction)
  <2>1. /\ Weight(Pays(satoriAndCurrencyTransaction)) = 93
        /\ Weight(satoriAndCurrencyTransaction.memo) = 0
    BY <1>5, <1>6, <1>7 DEF Pays
  <2> QED
    BY <1>5, <2>1 DEF Modest, SatoriBack
<1> QED
  BY <1>3, <1>4, <1>5, <1>8, <1>9, <1>10

(* A claim's plan.                                                         *)
LEMMA ClaimsAre ==
    ASSUME NEW n
    PROVE  /\ ClaimSatori(n).claims = n /\ ClaimCurrency(n).claims = n
           /\ ClaimSatori(n).gathers = {"currency"} /\ ClaimCurrency(n).gathers = {}
           /\ ClaimCurrency(n).memo = Memo
           /\ ClaimSatori(n).settles = TRUE /\ ClaimCurrency(n).settles = TRUE
BY DEF ClaimSatori, ClaimCurrency, Plan

Distributes == task.kind \in {"satoriDistribution", "typicalNeuronBridgeTransaction"}
ClaimsCurrency == task.kind \in {"simpleTimeCurrencyTransaction",
                                 "multiTimeNotMultisigCurrencyTransaction",
                                 "paymentChannelRecallCurrencyTransaction"}
ClaimsSatori == task.kind \in {"simpleTimeTransaction", "multiTimeNotMultisigTransaction",
                               "paymentChannelRecallTransaction"}
Claimed == IF task.kind \in {"paymentChannelRecallTransaction",
                             "paymentChannelRecallCurrencyTransaction"} THEN task.outs ELSE 1

(* Which plan the kinds of calls have: one that does not settle, or a      *)
(* claim,                                                                  *)
LEMMA PlansSettle ==
    ASSUME task.kind \in Planned
    PROVE  /\ Distributes => PlanOf(task.kind).settles = FALSE
           /\ ClaimsSatori => PlanOf(task.kind) = ClaimSatori(Claimed)
           /\ ClaimsCurrency => PlanOf(task.kind) = ClaimCurrency(Claimed)
<1>1. ASSUME Distributes PROVE PlanOf(task.kind).settles = FALSE
  BY <1>1 DEF Distributes, PlanOf, satoriDistribution, produceSimpleTime, Plan
<1>2. ASSUME ClaimsSatori PROVE PlanOf(task.kind) = ClaimSatori(Claimed)
  BY <1>2 DEF ClaimsSatori, PlanOf, simpleTimeTransaction, multiTimeNotMultisigTransaction,
     paymentChannelRecallTransaction, Claimed
<1>3. ASSUME ClaimsCurrency PROVE PlanOf(task.kind) = ClaimCurrency(Claimed)
  BY <1>3 DEF ClaimsCurrency, PlanOf, simpleTimeCurrencyTransaction,
     multiTimeNotMultisigCurrencyTransaction, paymentChannelRecallCurrencyTransaction, Claimed
<1> QED
  BY <1>1, <1>2, <1>3

Other == {"produceSimpleTime", "produceMultiTimeMultisig", "producePaymentChannel",
          "produceSimpleTimeCurrency", "produceMultiTimeMultisigCurrency",
          "satoriTransaction", "currencyTransaction",
          "satoriAndCurrencyTransaction", "typicalNeuronTransaction"}

(* or a plan with a modest estimate; and there are no others.              *)
LEMMA PlansModest ==
    ASSUME Called, task.kind \in Other
    PROVE  /\ Modest(PlanOf(task.kind)) /\ PlanOf(task.kind).first = 0
           /\ "currency" \in PlanOf(task.kind).gathers
<1>1. task.outs \in Nat /\ (task.kind \notin Repeating => task.outs = 1)
  BY CallIs
<1>2. CASE task.kind \in {"produceSimpleTime", "produceMultiTimeMultisig"}
  BY <1>2, LocksModest DEF PlanOf, produceMultiTimeMultisig
<1>3. CASE task.kind \in {"produceSimpleTimeCurrency", "produceMultiTimeMultisigCurrency"}
  BY <1>3, LocksModest DEF PlanOf, produceMultiTimeMultisigCurrency
<1>4. CASE task.kind = "producePaymentChannel"
  <2>1. task.outs = 1
    BY <1>1, <1>4 DEF Repeating
  <2> QED
    BY <1>4, <2>1, LocksModest DEF PlanOf
<1>5. CASE task.kind \in {"satoriTransaction", "typicalNeuronTransaction"}
  BY <1>5, PaymentsModest DEF PlanOf
<1>6. CASE task.kind = "currencyTransaction"
  BY <1>6, PaymentsModest DEF PlanOf
<1>7. CASE task.kind = "satoriAndCurrencyTransaction"
  BY <1>7, PaymentsModest DEF PlanOf
<1> QED
  BY <1>2, <1>3, <1>4, <1>5, <1>6, <1>7 DEF Other

LEMMA KindsSplit ==
    ASSUME task.kind \in Planned
    PROVE  task.kind \in Other \/ Distributes \/ ClaimsSatori \/ ClaimsCurrency
BY DEF Planned, Other, Distributes, ClaimsSatori, ClaimsCurrency

-----------------------------------------------------------------------------
(* The plan of a call that repeats itself                                  *)

(* The parts of a plan, and the plan, are those of the call: they change   *)
(* with it only.                                                           *)
LEMMA PartsStay ==
    ASSUME UNCHANGED task
    PROVE  /\ Memo' = Memo /\ MemoCount' = MemoCount /\ Plan' = Plan
           /\ Each(Satori)' = Each(Satori) /\ Each(Currency)' = Each(Currency)
           /\ Claimed' = Claimed
<1>1. Memo' = Memo /\ MemoCount' = MemoCount
  BY DEF Memo, MemoCount
<1>2. Plan' = Plan
  BY <1>1 DEF Plan
<1>3. Each(Satori)' = Each(Satori) /\ Each(Currency)' = Each(Currency)
  BY DEF Each
<1>4. Claimed' = Claimed
  BY DEF Claimed
<1> QED
  BY <1>1, <1>2, <1>3, <1>4

LEMMA PlanStays ==
    ASSUME UNCHANGED task, task.kind \in Planned, ClaimsCurrency => override' = override
    PROVE  PlanOf(task.kind)' = PlanOf(task.kind)
<1>1. /\ Memo' = Memo /\ MemoCount' = MemoCount /\ Plan' = Plan
      /\ Each(Satori)' = Each(Satori) /\ Each(Currency)' = Each(Currency)
  BY PartsStay
<1>2. /\ produceSimpleTime' = produceSimpleTime
      /\ produceMultiTimeMultisig' = produceMultiTimeMultisig
      /\ producePaymentChannel' = producePaymentChannel
      /\ produceSimpleTimeCurrency' = produceSimpleTimeCurrency
      /\ produceMultiTimeMultisigCurrency' = produceMultiTimeMultisigCurrency
      /\ satoriDistribution' = satoriDistribution
  BY <1>1 DEF produceSimpleTime, produceMultiTimeMultisig, producePaymentChannel,
     produceSimpleTimeCurrency, produceMultiTimeMultisigCurrency, satoriDistribution
<1>3. /\ satoriTransaction' = satoriTransaction /\ currencyTransaction' = currencyTransaction
      /\ satoriAndCurrencyTransaction' = satoriAndCurrencyTransaction
  BY <1>1 DEF satoriTransaction, currencyTransaction, satoriAndCurrencyTransaction
<1>4. ASSUME NEW n PROVE ClaimSatori(n)' = ClaimSatori(n)
  BY <1>1 DEF ClaimSatori
<1>5. ASSUME NEW n, override' = override PROVE ClaimCurrency(n)' = ClaimCurrency(n)
  BY <1>1, <1>5 DEF ClaimCurrency
<1>6. CASE task.kind \in {"produceSimpleTime", "produceMultiTimeMultisig", "producePaymentChannel",
                          "produceSimpleTimeCurrency", "produceMultiTimeMultisigCurrency",
                          "satoriDistribution"}
  BY <1>2, <1>6 DEF PlanOf
<1>7. CASE task.kind \in {"satoriTransaction", "currencyTransaction",
                          "satoriAndCurrencyTransaction", "typicalNeuronTransaction"}
  BY <1>3, <1>7 DEF PlanOf
<1>8. CASE ClaimsSatori
  BY <1>4, <1>8
     DEF ClaimsSatori, PlanOf, simpleTimeTransaction, multiTimeNotMultisigTransaction,
         paymentChannelRecallTransaction
<1>9. CASE ClaimsCurrency
  <2>1. override' = override
    BY <1>9
  <2> QED
    BY <1>5, <1>9, <2>1
       DEF ClaimsCurrency, PlanOf, simpleTimeCurrencyTransaction,
           multiTimeNotMultisigCurrencyTransaction, paymentChannelRecallCurrencyTransaction
<1>10. CASE task.kind = "typicalNeuronBridgeTransaction"
  BY <1>2, <1>10 DEF PlanOf
<1> QED
  BY <1>6, <1>7, <1>8, <1>9, <1>10 DEF Planned, ClaimsSatori, ClaimsCurrency

-----------------------------------------------------------------------------
(* How the calls of one that gathers coins follow each other               *)

(* The wallet is one that the estimate is right for.                       *)
Clean(plan) == ~ Dusty /\ ~ ManyCoins /\ plan.claims = 0

(* The fee o is the bill of the k coins that a fee p, which was less,      *)
(* bought; or of k coins that paid p, which was more; or of the coins that *)
(* the fee o itself buys.                                                  *)
RisesFrom(plan, o, k, p, c) ==
    /\ Least(plan, p, k) /\ c = ChangeSize(Over(plan, p, k))
    /\ Billed(PlanBytes(plan), Signatures(plan), k, c, o) /\ 100 * p <= 99 * o
FallsFrom(plan, o, k, p, c) ==
    /\ Billed(PlanBytes(plan), Signatures(plan), k, c, o) /\ 5 * o <= 4 * p
    /\ Sums(purse)[k] >= DraftSats(plan) + p
StaysAt(plan, o, k) ==
    /\ Billed(PlanBytes(plan), Signatures(plan), k, 34, o)
    /\ Least(plan, o, k) /\ Over(plan, o, k) > 0

(* Of a call that has repeated itself t times, now with the fee o.         *)
Rises(plan, o, t) ==
    \E k \in 1..Len(purse), p \in Nat, c \in ChangeSizes : RisesFrom(plan, o, k, p, c) /\ t <= k + 1
Falls(plan, o, t) ==
    \E k \in 1..Len(purse), p \in Nat, c \in ChangeSizes :
        FallsFrom(plan, o, k, p, c) /\ t <= Len(purse) - k + 2
Stays(plan, o, t) == \E k \in 1..Len(purse) : StaysAt(plan, o, k) /\ t <= Len(purse) + 2
HasSatori(plan) == "satori" \in plan.gathers => Total(assets) >= Values(plan.satori, "satori")
GatherGoes(plan, o, t) ==
    /\ HasSatori(plan)
    /\ \/ ~ Clean(plan) /\ (t = 1 \/ Rises(plan, o, t))
       \/ Falls(plan, o, t) \/ Stays(plan, o, t)

(* A fee that does not fit is too low or too high.                         *)
LEMMA Misfits ==
    ASSUME NEW o \in Nat, NEW r \in Nat, ~ Fits(o, r)
    PROVE  100 * o <= 99 * r \/ 5 * r <= 4 * o
BY DEF Fits

(* A call with a fee buys the coins that reach it, and brings a new bill.  *)
LEMMA DraftTurns ==
    ASSUME CoinsAre, Called, NEW plan, GoodPlan(plan), "currency" \in plan.gathers,
           override > 0, ~ Draft(plan).raises,
           NEW t, t = Draft(plan).tx, NEW shorter \in {0, t.ins + t.claims},
           NEW r, r = RequiredFee(t, shorter), ~ Fits(Draft(plan).fee, r)
    PROVE  /\ \E m \in 1..Len(purse), d \in ChangeSizes :
                 Turn(Sums(purse), Len(purse), DraftSats(plan), PlanBytes(plan), Signatures(plan),
                      override, m, d, r)
           /\ HasSatori(plan)
<1>1. ~ DraftPoor(plan) /\ Draft(plan).fee = DraftFee(plan)
  BY DraftParts, Zenon
<1>2. FirstFee(plan) = override
  BY DEF FirstFee
<1>3. /\ Len(DraftCurrency(plan)) \in 1..Len(purse)
      /\ Least(plan, override, Len(DraftCurrency(plan)))
      /\ DraftFee(plan) = override
      /\ DraftLeft(plan) = Over(plan, override, Len(DraftCurrency(plan)))
  BY <1>1, <1>2, FixedDraft
<1>4. /\ Billed(PlanBytes(plan), Signatures(plan), Len(DraftCurrency(plan)),
                ChangeSize(DraftLeft(plan)), r)
      /\ ChangeSize(DraftLeft(plan)) \in ChangeSizes
  BY DraftBilled
<1>5. Turn(Sums(purse), Len(purse), DraftSats(plan), PlanBytes(plan), Signatures(plan),
           override, Len(DraftCurrency(plan)), ChangeSize(DraftLeft(plan)), r)
  BY <1>1, <1>3, <1>4, Zenon DEF Turn, Least, Over
<1>6. HasSatori(plan)
  <2>1. ASSUME "satori" \in plan.gathers PROVE Total(assets) >= Values(plan.satori, "satori")
    <3>1. ~ (Total(assets) < Values(plan.satori, "satori"))
      BY <1>1, <2>1, Zenon DEF DraftPoor
    <3>2. Total(assets) \in Int /\ Values(plan.satori, "satori") \in Int
      <4>1. Total(assets) \in Nat
        BY CoinsTotal DEF CoinsAre
      <4>2. Values(plan.satori, "satori") \in Nat
        BY DraftCoins
      <4> QED
        BY <4>1, <4>2
    <3> QED
      BY <3>1, <3>2
  <2> QED
    BY <2>1 DEF HasSatori
<1> QED
  BY <1>3, <1>4, <1>5, <1>6

(* The facts of arithmetic about a plan and the coins.                     *)
LEMMA PlanNumbers ==
    ASSUME CoinsAre, Called, NEW plan, GoodPlan(plan)
    PROVE  /\ IsSums(Sums(purse), Len(purse)) /\ DraftSats(plan) \in Int
           /\ Base(PlanBytes(plan), Signatures(plan)) /\ Signatures(plan) \in Nat
           /\ Len(purse) \in Nat /\ override \in Nat
           /\ \A k \in 0..Len(purse) : /\ Sums(purse)[k] \in Nat /\ Sums(purse)[k] <= Total(purse)
                                       /\ Signatures(plan) + k \in Nat
                                       /\ k >= 1 => Signatures(plan) + k >= 1
           /\ Total(purse) \in Nat
<1>1. IsSums(Sums(purse), Len(purse)) /\ (\A k \in 0..Len(purse) : Sums(purse)[k] <= Total(purse))
  BY CoinSums DEF CoinsAre
<1>2. DraftSats(plan) \in Int
  BY DraftCoins
<1>3. Base(PlanBytes(plan), Signatures(plan))
  BY BytesAre
<1>4. Signatures(plan) \in Nat
  BY <1>3 DEF Base
<1>5. Total(purse) \in Nat /\ Len(purse) \in Nat /\ override \in Nat
  BY CoinsTotal, CallIs DEF CoinsAre
<1>6. \A k \in 0..Len(purse) : Sums(purse)[k] \in Nat
  BY <1>1 DEF IsSums
<1> QED
  BY <1>1, <1>2, <1>3, <1>4, <1>5, <1>6

(* One turn on: from a fee that rose,                                      *)
LEMMA RisesOn ==
    ASSUME CoinsAre, Called, NEW plan, GoodPlan(plan), NEW t \in Nat, Rises(plan, override, t),
           NEW m \in 1..Len(purse), NEW d \in ChangeSizes, NEW r,
           Turn(Sums(purse), Len(purse), DraftSats(plan), PlanBytes(plan), Signatures(plan),
                override, m, d, r)
    PROVE  Rises(plan, r, t + 1)
<1>1. PICK k \in 1..Len(purse), p \in Nat, c \in ChangeSizes :
          RisesFrom(plan, override, k, p, c) /\ t <= k + 1
  BY DEF Rises
<1>2. /\ Cut(Sums(purse), Len(purse), DraftSats(plan) + p, k)
      /\ c = ChangeSize(Sums(purse)[k] - DraftSats(plan) - p)
      /\ Billed(PlanBytes(plan), Signatures(plan), k, c, override) /\ 100 * p <= 99 * override
  BY <1>1, Zenon DEF RisesFrom, Least, Over
<1>3. Signatures(plan) + k >= 1 /\ Len(purse) \in Nat /\ override \in Nat
  BY PlanNumbers
<1>4. m > k /\ 100 * override <= 99 * r
  BY <1>2, <1>3, PlanNumbers, GoesUp
<1>5. RisesFrom(plan, r, m, override, d)
  BY <1>4, Zenon DEF RisesFrom, Turn, Least, Over
<1>6. t + 1 <= m + 1
  BY <1>1, <1>3, <1>4
<1> QED
  BY <1>3, <1>5, <1>6 DEF Rises

(* from one that fell,                                                     *)
LEMMA FallsOn ==
    ASSUME CoinsAre, Called, NEW plan, GoodPlan(plan), NEW t \in Nat, Falls(plan, override, t),
           NEW m \in 1..Len(purse), NEW d \in ChangeSizes, NEW r,
           Turn(Sums(purse), Len(purse), DraftSats(plan), PlanBytes(plan), Signatures(plan),
                override, m, d, r)
    PROVE  Falls(plan, r, t + 1) \/ Stays(plan, r, t + 1)
<1>1. PICK k \in 1..Len(purse), p \in Nat, c \in ChangeSizes :
          FallsFrom(plan, override, k, p, c) /\ t <= Len(purse) - k + 2
  BY DEF Falls
<1>2. /\ Billed(PlanBytes(plan), Signatures(plan), k, c, override) /\ 5 * override <= 4 * p
      /\ Sums(purse)[k] >= DraftSats(plan) + p
  BY <1>1, Zenon DEF FallsFrom
<1>3. Signatures(plan) + k >= 1 /\ Len(purse) \in Nat /\ override \in Nat /\ k \in 0..Len(purse)
  BY PlanNumbers
<1>4. \/ m < k /\ 5 * r <= 4 * override /\ Sums(purse)[m] >= DraftSats(plan) + override
      \/ /\ m = k /\ d = 34 /\ Cut(Sums(purse), Len(purse), DraftSats(plan) + r, k)
         /\ Sums(purse)[k] > DraftSats(plan) + r
  BY <1>2, <1>3, PlanNumbers, GoesDown
<1>5. Billed(PlanBytes(plan), Signatures(plan), m, d, r)
  BY Zenon DEF Turn
<1>6. CASE m < k /\ 5 * r <= 4 * override /\ Sums(purse)[m] >= DraftSats(plan) + override
  <2>1. FallsFrom(plan, r, m, override, d)
    BY <1>5, <1>6, Zenon DEF FallsFrom
  <2>2. t + 1 <= Len(purse) - m + 2
    BY <1>1, <1>3, <1>6
  <2> QED
    BY <1>3, <2>1, <2>2 DEF Falls
<1>7. CASE /\ m = k /\ d = 34 /\ Cut(Sums(purse), Len(purse), DraftSats(plan) + r, k)
           /\ Sums(purse)[k] > DraftSats(plan) + r
  <2>1. Over(plan, r, m) > 0
    <3>1. Sums(purse)[k] \in Nat /\ DraftSats(plan) \in Int
      BY <1>3, PlanNumbers
    <3>2. r \in Nat
      BY <1>5, PlanNumbers, BilledIs
    <3> QED
      BY <1>7, <3>1, <3>2 DEF Over
  <2>2. StaysAt(plan, r, m)
    BY <1>5, <1>7, <2>1, Zenon DEF StaysAt, Least
  <2>3. t + 1 <= Len(purse) + 2
    BY <1>1, <1>3
  <2> QED
    BY <2>2, <2>3 DEF Stays
<1> QED
  BY <1>4, <1>6, <1>7

(* and none from one whose coins stay.                                     *)
LEMMA StaysOn ==
    ASSUME CoinsAre, Called, NEW plan, GoodPlan(plan), NEW t \in Nat, Stays(plan, override, t),
           NEW m \in 1..Len(purse), NEW d \in ChangeSizes, NEW r,
           Turn(Sums(purse), Len(purse), DraftSats(plan), PlanBytes(plan), Signatures(plan),
                override, m, d, r)
    PROVE  FALSE
<1>1. PICK k \in 1..Len(purse) : StaysAt(plan, override, k)
  BY DEF Stays
<1>2. /\ Billed(PlanBytes(plan), Signatures(plan), k, 34, override)
      /\ Cut(Sums(purse), Len(purse), DraftSats(plan) + override, k)
      /\ Over(plan, override, k) > 0
  BY <1>1, Zenon DEF StaysAt, Least
<1>3. /\ Len(purse) \in Nat /\ override \in Nat /\ k \in 0..Len(purse)
      /\ Sums(purse)[k] \in Nat /\ DraftSats(plan) \in Int
  BY PlanNumbers
<1>4. Sums(purse)[k] > DraftSats(plan) + override
  BY <1>2, <1>3 DEF Over
<1>5. IsSums(Sums(purse), Len(purse)) /\ Base(PlanBytes(plan), Signatures(plan))
  BY PlanNumbers
<1> QED
  BY <1>2, <1>3, <1>4, <1>5, StaysPut

(* The second call of a wallet of any kind.                                *)
LEMMA StartsOn ==
    ASSUME CoinsAre, Called, NEW plan, GoodPlan(plan),
           NEW m \in 1..Len(purse), NEW d \in ChangeSizes, NEW r,
           Turn(Sums(purse), Len(purse), DraftSats(plan), PlanBytes(plan), Signatures(plan),
                override, m, d, r)
    PROVE  Rises(plan, r, 2) \/ Falls(plan, r, 2)
<1>1. /\ Cut(Sums(purse), Len(purse), DraftSats(plan) + override, m)
      /\ d = ChangeSize(Sums(purse)[m] - DraftSats(plan) - override)
      /\ Billed(PlanBytes(plan), Signatures(plan), m, d, r) /\ ~ Fits(override, r)
  BY Zenon DEF Turn
<1>2. Len(purse) \in Nat /\ override \in Nat /\ Base(PlanBytes(plan), Signatures(plan))
  BY PlanNumbers
<1>3. r \in Nat
  BY <1>1, <1>2, BilledIs
<1>4. CASE 100 * override <= 99 * r
  <2>1. RisesFrom(plan, r, m, override, d)
    BY <1>1, <1>4, Zenon DEF RisesFrom, Least, Over
  <2>2. 2 <= m + 1
    OBVIOUS
  <2> QED
    BY <1>2, <2>1, <2>2 DEF Rises
<1>5. CASE 5 * r <= 4 * override
  <2>1. Sums(purse)[m] >= DraftSats(plan) + override
    BY <1>1 DEF Cut
  <2>2. FallsFrom(plan, r, m, override, d)
    BY <1>1, <1>5, <2>1, Zenon DEF FallsFrom
  <2>3. 2 <= Len(purse) - m + 2
    BY <1>2
  <2> QED
    BY <1>2, <2>2, <2>3 DEF Falls
<1> QED
  BY <1>1, <1>2, <1>3, <1>4, <1>5, Misfits

(* A call that repeats itself again goes on as it did.                     *)
LEMMA GatherNext ==
    ASSUME CoinsAre, Called, NEW plan, GoodPlan(plan), "currency" \in plan.gathers,
           override > 0, ~ Draft(plan).raises, NEW n \in Nat, GatherGoes(plan, override, n),
           NEW t, t = Draft(plan).tx, NEW shorter \in {0, t.ins + t.claims},
           NEW r, r = RequiredFee(t, shorter), ~ Fits(Draft(plan).fee, r)
    PROVE  GatherGoes(plan, r, n + 1)
<1>1. /\ \E m \in 1..Len(purse), d \in ChangeSizes :
                 Turn(Sums(purse), Len(purse), DraftSats(plan), PlanBytes(plan), Signatures(plan),
                      override, m, d, r)
      /\ HasSatori(plan)
  BY DraftTurns
<1>2. PICK m \in 1..Len(purse), d \in ChangeSizes :
          Turn(Sums(purse), Len(purse), DraftSats(plan), PlanBytes(plan), Signatures(plan),
               override, m, d, r)
  BY <1>1
<1>3. CASE ~ Clean(plan) /\ n = 1
  <2>1. Rises(plan, r, 2) \/ Falls(plan, r, 2)
    BY <1>2, StartsOn
  <2>2. Rises(plan, r, n + 1) \/ Falls(plan, r, n + 1)
    BY <1>3, <2>1
  <2> QED
    BY <1>1, <1>3, <2>2, Zenon DEF GatherGoes
<1>4. CASE ~ Clean(plan) /\ Rises(plan, override, n)
  <2>1. Rises(plan, r, n + 1)
    BY <1>2, <1>4, RisesOn
  <2> QED
    BY <1>1, <1>4, <2>1, Zenon DEF GatherGoes
<1>5. CASE Falls(plan, override, n)
  <2>1. Falls(plan, r, n + 1) \/ Stays(plan, r, n + 1)
    BY <1>2, <1>5, FallsOn
  <2> QED
    BY <1>1, <2>1, Zenon DEF GatherGoes
<1>6. CASE Stays(plan, override, n)
  BY <1>2, <1>6, StaysOn
<1> QED
  BY <1>3, <1>4, <1>5, <1>6, Zenon DEF GatherGoes

(* In a wallet that the estimate is right for it can pay the bill.         *)
LEMMA GatherPays ==
    ASSUME CoinsAre, Called, NEW plan, GoodPlan(plan), "currency" \in plan.gathers, Clean(plan),
           override > 0, NEW n \in Nat, GatherGoes(plan, override, n)
    PROVE  ~ Draft(plan).raises
<1>1. /\ Len(purse) \in Nat /\ override \in Nat /\ Total(purse) \in Nat /\ DraftSats(plan) \in Int
      /\ \A k \in 0..Len(purse) : Sums(purse)[k] \in Nat /\ Sums(purse)[k] <= Total(purse)
  BY PlanNumbers
<1>2. Total(purse) >= DraftSats(plan) + override
  <2>1. CASE Falls(plan, override, n)
    <3>1. PICK k \in 1..Len(purse), p \in Nat, c \in ChangeSizes : FallsFrom(plan, override, k, p, c)
      BY <2>1 DEF Falls
    <3>2. 5 * override <= 4 * p /\ Sums(purse)[k] >= DraftSats(plan) + p
      BY <3>1, Zenon DEF FallsFrom
    <3>3. Sums(purse)[k] \in Nat /\ Sums(purse)[k] <= Total(purse)
      BY <1>1
    <3> QED
      BY <1>1, <3>2, <3>3
  <2>2. CASE Stays(plan, override, n)
    <3>1. PICK k \in 1..Len(purse) : StaysAt(plan, override, k)
      BY <2>2 DEF Stays
    <3>2. Sums(purse)[k] >= DraftSats(plan) + override
      BY <3>1, Zenon DEF StaysAt, Least, Cut
    <3>3. Sums(purse)[k] \in Nat /\ Sums(purse)[k] <= Total(purse)
      BY <1>1
    <3> QED
      BY <1>1, <3>2, <3>3
  <2> QED
    BY <2>1, <2>2, Zenon DEF GatherGoes
<1>3. FirstFee(plan) = override
  BY DEF FirstFee
<1>4. ~ DraftPoor(plan)
  <2>1. ASSUME "satori" \in plan.gathers PROVE ~ (Total(assets) < Values(plan.satori, "satori"))
    <3>1. Total(assets) >= Values(plan.satori, "satori")
      BY <2>1, Zenon DEF GatherGoes, HasSatori
    <3>2. Total(assets) \in Nat
      BY CoinsTotal DEF CoinsAre
    <3>3. Values(plan.satori, "satori") \in Nat
      BY DraftCoins
    <3> QED
      BY <3>1, <3>2, <3>3
  <2>2. ~ (Total(purse) < DraftSats(plan) + override)
    BY <1>1, <1>2
  <2>3. (IF FirstFee(plan) > 0 THEN FirstFee(plan) ELSE Reserve) = override
    BY <1>3
  <2> QED
    BY <2>1, <2>2, <2>3 DEF DraftPoor
<1>5. DraftLeft(plan) >= 0 /\ DraftLeft(plan) \in Int
  BY <1>3, <1>4, FixedDraft, DraftCoins
<1>6. ~ (DraftLeft(plan) < 0)
  BY <1>5
<1> QED
  BY <1>4, <1>6, DraftParts, Zenon

(* And it has repeated itself no more often than it has coins, and twice.  *)
LEMMA GatherFew ==
    ASSUME CoinsAre, NEW plan, NEW o, NEW t \in Nat, GatherGoes(plan, o, t)
    PROVE  t <= Len(purse) + 2
<1>1. Len(purse) \in Nat
  BY DEF CoinsAre
<1>2. CASE t = 1
  BY <1>1, <1>2
<1>3. CASE Rises(plan, o, t)
  BY <1>1, <1>3 DEF Rises
<1>4. CASE Falls(plan, o, t)
  BY <1>1, <1>4 DEF Falls
<1>5. CASE Stays(plan, o, t)
  BY <1>1, <1>5 DEF Stays
<1> QED
  BY <1>2, <1>3, <1>4, <1>5, Zenon DEF GatherGoes

(* What a call gathers of its SATORI is some of it, and enough.            *)
LEMMA SatoriFew ==
    ASSUME CoinsAre, NEW plan
    PROVE  Len(DraftSatori(plan)) \in 0..Len(assets)
<1>1. assets \in Seq(Nat) /\ Len(assets) \in Nat
  BY DEF CoinsAre
<1>2. CASE "satori" \in plan.gathers
  <2> DEFINE need == [n \in 0..Len(assets) |-> Values(plan.satori, "satori")]
  <2>1. DraftSatori(plan) = Taken(assets, need)
    BY <1>2 DEF DraftSatori, GatherSatori
  <2> HIDE DEF need
  <2>2. \E k \in 0..Len(assets) : Len(Taken(assets, need)) = k
    BY <1>1, TakenSums
  <2> QED
    BY <2>1, <2>2
<1>3. CASE "satori" \notin plan.gathers
  <2>1. DraftSatori(plan) = <<>>
    BY <1>3 DEF DraftSatori
  <2> QED
    BY <1>1, <2>1
<1> QED
  BY <1>2, <1>3

(* A draft that does not fail has found the satori that its plan names.    *)
LEMMA SatoriThere ==
    ASSUME CoinsAre, Called, NEW plan, GoodPlan(plan), ~ Draft(plan).raises
    PROVE  HasSatori(plan)
<1> SUFFICES ASSUME "satori" \in plan.gathers
             PROVE  Total(assets) >= Values(plan.satori, "satori")
  BY DEF HasSatori
<1>1. ~ DraftPoor(plan)
  BY DraftParts, Zenon
<1>2. ~ (Total(assets) < Values(plan.satori, "satori"))
  BY <1>1, Zenon DEF DraftPoor
<1>3. Total(assets) \in Nat
  BY CoinsTotal DEF CoinsAre
<1>4. Values(plan.satori, "satori") \in Nat
  BY DraftCoins
<1> QED
  BY <1>2, <1>3, <1>4

(* What a draft weighs but for its coins.                                  *)
LEMMA RestWeighs ==
    ASSUME CoinsAre, Called, NEW plan, GoodPlan(plan)
    PROVE  Rest(plan) <= Weight(Pays(plan)) + SatoriBack(plan) + Weight(plan.memo)
<1>1. /\ Weight(Pays(plan)) \in Nat /\ Weight(plan.memo) \in Nat
      /\ Weight(Change("satori", DraftOver(plan))) \in 0..59
  BY BytesAre
<1>2. CASE "satori" \in plan.gathers
  BY <1>1, <1>2 DEF Rest, SatoriBack
<1>3. CASE "satori" \notin plan.gathers
  <2>1. DraftOver(plan) = 0
    BY <1>3 DEF DraftOver, DraftSatori
  <2>2. Change("satori", DraftOver(plan)) = <<>>
    BY <2>1 DEF Change
  <2>3. Weight(Change("satori", DraftOver(plan))) = 0
    BY <2>2, WeightNothing
  <2> QED
    BY <1>1, <1>3, <2>3 DEF Rest, SatoriBack
<1> QED
  BY <1>2, <1>3

(* The first bill is lower than the estimate.                              *)
LEMMA FirstBill ==
    ASSUME CoinsAre, Called, NEW plan, GoodPlan(plan), Modest(plan), Clean(plan),
           NEW k \in 0..Len(purse), NEW c \in ChangeSizes,
           NEW r, Billed(PlanBytes(plan), Signatures(plan), k, c, r),
           NEW fee, fee = PerItem * (Len(DraftSatori(plan)) + k + plan.counts), ~ Fits(fee, r)
    PROVE  5 * r <= 4 * fee /\ fee \in Nat
<1>1. PICK s : s = Len(DraftSatori(plan))
  OBVIOUS
<1>2. PICK e : e = Rest(plan)
  OBVIOUS
<1>3. PICK y : y = Weight(Pays(plan))
  OBVIOUS
<1>4. PICK z : z = SatoriBack(plan)
  OBVIOUS
<1>5. PICK v : v = Weight(plan.memo)
  OBVIOUS
<1>6. PICK q : q = plan.counts
  OBVIOUS
<1>7. PICK b : b = PlanBytes(plan)
  OBVIOUS
<1>8. s \in 0..Len(assets) /\ s \in Nat /\ e \in Nat /\ y \in Nat /\ v \in Nat
  <2>1. s \in 0..Len(assets)
    BY <1>1, SatoriFew
  <2>2. s \in Nat /\ e \in Nat /\ y \in Nat /\ v \in Nat
    BY <1>1, <1>2, <1>3, <1>5, BytesAre
  <2> QED
    BY <2>1, <2>2
<1>9. z \in Nat
  BY <1>4 DEF SatoriBack
<1>10. q \in Nat
  <2>1. Sourced(plan)
    BY DEF GoodPlan
  <2> QED
    BY <1>6, <2>1 DEF Sourced
<1>11. e <= y + z + v
  BY <1>2, <1>3, <1>4, <1>5, RestWeighs
<1>12. 1089 * (44 + y + z + v) + 178752 < 150000 * q
  BY <1>3, <1>4, <1>5, <1>6 DEF Modest
<1>13. b = 10 + 148 * s + e
  <2>1. plan.claims = 0
    BY Zenon DEF Clean
  <2>2. b = 10 + 148 * s + 260 * 0 + e
    BY <1>1, <1>2, <1>7, <2>1, Zenon DEF PlanBytes
  <2> QED
    BY <1>8, <2>2
<1>14. s + k <= 16 /\ k \in Nat
  <2>1. ~ (Len(purse) + Len(assets) > 16)
    BY Zenon DEF Clean, ManyCoins
  <2>2. Len(purse) \in Nat /\ Len(assets) \in Nat
    BY DEF CoinsAre
  <2> QED
    BY <1>8, <2>1, <2>2
<1>15. r \in Nat /\ r <= 11 * (b + 148 * k + 34)
  <2>1. c \in 0..34
    BY DEF ChangeSizes
  <2>2. Base(PlanBytes(plan), Signatures(plan))
    BY BytesAre
  <2>3. r \in Nat /\ r <= 11 * (PlanBytes(plan) + 148 * k + c)
    BY <1>14, <2>2, BilledIs
  <2>4. r <= 11 * (b + 148 * k + c)
    BY <1>7, <2>3
  <2>5. b \in Nat
    BY <1>8, <1>13
  <2> QED
    BY <1>14, <2>1, <2>3, <2>4, <2>5
<1>16. r <= 11 * (10 + 148 * s + e + 148 * k + 34)
  BY <1>13, <1>15
<1>17. fee = 1500 * (s + k + q)
  BY <1>1, <1>6 DEF PerItem
<1>18. fee \in Nat
  BY <1>8, <1>10, <1>14, <1>17
<1>19. 99 * r < 100 * fee
  BY <1>8, <1>9, <1>10, <1>11, <1>12, <1>14, <1>15, <1>16, <1>17
<1> QED
  BY <1>15, <1>18, <1>19 DEF Fits

(* A call that repeats itself for the first time begins one of these ways. *)
LEMMA GatherStarts ==
    ASSUME CoinsAre, Called, NEW plan, GoodPlan(plan), "currency" \in plan.gathers,
           plan.claims = 0 => Modest(plan) /\ plan.first = 0,
           override = 0, ~ Draft(plan).raises,
           NEW t, t = Draft(plan).tx, NEW shorter \in {0, t.ins + t.claims},
           NEW r, r = RequiredFee(t, shorter), ~ Fits(Draft(plan).fee, r)
    PROVE  GatherGoes(plan, r, 1)
<1>1. HasSatori(plan)
  BY SatoriThere
<1>2. CASE ~ Clean(plan)
  BY <1>1, <1>2 DEF GatherGoes
<1>3. CASE Clean(plan)
  <2>1. ~ DraftPoor(plan) /\ ~ (DraftLeft(plan) < 0) /\ Draft(plan).fee = DraftFee(plan)
    BY DraftParts, Zenon
  <2>2. plan.first = 0 /\ Modest(plan) /\ FirstFee(plan) = 0
    <3>1. plan.claims = 0
      BY <1>3, Zenon DEF Clean
    <3> QED
      BY <3>1 DEF FirstFee
  <2>3. DraftLeft(plan) >= 0
    <3>1. DraftLeft(plan) \in Int
      BY DraftCoins
    <3> QED
      BY <2>1, <3>1
  <2>4. ~ Dusty
    BY <1>3, Zenon DEF Clean
  <2>5. /\ Len(DraftCurrency(plan)) \in 1..Len(purse)
        /\ DraftFee(plan) = 1500 * (Len(DraftSatori(plan)) + Len(DraftCurrency(plan)) + plan.counts)
        /\ Sums(purse)[Len(DraftCurrency(plan))] >= DraftSats(plan) + DraftFee(plan)
    BY <2>1, <2>2, <2>3, <2>4, FirstDraft
  <2>6. /\ Billed(PlanBytes(plan), Signatures(plan), Len(DraftCurrency(plan)),
                  ChangeSize(DraftLeft(plan)), r)
        /\ ChangeSize(DraftLeft(plan)) \in ChangeSizes
    BY DraftBilled
  <2>7. PICK k : k = Len(DraftCurrency(plan))
    OBVIOUS
  <2>8. PICK c : c = ChangeSize(DraftLeft(plan))
    OBVIOUS
  <2>9. PICK fee : fee = DraftFee(plan)
    OBVIOUS
  <2>10. k \in 1..Len(purse) /\ Len(purse) \in Nat /\ k \in 0..Len(purse)
    BY <2>5, <2>7 DEF CoinsAre
  <2>11. /\ c \in ChangeSizes /\ Billed(PlanBytes(plan), Signatures(plan), k, c, r)
         /\ Sums(purse)[k] >= DraftSats(plan) + fee /\ ~ Fits(fee, r)
    <3>1. Billed(PlanBytes(plan), Signatures(plan), k, c, r)
      BY <2>6, <2>7, <2>8, Zenon
    <3>2. Sums(purse)[k] >= DraftSats(plan) + fee
      BY <2>5, <2>7, <2>9
    <3>3. Draft(plan).fee = fee
      BY <2>1, <2>9, Zenon
    <3>4. ~ Fits(fee, r)
      BY <3>3, Zenon
    <3>5. c \in ChangeSizes
      BY <2>6, <2>8, Zenon
    <3> QED
      BY <3>1, <3>2, <3>4, <3>5
  <2>12. fee = PerItem * (Len(DraftSatori(plan)) + k + plan.counts)
    BY <2>5, <2>7, <2>9 DEF PerItem
  <2>13. 5 * r <= 4 * fee /\ fee \in Nat
    BY <1>3, <2>2, <2>10, <2>11, <2>12, FirstBill
  <2>14. FallsFrom(plan, r, k, fee, c)
    BY <2>11, <2>13, Zenon DEF FallsFrom
  <2>15. 1 <= Len(purse) - k + 2
    BY <2>10
  <2>16. Falls(plan, r, 1)
    BY <2>10, <2>11, <2>13, <2>14, <2>15 DEF Falls
  <2> QED
    BY <1>1, <2>16, Zenon DEF GatherGoes
<1> QED
  BY <1>2, <1>3

-----------------------------------------------------------------------------
(* A claim of currency                                                     *)

(* It gathers nothing; its fee changes only whether something is left to   *)
(* pay out, and so it repeats itself twice at most.                        *)
ClaimBytes(n) == 10 + 260 * n + Weight(Memo)
ClaimGoes(n, o, t) ==
    \E c \in ChangeSizes : Billed(ClaimBytes(n), n, 0, c, o) /\ t <= 2 /\ (c = 0 => t = 1)

(* A claim of currency never fails, and has no coins and no change of its  *)
(* own.                                                                    *)
LEMMA ClaimDrafts ==
    ASSUME CoinsAre, Called, NEW n \in Nat, n > 0, NEW plan, plan = ClaimCurrency(n)
    PROVE  /\ GoodPlan(plan) /\ ~ Draft(plan).raises
           /\ override > 0 => Draft(plan).fee = override
           /\ DraftSatori(plan) = <<>> /\ DraftCurrency(plan) = <<>>
           /\ DraftLeft(plan) = 0 /\ DraftOver(plan) = 0
<1>1. GoodPlan(plan)
  BY claimCurrencyGood
<1>2. plan.gathers = {} /\ plan.claims = n
  BY ClaimsAre
<1>3. DraftSatori(plan) = <<>> /\ DraftCurrency(plan) = <<>>
  BY <1>2 DEF DraftSatori, DraftCurrency
<1>4. DraftLeft(plan) = 0 /\ DraftOver(plan) = 0
  BY <1>3 DEF DraftLeft, DraftOver
<1>5. ~ DraftPoor(plan)
  BY <1>2 DEF DraftPoor
<1>6. ~ (DraftLeft(plan) < 0)
  BY <1>4
<1>7. ~ Draft(plan).raises
  BY <1>5, <1>6, DraftParts, Zenon
<1>8. override > 0 => Draft(plan).fee = override
  <2>1. Draft(plan).fee = DraftFee(plan)
    BY DraftParts, Zenon
  <2>2. override > 0 => DraftFee(plan) = override
    BY DEF DraftFee, Fee, FirstFee
  <2> QED
    BY <2>1, <2>2
<1> QED
  BY <1>1, <1>3, <1>4, <1>7, <1>8

(* What it is billed; how it begins, and how it goes on.                   *)
LEMMA ClaimBilled ==
    ASSUME CoinsAre, Called, NEW n \in Nat, n > 0, NEW plan, plan = ClaimCurrency(n),
           NEW t, t = Draft(plan).tx, NEW shorter \in {0, t.ins + t.claims}
    PROVE  \E d \in ChangeSizes : Billed(ClaimBytes(n), n, 0, d, RequiredFee(t, shorter))
<1>1. /\ GoodPlan(plan) /\ DraftSatori(plan) = <<>> /\ DraftCurrency(plan) = <<>>
      /\ DraftLeft(plan) = 0 /\ DraftOver(plan) = 0
  BY ClaimDrafts
<1>2. Billed(PlanBytes(plan), Signatures(plan), Len(DraftCurrency(plan)),
             ChangeSize(DraftLeft(plan)), RequiredFee(t, shorter))
  BY <1>1, DraftBilled
<1>3. Len(DraftCurrency(plan)) = 0 /\ Len(DraftSatori(plan)) = 0 /\ ChangeSize(DraftLeft(plan)) = 0
  BY <1>1 DEF ChangeSize
<1>4. plan.claims = n /\ plan.memo = Memo
  BY ClaimsAre
<1>5. Signatures(plan) = n
  BY <1>3, <1>4 DEF Signatures
<1>6. PICK d \in ChangeSizes : d = Weight(Pays(plan))
  <2> DEFINE left == n * task.amount - (IF override > 0 THEN override ELSE DefaultFee)
             o == Currency("payee", left)
  <2>1. plan.satori = <<>> /\ plan.currency = IF left = 0 THEN <<>> ELSE <<o>>
    BY DEF ClaimCurrency, Plan
  <2>2. left \in Int
    BY CallIs DEF DefaultFee
  <2>3. o \in Payments /\ o.asset = "currency"
    <3>1. "payee" \in Recipients /\ "currency" \in Kinds \cup {"memo"}
      BY DEF Recipients, Kinds
    <3> QED
      BY <2>2, <3>1, OutputIs DEF Currency
  <2> HIDE DEF left, o
  <2>4. Weight(<<o>>) = 34
    <3>1. OutputSize(o) = 34
      BY <2>3 DEF OutputSize, OutSize
    <3> QED
      BY <2>3, <3>1, WeightOne
  <2>5. Pays(plan) = plan.currency
    <3>1. plan.currency \in Seq(Payments)
      BY <1>1, BytesAre
    <3> QED
      BY <2>1, <3>1, ConcatEmptySeq DEF Pays
  <2>6. Weight(Pays(plan)) \in ChangeSizes
    <3>1. CASE left = 0
      <4>1. Pays(plan) = <<>>
        BY <2>1, <2>5, <3>1
      <4> QED
        BY <4>1, WeightNothing DEF ChangeSizes
    <3>2. CASE left # 0
      <4>1. Pays(plan) = <<o>>
        BY <2>1, <2>5, <3>2
      <4> QED
        BY <2>4, <4>1 DEF ChangeSizes
    <3> QED
      BY <3>1, <3>2
  <2> QED
    BY <2>6
<1>7. Rest(plan) = d + Weight(Memo) /\ Weight(Memo) \in Nat /\ d \in Nat
  <2>1. Weight(Change("satori", DraftOver(plan))) = 0
    <3>1. Change("satori", DraftOver(plan)) = <<>>
      BY <1>1 DEF Change
    <3> QED
      BY <3>1, WeightNothing
  <2>2. Weight(Memo) \in Nat
    BY MemoWeighs
  <2>3. d \in Nat
    BY DEF ChangeSizes
  <2>4. Rest(plan) = d + 0 + Weight(Memo)
    BY <1>4, <1>6, <2>1, Zenon DEF Rest
  <2> QED
    BY <2>2, <2>3, <2>4
<1>8. PlanBytes(plan) = 10 + 148 * 0 + 260 * n + Rest(plan)
  BY <1>3, <1>4, Zenon DEF PlanBytes
<1>9. Billed(PlanBytes(plan), n, 0, 0, RequiredFee(t, shorter))
  BY <1>2, <1>3, <1>5, Zenon
<1>10. PICK u \in {0, n + 0} : RequiredFee(t, shorter) = 11 * (PlanBytes(plan) + 148 * 0 + 0 - u)
  BY <1>9 DEF Billed
<1>11. RequiredFee(t, shorter) = 11 * (ClaimBytes(n) + 148 * 0 + d - u)
  BY <1>7, <1>8, <1>10 DEF ClaimBytes
<1>12. Billed(ClaimBytes(n), n, 0, d, RequiredFee(t, shorter))
  BY <1>10, <1>11 DEF Billed
<1> QED
  BY <1>12

LEMMA ClaimStarts ==
    ASSUME CoinsAre, Called, NEW n \in Nat, n > 0, NEW plan, plan = ClaimCurrency(n),
           NEW t, t = Draft(plan).tx, NEW shorter \in {0, t.ins + t.claims}
    PROVE  ClaimGoes(n, RequiredFee(t, shorter), 1)
BY ClaimBilled DEF ClaimGoes

LEMMA ClaimNext ==
    ASSUME CoinsAre, Called, NEW n \in Nat, n > 0, NEW plan, plan = ClaimCurrency(n),
           NEW t, t = Draft(plan).tx, NEW shorter \in {0, t.ins + t.claims},
           NEW r, r = RequiredFee(t, shorter), ~ Fits(Draft(plan).fee, r),
           override > 0, NEW m \in Nat, ClaimGoes(n, override, m)
    PROVE  ClaimGoes(n, r, m + 1)
<1>1. PICK d \in ChangeSizes : Billed(ClaimBytes(n), n, 0, d, r)
  BY ClaimBilled
<1>2. PICK c \in ChangeSizes : /\ Billed(ClaimBytes(n), n, 0, c, override)
                               /\ m <= 2 /\ (c = 0 => m = 1)
  BY DEF ClaimGoes
<1>3. ~ Fits(override, r)
  <2>1. Draft(plan).fee = override
    BY ClaimDrafts
  <2> QED
    BY <2>1, Zenon
<1>4. Base(ClaimBytes(n), n)
  <2>1. Weight(Memo) \in Nat
    BY MemoWeighs
  <2> QED
    BY <2>1 DEF Base, ClaimBytes
<1>5. c # d
  BY <1>1, <1>2, <1>3, <1>4, SameBills
<1>6. ~ (c = 34 /\ d = 0)
  <2>1. n + 0 >= 1
    OBVIOUS
  <2> QED
    BY <1>1, <1>2, <1>3, <1>4, <2>1, ChangeDropped
<1>7. c = 0 /\ d = 34
  BY <1>5, <1>6 DEF ChangeSizes
<1>8. m + 1 <= 2
  BY <1>2, <1>7
<1> QED
  BY <1>1, <1>7, <1>8 DEF ClaimGoes

-----------------------------------------------------------------------------
(* A sweep                                                                 *)

(* It spends every coin, so that its fee changes only whether something is *)
(* left: it repeats itself twice at most.                                  *)
Coins == Len(assets) + Len(purse)
SweptSatori == IF assets # <<>> THEN 59 ELSE 0
SweepBytes == 10 + 148 * Coins + SweptSatori
SweepFee == IF override > 0 THEN override ELSE PerItem * (Len(assets) + Len(purse) + 2)
SweepLeft == Total(purse) - SweepFee
SweepRaises == balance.currency < Reserve \/ SweepLeft < 0
Affords(o, c) ==
    /\ balance.currency >= Reserve /\ o <= Total(purse)
    /\ c = 0 => \E p \in Nat : 5 * o <= 4 * p /\ p <= Total(purse)
SweepGoes(o, t) ==
    \E c \in ChangeSizes :
        /\ Billed(SweepBytes, Coins, 0, c, o) /\ Coins > 0 /\ t <= 2 /\ (c = 0 => t = 1)
        /\ ~ Dusty /\ ~ ManyCoins => Affords(o, c)

(* What is counted of a sweep are numbers.                                 *)
LEMMA SweepNumbers ==
    ASSUME CoinsAre, BalanceIs, Called
    PROVE  /\ Coins \in Nat /\ SweptSatori \in 0..59 /\ Base(SweepBytes, Coins)
           /\ SweepFee \in Nat /\ SweepLeft \in Int /\ Total(purse) \in Nat /\ SweepBytes \in Nat
           /\ balance.currency \in Nat /\ Reserve \in Nat
           /\ override = 0 => SweepFee = 1500 * (Coins + 2)
           /\ override > 0 => SweepFee = override
           /\ Coins = 0 => Total(purse) = 0
<1>1. /\ Len(assets) \in Nat /\ Len(purse) \in Nat /\ Total(purse) \in Nat
      /\ (purse = <<>> => Total(purse) = 0)
  BY CoinsTotal DEF CoinsAre
<1>2. Coins \in Nat
  BY <1>1 DEF Coins
<1>3. SweptSatori \in 0..59
  BY DEF SweptSatori
<1>4. SweepBytes \in Nat /\ Base(SweepBytes, Coins)
  BY <1>2, <1>3 DEF SweepBytes, Base
<1>5. override \in Nat /\ Reserve \in Nat /\ balance.currency \in Nat
  BY CallIs DEF BalanceIs
<1>6. SweepFee \in Nat
  BY <1>1, <1>5 DEF SweepFee, PerItem
<1>7. SweepLeft \in Int
  BY <1>1, <1>6 DEF SweepLeft
<1>8. override = 0 => SweepFee = 1500 * (Coins + 2)
  BY DEF SweepFee, PerItem, Coins
<1>9. override > 0 => SweepFee = override
  BY DEF SweepFee
<1>10. ASSUME Coins = 0 PROVE Total(purse) = 0
  <2>1. Len(purse) = 0
    BY <1>1, <1>10 DEF Coins
  <2>2. purse = <<>>
    BY <2>1 DEF CoinsAre
  <2> QED
    BY <1>1, <2>2
<1> QED
  BY <1>1, <1>2, <1>3, <1>4, <1>5, <1>6, <1>7, <1>8, <1>9, <1>10

(* What it pays out, and what it is billed.                                *)
LEMMA SweepBilled ==
    ASSUME CoinsAre, BalanceIs, Called
    PROVE  /\ sendAllTransaction.raises <=> SweepRaises
           /\ sendAllTransaction.fee = SweepFee
           /\ \A shorter \in {0, sendAllTransaction.tx.ins + sendAllTransaction.tx.claims} :
                 Billed(SweepBytes, Coins, 0, ChangeSize(SweepLeft),
                        RequiredFee(sendAllTransaction.tx, shorter))
           /\ ChangeSize(SweepLeft) \in ChangeSizes
<1> DEFINE o == Satori("payee", balance.satori)
           q == Currency("payee", SweepLeft)
           a == IF assets # <<>> THEN <<o>> ELSE <<>>
           c == IF SweepLeft > 0 THEN <<q>> ELSE <<>>
           t == Tx(Total(assets), Total(purse), Len(assets) + Len(purse), 0, a \o c)
           r == sendAllTransaction
<1>1. r = [raises |-> SweepRaises, fee |-> SweepFee, settles |-> TRUE, tx |-> t]
  BY Zenon DEF sendAllTransaction, SweepRaises, SweepLeft, SweepFee
<1>2. /\ SweepLeft \in Int /\ Coins \in Nat /\ SweptSatori \in 0..59 /\ SweepBytes \in Nat
  BY SweepNumbers
<1>3. o \in Payments /\ o.asset = "satori" /\ q \in Payments /\ q.asset = "currency"
  <2>1. /\ balance.satori \in Int /\ "payee" \in Recipients
        /\ "satori" \in Kinds \cup {"memo"} /\ "currency" \in Kinds \cup {"memo"}
    BY DEF BalanceIs, Recipients, Kinds
  <2> QED
    BY <1>2, <2>1, OutputIs DEF Satori, Currency
<1> HIDE DEF r, t, o, q
<1>4. r.fee = SweepFee /\ r.tx = t
  BY <1>1, PartsOf
<1>5. r.raises <=> SweepRaises
  <2>1. r.raises = SweepRaises
    BY <1>1, PartsOf
  <2> QED
    BY <2>1, Zenon
<1>6. Weight(<<o>>) = 59 /\ Weight(<<q>>) = 34
  <2>1. OutputSize(o) = 59 /\ OutputSize(q) = 34
    BY <1>3 DEF OutputSize, AssetSize, OutSize
  <2> QED
    BY <1>3, <2>1, WeightOne
<1>7. a \in Seq(Payments) /\ Weight(a) = SweptSatori
  <2>1. CASE assets # <<>>
    <3>1. a = <<o>> /\ SweptSatori = 59
      BY <2>1 DEF SweptSatori
    <3> QED
      BY <1>3, <1>6, <3>1
  <2>2. CASE assets = <<>>
    <3>1. a = <<>> /\ SweptSatori = 0
      BY <2>2 DEF SweptSatori
    <3> QED
      BY <3>1, WeightNothing
  <2> QED
    BY <2>1, <2>2
<1>8. c \in Seq(Payments) /\ Weight(c) = ChangeSize(SweepLeft) /\ ChangeSize(SweepLeft) \in ChangeSizes
  <2>1. CASE SweepLeft > 0
    <3>1. c = <<q>> /\ ChangeSize(SweepLeft) = 34
      BY <2>1 DEF ChangeSize
    <3> QED
      BY <1>3, <1>6, <3>1 DEF ChangeSizes
  <2>2. CASE ~ (SweepLeft > 0)
    <3>1. c = <<>> /\ ChangeSize(SweepLeft) = 0
      BY <2>2 DEF ChangeSize
    <3> QED
      BY <3>1, WeightNothing DEF ChangeSizes
  <2> QED
    BY <2>1, <2>2
<1> HIDE DEF a, c
<1>9. Weight(a \o c) = SweptSatori + ChangeSize(SweepLeft)
  BY <1>7, <1>8, WeightJoined
<1>10. t.ins = Len(assets) + Len(purse) /\ t.claims = 0 /\ t.outs = a \o c
  <2>1. MadeOf(t, Total(assets), Total(purse), Len(assets) + Len(purse), 0, a \o c)
    BY DEF t, MadeOf
  <2> QED
    BY <2>1, PartsOfTx
<1>11. t.ins = Coins
  BY <1>10 DEF Coins
<1>12. ASSUME NEW shorter \in {0, t.ins + t.claims}
       PROVE  Billed(SweepBytes, Coins, 0, ChangeSize(SweepLeft), RequiredFee(t, shorter))
  <2>1. RequiredFee(t, shorter) =
          11 * (10 + 148 * t.ins + 260 * t.claims - shorter + Weight(t.outs))
    BY DEF RequiredFee, Size, PerByte, BaseSize, InSize, ClaimSize, Weight, Sizes
  <2>2. PICK d : d = ChangeSize(SweepLeft)
    OBVIOUS
  <2>3. Weight(t.outs) = SweptSatori + d
    BY <1>9, <1>10, <2>2, Zenon
  <2>4. RequiredFee(t, shorter) = 11 * (10 + 148 * Coins + 260 * 0 - shorter + (SweptSatori + d))
    BY <1>10, <1>11, <2>1, <2>3
  <2>5. d \in Nat
    BY <1>8, <2>2 DEF ChangeSizes
  <2>6. shorter \in {0, Coins + 0}
    BY <1>10, <1>11
  <2>7. shorter \in Int
    BY <1>2, <2>6
  <2>8. RequiredFee(t, shorter) = 11 * (SweepBytes + 148 * 0 + d - shorter)
    BY <1>2, <2>4, <2>5, <2>7 DEF SweepBytes
  <2>9. Billed(SweepBytes, Coins, 0, d, RequiredFee(t, shorter))
    BY <2>6, <2>8 DEF Billed
  <2> QED
    BY <2>2, <2>9
<1>13. \A shorter \in {0, r.tx.ins + r.tx.claims} :
           Billed(SweepBytes, Coins, 0, ChangeSize(SweepLeft), RequiredFee(r.tx, shorter))
  BY <1>4, <1>12, Zenon
<1> QED
  BY <1>4, <1>5, <1>8, <1>13, Zenon DEF r

(* How a sweep begins, how it goes on, and that it has the money.          *)
LEMMA SweepStarts ==
    ASSUME CoinsAre, BalanceIs, Called, override = 0, ~ sendAllTransaction.raises,
           NEW t, t = sendAllTransaction.tx, NEW shorter \in {0, t.ins + t.claims},
           NEW r, r = RequiredFee(t, shorter), ~ Fits(sendAllTransaction.fee, r)
    PROVE  SweepGoes(r, 1)
<1>1. ~ SweepRaises /\ sendAllTransaction.fee = SweepFee
  BY SweepBilled
<1>2. PICK c \in ChangeSizes : c = ChangeSize(SweepLeft)
  BY SweepBilled
<1>3. Billed(SweepBytes, Coins, 0, c, r)
  BY <1>2, SweepBilled
<1>4. PICK fee : fee = SweepFee
  OBVIOUS
<1>5. /\ Coins \in Nat /\ SweptSatori \in 0..59 /\ Base(SweepBytes, Coins) /\ fee \in Nat
      /\ Total(purse) \in Nat /\ balance.currency \in Nat /\ Reserve \in Nat
      /\ fee = 1500 * (Coins + 2) /\ (Coins = 0 => Total(purse) = 0)
  BY <1>4, SweepNumbers
<1>6. Total(purse) >= fee /\ balance.currency >= Reserve
  BY <1>1, <1>4, <1>5 DEF SweepRaises, SweepLeft
<1>7. Coins > 0
  BY <1>5, <1>6
<1>8. ~ Fits(fee, r)
  BY <1>1, <1>4
<1>9. ASSUME ~ ManyCoins PROVE 5 * r <= 4 * fee
  <2>1. Coins <= 16
    BY <1>5, <1>9 DEF ManyCoins, Coins, CoinsAre
  <2>2. r \in Nat /\ r <= 11 * (SweepBytes + 148 * 0 + c)
    BY <1>3, <1>5, BilledIs
  <2>3. c \in 0..34
    BY DEF ChangeSizes
  <2>4. r <= 11 * (10 + 148 * Coins + 59 + 34)
    BY <1>5, <2>2, <2>3 DEF SweepBytes
  <2>5. 99 * r < 100 * fee
    BY <1>5, <2>1, <2>2, <2>4
  <2> QED
    BY <1>5, <1>8, <2>2, <2>5 DEF Fits
<1>10. r \in Nat
  BY <1>3, <1>5, BilledIs
<1>11. ASSUME ~ ManyCoins PROVE Affords(r, c)
  <2>1. r <= Total(purse)
    BY <1>5, <1>6, <1>9, <1>10, <1>11
  <2> QED
    BY <1>5, <1>6, <1>9, <1>11, <2>1 DEF Affords
<1> QED
  BY <1>3, <1>7, <1>11 DEF SweepGoes

LEMMA SweepNext ==
    ASSUME CoinsAre, BalanceIs, Called, override > 0, ~ sendAllTransaction.raises,
           NEW t, t = sendAllTransaction.tx, NEW shorter \in {0, t.ins + t.claims},
           NEW r, r = RequiredFee(t, shorter), ~ Fits(sendAllTransaction.fee, r),
           NEW n \in Nat, SweepGoes(override, n)
    PROVE  SweepGoes(r, n + 1)
<1>1. PICK d \in ChangeSizes : d = ChangeSize(SweepLeft)
  BY SweepBilled
<1>2. Billed(SweepBytes, Coins, 0, d, r)
  BY <1>1, SweepBilled
<1>3. PICK c \in ChangeSizes :
          /\ Billed(SweepBytes, Coins, 0, c, override) /\ Coins > 0 /\ n <= 2 /\ (c = 0 => n = 1)
          /\ ~ Dusty /\ ~ ManyCoins => Affords(override, c)
  BY DEF SweepGoes
<1>4. ~ Fits(override, r)
  <2>1. sendAllTransaction.fee = override
    BY SweepBilled, SweepNumbers
  <2> QED
    BY <2>1, Zenon
<1>5. Base(SweepBytes, Coins) /\ Coins \in Nat /\ Total(purse) \in Nat
  BY SweepNumbers
<1>6. c # d
  BY <1>2, <1>3, <1>4, <1>5, SameBills
<1>7. Coins + 0 >= 1
  BY <1>3, <1>5
<1>8. ~ (c = 34 /\ d = 0)
  BY <1>2, <1>3, <1>4, <1>5, <1>7, ChangeDropped
<1>9. c = 0 /\ d = 34
  BY <1>6, <1>8 DEF ChangeSizes
<1>10. n + 1 <= 2
  BY <1>3, <1>9
<1>11. ASSUME ~ Dusty, ~ ManyCoins PROVE Affords(r, d)
  <2>1. Affords(override, c)
    BY <1>3, <1>11
  <2>2. PICK p \in Nat : 5 * override <= 4 * p /\ p <= Total(purse)
    BY <1>9, <2>1 DEF Affords
  <2>3. balance.currency >= Reserve
    BY <2>1 DEF Affords
  <2>4. Billed(SweepBytes, Coins, 0, 0, override) /\ Billed(SweepBytes, Coins, 0, 34, r)
    BY <1>2, <1>3, <1>9
  <2>5. r < p
    BY <1>5, <1>7, <2>2, <2>4, ChangeAppears
  <2>6. r \in Nat
    BY <1>2, <1>5, BilledIs
  <2>7. r <= Total(purse)
    BY <1>5, <2>2, <2>5, <2>6
  <2> QED
    BY <1>9, <2>3, <2>7 DEF Affords
<1> QED
  BY <1>2, <1>3, <1>9, <1>10, <1>11 DEF SweepGoes

LEMMA SweepSolvent ==
    ASSUME CoinsAre, BalanceIs, Called, override > 0, NEW n, SweepGoes(override, n),
           ~ Dusty, ~ ManyCoins
    PROVE  ~ sendAllTransaction.raises
<1>1. balance.currency >= Reserve /\ override <= Total(purse)
  BY DEF SweepGoes, Affords
<1>2. /\ SweepFee = override /\ Total(purse) \in Nat /\ override \in Nat
      /\ balance.currency \in Nat /\ Reserve \in Nat
  BY SweepNumbers, CallIs
<1>3. ~ SweepRaises
  BY <1>1, <1>2 DEF SweepRaises, SweepLeft
<1> QED
  BY <1>3, SweepBilled

-----------------------------------------------------------------------------
(* With coins that nobody changes, what was said of a call stays true      *)

LEMMA GatherGoesStays ==
    ASSUME UNCHANGED <<purse, assets>>, NEW plan, NEW o, NEW t, GatherGoes(plan, o, t)
    PROVE  GatherGoes(plan, o, t)'
<1>1. purse' = purse /\ assets' = assets
  OBVIOUS
<1>2. DraftSatori(plan)' = DraftSatori(plan) /\ DraftSats(plan)' = DraftSats(plan)
  BY <1>1 DEF DraftSatori, GatherSatori, DraftSats
<1>3. DraftOver(plan)' = DraftOver(plan)
  BY <1>2 DEF DraftOver
<1>4. Rest(plan)' = Rest(plan) /\ Signatures(plan)' = Signatures(plan)
  BY <1>2, <1>3 DEF Rest, Signatures
<1>5. PlanBytes(plan)' = PlanBytes(plan)
  BY <1>2, <1>4 DEF PlanBytes
<1>6. ASSUME NEW a, NEW k
      PROVE  (Least(plan, a, k)' <=> Least(plan, a, k)) /\ Over(plan, a, k)' = Over(plan, a, k)
  BY <1>1, <1>2 DEF Least, Over
<1>7. ASSUME NEW k, NEW p, NEW c
      PROVE  /\ RisesFrom(plan, o, k, p, c)' <=> RisesFrom(plan, o, k, p, c)
             /\ FallsFrom(plan, o, k, p, c)' <=> FallsFrom(plan, o, k, p, c)
             /\ StaysAt(plan, o, k)' <=> StaysAt(plan, o, k)
  <2>1. (Least(plan, p, k)' <=> Least(plan, p, k)) /\ Over(plan, p, k)' = Over(plan, p, k)
    BY <1>6
  <2>2. (Least(plan, o, k)' <=> Least(plan, o, k)) /\ Over(plan, o, k)' = Over(plan, o, k)
    BY <1>6
  <2>3. RisesFrom(plan, o, k, p, c)' <=> RisesFrom(plan, o, k, p, c)
    BY <1>4, <1>5, <2>1 DEF RisesFrom
  <2>4. FallsFrom(plan, o, k, p, c)' <=> FallsFrom(plan, o, k, p, c)
    BY <1>1, <1>2, <1>4, <1>5 DEF FallsFrom
  <2>5. StaysAt(plan, o, k)' <=> StaysAt(plan, o, k)
    BY <1>4, <1>5, <2>2 DEF StaysAt
  <2> QED
    BY <2>3, <2>4, <2>5
<1>8. /\ Rises(plan, o, t) => Rises(plan, o, t)'
      /\ Falls(plan, o, t) => Falls(plan, o, t)'
      /\ Stays(plan, o, t) => Stays(plan, o, t)'
  <2>1. Rises(plan, o, t) => Rises(plan, o, t)'
    BY <1>1, <1>7 DEF Rises
  <2>2. Falls(plan, o, t) => Falls(plan, o, t)'
    BY <1>1, <1>7 DEF Falls
  <2>3. Stays(plan, o, t) => Stays(plan, o, t)'
    BY <1>1, <1>7 DEF Stays
  <2> QED
    BY <2>1, <2>2, <2>3
<1>9. HasSatori(plan)' <=> HasSatori(plan)
  BY <1>1 DEF HasSatori
<1>10. Clean(plan)' <=> Clean(plan)
  BY <1>1 DEF Clean, Dusty, ManyCoins
<1> QED
  BY <1>8, <1>9, <1>10, Zenon DEF GatherGoes

LEMMA SweepGoesStays ==
    ASSUME UNCHANGED <<purse, assets, balance>>, NEW o, NEW t, SweepGoes(o, t)
    PROVE  SweepGoes(o, t)'
<1>1. purse' = purse /\ assets' = assets /\ balance' = balance
  OBVIOUS
<1>2. Coins' = Coins /\ SweptSatori' = SweptSatori
  BY <1>1 DEF Coins, SweptSatori
<1>3. SweepBytes' = SweepBytes
  BY <1>2 DEF SweepBytes
<1>4. (Dusty' <=> Dusty) /\ (ManyCoins' <=> ManyCoins)
  BY <1>1 DEF Dusty, ManyCoins
<1>5. ASSUME NEW c PROVE Affords(o, c)' <=> Affords(o, c)
  BY <1>1 DEF Affords
<1> QED
  BY <1>2, <1>3, <1>4, <1>5 DEF SweepGoes

LEMMA ClaimGoesStays ==
    ASSUME UNCHANGED task, NEW n, NEW o, NEW t, ClaimGoes(n, o, t)
    PROVE  ClaimGoes(n, o, t)'
<1>1. Memo' = Memo
  BY PartsStay
<1>2. ClaimBytes(n)' = ClaimBytes(n)
  BY <1>1 DEF ClaimBytes
<1> QED
  BY <1>2 DEF ClaimGoes

LEMMA KindsStay ==
    ASSUME UNCHANGED task
    PROVE  /\ (Sweeps' <=> Sweeps) /\ (ClaimsCurrency' <=> ClaimsCurrency)
           /\ Claimed' = Claimed
BY DEF Sweeps, ClaimsCurrency, Claimed

-----------------------------------------------------------------------------
(* How a call goes that has repeated itself                                *)

GoesWith(o, t) ==
    /\ Sweeps => SweepGoes(o, t)
    /\ ~ Sweeps /\ ClaimsCurrency => ClaimGoes(Claimed, o, t)
    /\ ~ Sweeps /\ ~ ClaimsCurrency => GatherGoes(PlanOf(task.kind), o, t)
Repeated == Sweeps \/ task.kind \in Planned

LEMMA GoesStays ==
    ASSUME UNCHANGED <<task, purse, assets, balance>>, NEW o, NEW t, Repeated, GoesWith(o, t)
    PROVE  GoesWith(o, t)'
<1>1. (Sweeps' <=> Sweeps) /\ (ClaimsCurrency' <=> ClaimsCurrency) /\ Claimed' = Claimed
  BY KindsStay
<1>2. CASE Sweeps
  <2>1. SweepGoes(o, t)
    BY <1>2, Zenon DEF GoesWith
  <2>2. SweepGoes(o, t)'
    BY <2>1, SweepGoesStays
  <2> QED
    BY <1>1, <1>2, <2>2, Zenon DEF GoesWith
<1>3. CASE ~ Sweeps /\ ClaimsCurrency
  <2>1. PICK n : n = Claimed
    OBVIOUS
  <2>2. ClaimGoes(n, o, t)
    BY <1>3, <2>1, Zenon DEF GoesWith
  <2>3. ClaimGoes(n, o, t)'
    BY <2>2, ClaimGoesStays
  <2>4. ClaimGoes(Claimed, o, t)'
    BY <1>1, <2>1, <2>3, Zenon
  <2> QED
    BY <1>1, <1>3, <2>4, Zenon DEF GoesWith
<1>4. CASE ~ Sweeps /\ ~ ClaimsCurrency
  <2>1. PICK plan : plan = PlanOf(task.kind)
    OBVIOUS
  <2>2. GatherGoes(plan, o, t)
    BY <1>4, <2>1, Zenon DEF GoesWith
  <2>3. GatherGoes(plan, o, t)'
    BY <2>2, GatherGoesStays
  <2>4. PlanOf(task.kind)' = plan
    <3>1. task.kind \in Planned
      BY <1>4 DEF Repeated
    <3> QED
      BY <1>4, <2>1, <3>1, PlanStays
  <2>5. GatherGoes(PlanOf(task.kind), o, t)'
    BY <2>3, <2>4, Zenon
  <2> QED
    BY <1>1, <1>4, <2>5, Zenon DEF GoesWith
<1> QED
  BY <1>2, <1>3, <1>4

(* The fee required of a transaction is positive.                          *)
LEMMA RequiredPositive ==
    ASSUME NEW t, IsTx(t), NEW shorter \in {0, t.ins + t.claims}
    PROVE  RequiredFee(t, shorter) \in Nat /\ RequiredFee(t, shorter) > 0
<1>1. t.ins \in Nat /\ t.claims \in Nat /\ t.outs \in Seq(Payments)
  BY DEF IsTx
<1>2. PICK a \in Nat, c \in Nat, z \in Nat : a = t.ins /\ c = t.claims /\ z = Weight(t.outs)
  BY <1>1, SizesAre
<1>3. RequiredFee(t, shorter) =
         11 * (10 + 148 * t.ins + 260 * t.claims - shorter + Weight(t.outs))
  BY DEF RequiredFee, Size, PerByte, BaseSize, InSize, ClaimSize, Weight, Sizes
<1>4. shorter \in 0..(a + c)
  BY <1>2
<1>5. RequiredFee(t, shorter) = 11 * (10 + 148 * a + 260 * c - shorter + z)
  BY <1>2, <1>3
<1> QED
  BY <1>4, <1>5

(* What is drafted settles only if it sweeps or has a plan.                *)
LEMMA DraftsOf ==
    ASSUME Called, task.kind \notin Misdirected
    PROVE  \/ Sweeps /\ Drafted = sendAllTransaction
           \/ ~ Sweeps /\ Drafted.settles = FALSE
           \/ ~ Sweeps /\ task.kind \in Planned /\ Drafted = Draft(PlanOf(task.kind))
<1>1. CASE Sweeps
  BY <1>1 DEF Drafted
<1>2. CASE task.kind = "paymentChannelMultisig"
  <2>1. Drafted = paymentChannelMultisigTransactionStart /\ ~ Sweeps
    BY <1>2 DEF Drafted, Sweeps
  <2>2. paymentChannelMultisigTransactionStart.settles = FALSE
    BY DEF paymentChannelMultisigTransactionStart
  <2> QED
    BY <2>1, <2>2
<1>3. CASE task.kind = "paymentChannelMultisigCurrency"
  <2>1. Drafted = paymentChannelMultisigCurrencyTransactionStart /\ ~ Sweeps
    BY <1>3 DEF Drafted, Sweeps
  <2>2. paymentChannelMultisigCurrencyTransactionStart.settles = FALSE
    BY DEF paymentChannelMultisigCurrencyTransactionStart
  <2> QED
    BY <2>1, <2>2
<1>4. CASE ~ Sweeps /\ ~ Multisigs
  <2>1. Drafted = Draft(PlanOf(task.kind))
    BY <1>4 DEF Drafted, Multisigs
  <2>2. task.kind \in Planned
    BY <1>4 DEF Called, IsCall, Repeating, Neuron, Single, Misdirected, Planned, Sweeps, Multisigs
  <2> QED
    BY <1>4, <2>1, <2>2
<1> QED
  BY <1>1, <1>2, <1>3, <1>4 DEF Multisigs

(* The plans that gather currency and settle.                              *)
LEMMA GatherPlans ==
    ASSUME Called, task.kind \in Planned, ~ ClaimsCurrency, NEW plan, plan = PlanOf(task.kind),
           Draft(plan).settles
    PROVE  /\ GoodPlan(plan) /\ "currency" \in plan.gathers
           /\ plan.claims = 0 => Modest(plan) /\ plan.first = 0
<1>1. GoodPlan(plan)
  BY PlansGood
<1>2. plan.settles
  BY DraftParts, Zenon
<1>3. ~ Distributes
  BY <1>2, PlansSettle, Zenon
<1>4. CASE task.kind \in Other
  BY <1>1, <1>4, PlansModest
<1>5. CASE ClaimsSatori
  <2>1. PICK n : n = Claimed
    OBVIOUS
  <2>2. plan = ClaimSatori(n)
    BY <1>5, <2>1, PlansSettle, Zenon
  <2>3. plan.claims = n /\ plan.gathers = {"currency"}
    BY <2>2, ClaimsAre
  <2>4. n > 0
    BY <2>1, CallIs DEF Claimed
  <2> QED
    BY <1>1, <2>3, <2>4
<1> QED
  BY <1>3, <1>4, <1>5, KindsSplit

(* A call that repeats itself goes on in one of these ways.                *)
LEMMA RepeatGoes ==
    ASSUME CoinsAre, BalanceIs, Called, task.kind \notin Misdirected,
           ~ Drafted.raises, Drafted.settles,
           NEW t, t = Drafted.tx, NEW shorter \in {0, t.ins + t.claims},
           NEW r, r = RequiredFee(t, shorter), ~ Fits(Drafted.fee, r),
           NEW n \in Nat, n = 0 => override = 0, n > 0 => override > 0 /\ GoesWith(override, n)
    PROVE  GoesWith(r, n + 1) /\ Repeated
<1>1. CASE Sweeps /\ Drafted = sendAllTransaction
  <2>1. CASE n = 0
    <3>1. SweepGoes(r, 1)
      BY <1>1, <2>1, SweepStarts
    <3> QED
      BY <1>1, <2>1, <3>1 DEF GoesWith, Repeated
  <2>2. CASE n > 0
    <3>1. override > 0 /\ SweepGoes(override, n)
      BY <1>1, <2>2 DEF GoesWith
    <3>2. SweepGoes(r, n + 1)
      BY <1>1, <3>1, SweepNext
    <3> QED
      BY <1>1, <3>2 DEF GoesWith, Repeated
  <2> QED
    BY <2>1, <2>2
<1>2. CASE ~ Sweeps /\ task.kind \in Planned /\ Drafted = Draft(PlanOf(task.kind))
  <2>1. PICK plan : plan = PlanOf(task.kind)
    OBVIOUS
  <2>2. Drafted = Draft(plan)
    BY <1>2, <2>1, Zenon
  <2>3. /\ ~ Draft(plan).raises /\ Draft(plan).settles /\ t = Draft(plan).tx
        /\ ~ Fits(Draft(plan).fee, r)
    BY <2>2, Zenon
  <2>4. CASE ClaimsCurrency
    <3>1. PICK c : c = Claimed
      OBVIOUS
    <3>2. plan = ClaimCurrency(c)
      BY <1>2, <2>1, <2>4, <3>1, PlansSettle, Zenon
    <3>3. c \in Nat /\ c > 0
      BY <3>1, CallIs DEF Claimed
    <3>4. ClaimGoes(c, r, n + 1)
      <4>1. CASE n = 0
        <5>1. ClaimGoes(c, r, 1)
          BY <2>3, <3>2, <3>3, ClaimStarts
        <5> QED
          BY <4>1, <5>1
      <4>2. CASE n > 0
        <5>1. GoesWith(override, n) /\ override > 0
          BY <4>2
        <5>2. ClaimGoes(c, override, n)
          BY <1>2, <2>4, <3>1, <5>1, Zenon DEF GoesWith
        <5> QED
          BY <2>3, <3>2, <3>3, <5>1, <5>2, ClaimNext
      <4> QED
        BY <4>1, <4>2
    <3> QED
      BY <1>2, <2>4, <3>1, <3>4, Zenon DEF GoesWith, Repeated
  <2>5. CASE ~ ClaimsCurrency
    <3>1. /\ GoodPlan(plan) /\ "currency" \in plan.gathers
          /\ plan.claims = 0 => Modest(plan) /\ plan.first = 0
      BY <1>2, <2>1, <2>3, <2>5, GatherPlans
    <3>2. GatherGoes(plan, r, n + 1)
      <4>1. CASE n = 0
        <5>1. GatherGoes(plan, r, 1)
          BY <2>3, <3>1, <4>1, GatherStarts
        <5> QED
          BY <4>1, <5>1
      <4>2. CASE n > 0
        <5>1. GoesWith(override, n) /\ override > 0
          BY <4>2
        <5>2. GatherGoes(plan, override, n)
          BY <1>2, <2>1, <2>5, <5>1, Zenon DEF GoesWith
        <5> QED
          BY <2>3, <3>1, <5>1, <5>2, GatherNext
      <4> QED
        BY <4>1, <4>2
    <3> QED
      BY <1>2, <2>1, <2>5, <3>2, Zenon DEF GoesWith, Repeated
  <2> QED
    BY <2>4, <2>5
<1> QED
  BY <1>1, <1>2, DraftsOf, Zenon

-----------------------------------------------------------------------------
(* The invariant of repeated calls                                         *)

(* A call that has repeated itself goes on in one of these ways, as long   *)
(* as nobody changes the coins.                                            *)
Going == stage = "building" /\ refreshes = 0 /\ retries > 0 =>
            override > 0 /\ GoesWith(override, retries)
Counting ==
    /\ retries = 0 => override = 0
    /\ stage = "called" => retries = 0
    /\ stage # "ended" => outcome = "none"
    /\ refreshing => refreshes > 0
    /\ retries > 0 => Repeated
Settled == Counting /\ Going /\ RetryPays /\ FewRetries

(* A call stays one that may repeat itself.                                *)
LEMMA RepeatedStays == ASSUME UNCHANGED task PROVE Repeated' <=> Repeated
BY KindsStay DEF Repeated, Planned

(* At the start nothing was repeated yet.                                  *)
LEMMA InitSettled == ASSUME Secure, Init PROVE Settled
<1>1. /\ retries = 0 /\ override = 0 /\ stage = "called" /\ outcome = "none" /\ refreshing = FALSE
  BY DEF Init
<1>2. Len(purse) \in Nat
  BY DEF Secure, CoinsAre
<1>3. Counting
  BY <1>1 DEF Counting
<1>4. Going /\ RetryPays
  BY <1>1, Zenon DEF Going, RetryPays
<1>5. FewRetries
  BY <1>1, <1>2 DEF FewRetries
<1> QED
  BY <1>3, <1>4, <1>5 DEF Settled

(* A step that neither builds nor fails for want of money, and leaves the  *)
(* wallet alone.                                                           *)
LEMMA PassingStep ==
    ASSUME Settled, stage # "ended", stage' # "called", stage' = "building" => retries = 0,
           outcome' # "funds", stage' # "ended" => outcome' = outcome,
           UNCHANGED <<task, wallet, override, retries>>
    PROVE  Settled'
<1>1. UNCHANGED <<task, purse, assets, balance, refreshes, refreshing, override, retries>>
  BY DEF wallet
<1>2. Counting /\ FewRetries
  BY DEF Settled
<1>3. Counting'
  <2>1. Repeated' <=> Repeated
    BY <1>1, RepeatedStays
  <2> QED
    BY <1>1, <1>2, <2>1 DEF Counting
<1>4. Going'
  <2>1. stage' = "building" => retries' = 0
    BY <1>1
  <2>2. retries' = 0 => ~ (retries' > 0)
    OBVIOUS
  <2> QED
    BY <2>1, <2>2, Zenon DEF Going
<1>5. RetryPays'
  BY Zenon DEF RetryPays
<1>6. FewRetries'
  BY <1>1, <1>2 DEF FewRetries
<1> QED
  BY <1>3, <1>4, <1>5, <1>6 DEF Settled

(* A step of another thread that refreshes the wallet.                     *)
LEMMA RefreshingStep ==
    ASSUME Settled, refreshes' > 0, UNCHANGED <<task, override, retries, stage, outcome>>
    PROVE  Settled'
<1>1. Counting
  BY DEF Settled
<1>2. Counting'
  <2>1. Repeated' <=> Repeated
    BY RepeatedStays
  <2> QED
    BY <1>1, <2>1 DEF Counting
<1>3. refreshes' # 0
  OBVIOUS
<1>4. Going' /\ FewRetries' /\ RetryPays'
  BY <1>3, Zenon DEF Going, FewRetries, RetryPays
<1> QED
  BY <1>2, <1>4 DEF Settled

(* A step that changes nothing.                                            *)
LEMMA StillStep ==
    ASSUME Settled, UNCHANGED vars
    PROVE  Settled'
<1>1. UNCHANGED <<task, purse, assets, balance, refreshes, refreshing, override, retries, stage, outcome>>
  BY DEF vars
<1>2. Counting /\ Going /\ RetryPays /\ FewRetries
  BY DEF Settled
<1>3. Counting'
  <2>1. Repeated' <=> Repeated
    BY <1>1, RepeatedStays
  <2> QED
    BY <1>1, <1>2, <2>1 DEF Counting
<1>4. FewRetries'
  BY <1>1, <1>2 DEF FewRetries
<1>5. Going'
  <2> SUFFICES ASSUME stage' = "building", refreshes' = 0, retries' > 0
               PROVE  override' > 0 /\ GoesWith(override, retries)'
    BY Zenon DEF Going
  <2>1. stage = "building" /\ refreshes = 0 /\ retries > 0
    BY <1>1
  <2>2. PICK o, t : o = override /\ t = retries
    OBVIOUS
  <2>3. o > 0 /\ GoesWith(o, t) /\ Repeated
    BY <1>2, <2>1, <2>2, Zenon DEF Going, Counting
  <2>4. GoesWith(o, t)'
    <3>1. UNCHANGED <<task, purse, assets, balance>>
      BY <1>1
    <3> QED
      BY <2>3, <3>1, GoesStays
  <2>5. override' = o /\ retries' = t
    BY <1>1, <2>2
  <2> QED
    BY <2>3, <2>4, <2>5, Zenon
<1>6. RetryPays'
  <2> SUFFICES ASSUME outcome' = "funds", retries' > 0
               PROVE  \/ refreshes' > 0 \/ Dusty' \/ ManyCoins'
                      \/ ~ Sweeps' /\ PlanOf(task.kind)'.claims > 0
    BY Zenon DEF RetryPays
  <2>1. outcome = "funds" /\ retries > 0
    BY <1>1
  <2>2. /\ \/ refreshes > 0 \/ Dusty \/ ManyCoins
           \/ ~ Sweeps /\ PlanOf(task.kind).claims > 0
        /\ Repeated
    BY <1>2, <2>1, Zenon DEF RetryPays, Counting
  <2>3. (Dusty' <=> Dusty) /\ (ManyCoins' <=> ManyCoins) /\ (Sweeps' <=> Sweeps)
    BY <1>1, KindsStay DEF Dusty, ManyCoins
  <2>4. ASSUME ~ Sweeps, PlanOf(task.kind).claims > 0 PROVE PlanOf(task.kind)'.claims > 0
    <3>1. task.kind \in Planned
      BY <2>2, <2>4 DEF Repeated
    <3>2. PlanOf(task.kind)' = PlanOf(task.kind)
      BY <1>1, <3>1, PlanStays
    <3> QED
      BY <2>4, <3>2, Zenon
  <2>5. refreshes' = refreshes
    BY <1>1
  <2> QED
    BY <2>2, <2>3, <2>4, <2>5, Zenon
<1> QED
  BY <1>3, <1>4, <1>5, <1>6 DEF Settled

(* A call that could pay the estimate, in a wallet that it is right for,   *)
(* can pay the bill.                                                       *)
LEMMA BuildingPays ==
    ASSUME Secure, Settled, stage = "building", retries > 0, refreshes = 0, ~ Dusty, ~ ManyCoins,
           Sweeps \/ ~ (PlanOf(task.kind).claims > 0)
    PROVE  ~ Drafted.raises
<1>1. CoinsAre /\ BalanceIs /\ Called
  BY TypeParts DEF Secure
<1>2. override > 0 /\ GoesWith(override, retries) /\ Repeated
  BY Zenon DEF Settled, Going, Counting
<1>3. retries \in Nat
  BY DEF Secure, TypeOK
<1>4. CASE Sweeps
  <2>1. SweepGoes(override, retries)
    BY <1>2, <1>4, Zenon DEF GoesWith
  <2>2. ~ sendAllTransaction.raises
    BY <1>1, <1>2, <2>1, SweepSolvent
  <2>3. Drafted = sendAllTransaction
    BY <1>4 DEF Drafted
  <2> QED
    BY <2>2, <2>3, Zenon
<1>5. CASE ~ Sweeps
  <2>1. task.kind \in Planned
    BY <1>2, <1>5 DEF Repeated
  <2>2. Drafted = Draft(PlanOf(task.kind))
    <3>1. task.kind \notin {"paymentChannelMultisig", "paymentChannelMultisigCurrency"}
      BY <2>1 DEF Planned
    <3> QED
      BY <1>5, <3>1 DEF Drafted
  <2>3. PICK plan : plan = PlanOf(task.kind)
    OBVIOUS
  <2>4. GoodPlan(plan) /\ ~ (plan.claims > 0)
    <3>1. GoodPlan(PlanOf(task.kind))
      BY <1>1, <2>1, PlansGood
    <3> QED
      BY <1>5, <2>3, <3>1, Zenon
  <2>5. plan.claims = 0 /\ "currency" \in plan.gathers
    BY <2>4 DEF GoodPlan, Sourced
  <2>6. ~ ClaimsCurrency
    <3>1. ASSUME ClaimsCurrency PROVE FALSE
      <4>1. PICK c : c = Claimed
        OBVIOUS
      <4>2. plan = ClaimCurrency(c)
        BY <2>1, <2>3, <3>1, <4>1, PlansSettle, Zenon
      <4>3. plan.claims = c
        BY <4>2, ClaimsAre
      <4>4. c > 0
        BY <1>1, <4>1, CallIs DEF Claimed
      <4> QED
        BY <2>4, <4>3, <4>4
    <3> QED
      BY <3>1
  <2>7. GatherGoes(plan, override, retries)
    BY <1>2, <1>5, <2>3, <2>6, Zenon DEF GoesWith
  <2>8. Clean(plan)
    BY <2>5, Zenon DEF Clean
  <2>9. ~ Draft(plan).raises
    BY <1>1, <1>2, <1>3, <2>4, <2>5, <2>7, <2>8, GatherPays
  <2> QED
    BY <2>2, <2>3, <2>9, Zenon
<1> QED
  BY <1>4, <1>5

(* A call that fails does so for a reason that the property excepts, or    *)
(* not after a repetition.                                                 *)
LEMMA RaisesSettled == ASSUME Secure, Settled, BuildRaises PROVE Settled'
<1>1. /\ stage = "building" /\ Drafted.raises /\ stage' = "ended" /\ outcome' = "funds"
      /\ UNCHANGED <<task, purse, assets, balance, refreshes, refreshing, override, retries>>
  BY DEF BuildRaises, End, wallet
<1>2. Counting /\ FewRetries
  BY DEF Settled
<1>3. Counting'
  <2>1. Repeated' <=> Repeated
    BY <1>1, RepeatedStays
  <2> QED
    BY <1>1, <1>2, <2>1 DEF Counting
<1>4. Going'
  BY <1>1 DEF Going
<1>5. FewRetries'
  BY <1>1, <1>2 DEF FewRetries
<1>6. RetryPays'
  <2> SUFFICES ASSUME retries' > 0, ~ (refreshes' > 0), ~ Dusty', ~ ManyCoins'
               PROVE  ~ Sweeps' /\ PlanOf(task.kind)'.claims > 0
    BY Zenon DEF RetryPays
  <2>1. retries > 0 /\ ~ (refreshes > 0) /\ ~ Dusty /\ ~ ManyCoins /\ (Sweeps' <=> Sweeps)
    BY <1>1, KindsStay DEF Dusty, ManyCoins
  <2>2. refreshes = 0
    BY <2>1, TypeParts DEF Secure, TypeOK
  <2>3. ~ Sweeps /\ PlanOf(task.kind).claims > 0
    BY <1>1, <2>1, <2>2, BuildingPays
  <2>4. PlanOf(task.kind)' = PlanOf(task.kind)
    <3>1. task.kind \in Planned
      BY <1>2, <2>1, <2>3 DEF Counting, Repeated
    <3> QED
      BY <1>1, <3>1, PlanStays
  <2> QED
    BY <2>1, <2>3, <2>4, Zenon
<1> QED
  BY <1>3, <1>4, <1>5, <1>6 DEF Settled

(* It has repeated itself so often at most.                                *)
LEMMA FewGoes ==
    ASSUME CoinsAre, NEW o, NEW t \in Nat, GoesWith(o, t)
    PROVE  t <= Len(purse) + 2
<1>1. Len(purse) \in Nat
  BY DEF CoinsAre
<1>2. CASE Sweeps
  <2>1. SweepGoes(o, t)
    BY <1>2, Zenon DEF GoesWith
  <2>2. t <= 2
    BY <2>1 DEF SweepGoes
  <2> QED
    BY <1>1, <2>2
<1>3. CASE ~ Sweeps /\ ClaimsCurrency
  <2>1. ClaimGoes(Claimed, o, t)
    BY <1>3, Zenon DEF GoesWith
  <2>2. t <= 2
    BY <2>1 DEF ClaimGoes
  <2> QED
    BY <1>1, <2>2
<1>4. CASE ~ Sweeps /\ ~ ClaimsCurrency
  <2>1. PICK plan : plan = PlanOf(task.kind)
    OBVIOUS
  <2>2. GatherGoes(plan, o, t)
    BY <1>4, <2>1, Zenon DEF GoesWith
  <2> QED
    BY <2>2, GatherFew
<1> QED
  BY <1>2, <1>3, <1>4

(* A call that repeats itself goes on in one of the ways above.            *)
LEMMA RetrySettled == ASSUME Secure, Settled, Retry PROVE Settled'
<1>1. PICK t : /\ t = Drafted.tx /\ ~ Drafted.raises /\ Drafted.settles
               /\ \E shorter \in {0, t.ins + t.claims} :
                     /\ ~ Fits(Drafted.fee, RequiredFee(t, shorter))
                     /\ override' = RequiredFee(t, shorter)
  BY Zenon DEF Retry
<1>2. PICK shorter \in {0, t.ins + t.claims} :
                     /\ ~ Fits(Drafted.fee, RequiredFee(t, shorter))
                     /\ override' = RequiredFee(t, shorter)
  BY <1>1
<1>3. PICK r : r = RequiredFee(t, shorter)
  OBVIOUS
<1>4. PICK n : n = retries
  OBVIOUS
<1>5. /\ stage = "building" /\ retries' = n + 1 /\ override' = r
      /\ UNCHANGED <<task, purse, assets, balance, refreshes, refreshing, stage, outcome>>
  BY <1>2, <1>3, <1>4 DEF Retry, wallet
<1>6. CoinsAre /\ BalanceIs /\ Called /\ n \in Nat /\ task.kind \notin Misdirected
  BY <1>4, <1>5, TypeParts DEF Secure, TypeOK, Staged
<1>7. Counting /\ Going /\ ~ Fits(Drafted.fee, r)
  BY <1>2, <1>3 DEF Settled
<1>8. r \in Nat /\ r > 0
  <2>1. IsTx(t)
    BY <1>1, <1>5, BuildingDrafts, Zenon
  <2> QED
    BY <1>3, <2>1, RequiredPositive
<1>9. Repeated
  <2>1. CASE Sweeps
    BY <2>1 DEF Repeated
  <2>2. CASE ~ Sweeps
    <3>1. task.kind \in Planned
      BY <1>1, <1>6, <2>2, DraftsOf
    <3> QED
      BY <3>1 DEF Repeated
  <2> QED
    BY <2>1, <2>2
<1>10. Counting'
  <2>1. Repeated'
    BY <1>5, <1>9, RepeatedStays
  <2>2. retries' # 0
    BY <1>5, <1>6
  <2> QED
    BY <1>5, <1>7, <2>1, <2>2 DEF Counting
<1>11. ASSUME refreshes = 0 PROVE GoesWith(r, n + 1)
  <2>1. n = 0 => override = 0
    BY <1>4, <1>7, Zenon DEF Counting
  <2>2. n > 0 => override > 0 /\ GoesWith(override, n)
    BY <1>4, <1>5, <1>7, <1>11, Zenon DEF Going
  <2> QED
    BY <1>1, <1>2, <1>3, <1>6, <1>7, <2>1, <2>2, RepeatGoes
<1>12. Going'
  <2> SUFFICES ASSUME refreshes' = 0
               PROVE  override' > 0 /\ GoesWith(override, retries)'
    BY Zenon DEF Going
  <2>1. PICK m : m = n + 1
    OBVIOUS
  <2>2. GoesWith(r, m)
    BY <1>5, <1>11, <2>1
  <2>3. GoesWith(r, m)'
    BY <1>5, <1>9, <2>2, GoesStays
  <2>4. override' = r /\ retries' = m
    BY <1>5, <2>1
  <2>5. GoesWith(override, retries)'
    BY <2>3, <2>4, Zenon
  <2> QED
    BY <1>8, <2>4, <2>5
<1>13. FewRetries'
  <2>1. ASSUME refreshes = 0 PROVE n + 1 <= Len(purse) + 2
    <3>1. n + 1 \in Nat
      BY <1>6
    <3> QED
      BY <1>6, <1>11, <2>1, <3>1, FewGoes
  <2> QED
    BY <1>5, <2>1 DEF FewRetries
<1>14. RetryPays'
  <2>1. outcome' = "none"
    BY <1>5, <1>7 DEF Counting
  <2> QED
    BY <2>1 DEF RetryPays
<1> QED
  BY <1>10, <1>12, <1>13, <1>14 DEF Settled

(* Every step keeps the invariant, and so it holds always.                 *)
LEMMA NextSettled == Secure /\ Settled /\ [Next]_vars => Settled'
<1> SUFFICES ASSUME Secure, Settled, [Next]_vars PROVE Settled'
  OBVIOUS
<1>1. CASE Validate
  <2>1. /\ stage = "called" /\ outcome' # "funds" /\ (stage' # "ended" => outcome' = outcome)
        /\ UNCHANGED <<task, wallet, override, retries>> /\ stage' # "called"
    <3>1. stage = "called" /\ outcome = "none"
      BY <1>1 DEF Validate, Settled, Counting
    <3> QED
      BY <1>1, <3>1 DEF Validate, End
  <2>2. retries = 0
    BY <2>1 DEF Settled, Counting
  <2> QED
    BY <2>1, <2>2, PassingStep
<1>2. CASE BuildRaises
  BY <1>2, RaisesSettled
<1>3. CASE Retry
  BY <1>3, RetrySettled
<1>4. CASE Accept \/ MultisigEnd \/ Broadcast \/ RequestPartial \/ DraftPartial \/ Report
             \/ Complete \/ ForgetReserved
  <2>1. stage # "ended" /\ outcome = "none"
    <3>1. stage # "ended"
      BY <1>4 DEF Accept, MultisigEnd, Broadcast, RequestPartial, DraftPartial, Report, Complete,
                  ForgetReserved
    <3> QED
      BY <3>1 DEF Settled, Counting
  <2>2. /\ outcome' # "funds" /\ (stage' # "ended" => outcome' = outcome)
        /\ stage' # "called" /\ stage' # "building" /\ UNCHANGED <<task, wallet, override, retries>>
    <3>1. CASE Accept
      BY <2>1, <3>1 DEF Accept, End
    <3>2. CASE MultisigEnd
      BY <2>1, <3>2 DEF MultisigEnd, End
    <3>3. CASE Broadcast
      BY <2>1, <3>3 DEF Broadcast, End
    <3>4. CASE RequestPartial
      BY <2>1, <3>4 DEF RequestPartial, End
    <3>5. CASE DraftPartial
      BY <2>1, <3>5 DEF DraftPartial, End
    <3>6. CASE Report
      BY <2>1, <3>6 DEF Report, End
    <3>7. CASE Complete
      BY <2>1, <3>7 DEF Complete, End
    <3>8. CASE ForgetReserved
      BY <2>1, <3>8 DEF ForgetReserved
    <3> QED
      BY <1>4, <3>1, <3>2, <3>3, <3>4, <3>5, <3>6, <3>7, <3>8
  <2> QED
    BY <2>1, <2>2, PassingStep
<1>5. CASE RefreshBalance \/ RefreshCoins
  <2>1. refreshes \in Nat
    BY TypeParts DEF Secure, TypeOK
  <2>2. UNCHANGED <<task, override, retries, stage, outcome>> /\ refreshes' = refreshes + 1
    BY <1>5 DEF RefreshBalance, RefreshCoins
  <2>3. refreshes' > 0
    BY <2>1, <2>2
  <2> QED
    BY <2>2, <2>3, RefreshingStep
<1>6. CASE RefreshAssets
  <2>1. UNCHANGED <<task, override, retries, stage, outcome, refreshes>> /\ refreshing
    BY <1>6 DEF RefreshAssets
  <2>2. refreshes' > 0
    BY <2>1 DEF Settled, Counting
  <2> QED
    BY <2>1, <2>2, RefreshingStep
<1>7. CASE UNCHANGED vars
  BY <1>7, StillStep
<1> QED
  BY <1>1, <1>2, <1>3, <1>4, <1>5, <1>6, <1>7, Zenon DEF Next, Step

LEMMA AlwaysSettled == Spec => []Settled
<1>1. Init /\ Secure => Settled
  BY InitSettled
<1>2. Secure /\ Settled /\ [Next]_vars => Settled'
  BY NextSettled
<1> QED
  BY <1>1, <1>2, AlwaysSecure, PTL DEF Spec

-----------------------------------------------------------------------------
(* What follows                                                            *)

LEMMA SecureFits == Secure => FeeFits
<1> SUFFICES ASSUME Secure, NEW t \in relayed, Settling, offer = NoOffer
             PROVE  \E shorter \in 0..(t.ins + t.claims) : Fits(Paid(t), RequiredFee(t, shorter))
  BY DEF FeeFits
<1>1. t = tx /\ relayed # {}
  BY DEF Secure, Relaying
<1>2. Fitted(tx)
  BY <1>1, Zenon DEF Secure, Relaying
<1> QED
  BY <1>1, <1>2, Zenon DEF Fitted

LEMMA SecureAsAsked == Secure => AsAsked
<1> SUFFICES ASSUME Secure, NEW t \in relayed
             PROVE  /\ \A i \in DOMAIN t.outs : Asked(t, i)
                    /\ Cardinality(Payees(t)) >= FewestPayees(t)
  BY Zenon DEF AsAsked, Payees, FewestPayees
<1>1. t = tx /\ t.outs # <<>>
  BY DEF Secure, Relaying
<1>2. AllAsked(t) /\ PaysEnough(t)
  BY <1>1, Zenon DEF Secure, Built
<1> QED
  BY <1>1, <1>2, Zenon DEF AllAsked, PaysEnough

LEMMA SecureOnlyAsked == Secure => OnlyWhenAsked
<1> SUFFICES ASSUME Secure PROVE OnlyWhenAsked
  OBVIOUS
<1>1. Cardinality(relayed) <= 1
  <2>1. relayed = {} \/ relayed = {tx}
    BY DEF Secure, Relaying
  <2>2. Cardinality({}) = 0
    BY FS_EmptySet
  <2>3. Cardinality({tx}) = 1
    BY FS_Singleton
  <2> QED
    BY <2>1, <2>2, <2>3
<1>2. relayed # {} => /\ task.broadcast \/ task.kind = "currencyTransaction"
                      /\ Bridges => reported
  BY Zenon DEF Secure, Relaying
<1> QED
  BY <1>1, <1>2, Zenon DEF OnlyWhenAsked

LEMMA SecureCompletes == Secure => (ReportedFee < Coin => Completable)
<1> SUFFICES ASSUME Secure, ReportedFee < Coin, stage = "completing",
                    offer.satoriFee \in {0, MundoFee}
             PROVE  Verified /\ Paid(Completed) = ReportedFee
  BY Zenon DEF Completable
<1>1. OfferIs /\ Payable(tx)
  BY Zenon DEF Secure, Promised
<1>2. Called /\ task.kind \in Neuron
  BY TypeParts DEF Secure, Staged
<1>3. Verified
  BY <1>1, <1>2, PayableVerified
<1>4. Paid(Completed) = ReportedFee
  BY <1>1, <1>2, CompletedPays, Zenon
<1> QED
  BY <1>3, <1>4

-----------------------------------------------------------------------------
(* The theorems                                                            *)

(* Every variable keeps its type; no fee that a call repeats itself with,  *)
(* and nothing it spends, is negative.                                     *)
THEOREM TypeCorrect == Spec => []TypeOK
<1>1. Secure => TypeOK
  BY DEF Secure
<1> QED
  BY <1>1, AlwaysSecure, PTL

(* Whatever coins there are and however often a call repeats itself, what  *)
(* is relayed leaves the miners a fee that fits its size.                  *)
THEOREM FeeFitsAlways == Spec => []FeeFits
BY SecureFits, AlwaysSecure, PTL

(* A call puts one transaction on the chain at most, only if it was asked  *)
(* to, and what it pays is what the call asked for.                        *)
THEOREM SentAsAskedAlways == Spec => []SentAsAsked
<1>1. Secure => SentAsAsked
  BY SecureAsAsked, SecureOnlyAsked DEF SentAsAsked
<1> QED
  BY <1>1, AlwaysSecure, PTL

(* A partial transaction that the wallet drafts for Mundo's usual fee      *)
(* passes every check of the completer, unless the fee it reports reaches  *)
(* the completer's limit of one EVR, and costs Mundo what it was told.     *)
THEOREM CompletableAlways == Spec => [](ReportedFee < Coin => Completable)
BY SecureCompletes, AlwaysSecure, PTL

(* However often a function calls itself, it is no more often than the     *)
(* wallet has coins, and twice; and a call that could pay the estimated    *)
(* fee does not then fail for want of money, in a wallet without dust and  *)
(* of at most sixteen coins that nobody else changes.                      *)
THEOREM RetriesSettleAlways == Spec => []RetriesSettle
<1>1. Settled => RetriesSettle
  BY DEF Settled, RetriesSettle
<1> QED
  BY <1>1, AlwaysSettled, PTL
=============================================================================

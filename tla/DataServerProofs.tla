-------------------------- MODULE DataServerProofs --------------------------
(***************************************************************************)
(* What holds of the data server for every set of connections and times    *)
(* and any number of requests: a stream has one provider, a broadcast that *)
(* does not raise skips nobody, and the chain of hashes stays the one of   *)
(* rows that came in order.                                                *)
(***************************************************************************)
EXTENDS DataServer, WellFoundedInduction, FiniteSetTheorems, TLAPS

(* A set of numbers that has a member has a least one. *)
LEMMA LeastExists ==
    ASSUME NEW S \in SUBSET Nat, S # {}
    PROVE  \E i \in S : \A j \in S : i <= j
<1> DEFINE R == OpToRel(<, Nat)
<1>1. IsWellFoundedOn(R, Nat)
  BY NatLessThanWellFounded
<1>3. \A i, j \in Nat : i < j => <<i, j>> \in R
  BY DEF OpToRel
<1> HIDE DEF R
<1>2. \E i \in S : \A j \in S : ~ (<<j, i>> \in R)
  BY <1>1, WFMin
<1>4. PICK i \in S : \A j \in S : ~ (<<j, i>> \in R)
  BY <1>2
<1>5. \A j \in S : ~ (j < i)
  BY <1>3, <1>4, Zenon
<1> QED
  BY <1>5

-----------------------------------------------------------------------------
(* Sets of times in order *)

IsOrder(w, S) ==
    /\ w \in [1..Cardinality(S) -> S]
    /\ \A i, j \in 1..Cardinality(S) : i < j => w[i] < w[j]

LEMMA FewTimes ==
    ASSUME NEW S \in SUBSET Times
    PROVE  IsFiniteSet(S) /\ Cardinality(S) \in Nat /\ S \subseteq Nat
BY TimesAreNumbers, FS_Subset, FS_CardinalityType

(* The first is put before the others in order. *)
LEMMA FirstPut ==
    ASSUME NEW S \in SUBSET Times, NEW m \in S, \A x \in S : m <= x,
           NEW v, IsOrder(v, S \ {m})
    PROVE  \E w : IsOrder(w, S)
<1>1. PICK n \in Nat : n = Cardinality(S) /\ Cardinality(S \ {m}) = n - 1
  BY FewTimes, FS_RemoveElement
<1>2. /\ v \in [1..n - 1 -> S \ {m}] /\ S \subseteq Nat
      /\ \A i, j \in 1..n - 1 : i < j => v[i] < v[j]
  BY <1>1, FewTimes DEF IsOrder
<1> DEFINE w == [i \in 1..n |-> IF i = 1 THEN m ELSE v[i - 1]]
<1>3. \A i \in 1..n : i # 1 => i - 1 \in 1..n - 1 /\ v[i - 1] \in S \ {m} /\ w[i] = v[i - 1]
  BY <1>2
<1>4. w \in [1..n -> S]
  BY <1>3
<1>5. ASSUME NEW i \in 1..n, NEW j \in 1..n, i < j PROVE w[i] < w[j]
  <2>1. j # 1
    BY <1>5
  <2>2. w[j] = v[j - 1] /\ v[j - 1] \in S \ {m} /\ j - 1 \in 1..n - 1
    BY <1>3, <2>1
  <2>3. CASE i = 1
    <3>1. w[i] = m /\ m <= w[j] /\ w[j] # m /\ m \in Nat /\ w[j] \in Nat
      BY <1>2, <2>2, <2>3
    <3> QED
      BY <3>1
  <2>4. CASE i # 1
    <3>1. w[i] = v[i - 1] /\ i - 1 \in 1..n - 1 /\ i - 1 < j - 1
      BY <1>3, <1>5, <2>4
    <3> QED
      BY <1>2, <2>2, <3>1
  <2> QED
    BY <2>3, <2>4
<1> HIDE DEF w
<1>6. IsOrder(w, S)
  BY <1>1, <1>4, <1>5 DEF IsOrder
<1> QED
  BY <1>6

LEMMA OrderExists ==
    ASSUME NEW S \in SUBSET Times
    PROVE  \E w : IsOrder(w, S)
<1> DEFINE Bad == {n \in Nat : \E T \in SUBSET Times :
                                 Cardinality(T) = n /\ ~ \E w : IsOrder(w, T)}
<1>1. SUFFICES ASSUME ~ \E w : IsOrder(w, S) PROVE FALSE
  OBVIOUS
<1>2. Cardinality(S) \in Bad
  BY <1>1, FewTimes
<1>3. PICK n \in Bad : \A j \in Bad : n <= j
  BY <1>2, LeastExists
<1>4. PICK T \in SUBSET Times : Cardinality(T) = n /\ ~ \E w : IsOrder(w, T)
  BY <1>3
<1>5. T # {}
  <2>1. SUFFICES ASSUME T = {} PROVE FALSE
    OBVIOUS
  <2>2. Cardinality(T) = 0
    BY <2>1, FS_EmptySet
  <2>3. IsOrder([i \in 1..0 |-> 0], T)
    BY <2>2 DEF IsOrder
  <2> QED
    BY <1>4, <2>3
<1>6. PICK m \in T : \A x \in T : m <= x
  BY <1>5, FewTimes, LeastExists
<1>7. T \ {m} \in SUBSET Times /\ n \in Nat /\ Cardinality(T \ {m}) = n - 1 /\ n - 1 \in Nat
  <2>1. Cardinality(T \ {m}) = Cardinality(T) - 1
    BY FewTimes, FS_RemoveElement
  <2>2. Cardinality(T \ {m}) \in Nat
    BY FewTimes
  <2> QED
    BY <1>4, <2>1, <2>2
<1>8. n - 1 \notin Bad
  BY <1>3, <1>7
<1>9. PICK v : IsOrder(v, T \ {m})
  BY <1>7, <1>8
<1> QED
  BY <1>4, <1>6, <1>9, FirstPut

(* Every member has a place. *)
LEMMA OrderHasAll ==
    ASSUME NEW S \in SUBSET Times, NEW w, IsOrder(w, S)
    PROVE  \A x \in S : \E i \in 1..Cardinality(S) : w[i] = x
<1>1. PICK n \in Nat : n = Cardinality(S)
  BY FewTimes
<1>2. w \in [1..n -> S] /\ \A i, j \in 1..n : i < j => w[i] < w[j]
  BY <1>1 DEF IsOrder
<1>3. ASSUME NEW i \in 1..n, NEW j \in 1..n, w[i] = w[j] PROVE i = j
  <2>1. w[i] \in Nat /\ w[j] \in Nat
    BY <1>2, FewTimes
  <2>2. ~ (i < j) /\ ~ (j < i)
    BY <1>2, <1>3, <2>1
  <2> QED
    BY <2>2
<1>4. w \in Injection(1..n, S)
  BY <1>2, <1>3 DEF Injection, IsInjective
<1>5. Cardinality(1..n) = n
  BY FS_Interval
<1>6. w \in Surjection(1..n, S)
  BY <1>1, <1>4, <1>5, FewTimes, FS_Injection
<1> QED
  BY <1>1, <1>6 DEF Surjection

(* There is but one order. *)
LEMMA OrderIsOne ==
    ASSUME NEW S \in SUBSET Times, NEW v, NEW w, IsOrder(v, S), IsOrder(w, S)
    PROVE  v = w
<1>1. PICK n \in Nat : n = Cardinality(S)
  BY FewTimes
<1>2. /\ v \in [1..n -> S] /\ \A i, j \in 1..n : i < j => v[i] < v[j]
      /\ w \in [1..n -> S] /\ \A i, j \in 1..n : i < j => w[i] < w[j]
      /\ \A x \in S : \E i \in 1..n : v[i] = x
      /\ \A x \in S : \E i \in 1..n : w[i] = x
      /\ S \subseteq Nat
  BY SMTT(60), <1>1, OrderHasAll, FewTimes DEF IsOrder
<1> DEFINE D == {i \in 1..n : v[i] # w[i]}
<1>3. SUFFICES ASSUME D # {} PROVE FALSE
  BY <1>2
<1>4. PICK i \in D : \A j \in D : i <= j
  <2>1. D \in SUBSET Nat
    OBVIOUS
  <2> HIDE DEF D
  <2> QED
    BY <1>3, <2>1, LeastExists
<1>5. i \in 1..n /\ v[i] # w[i] /\ v[i] \in Nat /\ w[i] \in Nat /\ v[i] \in S /\ w[i] \in S
  BY <1>2, <1>4
<1>6. \A j \in 1..n : j < i => v[j] = w[j]
  BY <1>4, <1>5
<1>7. CASE v[i] < w[i]
  <2>1. PICK j \in 1..n : w[j] = v[i]
    BY <1>2, <1>5
  <2>2. ~ (j < i)
    BY <1>2, <1>5, <1>6, <2>1
  <2>3. ~ (i < j)
    BY <1>2, <1>5, <1>7, <2>1
  <2> QED
    BY <1>5, <2>1, <2>2, <2>3
<1>8. CASE w[i] < v[i]
  <2>1. PICK j \in 1..n : v[j] = w[i]
    BY <1>2, <1>5
  <2>2. ~ (j < i)
    BY <1>2, <1>5, <1>6, <2>1
  <2>3. ~ (i < j)
    BY <1>2, <1>5, <1>8, <2>1
  <2> QED
    BY <1>5, <2>1, <2>2, <2>3
<1> QED
  BY <1>5, <1>7, <1>8

LEMMA InOrderOrders ==
    ASSUME NEW S \in SUBSET Times
    PROVE  IsOrder(InOrder(S), S) /\ \A w : IsOrder(w, S) => w = InOrder(S)
<1>1. \E w \in [1..Cardinality(S) -> S] : \A i, j \in DOMAIN w : i < j => w[i] < w[j]
  BY OrderExists DEF IsOrder
<1>2. IsOrder(InOrder(S), S)
  BY <1>1 DEF InOrder, IsOrder
<1> QED
  BY <1>2, OrderIsOne

(* The last is put behind the others. *)
LEMMA LastPut ==
    ASSUME NEW S \in SUBSET Times, NEW t \in Times, \A x \in S : x < t
    PROVE  InOrder(S \cup {t}) = Append(InOrder(S), t)
<1>1. PICK n \in Nat : n = Cardinality(S)
  BY FewTimes
<1>2. PICK w : w = InOrder(S)
  OBVIOUS
<1>3. w \in [1..n -> S] /\ (\A i, j \in 1..n : i < j => w[i] < w[j]) /\ t \notin S /\ t \in Nat
  BY <1>1, <1>2, InOrderOrders, TimesAreNumbers DEF IsOrder
<1>4. Cardinality(S \cup {t}) = n + 1
  BY <1>1, <1>3, FewTimes, FS_AddElement
<1>5. w \in Seq(Nat)
  <2>1. w \in [1..n -> Nat]
    BY <1>3, FewTimes
  <2> QED
    BY <2>1
<1>6. PICK u : u = Append(w, t)
  OBVIOUS
<1>7. /\ u \in [1..n + 1 -> S \cup {t}] /\ u[n + 1] = t
      /\ \A i \in 1..n : u[i] = w[i]
  <2>1. Len(w) = n
    BY <1>3, <1>5
  <2>2. /\ u \in Seq(Nat) /\ Len(u) = n + 1 /\ u[n + 1] = t
        /\ \A i \in 1..n : u[i] = w[i]
    BY <1>3, <1>5, <1>6, <2>1
  <2>3. u = [i \in 1..n + 1 |-> u[i]] /\ \A i \in 1..n + 1 : u[i] \in S \cup {t}
    BY <1>3, <2>2
  <2> QED
    BY <2>2, <2>3
<1>8. ASSUME NEW i \in 1..n + 1, NEW j \in 1..n + 1, i < j PROVE u[i] < u[j]
  <2>1. i \in 1..n /\ u[i] = w[i] /\ w[i] \in S
    BY <1>3, <1>7, <1>8
  <2>2. j = n + 1 \/ (j \in 1..n /\ u[j] = w[j])
    BY <1>7
  <2> QED
    BY <1>3, <1>7, <1>8, <2>1, <2>2
<1>9. IsOrder(u, S \cup {t})
  BY <1>4, <1>7, <1>8 DEF IsOrder
<1> QED
  BY <1>2, <1>6, <1>9, InOrderOrders

(* A set of times that is not empty has a last one. *)
LEMMA LatestExists ==
    ASSUME NEW S \in SUBSET Times, S # {}
    PROVE  \E t \in S : \A s \in S : s <= t
<1>0. PICK w : IsOrder(w, S)
  BY OrderExists
<1>1. PICK n \in Nat : n = Cardinality(S) /\ IsOrder(w, S)
  BY <1>0, FewTimes
<1>2. /\ w \in [1..n -> S] /\ \A i, j \in 1..n : i < j => w[i] < w[j]
      /\ \A x \in S : \E i \in 1..n : w[i] = x
      /\ S \subseteq Nat
  BY SMTT(60), <1>1, OrderHasAll, FewTimes DEF IsOrder
<1>3. n \in 1..n
  <2>1. \E i : i \in 1..n
    BY <1>2
  <2> QED
    BY <2>1
<1>4. ASSUME NEW s \in S PROVE s <= w[n]
  <2>1. PICK i \in 1..n : w[i] = s
    BY <1>2
  <2>2. i = n \/ w[i] < w[n]
    BY <1>2, <1>3
  <2>3. w[i] \in Nat /\ w[n] \in Nat
    BY <1>2, <1>3
  <2> QED
    BY <2>1, <2>2, <2>3
<1> QED
  BY <1>2, <1>3, <1>4

-----------------------------------------------------------------------------
(* The inductive invariant *)

(* A frame is a record with these fields; what a broadcast still has to    *)
(* send may be any list of messages.                                       *)
FramesWith(todo, left, size, provided) ==
    [at : {"none", "idle", "sending", "closing", "ended"}, todo : {todo},
     cleaning : BOOLEAN, pos : Nat, left : {left}, size : {size}, provided : {provided},
     owed : SUBSET Conns]

IsFrame(f) == f \in FramesWith(f.todo, f.left, f.size, f.provided)

Typed ==
    /\ slots \in Seq(Conns \cup {Nobody})
    /\ link \in [Conns -> {"new", "open", "closed"}]
    /\ subs \in [Conns -> SUBSET uuids] /\ pubs \in [Conns -> SUBSET uuids]
    /\ task = [c \in Conns |-> task[c]] /\ \A c \in Conns : IsFrame(task[c])

(* Who has not come yet provides nothing.                                  *)
Strangers == \A c \in Conns : link[c] = "new" => pubs[c] = {}

(* A connection that a broadcast owes its message is still open, still     *)
(* subscribed, and still ahead of the iterator: what makes a finished      *)
(* broadcast complete.                                                     *)
Awaits(d, f, table, ends, wants) ==
    /\ ends[d] = "open" /\ Head(f.todo).uuid \in wants[d]
    /\ \E i \in DOMAIN table : i > f.pos /\ table[i] = d

OwedAhead ==
    \A c \in Conns : task[c].at = "sending" =>
        \A d \in task[c].owed : Awaits(d, task[c], slots, link, subs)

IInv == Typed /\ Strangers /\ OneProvider /\ OwedAhead /\ NoneSkipped

THEOREM InitIInv == Init => IInv
BY LocalAreConns DEF Init, IInv, Typed, Strangers, OneProvider, OwedAhead, NoneSkipped,
   IsFrame, FramesWith, Frame, Entries

(* A new frame is a frame.                                                 *)
LEMMA FrameIsFrame ==
    ASSUME NEW at \in {"none", "idle", "sending", "closing", "ended"}
    PROVE  IsFrame(Frame(at)) /\ Frame(at).at = at
BY DEF IsFrame, FramesWith, Frame

(* A broadcast begins by owing its first message to whom it will find.     *)
LEMMA BroadcastBegins ==
    ASSUME Typed, NEW f, IsFrame(f), NEW todo
    PROVE  /\ IsFrame(Broadcast(f, todo))
           /\ Broadcast(f, todo).todo = todo /\ Broadcast(f, todo).pos = 0
           /\ \A d \in Broadcast(f, todo).owed :
                 Awaits(d, Broadcast(f, todo), slots, link, subs)
<1> DEFINE u == Head(todo).uuid
           owed == {d \in Subscribers(u) : link[d] = "open"}
           g == Broadcast(f, todo)
<1>1. Entries(slots) \subseteq Conns
  BY DEF Typed, Entries
<1>2. g = [at |-> "sending", todo |-> todo, cleaning |-> f.cleaning, pos |-> 0,
           left |-> Used, size |-> Used, provided |-> f.provided, owed |-> owed]
  BY DEF Broadcast
<1>3. owed \subseteq Conns
  BY <1>1 DEF Subscribers
<1>4. IsFrame(g) /\ g.todo = todo /\ g.pos = 0 /\ g.owed = owed
  BY <1>2, <1>3 DEF IsFrame, FramesWith
<1>5. ASSUME NEW d \in owed PROVE Awaits(d, g, slots, link, subs)
  <2>1. \E i \in DOMAIN slots : slots[i] = d
    BY DEF Subscribers, Entries
  <2>2. \A i \in DOMAIN slots : i > 0
    BY DEF Typed
  <2> HIDE DEF g
  <2> QED
    BY <1>4, <2>1, <2>2 DEF Awaits, Subscribers
<1> HIDE DEF g, owed
<1> QED
  BY <1>4, <1>5 DEF g

(* The connection that is served next is the first that is due.            *)
LEMMA TargetIsFirst ==
    ASSUME Typed, NEW f, Due(f) # {}
    PROVE  Target(f) \in Due(f) /\ \A j \in Due(f) : Target(f) <= j
<1>1. Due(f) \in SUBSET Nat
  BY DEF Due, Ahead, Typed
<1> QED
  BY <1>1, LeastExists DEF Target

(* A broadcast to which nobody is due any more owes nothing.               *)
LEMMA NobodyDue ==
    ASSUME Typed, NEW f, IsFrame(f), Due(f) = {},
           \A d \in f.owed : Awaits(d, f, slots, link, subs)
    PROVE  f.owed = {}
<1>1. ASSUME NEW d \in f.owed PROVE FALSE
  <2>1. PICK i \in DOMAIN slots : i > f.pos /\ slots[i] = d
    BY DEF Awaits
  <2>2. d \in Conns
    BY DEF IsFrame, FramesWith
  <2>3. i \in Due(f)
    BY <2>1, <2>2, LocalAreConns DEF Awaits, Due, Ahead
  <2> QED
    BY <2>3
<1> QED
  BY <1>1

-----------------------------------------------------------------------------
(* Each step preserves it *)

(* A step that leaves the coroutines and who is connected alone.           *)
LEMMA QuietStep ==
    ASSUME IInv, UNCHANGED <<slots, link, subs, pubs, task, missed>>
    PROVE  IInv'
BY DEF IInv, Typed, Strangers, OneProvider, OwedAhead, NoneSkipped, uuids

(* What a broadcast owes it still owes when its iterator has not moved and *)
(* the connection is open, subscribed and in its slot.                     *)
LEMMA StillAwaits ==
    ASSUME NEW d, NEW f, NEW g, g.todo = f.todo, g.pos = f.pos,
           NEW table, NEW ends, NEW wants, NEW table2, NEW ends2, NEW wants2,
           Awaits(d, f, table, ends, wants),
           ends2[d] = "open", wants[d] \subseteq wants2[d],
           \A i \in DOMAIN table : table[i] = d => i \in DOMAIN table2 /\ table2[i] = d
    PROVE  Awaits(d, g, table2, ends2, wants2)
BY DEF Awaits

LEMMA ConnectStep ==
    ASSUME IInv, NEW c \in Conns, Connect(c) PROVE IInv'
<1>1. Typed'
  BY FrameIsFrame DEF IInv, Typed, Connect, uuids
<1>2. Strangers' /\ NoneSkipped'
  BY DEF IInv, Typed, Strangers, NoneSkipped, Connect
<1>3. OneProvider'
  <2>1. Entries(slots') \subseteq Entries(slots) \cup {c}
    BY DEF Entries, IInv, Typed, Connect
  <2>2. pubs[c] = {} /\ pubs' = pubs
    BY DEF IInv, Strangers, Connect
  <2> QED
    BY <2>1, <2>2 DEF IInv, OneProvider
<1>4. OwedAhead'
  <2> SUFFICES ASSUME NEW e \in Conns, task'[e].at = "sending", NEW d \in task'[e].owed
               PROVE  Awaits(d, task'[e], slots', link', subs')
    BY DEF OwedAhead
  <2>1. e # c /\ task'[e] = task[e]
    BY FrameIsFrame DEF Connect, IInv, Typed
  <2>2. Awaits(d, task[e], slots, link, subs)
    BY <2>1 DEF IInv, OwedAhead
  <2>3. d \in Conns /\ link[d] = "open" /\ link'[d] = "open" /\ subs' = subs
    BY <2>1, <2>2 DEF Connect, IInv, Typed, Awaits, IsFrame, FramesWith
  <2>4. \A i \in DOMAIN slots : slots[i] = d => i \in DOMAIN slots' /\ slots'[i] = d
    BY DEF Connect, IInv, Typed
  <2> QED
    BY <2>1, <2>2, <2>3, <2>4, StillAwaits
<1> QED
  BY <1>1, <1>2, <1>3, <1>4 DEF IInv

(* A step of one coroutine that leaves the table and the subscriptions     *)
(* alone.  Its new frame owes only what it awaits; the other frames owe    *)
(* less when a connection has gone.                                        *)
OneMoves(c, f, gone) ==
    /\ UNCHANGED <<slots, subs, pubs, missed>>
    /\ link' = [d \in Conns |-> IF d \in gone THEN "closed" ELSE link[d]]
    /\ IsFrame(f)
    /\ f.at = "sending" => \A d \in f.owed : Awaits(d, f, slots, link', subs)
    /\ task' = [d \in Conns |-> task'[d]]
    /\ task'[c] = f
    /\ \A d \in Conns \ {c} :
         task'[d] = IF gone = {} THEN task[d] ELSE [task[d] EXCEPT !.owed = @ \ gone]

LEMMA CoroutineStep ==
    ASSUME IInv, NEW c \in Conns, NEW gone \in SUBSET Conns, NEW f, OneMoves(c, f, gone)
    PROVE  IInv'
<1> USE DEF OneMoves
<1>1. ASSUME NEW e \in Conns, e # c
      PROVE  /\ IsFrame(task'[e]) /\ task'[e].at = task[e].at
             /\ task'[e].todo = task[e].todo /\ task'[e].pos = task[e].pos
             /\ task'[e].owed = task[e].owed \ gone
  <2>1. IsFrame(task[e])
    BY DEF IInv, Typed
  <2>2. CASE gone = {}
    BY <1>1, <2>1, <2>2
  <2>3. CASE gone # {}
    BY <1>1, <2>1, <2>3 DEF IsFrame, FramesWith
  <2> QED
    BY <2>2, <2>3
<1>2. Typed'
  BY <1>1 DEF IInv, Typed, uuids
<1>3. Strangers' /\ NoneSkipped' /\ OneProvider'
  BY DEF IInv, Strangers, NoneSkipped, OneProvider, Typed
<1>4. OwedAhead'
  <2> SUFFICES ASSUME NEW e \in Conns, task'[e].at = "sending", NEW d \in task'[e].owed
               PROVE  Awaits(d, task'[e], slots', link', subs')
    BY DEF OwedAhead
  <2>1. CASE e = c
    BY <2>1
  <2>2. CASE e # c
    <3>1. Awaits(d, task[e], slots, link, subs) /\ d \in task[e].owed /\ d \notin gone
      BY <2>2, <1>1 DEF IInv, OwedAhead
    <3>2. d \in Conns
      BY <3>1 DEF IInv, Typed, IsFrame, FramesWith
    <3>3. link'[d] = "open" /\ subs' = subs /\ slots' = slots
      BY <3>1, <3>2 DEF Awaits
    <3> QED
      BY <3>1, <3>3, <2>2, <1>1, StillAwaits
  <2> QED
    BY <2>1, <2>2
<1> QED
  BY <1>2, <1>3, <1>4 DEF IInv

LEMMA DisconnectStep ==
    ASSUME IInv, NEW c \in Conns, Disconnect(c) PROVE IInv'
<1> DEFINE f == [task[c] EXCEPT !.owed = @ \ {c}]
<1>1. IsFrame(task[c])
  BY DEF IInv, Typed
<1>2. /\ IsFrame(f) /\ f.at = task[c].at /\ f.todo = task[c].todo /\ f.pos = task[c].pos
      /\ f.owed = task[c].owed \ {c}
  BY <1>1 DEF IsFrame, FramesWith
<1> HIDE DEF f
<1>3. link' = [d \in Conns |-> IF d \in {c} THEN "closed" ELSE link[d]]
  BY DEF Disconnect, IInv, Typed
<1>4. ASSUME f.at = "sending", NEW d \in f.owed
      PROVE  Awaits(d, f, slots, link', subs)
  <2>1. Awaits(d, task[c], slots, link, subs) /\ d # c /\ d \in Conns
    BY <1>1, <1>2, <1>4 DEF IInv, OwedAhead, IsFrame, FramesWith
  <2>2. link'[d] = "open"
    BY <2>1, <1>3 DEF Awaits
  <2> QED
    BY <2>1, <2>2, <1>2, StillAwaits
<1>5. /\ task' = [d \in Conns |-> task'[d]] /\ task'[c] = f
      /\ \A d \in Conns \ {c} : task'[d] = [task[d] EXCEPT !.owed = @ \ {c}]
  BY DEF Disconnect, f
<1>6. OneMoves(c, f, {c})
  BY <1>2, <1>3, <1>4, <1>5 DEF Disconnect, OneMoves
<1> QED
  BY <1>6, CoroutineStep

LEMMA SendStep ==
    ASSUME IInv, NEW c \in Conns, Send(c) PROVE IInv'
<1> DEFINE f == task[c]
           d0 == slots[Target(f)]
           g == [f EXCEPT !.pos = Target(f), !.left = @ - Cardinality(Upto(f)),
                          !.owed = @ \ {d0}]
<1>1. IsFrame(f)
  BY DEF IInv, Typed
<1>2. Target(f) \in Due(f) /\ \A j \in Due(f) : Target(f) <= j
  BY TargetIsFirst DEF IInv, Send
<1>3. Target(f) \in Nat
  BY <1>2 DEF Due, Ahead, IInv, Typed
<1>4. /\ IsFrame(g) /\ g.at = f.at /\ g.todo = f.todo /\ g.pos = Target(f)
      /\ g.owed = f.owed \ {d0}
  BY <1>1, <1>3 DEF IsFrame, FramesWith
<1>5. ASSUME NEW d \in g.owed
      PROVE  Awaits(d, g, slots, link, subs)
  <2>1. Awaits(d, f, slots, link, subs) /\ d # d0 /\ d \in Conns
    BY <1>1, <1>4, <1>5 DEF IInv, OwedAhead, IsFrame, FramesWith, Send
  <2>2. PICK i \in DOMAIN slots : i > f.pos /\ slots[i] = d
    BY <2>1 DEF Awaits
  <2>3. i \in Due(f)
    BY <2>1, <2>2, LocalAreConns DEF Due, Ahead, Awaits
  <2>4. i > Target(f)
    BY <1>2, <1>3, <2>1, <2>2, <2>3 DEF IInv, Typed
  <2> QED
    BY <2>1, <2>2, <2>4, <1>4 DEF Awaits
<1>6. task' = [task EXCEPT ![c] = g]
  BY Zenon DEF Send
<1> HIDE DEF g
<1>7. /\ task' = [d \in Conns |-> task'[d]] /\ task'[c] = g
      /\ \A d \in Conns \ {c} : task'[d] = task[d]
  BY <1>6 DEF IInv, Typed
<1>8. UNCHANGED <<slots, link, subs, pubs, missed>>
  BY DEF Send, peerVars
<1>9. link' = [d \in Conns |-> IF d \in {} THEN "closed" ELSE link[d]] /\ link' = link
  BY <1>8 DEF IInv, Typed
<1>10. OneMoves(c, g, {})
  BY <1>4, <1>5, <1>7, <1>8, <1>9 DEF OneMoves
<1> QED
  BY <1>10, CoroutineStep

(* A coroutine takes a frame that owes nothing or only what it awaits.     *)
LEMMA NewFrame ==
    ASSUME IInv, NEW c \in Conns, NEW f, IsFrame(f), UNCHANGED <<peerVars, missed>>,
           f.at = "sending" => \A d \in f.owed : Awaits(d, f, slots, link, subs),
           task' = [task EXCEPT ![c] = f]
    PROVE  IInv'
<1>1. /\ task' = [d \in Conns |-> task'[d]] /\ task'[c] = f
      /\ \A d \in Conns \ {c} : task'[d] = task[d]
  BY DEF IInv, Typed
<1>2. link' = [d \in Conns |-> IF d \in {} THEN "closed" ELSE link[d]] /\ link' = link
  BY DEF peerVars, IInv, Typed
<1>3. OneMoves(c, f, {})
  BY <1>1, <1>2 DEF OneMoves, peerVars
<1> QED
  BY <1>3, CoroutineStep

LEMMA BroadcastEndsStep ==
    ASSUME IInv, NEW c \in Conns, BroadcastEnds(c) PROVE IInv'
<1> DEFINE f == task[c]
           g == [f EXCEPT !.at = Finished(c), !.todo = <<>>]
<1>1. IsFrame(f)
  BY DEF IInv, Typed
<1>2. f.owed = {}
  BY <1>1, NobodyDue DEF IInv, OwedAhead, BroadcastEnds
<1>3. missed' = missed /\ UNCHANGED <<peerVars, missed>>
  BY <1>2 DEF BroadcastEnds, IInv, NoneSkipped
<1>4. CASE Len(f.todo) > 1
  <2>1. task' = [task EXCEPT ![c] = Broadcast(f, Tail(f.todo))]
    BY <1>4 DEF BroadcastEnds
  <2>2. /\ IsFrame(Broadcast(f, Tail(f.todo)))
        /\ \A d \in Broadcast(f, Tail(f.todo)).owed :
              Awaits(d, Broadcast(f, Tail(f.todo)), slots, link, subs)
    BY <1>1, BroadcastBegins DEF IInv
  <2> QED
    BY <1>3, <2>1, <2>2, NewFrame
<1>5. CASE ~ (Len(f.todo) > 1)
  <2>1. task' = [task EXCEPT ![c] = g]
    BY <1>5 DEF BroadcastEnds
  <2>2. Finished(c) \in {"closing", "idle"}
    BY DEF Finished
  <2>3. IsFrame(g) /\ g.at # "sending"
    BY <1>1, <2>2 DEF IsFrame, FramesWith
  <2> HIDE DEF g
  <2> QED
    BY <1>3, <2>1, <2>3, NewFrame
<1> QED
  BY <1>4, <1>5

LEMMA CleanupStep ==
    ASSUME IInv, NEW c \in Conns, Cleanup(c) PROVE IInv'
<1>1. CASE task' = [task EXCEPT ![c] = [Frame("closing") EXCEPT !.cleaning = TRUE]]
  <2> DEFINE g == [Frame("closing") EXCEPT !.cleaning = TRUE]
  <2>1. IsFrame(g) /\ g.at # "sending"
    BY DEF Frame, IsFrame, FramesWith
  <2> HIDE DEF g
  <2>2. task' = [task EXCEPT ![c] = g]
    BY <1>1 DEF g
  <2> QED
    BY <2>1, <2>2, NewFrame DEF Cleanup
<1>2. ASSUME NEW order,
             LET f == [Frame("sending") EXCEPT !.cleaning = TRUE,
                                               !.provided = Cardinality(pubs[c])]
             IN  task' = [task EXCEPT ![c] =
                        Broadcast(f, [i \in DOMAIN order |-> Inactive(order[i])])]
      PROVE  IInv'
  <2> DEFINE f == [Frame("sending") EXCEPT !.cleaning = TRUE,
                                           !.provided = Cardinality(pubs[c])]
             todo == [i \in DOMAIN order |-> Inactive(order[i])]
  <2>1. IsFrame(f)
    BY DEF Frame, IsFrame, FramesWith
  <2>2. task' = [task EXCEPT ![c] = Broadcast(f, todo)]
    BY <1>2
  <2> HIDE DEF f, todo
  <2>3. /\ IsFrame(Broadcast(f, todo))
        /\ \A d \in Broadcast(f, todo).owed :
              Awaits(d, Broadcast(f, todo), slots, link, subs)
    BY <2>1, BroadcastBegins DEF IInv
  <2> QED
    BY <2>2, <2>3, NewFrame DEF Cleanup
<1> QED
  BY <1>1, <1>2 DEF Cleanup

(* The coroutine ends or closes its connection, to which nobody owes       *)
(* anything from then on.                                                  *)
LEMMA GoesStep ==
    ASSUME IInv, NEW c \in Conns, NEW f, IsFrame(f), f.at # "sending",
           link' = [link EXCEPT ![c] = "closed"],
           UNCHANGED <<slots, subs, pubs, missed>>,
           task' = [d \in Conns |-> IF d = c THEN f ELSE [task[d] EXCEPT !.owed = @ \ {c}]]
    PROVE  IInv'
<1>1. link' = [d \in Conns |-> IF d \in {c} THEN "closed" ELSE link[d]]
  BY DEF IInv, Typed
<1>2. OneMoves(c, f, {c})
  BY <1>1 DEF OneMoves
<1> QED
  BY <1>2, CoroutineStep

LEMMA CleanupFailsStep ==
    ASSUME IInv, NEW c \in Conns, CleanupFails(c) PROVE IInv'
<1>1. IsFrame(Frame("ended")) /\ Frame("ended").at # "sending"
  BY FrameIsFrame
<1> QED
  BY <1>1, GoesStep DEF CleanupFails

LEMMA CloseStep ==
    ASSUME IInv, NEW c \in Conns, Close(c) PROVE IInv'
<1> DEFINE f == [task[c] EXCEPT !.owed = @ \ {c}]
<1>1. IsFrame(task[c]) /\ task[c].at = "closing"
  BY DEF IInv, Typed, Close
<1>2. IsFrame(f) /\ f.at # "sending"
  BY <1>1 DEF IsFrame, FramesWith
<1>3. task' = [d \in Conns |-> IF d = c THEN f ELSE [task[d] EXCEPT !.owed = @ \ {c}]]
  BY DEF Close
<1> HIDE DEF f
<1> QED
  BY <1>2, <1>3, GoesStep DEF Close

LEMMA ForgetStep ==
    ASSUME IInv, NEW c \in Conns, Forget(c) PROVE IInv'
<1>1. slots' \in Seq(Conns \cup {Nobody}) /\ DOMAIN slots' = DOMAIN slots
      /\ \A i \in DOMAIN slots : slots'[i] = IF slots[i] = c THEN Nobody ELSE slots[i]
  BY DEF Forget, IInv, Typed
<1>2. Typed'
  BY <1>1, FrameIsFrame DEF Forget, IInv, Typed, uuids
<1>3. Entries(slots') \subseteq Entries(slots)
  BY <1>1 DEF Entries
<1>4. Strangers' /\ NoneSkipped' /\ OneProvider'
  BY <1>3 DEF Forget, IInv, Strangers, NoneSkipped, OneProvider
<1>5. OwedAhead'
  <2> SUFFICES ASSUME NEW e \in Conns, task'[e].at = "sending", NEW d \in task'[e].owed
               PROVE  Awaits(d, task'[e], slots', link', subs')
    BY DEF OwedAhead
  <2>1. e # c /\ task'[e] = task[e]
    BY FrameIsFrame DEF Forget, IInv, Typed
  <2>2. Awaits(d, task[e], slots, link, subs)
    BY <2>1 DEF IInv, OwedAhead
  <2>3. d # c /\ link'[d] = "open" /\ subs' = subs
    BY <2>2 DEF Forget, Awaits
  <2>4. \A i \in DOMAIN slots : slots[i] = d => i \in DOMAIN slots' /\ slots'[i] = d
    BY <1>1, <2>3
  <2> QED
    BY <2>1, <2>2, <2>3, <2>4, StillAwaits
<1> QED
  BY <1>2, <1>4, <1>5 DEF IInv

LEMMA SubscribeStep ==
    ASSUME IInv, NEW c \in Conns, NEW uuid \in uuids, subscribe(c, uuid) PROVE IInv'
<1>1. Typed'
  BY DEF IInv, Typed, subscribe, Answered, uuids
<1>2. Strangers' /\ NoneSkipped' /\ OneProvider'
  BY DEF IInv, Strangers, NoneSkipped, OneProvider, subscribe, Answered
<1>3. OwedAhead'
  <2> SUFFICES ASSUME NEW e \in Conns, task'[e].at = "sending", NEW d \in task'[e].owed
               PROVE  Awaits(d, task'[e], slots', link', subs')
    BY DEF OwedAhead
  <2>1. task' = task /\ slots' = slots /\ link' = link
    BY DEF subscribe, Answered
  <2>2. Awaits(d, task[e], slots, link, subs) /\ d \in Conns
    BY <2>1 DEF IInv, OwedAhead, Typed, IsFrame, FramesWith
  <2>3. subs[d] \subseteq subs'[d]
    BY <2>2 DEF subscribe, IInv, Typed
  <2>4. link'[d] = "open"
    BY <2>1, <2>2 DEF Awaits
  <2> QED
    BY <2>1, <2>2, <2>3, <2>4, StillAwaits
<1> QED
  BY <1>1, <1>2, <1>3 DEF IInv

LEMMA ProvideStep ==
    ASSUME IInv, NEW c \in Conns, NEW uuid \in uuids, addActiveStream(c, uuid) PROVE IInv'
<1>1. CASE pubs' = pubs
  BY <1>1, QuietStep DEF addActiveStream, Answered
<1>2. CASE /\ \A d \in Entries(slots) : uuid \notin pubs[d]
           /\ pubs' = [pubs EXCEPT ![c] = @ \cup {uuid}]
  <2>1. Typed' /\ NoneSkipped' /\ OwedAhead'
    BY <1>2 DEF IInv, Typed, NoneSkipped, OwedAhead, addActiveStream, Answered, uuids
  <2>2. link[c] # "new"
    BY DEF addActiveStream, Asks
  <2>3. Strangers'
    BY <1>2, <2>2 DEF IInv, Strangers, addActiveStream, Answered, Typed
  <2>4. Entries(slots) \subseteq Conns
    BY DEF Entries, IInv, Typed
  <2>5. \A d \in Entries(slots) : d # c => pubs'[d] = pubs[d] /\ uuid \notin pubs'[d]
    BY <1>2, <2>4 DEF IInv, Typed
  <2>6. c \in Entries(slots) => pubs'[c] = pubs[c] \cup {uuid}
    BY <1>2 DEF IInv, Typed
  <2>7. OneProvider'
    BY <2>5, <2>6 DEF IInv, OneProvider, addActiveStream
  <2> QED
    BY <2>1, <2>3, <2>7 DEF IInv
<1> QED
  BY <1>1, <1>2 DEF addActiveStream

LEMMA InactiveStep ==
    ASSUME IInv, NEW c \in Conns, streamInactive(c) PROVE IInv'
<1> DEFINE several == Cardinality(Entries(slots) \cap Local) > 1
           losers  == IF several THEN {c} ELSE Entries(slots)
           todo    == <<Inactive(Stream), Inactive(Publication)>>
           owed    == {e \in Subscribers(Stream) \ losers : link[e] = "open"}
           b       == Broadcast(Frame("sending"), todo)
           f       == [b EXCEPT !.owed = owed]
<1>1. /\ subs' = [d \in Conns |-> IF d \in losers THEN subs[d] \ uuids ELSE subs[d]]
      /\ pubs' = [d \in Conns |-> IF d \in losers THEN pubs[d] \ uuids ELSE pubs[d]]
      /\ task' = [d \in Conns |-> IF d = c THEN f ELSE [task[d] EXCEPT !.owed = @ \ losers]]
      /\ UNCHANGED <<slots, link, missed>>
  BY Zenon DEF streamInactive
<1>2. Entries(slots) \subseteq Conns
  BY DEF IInv, Typed, Entries
<1>3. owed \subseteq Conns
  BY <1>2 DEF Subscribers
<1> HIDE DEF several, owed
<1>4. /\ IsFrame(f) /\ f.owed = owed /\ f.pos = 0 /\ Head(f.todo).uuid = Stream
  <2>1. IsFrame(b) /\ b.todo = todo /\ b.pos = 0
    BY FrameIsFrame, BroadcastBegins, Zenon DEF IInv
  <2>2. Head(todo) = Inactive(Stream)
    OBVIOUS
  <2> HIDE DEF b, todo
  <2>3. IsFrame(f) /\ f.owed = owed /\ f.pos = 0 /\ f.todo = todo
    BY <1>3, <2>1 DEF IsFrame, FramesWith
  <2> QED
    BY <2>2, <2>3 DEF Inactive
<1> HIDE DEF f
<1>5. ASSUME NEW e \in Conns, e # c
      PROVE  /\ IsFrame(task'[e]) /\ task'[e].at = task[e].at
             /\ task'[e].todo = task[e].todo /\ task'[e].pos = task[e].pos
             /\ task'[e].owed = task[e].owed \ losers
  <2> HIDE DEF losers
  <2>1. IsFrame(task[e])
    BY DEF IInv, Typed
  <2>2. task'[e] = [task[e] EXCEPT !.owed = @ \ losers]
    BY <1>1, <1>5
  <2> QED
    BY <2>1, <2>2 DEF IsFrame, FramesWith
<1> HIDE DEF losers
<1>6. task'[c] = f
  BY <1>1
<1>7. \A e \in Conns : IsFrame(task'[e])
  BY <1>4, <1>5, <1>6
<1>8. Typed'
  BY <1>1, <1>7 DEF IInv, Typed, uuids
<1>9. Strangers' /\ NoneSkipped'
  BY <1>1 DEF IInv, Strangers, NoneSkipped, Typed
<1>10. OneProvider'
  <2>1. \A d \in Entries(slots) : pubs'[d] \subseteq pubs[d]
    BY <1>1, <1>2
  <2> QED
    BY <1>1, <2>1 DEF IInv, OneProvider
<1>11. \A d \in Conns \ losers : subs'[d] = subs[d]
  BY <1>1
<1>12. OwedAhead'
  <2> SUFFICES ASSUME NEW e \in Conns, task'[e].at = "sending", NEW d \in task'[e].owed
               PROVE  Awaits(d, task'[e], slots', link', subs')
    BY DEF OwedAhead
  <2>1. CASE e = c
    <3>1. d \in Subscribers(Stream) /\ d \notin losers /\ link[d] = "open" /\ d \in Conns
      BY <2>1, <1>3, <1>4, <1>6 DEF owed
    <3>2. Stream \in subs'[d]
      BY <3>1, <1>11 DEF Subscribers
    <3>3. \E i \in DOMAIN slots : i > 0 /\ slots[i] = d
      BY <3>1 DEF Subscribers, Entries, IInv, Typed
    <3> QED
      BY <2>1, <3>1, <3>2, <3>3, <1>1, <1>4, <1>6 DEF Awaits
  <2>2. CASE e # c
    <3>1. /\ Awaits(d, task[e], slots, link, subs) /\ d \in Conns \ losers
          /\ task'[e].todo = task[e].todo /\ task'[e].pos = task[e].pos
      BY <2>2, <1>5 DEF IInv, OwedAhead, Typed, IsFrame, FramesWith
    <3>2. subs'[d] = subs[d] /\ slots' = slots /\ link' = link /\ link[d] = "open"
      BY <3>1, <1>11, <1>1 DEF Awaits
    <3> QED
      BY <3>1, <3>2, StillAwaits
  <2> QED
    BY <2>1, <2>2
<1> QED
  BY <1>8, <1>9, <1>10, <1>12 DEF IInv

LEMMA InsertStep ==
    ASSUME IInv, NEW c \in Conns, NEW t, NEW hash, insertSubscription(c, t, hash) PROVE IInv'
<1>1. CASE UNCHANGED task
  BY <1>1, QuietStep DEF insertSubscription, peerVars
<1>2. ASSUME NEW todo, task' = [task EXCEPT ![c] = Broadcast(Frame("sending"), todo)]
      PROVE  IInv'
  <2>1. IsFrame(Frame("sending"))
    BY FrameIsFrame
  <2>2. /\ IsFrame(Broadcast(Frame("sending"), todo))
        /\ \A d \in Broadcast(Frame("sending"), todo).owed :
              Awaits(d, Broadcast(Frame("sending"), todo), slots, link, subs)
    BY <2>1, BroadcastBegins DEF IInv
  <2> QED
    BY <1>2, <2>2, NewFrame DEF insertSubscription
<1> QED
  BY <1>1, <1>2 DEF insertSubscription

THEOREM NextIInv == IInv /\ [Next]_vars => IInv'
<1> SUFFICES ASSUME IInv, [Next]_vars PROVE IInv'
  OBVIOUS
<1>1. CASE UNCHANGED vars
  BY <1>1, QuietStep DEF vars
<1>2. ASSUME NEW c \in Conns, Connect(c) \/ Disconnect(c) PROVE IInv'
  BY <1>2, ConnectStep, DisconnectStep
<1>3. ASSUME NEW c \in Conns, Step(c) PROVE IInv'
  <2>1. MessagesEnd(c) \/ RequestFails(c) => Cleanup(c)
    BY DEF MessagesEnd, RequestFails
  <2> QED
    BY <1>3, <2>1, SendStep, BroadcastEndsStep, CleanupStep, CleanupFailsStep, CloseStep,
       ForgetStep DEF Step
<1>4. ASSUME NEW c \in Conns, Request(c) PROVE IInv'
  <2>1. CASE \E uuid \in uuids : subscribe(c, uuid) \/ addActiveStream(c, uuid)
    BY <2>1, SubscribeStep, ProvideStep
  <2>2. CASE streamInactive(c)
    BY <2>2, InactiveStep
  <2>3. CASE \E t \in Times : \E hash \in HashesOf(t) : insertSubscription(c, t, hash)
    BY <2>3, InsertStep
  <2>4. CASE \E frame \in Frames, replace \in BOOLEAN : insertFrame(c, frame, replace)
    BY <2>4, QuietStep DEF insertFrame, Answered, peerVars
  <2>5. CASE \E times \in SUBSET Times : mergeFromCsv(c, times) \/ deleteStreamData(c, times)
    BY <2>5, QuietStep DEF mergeFromCsv, deleteStreamData, Answered, peerVars
  <2> QED
    BY <1>4, <2>1, <2>2, <2>3, <2>4, <2>5 DEF Request
<1> QED
  BY <1>1, <1>2, <1>3, <1>4 DEF Next

-----------------------------------------------------------------------------
(* Every variable keeps its type; the frame of a broadcast is whole         *)
(* wherever it was interrupted.                                            *)
THEOREM TypeCorrect == Spec => []Typed
<1>1. IInv => Typed
  BY DEF IInv
<1> QED
  BY InitIInv, NextIInv, <1>1, PTL DEF Spec

(* Every broadcast that comes to its end has reached all connections that  *)
(* were open and subscribed throughout, however connections come and go    *)
(* between its sends (updateSubscribers).                                  *)
THEOREM NoneSkippedAlways == Spec => []NoneSkipped
<1>1. IInv => NoneSkipped
  BY DEF IInv
<1> QED
  BY InitIInv, NextIInv, <1>1, PTL DEF Spec

(* No two connections in the table provide one stream (addActiveStream).   *)
THEOREM OneProviderAlways == Spec => []OneProvider
<1>1. IInv => OneProvider
  BY DEF IInv
<1> QED
  BY InitIInv, NextIInv, <1>1, PTL DEF Spec

-----------------------------------------------------------------------------
(* The chain of hashes *)

(* The table has times for its keys.                                       *)
TableTyped == DOMAIN rows \subseteq Times /\ rows = [t \in DOMAIN rows |-> rows[t]]

ChainInv == TableTyped /\ ChainValid

LEMMA ChainedType ==
    ASSUME NEW S
    PROVE  DOMAIN Chained(S) = S /\ Chained(S) = [t \in S |-> Chained(S)[t]]
BY DEF Chained

LEMMA EmptyIsChained == Empty = Chained({}) /\ DOMAIN Empty = {}
BY DEF Empty, Chained

LEMMA EmptyOrder == InOrder({}) = <<>>
<1>1. Cardinality({}) = 0
  BY FS_EmptySet
<1>2. InOrder({}) \in [1..0 -> {}]
  BY <1>1, InOrderOrders DEF IsOrder
<1> QED
  BY <1>2

(* The hash of the latest row is over all rows.                            *)
LEMMA LastHash ==
    ASSUME NEW S \in SUBSET Times
    PROVE  getLastHash(Chained(S)) = InOrder(S)
<1>1. CASE S = {}
  BY <1>1, EmptyIsChained, EmptyOrder DEF getLastHash
<1>2. CASE S # {}
  <2> DEFINE l == Latest(Chained(S))
  <2>1. DOMAIN Chained(S) = S /\ Chained(S) # Empty
    BY <1>2, ChainedType, EmptyIsChained
  <2>2. l \in S /\ \A s \in S : s <= l
    BY <2>1, <1>2, LatestExists DEF Latest
  <2> HIDE DEF l
  <2>3. {s \in S : s <= l} = S
    BY <2>2
  <2>4. Chained(S)[l] = InOrder(S)
    BY <2>2, <2>3 DEF Chained
  <2> QED
    BY <2>1, <2>4 DEF getLastHash, l
<1> QED
  BY <1>1, <1>2

(* A row that is later than all is put behind them.                        *)
LEMMA LaterRow ==
    ASSUME NEW S \in SUBSET Times, NEW t \in Times, \A s \in S : s < t
    PROVE  With(Chained(S), t, Append(InOrder(S), t)) = Chained(S \cup {t})
<1>1. S \subseteq Nat /\ t \in Nat /\ t \notin S
  BY TimesAreNumbers
<1>2. {s \in S \cup {t} : s <= t} = S \cup {t}
  <2>1. \A s \in S \cup {t} : s <= t
    BY <1>1
  <2> QED
    BY <2>1, Zenon
<1>3. Chained(S \cup {t})[t] = Append(InOrder(S), t)
  BY <1>2, LastPut DEF Chained
<1>4. \A s \in S : {r \in S \cup {t} : r <= s} = {r \in S : r <= s}
  BY <1>1
<1>5. \A s \in S : Chained(S \cup {t})[s] = Chained(S)[s]
  BY <1>4 DEF Chained
<1>6. PICK v, w, h : v = Chained(S) /\ w = Chained(S \cup {t}) /\ h = Append(InOrder(S), t)
  OBVIOUS
<1>7. /\ DOMAIN v = S /\ w = [s \in S \cup {t} |-> w[s]]
      /\ \A s \in S : w[s] = v[s] /\ s # t
      /\ w[t] = h
  BY <1>1, <1>3, <1>5, <1>6, ChainedType
<1>8. With(v, t, h) = w
  BY <1>7 DEF With
<1> QED
  BY <1>6, <1>8

(* What a delete at the end leaves.                                        *)
LEMMA EarlierRows ==
    ASSUME NEW S \in SUBSET Times, NEW times \in SUBSET Times,
           \A t \in times, s \in S \ times : ~ (t \in S /\ t < s)
    PROVE  Without(Chained(S), times) = Chained(S \ times)
<1>1. S \subseteq Nat
  BY TimesAreNumbers
<1>2. \A s \in S \ times : {r \in S : r <= s} = {r \in S \ times : r <= s}
  <2>1. \A s \in S \ times, r \in S : r <= s => r \notin times
    <3>1. \A s \in S \ times, r \in S : r <= s => r < s \/ r = s
      BY <1>1
    <3> QED
      BY <3>1, Zenon
  <2> QED
    BY <2>1, Zenon
<1>3. \A s \in S \ times : Chained(S)[s] = Chained(S \ times)[s]
  BY <1>2 DEF Chained
<1> QED
  BY <1>3, ChainedType DEF Without

LEMMA InsertKeepsChain ==
    ASSUME ChainInv, NEW c, NEW t \in Times, NEW hash, insertSubscription(c, t, hash)
    PROVE  ChainInv'
<1>1. CASE ~ IsNew(rows, t)
  BY <1>1 DEF insertSubscription, ChainInv, TableTyped, ChainValid
<1>2. CASE IsNew(rows, t)
  <2>1. /\ rows' = With(rows, t, HashFor(rows, t, hash))
        /\ ~ disturbed' =>
             /\ ~ disturbed
             /\ \A s \in DOMAIN rows : ~ (s > t)
             /\ hash \in {NoHash, HashFor(rows, t, NoHash)}
    BY <1>2 DEF insertSubscription, AddSub
  <2>2. TableTyped'
    BY <2>1 DEF With, ChainInv, TableTyped
  <2>3. ASSUME ~ disturbed' PROVE Valid(rows')
    <3> DEFINE S == DOMAIN rows
    <3>1. S \subseteq Times /\ rows = Chained(S) /\ t \notin S
      BY <1>2, <2>1, <2>3 DEF ChainInv, TableTyped, ChainValid, Valid, IsNew
    <3>2. \A s \in S : s < t
      <4>1. \A s \in S : s \in Nat /\ s # t /\ ~ (s > t)
        BY <2>1, <2>3, <3>1, TimesAreNumbers
      <4>2. t \in Nat
        BY TimesAreNumbers
      <4> QED
        BY <4>1, <4>2
    <3>3. HashFor(rows, t, NoHash) = Append(InOrder(S), t)
      BY <3>1, LastHash DEF HashFor, hashIt
    <3>4. HashFor(rows, t, hash) = Append(InOrder(S), t)
      BY <2>1, <2>3, <3>3 DEF HashFor
    <3> HIDE DEF S
    <3>5. rows' = Chained(S \cup {t})
      BY <2>1, <3>1, <3>2, <3>4, LaterRow
    <3> QED
      BY <3>5, ChainedType DEF Valid
  <2> QED
    BY <2>2, <2>3 DEF ChainInv, ChainValid
<1> QED
  BY <1>1, <1>2

LEMMA FrameKeepsChain ==
    ASSUME ChainInv, NEW c, NEW frame \in Frames, NEW replace \in BOOLEAN,
           insertFrame(c, frame, replace)
    PROVE  ChainInv'
<1>1. PICK S \in SUBSET Times : frame = Chained(S) \/ frame = [t \in S |-> NoHash]
  BY DEF Frames
<1>2. DOMAIN frame = S /\ S # {}
  <2>1. DOMAIN frame = S
    BY <1>1, ChainedType
  <2>2. frame = [t \in S |-> frame[t]]
    BY <1>1, ChainedType
  <2>3. frame # Empty
    BY DEF insertFrame
  <2> QED
    BY <2>1, <2>2, <2>3 DEF Empty
<1>3. CASE ~ replace
  <2>1. rows' = AddFrame(rows, frame) /\ (~ disturbed' => ~ disturbed /\ rows' = rows)
    BY <1>3 DEF insertFrame
  <2>2. TableTyped'
    BY <1>2, <2>1 DEF AddFrame, ChainInv, TableTyped
  <2>3. ChainValid'
    BY <2>1 DEF ChainInv, ChainValid
  <2> QED
    BY <2>2, <2>3 DEF ChainInv
<1>4. CASE replace
  <2>1. rows' = AddFrame(Empty, frame)
    BY <1>4 DEF insertFrame
  <2>2. rows' = Empty \/ (rows' = [t \in S |-> frame[t]] /\ \A t \in S : frame[t] # NoHash)
    BY <1>2, <2>1, EmptyIsChained DEF AddFrame
  <2>3. rows' = Empty \/ rows' = Chained(S)
    <3>1. CASE frame = Chained(S)
      BY <2>2, <3>1, ChainedType
    <3>2. CASE frame = [t \in S |-> NoHash]
      BY <1>2, <2>2, <3>2
    <3> QED
      BY <1>1, <3>1, <3>2
  <2> QED
    BY <2>3, EmptyIsChained, ChainedType DEF ChainInv, TableTyped, ChainValid, Valid
<1> QED
  BY <1>3, <1>4

LEMMA InitChain == Init => ChainInv
BY EmptyIsChained, ChainedType DEF Init, ChainInv, TableTyped, ChainValid, Valid

LEMMA NextChain == ChainInv /\ [Next]_vars => ChainInv'
<1> SUFFICES ASSUME ChainInv, [Next]_vars PROVE ChainInv'
  OBVIOUS
<1>1. ASSUME UNCHANGED tableVars PROVE ChainInv'
  BY <1>1 DEF tableVars, ChainInv, TableTyped, ChainValid
<1>2. ASSUME NEW c \in Conns, Connect(c) \/ Disconnect(c) PROVE ChainInv'
  BY <1>1, <1>2 DEF Connect, Disconnect
<1>3. ASSUME NEW c \in Conns, Step(c) PROVE ChainInv'
  BY <1>1, <1>3 DEF Step, Send, BroadcastEnds, RequestFails, CleanupFails, MessagesEnd,
     Close, Forget, Cleanup
<1>4. ASSUME NEW c \in Conns, Request(c) PROVE ChainInv'
  <2>1. CASE \E uuid \in uuids : subscribe(c, uuid) \/ addActiveStream(c, uuid)
    BY <1>1, <2>1 DEF subscribe, addActiveStream
  <2>2. CASE streamInactive(c)
    BY <1>1, <2>2 DEF streamInactive
  <2>3. CASE \E t \in Times : \E hash \in HashesOf(t) : insertSubscription(c, t, hash)
    BY <2>3, InsertKeepsChain
  <2>4. CASE \E frame \in Frames, replace \in BOOLEAN : insertFrame(c, frame, replace)
    BY <2>4, FrameKeepsChain
  <2>5. ASSUME NEW times \in SUBSET Times, mergeFromCsv(c, times) PROVE ChainInv'
    BY <2>5, ChainedType
       DEF mergeFromCsv, blindMerge, ChainInv, TableTyped, ChainValid, Valid
  <2>6. ASSUME NEW times \in SUBSET Times, deleteStreamData(c, times) PROVE ChainInv'
    <3>1. /\ rows' = Without(rows, times)
          /\ ~ disturbed' =>
               /\ ~ disturbed
               /\ \A t \in times, s \in DOMAIN rows \ times : ~ (t \in DOMAIN rows /\ t < s)
      BY <2>6 DEF deleteStreamData
    <3>2. TableTyped'
      BY <3>1 DEF Without, ChainInv, TableTyped
    <3>3. ASSUME ~ disturbed' PROVE Valid(rows')
      <4> DEFINE S == DOMAIN rows
      <4>1. S \subseteq Times /\ rows = Chained(S)
        BY <3>1, <3>3 DEF ChainInv, TableTyped, ChainValid, Valid
      <4>2. \A t \in times, s \in S \ times : ~ (t \in S /\ t < s)
        BY <3>1, <3>3
      <4> HIDE DEF S
      <4>3. rows' = Chained(S \ times)
        BY <3>1, <4>1, <4>2, EarlierRows
      <4> QED
        BY <4>3, ChainedType DEF Valid
    <3> QED
      BY <3>2, <3>3 DEF ChainInv, ChainValid
  <2> QED
    BY <1>4, <2>1, <2>2, <2>3, <2>4, <2>5, <2>6 DEF Request
<1>5. CASE UNCHANGED vars
  BY <1>1, <1>5 DEF vars, tableVars
<1> QED
  BY <1>2, <1>3, <1>4, <1>5 DEF Next

-----------------------------------------------------------------------------
(* The rows that are sent *)

(* Everybody has one slot of the dict, and who has not come yet has none   *)
(* and was sent nothing.                                                   *)
Seated ==
    /\ \A i, j \in DOMAIN slots : slots[i] = slots[j] /\ slots[i] # Nobody => i = j
    /\ \A i \in DOMAIN slots : slots[i] # Nobody => link[slots[i]] # "new"
    /\ \A c \in Conns : link[c] = "new" => got[c] = <<>>

(* A list of broadcasts is one row, or says what is inactive.              *)
Quiet(todo) == todo \in Seq({Inactive(uuid) : uuid \in uuids})

Listed ==
    \A c \in Conns : task[c].at = "sending" => Len(task[c].todo) = 1 \/ Quiet(task[c].todo)

GotTyped ==
    /\ got = [c \in Conns |-> got[c]]
    /\ \A c \in Conns : \E n \in Nat : got[c] = [i \in 1..n |-> got[c][i]]

SendsRow(f) == f.at = "sending" /\ Head(f.todo).kind = "row"

Stored(table, m) == m.t \in DOMAIN table /\ table[m.t] = m.hash

Got(list, m) == \E i \in DOMAIN list : list[i] = m

(* A row on its way is in the table, one coroutine sends it, and whoever   *)
(* is ahead of the iterator has not got it.                                *)
OnItsWay ==
    \A c \in Conns : SendsRow(task[c]) =>
        /\ Stored(rows, Head(task[c].todo))
        /\ \A i \in DOMAIN slots :
             i > task[c].pos /\ slots[i] # Nobody => ~ Got(got[slots[i]], Head(task[c].todo))
        /\ \A e \in Conns :
             SendsRow(task[e]) /\ Head(task[e].todo) = Head(task[c].todo) => e = c

SentInv ==
    /\ Seated /\ Listed /\ GotTyped
    /\ ~ rewritten => OnItsWay
    /\ SentAsStored

(* A coroutine that does not begin to send a row.                          *)
Says(todo) == Quiet(todo) /\ Head(todo).kind = "inactive"

NoNewRow(f, g) ==
    g.at = "sending" =>
        \/ f.at = "sending" /\ g.todo = f.todo /\ g.pos = f.pos
        \/ Says(g.todo)

(* A step in which nothing is sent, and no row begins to be.               *)
NothingSent ==
    /\ got' = got
    /\ \A c \in Conns : NoNewRow(task[c], task'[c])
    /\ \A i \in DOMAIN slots' :
         slots'[i] # Nobody =>
            \/ i \in DOMAIN slots /\ slots'[i] = slots[i]
            \/ got[slots'[i]] = <<>>
    /\ ~ rewritten' => ~ rewritten /\ \A m : Stored(rows, m) => Stored(rows', m)

LEMMA NothingSentStep ==
    ASSUME SentInv, NothingSent
    PROVE  GotTyped' /\ Listed' /\ (~ rewritten' => OnItsWay') /\ SentAsStored'
<1>1. GotTyped'
  BY DEF SentInv, GotTyped, NothingSent
<1>2. Listed'
  BY DEF SentInv, Listed, NothingSent, NoNewRow, Says, Quiet
<1>4. \A list, m : Got(list, m) => list # <<>>
  BY DEF Got
<1>5. \A c \in Conns : SendsRow(task'[c]) =>
         /\ SendsRow(task[c]) /\ task'[c].todo = task[c].todo /\ task'[c].pos = task[c].pos
  BY DEF NothingSent, NoNewRow, Says, SendsRow
<1>6. ASSUME ~ rewritten' PROVE OnItsWay'
  <2>1. OnItsWay /\ \A m : Stored(rows, m) => Stored(rows', m)
    BY <1>6 DEF SentInv, NothingSent
  <2>2. ASSUME NEW c \in Conns, SendsRow(task'[c])
        PROVE  /\ Stored(rows', Head(task'[c].todo))
               /\ \A i \in DOMAIN slots' :
                    i > task'[c].pos /\ slots'[i] # Nobody =>
                        ~ Got(got[slots'[i]], Head(task'[c].todo))
               /\ \A e \in Conns :
                    SendsRow(task'[e]) /\ Head(task'[e].todo) = Head(task'[c].todo) => e = c
    <3>1. SendsRow(task[c]) /\ task'[c].todo = task[c].todo /\ task'[c].pos = task[c].pos
      BY <1>5, <2>2
    <3>2. Stored(rows', Head(task'[c].todo))
      BY <2>1, <3>1 DEF OnItsWay
    <3>3. ASSUME NEW i \in DOMAIN slots', i > task'[c].pos, slots'[i] # Nobody,
                 Got(got[slots'[i]], Head(task'[c].todo))
          PROVE  FALSE
      <4>1. got[slots'[i]] # <<>>
        BY <1>4, <3>3
      <4>2. i \in DOMAIN slots /\ slots'[i] = slots[i]
        BY <3>3, <4>1 DEF NothingSent
      <4> QED
        BY <2>1, <3>1, <3>3, <4>2 DEF OnItsWay
    <3>4. ASSUME NEW e \in Conns, SendsRow(task'[e]), Head(task'[e].todo) = Head(task'[c].todo)
          PROVE  e = c
      <4>1. SendsRow(task[e]) /\ task'[e].todo = task[e].todo
        BY <1>5, <3>4
      <4> QED
        BY <2>1, <3>1, <3>4, <4>1 DEF OnItsWay
    <3> QED
      BY <3>2, <3>3, <3>4
  <2> QED
    BY <2>2 DEF OnItsWay, NothingSent
<1>7. SentAsStored'
  BY DEF SentInv, SentAsStored, NothingSent, Stored
<1> QED
  BY <1>1, <1>2, <1>6, <1>7

(* Slots are only emptied.                                                 *)
LEMMA StillSeated ==
    ASSUME SentInv, got' = got,
           \A i \in DOMAIN slots' :
             slots'[i] # Nobody => i \in DOMAIN slots /\ slots'[i] = slots[i],
           \A c : link'[c] = "new" => link[c] = "new"
    PROVE  Seated'
<1>1. \A i, j \in DOMAIN slots' : slots'[i] = slots'[j] /\ slots'[i] # Nobody => i = j
  BY DEF SentInv, Seated
<1>2. \A i \in DOMAIN slots' : slots'[i] # Nobody => link'[slots'[i]] # "new"
  BY DEF SentInv, Seated
<1>3. \A c \in Conns : link'[c] = "new" => got'[c] = <<>>
  BY DEF SentInv, Seated
<1> QED
  BY <1>1, <1>2, <1>3 DEF Seated

LEMMA QuietSent ==
    ASSUME SentInv, NothingSent, slots' = slots,
           \A c : link'[c] = "new" => link[c] = "new"
    PROVE  SentInv'
<1>1. got' = got
  BY DEF NothingSent
<1>2. Seated'
  BY <1>1, StillSeated
<1> QED
  BY <1>2, NothingSentStep DEF SentInv

(* One coroutine takes a new frame, and the table stays.                   *)
LEMMA FrameSent ==
    ASSUME SentInv, Typed, NEW c \in Conns, NEW f,
           UNCHANGED <<slots, got, tableVars>>,
           \A d : link'[d] = "new" => link[d] = "new",
           task'[c] = f, f.at = "sending" => Says(f.todo),
           \A d \in Conns \ {c} : NoNewRow(task[d], task'[d])
    PROVE  SentInv'
<1>1. \A d \in Conns : NoNewRow(task[d], task'[d])
  BY DEF NoNewRow
<1>2. NothingSent
  BY <1>1 DEF NothingSent, tableVars
<1> QED
  BY <1>2, QuietSent

(* Who is no longer owed anything.                                         *)
LEMMA OwedLess ==
    ASSUME NEW f, IsFrame(f), NEW S
    PROVE  NoNewRow(f, [f EXCEPT !.owed = S])
BY DEF NoNewRow, IsFrame, FramesWith

LEMMA InactiveSays ==
    ASSUME NEW todo, Quiet(todo), todo # <<>>
    PROVE  Says(todo)
<1>1. Head(todo) \in {Inactive(uuid) : uuid \in uuids}
  BY DEF Quiet
<1>2. PICK uuid \in uuids : Head(todo) = Inactive(uuid)
  BY <1>1
<1>3. Head(todo).kind = "inactive"
  BY <1>2 DEF Inactive
<1> QED
  BY <1>3 DEF Says

LEMMA ConnectSent ==
    ASSUME SentInv, Typed, NEW c \in Conns, Connect(c) PROVE SentInv'
<1>1. /\ slots' = Append(slots, c) /\ slots \in Seq(Conns \cup {Nobody})
      /\ link' = [link EXCEPT ![c] = "open"] /\ link[c] = "new" /\ got[c] = <<>>
      /\ UNCHANGED <<got, tableVars>>
  BY DEF Connect, Typed, SentInv, Seated
<1>2. /\ DOMAIN slots' = DOMAIN slots \cup {Len(slots) + 1}
      /\ \A i \in DOMAIN slots : slots'[i] = slots[i] /\ i # Len(slots) + 1
      /\ slots'[Len(slots) + 1] = c
  BY <1>1
<1>3. \A i \in DOMAIN slots : slots[i] # Nobody => slots[i] # c
  BY <1>1 DEF SentInv, Seated
<1>4. Seated'
  <2>1. \A i, j \in DOMAIN slots' : slots'[i] = slots'[j] /\ slots'[i] # Nobody => i = j
    BY <1>2, <1>3 DEF SentInv, Seated
  <2>2. \A d \in Conns : link'[d] = IF d = c THEN "open" ELSE link[d]
    BY <1>1 DEF Typed
  <2>3. \A i \in DOMAIN slots' : slots'[i] # Nobody => slots'[i] \in Conns
    BY <1>1, <1>2
  <2>4. \A i \in DOMAIN slots' : slots'[i] # Nobody => link'[slots'[i]] # "new"
    BY <1>2, <2>2, <2>3 DEF SentInv, Seated
  <2>5. \A d \in Conns : link'[d] = "new" => got'[d] = <<>>
    BY <1>1, <2>2 DEF SentInv, Seated
  <2> QED
    BY <2>1, <2>4, <2>5 DEF Seated
<1>5. \A d \in Conns : NoNewRow(task[d], task'[d])
  BY FrameIsFrame DEF Connect, Typed, NoNewRow
<1>6. NothingSent
  BY <1>1, <1>2, <1>5 DEF NothingSent, tableVars
<1> QED
  BY <1>4, <1>6, NothingSentStep DEF SentInv

LEMMA DisconnectSent ==
    ASSUME SentInv, Typed, NEW c \in Conns, Disconnect(c) PROVE SentInv'
<1>1. \A d \in Conns : NoNewRow(task[d], task'[d])
  BY OwedLess DEF Disconnect, Typed
<1>2. NothingSent
  BY <1>1 DEF Disconnect, NothingSent, tableVars
<1>3. \A d : link'[d] = "new" => link[d] = "new"
  BY DEF Disconnect, Typed
<1> QED
  BY <1>2, <1>3, QuietSent DEF Disconnect

(* The first connection that is due gets the row, and is passed: whoever   *)
(* is ahead of the iterator now is another one.                            *)
LEMMA SendSent ==
    ASSUME SentInv, Typed, NEW c \in Conns, Send(c) PROVE SentInv'
<1> DEFINE f == task[c]
           p == Target(f)
           d == slots[p]
           m == Head(f.todo)
           g == [f EXCEPT !.pos = p, !.left = @ - Cardinality(Upto(f)), !.owed = @ \ {d}]
<1>1. IsFrame(f) /\ f.at = "sending"
  BY DEF Typed, Send
<1>2. p \in Due(f)
  BY TargetIsFirst DEF Send
<1>3. p \in DOMAIN slots /\ p > f.pos /\ d # Nobody /\ d \in Conns /\ p \in Nat /\ f.pos \in Nat
  BY <1>1, <1>2 DEF Due, Ahead, Typed, IsFrame, FramesWith
<1>4. /\ UNCHANGED <<slots, link, rows, rewritten>>
      /\ got' = IF m.kind = "row" THEN [got EXCEPT ![d] = Append(@, m)] ELSE got
      /\ task' = [task EXCEPT ![c] = g]
  BY DEF Send, peerVars, tableVars
<1>5. g.at = f.at /\ g.todo = f.todo /\ g.pos = p
  BY <1>1 DEF IsFrame, FramesWith
<1> HIDE DEF g
<1>6. /\ task'[c] = g
      /\ \A e \in Conns : e # c => task'[e] = task[e]
  BY <1>4 DEF Typed
<1>7. Listed'
  BY <1>1, <1>5, <1>6 DEF SentInv, Listed, Quiet
<1>8. \A e \in Conns : /\ SendsRow(task'[e]) <=> SendsRow(task[e])
                       /\ task'[e].todo = task[e].todo
                       /\ task'[e].pos = IF e = c THEN p ELSE task[e].pos
  BY <1>5, <1>6 DEF SendsRow
<1>9. CASE m.kind # "row"
  <2>1. got' = got
    BY <1>4, <1>9
  <2>2. Seated' /\ GotTyped'
    <3>1. Seated /\ GotTyped /\ SentAsStored
      BY DEF SentInv
    <3>2. Seated'
      BY <1>4, <2>1, <3>1 DEF Seated
    <3>3. GotTyped'
      BY <2>1, <3>1 DEF GotTyped
    <3> QED
      BY <3>2, <3>3
  <2>3. SentAsStored'
    BY <1>4, <2>1 DEF SentInv, SentAsStored
  <2>4. ~ SendsRow(task[c])
    BY <1>9 DEF SendsRow
  <2>6. ~ rewritten' => OnItsWay'
    BY <1>4, <1>8, <2>1, <2>4 DEF SentInv, OnItsWay
  <2> QED
    BY <1>7, <2>2, <2>3, <2>6 DEF SentInv
<1>10. CASE m.kind = "row"
  <2>1. PICK n \in Nat : got[d] = [i \in 1..n |-> got[d][i]]
    BY <1>3 DEF SentInv, GotTyped
  <2>2. /\ got' = [got EXCEPT ![d] = Append(got[d], m)]
        /\ got'[d] = Append(got[d], m) /\ \A e \in Conns : e # d => got'[e] = got[e]
    BY <1>3, <1>4, <1>10 DEF SentInv, GotTyped
  <2>3. /\ DOMAIN got[d] = 1..n /\ DOMAIN got'[d] = 1..n + 1
        /\ got'[d] = [i \in 1..n + 1 |-> got'[d][i]]
        /\ got'[d][n + 1] = m /\ \A i \in 1..n : got'[d][i] = got[d][i]
    <3>1. PICK s : s = got[d]
      OBVIOUS
    <3>2. Append(s, m) = [i \in 1..n + 1 |-> IF i = n + 1 THEN m ELSE s[i]]
      BY SMTT(60), <2>1, <3>1
    <3>3. got'[d] = [i \in 1..n + 1 |-> IF i = n + 1 THEN m ELSE s[i]]
      BY <2>2, <3>1, <3>2
    <3>4. DOMAIN s = 1..n /\ DOMAIN got'[d] = 1..n + 1
      BY <2>1, <3>1, <3>3
    <3>5. n + 1 \in 1..n + 1 /\ \A i \in 1..n : i \in 1..n + 1 /\ i # n + 1
      BY <2>1
    <3> QED
      BY <3>1, <3>3, <3>4, <3>5
  <2>4. Seated'
    <3>1. link[d] # "new"
      BY <1>3 DEF SentInv, Seated
    <3> QED
      BY <1>4, <2>2, <3>1 DEF SentInv, Seated
  <2>5. GotTyped'
    <3>1. got' = [e \in Conns |-> got'[e]]
      BY <2>2 DEF SentInv, GotTyped
    <3>2. n + 1 \in Nat
      BY <2>1
    <3>3. \A e \in Conns : \E k \in Nat : got'[e] = [i \in 1..k |-> got'[e][i]]
      <4>1. \A e \in Conns : \E k \in Nat : got[e] = [i \in 1..k |-> got[e][i]]
        BY DEF SentInv, GotTyped
      <4>2. \E k \in Nat : got'[d] = [i \in 1..k |-> got'[d][i]]
        BY <2>3, <3>2
      <4>3. ASSUME NEW e \in Conns, e # d
            PROVE  \E k \in Nat : got'[e] = [i \in 1..k |-> got'[e][i]]
        <5>1. got'[e] = got[e]
          BY <2>2, <4>3
        <5> QED
          BY <4>1, <5>1
      <4> QED
        BY <4>2, <4>3
    <3> QED
      BY SMTT(60), <3>1, <3>3 DEF GotTyped
  <2>6. SendsRow(task[c])
    BY <1>1, <1>10 DEF SendsRow
  <2>7. ASSUME ~ rewritten' PROVE OnItsWay' /\ SentAsStored'
    <3>0. OnItsWay /\ ~ rewritten
      BY <1>4, <2>7 DEF SentInv
    <3>1. /\ Stored(rows, m) /\ ~ Got(got[d], m)
          /\ \A e \in Conns : SendsRow(task[e]) /\ Head(task[e].todo) = m => e = c
      BY <1>3, <2>6, <3>0 DEF OnItsWay
    <3>2. \A e \in Conns : \A x : Got(got'[e], x) <=> Got(got[e], x) \/ (e = d /\ x = m)
      <4>1. \A x : Got(got'[d], x) <=> Got(got[d], x) \/ x = m
        <5>1. \A i \in 1..n : i \in 1..n + 1
          BY <2>1
        <5>2. \A i \in 1..n + 1 : i \in 1..n \/ i = n + 1
          BY <2>1
        <5>3. n + 1 \in 1..n + 1
          BY <2>1
        <5> QED
          BY <2>3, <5>1, <5>2, <5>3, Zenon DEF Got
      <4>2. \A e \in Conns : \A x : e # d => (Got(got'[e], x) <=> Got(got[e], x))
        BY <2>2 DEF Got
      <4> QED
        BY <4>1, <4>2
    <3>3. SentAsStored'
      <4>0. rows' = rows
        BY <1>4
      <4> SUFFICES ASSUME NEW e \in Conns, NEW i \in DOMAIN got'[e]
                   PROVE  /\ Stored(rows, got'[e][i])
                          /\ \A j \in DOMAIN got'[e] : got'[e][j] = got'[e][i] => j = i
        BY <4>0 DEF SentAsStored, Stored
      <4>1. CASE e # d
        <5>1. got'[e] = got[e] /\ i \in DOMAIN got[e]
          BY <2>2, <4>1
        <5>2. SentAsStored /\ ~ rewritten
          BY <3>0 DEF SentInv
        <5> QED
          BY <5>1, <5>2 DEF SentAsStored, Stored
      <4>2. CASE e = d
        <5>1. /\ \A j \in 1..n : Stored(rows, got[d][j])
              /\ \A j, k \in 1..n : got[d][j] = got[d][k] => j = k
              /\ \A j \in 1..n : got[d][j] # m
          <6>1. DOMAIN got[d] = 1..n /\ d \in Conns /\ ~ Got(got[d], m)
            BY <1>3, <2>3, <3>1
          <6>2. SentAsStored /\ ~ rewritten
            BY <3>0 DEF SentInv
          <6>3. \A j \in 1..n : got[d][j] # m
            BY <6>1 DEF Got
          <6> QED
            BY <6>1, <6>2, <6>3 DEF SentAsStored, Stored
        <5>2. i \in 1..n + 1 /\ \A j \in 1..n + 1 : j \in 1..n \/ j = n + 1
          BY <2>1, <2>3, <4>2
        <5>3. /\ Stored(rows, got'[d][i])
              /\ \A j \in 1..n + 1 : got'[d][j] = got'[d][i] => j = i
          BY <2>3, <3>1, <5>1, <5>2
        <5> QED
          BY <2>3, <4>2, <5>3
      <4> QED
        BY <4>1, <4>2
    <3>4. ASSUME NEW e \in Conns, SendsRow(task'[e])
          PROVE  /\ Stored(rows', Head(task'[e].todo))
                 /\ \A i \in DOMAIN slots' :
                      i > task'[e].pos /\ slots'[i] # Nobody =>
                          ~ Got(got'[slots'[i]], Head(task'[e].todo))
                 /\ \A h \in Conns :
                      SendsRow(task'[h]) /\ Head(task'[h].todo) = Head(task'[e].todo) => h = e
      <4>1. SendsRow(task[e]) /\ task'[e].todo = task[e].todo
        BY <1>8, <3>4
      <4>2. /\ Stored(rows, Head(task[e].todo))
            /\ \A i \in DOMAIN slots :
                 i > task[e].pos /\ slots[i] # Nobody => ~ Got(got[slots[i]], Head(task[e].todo))
            /\ \A h \in Conns :
                 SendsRow(task[h]) /\ Head(task[h].todo) = Head(task[e].todo) => h = e
        BY <3>0, <4>1 DEF OnItsWay
      <4>3. ASSUME NEW i \in DOMAIN slots, i > task'[e].pos, slots[i] # Nobody
            PROVE  ~ Got(got'[slots[i]], Head(task[e].todo))
        <5>1. slots[i] \in Conns /\ i \in Nat
          BY <4>3 DEF Typed
        <5>2. CASE e = c
          <6>1. i > p /\ i > f.pos
            BY <1>3, <1>8, <4>3, <5>1, <5>2
          <6>2. slots[i] # d
            BY <1>3, <4>3, <5>1, <6>1 DEF SentInv, Seated
          <6> QED
            BY <3>2, <4>2, <4>3, <5>1, <5>2, <6>1, <6>2
        <5>3. CASE e # c
          <6>1. Head(task[e].todo) # m
            BY <3>1, <4>1, <5>3
          <6>2. i > task[e].pos
            BY <1>8, <4>3, <5>3
          <6> QED
            BY <3>2, <4>2, <4>3, <5>1, <6>1, <6>2
        <5> QED
          BY <5>2, <5>3
      <4> QED
        BY <1>4, <1>8, <4>1, <4>2, <4>3
    <3> QED
      BY <3>3, <3>4 DEF OnItsWay
  <2>8. SentAsStored'
    BY <2>7 DEF SentAsStored
  <2> QED
    BY <1>7, <2>4, <2>5, <2>7, <2>8 DEF SentInv
<1> QED
  BY <1>9, <1>10

LEMMA BroadcastEndsSent ==
    ASSUME SentInv, Typed, NEW c \in Conns, BroadcastEnds(c) PROVE SentInv'
<1> DEFINE f == task[c]
           g == [f EXCEPT !.at = Finished(c), !.todo = <<>>]
<1>1. IsFrame(f) /\ f.at = "sending" /\ UNCHANGED <<slots, link, got, tableVars>>
  BY DEF Typed, BroadcastEnds, peerVars
<1>2. \A h : task' = [task EXCEPT ![c] = h] =>
               task'[c] = h /\ \A d \in Conns \ {c} : NoNewRow(task[d], task'[d])
  BY DEF Typed, NoNewRow
<1>3. CASE Len(f.todo) > 1
  <2>1. task' = [task EXCEPT ![c] = Broadcast(f, Tail(f.todo))]
    BY <1>3 DEF BroadcastEnds
  <2>2. Quiet(f.todo)
    <3>1. Len(f.todo) = 1 \/ Quiet(f.todo)
      BY <1>1 DEF SentInv, Listed
    <3>2. Len(f.todo) # 1
      <4>1. PICK l : l = Len(f.todo)
        OBVIOUS
      <4>2. l > 1
        BY <1>3, <4>1
      <4>3. ~ (1 > 1)
        OBVIOUS
      <4> HIDE DEF f
      <4>4. l # 1
        BY <4>2, <4>3, Zenon
      <4> QED
        BY <4>1, <4>4
    <3> QED
      BY <3>1, <3>2
  <2>3. Tail(f.todo) # <<>> /\ Quiet(Tail(f.todo))
    <3>1. PICK s, X : s = f.todo /\ X = {Inactive(uuid) : uuid \in uuids}
      OBVIOUS
    <3>2. s \in Seq(X) /\ Len(s) > 1
      BY <1>3, <2>2, <3>1 DEF Quiet
    <3>3. Tail(s) \in Seq(X) /\ Tail(s) # <<>>
      BY <3>2
    <3> QED
      BY <3>1, <3>3 DEF Quiet
  <2>4. Broadcast(f, Tail(f.todo)).todo = Tail(f.todo)
    BY <1>1, BroadcastBegins
  <2>5. Says(Broadcast(f, Tail(f.todo)).todo)
    BY <2>3, <2>4, InactiveSays
  <2> QED
    BY <1>1, <1>2, <2>1, <2>5, FrameSent
<1>4. CASE ~ (Len(f.todo) > 1)
  <2>1. task' = [task EXCEPT ![c] = g]
    BY <1>4 DEF BroadcastEnds
  <2>2. g.at # "sending"
    BY <1>1 DEF IsFrame, FramesWith, Finished
  <2> HIDE DEF g
  <2> QED
    BY <1>1, <1>2, <2>1, <2>2, FrameSent
<1> QED
  BY <1>3, <1>4

LEMMA CleanupSent ==
    ASSUME SentInv, Typed, NEW c \in Conns, Cleanup(c) PROVE SentInv'
<1>1. UNCHANGED <<slots, link, got, tableVars>>
  BY DEF Cleanup, peerVars
<1>2. \A h : task' = [task EXCEPT ![c] = h] =>
               task'[c] = h /\ \A d \in Conns \ {c} : NoNewRow(task[d], task'[d])
  BY DEF Typed, NoNewRow
<1>3. CASE task' = [task EXCEPT ![c] = [Frame("closing") EXCEPT !.cleaning = TRUE]]
  <2> DEFINE g == [Frame("closing") EXCEPT !.cleaning = TRUE]
  <2>1. g.at # "sending"
    BY DEF Frame
  <2> HIDE DEF g
  <2>2. task' = [task EXCEPT ![c] = g]
    BY <1>3 DEF g
  <2> QED
    BY <1>1, <1>2, <2>1, <2>2, FrameSent
<1>4. ASSUME NEW order \in Orders(pubs[c]), pubs[c] # {},
             LET f == [Frame("sending") EXCEPT !.cleaning = TRUE,
                                               !.provided = Cardinality(pubs[c])]
             IN  task' = [task EXCEPT ![c] =
                        Broadcast(f, [i \in DOMAIN order |-> Inactive(order[i])])]
      PROVE  SentInv'
  <2> DEFINE f == [Frame("sending") EXCEPT !.cleaning = TRUE,
                                           !.provided = Cardinality(pubs[c])]
             todo == [i \in DOMAIN order |-> Inactive(order[i])]
  <2>1. IsFrame(f)
    BY DEF Frame, IsFrame, FramesWith
  <2>2. task' = [task EXCEPT ![c] = Broadcast(f, todo)]
    BY <1>4
  <2>3. Quiet(todo) /\ todo # <<>>
    <3>1. IsFiniteSet(pubs[c]) /\ pubs[c] \subseteq uuids
      <4>1. IsFiniteSet(uuids)
        <5>1. IsFiniteSet({Stream} \cup {Publication})
          BY FS_Singleton, FS_AddElement
        <5>2. uuids = {Stream} \cup {Publication}
          BY DEF uuids
        <5> QED
          BY <5>1, <5>2
      <4>2. pubs[c] \subseteq uuids
        BY DEF Typed
      <4> QED
        BY <4>1, <4>2, FS_Subset
    <3>2. PICK n : n = Cardinality(pubs[c])
      OBVIOUS
    <3>3. n \in Nat /\ n # 0
      BY <1>4, <3>1, <3>2, FS_CardinalityType, FS_EmptySet
    <3>4. order \in [1..n -> pubs[c]]
      BY <3>2 DEF Orders
    <3>5. todo \in [1..n -> {Inactive(uuid) : uuid \in uuids}]
      BY <3>1, <3>4
    <3> HIDE DEF todo
    <3>6. PICK X : X = {Inactive(uuid) : uuid \in uuids}
      OBVIOUS
    <3>7. todo \in Seq(X) /\ 1 \in DOMAIN todo
      BY <3>3, <3>5, <3>6
    <3>8. DOMAIN <<>> = {}
      OBVIOUS
    <3> QED
      BY <3>6, <3>7, <3>8 DEF Quiet
  <2> HIDE DEF f, todo
  <2>4. Broadcast(f, todo).todo = todo
    BY <2>1, BroadcastBegins
  <2>5. Says(Broadcast(f, todo).todo)
    BY <2>3, <2>4, InactiveSays
  <2> QED
    BY <1>1, <1>2, <2>2, <2>5, FrameSent
<1> QED
  BY <1>3, <1>4 DEF Cleanup

LEMMA GoesSent ==
    ASSUME SentInv, Typed, NEW c \in Conns, NEW f, NoNewRow(task[c], f),
           link' = [link EXCEPT ![c] = "closed"], UNCHANGED <<slots, got, tableVars>>,
           task' = [d \in Conns |-> IF d = c THEN f ELSE [task[d] EXCEPT !.owed = @ \ {c}]]
    PROVE  SentInv'
<1>1. \A d \in Conns : NoNewRow(task[d], task'[d])
  BY OwedLess DEF Typed
<1>2. \A d : link'[d] = "new" => link[d] = "new"
  BY DEF Typed
<1>3. NothingSent
  BY <1>1 DEF NothingSent, tableVars
<1> QED
  BY <1>2, <1>3, QuietSent

LEMMA CloseSent ==
    ASSUME SentInv, Typed, NEW c \in Conns, Close(c) \/ CleanupFails(c) PROVE SentInv'
<1>1. CASE Close(c)
  <2> DEFINE f == [task[c] EXCEPT !.owed = @ \ {c}]
  <2>1. NoNewRow(task[c], f)
    BY OwedLess DEF Typed
  <2>2. task' = [d \in Conns |-> IF d = c THEN f ELSE [task[d] EXCEPT !.owed = @ \ {c}]]
    BY <1>1 DEF Close
  <2> HIDE DEF f
  <2> QED
    BY ZenonT(60), <1>1, <2>1, <2>2, GoesSent DEF Close
<1>2. CASE CleanupFails(c)
  <2>1. NoNewRow(task[c], Frame("ended"))
    BY FrameIsFrame DEF NoNewRow
  <2> QED
    BY <1>2, <2>1, GoesSent DEF CleanupFails
<1> QED
  BY <1>1, <1>2

LEMMA ForgetSent ==
    ASSUME SentInv, Typed, NEW c \in Conns, Forget(c) PROVE SentInv'
<1>1. /\ \A i \in DOMAIN slots' :
           slots'[i] # Nobody => i \in DOMAIN slots /\ slots'[i] = slots[i]
      /\ UNCHANGED <<link, got, tableVars>>
  BY DEF Forget
<1>2. \A d \in Conns : NoNewRow(task[d], task'[d])
  BY FrameIsFrame DEF Forget, Typed, NoNewRow
<1>3. NothingSent
  BY <1>1, <1>2 DEF NothingSent, tableVars
<1>4. Seated'
  BY <1>1, StillSeated
<1> QED
  BY <1>3, <1>4, NothingSentStep DEF SentInv

(* A request that broadcasts nothing.                                      *)
LEMMA AnsweredSent ==
    ASSUME SentInv, UNCHANGED <<slots, link, got, task>>,
           ~ rewritten' => ~ rewritten /\ \A m : Stored(rows, m) => Stored(rows', m)
    PROVE  SentInv'
<1>1. NothingSent
  BY DEF NothingSent, NoNewRow
<1> QED
  BY <1>1, QuietSent

LEMMA InactiveSent ==
    ASSUME SentInv, Typed, NEW c \in Conns, streamInactive(c) PROVE SentInv'
<1> DEFINE several == Cardinality(Entries(slots) \cap Local) > 1
           losers  == IF several THEN {c} ELSE Entries(slots)
           todo    == <<Inactive(Stream), Inactive(Publication)>>
           owed    == {e \in Subscribers(Stream) \ losers : link[e] = "open"}
           b       == Broadcast(Frame("sending"), todo)
           f       == [b EXCEPT !.owed = owed]
<1>1. /\ task' = [d \in Conns |-> IF d = c THEN f ELSE [task[d] EXCEPT !.owed = @ \ losers]]
      /\ UNCHANGED <<slots, link, got, tableVars>>
  BY Zenon DEF streamInactive
<1>2. IsFrame(b) /\ b.todo = todo
  BY FrameIsFrame, BroadcastBegins, Zenon
<1>3. Quiet(todo) /\ todo # <<>>
  BY DEF Quiet, uuids
<1>4. Says(todo)
  BY <1>3, InactiveSays
<1> HIDE DEF b, todo, losers, owed
<1>5. f.todo = todo
  BY <1>2 DEF IsFrame, FramesWith
<1> HIDE DEF f
<1>6. task'[c] = f /\ \A d \in Conns \ {c} : NoNewRow(task[d], task'[d])
  BY <1>1, OwedLess DEF Typed
<1>7. Says(f.todo)
  BY <1>4, <1>5
<1> QED
  BY <1>1, <1>6, <1>7, FrameSent

(* A new row is unknown to all.                                            *)
LEMMA InsertSent ==
    ASSUME SentInv, Typed, NEW c \in Conns, NEW t \in Times, NEW hash,
           insertSubscription(c, t, hash)
    PROVE  SentInv'
<1> DEFINE h == HashFor(rows, t, hash)
           m == Row(t, h)
           g == Broadcast(Frame("sending"), <<m>>)
<1>1. CASE ~ IsNew(rows, t)
  <2>1. UNCHANGED <<slots, link, got, task, rows, rewritten>>
    BY <1>1 DEF insertSubscription, peerVars
  <2> QED
    BY <2>1, AnsweredSent
<1>2. CASE IsNew(rows, t)
  <2>1. /\ UNCHANGED <<slots, link, got, rewritten>>
        /\ rows' = With(rows, t, h)
        /\ task' = [task EXCEPT ![c] = g]
    BY <1>2 DEF insertSubscription, peerVars, AddSub
  <2>2. m.kind = "row" /\ m.t = t /\ m.hash = h
    BY DEF Row
  <2>3. g.todo = <<m>> /\ g.at = "sending"
    <3>1. IsFrame(Frame("sending"))
      BY FrameIsFrame
    <3> QED
      BY <3>1, BroadcastBegins DEF Broadcast
  <2> HIDE DEF g, m, h
  <2>4. /\ task'[c] = g /\ Head(g.todo) = m /\ SendsRow(g) /\ Len(g.todo) = 1
        /\ \A d \in Conns : d # c => task'[d] = task[d]
    BY <2>1, <2>2, <2>3 DEF Typed, SendsRow
  <2>5. Seated' /\ GotTyped' /\ Listed'
    BY <2>1, <2>4 DEF SentInv, Seated, GotTyped, Listed, Quiet
  <2>6. Stored(rows', m) /\ \A x : Stored(rows, x) => Stored(rows', x) /\ x.t # t
    BY <1>2, <2>1, <2>2 DEF With, Stored, IsNew
  <2>7. SentAsStored'
    BY <2>1, <2>6 DEF SentInv, SentAsStored, Stored
  <2>8. ASSUME ~ rewritten' PROVE OnItsWay'
    <3>0. OnItsWay /\ SentAsStored /\ ~ rewritten
      BY <2>1, <2>8 DEF SentInv
    <3>1. \A d \in Conns : ~ Got(got[d], m)
      BY <2>2, <2>6, <3>0 DEF SentAsStored, Got, Stored
    <3>2. \A i \in DOMAIN slots : slots[i] # Nobody => slots[i] \in Conns
      BY DEF Typed
    <3>3. \A e \in Conns : e # c /\ SendsRow(task[e]) => Head(task[e].todo) # m
      BY <2>2, <2>6, <3>0 DEF OnItsWay
    <3>4. ASSUME NEW e \in Conns, SendsRow(task'[e])
          PROVE  /\ Stored(rows', Head(task'[e].todo))
                 /\ \A i \in DOMAIN slots :
                      i > task'[e].pos /\ slots[i] # Nobody =>
                          ~ Got(got[slots[i]], Head(task'[e].todo))
                 /\ \A d \in Conns :
                      SendsRow(task'[d]) /\ Head(task'[d].todo) = Head(task'[e].todo) => d = e
      <4>1. CASE e = c
        BY <2>4, <2>6, <3>1, <3>2, <3>3, <4>1
      <4>2. CASE e # c
        <5>1. task'[e] = task[e] /\ Head(task[e].todo) # m /\ SendsRow(task[e])
          BY <2>4, <3>3, <3>4, <4>2
        <5>2. \A d \in Conns :
                SendsRow(task'[d]) /\ Head(task'[d].todo) = Head(task[e].todo) => d = e
          BY <2>4, <3>0, <5>1 DEF OnItsWay
        <5> QED
          BY <2>6, <3>0, <5>1, <5>2 DEF OnItsWay
      <4> QED
        BY <4>1, <4>2
    <3> QED
      BY <2>1, <3>4 DEF OnItsWay
  <2> QED
    BY <2>5, <2>7, <2>8 DEF SentInv
<1> QED
  BY <1>1, <1>2

LEMMA InitSent == Init => SentInv
<1> SUFFICES ASSUME Init PROVE SentInv
  OBVIOUS
<1>1. \A c \in Conns : got[c] = <<>> /\ task[c].at = "none"
  BY DEF Init, Frame
<1>2. <<>> = [i \in 1..0 |-> <<>>[i]] /\ DOMAIN <<>> = {}
  OBVIOUS
<1>3. GotTyped
  BY <1>1, <1>2 DEF Init, GotTyped
<1> QED
  BY <1>1, <1>2, <1>3 DEF Init, SentInv, Seated, Listed, OnItsWay, SendsRow, SentAsStored

LEMMA NextSent == SentInv /\ Typed /\ [Next]_vars => SentInv'
<1> SUFFICES ASSUME SentInv, Typed, [Next]_vars PROVE SentInv'
  OBVIOUS
<1>1. CASE UNCHANGED vars
  BY <1>1, AnsweredSent DEF vars
<1>2. ASSUME NEW c \in Conns, Connect(c) \/ Disconnect(c) PROVE SentInv'
  BY <1>2, ConnectSent, DisconnectSent
<1>3. ASSUME NEW c \in Conns, Step(c) PROVE SentInv'
  <2>1. MessagesEnd(c) \/ RequestFails(c) => Cleanup(c)
    BY DEF MessagesEnd, RequestFails
  <2> QED
    BY <1>3, <2>1, SendSent, BroadcastEndsSent, CleanupSent, CloseSent, ForgetSent DEF Step
<1>4. ASSUME NEW c \in Conns, Request(c) PROVE SentInv'
  <2>1. CASE \E uuid \in uuids : subscribe(c, uuid) \/ addActiveStream(c, uuid)
    BY <2>1, AnsweredSent DEF subscribe, addActiveStream, Answered, tableVars
  <2>2. CASE streamInactive(c)
    BY <2>2, InactiveSent
  <2>3. CASE \E t \in Times : \E hash \in HashesOf(t) : insertSubscription(c, t, hash)
    BY <2>3, InsertSent
  <2>4. ASSUME NEW frame \in Frames, NEW replace \in BOOLEAN, insertFrame(c, frame, replace)
        PROVE  SentInv'
    <3>1. /\ ~ rewritten' => ~ rewritten /\ rows' = AddFrame(rows, frame)
          /\ UNCHANGED <<slots, link, got, task>>
      BY <2>4 DEF insertFrame, Answered, peerVars
    <3>2. ~ rewritten' => \A m : Stored(rows, m) => Stored(rows', m)
      BY <3>1 DEF AddFrame, Stored
    <3> QED
      BY <3>1, <3>2, AnsweredSent
  <2>5. CASE \E times \in SUBSET Times : mergeFromCsv(c, times) \/ deleteStreamData(c, times)
    BY <2>5, AnsweredSent DEF mergeFromCsv, deleteStreamData, Answered, peerVars
  <2> QED
    BY <1>4, <2>1, <2>2, <2>3, <2>4, <2>5 DEF Request
<1> QED
  BY <1>1, <1>2, <1>3, <1>4 DEF Next

(* Whatever is inserted, merged, replaced and deleted, and whoever comes   *)
(* and goes between the sends of a broadcast: a connection gets a row once *)
(* and with the hash of the table, as long as rows are only added; and the *)
(* hashes form a chain when the rows came in order                         *)
(* (_addSubDataToDatabase, blindMerge, updateSubscribers).                 *)
THEOREM HistoriesAgreeAlways == Spec => []HistoriesAgree
<1>1. Init => IInv /\ ChainInv /\ SentInv
  BY InitIInv, InitChain, InitSent
<1>2. (IInv /\ ChainInv /\ SentInv) /\ [Next]_vars => (IInv /\ ChainInv /\ SentInv)'
  BY NextIInv, NextChain, NextSent DEF IInv
<1>3. IInv /\ ChainInv /\ SentInv => HistoriesAgree
  BY DEF ChainInv, SentInv, HistoriesAgree
<1> QED
  BY <1>1, <1>2, <1>3, PTL DEF Spec

=============================================================================

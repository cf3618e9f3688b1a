-------------------------- MODULE DataClientProofs --------------------------
(* Proofs about DataClient: the table of peers names every live connection, *)
(* a caller is given the answer to its own request, rows are queued once,  *)
(* and both ends of a connection agree on encryption.                      *)
EXTENDS DataClient, SequenceTheorems, FiniteSetTheorems, TLAPS

States == {"open", "closing", "closed"}

(* What the argument needs to know of a connection ...                     *)
IsConnection(r) ==
    /\ {"addr", "state", "down"} \subseteq DOMAIN r
    /\ r.addr \in Addrs /\ r.state \in States

(* ... and of all of them.                                                 *)
Lines(cs) ==
    /\ \E n \in Nat : cs = [i \in 1..n |-> cs[i]]
    /\ \A i \in DOMAIN cs : IsConnection(cs[i])

(* ds has the connections of cs, of which some may have begun to close.    *)
Follows(cs, ds) ==
    /\ Lines(ds)
    /\ DOMAIN ds = DOMAIN cs
    /\ \A i \in DOMAIN cs :
         /\ ds[i].addr = cs[i].addr
         /\ ds[i].state = cs[i].state \/ (cs[i].state = "open" /\ ds[i].state = "closing")

LEMMA FollowsSelf == ASSUME NEW cs, Lines(cs) PROVE Follows(cs, cs)
BY DEF Follows

LEMMA FollowsTwice ==
    ASSUME NEW cs, NEW ds, NEW es, Follows(cs, ds), Follows(ds, es)
    PROVE  Follows(cs, es)
BY DEF Follows

(* One entry is replaced by one with the same address.                     *)
LEMMA FollowsOne ==
    ASSUME NEW cs, Lines(cs), NEW k \in DOMAIN cs, NEW r, IsConnection(r),
           r.addr = cs[k].addr,
           r.state = cs[k].state \/ (cs[k].state = "open" /\ r.state = "closing")
    PROVE  Follows(cs, [cs EXCEPT ![k] = r])
<1> DEFINE ds == [cs EXCEPT ![k] = r]
<1>1. PICK n \in Nat : cs = [i \in 1..n |-> cs[i]]
  BY DEF Lines
<1>2. ds = [i \in 1..n |-> ds[i]]
  BY <1>1
<1>3. DOMAIN ds = DOMAIN cs
  OBVIOUS
<1>4. \A i \in DOMAIN cs : ds[i] = IF i = k THEN r ELSE cs[i]
  OBVIOUS
<1>5. Lines(ds)
  BY <1>2, <1>3, <1>4 DEF Lines
<1> QED
  BY <1>3, <1>4, <1>5 DEF Follows

(* A field other than the address and the state gets a new value.          *)
LEMMA FieldSet ==
    ASSUME NEW r, IsConnection(r), NEW v
    PROVE  /\ \A x \in {"up", "down", "bare", "garbled", "listening", "mine", "theirs",
                        "ended", "subscribed"} :
                LET q == [r EXCEPT ![x] = v]
                IN  IsConnection(q) /\ q.addr = r.addr /\ q.state = r.state
<1> SUFFICES ASSUME NEW x \in {"up", "down", "bare", "garbled", "listening", "mine", "theirs",
                                "ended", "subscribed"}
             PROVE  LET q == [r EXCEPT ![x] = v]
                    IN  IsConnection(q) /\ q.addr = r.addr /\ q.state = r.state
  OBVIOUS
<1>1. x # "addr" /\ x # "state"
  OBVIOUS
<1> QED
  BY <1>1 DEF IsConnection

LEMMA FieldFollows ==
    ASSUME NEW cs, Lines(cs), NEW k \in DOMAIN cs, NEW v,
           NEW x \in {"up", "down", "bare", "garbled", "listening", "mine", "theirs",
                      "ended", "subscribed"}
    PROVE  Follows(cs, [cs EXCEPT ![k] = [cs[k] EXCEPT ![x] = v]])
<1> DEFINE q == [cs[k] EXCEPT ![x] = v]
<1>1. IsConnection(cs[k])
  BY DEF Lines
<1>2. IsConnection(q) /\ q.addr = cs[k].addr /\ q.state = cs[k].state
  <2>1. PICK r : r = cs[k]
    OBVIOUS
  <2>2. IsConnection(r)
    BY <1>1, <2>1
  <2>3. /\ IsConnection([r EXCEPT ![x] = v]) /\ [r EXCEPT ![x] = v].addr = r.addr
        /\ [r EXCEPT ![x] = v].state = r.state
    BY ZenonT(60), <2>2, FieldSet
  <2> QED
    BY <2>1, <2>3
<1> HIDE DEF q
<1>3. Follows(cs, [cs EXCEPT ![k] = q])
  BY <1>2, FollowsOne
<1> QED
  BY <1>3 DEF q

(* Writing to a connection and delivering on it.                           *)
LEMMA WrittenFollows ==
    ASSUME NEW cs, Lines(cs), NEW k \in DOMAIN cs, NEW kind, NEW id, NEW chal
    PROVE  Follows(cs, Written(cs, k, kind, id, chal))
<1> DEFINE up   == Append(cs[k].up, [kind |-> kind, id |-> id, chal |-> chal,
                                     enc |-> cs[k].mine])
           bare == IF kind = "ask" /\ ~ cs[k].mine THEN TRUE ELSE cs[k].bare
           ds   == [cs EXCEPT ![k] = [cs[k] EXCEPT !["up"] = up]]
           es   == [ds EXCEPT ![k] = [ds[k] EXCEPT !["bare"] = bare]]
<1> HIDE DEF up, bare
<1>1. Follows(cs, ds)
  BY FieldFollows
<1>2. Follows(ds, es)
  <2>1. Lines(ds) /\ k \in DOMAIN ds
    BY <1>1 DEF Follows
  <2> HIDE DEF ds
  <2> QED
    BY <2>1, FieldFollows
<1>3. Written(cs, k, kind, id, chal) = es
  BY DEF Written, up, bare
<1> QED
  BY <1>1, <1>2, <1>3, FollowsTwice

LEMMA DeliveredFollows ==
    ASSUME NEW cs, Lines(cs), NEW k \in DOMAIN cs, NEW m
    PROVE  Follows(cs, Delivered(cs, k, m))
<1> DEFINE down == Append(cs[k].down, m)
           ds   == [cs EXCEPT ![k] = [cs[k] EXCEPT !["down"] = down]]
<1>1. [cs EXCEPT ![k].down = Append(@, m)] = ds
  OBVIOUS
<1> HIDE DEF down
<1>2. Follows(cs, ds)
  BY FieldFollows
<1>3. Delivered(cs, k, m) = IF cs[k].state = "closed" THEN cs ELSE ds
  BY <1>1 DEF Delivered
<1> QED
  BY <1>2, <1>3, FollowsSelf

LEMMA ClosingFollows ==
    ASSUME NEW cs, Lines(cs), NEW k \in DOMAIN cs
    PROVE  Follows(cs, Closing(cs, k))
<1> DEFINE state == IF cs[k].state = "open" THEN "closing" ELSE cs[k].state
           r     == [cs[k] EXCEPT !.state = state]
<1>1. IsConnection(cs[k])
  BY DEF Lines
<1>2. IsConnection(r) /\ r.addr = cs[k].addr /\ r.state = state
  BY <1>1 DEF IsConnection, States
<1>3. Closing(cs, k) = [cs EXCEPT ![k] = r]
  BY DEF Closing
<1>4. r.state = cs[k].state \/ (cs[k].state = "open" /\ r.state = "closing")
  BY <1>2
<1>5. IsConnection(r) /\ r.addr = cs[k].addr
  BY <1>2
<1> HIDE DEF r, state
<1>6. Follows(cs, [cs EXCEPT ![k] = r])
  BY <1>4, <1>5, FollowsOne
<1> QED
  BY <1>3, <1>6

-----------------------------------------------------------------------------
(* The inductive invariant *)

Dials(c, a) == call[c].addr = a /\ call[c].pc \in {"dial", "redial"}

Calls == [pc : {"idle", "dial", "redial", "hello", "proof", "asked", "dropping", "leaving"},
          addr : Addrs \cup {None}, id : Nat, sub : Nat, peer : Nat, chal : Nat,
          dialled : BOOLEAN]

Typed ==
    /\ Lines(conns)
    /\ peers \in [Addrs -> Nat]
    /\ \A a \in Addrs : peers[a] # None => peers[a] \in DOMAIN conns
    /\ call \in [Callers -> Calls]
    /\ \A c \in Callers : call[c].pc \notin {"idle", "leaving"} => call[c].addr \in Addrs
    /\ ids \in Nat

(* Who dials an address dials it alone, and the table has nothing for it:  *)
(* so nothing is lost from the table when the connection is put there.     *)
DialsAlone ==
    ~ raced => \A c \in Callers, a \in Addrs : Dials(c, a) =>
                  /\ peers[a] = None
                  /\ \A d \in Callers : Dials(d, a) => d = c

IInv == Typed /\ DialsAlone /\ LiveIsListed

THEOREM InitIInv == Init => IInv
<1> SUFFICES ASSUME Init PROVE IInv
  OBVIOUS
<1>1. Lines(conns)
  <2>1. conns = [i \in 1..0 |-> conns[i]]
    BY DEF Init
  <2> QED
    BY SMTT(60), <2>1 DEF Init, Lines
<1> QED
  BY <1>1 DEF Init, IInv, Typed, DialsAlone, LiveIsListed, Idle, Dials, Calls, None

-----------------------------------------------------------------------------
(* Steps that preserve it *)

(* Connections may begin to close, and callers may go on, but begin no     *)
(* dial.                                                                   *)
Calm ==
    /\ Follows(conns, conns')
    /\ UNCHANGED <<peers, raced>>
    /\ ids' \in Nat
    /\ call' \in [Callers -> Calls]
    /\ \A c \in Callers :
         \/ call'[c] = call[c]
         \/ /\ call'[c].pc \notin {"dial", "redial"}
            /\ call'[c].pc \notin {"idle", "leaving"} => call'[c].addr \in Addrs

LEMMA CalmStep == ASSUME IInv, Calm PROVE IInv'
<1>1. Typed'
  BY DEF Calm, IInv, Typed, Follows
<1>2. DialsAlone'
  <2>1. \A c \in Callers, a \in Addrs : Dials(c, a)' => Dials(c, a)
    BY DEF Calm, Dials
  <2> QED
    BY <2>1 DEF Calm, IInv, DialsAlone
<1>3. LiveIsListed'
  <2> SUFFICES ASSUME ~ raced', NEW k \in DOMAIN conns', conns'[k].state # "closed"
               PROVE  peers'[conns'[k].addr] = k
    BY DEF LiveIsListed
  <2>1. k \in DOMAIN conns /\ conns[k].state # "closed" /\ conns'[k].addr = conns[k].addr
    BY DEF Calm, Follows
  <2> QED
    BY <2>1 DEF Calm, IInv, LiveIsListed
<1> QED
  BY <1>1, <1>2, <1>3 DEF IInv

(* A step of the network or of a server.                                   *)
LEMMA FarStep ==
    ASSUME IInv, Follows(conns, conns'), UNCHANGED <<peers, raced, call, ids>>
    PROVE  IInv'
BY CalmStep DEF Calm, IInv, Typed

(* What a caller that writes becomes, and what it does to connections.     *)
Writes(c, f, cs) ==
    /\ Follows(cs, conns')
    /\ call' \in [Callers -> Calls]
    /\ \A d \in Callers \ {c} : call'[d] = call[d]
    /\ call'[c].pc \in {"idle", "asked", "hello", "proof"}
    /\ call'[c].pc # "idle" => call'[c].addr = f.addr

LEMMA WriteWrites ==
    ASSUME call \in [Callers -> Calls], NEW c \in Callers, NEW f \in Calls, f.addr \in Addrs,
           NEW kind \in {"ask", "hello", "proof"}, NEW cs, Lines(cs), NEW ps, NEW r,
           ps[f.addr] # None => ps[f.addr] \in DOMAIN cs,
           Write(c, f, kind, cs, ps, r)
    PROVE  Writes(c, f, cs)
<1> DEFINE g == [f EXCEPT !.pc = IF kind = "ask" THEN "asked" ELSE kind]
<1>1. g \in Calls /\ g.pc \in {"asked", "hello", "proof"} /\ g.addr = f.addr
  BY DEF Calls
<1>2. Idle \in Calls /\ Idle.pc = "idle"
  BY DEF Idle, Calls, None
<1> HIDE DEF g
<1>3. CASE Writable(cs, ps, f.addr)
  <2>1. call' = [call EXCEPT ![c] = g]
    BY <1>3 DEF Write, g
  <2>2. Follows(cs, conns')
    BY <1>3, WrittenFollows DEF Write, Writable
  <2> QED
    BY <1>1, <2>1, <2>2 DEF Writes
<1>4. CASE ~ Writable(cs, ps, f.addr)
  <2>1. call' = [call EXCEPT ![c] = Idle] /\ conns' = cs
    BY <1>4 DEF Write
  <2> QED
    BY <1>2, <2>1, FollowsSelf DEF Writes
<1> QED
  BY <1>3, <1>4

(* A caller writes, or gives up, and dials no more.                        *)
LEMMA WriteStep ==
    ASSUME IInv, NEW c \in Callers, NEW f \in Calls, f.addr \in Addrs,
           Writes(c, f, conns), UNCHANGED <<peers, raced>>, ids' \in Nat
    PROVE  IInv'
<1>1. Calm
  BY DEF Writes, Calm
<1> QED
  BY <1>1, CalmStep

LEMMA RaiseStep ==
    ASSUME IInv, NEW c \in Callers, Raise(c), UNCHANGED <<conns, peers, raced>>, ids' \in Nat
    PROVE  IInv'
<1>1. Idle \in Calls /\ Idle.pc = "idle"
  BY DEF Idle, Calls, None
<1>2. call' = [call EXCEPT ![c] = Idle]
  BY DEF Raise
<1>3. Follows(conns, conns')
  BY FollowsSelf DEF IInv, Typed
<1>4. Calm
  BY <1>1, <1>2, <1>3 DEF Calm, IInv, Typed
<1> QED
  BY <1>4, CalmStep

LEMMA DropStep ==
    ASSUME IInv, NEW c \in Callers, NEW r, call[c].addr \in Addrs, Drop(c, r),
           UNCHANGED <<peers, raced>>, ids' \in Nat
    PROVE  IInv'
<1> DEFINE k == peers[call[c].addr]
           f == [call[c] EXCEPT !.pc = "dropping", !.peer = k]
<1>1. CASE k = None
  BY <1>1, RaiseStep DEF Drop
<1>2. CASE k # None
  <2>1. f \in Calls /\ f.pc = "dropping" /\ f.addr = call[c].addr
    BY DEF Calls, IInv, Typed
  <2>2. call' = [call EXCEPT ![c] = f]
    BY <1>2 DEF Drop, IInv, Typed
  <2>3. Follows(conns, conns')
    BY <1>2, ClosingFollows DEF Drop, IInv, Typed
  <2> HIDE DEF f
  <2>4. Calm
    BY <2>1, <2>2, <2>3 DEF Calm, IInv, Typed
  <2> QED
    BY <2>4, CalmStep
<1> QED
  BY <1>1, <1>2

-----------------------------------------------------------------------------
(* The actions of the callers *)

LEMMA CallUnknownStep ==
    ASSUME IInv, NEW c \in Callers, NEW a \in Addrs, CallUnknown(c, a) PROVE IInv'
<1> DEFINE f == [Idle EXCEPT !.pc = "dial", !.addr = a, !.id = ids + 1, !.dialled = TRUE]
<1>1. f \in Calls /\ f.pc = "dial" /\ f.addr = a
  <2>1. ids + 1 \in Nat
    BY DEF IInv, Typed
  <2> QED
    BY <2>1 DEF Idle, Calls, None
<1>2. call' = [call EXCEPT ![c] = f] /\ peers' = peers /\ conns' = conns /\ ids' = ids + 1
      /\ raced' = (raced \/ Dialling(a)) /\ peers[a] = None
  BY DEF CallUnknown, Begins, Unknown
<1> HIDE DEF f
<1>3. Typed'
  BY <1>1, <1>2 DEF IInv, Typed
<1>4. DialsAlone'
  <2> SUFFICES ASSUME ~ raced', NEW d \in Callers, NEW b \in Addrs, Dials(d, b)'
               PROVE  /\ peers'[b] = None
                      /\ \A e \in Callers : Dials(e, b)' => e = d
    BY DEF DialsAlone
  <2>1. ~ raced /\ ~ Dialling(a) /\ DialsAlone
    BY <1>2 DEF IInv
  <2>2. call'[c] = f /\ \A e \in Callers : e # c => call'[e] = call[e]
    BY <1>2 DEF IInv, Typed
  <2>3. \A e \in Callers : ~ Dials(e, a)
    BY <2>1 DEF Dialling, Dials
  <2>4. \A e \in Callers : e # c => (Dials(e, b)' <=> Dials(e, b))
    BY <2>2 DEF Dials
  <2>5. Dials(c, b)' => b = a
    BY <1>1, <2>2 DEF Dials
  <2>6. CASE b = a
    <3>1. \A e \in Callers : Dials(e, b)' => e = c
      BY <2>3, <2>4, <2>6
    <3> QED
      BY <1>2, <2>6, <3>1
  <2>7. CASE b # a
    <3>1. \A e \in Callers : Dials(e, b)' => Dials(e, b)
      BY <2>4, <2>5, <2>7
    <3> QED
      BY <1>2, <2>1, <3>1 DEF DialsAlone
  <2> QED
    BY <2>6, <2>7
<1>5. LiveIsListed'
  BY <1>2 DEF IInv, LiveIsListed
<1> QED
  BY <1>3, <1>4, <1>5 DEF IInv

LEMMA CallKnownStep ==
    ASSUME IInv, NEW c \in Callers, NEW a \in Addrs, CallKnown(c, a) PROVE IInv'
<1> DEFINE f == [Idle EXCEPT !.addr = a, !.id = ids + 1]
<1>1. f \in Calls /\ f.addr = a
  <2>1. ids + 1 \in Nat
    BY DEF IInv, Typed
  <2> QED
    BY <2>1 DEF Idle, Calls, None
<1>2. Write(c, f, "ask", conns, peers, result[c]) /\ UNCHANGED <<peers, raced>> /\ ids' \in Nat
  BY DEF CallKnown, Begins, IInv, Typed
<1> HIDE DEF f
<1>3. Writes(c, f, conns)
  BY <1>1, <1>2, WriteWrites DEF IInv, Typed
<1> QED
  BY <1>1, <1>2, <1>3, WriteStep

(* A dial that succeeds: the new connection takes its place in the table,  *)
(* which had nothing for the address, and nobody else dials it.            *)
LEMMA Connected ==
    ASSUME IInv, NEW c \in Callers, NEW f \in Calls, f.addr = call[c].addr,
           call[c].pc \in {"dial", "redial"},
           NEW kind \in {"hello", "proof"}, NEW r,
           LET ps == [peers EXCEPT ![f.addr] = Len(conns) + 1]
           IN  /\ peers' = ps
               /\ Write(c, f, kind, Append(conns, Connection(f.addr)), ps, r),
           raced' = raced, ids' \in Nat
    PROVE  IInv'
<1> DEFINE a  == f.addr
           k  == Len(conns) + 1
           cs == Append(conns, Connection(a))
           ps == [peers EXCEPT ![a] = k]
<1>1. a \in Addrs
  BY DEF IInv, Typed
<1>2. PICK n \in Nat : conns = [i \in 1..n |-> conns[i]]
  BY DEF IInv, Typed, Lines
<1>3. k = n + 1 /\ DOMAIN conns = 1..n
  BY <1>2
<1>4. /\ DOMAIN cs = 1..k
      /\ \A i \in 1..k : cs[i] = IF i = k THEN Connection(a) ELSE conns[i]
      /\ cs = [i \in 1..k |-> cs[i]]
  BY <1>2, <1>3
<1> HIDE DEF cs
<1>5. IsConnection(Connection(a)) /\ Connection(a).addr = a
  BY <1>1 DEF Connection, IsConnection, States
<1>6. Lines(cs)
  <2>1. k \in Nat
    BY <1>3
  <2>2. ASSUME NEW i \in 1..k PROVE IsConnection(cs[i])
    <3>1. CASE i = k
      BY <1>4, <1>5, <3>1
    <3>2. CASE i # k
      <4>1. i \in DOMAIN conns /\ cs[i] = conns[i]
        BY <1>3, <1>4, <3>2
      <4> QED
        BY <4>1 DEF Lines, IInv, Typed
    <3> QED
      BY <3>1, <3>2
  <2> QED
    BY <1>4, <2>1, <2>2 DEF Lines
<1>7. ps \in [Addrs -> Nat] /\ ps[a] = k /\ \A b \in Addrs : b # a => ps[b] = peers[b]
  BY <1>1, <1>3 DEF IInv, Typed
<1>8. peers' = ps /\ Write(c, f, kind, cs, ps, r)
  BY DEF cs
<1> HIDE DEF ps, k
<1>9. Writes(c, f, cs)
  <2>1. ps[a] \in DOMAIN cs /\ call \in [Callers -> Calls]
    BY <1>3, <1>4, <1>7 DEF IInv, Typed
  <2> QED
    BY <1>1, <1>6, <1>8, <2>1, WriteWrites
<1>10. Follows(cs, conns')
  BY <1>9 DEF Writes
<1>11. Typed'
  <2>1. \A b \in Addrs : ps[b] # None => ps[b] \in DOMAIN conns'
    BY <1>3, <1>4, <1>7, <1>10 DEF IInv, Typed, Follows
  <2>2. \A d \in Callers : call'[d].pc \notin {"idle", "leaving"} => call'[d].addr \in Addrs
    BY <1>1, <1>9 DEF Writes, IInv, Typed
  <2> QED
    BY <1>7, <1>8, <1>9, <1>10, <2>1, <2>2 DEF Typed, Follows, Writes
<1>12. ASSUME ~ raced
       PROVE  /\ peers[a] = None
              /\ \A d \in Callers, b \in Addrs : Dials(d, b)' => d # c /\ b # a /\ Dials(d, b)
  <2>1. Dials(c, a)
    BY DEF Dials
  <2>2. peers[a] = None /\ \A d \in Callers : Dials(d, a) => d = c
    BY <1>1, <1>12, <2>1 DEF IInv, DialsAlone
  <2>3. \A d \in Callers, b \in Addrs : Dials(d, b)' => d # c /\ Dials(d, b)
    BY <1>9 DEF Writes, Dials
  <2> QED
    BY <2>2, <2>3
<1>13. DialsAlone'
  BY <1>7, <1>8, <1>12 DEF IInv, DialsAlone
<1>14. LiveIsListed'
  <2> SUFFICES ASSUME ~ raced', NEW i \in DOMAIN conns', conns'[i].state # "closed"
               PROVE  ps[conns'[i].addr] = i
    BY <1>8 DEF LiveIsListed
  <2>1. i \in 1..k /\ conns'[i].addr = cs[i].addr /\ cs[i].state # "closed"
    BY <1>4, <1>10 DEF Follows
  <2>2. CASE i = k
    BY <1>4, <1>5, <1>7, <2>1, <2>2
  <2>3. CASE i # k
    <3>1. i \in DOMAIN conns /\ conns[i] = cs[i]
      BY <1>3, <1>4, <2>1, <2>3
    <3>4. conns[i].addr \in Addrs
      BY <3>1 DEF IInv, Typed, Lines, IsConnection
    <3>2. peers[conns[i].addr] = i /\ i # None
      BY <1>3, <2>1, <3>1 DEF IInv, LiveIsListed, None
    <3>3. conns[i].addr # a
      BY <1>12, <3>2
    <3> QED
      BY <1>7, <2>1, <3>1, <3>2, <3>3, <3>4
  <2> QED
    BY <2>2, <2>3
<1> QED
  BY <1>11, <1>13, <1>14 DEF IInv

LEMMA DialSucceedsStep ==
    ASSUME IInv, NEW c \in Callers, DialSucceeds(c) PROVE IInv'
<1> DEFINE f == [call[c] EXCEPT !.sub = ids + 1]
<1>1. f \in Calls /\ f.addr = call[c].addr
  <2>1. ids + 1 \in Nat /\ call[c] \in Calls
    BY DEF IInv, Typed
  <2> QED
    BY <2>1 DEF Calls
<1>2. /\ call[c].pc = "dial" /\ raced' = raced /\ ids' \in Nat
      /\ peers' = [peers EXCEPT ![f.addr] = Len(conns) + 1]
      /\ Write(c, f, "hello", Append(conns, Connection(f.addr)),
               [peers EXCEPT ![f.addr] = Len(conns) + 1], result[c])
  BY <1>1 DEF DialSucceeds, IInv, Typed
<1> HIDE DEF f
<1> QED
  BY <1>1, <1>2, Connected

LEMMA RedialSucceedsStep ==
    ASSUME IInv, NEW c \in Callers, RedialSucceeds(c) PROVE IInv'
<1> DEFINE f == call[c]
<1>1. f \in Calls
  BY DEF IInv, Typed
<1>2. /\ f.pc = "redial" /\ raced' = raced /\ ids' \in Nat
      /\ peers' = [peers EXCEPT ![f.addr] = Len(conns) + 1]
      /\ Write(c, f, "proof", Append(conns, Connection(f.addr)),
               [peers EXCEPT ![f.addr] = Len(conns) + 1], result[c])
  BY DEF RedialSucceeds, IInv, Typed
<1> QED
  BY <1>1, <1>2, Connected

(* A caller that writes with the connections and the table as they are.    *)
LEMMA WritesOn ==
    ASSUME IInv, NEW c \in Callers, NEW f \in Calls, f.addr \in Addrs,
           NEW kind \in {"ask", "hello", "proof"}, NEW r,
           Write(c, f, kind, conns, peers, r), UNCHANGED <<peers, raced>>, ids' \in Nat
    PROVE  IInv'
<1>1. Writes(c, f, conns)
  BY WriteWrites DEF IInv, Typed
<1> QED
  BY <1>1, WriteStep

LEMMA DialFailsStep ==
    ASSUME IInv, NEW c \in Callers, DialFails(c) \/ RedialFails(c) PROVE IInv'
<1>1. call[c] \in Calls /\ call[c].addr \in Addrs
  BY DEF DialFails, RedialFails, IInv, Typed
<1>2. \E kind \in {"ask", "proof"} : Write(c, call[c], kind, conns, peers, result[c])
  BY DEF DialFails, RedialFails
<1>3. UNCHANGED <<peers, raced>> /\ ids' \in Nat
  BY DEF DialFails, RedialFails, IInv, Typed
<1> QED
  BY <1>1, <1>2, <1>3, WritesOn

LEMMA EndedStep ==
    ASSUME IInv, NEW c \in Callers, TimesOut(c) \/ \E r \in responses : Answered(c, r)
    PROVE  IInv'
<1>1. CASE TimesOut(c)
  BY <1>1, RaiseStep DEF TimesOut, IInv, Typed
<1>2. ASSUME NEW r \in responses, Answered(c, r) PROVE IInv'
  <2>1. Idle \in Calls /\ Idle.pc = "idle"
    BY DEF Idle, Calls, None
  <2>2. Follows(conns, conns')
    BY <1>2, FollowsSelf DEF Answered, IInv, Typed
  <2>3. Calm
    BY <1>2, <2>1, <2>2 DEF Answered, Calm, IInv, Typed
  <2> QED
    BY <2>3, CalmStep
<1> QED
  BY <1>1, <1>2

LEMMA HelloAnsweredStep ==
    ASSUME IInv, NEW c \in Callers, NEW r \in responses, HelloAnswered(c, r) PROVE IInv'
<1> DEFINE f == call[c]
           g == [f EXCEPT !.sub = ids + 1, !.chal = f.sub, !.peer = peers[f.addr]]
           h == [g EXCEPT !.pc = "redial"]
<1>1. f \in Calls /\ f.addr \in Addrs /\ ids + 1 \in Nat /\ peers[f.addr] \in Nat
  BY DEF HelloAnswered, IInv, Typed
<1>2. g \in Calls /\ g.addr = f.addr /\ h \in Calls /\ h.addr = f.addr /\ h.pc = "redial"
  BY <1>1 DEF Calls
<1>3. peers' = peers
  BY DEF HelloAnswered
<1>4. CASE Drop(c, r.id) /\ UNCHANGED <<ids, raced>>
  BY <1>1, <1>3, <1>4, DropStep DEF IInv, Typed
<1>5. CASE ids' = ids + 1 /\ Write(c, g, "proof", conns, peers, r.id) /\ UNCHANGED raced
  <2> HIDE DEF g, f
  <2> QED
    BY <1>1, <1>2, <1>3, <1>5, WritesOn
<1>6. CASE /\ Unknown(f.addr) /\ ids' = ids + 1 /\ UNCHANGED conns
           /\ call' = [call EXCEPT ![c] = h]
           /\ raced' = (raced \/ Dialling(f.addr))
  <2> HIDE DEF g, h
  <2>1. Typed'
    BY <1>1, <1>2, <1>3, <1>6 DEF IInv, Typed
  <2>2. DialsAlone'
    BY ZenonT(60), <1>2, <1>3, <1>6 DEF IInv, Typed, DialsAlone, Dials, Dialling, Unknown
  <2>3. LiveIsListed'
    BY <1>3, <1>6 DEF IInv, LiveIsListed
  <2> QED
    BY <2>1, <2>2, <2>3 DEF IInv
<1> QED
  BY <1>4, <1>5, <1>6 DEF HelloAnswered

LEMMA SetOutside ==
    ASSUME NEW n \in Nat, NEW cs, cs = [i \in 1..n |-> cs[i]], NEW k, k \notin DOMAIN cs
    PROVE  [cs EXCEPT ![k].mine = TRUE] = cs
<1> DEFINE ds == [cs EXCEPT ![k].mine = TRUE]
<1>1. DOMAIN cs = 1..n
  OBVIOUS
<1>2. ds = [i \in 1..n |-> ds[i]]
  BY <1>1
<1>3. \A i \in 1..n : ds[i] = cs[i]
  BY <1>1
<1> HIDE DEF ds
<1>4. ds = cs
  BY <1>2, <1>3
<1> QED
  BY <1>4 DEF ds

LEMMA ProofAnsweredStep ==
    ASSUME IInv, NEW c \in Callers, NEW r \in responses, ProofAnswered(c, r) PROVE IInv'
<1> DEFINE f == call[c]
           cs == [conns EXCEPT ![f.peer].mine = TRUE]
<1>1. f \in Calls /\ f.addr \in Addrs /\ ids' \in Nat /\ UNCHANGED <<peers, raced>>
  BY DEF ProofAnswered, IInv, Typed
<1>2. CASE Drop(c, r.id)
  BY <1>1, <1>2, DropStep
<1>3. CASE Raise(c) /\ UNCHANGED conns
  BY <1>1, <1>3, RaiseStep
<1>4. CASE Write(c, f, "ask", cs, peers, r.id)
  <2>1. Follows(conns, cs)
    <3>1. CASE f.peer \in DOMAIN conns
      <4>1. cs = [conns EXCEPT ![f.peer] = [conns[f.peer] EXCEPT !["mine"] = TRUE]]
        OBVIOUS
      <4> HIDE DEF cs, f
      <4> QED
        BY <3>1, <4>1, FieldFollows DEF IInv, Typed
    <3>2. CASE f.peer \notin DOMAIN conns
      <4>1. PICK n \in Nat : conns = [i \in 1..n |-> conns[i]]
        BY DEF IInv, Typed, Lines
      <4>2. cs = conns
        BY <3>2, <4>1, SetOutside
      <4> QED
        BY <4>2, FollowsSelf DEF IInv, Typed
    <3> QED
      BY <3>1, <3>2
  <2> HIDE DEF cs, f
  <2>2. Lines(cs) /\ DOMAIN cs = DOMAIN conns
    BY <2>1 DEF Follows
  <2>3. Writes(c, f, cs)
    BY <1>1, <1>4, <2>2, WriteWrites DEF IInv, Typed
  <2>4. Follows(conns, conns')
    BY <2>1, <2>3, FollowsTwice DEF Writes
  <2>5. Writes(c, f, conns)
    BY <2>3, <2>4 DEF Writes
  <2> QED
    BY <1>1, <2>5, WriteStep
<1> QED
  BY <1>2, <1>3, <1>4 DEF ProofAnswered

LEMMA DisconnectAllStep ==
    ASSUME IInv, NEW c \in Callers, NEW a \in Addrs, DisconnectAll(c, a) PROVE IInv'
<1> DEFINE f == [Idle EXCEPT !.pc = "leaving", !.peer = peers[a]]
<1>1. f \in Calls /\ f.pc = "leaving"
  <2>1. peers[a] \in Nat
    BY DEF IInv, Typed
  <2> QED
    BY <2>1 DEF Idle, Calls, None
<1>2. call' = [call EXCEPT ![c] = f] /\ UNCHANGED <<peers, raced, ids>>
  BY DEF DisconnectAll
<1>3. Follows(conns, conns')
  BY ClosingFollows DEF DisconnectAll, IInv, Typed
<1> HIDE DEF f
<1>4. Calm
  BY <1>1, <1>2, <1>3 DEF Calm, IInv, Typed
<1> QED
  BY <1>4, CalmStep

-----------------------------------------------------------------------------
(* The listeners, the servers and the network *)

LEMMA ReceiveStep ==
    ASSUME IInv, NEW k \in DOMAIN conns, Receive(k) PROVE IInv'
<1> DEFINE down == Tail(conns[k].down)
           cs   == [conns EXCEPT ![k] = [conns[k] EXCEPT !["down"] = down]]
           rest == [conns EXCEPT ![k].down = Tail(@)]
<1>1. Lines(conns)
  BY DEF IInv, Typed
<1>2. rest = cs
  OBVIOUS
<1>3. UNCHANGED <<peers, raced, call, ids>>
  BY DEF Receive, callVars
<1>4. \/ conns' = rest
      \/ conns' = [Closing(rest, k) EXCEPT ![k].listening = FALSE, ![k].garbled = TRUE]
  BY DEF Receive
<1> HIDE DEF down, rest
<1>5. Follows(conns, cs)
  BY <1>1, FieldFollows
<1> HIDE DEF cs
<1>6. Lines(cs) /\ k \in DOMAIN cs
  BY <1>5 DEF Follows
<1>7. CASE conns' = cs
  BY <1>3, <1>5, <1>7, FarStep
<1>8. CASE conns' = [Closing(cs, k) EXCEPT ![k].listening = FALSE, ![k].garbled = TRUE]
  <2> DEFINE ds == Closing(cs, k)
             es == [ds EXCEPT ![k] = [ds[k] EXCEPT !["listening"] = FALSE]]
             gs == [es EXCEPT ![k] = [es[k] EXCEPT !["garbled"] = TRUE]]
  <2>1. Follows(cs, ds)
    BY <1>6, ClosingFollows
  <2>2. conns' = gs
    BY <1>8
  <2> HIDE DEF ds
  <2>3. Lines(ds) /\ k \in DOMAIN ds
    BY <1>6, <2>1 DEF Follows
  <2>4. Follows(ds, es)
    BY <2>3, FieldFollows
  <2> HIDE DEF es
  <2>5. Lines(es) /\ k \in DOMAIN es
    BY <2>3, <2>4 DEF Follows
  <2>6. Follows(es, gs)
    BY <2>5, FieldFollows
  <2> HIDE DEF gs
  <2>7. Follows(conns, conns')
    BY <1>5, <2>1, <2>2, <2>4, <2>6, FollowsTwice
  <2> QED
    BY <1>3, <2>7, FarStep
<1> QED
  BY <1>2, <1>4, <1>7, <1>8

LEMMA NoticeEndStep ==
    ASSUME IInv, NEW k \in DOMAIN conns, NoticeEnd(k) PROVE IInv'
<1> DEFINE cs == Closing(conns, k)
           ds == [cs EXCEPT ![k] = [cs[k] EXCEPT !["listening"] = FALSE]]
<1>1. Follows(conns, cs)
  BY ClosingFollows DEF IInv, Typed
<1>2. conns' = ds
  BY DEF NoticeEnd, Left
<1>3. UNCHANGED <<peers, raced, call, ids>>
  BY DEF NoticeEnd, callVars
<1> HIDE DEF cs
<1>4. Lines(cs) /\ k \in DOMAIN cs
  BY <1>1 DEF Follows
<1>5. Follows(cs, ds)
  BY <1>4, FieldFollows
<1> HIDE DEF ds
<1> QED
  BY <1>1, <1>2, <1>3, <1>5, FollowsTwice, FarStep

(* A server takes a request, notes something about the connection, and     *)
(* answers.                                                                *)
LEMMA NotedFollows ==
    ASSUME NEW cs, Lines(cs), NEW k \in DOMAIN cs, NEW x \in {"theirs", "subscribed"}, NEW m
    PROVE  Follows(cs, Delivered([cs EXCEPT ![k] = [cs[k] EXCEPT ![x] = TRUE]], k, m))
<1> DEFINE ds == [cs EXCEPT ![k] = [cs[k] EXCEPT ![x] = TRUE]]
<1>1. Follows(cs, ds)
  BY FieldFollows
<1> HIDE DEF ds
<1>2. Lines(ds) /\ k \in DOMAIN ds
  BY <1>1 DEF Follows
<1>3. Follows(cs, Delivered(ds, k, m))
  BY <1>1, <1>2, DeliveredFollows, FollowsTwice
<1> QED
  BY <1>3 DEF ds

LEMMA HandleStep ==
    ASSUME IInv, NEW k \in DOMAIN conns, Handle(k) PROVE IInv'
<1> DEFINE up   == Tail(conns[k].up)
           cs   == [conns EXCEPT ![k] = [conns[k] EXCEPT !["up"] = up]]
           rest == [conns EXCEPT ![k].up = Tail(@)]
           shut == [conns EXCEPT ![k].up = <<>>, ![k].ended = TRUE, ![k].garbled = TRUE]
<1>1. Lines(conns)
  BY DEF IInv, Typed
<1>2. rest = cs
  OBVIOUS
<1>3. UNCHANGED <<peers, raced, call, ids>>
  BY DEF Handle, callVars
<1>4. \/ conns' = shut
      \/ \E m : \/ conns' = Delivered(rest, k, m)
               \/ conns' = Delivered([rest EXCEPT ![k].theirs = TRUE], k, m)
               \/ conns' = Delivered([rest EXCEPT ![k].subscribed = TRUE], k, m)
  BY DEF Handle
<1> HIDE DEF up, rest
<1>5. Follows(conns, cs)
  BY <1>1, FieldFollows
<1>6. CASE conns' = shut
  <2> DEFINE ds == [conns EXCEPT ![k] = [conns[k] EXCEPT !["up"] = <<>>]]
             es == [ds EXCEPT ![k] = [ds[k] EXCEPT !["ended"] = TRUE]]
             gs == [es EXCEPT ![k] = [es[k] EXCEPT !["garbled"] = TRUE]]
  <2>1. Follows(conns, ds)
    BY <1>1, FieldFollows
  <2>2. conns' = gs
    BY <1>6
  <2> HIDE DEF ds
  <2>3. Lines(ds) /\ k \in DOMAIN ds
    BY <2>1 DEF Follows
  <2>4. Follows(ds, es)
    BY <2>3, FieldFollows
  <2> HIDE DEF es
  <2>5. Lines(es) /\ k \in DOMAIN es
    BY <2>3, <2>4 DEF Follows
  <2>6. Follows(es, gs)
    BY <2>5, FieldFollows
  <2> HIDE DEF gs
  <2>7. Follows(conns, conns')
    BY <2>1, <2>2, <2>4, <2>6, FollowsTwice
  <2> QED
    BY <1>3, <2>7, FarStep
<1> HIDE DEF cs, shut
<1>7. Lines(cs) /\ k \in DOMAIN cs
  BY <1>5 DEF Follows
<1>8. ASSUME NEW m, conns' = Delivered(cs, k, m) PROVE IInv'
  BY <1>3, <1>5, <1>7, <1>8, DeliveredFollows, FollowsTwice, FarStep
<1>9. ASSUME NEW m, NEW x \in {"theirs", "subscribed"},
             conns' = Delivered([cs EXCEPT ![k] = [cs[k] EXCEPT ![x] = TRUE]], k, m)
      PROVE  IInv'
  BY <1>3, <1>5, <1>7, <1>9, NotedFollows, FollowsTwice, FarStep
<1>10. /\ [rest EXCEPT ![k].theirs = TRUE] = [cs EXCEPT ![k] = [cs[k] EXCEPT !["theirs"] = TRUE]]
       /\ [rest EXCEPT ![k].subscribed = TRUE]
            = [cs EXCEPT ![k] = [cs[k] EXCEPT !["subscribed"] = TRUE]]
  BY <1>2
<1> QED
  BY <1>2, <1>4, <1>6, <1>8, <1>9, <1>10

LEMMA BroadcastStep ==
    ASSUME IInv, NEW a \in Addrs, Broadcast(a) PROVE IInv'
<1>1. Lines(conns)
  BY DEF IInv, Typed
<1>2. UNCHANGED <<peers, raced, call, ids>>
  BY DEF Broadcast, callVars
<1> DEFINE subscribed == {k \in DOMAIN conns :
                            conns[k].addr = a /\ conns[k].subscribed /\ ~ conns[k].ended}
           served == {k \in subscribed : \A j \in subscribed : j <= k => conns[j].theirs}
           m == [kind |-> "row", id |-> rows[a] + 1, ok |-> TRUE, enc |-> TRUE]
<1>3. conns' = [k \in DOMAIN conns |->
                    IF k \in served THEN Delivered(conns, k, m)[k] ELSE conns[k]]
  BY DEF Broadcast
<1> HIDE DEF served, m
<1>4. ASSUME NEW k \in DOMAIN conns
      PROVE  /\ IsConnection(conns'[k]) /\ conns'[k].addr = conns[k].addr
             /\ conns'[k].state = conns[k].state
                \/ (conns[k].state = "open" /\ conns'[k].state = "closing")
  <2> DEFINE ds == Delivered(conns, k, m)
  <2>1. Follows(conns, ds)
    BY <1>1, DeliveredFollows
  <2>2. conns'[k] = ds[k] \/ conns'[k] = conns[k]
    BY <1>3
  <2> HIDE DEF ds
  <2> QED
    BY <1>1, <2>1, <2>2 DEF Follows, Lines
<1>5. PICK n \in Nat : conns = [i \in 1..n |-> conns[i]]
  BY <1>1 DEF Lines
<1>6. DOMAIN conns = 1..n
  BY <1>5
<1>7. DOMAIN conns' = DOMAIN conns /\ conns' = [i \in 1..n |-> conns'[i]]
  BY <1>3, <1>6
<1>8. Follows(conns, conns')
  BY <1>4, <1>7 DEF Follows, Lines
<1> QED
  BY <1>2, <1>8, FarStep

LEMMA ServerEndsStep ==
    ASSUME IInv, NEW k \in DOMAIN conns, ServerEnds(k) PROVE IInv'
<1>1. conns' = [conns EXCEPT ![k] = [conns[k] EXCEPT !["ended"] = TRUE]]
      /\ UNCHANGED <<peers, raced, call, ids>>
  BY DEF ServerEnds, callVars
<1>2. Follows(conns, conns')
  BY <1>1, FieldFollows DEF IInv, Typed
<1> QED
  BY <1>1, <1>2, FarStep

LEMMA LoseStep ==
    ASSUME IInv, NEW k \in DOMAIN conns, Lose(k) PROVE IInv'
<1>1. PICK n : conns' = [conns EXCEPT ![k].ended = TRUE, ![k].up = <<>>,
                                      ![k].down = SubSeq(@, 1, n)]
  BY DEF Lose
<1>2. UNCHANGED <<peers, raced, call, ids>>
  BY DEF Lose, callVars
<1> DEFINE down == SubSeq(conns[k].down, 1, n)
           cs == [conns EXCEPT ![k] = [conns[k] EXCEPT !["ended"] = TRUE]]
           ds == [cs EXCEPT ![k] = [cs[k] EXCEPT !["up"] = <<>>]]
           es == [ds EXCEPT ![k] = [ds[k] EXCEPT !["down"] = down]]
<1>3. conns' = es
  <2>1. conns[k].down = ds[k].down
    <3>1. IsConnection(conns[k])
      BY DEF IInv, Typed, Lines
    <3> QED
      BY <3>1 DEF IsConnection
  <2> QED
    BY <1>1, <2>1
<1> HIDE DEF down
<1>4. Follows(conns, cs)
  BY FieldFollows DEF IInv, Typed
<1> HIDE DEF cs
<1>5. Lines(cs) /\ k \in DOMAIN cs
  BY <1>4 DEF Follows
<1>6. Follows(cs, ds)
  BY <1>5, FieldFollows
<1> HIDE DEF ds
<1>7. Lines(ds) /\ k \in DOMAIN ds
  BY <1>5, <1>6 DEF Follows
<1>8. Follows(ds, es)
  BY <1>7, FieldFollows
<1> HIDE DEF es
<1>9. Follows(conns, conns')
  BY <1>3, <1>4, <1>6, <1>8, FollowsTwice
<1> QED
  BY <1>2, <1>9, FarStep

(* A connection has closed.  The table had it, for its address, and no     *)
(* other connection with this address is live: nothing else is taken out.  *)
LEMMA CloseEndsStep ==
    ASSUME IInv, NEW k \in DOMAIN conns, CloseEnds(k) PROVE IInv'
<1> DEFINE a == conns[k].addr
           r == [conns[k] EXCEPT !.state = "closed", !.down = <<>>]
<1>1. IsConnection(conns[k]) /\ a \in Addrs
  BY DEF IInv, Typed, Lines, IsConnection
<1>2. IsConnection(r) /\ r.addr = a /\ r.state = "closed"
  BY <1>1 DEF IsConnection, States
<1>3. conns' = [conns EXCEPT ![k] = r]
  BY DEF CloseEnds
<1> HIDE DEF r
<1>4. PICK n \in Nat : conns = [i \in 1..n |-> conns[i]]
  BY DEF IInv, Typed, Lines
<1>5. /\ DOMAIN conns' = DOMAIN conns
      /\ conns' = [i \in 1..n |-> conns'[i]]
      /\ \A i \in DOMAIN conns : conns'[i] = IF i = k THEN r ELSE conns[i]
  BY <1>3, <1>4
<1>6. Lines(conns')
  BY <1>2, <1>5 DEF Lines, IInv, Typed
<1>7. /\ peers' \in [Addrs -> Nat] /\ peers'[a] = None
      /\ \A b \in Addrs : b # a => peers'[b] = peers[b]
  BY <1>1 DEF CloseEnds, Deleted, IInv, Typed, None
<1>8. \A c \in Callers : call'[c] = Idle \/ call'[c] = call[c]
  BY DEF CloseEnds
<1>9. call' \in [Callers -> Calls]
  <2>1. Idle \in Calls
    BY DEF Idle, Calls, None
  <2> QED
    BY <2>1 DEF CloseEnds, IInv, Typed
<1>10. raced' = raced /\ ids' \in Nat
  BY DEF CloseEnds, IInv, Typed
<1>11. Idle.pc = "idle"
  BY DEF Idle
<1>12. Typed'
  <2>1. \A b \in Addrs : peers'[b] # None => peers'[b] \in DOMAIN conns'
    BY <1>5, <1>7 DEF IInv, Typed
  <2>2. \A c \in Callers : call'[c].pc \notin {"idle", "leaving"} => call'[c].addr \in Addrs
    BY <1>8, <1>11 DEF IInv, Typed
  <2> QED
    BY <1>6, <1>7, <1>9, <1>10, <2>1, <2>2 DEF Typed
<1>13. DialsAlone'
  <2>1. \A c \in Callers, b \in Addrs : Dials(c, b)' => Dials(c, b)
    BY <1>8, <1>11 DEF Dials
  <2>2. \A b \in Addrs : peers[b] = None => peers'[b] = None
    BY <1>7
  <2> QED
    BY <1>10, <2>1, <2>2 DEF IInv, DialsAlone
<1>14. LiveIsListed'
  <2> SUFFICES ASSUME ~ raced', NEW i \in DOMAIN conns', conns'[i].state # "closed"
               PROVE  peers'[conns'[i].addr] = i
    BY DEF LiveIsListed
  <2>1. i \in DOMAIN conns /\ i # k /\ conns'[i] = conns[i]
    BY <1>2, <1>5
  <2>2. peers[conns[i].addr] = i
    BY <1>10, <2>1 DEF IInv, LiveIsListed
  <2>3. peers[a] = k
    BY <1>10 DEF IInv, LiveIsListed, CloseEnds
  <2>4. conns[i].addr \in Addrs /\ conns[i].addr # a
    BY <2>1, <2>2, <2>3 DEF IInv, Typed, Lines, IsConnection
  <2> QED
    BY <1>7, <2>1, <2>2, <2>4
<1> QED
  BY <1>12, <1>13, <1>14 DEF IInv

-----------------------------------------------------------------------------
(* Every step preserves the invariant.                                     *)
THEOREM NextIInv == IInv /\ [Next]_vars => IInv'
<1> SUFFICES ASSUME IInv, [Next]_vars PROVE IInv'
  OBVIOUS
<1>1. ASSUME NEW c \in Callers, NEW a \in Addrs,
             CallUnknown(c, a) \/ CallKnown(c, a) \/ DisconnectAll(c, a)
      PROVE  IInv'
  BY <1>1, CallUnknownStep, CallKnownStep, DisconnectAllStep
<1>2. ASSUME NEW c \in Callers, Ends(c) PROVE IInv'
  BY <1>2, DialSucceedsStep, DialFailsStep, RedialSucceedsStep, EndedStep,
     HelloAnsweredStep, ProofAnsweredStep DEF Ends
<1>3. ASSUME NEW k \in DOMAIN conns, Listens(k) PROVE IInv'
  BY <1>3, ReceiveStep, NoticeEndStep, CloseEndsStep DEF Listens
<1>4. ASSUME NEW k \in DOMAIN conns, Handle(k) \/ ServerEnds(k) \/ Lose(k) PROVE IInv'
  BY <1>4, HandleStep, ServerEndsStep, LoseStep
<1>5. ASSUME NEW a \in Addrs, Broadcast(a) PROVE IInv'
  BY <1>5, BroadcastStep
<1>6. CASE UNCHANGED vars
  <2>1. Follows(conns, conns')
    BY <1>6, FollowsSelf DEF IInv, Typed, vars
  <2>2. UNCHANGED <<peers, raced, call, ids>>
    BY <1>6 DEF vars, callVars
  <2> QED
    BY <2>1, <2>2, FarStep
<1> QED
  BY <1>1, <1>2, <1>3, <1>4, <1>5, <1>6 DEF Next

(* Unless two callers dial one address at a time, the table of peers names *)
(* every live connection: disconnect, which deletes by address, never      *)
(* takes out a successor (client.py, connectToPeer and disconnect).        *)
THEOREM LiveIsListedAlways == Spec => []LiveIsListed
<1>1. IInv => LiveIsListed
  BY DEF IInv
<1> QED
  BY InitIInv, NextIInv, <1>1, PTL DEF Spec

-----------------------------------------------------------------------------
(* The messages on their way, and what a step can do to a connection       *)

Requests == [kind : {"ask", "hello", "proof"}, id : Nat, chal : Nat, enc : BOOLEAN]
Messages == [kind : {"answer", "row"}, id : Nat, ok : BOOLEAN, enc : BOOLEAN]
Replies  == [id : Nat, ok : BOOLEAN]

Wires == [addr : Addrs, state : States, listening : BOOLEAN, mine : BOOLEAN,
          ended : BOOLEAN, theirs : BOOLEAN, subscribed : BOOLEAN,
          up : Seq(Requests), down : Seq(Messages), garbled : BOOLEAN, bare : BOOLEAN]

(* The requests on their way to a server, and the answers that come back.  *)
UpIds(r) == {r.up[i].id : i \in DOMAIN r.up}
DownIds(r) == {r.down[i].id : i \in {j \in DOMAIN r.down : r.down[j].kind = "answer"}}
Asked(cs) == UNION {UpIds(cs[k]) : k \in DOMAIN cs}
Given(cs) == UNION {DownIds(cs[k]) : k \in DOMAIN cs}
Received(rs) == {r.id : r \in rs}

(* The rows on their way are newer and newer, newer than those in the      *)
(* queue q, and not newer than n.                                          *)
Orderly(down, q, n) ==
    \A i \in DOMAIN down : down[i].kind = "row" =>
        /\ down[i].id <= n
        /\ \A x \in DOMAIN q : q[x] < down[i].id
        /\ \A j \in DOMAIN down : i < j /\ down[j].kind = "row" => down[i].id < down[j].id
StaysOrderly(d, e) == \A q, n : Orderly(d, q, n) => Orderly(e, q, n)

(* What a step makes of one connection: of the requests on their way only  *)
(* those of W are new, and of the answers those of A; no row is new.       *)
Moves(r, s, W, A) ==
    /\ s \in Wires
    /\ s.addr = r.addr
    /\ s.state = r.state \/ (r.state = "open" /\ s.state = "closing")
    /\ r.state = "closed" /\ r.down = <<>> => s.down = <<>>
    /\ UpIds(s) \subseteq UpIds(r) \cup W
    /\ DownIds(s) \subseteq DownIds(r) \cup A
    /\ StaysOrderly(r.down, s.down)

(* The same of all of them.                                                *)
Moved(cs, ds, W, A) ==
    /\ ds \in Seq(Wires)
    /\ DOMAIN ds = DOMAIN cs /\ Len(ds) = Len(cs)
    /\ \A k \in DOMAIN cs : Moves(cs[k], ds[k], W, A)

LEMMA MovedSelf ==
    ASSUME NEW cs \in Seq(Wires), NEW W, NEW A PROVE Moved(cs, cs, W, A)
<1>1. ASSUME NEW k \in DOMAIN cs PROVE Moves(cs[k], cs[k], W, A)
  <2>1. cs[k] \in Wires
    BY ElementOfSeq, LenProperties
  <2> QED
    BY <2>1 DEF Moves, StaysOrderly
<1> QED
  BY <1>1 DEF Moved

LEMMA Element ==
    ASSUME NEW S, NEW s \in Seq(S)
    PROVE  /\ Len(s) \in Nat /\ DOMAIN s = 1..Len(s)
           /\ \A i \in DOMAIN s : s[i] \in S
BY LenProperties, ElementOfSeq

LEMMA Put ==
    ASSUME NEW S, NEW cs \in Seq(S), NEW k \in DOMAIN cs, NEW r \in S
    PROVE  LET ds == [cs EXCEPT ![k] = r] IN
           /\ ds \in Seq(S)
           /\ DOMAIN ds = DOMAIN cs /\ Len(ds) = Len(cs)
           /\ \A i \in DOMAIN cs : ds[i] = IF i = k THEN r ELSE cs[i]
BY ExceptSeq, Element

LEMMA MovedOne ==
    ASSUME NEW cs \in Seq(Wires), NEW k \in DOMAIN cs, NEW r, NEW W, NEW A,
           Moves(cs[k], r, W, A)
    PROVE  Moved(cs, [cs EXCEPT ![k] = r], W, A)
<1> DEFINE ds == [cs EXCEPT ![k] = r]
<1>1. r \in Wires
  BY DEF Moves
<1>2. /\ ds \in Seq(Wires)
      /\ DOMAIN ds = DOMAIN cs /\ Len(ds) = Len(cs)
      /\ \A i \in DOMAIN cs : ds[i] = IF i = k THEN r ELSE cs[i]
  BY <1>1, Put
<1> HIDE DEF ds
<1>3. \A i \in DOMAIN cs : Moves(cs[i], cs[i], W, A)
  BY MovedSelf DEF Moved
<1>4. Moved(cs, ds, W, A)
  BY <1>2, <1>3 DEF Moved
<1> QED
  BY <1>4 DEF ds

LEMMA MovedTwice ==
    ASSUME NEW cs, NEW ds, NEW es, NEW W, NEW A, Moved(cs, ds, {}, {}), Moved(ds, es, W, A)
    PROVE  Moved(cs, es, W, A)
<1>1. ASSUME NEW k \in DOMAIN cs PROVE Moves(cs[k], es[k], W, A)
  <2>1. Moves(cs[k], ds[k], {}, {}) /\ Moves(ds[k], es[k], W, A)
    BY DEF Moved
  <2>2. StaysOrderly(cs[k].down, es[k].down)
    BY <2>1 DEF Moves, StaysOrderly
  <2> QED
    BY <2>1, <2>2 DEF Moves
<1> QED
  BY <1>1 DEF Moved

LEMMA MovedIds ==
    ASSUME NEW cs, NEW ds, NEW W, NEW A, Moved(cs, ds, W, A)
    PROVE  /\ Asked(ds) \subseteq Asked(cs) \cup W
           /\ Given(ds) \subseteq Given(cs) \cup A
<1>1. ASSUME NEW k \in DOMAIN cs
      PROVE  UpIds(ds[k]) \subseteq UpIds(cs[k]) \cup W /\ DownIds(ds[k]) \subseteq DownIds(cs[k]) \cup A
  BY DEF Moved, Moves
<1>2. DOMAIN ds = DOMAIN cs
  BY DEF Moved
<1> QED
  BY <1>1, <1>2 DEF Asked, Given

(* The sequences of messages: one more, one less, a part of them.          *)
LEMMA UpMore ==
    ASSUME NEW r \in Wires, NEW s, NEW m \in Requests, s.up = Append(r.up, m)
    PROVE  s.up \in Seq(Requests) /\ UpIds(s) \subseteq UpIds(r) \cup {m.id}
<1>1. r.up \in Seq(Requests)
  BY DEF Wires
<1>2. PICK n \in Nat : n = Len(r.up) /\ DOMAIN r.up = 1..n
  BY <1>1, Element
<1>3. /\ s.up \in Seq(Requests) /\ Len(s.up) = n + 1
      /\ \A i \in 1..n : s.up[i] = r.up[i]
      /\ s.up[n + 1] = m
  BY <1>1, <1>2, AppendProperties
<1>4. DOMAIN s.up = 1..(n + 1)
  BY <1>3, Element
<1>5. ASSUME NEW i \in DOMAIN s.up PROVE s.up[i].id \in UpIds(r) \cup {m.id}
  <2>1. CASE i = n + 1
    BY <1>3, <2>1
  <2>2. CASE i \in 1..n
    BY <1>2, <1>3, <2>2 DEF UpIds
  <2> QED
    BY <1>2, <1>4, <2>1, <2>2
<1> QED
  BY <1>3, <1>5 DEF UpIds

LEMMA UpLess ==
    ASSUME NEW r \in Wires, NEW s, s.up = <<>> \/ (r.up # <<>> /\ s.up = Tail(r.up))
    PROVE  s.up \in Seq(Requests) /\ UpIds(s) \subseteq UpIds(r)
<1>1. r.up \in Seq(Requests)
  BY DEF Wires
<1>2. CASE s.up = <<>>
  BY <1>2 DEF UpIds
<1>3. CASE r.up # <<>> /\ s.up = Tail(r.up)
  <2>1. PICK n \in Nat : n = Len(r.up) /\ DOMAIN r.up = 1..n
    BY <1>1, Element
  <2>2. /\ s.up \in Seq(Requests) /\ Len(s.up) = n - 1
        /\ \A i \in 1..Len(s.up) : s.up[i] = r.up[i + 1]
    BY <1>1, <1>3, <2>1, HeadTailProperties
  <2>3. DOMAIN s.up = 1..(n - 1)
    BY <2>2, Element
  <2>4. ASSUME NEW i \in DOMAIN s.up PROVE s.up[i].id \in UpIds(r)
    <3>1. i + 1 \in 1..n /\ s.up[i] = r.up[i + 1]
      BY SMTT(60), <2>1, <2>2, <2>3
    <3> QED
      BY <2>1, <3>1 DEF UpIds
  <2> QED
    BY <2>2, <2>4 DEF UpIds
<1> QED
  BY <1>2, <1>3

(* What is in down is what was in it, in this order: e.                    *)
Part(d, e) ==
    \E f \in [DOMAIN e -> DOMAIN d] :
        /\ \A i \in DOMAIN e : e[i] = d[f[i]]
        /\ \A i, j \in DOMAIN e : i < j => f[i] < f[j]

LEMMA PartOrderly ==
    ASSUME NEW d, NEW e, Part(d, e) PROVE StaysOrderly(d, e)
<1>1. PICK f \in [DOMAIN e -> DOMAIN d] :
          /\ \A i \in DOMAIN e : e[i] = d[f[i]]
          /\ \A i, j \in DOMAIN e : i < j => f[i] < f[j]
  BY DEF Part
<1> SUFFICES ASSUME NEW q, NEW n, Orderly(d, q, n), NEW i \in DOMAIN e, e[i].kind = "row"
             PROVE  /\ e[i].id <= n
                    /\ \A x \in DOMAIN q : q[x] < e[i].id
                    /\ \A j \in DOMAIN e : i < j /\ e[j].kind = "row" => e[i].id < e[j].id
  BY DEF StaysOrderly, Orderly
<1>2. f[i] \in DOMAIN d /\ d[f[i]] = e[i]
  BY <1>1
<1>3. ASSUME NEW j \in DOMAIN e, i < j, e[j].kind = "row" PROVE e[i].id < e[j].id
  <2>1. f[j] \in DOMAIN d /\ d[f[j]] = e[j] /\ f[i] < f[j]
    BY <1>1, <1>3
  <2> QED
    BY <1>2, <1>3, <2>1 DEF Orderly
<1> QED
  BY <1>2, <1>3 DEF Orderly

LEMMA TailPart ==
    ASSUME NEW S, NEW d \in Seq(S), d # <<>>
    PROVE  Part(d, Tail(d)) /\ Tail(d) \in Seq(S)
<1>1. PICK n \in Nat : n = Len(d) /\ DOMAIN d = 1..n
  BY Element
<1>2. PICK e : e = Tail(d)
  OBVIOUS
<1>3. e \in Seq(S) /\ Len(e) = n - 1 /\ \A i \in 1..Len(e) : e[i] = d[i + 1]
  BY <1>1, <1>2, HeadTailProperties
<1>4. DOMAIN e = 1..(n - 1)
  BY <1>3, Element
<1> DEFINE f == [i \in DOMAIN e |-> i + 1]
<1>5. f \in [DOMAIN e -> DOMAIN d]
  BY <1>1, <1>4
<1>6. \A i \in DOMAIN e : e[i] = d[f[i]]
  BY <1>3, <1>4
<1>7. \A i, j \in DOMAIN e : i < j => f[i] < f[j]
  BY <1>4
<1> HIDE DEF f
<1> QED
  BY <1>2, <1>3, <1>5, <1>6, <1>7 DEF Part

LEMMA FirstPart ==
    ASSUME NEW S, NEW d \in Seq(S), NEW m \in 0..Len(d)
    PROVE  Part(d, SubSeq(d, 1, m)) /\ SubSeq(d, 1, m) \in Seq(S)
<1>1. PICK n \in Nat : n = Len(d) /\ DOMAIN d = 1..n
  BY Element
<1>2. PICK e : e = SubSeq(d, 1, m)
  OBVIOUS
<1>3. m \in Nat /\ m <= n
  BY <1>1
<1>4. \A i \in 1..m : d[i] \in S
  BY <1>1, <1>3, Element
<1>5. e \in Seq(S) /\ Len(e) = m /\ \A i \in 1..m : e[i] = d[i]
  <2>1. /\ SubSeq(d, 1, m) \in Seq(S)
        /\ Len(SubSeq(d, 1, m)) = IF 1 <= m THEN m - 1 + 1 ELSE 0
        /\ \A i \in 1..(m - 1 + 1) : SubSeq(d, 1, m)[i] = d[1 + i - 1]
    BY <1>3, <1>4, SubSeqProperties
  <2> QED
    BY <1>2, <1>3, <2>1
<1>6. DOMAIN e = 1..m
  BY <1>5, Element
<1> DEFINE f == [i \in DOMAIN e |-> i]
<1>7. f \in [DOMAIN e -> DOMAIN d] /\ \A i \in DOMAIN e : f[i] = i
  BY <1>1, <1>3, <1>6
<1> HIDE DEF f
<1>8. \A i \in DOMAIN e : e[i] = d[f[i]]
  BY <1>5, <1>6, <1>7
<1>9. \A i, j \in DOMAIN e : i < j => f[i] < f[j]
  BY <1>7
<1> QED
  BY <1>2, <1>5, <1>7, <1>8, <1>9 DEF Part

LEMMA PartIds ==
    ASSUME NEW r, NEW s, Part(r.down, s.down) PROVE DownIds(s) \subseteq DownIds(r)
BY DEF Part, DownIds

LEMMA AnswerMore ==
    ASSUME NEW r \in Wires, NEW s, NEW m \in Messages, m.kind = "answer",
           s.down = Append(r.down, m)
    PROVE  /\ s.down \in Seq(Messages)
           /\ DownIds(s) \subseteq DownIds(r) \cup {m.id}
           /\ StaysOrderly(r.down, s.down)
<1>1. r.down \in Seq(Messages)
  BY DEF Wires
<1>2. PICK n \in Nat : n = Len(r.down) /\ DOMAIN r.down = 1..n
  BY <1>1, Element
<1>3. PICK d, e : d = r.down /\ e = s.down
  OBVIOUS
<1>4. /\ e \in Seq(Messages) /\ Len(e) = n + 1
      /\ \A i \in 1..n : e[i] = d[i]
      /\ e[n + 1] = m
  BY <1>1, <1>2, <1>3, AppendProperties
<1>5. DOMAIN e = 1..(n + 1)
  BY <1>4, Element
<1>6. \A i \in DOMAIN e : (i \in DOMAIN d /\ e[i] = d[i]) \/ (i = n + 1 /\ e[i] = m)
  BY <1>2, <1>3, <1>4, <1>5
<1>7. DownIds(s) \subseteq DownIds(r) \cup {m.id}
  BY <1>3, <1>6 DEF DownIds
<1>8. StaysOrderly(d, e)
  <2> SUFFICES ASSUME NEW q, NEW z, Orderly(d, q, z), NEW i \in DOMAIN e, e[i].kind = "row"
               PROVE  /\ e[i].id <= z
                      /\ \A x \in DOMAIN q : q[x] < e[i].id
                      /\ \A j \in DOMAIN e : i < j /\ e[j].kind = "row" => e[i].id < e[j].id
    BY DEF StaysOrderly, Orderly
  <2>1. \A j \in DOMAIN e : e[j].kind = "row" => j \in DOMAIN d /\ e[j] = d[j]
    BY <1>6
  <2> QED
    BY <2>1 DEF Orderly
<1> QED
  BY <1>3, <1>4, <1>7, <1>8

(* What the steps make of a connection.                                    *)
Shut(r) == IF r.state = "open" THEN "closing" ELSE r.state

(* up and down stay. *)
LEMMA MovesNothing ==
    ASSUME NEW r \in Wires, NEW s \in Wires, s.addr = r.addr, s.up = r.up, s.down = r.down,
           s.state = r.state \/ (r.state = "open" /\ s.state = "closing")
    PROVE  Moves(r, s, {}, {})
BY DEF Moves, UpIds, DownIds, StaysOrderly

LEMMA MovesWritten ==
    ASSUME NEW r \in Wires, NEW m \in Requests, NEW b \in BOOLEAN
    PROVE  Moves(r, [r EXCEPT !.up = Append(r.up, m), !.bare = b], {m.id}, {})
<1> DEFINE s == [r EXCEPT !.up = Append(r.up, m), !.bare = b]
<1>1. /\ s.addr = r.addr /\ s.state = r.state /\ s.down = r.down
      /\ s.up = Append(r.up, m)
  BY DEF Wires
<1>2. s.up \in Seq(Requests) /\ UpIds(s) \subseteq UpIds(r) \cup {m.id}
  <2> HIDE DEF s
  <2> QED
    BY <1>1, UpMore
<1>3. s \in Wires
  BY <1>1, <1>2 DEF Wires
<1> HIDE DEF s
<1>4. DownIds(s) = DownIds(r) /\ StaysOrderly(r.down, s.down)
  BY <1>1 DEF DownIds, StaysOrderly
<1>5. Moves(r, s, {m.id}, {})
  BY <1>1, <1>2, <1>3, <1>4 DEF Moves
<1> QED
  BY <1>5 DEF s

(* The first of down is taken, or a part of it lost, and up is as it was   *)
(* or empty.                                                               *)
LEMMA MovesPart ==
    ASSUME NEW r \in Wires, NEW s \in Wires, s.addr = r.addr, s.up = r.up \/ s.up = <<>>,
           Part(r.down, s.down), r.state # "closed",
           s.state = r.state \/ (r.state = "open" /\ s.state = "closing")
    PROVE  Moves(r, s, {}, {})
<1>1. UpIds(s) \subseteq UpIds(r)
  BY DEF UpIds
<1> QED
  BY <1>1, PartOrderly, PartIds DEF Moves

(* The first of up is taken, and answered if the connection is there.      *)
LEMMA MovesHandled ==
    ASSUME NEW r \in Wires, r.up # <<>>, NEW m \in Messages, m.kind = "answer",
           NEW s, s.addr = r.addr, s.state = r.state, s.up = Tail(r.up),
           s.down = IF r.state = "closed" THEN r.down ELSE Append(r.down, m),
           s.up \in Seq(Requests) /\ s.down \in Seq(Messages) => s \in Wires
    PROVE  Moves(r, s, {}, {m.id})
<1>1. s.up \in Seq(Requests) /\ UpIds(s) \subseteq UpIds(r)
  BY UpLess
<1>2. CASE r.state = "closed"
  <2>1. s.down = r.down
    BY <1>2
  <2>2. DownIds(s) = DownIds(r) /\ StaysOrderly(r.down, s.down)
    BY <2>1 DEF DownIds, StaysOrderly
  <2>3. s.down \in Seq(Messages)
    BY <2>1 DEF Wires
  <2> QED
    BY <1>1, <2>1, <2>2, <2>3 DEF Moves
<1>3. CASE r.state # "closed"
  <2>1. s.down = Append(r.down, m)
    BY <1>3
  <2> QED
    BY <1>1, <1>3, <2>1, AnswerMore DEF Moves
<1> QED
  BY <1>2, <1>3

(* The same in the terms of the actions.                                   *)
LEMMA WrittenMoved ==
    ASSUME NEW cs \in Seq(Wires), NEW k \in DOMAIN cs, NEW kind \in {"ask", "hello", "proof"},
           NEW id \in Nat, NEW chal \in Nat
    PROVE  Moved(cs, Written(cs, k, kind, id, chal), {id}, {})
<1> DEFINE r == cs[k]
           m == [kind |-> kind, id |-> id, chal |-> chal, enc |-> r.mine]
           b == IF kind = "ask" /\ ~ r.mine THEN TRUE ELSE r.bare
           s == [r EXCEPT !.up = Append(r.up, m), !.bare = b]
<1>1. r \in Wires
  BY Element
<1>2. m \in Requests /\ b \in BOOLEAN /\ m.id = id
  BY <1>1 DEF Wires, Requests
<1>3. Written(cs, k, kind, id, chal) = [cs EXCEPT ![k] = s]
  BY DEF Written
<1> HIDE DEF m, b
<1>4. Moves(r, s, {id}, {})
  BY <1>1, <1>2, MovesWritten
<1> HIDE DEF s
<1>5. Moved(cs, [cs EXCEPT ![k] = s], {id}, {})
  BY <1>4, MovedOne
<1> QED
  BY <1>3, <1>5

LEMMA ClosingMoved ==
    ASSUME NEW cs \in Seq(Wires), NEW k \in DOMAIN cs
    PROVE  Moved(cs, Closing(cs, k), {}, {})
<1> DEFINE r == cs[k]
           s == [r EXCEPT !.state = Shut(r)]
<1>1. r \in Wires
  BY Element
<1>2. s \in Wires /\ s.addr = r.addr /\ s.up = r.up /\ s.down = r.down
      /\ (s.state = r.state \/ (r.state = "open" /\ s.state = "closing"))
  BY <1>1 DEF Wires, Shut, States
<1>3. Closing(cs, k) = [cs EXCEPT ![k] = s]
  BY DEF Closing, Shut
<1> HIDE DEF s
<1>4. Moves(r, s, {}, {})
  BY <1>1, <1>2, MovesNothing
<1>5. Moved(cs, [cs EXCEPT ![k] = s], {}, {})
  BY <1>4, MovedOne
<1> QED
  BY <1>3, <1>5

LEMMA LeftMoved ==
    ASSUME conns \in Seq(Wires), NEW k \in DOMAIN conns
    PROVE  Moved(conns, Left(k), {}, {})
<1> DEFINE r == conns[k]
           s == [r EXCEPT !.state = Shut(r), !.listening = FALSE]
<1>1. r \in Wires
  BY Element
<1>2. s \in Wires /\ s.addr = r.addr /\ s.up = r.up /\ s.down = r.down
      /\ (s.state = r.state \/ (r.state = "open" /\ s.state = "closing"))
  BY <1>1 DEF Wires, Shut, States
<1>3. Left(k) = [conns EXCEPT ![k] = s]
  BY DEF Left, Closing, Shut
<1> HIDE DEF s
<1>4. Moves(r, s, {}, {})
  BY <1>1, <1>2, MovesNothing
<1>5. Moved(conns, [conns EXCEPT ![k] = s], {}, {})
  BY <1>4, MovedOne
<1> QED
  BY <1>3, <1>5

LEMMA EndedMoved ==
    ASSUME NEW cs \in Seq(Wires), NEW k \in DOMAIN cs
    PROVE  /\ Moved(cs, [cs EXCEPT ![k].ended = TRUE], {}, {})
           /\ Moved(cs, [cs EXCEPT ![k].mine = TRUE], {}, {})
<1> DEFINE r == cs[k]
           s == [r EXCEPT !.ended = TRUE]
           t == [r EXCEPT !.mine = TRUE]
<1>1. r \in Wires
  BY Element
<1>2. s \in Wires /\ s.addr = r.addr /\ s.up = r.up /\ s.down = r.down /\ s.state = r.state
  BY <1>1 DEF Wires
<1>3. t \in Wires /\ t.addr = r.addr /\ t.up = r.up /\ t.down = r.down /\ t.state = r.state
  BY <1>1 DEF Wires
<1>4. /\ [cs EXCEPT ![k].ended = TRUE] = [cs EXCEPT ![k] = s]
      /\ [cs EXCEPT ![k].mine = TRUE] = [cs EXCEPT ![k] = t]
  OBVIOUS
<1> HIDE DEF s, t
<1>5. Moves(r, s, {}, {}) /\ Moves(r, t, {}, {})
  BY <1>1, <1>2, <1>3, MovesNothing
<1> QED
  BY <1>4, <1>5, MovedOne

LEMMA ReceiveMoved ==
    ASSUME conns \in Seq(Wires), NEW k \in DOMAIN conns, Receive(k)
    PROVE  Moved(conns, conns', {}, {})
<1> DEFINE r == conns[k]
           s == [r EXCEPT !.down = Tail(r.down)]
           t == [r EXCEPT !.down = Tail(r.down), !.state = Shut(r), !.listening = FALSE,
                          !.garbled = TRUE]
<1>1. r \in Wires /\ r.down # <<>> /\ r.state # "closed" /\ r.down \in Seq(Messages)
  <2>1. r \in Wires
    BY Element
  <2> QED
    BY <2>1 DEF Receive, Wires
<1>2. Part(r.down, Tail(r.down)) /\ Tail(r.down) \in Seq(Messages)
  BY <1>1, TailPart
<1>3. s \in Wires /\ s.addr = r.addr /\ s.up = r.up /\ s.down = Tail(r.down) /\ s.state = r.state
  BY <1>1, <1>2 DEF Wires
<1>4. t \in Wires /\ t.addr = r.addr /\ t.up = r.up /\ t.down = Tail(r.down)
      /\ (t.state = r.state \/ (r.state = "open" /\ t.state = "closing"))
  BY <1>1, <1>2 DEF Wires, Shut, States
<1>5. conns' = [conns EXCEPT ![k] = s] \/ conns' = [conns EXCEPT ![k] = t]
  BY <1>1 DEF Receive, Closing, Shut, Wires
<1> HIDE DEF s, t
<1>6. Moves(r, s, {}, {}) /\ Moves(r, t, {}, {})
  BY <1>1, <1>2, <1>3, <1>4, MovesPart
<1>7. Moved(conns, [conns EXCEPT ![k] = s], {}, {}) /\ Moved(conns, [conns EXCEPT ![k] = t], {}, {})
  BY <1>6, MovedOne
<1> QED
  BY <1>5, <1>7

LEMMA LostIs ==
    ASSUME NEW r \in Wires, NEW e \in Seq(Messages)
    PROVE  LET s == [r EXCEPT !.ended = TRUE, !.up = <<>>, !.down = e] IN
           s \in Wires /\ s.addr = r.addr /\ s.up = <<>> /\ s.down = e /\ s.state = r.state
<1> DEFINE s == [r EXCEPT !.ended = TRUE, !.up = <<>>, !.down = e]
<1>1. <<>> \in Seq(Requests)
  OBVIOUS
<1>2. /\ s.addr = r.addr /\ s.state = r.state /\ s.ended = TRUE /\ s.up = <<>> /\ s.down = e
      /\ s.listening = r.listening /\ s.mine = r.mine /\ s.theirs = r.theirs
      /\ s.subscribed = r.subscribed /\ s.garbled = r.garbled /\ s.bare = r.bare
  BY DEF Wires
<1>3. s \in Wires
  BY <1>1 DEF Wires
<1> QED
  BY <1>2, <1>3

LEMMA LoseMoved ==
    ASSUME conns \in Seq(Wires), NEW k \in DOMAIN conns, Lose(k)
    PROVE  Moved(conns, conns', {}, {})
<1> DEFINE r == conns[k]
<1>1. r \in Wires /\ r.state = "open" /\ r.down \in Seq(Messages)
  <2>1. r \in Wires
    BY Element
  <2> QED
    BY <2>1 DEF Lose, Wires
<1>2. PICK n \in 0..Len(r.down) :
          conns' = [conns EXCEPT ![k].ended = TRUE, ![k].up = <<>>, ![k].down = SubSeq(@, 1, n)]
  BY DEF Lose
<1> DEFINE e == SubSeq(r.down, 1, n)
           s == [r EXCEPT !.ended = TRUE, !.up = <<>>, !.down = e]
<1>3. Part(r.down, e) /\ e \in Seq(Messages)
  BY <1>1, FirstPart
<1>5. conns' = [conns EXCEPT ![k] = s]
  BY <1>1, <1>2 DEF Wires
<1> HIDE DEF e
<1>4. /\ s \in Wires /\ s.addr = r.addr /\ s.up = <<>> /\ s.down = e
      /\ s.state = r.state
  BY <1>1, <1>3, LostIs
<1> HIDE DEF s
<1>6. Moves(r, s, {}, {})
  BY <1>1, <1>3, <1>4, MovesPart
<1> QED
  BY <1>5, <1>6, MovedOne

(* What the server makes of a connection when it handles a request.        *)
Choked(r) == [r EXCEPT !.up = <<>>, !.ended = TRUE, !.garbled = TRUE]
Handled(r, theirs, subscribed, m) ==
    [r EXCEPT !.up = Tail(r.up), !.theirs = theirs, !.subscribed = subscribed,
              !.down = IF r.state = "closed" THEN r.down ELSE Append(r.down, m)]

LEMMA HandledIs ==
    ASSUME NEW r \in Wires, r.up # <<>>, NEW t \in BOOLEAN, NEW b \in BOOLEAN, NEW m \in Messages
    PROVE  LET s == Handled(r, t, b, m) IN
           /\ s \in Wires
           /\ s.addr = r.addr /\ s.state = r.state /\ s.mine = r.mine /\ s.bare = r.bare
           /\ s.garbled = r.garbled /\ s.ended = r.ended /\ s.theirs = t /\ s.subscribed = b
           /\ s.up = Tail(r.up)
           /\ s.down = IF r.state = "closed" THEN r.down ELSE Append(r.down, m)
<1>1. r.up \in Seq(Requests) /\ r.down \in Seq(Messages)
  BY DEF Wires
<1>2. Tail(r.up) \in Seq(Requests) /\ Append(r.down, m) \in Seq(Messages)
  BY <1>1, HeadTailProperties, AppendProperties
<1> DEFINE d == IF r.state = "closed" THEN r.down ELSE Append(r.down, m)
<1>3. d \in Seq(Messages)
  BY <1>1, <1>2
<1> HIDE DEF d
<1>4. LET s == [r EXCEPT !.up = Tail(r.up), !.theirs = t, !.subscribed = b, !.down = d] IN
      /\ s \in Wires
      /\ s.addr = r.addr /\ s.state = r.state /\ s.mine = r.mine /\ s.bare = r.bare
      /\ s.garbled = r.garbled /\ s.ended = r.ended /\ s.theirs = t /\ s.subscribed = b
      /\ s.up = Tail(r.up)
      /\ s.down = d
  BY <1>2, <1>3 DEF Wires
<1> QED
  BY <1>4 DEF Handled, d

(* The request that is handled, its answer, and what it does.              *)
Handles(k, m, t, b) ==
    /\ conns[k].up # <<>> /\ ~ conns[k].ended
    /\ Head(conns[k].up).enc = conns[k].theirs
    /\ m \in Messages /\ m.kind = "answer" /\ m.id = Head(conns[k].up).id
    /\ conns' = [conns EXCEPT ![k] = Handled(conns[k], t, b, m)]
    /\ \/ /\ Head(conns[k].up).kind = "proof" /\ m.ok /\ ~ m.enc
          /\ t = TRUE /\ b = conns[k].subscribed
       \/ /\ Head(conns[k].up).kind # "ask" /\ m.enc = conns[k].theirs
          /\ Head(conns[k].up).kind = "proof" => ~ m.ok
          /\ t = conns[k].theirs /\ b = conns[k].subscribed
       \/ /\ Head(conns[k].up).kind = "ask" /\ m.enc = conns[k].theirs
          /\ t = conns[k].theirs /\ b = TRUE

LEMMA HandleCases ==
    ASSUME conns \in Seq(Wires), NEW k \in DOMAIN conns, Handle(k)
    PROVE  \/ /\ conns' = [conns EXCEPT ![k] = Choked(conns[k])] /\ answered' = answered
              /\ conns[k].up # <<>> /\ Head(conns[k].up).enc # conns[k].theirs
           \/ /\ \E m \in Messages, t, b \in BOOLEAN : Handles(k, m, t, b)
              /\ answered' = answered \cup ({Head(conns[k].up).id} \cap UNION {Waited(c) : c \in Callers})
<1> DEFINE r == conns[k]
           h == Head(r.up)
           rest == [conns EXCEPT ![k].up = Tail(@)]
           q == [r EXCEPT !.up = Tail(r.up)]
           qt == [q EXCEPT !.theirs = TRUE]
           qb == [q EXCEPT !.subscribed = TRUE]
<1>1. r \in Wires /\ r.up # <<>> /\ ~ r.ended /\ r.up \in Seq(Requests)
  <2>1. r \in Wires
    BY Element
  <2> QED
    BY <2>1 DEF Handle, Wires
<1>2. h \in Requests /\ Tail(r.up) \in Seq(Requests)
  BY <1>1, HeadTailProperties
<1>3. CASE h.enc # r.theirs
  <2>1. conns' = [conns EXCEPT ![k].up = <<>>, ![k].ended = TRUE, ![k].garbled = TRUE]
        /\ answered' = answered
    BY <1>3 DEF Handle
  <2>2. conns' = [conns EXCEPT ![k] = Choked(r)]
    BY <1>1, <2>1 DEF Choked, Wires
  <2> QED
    BY <1>1, <1>3, <2>1, <2>2
<1>4. CASE h.enc = r.theirs
  <2>1. q \in Wires /\ q.state = r.state /\ q.down = r.down /\ q.theirs = r.theirs
        /\ q.subscribed = r.subscribed
    BY <1>1, <1>2 DEF Wires
  <2>2. qt \in Wires /\ qt.state = r.state /\ qt.down = r.down
    BY <1>1, <2>1 DEF Wires
  <2>3. qb \in Wires /\ qb.state = r.state /\ qb.down = r.down
    BY <1>1, <2>1 DEF Wires
  <2>4. /\ rest = [conns EXCEPT ![k] = q]
        /\ [rest EXCEPT ![k].theirs = TRUE] = [conns EXCEPT ![k] = qt]
        /\ [rest EXCEPT ![k].subscribed = TRUE] = [conns EXCEPT ![k] = qb]
    OBVIOUS
  <2>5. ASSUME NEW m
        PROVE  LET d == IF r.state = "closed" THEN r.down ELSE Append(r.down, m) IN
               /\ [q EXCEPT !.down = d] = Handled(r, r.theirs, r.subscribed, m)
               /\ [qt EXCEPT !.down = d] = Handled(r, TRUE, r.subscribed, m)
               /\ [qb EXCEPT !.down = d] = Handled(r, r.theirs, TRUE, m)
    BY <1>1 DEF Handled, Wires
  <2> DEFINE Good == Answer(h, TRUE, r.theirs)
             Plainly == Answer(h, TRUE, Notified)
             Bad == Answer(h, FALSE, r.theirs)
  <2>6. /\ Good \in Messages /\ Good.kind = "answer" /\ Good.id = h.id /\ Good.enc = r.theirs
        /\ Plainly \in Messages /\ Plainly.kind = "answer" /\ Plainly.id = h.id /\ Plainly.ok
        /\ ~ Plainly.enc
        /\ Bad \in Messages /\ Bad.kind = "answer" /\ Bad.id = h.id /\ ~ Bad.ok
        /\ Bad.enc = r.theirs
    BY <1>1, <1>2 DEF Answer, Messages, Requests, Notified, Wires
  <2>7. answered' = answered \cup ({h.id} \cap UNION {Waited(c) : c \in Callers})
    BY <1>4 DEF Handle
  <2>8. \/ h.kind = "hello" /\ conns' = Delivered(rest, k, Good)
        \/ h.kind = "proof" /\ conns' = Delivered([rest EXCEPT ![k].theirs = TRUE], k, Plainly)
        \/ h.kind = "proof" /\ conns' = Delivered(rest, k, Bad)
        \/ h.kind = "ask" /\ conns' = Delivered([rest EXCEPT ![k].subscribed = TRUE], k, Good)
    BY <1>4 DEF Handle
  <2> HIDE DEF q, qt, qb, rest, Good, Plainly, Bad
  <2>9. ASSUME NEW m
        PROVE  /\ Delivered(rest, k, m) = [conns EXCEPT ![k] = Handled(r, r.theirs, r.subscribed, m)]
               /\ Delivered([rest EXCEPT ![k].theirs = TRUE], k, m)
                    = [conns EXCEPT ![k] = Handled(r, TRUE, r.subscribed, m)]
               /\ Delivered([rest EXCEPT ![k].subscribed = TRUE], k, m)
                    = [conns EXCEPT ![k] = Handled(r, r.theirs, TRUE, m)]
    <3> DEFINE d == IF r.state = "closed" THEN r.down ELSE Append(r.down, m)
    <3>1. Delivered([conns EXCEPT ![k] = q], k, m) = [conns EXCEPT ![k] = [q EXCEPT !.down = d]]
      BY <1>1, <2>1 DEF Delivered, Wires
    <3>3. Delivered([conns EXCEPT ![k] = qt], k, m) = [conns EXCEPT ![k] = [qt EXCEPT !.down = d]]
      BY <1>1, <2>2 DEF Delivered, Wires
    <3>4. Delivered([conns EXCEPT ![k] = qb], k, m) = [conns EXCEPT ![k] = [qb EXCEPT !.down = d]]
      BY <1>1, <2>3 DEF Delivered, Wires
    <3>2. /\ [q EXCEPT !.down = d] = Handled(r, r.theirs, r.subscribed, m)
          /\ [qt EXCEPT !.down = d] = Handled(r, TRUE, r.subscribed, m)
          /\ [qb EXCEPT !.down = d] = Handled(r, r.theirs, TRUE, m)
      BY <2>5
    <3> HIDE DEF d
    <3> QED
      BY <2>4, <3>1, <3>2, <3>3, <3>4
  <2>10. r.theirs \in BOOLEAN /\ r.subscribed \in BOOLEAN
    BY <1>1 DEF Wires
  <2>11. CASE h.kind = "hello" /\ conns' = Delivered(rest, k, Good)
    <3>1. conns' = [conns EXCEPT ![k] = Handled(r, r.theirs, r.subscribed, Good)]
      BY <2>9, <2>11
    <3>2. Handles(k, Good, r.theirs, r.subscribed)
      BY <1>1, <1>4, <2>6, <2>11, <3>1 DEF Handles
    <3> QED
      BY <2>6, <2>7, <2>10, <3>2
  <2>12. CASE h.kind = "proof" /\ conns' = Delivered([rest EXCEPT ![k].theirs = TRUE], k, Plainly)
    <3>1. conns' = [conns EXCEPT ![k] = Handled(r, TRUE, r.subscribed, Plainly)]
      BY <2>9, <2>12
    <3>2. Handles(k, Plainly, TRUE, r.subscribed)
      BY <1>1, <1>4, <2>6, <2>12, <3>1 DEF Handles
    <3> QED
      BY <2>6, <2>7, <2>10, <3>2
  <2>13. CASE h.kind = "proof" /\ conns' = Delivered(rest, k, Bad)
    <3>1. conns' = [conns EXCEPT ![k] = Handled(r, r.theirs, r.subscribed, Bad)]
      BY <2>9, <2>13
    <3>2. Handles(k, Bad, r.theirs, r.subscribed)
      BY <1>1, <1>4, <2>6, <2>13, <3>1 DEF Handles
    <3> QED
      BY <2>6, <2>7, <2>10, <3>2
  <2>14. CASE h.kind = "ask" /\ conns' = Delivered([rest EXCEPT ![k].subscribed = TRUE], k, Good)
    <3>1. conns' = [conns EXCEPT ![k] = Handled(r, r.theirs, TRUE, Good)]
      BY <2>9, <2>14
    <3>2. Handles(k, Good, r.theirs, TRUE)
      BY <1>1, <1>4, <2>6, <2>14, <3>1 DEF Handles
    <3> QED
      BY <2>6, <2>7, <2>10, <3>2
  <2> QED
    BY <2>8, <2>11, <2>12, <2>13, <2>14
<1> QED
  BY <1>3, <1>4

LEMMA HandleMoved ==
    ASSUME conns \in Seq(Wires), NEW k \in DOMAIN conns, Handle(k)
    PROVE  \/ Moved(conns, conns', {}, {}) /\ answered' = answered
           \/ \E id \in Asked(conns) :
                /\ Moved(conns, conns', {}, {id})
                /\ answered' = answered \cup ({id} \cap UNION {Waited(c) : c \in Callers})
<1> DEFINE r == conns[k]
<1>1. r \in Wires /\ r.up \in Seq(Requests) /\ r.down \in Seq(Messages)
  <2>1. r \in Wires
    BY Element
  <2> QED
    BY <2>1 DEF Wires
<1>2. CASE conns' = [conns EXCEPT ![k] = Choked(r)] /\ answered' = answered
  <2> DEFINE s == Choked(r)
  <2>1. s \in Wires /\ s.addr = r.addr /\ s.up = <<>> /\ s.down = r.down /\ s.state = r.state
    <3>1. <<>> \in Seq(Requests)
      OBVIOUS
    <3> QED
      BY <1>1, <3>1 DEF Wires, Choked
  <2> HIDE DEF s
  <2>2. UpIds(s) = {} /\ DownIds(s) = DownIds(r) /\ StaysOrderly(r.down, s.down)
    BY <2>1 DEF UpIds, DownIds, StaysOrderly
  <2>3. Moves(r, s, {}, {})
    BY <2>1, <2>2 DEF Moves
  <2>4. Moved(conns, [conns EXCEPT ![k] = s], {}, {})
    BY <2>3, MovedOne
  <2> QED
    BY <1>2, <2>4 DEF s
<1>3. ASSUME NEW m \in Messages, NEW t \in BOOLEAN, NEW b \in BOOLEAN, Handles(k, m, t, b)
      PROVE  /\ Head(r.up).id \in Asked(conns)
             /\ Moved(conns, conns', {}, {Head(r.up).id})
  <2> DEFINE s == Handled(r, t, b, m)
  <2>1. /\ r.up # <<>> /\ m.kind = "answer" /\ m.id = Head(r.up).id
        /\ conns' = [conns EXCEPT ![k] = s]
    BY <1>3 DEF Handles
  <2>2. /\ s \in Wires /\ s.addr = r.addr /\ s.state = r.state /\ s.up = Tail(r.up)
        /\ s.down = IF r.state = "closed" THEN r.down ELSE Append(r.down, m)
    BY <1>1, <2>1, HandledIs
  <2> HIDE DEF s
  <2>3. Moves(r, s, {}, {m.id})
    BY <1>1, <2>1, <2>2, MovesHandled
  <2>4. Moved(conns, [conns EXCEPT ![k] = s], {}, {m.id})
    BY <2>3, MovedOne
  <2>5. 1 \in DOMAIN r.up /\ Head(r.up) = r.up[1]
    BY <1>1, <2>1, Element
  <2>6. Head(r.up).id \in UpIds(r)
    BY <2>5 DEF UpIds
  <2> QED
    BY <2>1, <2>4, <2>6 DEF Asked
<1>4. CASE \E m \in Messages, t, b \in BOOLEAN : Handles(k, m, t, b)
  <2>1. PICK m \in Messages, t \in BOOLEAN, b \in BOOLEAN : Handles(k, m, t, b)
    BY <1>4
  <2>2. Head(r.up).enc = r.theirs
    BY <2>1 DEF Handles
  <2>3. answered' = answered \cup ({Head(r.up).id} \cap UNION {Waited(c) : c \in Callers})
    BY <2>2, HandleCases
  <2>4. Head(r.up).id \in Asked(conns) /\ Moved(conns, conns', {}, {Head(r.up).id})
    BY <1>3, <2>1
  <2> QED
    BY <2>3, <2>4
<1>5. CASE ~ \E m \in Messages, t, b \in BOOLEAN : Handles(k, m, t, b)
  BY <1>2, <1>5, HandleCases
<1> QED
  BY <1>4, <1>5

(* Steps that close a connection, or put rows on their way, add no request *)
(* and no answer.                                                          *)
Fewer(cs, ds) ==
    /\ ds \in Seq(Wires) /\ DOMAIN ds = DOMAIN cs /\ Len(ds) = Len(cs)
    /\ \A k \in DOMAIN cs :
         /\ ds[k] \in Wires /\ ds[k].addr = cs[k].addr
         /\ UpIds(ds[k]) \subseteq UpIds(cs[k]) /\ DownIds(ds[k]) \subseteq DownIds(cs[k])

LEMMA FewerIds ==
    ASSUME NEW cs, NEW ds, Fewer(cs, ds)
    PROVE  Asked(ds) \subseteq Asked(cs) /\ Given(ds) \subseteq Given(cs)
BY DEF Fewer, Asked, Given

Cut(r) == [r EXCEPT !.state = "closed", !.down = <<>>]

LEMMA CloseEndsFewer ==
    ASSUME conns \in Seq(Wires), NEW k \in DOMAIN conns, CloseEnds(k)
    PROVE  /\ Fewer(conns, conns')
           /\ \A j \in DOMAIN conns : conns'[j] = IF j = k THEN Cut(conns[k]) ELSE conns[j]
           /\ Cut(conns[k]).state = "closed" /\ Cut(conns[k]).down = <<>>
           /\ Cut(conns[k]).mine = conns[k].mine /\ Cut(conns[k]).theirs = conns[k].theirs
           /\ Cut(conns[k]).bare = conns[k].bare /\ Cut(conns[k]).up = conns[k].up
           /\ Cut(conns[k]).garbled = conns[k].garbled
           /\ Cut(conns[k]).subscribed = conns[k].subscribed
<1> DEFINE r == conns[k]
           s == Cut(r)
<1>1. r \in Wires
  BY Element
<1>2. /\ s.state = "closed" /\ s.down = <<>> /\ s.addr = r.addr /\ s.up = r.up
      /\ s.mine = r.mine /\ s.theirs = r.theirs /\ s.bare = r.bare /\ s.garbled = r.garbled
      /\ s.subscribed = r.subscribed
  BY <1>1 DEF Wires, Cut
<1>3. s \in Wires
  <2>1. <<>> \in Seq(Messages) /\ "closed" \in States
    BY DEF States
  <2> QED
    BY <1>1, <2>1 DEF Wires, Cut
<1>4. conns' = [conns EXCEPT ![k] = s]
  BY DEF CloseEnds, Cut
<1> HIDE DEF s
<1>5. /\ conns' \in Seq(Wires) /\ DOMAIN conns' = DOMAIN conns /\ Len(conns') = Len(conns)
      /\ \A i \in DOMAIN conns : conns'[i] = IF i = k THEN s ELSE conns[i]
  BY <1>3, <1>4, Put
<1>6. UpIds(s) = UpIds(r) /\ DownIds(s) = {}
  BY <1>2 DEF UpIds, DownIds
<1>7. \A i \in DOMAIN conns : conns[i] \in Wires
  BY Element
<1>8. Fewer(conns, conns')
  BY <1>2, <1>3, <1>5, <1>6, <1>7 DEF Fewer
<1> QED
  BY <1>2, <1>5, <1>8 DEF s

(* A connection that gets a row.                                           *)
Told(r, m) == IF r.state = "closed" THEN r ELSE [r EXCEPT !.down = Append(r.down, m)]

LEMMA ToldIs ==
    ASSUME NEW r \in Wires, NEW m \in Messages
    PROVE  LET s == Told(r, m) IN
           /\ s \in Wires /\ s.addr = r.addr /\ s.state = r.state /\ s.up = r.up
           /\ s.mine = r.mine /\ s.theirs = r.theirs /\ s.bare = r.bare
           /\ s.garbled = r.garbled /\ s.subscribed = r.subscribed
           /\ s.down = IF r.state = "closed" THEN r.down ELSE Append(r.down, m)
<1>1. r.down \in Seq(Messages)
  BY DEF Wires
<1> DEFINE d == Append(r.down, m)
<1>2. d \in Seq(Messages)
  BY <1>1, AppendProperties
<1> HIDE DEF d
<1>3. LET s == [r EXCEPT !.down = d] IN
      /\ s \in Wires /\ s.addr = r.addr /\ s.state = r.state /\ s.up = r.up
      /\ s.mine = r.mine /\ s.theirs = r.theirs /\ s.bare = r.bare
      /\ s.garbled = r.garbled /\ s.subscribed = r.subscribed /\ s.down = d
  BY <1>2 DEF Wires
<1>4. CASE r.state = "closed"
  BY <1>4 DEF Told
<1>5. CASE r.state # "closed"
  BY <1>3, <1>5 DEF Told, d
<1> QED
  BY <1>4, <1>5

NewRow(a) == [kind |-> "row", id |-> rows[a] + 1, ok |-> TRUE, enc |-> TRUE]

LEMMA BroadcastTells ==
    ASSUME conns \in Seq(Wires), rows \in [Addrs -> Nat], NEW a \in Addrs, Broadcast(a)
    PROVE  /\ NewRow(a) \in Messages
           /\ conns' \in Seq(Wires) /\ DOMAIN conns' = DOMAIN conns /\ Len(conns') = Len(conns)
           /\ \A k \in DOMAIN conns :
                \/ conns'[k] = conns[k]
                \/ /\ conns'[k] = Told(conns[k], NewRow(a))
                   /\ conns[k].addr = a /\ conns[k].subscribed /\ conns[k].theirs
<1> DEFINE subscribed == {k \in DOMAIN conns :
                            conns[k].addr = a /\ conns[k].subscribed /\ ~ conns[k].ended}
           served == {k \in subscribed : \A j \in subscribed : j <= k => conns[j].theirs}
           m == NewRow(a)
<1>1. m \in Messages
  BY DEF NewRow, Messages
<1>2. conns' = [k \in DOMAIN conns |->
                    IF k \in served THEN Delivered(conns, k, m)[k] ELSE conns[k]]
  BY DEF Broadcast, NewRow
<1>3. PICK n \in Nat : n = Len(conns) /\ DOMAIN conns = 1..n
  BY Element
<1>4. \A k \in DOMAIN conns : conns[k] \in Wires
  BY Element
<1>5. ASSUME NEW k \in served
      PROVE  conns[k].addr = a /\ conns[k].subscribed /\ conns[k].theirs
  BY <1>3
<1> HIDE DEF served, m
<1>6. ASSUME NEW k \in DOMAIN conns
      PROVE  /\ conns'[k] \in Wires
             /\ \/ conns'[k] = conns[k]
                \/ /\ conns'[k] = Told(conns[k], m)
                   /\ conns[k].addr = a /\ conns[k].subscribed /\ conns[k].theirs
  <2>1. CASE k \notin served
    BY <1>2, <1>4, <2>1
  <2>2. CASE k \in served
    <3>1. conns'[k] = Delivered(conns, k, m)[k]
      BY <1>2, <2>2
    <3>2. Delivered(conns, k, m)[k] = Told(conns[k], m)
      BY DEF Delivered, Told
    <3>3. Told(conns[k], m) \in Wires
      BY <1>1, <1>4, ToldIs
    <3> QED
      BY <1>5, <2>2, <3>1, <3>2, <3>3
  <2> QED
    BY <2>1, <2>2
<1>7. conns' = [k \in 1..n |-> conns'[k]]
  BY <1>2, <1>3
<1>8. conns' \in Seq(Wires) /\ Len(conns') = n /\ DOMAIN conns' = 1..n
  BY <1>3, <1>6, <1>7
<1> QED
  BY <1>1, <1>3, <1>6, <1>8 DEF m

LEMMA BroadcastFewer ==
    ASSUME conns \in Seq(Wires), rows \in [Addrs -> Nat], NEW a \in Addrs, Broadcast(a)
    PROVE  Fewer(conns, conns')
<1> DEFINE m == NewRow(a)
<1>1. ASSUME NEW k \in DOMAIN conns
      PROVE  /\ conns'[k] \in Wires /\ conns'[k].addr = conns[k].addr
             /\ UpIds(conns'[k]) \subseteq UpIds(conns[k])
             /\ DownIds(conns'[k]) \subseteq DownIds(conns[k])
  <2>1. conns[k] \in Wires
    BY Element
  <2>2. CASE conns'[k] = conns[k]
    BY <2>1, <2>2
  <2>3. CASE conns'[k] = Told(conns[k], m)
    <3> DEFINE r == conns[k]
               s == Told(r, m)
    <3>1. /\ s \in Wires /\ s.addr = r.addr /\ s.up = r.up
          /\ s.down = IF r.state = "closed" THEN r.down ELSE Append(r.down, m)
      BY <2>1, BroadcastTells, ToldIs
    <3> HIDE DEF s
    <3>2. UpIds(s) = UpIds(r)
      BY <3>1 DEF UpIds
    <3>3. DownIds(s) \subseteq DownIds(r)
      <4>1. CASE r.state = "closed"
        BY <3>1, <4>1 DEF DownIds
      <4>2. CASE r.state # "closed"
        <5>1. PICK d, e : d = r.down /\ e = s.down
          OBVIOUS
        <5>2. d \in Seq(Messages) /\ m \in Messages /\ e = Append(d, m) /\ m.kind = "row"
          BY <2>1, <3>1, <4>2, <5>1, BroadcastTells DEF Wires, NewRow
        <5>3. PICK n \in Nat : n = Len(d) /\ DOMAIN d = 1..n
          BY <5>2, Element
        <5>4. e \in Seq(Messages) /\ Len(e) = n + 1 /\ e[n + 1] = m /\ \A i \in 1..n : e[i] = d[i]
          BY <5>2, <5>3, AppendProperties
        <5>5. DOMAIN e = 1..(n + 1)
          BY <5>4, Element
        <5>6. \A i \in DOMAIN e : e[i].kind = "answer" => i \in DOMAIN d /\ e[i] = d[i]
          BY <5>2, <5>3, <5>4, <5>5
        <5> QED
          BY <5>1, <5>6 DEF DownIds
      <4> QED
        BY <4>1, <4>2
    <3> QED
      BY <2>3, <3>1, <3>2, <3>3 DEF s
  <2> QED
    BY <2>2, <2>3, BroadcastTells
<1> QED
  BY <1>1, BroadcastTells DEF Fewer

(* A new connection has nothing on its way.                                *)
LEMMA ConnectionAdded ==
    ASSUME conns \in Seq(Wires), NEW a \in Addrs
    PROVE  LET cs == Append(conns, Connection(a)) IN
           /\ Connection(a) \in Wires
           /\ cs \in Seq(Wires) /\ Len(cs) = Len(conns) + 1
           /\ DOMAIN cs = 1..(Len(conns) + 1)
           /\ \A k \in DOMAIN conns : cs[k] = conns[k]
           /\ cs[Len(conns) + 1] = Connection(a)
           /\ Asked(cs) \subseteq Asked(conns) /\ Given(cs) \subseteq Given(conns)
<1> DEFINE cs == Append(conns, Connection(a))
<1>1. Connection(a) \in Wires /\ Connection(a).up = <<>> /\ Connection(a).down = <<>>
  <2>1. <<>> \in Seq(Messages) /\ <<>> \in Seq(Requests) /\ "open" \in States
    BY DEF States
  <2> QED
    BY <2>1 DEF Connection, Wires
<1>2. PICK n \in Nat : n = Len(conns) /\ DOMAIN conns = 1..n
  BY Element
<1>3. /\ cs \in Seq(Wires) /\ Len(cs) = n + 1 /\ cs[n + 1] = Connection(a)
      /\ \A k \in 1..n : cs[k] = conns[k]
  BY <1>1, <1>2, AppendProperties
<1> HIDE DEF cs
<1>4. DOMAIN cs = 1..(n + 1)
  BY <1>3, Element
<1>5. UpIds(Connection(a)) = {} /\ DownIds(Connection(a)) = {}
  BY <1>1 DEF UpIds, DownIds
<1>6. \A k \in DOMAIN cs : (k \in DOMAIN conns /\ cs[k] = conns[k]) \/ cs[k] = Connection(a)
  BY <1>2, <1>3, <1>4
<1>7. Asked(cs) \subseteq Asked(conns) /\ Given(cs) \subseteq Given(conns)
  BY <1>5, <1>6 DEF Asked, Given
<1> QED
  BY <1>1, <1>2, <1>3, <1>4, <1>7 DEF cs

-----------------------------------------------------------------------------
(* Types: the connections and what is on its way, the small variables, and *)
(* the table, which never names a connection that is closed.               *)

Traffic == conns \in Seq(Wires) /\ responses \in SUBSET Replies

Small ==
    /\ rows \in [Addrs -> Nat] /\ queued \in [Addrs -> Seq(Nat)]
    /\ challenges \in [Addrs -> Nat] /\ posed \in [Addrs -> Nat]
    /\ result \in [Callers -> Nat]
    /\ calls \in 0..MaxCalls /\ faults \in 0..MaxFaults /\ raced \in BOOLEAN

Table ==
    /\ \A a \in Addrs : peers[a] # None =>
          peers[a] \in DOMAIN conns /\ conns[peers[a]].addr = a
          /\ conns[peers[a]].state # "closed"
    /\ \A k \in DOMAIN conns : conns[k].state = "closed" => conns[k].down = <<>>
    /\ \A c \in Callers : call[c].peer \in 0..Len(conns)
    /\ Len(conns) <= MaxConns

WireInv == Traffic /\ Small /\ Table

THEOREM InitWire == Init => WireInv
<1> SUFFICES ASSUME Init PROVE WireInv
  OBVIOUS
<1>1. Traffic
  BY DEF Init, Traffic
<1>2. Small
  <2>1. queued \in [Addrs -> Seq(Nat)]
    BY DEF Init
  <2>2. 0 \in 0..MaxCalls /\ 0 \in 0..MaxFaults
    BY BoundsAreNumbers
  <2> QED
    BY <2>1, <2>2 DEF Init, Small, None
<1>3. Table
  BY BoundsAreNumbers DEF Init, Table, Idle, None
<1> QED
  BY <1>1, <1>2, <1>3 DEF WireInv

(* A caller writes, or finds that it cannot.                               *)
Wrote(f, kind) == [f EXCEPT !.pc = IF kind = "ask" THEN "asked" ELSE kind]
Sent(f, kind) == IF kind = "ask" THEN f.id ELSE f.sub

WriteDoes(c, f, kind, cs, ps, r) ==
    \/ /\ Writable(cs, ps, f.addr)
       /\ conns' = Written(cs, ps[f.addr], kind, Sent(f, kind), f.chal)
       /\ Moved(cs, conns', {Sent(f, kind)}, {})
       /\ call' = [call EXCEPT ![c] = Wrote(f, kind)]
       /\ result' = [result EXCEPT ![c] = r]
    \/ /\ ~ Writable(cs, ps, f.addr)
       /\ conns' = cs /\ Moved(cs, conns', {}, {})
       /\ call' = [call EXCEPT ![c] = Idle]
       /\ result' = [result EXCEPT ![c] = None]

LEMMA WriteEffect ==
    ASSUME NEW c \in Callers, NEW f \in Calls, NEW kind \in {"ask", "hello", "proof"},
           NEW cs \in Seq(Wires), NEW ps, NEW r,
           ps[f.addr] # None => ps[f.addr] \in DOMAIN cs,
           Write(c, f, kind, cs, ps, r)
    PROVE  WriteDoes(c, f, kind, cs, ps, r)
<1>1. Sent(f, kind) \in Nat /\ f.chal \in Nat
  BY DEF Sent, Calls
<1>2. CASE Writable(cs, ps, f.addr)
  <2>1. /\ conns' = Written(cs, ps[f.addr], kind, Sent(f, kind), f.chal)
        /\ call' = [call EXCEPT ![c] = Wrote(f, kind)]
        /\ result' = [result EXCEPT ![c] = r]
    BY <1>2 DEF Write, Wrote, Sent
  <2>2. ps[f.addr] \in DOMAIN cs
    BY <1>2 DEF Writable
  <2>3. Moved(cs, Written(cs, ps[f.addr], kind, Sent(f, kind), f.chal), {Sent(f, kind)}, {})
    BY <1>1, <2>2, WrittenMoved
  <2> QED
    BY <1>2, <2>1, <2>3 DEF WriteDoes
<1>3. CASE ~ Writable(cs, ps, f.addr)
  BY <1>3, MovedSelf DEF Write, WriteDoes
<1> QED
  BY <1>2, <1>3

LEMMA WroteIs ==
    ASSUME NEW f \in Calls, NEW kind \in {"ask", "hello", "proof"}
    PROVE  LET g == Wrote(f, kind) IN
           /\ g \in Calls /\ g.pc = (IF kind = "ask" THEN "asked" ELSE kind)
           /\ g.addr = f.addr /\ g.id = f.id /\ g.sub = f.sub /\ g.peer = f.peer
           /\ g.chal = f.chal /\ g.dialled = f.dialled
BY DEF Wrote, Calls

LEMMA IdleIs == /\ Idle \in Calls /\ Idle.pc = "idle" /\ Idle.id = None /\ Idle.sub = None
                /\ Idle.peer = None
BY DEF Idle, Calls, None

(* One caller goes on: it is f then.                                       *)
Turn(c, f) ==
    /\ f \in Calls /\ call' = [call EXCEPT ![c] = f]

LEMMA TurnIs ==
    ASSUME IInv, NEW c \in Callers, NEW f, Turn(c, f)
    PROVE  call'[c] = f /\ \A d \in Callers : d # c => call'[d] = call[d]
BY DEF Turn, IInv, Typed

(* Some connections may begin to close, and more be on its way.            *)
LEMMA TableMoved ==
    ASSUME WireInv, NEW W, NEW A, Moved(conns, conns', W, A), peers' = peers,
           \A c \in Callers : call'[c].peer \in 0..Len(conns)
    PROVE  Table' /\ conns' \in Seq(Wires)
BY DEF WireInv, Table, Moved, Moves

LEMMA TableTurn ==
    ASSUME IInv, WireInv, NEW W, NEW A, Moved(conns, conns', W, A), peers' = peers,
           NEW c \in Callers, NEW f, Turn(c, f), f.peer \in 0..Len(conns)
    PROVE  Table' /\ conns' \in Seq(Wires)
<1>1. \A d \in Callers : call'[d].peer \in 0..Len(conns)
  BY TurnIs DEF WireInv, Table
<1> QED
  BY <1>1, TableMoved

(* A connection is made for the address that a caller dials, and is put    *)
(* into the table.                                                         *)
LEMMA TableAdded ==
    ASSUME IInv, WireInv, NEW a \in Addrs, Len(conns) + 1 <= MaxConns, NEW W,
           Moved(Append(conns, Connection(a)), conns', W, {}),
           peers' = [peers EXCEPT ![a] = Len(conns) + 1],
           \A c \in Callers : call'[c].peer \in 0..Len(conns)
    PROVE  Table' /\ conns' \in Seq(Wires)
<1> DEFINE cs == Append(conns, Connection(a))
<1>1. PICK n \in Nat : n = Len(conns) /\ DOMAIN conns = 1..n
  BY Element DEF WireInv, Traffic
<1>2. /\ Len(cs) = n + 1 /\ DOMAIN cs = 1..(n + 1)
      /\ \A k \in DOMAIN conns : cs[k] = conns[k]
      /\ cs[n + 1] = Connection(a)
  BY <1>1, ConnectionAdded DEF WireInv, Traffic
<1>3. Connection(a).addr = a /\ Connection(a).state = "open" /\ Connection(a).down = <<>>
  BY DEF Connection
<1> HIDE DEF cs
<1>4. Moved(cs, conns', W, {})
  BY DEF cs
<1>5. /\ conns' \in Seq(Wires) /\ DOMAIN conns' = 1..(n + 1) /\ Len(conns') = n + 1
      /\ \A k \in 1..(n + 1) :
           /\ conns'[k].addr = cs[k].addr
           /\ conns'[k].state = "closed" => cs[k].state = "closed"
           /\ cs[k].state = "closed" /\ cs[k].down = <<>> => conns'[k].down = <<>>
  BY <1>2, <1>4 DEF Moved, Moves
<1>6. ASSUME NEW b \in Addrs, peers'[b] # None
      PROVE  peers'[b] \in DOMAIN conns' /\ conns'[peers'[b]].addr = b
             /\ conns'[peers'[b]].state # "closed"
  <2>1. CASE b = a
    <3>1. peers'[b] = n + 1
      BY <1>1, <2>1 DEF IInv, Typed
    <3> QED
      BY <1>2, <1>3, <1>5, <2>1, <3>1
  <2>2. CASE b # a
    <3>1. peers'[b] = peers[b]
      BY <2>2 DEF IInv, Typed
    <3>2. peers[b] \in 1..n /\ conns[peers[b]].addr = b /\ conns[peers[b]].state # "closed"
      BY <1>1, <1>6, <3>1 DEF WireInv, Table
    <3>3. cs[peers[b]] = conns[peers[b]]
      BY <1>1, <1>2, <3>2
    <3> QED
      BY <1>5, <3>1, <3>2, <3>3
  <2> QED
    BY <2>1, <2>2
<1>7. ASSUME NEW k \in DOMAIN conns', conns'[k].state = "closed" PROVE conns'[k].down = <<>>
  <2>1. k \in 1..(n + 1) /\ cs[k].state = "closed"
    BY <1>5, <1>7
  <2>2. k \in DOMAIN conns /\ cs[k] = conns[k]
    BY <1>1, <1>2, <1>3, <2>1
  <2>3. cs[k].down = <<>>
    BY <2>1, <2>2 DEF WireInv, Table
  <2> QED
    BY <1>5, <2>1, <2>3
<1>8. \A c \in Callers : call'[c].peer \in 0..Len(conns')
  BY <1>1, <1>5
<1> QED
  BY <1>1, <1>5, <1>6, <1>7, <1>8 DEF Table

(* The requests of W go out, and no answer comes.                          *)
Adds(W) ==
    /\ conns' \in Seq(Wires) /\ responses' \subseteq responses
    /\ Asked(conns') \subseteq Asked(conns) \cup W
    /\ Given(conns') \subseteq Given(conns)

LEMMA MovedAdds ==
    ASSUME NEW W, Moved(conns, conns', W, {}), responses' \subseteq responses
    PROVE  Adds(W)
<1>1. Asked(conns') \subseteq Asked(conns) \cup W /\ Given(conns') \subseteq Given(conns) \cup {}
  BY MovedIds
<1>2. conns' \in Seq(Wires)
  BY DEF Moved
<1> QED
  BY <1>1, <1>2 DEF Adds

(* What c becomes when, as g, it writes a request of this kind; r is what  *)
(* its last request returned.                                              *)
Outcome(c, g, kind, r) ==
    \/ /\ Turn(c, Wrote(g, kind)) /\ Adds({Sent(g, kind)})
       /\ result' = [result EXCEPT ![c] = r]
    \/ Turn(c, Idle) /\ Adds({}) /\ result' = [result EXCEPT ![c] = None]

LEMMA WriteOutcome ==
    ASSUME IInv, WireInv, NEW c \in Callers, NEW g \in Calls, g.addr \in Addrs,
           NEW kind \in {"ask", "hello", "proof"}, NEW cs \in Seq(Wires),
           Moved(conns, cs, {}, {}), NEW r, Write(c, g, kind, cs, peers, r),
           peers' = peers, g.peer \in 0..Len(conns), responses' \subseteq responses
    PROVE  Outcome(c, g, kind, r) /\ Table'
<1>1. peers[g.addr] # None => peers[g.addr] \in DOMAIN cs
  BY DEF IInv, Typed, Moved
<1>2. CASE /\ Moved(cs, conns', {Sent(g, kind)}, {})
           /\ call' = [call EXCEPT ![c] = Wrote(g, kind)]
           /\ result' = [result EXCEPT ![c] = r]
  <2>1. Turn(c, Wrote(g, kind)) /\ Wrote(g, kind).peer \in 0..Len(conns)
    BY <1>2, WroteIs DEF Turn
  <2>2. Moved(conns, conns', {Sent(g, kind)}, {})
    BY <1>2, MovedTwice
  <2> QED
    BY <1>2, <2>1, <2>2, TableTurn, MovedAdds DEF Outcome
<1>3. CASE /\ Moved(cs, conns', {}, {})
           /\ call' = [call EXCEPT ![c] = Idle]
           /\ result' = [result EXCEPT ![c] = None]
  <2>1. Turn(c, Idle) /\ Idle.peer \in 0..Len(conns)
    <3>1. Len(conns) \in Nat
      BY Element DEF WireInv, Traffic
    <3> QED
      BY <1>3, <3>1, IdleIs DEF Turn, None
  <2>2. Moved(conns, conns', {}, {})
    BY <1>3, MovedTwice
  <2> QED
    BY <1>3, <2>1, <2>2, TableTurn, MovedAdds DEF Outcome
<1>4. \/ /\ Moved(cs, conns', {Sent(g, kind)}, {})
         /\ call' = [call EXCEPT ![c] = Wrote(g, kind)]
         /\ result' = [result EXCEPT ![c] = r]
      \/ /\ Moved(cs, conns', {}, {})
         /\ call' = [call EXCEPT ![c] = Idle]
         /\ result' = [result EXCEPT ![c] = None]
  <2>1. WriteDoes(c, g, kind, cs, peers, r)
    BY <1>1, WriteEffect
  <2> QED
    BY <2>1 DEF WriteDoes
<1> QED
  BY <1>2, <1>3, <1>4

LEMMA OutcomeResult ==
    ASSUME WireInv, NEW c \in Callers, NEW g, NEW kind, NEW r \in Nat, Outcome(c, g, kind, r)
    PROVE  result' \in [Callers -> Nat] /\ conns' \in Seq(Wires)
<1>1. result \in [Callers -> Nat] /\ None \in Nat
  BY DEF WireInv, Small, None
<1>2. result' = [result EXCEPT ![c] = r] \/ result' = [result EXCEPT ![c] = None]
  BY DEF Outcome
<1>3. conns' \in Seq(Wires)
  BY DEF Outcome, Adds
<1> QED
  BY <1>1, <1>2, <1>3

Dialler(a) == [Idle EXCEPT !.pc = "dial", !.addr = a, !.id = ids + 1, !.dialled = TRUE]
Asker(a) == [Idle EXCEPT !.addr = a, !.id = ids + 1]

LEMMA BeginnersAre ==
    ASSUME IInv, NEW a \in Addrs
    PROVE  /\ Dialler(a) \in Calls /\ Dialler(a).pc = "dial" /\ Dialler(a).addr = a
           /\ Dialler(a).id = ids + 1 /\ Dialler(a).sub = None /\ Dialler(a).peer = None
           /\ Asker(a) \in Calls /\ Asker(a).addr = a
           /\ Asker(a).id = ids + 1 /\ Asker(a).sub = None /\ Asker(a).peer = None
<1>1. ids + 1 \in Nat
  BY DEF IInv, Typed
<1> QED
  BY <1>1 DEF Dialler, Asker, Idle, Calls, None

LEMMA Lengths == ASSUME WireInv PROVE Len(conns) \in Nat /\ None \in 0..Len(conns)
<1>1. Len(conns) \in Nat
  BY Element DEF WireInv, Traffic
<1> QED
  BY <1>1 DEF None

LEMMA CallUnknownWire ==
    ASSUME IInv, WireInv, NEW c \in Callers, NEW a \in Addrs, CallUnknown(c, a)
    PROVE  WireInv' /\ Turn(c, Dialler(a)) /\ Adds({})
<1>1. Turn(c, Dialler(a)) /\ Dialler(a).peer \in 0..Len(conns)
  BY BeginnersAre, Lengths DEF CallUnknown, Turn, Dialler
<1>2. Moved(conns, conns', {}, {}) /\ peers' = peers /\ responses' = responses
  BY MovedSelf DEF CallUnknown, WireInv, Traffic
<1>3. Table' /\ conns' \in Seq(Wires)
  BY <1>1, <1>2, TableTurn
<1>4. calls' \in 0..MaxCalls /\ raced' \in BOOLEAN
  BY BoundsAreNumbers DEF CallUnknown, Begins, WireInv, Small
<1>5. Small'
  BY <1>4 DEF CallUnknown, WireInv, Small, serverVars
<1> QED
  BY <1>1, <1>2, <1>3, <1>5, MovedAdds DEF WireInv, Traffic

LEMMA CallKnownWire ==
    ASSUME IInv, WireInv, NEW c \in Callers, NEW a \in Addrs, CallKnown(c, a)
    PROVE  WireInv' /\ Outcome(c, Asker(a), "ask", result[c])
<1>1. Write(c, Asker(a), "ask", conns, peers, result[c]) /\ peers' = peers
      /\ responses' = responses
  BY DEF CallKnown, Asker
<1>2. Outcome(c, Asker(a), "ask", result[c]) /\ Table'
  <2>1. conns \in Seq(Wires) /\ Moved(conns, conns, {}, {})
    BY MovedSelf DEF WireInv, Traffic
  <2>2. Asker(a) \in Calls /\ Asker(a).addr \in Addrs /\ Asker(a).peer \in 0..Len(conns)
    BY BeginnersAre, Lengths
  <2> QED
    BY <1>1, <2>1, <2>2, WriteOutcome
<1>3. result' \in [Callers -> Nat] /\ conns' \in Seq(Wires)
  <2>1. result[c] \in Nat
    BY DEF WireInv, Small
  <2> QED
    BY <1>2, <2>1, OutcomeResult
<1>4. calls' \in 0..MaxCalls
  BY BoundsAreNumbers DEF CallKnown, Begins, WireInv, Small
<1>5. Small'
  BY <1>3, <1>4 DEF CallKnown, WireInv, Small, serverVars
<1> QED
  BY <1>1, <1>2, <1>3, <1>5 DEF WireInv, Traffic

(* The second dial of an authentication: g is c as it writes.              *)
LEMMA AddedOutcome ==
    ASSUME IInv, WireInv, NEW c \in Callers, NEW g \in Calls, NEW a \in Addrs, g.addr = a,
           NEW kind \in {"hello", "proof"}, NEW r, Len(conns) + 1 <= MaxConns,
           LET ps == [peers EXCEPT ![a] = Len(conns) + 1]
           IN  peers' = ps /\ Write(c, g, kind, Append(conns, Connection(a)), ps, r),
           g.peer \in 0..Len(conns), responses' \subseteq responses
    PROVE  /\ Outcome(c, g, kind, r) /\ Table'
           /\ Turn(c, Wrote(g, kind))
           /\ conns' = Written(Append(conns, Connection(a)), Len(conns) + 1, kind, g.sub, g.chal)
<1> DEFINE k  == Len(conns) + 1
           ps == [peers EXCEPT ![a] = k]
           cs == Append(conns, Connection(a))
<1>1. /\ cs \in Seq(Wires) /\ k \in DOMAIN cs /\ k \in Nat /\ k # None
      /\ cs[k] = Connection(a)
      /\ Asked(cs) \subseteq Asked(conns) /\ Given(cs) \subseteq Given(conns)
  <2>1. Len(conns) \in Nat /\ conns \in Seq(Wires)
    BY Lengths DEF WireInv, Traffic
  <2> QED
    BY <2>1, ConnectionAdded DEF None
<1>2. ps[a] = k
  BY DEF IInv, Typed
<1>3. Connection(a).state = "open"
  BY DEF Connection
<1>4. peers' = ps /\ Write(c, g, kind, cs, ps, r)
  OBVIOUS
<1>5. Moved(Append(conns, Connection(a)), conns', {Sent(g, kind)}, {})
      /\ conns' = Written(Append(conns, Connection(a)), ps[g.addr], kind, Sent(g, kind), g.chal)
      /\ call' = [call EXCEPT ![c] = Wrote(g, kind)]
      /\ result' = [result EXCEPT ![c] = r]
  <2> HIDE DEF cs, k, ps
  <2>1. Writable(cs, ps, g.addr)
    BY <1>1, <1>2, <1>3 DEF Writable
  <2>2. ps[g.addr] # None => ps[g.addr] \in DOMAIN cs
    BY <1>1, <1>2
  <2>3. /\ Moved(cs, conns', {Sent(g, kind)}, {})
        /\ conns' = Written(cs, ps[g.addr], kind, Sent(g, kind), g.chal)
        /\ call' = [call EXCEPT ![c] = Wrote(g, kind)]
        /\ result' = [result EXCEPT ![c] = r]
    <3>1. WriteDoes(c, g, kind, cs, ps, r)
      BY <1>1, <1>4, <2>2, WriteEffect
    <3> QED
      BY <2>1, <3>1 DEF WriteDoes
  <2> QED
    BY <2>3 DEF cs
<1>6. Turn(c, Wrote(g, kind)) /\ Wrote(g, kind).peer \in 0..Len(conns)
  BY <1>5, WroteIs DEF Turn
<1>7. Table' /\ conns' \in Seq(Wires)
  <2>1. \A d \in Callers : call'[d].peer \in 0..Len(conns)
    BY <1>6, TurnIs DEF WireInv, Table
  <2> QED
    BY <1>5, <2>1, TableAdded
<1>8. Adds({Sent(g, kind)})
  <2>1. Asked(conns') \subseteq Asked(cs) \cup {Sent(g, kind)} /\ Given(conns') \subseteq Given(cs)
    BY <1>5, MovedIds
  <2> HIDE DEF cs
  <2> QED
    BY <1>1, <1>7, <2>1 DEF Adds
<1>9. Sent(g, kind) = g.sub
  BY DEF Sent
<1> QED
  BY <1>2, <1>5, <1>6, <1>7, <1>8, <1>9 DEF Outcome

Greeter(c) == [call[c] EXCEPT !.sub = ids + 1]
Prover(c) == [call[c] EXCEPT !.sub = ids + 1, !.chal = call[c].sub, !.peer = peers[call[c].addr]]
Redialler(c) == [Prover(c) EXCEPT !.pc = "redial"]
Dropper(c) == [call[c] EXCEPT !.pc = "dropping", !.peer = peers[call[c].addr]]

LEMMA PartnersAre ==
    ASSUME IInv, WireInv, NEW c \in Callers, call[c].addr \in Addrs
    PROVE  /\ Greeter(c) \in Calls /\ Greeter(c).addr = call[c].addr /\ Greeter(c).pc = call[c].pc
           /\ Greeter(c).id = call[c].id /\ Greeter(c).sub = ids + 1
           /\ Greeter(c).peer = call[c].peer /\ Greeter(c).peer \in 0..Len(conns)
           /\ Prover(c) \in Calls /\ Prover(c).addr = call[c].addr /\ Prover(c).pc = call[c].pc
           /\ Prover(c).id = call[c].id /\ Prover(c).sub = ids + 1
           /\ Prover(c).chal = call[c].sub
           /\ Prover(c).peer = peers[call[c].addr] /\ Prover(c).peer \in 0..Len(conns)
           /\ Redialler(c) \in Calls /\ Redialler(c).addr = call[c].addr
           /\ Redialler(c).pc = "redial"
           /\ Redialler(c).id = call[c].id /\ Redialler(c).sub = ids + 1
           /\ Redialler(c).peer = peers[call[c].addr] /\ Redialler(c).peer \in 0..Len(conns)
           /\ Dropper(c) \in Calls /\ Dropper(c).pc = "dropping"
           /\ Dropper(c).id = call[c].id /\ Dropper(c).sub = call[c].sub
           /\ Dropper(c).peer = peers[call[c].addr] /\ Dropper(c).peer \in 0..Len(conns)
<1>1. ids + 1 \in Nat /\ call[c] \in Calls /\ peers[call[c].addr] \in Nat
  BY DEF IInv, Typed
<1>2. call[c].peer \in 0..Len(conns)
  BY DEF WireInv, Table
<1>3. peers[call[c].addr] \in 0..Len(conns)
  <2>1. peers[call[c].addr] # None => peers[call[c].addr] \in DOMAIN conns
    BY DEF WireInv, Table
  <2>2. DOMAIN conns = 1..Len(conns) /\ Len(conns) \in Nat
    BY Element DEF WireInv, Traffic
  <2> QED
    BY <2>1, <2>2 DEF None
<1>4. PICK p \in Nat : p = peers[call[c].addr]
  BY <1>1
<1>5. PICK i \in Nat : i = ids + 1
  BY <1>1
<1>6. /\ Greeter(c) = [call[c] EXCEPT !.sub = i]
      /\ Prover(c) = [call[c] EXCEPT !.sub = i, !.chal = call[c].sub, !.peer = p]
      /\ Dropper(c) = [call[c] EXCEPT !.pc = "dropping", !.peer = p]
  BY <1>4, <1>5 DEF Greeter, Prover, Dropper
<1>7. /\ Greeter(c) \in Calls /\ Greeter(c).addr = call[c].addr /\ Greeter(c).pc = call[c].pc
      /\ Greeter(c).id = call[c].id /\ Greeter(c).sub = i /\ Greeter(c).peer = call[c].peer
  BY <1>1, <1>6 DEF Calls
<1>8. /\ Prover(c) \in Calls /\ Prover(c).addr = call[c].addr /\ Prover(c).pc = call[c].pc
      /\ Prover(c).id = call[c].id /\ Prover(c).sub = i /\ Prover(c).chal = call[c].sub
      /\ Prover(c).peer = p
  BY ZenonT(60), <1>1, <1>6 DEF Calls
<1>9. /\ Dropper(c) \in Calls /\ Dropper(c).pc = "dropping"
      /\ Dropper(c).id = call[c].id /\ Dropper(c).sub = call[c].sub /\ Dropper(c).peer = p
  BY <1>1, <1>6 DEF Calls
<1>10. /\ Redialler(c) \in Calls /\ Redialler(c).addr = call[c].addr /\ Redialler(c).pc = "redial"
       /\ Redialler(c).id = call[c].id /\ Redialler(c).sub = i /\ Redialler(c).peer = p
  BY <1>8 DEF Redialler, Calls
<1> QED
  BY <1>2, <1>3, <1>4, <1>5, <1>7, <1>8, <1>9, <1>10

LEMMA DialSucceedsWire ==
    ASSUME IInv, WireInv, NEW c \in Callers, DialSucceeds(c)
    PROVE  /\ WireInv' /\ Outcome(c, Greeter(c), "hello", result[c])
           /\ Turn(c, Wrote(Greeter(c), "hello"))
           /\ conns' = Written(Append(conns, Connection(call[c].addr)), Len(conns) + 1, "hello",
                               ids + 1, Greeter(c).chal)
<1>1. call[c].addr \in Addrs /\ call[c] \in Calls
  BY DEF DialSucceeds, IInv, Typed
<1>2. /\ Greeter(c) \in Calls /\ Greeter(c).addr = call[c].addr /\ Greeter(c).sub = ids + 1
      /\ Greeter(c).peer \in 0..Len(conns)
  BY <1>1, PartnersAre
<1>3. /\ Len(conns) + 1 <= MaxConns /\ responses' = responses
      /\ peers' = [peers EXCEPT ![call[c].addr] = Len(conns) + 1]
      /\ Write(c, Greeter(c), "hello", Append(conns, Connection(call[c].addr)),
               [peers EXCEPT ![call[c].addr] = Len(conns) + 1], result[c])
  BY DEF DialSucceeds, Greeter
<1>4. /\ Outcome(c, Greeter(c), "hello", result[c]) /\ Table'
      /\ Turn(c, Wrote(Greeter(c), "hello"))
      /\ conns' = Written(Append(conns, Connection(call[c].addr)), Len(conns) + 1, "hello",
                          Greeter(c).sub, Greeter(c).chal)
  BY <1>1, <1>2, <1>3, AddedOutcome
<1>5. result' \in [Callers -> Nat] /\ conns' \in Seq(Wires)
  <2>1. result[c] \in Nat
    BY DEF WireInv, Small
  <2> QED
    BY <1>4, <2>1, OutcomeResult
<1>6. challenges' \in [Addrs -> Nat]
  <2>1. challenges' = [challenges EXCEPT ![call[c].addr] = ids + 1]
    BY DEF DialSucceeds
  <2>2. ids + 1 \in Nat /\ challenges \in [Addrs -> Nat]
    BY DEF WireInv, Small, IInv, Typed
  <2> QED
    BY <2>1, <2>2
<1>7. Small'
  BY <1>5, <1>6 DEF DialSucceeds, WireInv, Small, serverVars
<1> QED
  BY <1>2, <1>3, <1>4, <1>5, <1>7 DEF WireInv, Traffic

LEMMA RedialSucceedsWire ==
    ASSUME IInv, WireInv, NEW c \in Callers, RedialSucceeds(c)
    PROVE  /\ WireInv' /\ Outcome(c, call[c], "proof", result[c])
           /\ Turn(c, Wrote(call[c], "proof"))
           /\ conns' = Written(Append(conns, Connection(call[c].addr)), Len(conns) + 1, "proof",
                               call[c].sub, call[c].chal)
<1>1. call[c].addr \in Addrs /\ call[c] \in Calls
  BY DEF RedialSucceeds, IInv, Typed
<1>2. call[c].peer \in 0..Len(conns)
  BY DEF WireInv, Table
<1>3. /\ Len(conns) + 1 <= MaxConns /\ responses' = responses
      /\ peers' = [peers EXCEPT ![call[c].addr] = Len(conns) + 1]
      /\ Write(c, call[c], "proof", Append(conns, Connection(call[c].addr)),
               [peers EXCEPT ![call[c].addr] = Len(conns) + 1], result[c])
  BY DEF RedialSucceeds
<1>4. /\ Outcome(c, call[c], "proof", result[c]) /\ Table'
      /\ Turn(c, Wrote(call[c], "proof"))
      /\ conns' = Written(Append(conns, Connection(call[c].addr)), Len(conns) + 1, "proof",
                          call[c].sub, call[c].chal)
  BY <1>1, <1>2, <1>3, AddedOutcome
<1>5. result' \in [Callers -> Nat] /\ conns' \in Seq(Wires)
  <2>1. result[c] \in Nat
    BY DEF WireInv, Small
  <2> QED
    BY <1>4, <2>1, OutcomeResult
<1>7. Small'
  BY <1>5 DEF RedialSucceeds, WireInv, Small, serverVars
<1> QED
  BY <1>3, <1>4, <1>5, <1>7 DEF WireInv, Traffic

LEMMA DialFailsWire ==
    ASSUME IInv, WireInv, NEW c \in Callers, NEW kind \in {"ask", "proof"},
           \/ DialFails(c) /\ kind = "ask"
           \/ RedialFails(c) /\ kind = "proof"
    PROVE  WireInv' /\ Outcome(c, call[c], kind, result[c])
<1>1. call[c].addr \in Addrs /\ call[c] \in Calls
  BY DEF DialFails, RedialFails, IInv, Typed
<1>2. call[c].peer \in 0..Len(conns)
  BY DEF WireInv, Table
<1>3. Write(c, call[c], kind, conns, peers, result[c]) /\ responses' = responses /\ peers' = peers
  BY DEF DialFails, RedialFails
<1>4. Outcome(c, call[c], kind, result[c]) /\ Table'
  <2>1. conns \in Seq(Wires) /\ Moved(conns, conns, {}, {})
    BY MovedSelf DEF WireInv, Traffic
  <2> QED
    BY <1>1, <1>2, <1>3, <2>1, WriteOutcome
<1>5. result' \in [Callers -> Nat] /\ conns' \in Seq(Wires)
  <2>1. result[c] \in Nat
    BY DEF WireInv, Small
  <2> QED
    BY <1>4, <2>1, OutcomeResult
<1>7. Small'
  BY <1>5 DEF DialFails, RedialFails, WireInv, Small, serverVars
<1> QED
  BY <1>3, <1>4, <1>5, <1>7 DEF WireInv, Traffic

(* A caller stops waiting.                                                 *)
LEMMA RestsWire ==
    ASSUME IInv, WireInv, NEW c \in Callers, conns' = conns, peers' = peers,
           responses' \subseteq responses, call' = [call EXCEPT ![c] = Idle]
    PROVE  Turn(c, Idle) /\ Adds({}) /\ Table' /\ Traffic'
<1>1. Turn(c, Idle) /\ Idle.peer \in 0..Len(conns)
  BY IdleIs, Lengths DEF Turn
<1>2. Moved(conns, conns', {}, {})
  BY MovedSelf DEF WireInv, Traffic
<1> QED
  BY <1>1, <1>2, TableTurn, MovedAdds DEF WireInv, Traffic

LEMMA EndedWire ==
    ASSUME IInv, WireInv, NEW c \in Callers, NEW v,
           \/ TimesOut(c) /\ v = None
           \/ \E r \in responses : Answered(c, r) /\ v = r.id
    PROVE  /\ WireInv' /\ Turn(c, Idle) /\ Adds({})
           /\ result' = [result EXCEPT ![c] = v]
<1>1. /\ conns' = conns /\ peers' = peers /\ responses' \subseteq responses
      /\ call' = [call EXCEPT ![c] = Idle] /\ result' = [result EXCEPT ![c] = v]
  BY DEF TimesOut, Answered, Raise, PickUp
<1>2. v \in Nat
  BY DEF WireInv, Traffic, Replies, None
<1>3. Small'
  BY <1>1, <1>2 DEF TimesOut, Answered, WireInv, Small, serverVars
<1> QED
  BY <1>1, <1>3, RestsWire DEF WireInv

(* An authentication that has failed.                                      *)
DropOutcome(c, r) ==
    \/ Turn(c, Idle) /\ conns' = conns /\ result' = [result EXCEPT ![c] = None]
    \/ /\ peers[call[c].addr] # None
       /\ Turn(c, Dropper(c)) /\ conns' = Closing(conns, peers[call[c].addr])
       /\ result' = [result EXCEPT ![c] = r]

LEMMA DropWire ==
    ASSUME IInv, WireInv, NEW c \in Callers, call[c].addr \in Addrs, NEW r \in Nat, Drop(c, r),
           peers' = peers, responses' \subseteq responses
    PROVE  /\ DropOutcome(c, r) /\ Adds({}) /\ Table' /\ Traffic'
           /\ result' \in [Callers -> Nat]
<1>1. CASE peers[call[c].addr] = None
  <2>1. conns' = conns /\ call' = [call EXCEPT ![c] = Idle] /\ result' = [result EXCEPT ![c] = None]
    BY <1>1 DEF Drop, Raise
  <2>2. result' \in [Callers -> Nat]
    BY <2>1 DEF WireInv, Small, None
  <2> QED
    BY <2>1, <2>2, RestsWire DEF DropOutcome
<1>2. CASE peers[call[c].addr] # None
  <2>1. /\ conns' = Closing(conns, peers[call[c].addr])
        /\ call' = [call EXCEPT ![c] = Dropper(c)] /\ result' = [result EXCEPT ![c] = r]
    <3>1. call' = [call EXCEPT ![c].pc = "dropping", ![c].peer = peers[call[c].addr]]
      BY <1>2 DEF Drop
    <3>2. call' = [call EXCEPT ![c] = Dropper(c)]
      BY <3>1 DEF IInv, Typed, Dropper
    <3> QED
      BY <1>2, <3>2 DEF Drop
  <2>2. Turn(c, Dropper(c)) /\ Dropper(c).peer \in 0..Len(conns)
    BY <2>1, PartnersAre DEF Turn
  <2>3. Moved(conns, conns', {}, {})
    BY <1>2, <2>1, ClosingMoved DEF WireInv, Traffic, Table
  <2>4. result' \in [Callers -> Nat]
    BY <2>1 DEF WireInv, Small
  <2> QED
    BY <1>2, <2>1, <2>2, <2>3, <2>4, TableTurn, MovedAdds DEF WireInv, Traffic, DropOutcome
<1> QED
  BY <1>1, <1>2

Trusted(k) == [conns EXCEPT ![k].mine = TRUE]

LEMMA TrustedMoved ==
    ASSUME IInv, WireInv, NEW k
    PROVE  Trusted(k) \in Seq(Wires) /\ Moved(conns, Trusted(k), {}, {})
<1>1. conns \in Seq(Wires)
  BY DEF WireInv, Traffic
<1>2. CASE k \in DOMAIN conns
  <2>1. Moved(conns, Trusted(k), {}, {})
    BY <1>1, <1>2, EndedMoved DEF Trusted
  <2> QED
    BY <2>1 DEF Moved
<1>3. CASE k \notin DOMAIN conns
  <2>1. PICK n \in Nat : conns = [i \in 1..n |-> conns[i]]
    BY DEF IInv, Typed, Lines
  <2>2. Trusted(k) = conns
    BY <1>3, <2>1, SetOutside DEF Trusted
  <2> QED
    BY <1>1, <2>2, MovedSelf
<1> QED
  BY <1>2, <1>3

(* The challenge is answered.                                              *)
HelloOutcome(c, r) ==
    \/ challenges[call[c].addr] # r.id /\ DropOutcome(c, r.id) /\ Adds({}) /\ ids' = ids /\ raced' = raced
    \/ /\ challenges[call[c].addr] = r.id /\ peers[call[c].addr] # None
       /\ ids' = ids + 1 /\ raced' = raced
       /\ Outcome(c, Prover(c), "proof", r.id)
       /\ WriteDoes(c, Prover(c), "proof", conns, peers, r.id)
    \/ /\ challenges[call[c].addr] = r.id /\ peers[call[c].addr] = None
       /\ ids' = ids + 1 /\ raced' = (raced \/ Dialling(call[c].addr))
       /\ Turn(c, Redialler(c)) /\ Adds({}) /\ conns' = conns
       /\ result' = [result EXCEPT ![c] = r.id]

LEMMA HelloAnsweredWire ==
    ASSUME IInv, WireInv, NEW c \in Callers, NEW r \in responses, HelloAnswered(c, r)
    PROVE  WireInv' /\ HelloOutcome(c, r)
<1>1. /\ call[c].addr \in Addrs /\ call[c] \in Calls
      /\ peers' = peers /\ responses' \subseteq responses
  BY DEF HelloAnswered, PickUp, IInv, Typed
<1>2. r.id \in Nat
  BY DEF WireInv, Traffic, Replies
<1>3. /\ Prover(c) \in Calls /\ Prover(c).addr \in Addrs /\ Prover(c).peer \in 0..Len(conns)
      /\ Redialler(c) \in Calls /\ Redialler(c).peer \in 0..Len(conns)
  BY <1>1, PartnersAre
<1>4. conns \in Seq(Wires) /\ Moved(conns, conns, {}, {}) /\ result \in [Callers -> Nat]
  BY MovedSelf DEF WireInv, Traffic, Small
<1>5. CASE /\ challenges[call[c].addr] # r.id /\ Drop(c, r.id) /\ ids' = ids /\ raced' = raced
  <2>1. DropOutcome(c, r.id) /\ Adds({}) /\ Table' /\ Traffic' /\ result' \in [Callers -> Nat]
    BY <1>1, <1>2, <1>5, DropWire
  <2>2. Small'
    BY <1>5, <2>1 DEF HelloAnswered, WireInv, Small, serverVars
  <2> QED
    BY <1>5, <2>1, <2>2 DEF HelloOutcome, WireInv
<1>6. CASE /\ challenges[call[c].addr] = r.id /\ ~ Unknown(call[c].addr) /\ ids' = ids + 1
           /\ Write(c, Prover(c), "proof", conns, peers, r.id) /\ raced' = raced
  <2>1. Outcome(c, Prover(c), "proof", r.id) /\ Table'
    BY <1>1, <1>3, <1>4, <1>6, WriteOutcome
  <2>2. result' \in [Callers -> Nat] /\ conns' \in Seq(Wires)
    BY <1>2, <2>1, OutcomeResult
  <2>3. Small'
    BY <1>6, <2>2 DEF HelloAnswered, WireInv, Small, serverVars
  <2>4. peers[Prover(c).addr] # None => peers[Prover(c).addr] \in DOMAIN conns
    BY <1>3 DEF WireInv, Table
  <2>5. WriteDoes(c, Prover(c), "proof", conns, peers, r.id)
    BY <1>3, <1>4, <1>6, <2>4, WriteEffect
  <2> QED
    BY <1>1, <1>6, <2>1, <2>2, <2>3, <2>5 DEF HelloOutcome, WireInv, Traffic, Unknown
<1>7. CASE /\ challenges[call[c].addr] = r.id /\ Unknown(call[c].addr) /\ ids' = ids + 1
           /\ call' = [call EXCEPT ![c] = Redialler(c)]
           /\ result' = [result EXCEPT ![c] = r.id]
           /\ raced' = (raced \/ Dialling(call[c].addr)) /\ conns' = conns
  <2>1. Turn(c, Redialler(c))
    BY <1>3, <1>7 DEF Turn
  <2>2. Table' /\ conns' \in Seq(Wires) /\ Adds({})
    BY <1>1, <1>3, <1>4, <1>7, <2>1, TableTurn, MovedAdds
  <2>3. result' \in [Callers -> Nat] /\ raced' \in BOOLEAN
    BY <1>2, <1>4, <1>7 DEF WireInv, Small
  <2>4. Small'
    BY <1>7, <2>3 DEF HelloAnswered, WireInv, Small, serverVars
  <2> QED
    BY <1>1, <1>7, <2>1, <2>2, <2>4 DEF HelloOutcome, WireInv, Traffic, Unknown
<1> QED
  BY <1>5, <1>6, <1>7 DEF HelloAnswered, Prover, Redialler

(* The proof is answered.                                                  *)
ProofOutcome(c, r) ==
    \/ ~ r.ok /\ DropOutcome(c, r.id) /\ Adds({})
    \/ /\ r.ok /\ call[c].peer = None
       /\ Turn(c, Idle) /\ Adds({}) /\ conns' = conns /\ result' = [result EXCEPT ![c] = None]
    \/ /\ r.ok /\ call[c].peer # None
       /\ Outcome(c, call[c], "ask", r.id)
       /\ WriteDoes(c, call[c], "ask", Trusted(call[c].peer), peers, r.id)

LEMMA ProofAnsweredWire ==
    ASSUME IInv, WireInv, NEW c \in Callers, NEW r \in responses, ProofAnswered(c, r)
    PROVE  WireInv' /\ ProofOutcome(c, r)
<1>1. /\ call[c].addr \in Addrs /\ call[c] \in Calls
      /\ peers' = peers /\ responses' \subseteq responses
  BY DEF ProofAnswered, PickUp, IInv, Typed
<1>2. r.id \in Nat
  BY DEF WireInv, Traffic, Replies
<1>3. call[c].peer \in 0..Len(conns)
  BY DEF WireInv, Table
<1>4. result \in [Callers -> Nat] /\ None \in Nat
  BY DEF WireInv, Small, None
<1>5. CASE ~ r.ok /\ Drop(c, r.id)
  <2>1. DropOutcome(c, r.id) /\ Adds({}) /\ Table' /\ Traffic' /\ result' \in [Callers -> Nat]
    BY <1>1, <1>2, <1>5, DropWire
  <2>2. Small'
    BY <1>5, <2>1 DEF ProofAnswered, WireInv, Small, serverVars
  <2> QED
    BY <1>5, <2>1, <2>2 DEF ProofOutcome, WireInv
<1>6. CASE r.ok /\ call[c].peer = None /\ Raise(c) /\ UNCHANGED conns
  <2>1. call' = [call EXCEPT ![c] = Idle] /\ result' = [result EXCEPT ![c] = None]
    BY <1>6 DEF Raise
  <2>2. Turn(c, Idle) /\ Adds({}) /\ Table' /\ Traffic'
    BY <1>1, <1>6, <2>1, RestsWire
  <2>3. result' \in [Callers -> Nat]
    BY <1>4, <2>1
  <2>4. Small'
    BY <2>3 DEF ProofAnswered, WireInv, Small, serverVars
  <2> QED
    BY <1>6, <2>1, <2>2, <2>4 DEF ProofOutcome, WireInv
<1>7. CASE /\ r.ok /\ call[c].peer # None
           /\ Write(c, call[c], "ask", Trusted(call[c].peer), peers, r.id)
  <2> DEFINE cs == Trusted(call[c].peer)
  <2>1. cs \in Seq(Wires) /\ Moved(conns, cs, {}, {})
    BY TrustedMoved
  <2> HIDE DEF cs
  <2>2. Write(c, call[c], "ask", cs, peers, r.id)
    BY <1>7 DEF cs
  <2>3. Outcome(c, call[c], "ask", r.id) /\ Table'
    BY <1>1, <1>3, <2>1, <2>2, WriteOutcome
  <2>4. result' \in [Callers -> Nat] /\ conns' \in Seq(Wires)
    BY <1>2, <2>3, OutcomeResult
  <2>5. Small'
    BY <2>4 DEF ProofAnswered, WireInv, Small, serverVars
  <2>6. peers[call[c].addr] # None => peers[call[c].addr] \in DOMAIN cs
    BY <1>1, <2>1 DEF WireInv, Table, Moved
  <2>7. WriteDoes(c, call[c], "ask", cs, peers, r.id)
    BY <1>1, <2>1, <2>2, <2>6, WriteEffect
  <2> QED
    BY <1>1, <1>7, <2>3, <2>4, <2>5, <2>7 DEF ProofOutcome, WireInv, Traffic, cs
<1> QED
  BY <1>5, <1>6, <1>7 DEF ProofAnswered, Trusted

Leaver(a) == [Idle EXCEPT !.pc = "leaving", !.peer = peers[a]]

LEMMA DisconnectAllWire ==
    ASSUME IInv, WireInv, NEW c \in Callers, NEW a \in Addrs, DisconnectAll(c, a)
    PROVE  /\ WireInv' /\ Turn(c, Leaver(a)) /\ Adds({})
           /\ Leaver(a).pc = "leaving" /\ Leaver(a).id = None /\ Leaver(a).sub = None
<1>1. peers[a] \in DOMAIN conns /\ conns \in Seq(Wires)
  BY DEF DisconnectAll, WireInv, Table, Traffic
<1>2. peers[a] \in 0..Len(conns) /\ peers[a] \in Nat
  BY <1>1, Element
<1>3. /\ Leaver(a) \in Calls /\ Leaver(a).pc = "leaving" /\ Leaver(a).peer = peers[a]
      /\ Leaver(a).id = None /\ Leaver(a).sub = None
  BY <1>2 DEF Leaver, Idle, Calls, None
<1>4. Turn(c, Leaver(a))
  BY <1>3 DEF Turn, DisconnectAll, Leaver
<1>5. Moved(conns, conns', {}, {}) /\ peers' = peers /\ responses' = responses
  BY <1>1, ClosingMoved DEF DisconnectAll
<1>6. Table' /\ conns' \in Seq(Wires) /\ Adds({})
  BY <1>2, <1>3, <1>4, <1>5, TableTurn, MovedAdds
<1>7. faults' \in 0..MaxFaults
  BY BoundsAreNumbers DEF DisconnectAll, WireInv, Small
<1>8. Small'
  BY <1>7 DEF DisconnectAll, WireInv, Small, serverVars
<1> QED
  BY <1>3, <1>4, <1>5, <1>6, <1>8 DEF WireInv, Traffic

LEMMA FarTable ==
    ASSUME WireInv, NEW W, NEW A, Moved(conns, conns', W, A), peers' = peers, call' = call
    PROVE  Table' /\ conns' \in Seq(Wires)
<1>1. \A c \in Callers : call'[c].peer \in 0..Len(conns)
  BY DEF WireInv, Table
<1> QED
  BY <1>1, TableMoved

LEMMA ReceiveWire ==
    ASSUME IInv, WireInv, NEW k \in DOMAIN conns, Receive(k)
    PROVE  /\ WireInv' /\ Moved(conns, conns', {}, {})
           /\ \A r \in responses' : r \in responses \/ r.id \in Given(conns)
<1>1. Moved(conns, conns', {}, {}) /\ peers' = peers /\ call' = call
  BY ReceiveMoved DEF Receive, callVars, WireInv, Traffic
<1>2. Table' /\ conns' \in Seq(Wires)
  BY <1>1, FarTable
<1> DEFINE r == conns[k]
           m == Head(r.down)
<1>3. r \in Wires /\ r.down # <<>> /\ r.down \in Seq(Messages) /\ r.addr \in Addrs
  <2>1. r \in Wires
    BY Element DEF WireInv, Traffic
  <2> QED
    BY <2>1 DEF Receive, Wires
<1>4. m \in Messages /\ 1 \in DOMAIN r.down /\ m = r.down[1]
  BY <1>3, HeadTailProperties, Element
<1>5. m.id \in Nat /\ m.ok \in BOOLEAN
  BY <1>4 DEF Messages
<1>6. m.kind = "answer" => m.id \in Given(conns)
  BY <1>4 DEF Given, DownIds
<1>7. \/ responses' = responses
      \/ m.kind = "answer" /\ responses' = responses \cup {[id |-> m.id, ok |-> m.ok]}
  BY DEF Receive
<1>8. responses' \in SUBSET Replies
      /\ \A q \in responses' : q \in responses \/ q.id \in Given(conns)
  BY <1>5, <1>6, <1>7 DEF Replies, WireInv, Traffic
<1>9. queued' = queued \/ queued' = [queued EXCEPT ![r.addr] = Append(@, m.id)]
  BY DEF Receive
<1> HIDE DEF m, r
<1>10. queued' \in [Addrs -> Seq(Nat)]
  <2>1. queued \in [Addrs -> Seq(Nat)]
    BY DEF WireInv, Small
  <2>2. Append(queued[r.addr], m.id) \in Seq(Nat)
    BY <1>3, <1>5, <2>1, AppendProperties
  <2> QED
    BY <1>9, <2>1, <2>2
<1>11. Small'
  BY <1>10 DEF Receive, WireInv, Small, callVars, serverVars
<1> QED
  BY SMTT(60), <1>1, <1>2, <1>8, <1>11 DEF WireInv, Traffic

LEMMA HandleWire ==
    ASSUME IInv, WireInv, NEW k \in DOMAIN conns, Handle(k)
    PROVE  WireInv'
<1>1. peers' = peers /\ call' = call /\ responses' = responses
  BY DEF Handle, callVars
<1>2. \E A : Moved(conns, conns', {}, A)
  BY HandleMoved DEF WireInv, Traffic
<1>3. Table' /\ conns' \in Seq(Wires)
  BY <1>1, <1>2, FarTable
<1>4. posed' \in [Addrs -> Nat]
  <2> DEFINE r == conns[k]
  <2>1. r.up # <<>> /\ (posed' = posed \/ posed' = [posed EXCEPT ![r.addr] = Head(r.up).id])
    BY DEF Handle
  <2>2. r \in Wires
    BY Element DEF WireInv, Traffic
  <2>3. r.addr \in Addrs /\ r.up \in Seq(Requests)
    BY <2>2 DEF Wires
  <2>4. Head(r.up) \in Requests
    BY <2>1, <2>3, HeadTailProperties
  <2>5. Head(r.up).id \in Nat
    BY <2>4 DEF Requests
  <2> QED
    BY <2>1, <2>3, <2>5 DEF WireInv, Small
<1>5. Small'
  BY <1>4 DEF Handle, WireInv, Small, callVars
<1> QED
  BY <1>1, <1>3, <1>5 DEF WireInv, Traffic

LEMMA QuietWire ==
    ASSUME IInv, WireInv, NEW k \in DOMAIN conns, NoticeEnd(k) \/ ServerEnds(k) \/ Lose(k)
    PROVE  /\ WireInv' /\ Moved(conns, conns', {}, {})
<1>1. UNCHANGED <<peers, call, responses>>
  BY DEF NoticeEnd, ServerEnds, Lose, callVars
<1>2. Moved(conns, conns', {}, {})
  BY LeftMoved, EndedMoved, LoseMoved DEF NoticeEnd, ServerEnds, WireInv, Traffic
<1>3. Table' /\ conns' \in Seq(Wires)
  BY <1>1, <1>2, FarTable
<1>4. faults' \in 0..MaxFaults
  <2>1. faults' = faults \/ (faults' = faults + 1 /\ faults < MaxFaults)
    BY DEF NoticeEnd, ServerEnds, Lose
  <2>2. faults \in 0..MaxFaults
    BY DEF WireInv, Small
  <2> QED
    BY <2>1, <2>2, BoundsAreNumbers
<1>5. Small'
  BY <1>4 DEF NoticeEnd, ServerEnds, Lose, WireInv, Small, callVars, serverVars
<1> QED
  BY <1>1, <1>2, <1>3, <1>5 DEF WireInv, Traffic

LEMMA BroadcastWire ==
    ASSUME IInv, WireInv, NEW a \in Addrs, Broadcast(a)
    PROVE  WireInv' /\ Fewer(conns, conns')
<1>1. UNCHANGED <<peers, call, responses>>
  BY DEF Broadcast, callVars
<1>2. Fewer(conns, conns')
  BY BroadcastFewer DEF WireInv, Traffic, Small
<1>3. ASSUME NEW k \in DOMAIN conns
      PROVE  /\ conns'[k].addr = conns[k].addr /\ conns'[k].state = conns[k].state
             /\ conns[k].state = "closed" => conns'[k] = conns[k]
  <2>1. conns[k] \in Wires
    BY Element DEF WireInv, Traffic
  <2>2. conns'[k] = conns[k] \/ conns'[k] = Told(conns[k], NewRow(a))
    BY BroadcastTells DEF WireInv, Traffic, Small
  <2>3. LET s == Told(conns[k], NewRow(a)) IN
        /\ s.addr = conns[k].addr /\ s.state = conns[k].state
        /\ conns[k].state = "closed" => s = conns[k]
    BY <2>1, BroadcastTells, ToldIs DEF Told, WireInv, Traffic, Small
  <2> QED
    BY <2>2, <2>3
<1>4. Table'
  BY <1>1, <1>2, <1>3 DEF WireInv, Table, Fewer
<1>5. rows' \in [Addrs -> Nat]
  BY DEF Broadcast, WireInv, Small
<1>6. Small'
  BY <1>5 DEF Broadcast, WireInv, Small, callVars
<1> QED
  BY <1>1, <1>2, <1>4, <1>6 DEF WireInv, Traffic, Fewer

LEMMA CloseEndsWire ==
    ASSUME IInv, WireInv, NEW k \in DOMAIN conns, CloseEnds(k)
    PROVE  WireInv' /\ Fewer(conns, conns')
<1>1. conns \in Seq(Wires) /\ Fewer(conns, conns')
  BY CloseEndsFewer DEF WireInv, Traffic
<1>2. \A j \in DOMAIN conns : conns'[j] = IF j = k THEN Cut(conns[k]) ELSE conns[j]
  BY <1>1, CloseEndsFewer
<1>3. Cut(conns[k]).state = "closed" /\ Cut(conns[k]).down = <<>>
  BY <1>1, CloseEndsFewer
<1>4. DOMAIN conns' = DOMAIN conns /\ Len(conns') = Len(conns)
  BY <1>1 DEF Fewer
<1>5. conns[k].addr \in Addrs /\ peers' = [peers EXCEPT ![conns[k].addr] = None]
  <2>1. conns[k] \in Wires
    BY <1>1, Element
  <2> QED
    BY <2>1 DEF CloseEnds, Deleted, Wires
<1>6. ASSUME NEW a \in Addrs, peers'[a] # None
      PROVE  peers'[a] \in DOMAIN conns' /\ conns'[peers'[a]].addr = a
             /\ conns'[peers'[a]].state # "closed"
  <2>1. a # conns[k].addr /\ peers'[a] = peers[a]
    BY <1>5, <1>6 DEF IInv, Typed
  <2>2. peers[a] \in DOMAIN conns /\ conns[peers[a]].addr = a /\ conns[peers[a]].state # "closed"
    BY <1>6, <2>1 DEF WireInv, Table
  <2>3. peers[a] # k
    BY <2>1, <2>2
  <2> QED
    BY <1>2, <1>4, <2>1, <2>2, <2>3
<1>7. \A c \in Callers : call'[c].peer \in 0..Len(conns')
  <2>1. \A c \in Callers : call'[c] = Idle \/ call'[c] = call[c]
    BY DEF CloseEnds
  <2> QED
    BY <1>4, <2>1, IdleIs, Lengths DEF WireInv, Table
<1>8. Table'
  BY <1>2, <1>3, <1>4, <1>6, <1>7 DEF WireInv, Table
<1>9. Small'
  BY DEF CloseEnds, WireInv, Small, serverVars
<1>10. responses' = responses
  BY DEF CloseEnds
<1> QED
  BY <1>1, <1>8, <1>9, <1>10 DEF WireInv, Traffic, Fewer

LEMMA StillWire == ASSUME WireInv, UNCHANGED vars PROVE WireInv'
<1>1. UNCHANGED <<peers, conns, call, responses, rows, queued, challenges, posed, result,
                  calls, faults, raced>>
  BY DEF vars, callVars, serverVars
<1>2. Traffic'
  BY <1>1 DEF WireInv, Traffic
<1>3. Small'
  BY <1>1 DEF WireInv, Small
<1>4. Table'
  BY <1>1 DEF WireInv, Table
<1> QED
  BY <1>2, <1>3, <1>4 DEF WireInv

THEOREM NextWire == IInv /\ WireInv /\ [Next]_vars => WireInv'
<1> SUFFICES ASSUME IInv, WireInv, [Next]_vars PROVE WireInv'
  OBVIOUS
<1>1. ASSUME NEW c \in Callers, NEW a \in Addrs,
             CallUnknown(c, a) \/ CallKnown(c, a) \/ DisconnectAll(c, a)
      PROVE  WireInv'
  BY <1>1, CallUnknownWire, CallKnownWire, DisconnectAllWire
<1>2. ASSUME NEW c \in Callers, Ends(c) PROVE WireInv'
  <2>1. ASSUME NEW kind \in {"ask", "proof"},
               \/ DialFails(c) /\ kind = "ask"
               \/ RedialFails(c) /\ kind = "proof"
        PROVE  WireInv'
    BY <2>1, DialFailsWire
  <2>2. ASSUME TimesOut(c) \/ \E r \in responses : Answered(c, r) PROVE WireInv'
    BY <2>2, EndedWire
  <2> QED
    BY <1>2, <2>1, <2>2, DialSucceedsWire, RedialSucceedsWire, HelloAnsweredWire,
       ProofAnsweredWire DEF Ends
<1>3. ASSUME NEW k \in DOMAIN conns,
             Listens(k) \/ Handle(k) \/ ServerEnds(k) \/ Lose(k)
      PROVE  WireInv'
  BY <1>3, ReceiveWire, CloseEndsWire, HandleWire, QuietWire DEF Listens
<1>4. ASSUME NEW a \in Addrs, Broadcast(a) PROVE WireInv'
  BY <1>4, BroadcastWire
<1>5. CASE UNCHANGED vars
  BY <1>5, StillWire
<1> QED
  BY <1>1, <1>2, <1>3, <1>4, <1>5 DEF Next

-----------------------------------------------------------------------------
(* The ids of requests: nobody else has the one a caller holds, and what   *)
(* it has not sent yet is in no message.                                   *)

HeldBy(f) == {f.id, f.sub} \ {None}
UnsentBy(f) == {i \in {f.id} : f.pc \in {"dial", "redial", "hello", "proof"}}
                 \cup {i \in {f.sub} : f.pc = "redial"}
WaitedBy(f) == {i \in {f.id} : f.pc = "asked"} \cup {i \in {f.sub} : f.pc \in {"hello", "proof"}}
IsNamed(f) ==
    /\ f.pc \in {"dial", "redial", "hello", "proof", "asked"} => f.id # None
    /\ f.pc \in {"redial", "hello", "proof"} => f.sub # None /\ f.sub # f.id

Answers == Given(conns) \cup Received(responses)

IdsInv ==
    /\ Asked(conns) \cup Answers \subseteq 1..ids
    /\ \A c \in Callers :
         /\ HeldBy(call[c]) \subseteq 1..ids
         /\ IsNamed(call[c])
         /\ UnsentBy(call[c]) \cap (Asked(conns) \cup Answers) = {}
         /\ WaitedBy(call[c]) \cap Answers \subseteq answered
         /\ \A d \in Callers : d # c => HeldBy(call[c]) \cap HeldBy(call[d]) = {}
    /\ answered \subseteq UNION {WaitedBy(call[c]) : c \in Callers}

THEOREM InitIds == Init => IdsInv
<1> SUFFICES ASSUME Init PROVE IdsInv
  OBVIOUS
<1>1. Asked(conns) = {} /\ Answers = {}
  BY DEF Init, Asked, Given, Received, Answers
<1>2. \A c \in Callers : call[c] = Idle
  BY DEF Init
<1>3. HeldBy(Idle) = {} /\ UnsentBy(Idle) = {} /\ IsNamed(Idle)
  BY IdleIs DEF HeldBy, UnsentBy, IsNamed
<1> QED
  BY <1>1, <1>2, <1>3 DEF IdsInv, Init

LEMMA WaitedIs == \A c \in Callers : Waited(c) = WaitedBy(call[c])
<1> TAKE c \in Callers
<1>1. CASE call[c].pc = "asked"
  BY <1>1 DEF Waited, WaitedBy
<1>2. CASE call[c].pc \in {"hello", "proof"}
  BY <1>2 DEF Waited, WaitedBy
<1>3. CASE call[c].pc \notin {"asked", "hello", "proof"}
  BY <1>3 DEF Waited, WaitedBy
<1> QED
  BY <1>1, <1>2, <1>3

LEMMA WaitedIsHeld ==
    ASSUME NEW f, IsNamed(f)
    PROVE  WaitedBy(f) \subseteq HeldBy(f) /\ UnsentBy(f) \subseteq HeldBy(f)
BY DEF IsNamed, WaitedBy, UnsentBy, HeldBy

New == {i \in {ids + 1} : ids' = ids + 1}

(* A caller goes on, and W goes out.                                       *)
Goes(c, f, W) ==
    /\ Turn(c, f) /\ Adds(W)
    /\ ids' = ids \/ ids' = ids + 1
    /\ answered' = answered \ WaitedBy(call[c])
    /\ IsNamed(f)
    /\ HeldBy(f) \subseteq HeldBy(call[c]) \cup New
    /\ UnsentBy(f) \subseteq UnsentBy(call[c]) \cup New
    /\ WaitedBy(f) \subseteq UnsentBy(call[c]) \cup New
    /\ W \subseteq (UnsentBy(call[c]) \cup New) \ UnsentBy(f)

LEMMA GoesIds ==
    ASSUME IInv, IdsInv, NEW c \in Callers, NEW f, NEW W, Goes(c, f, W)
    PROVE  IdsInv'
<1>1. call'[c] = f /\ \A d \in Callers : d # c => call'[d] = call[d]
  BY TurnIs DEF Goes
<1>2. ids \in Nat /\ (ids' = ids \/ ids' = ids + 1)
  BY DEF Goes, IInv, Typed
<1>3. ids + 1 \notin 1..ids /\ New \subseteq 1..ids' /\ 1..ids \subseteq 1..ids'
      /\ New \subseteq {ids + 1}
  BY <1>2 DEF New
<1>4. Answers' \subseteq Answers
  BY DEF Goes, Adds, Answers, Received
<1>5. Asked(conns') \subseteq Asked(conns) \cup W
  BY DEF Goes, Adds
<1>6. UnsentBy(call[c]) \subseteq HeldBy(call[c]) /\ WaitedBy(f) \subseteq HeldBy(f)
      /\ UnsentBy(f) \subseteq HeldBy(f)
  BY WaitedIsHeld DEF Goes, IdsInv
<1>7. HeldBy(f) \subseteq 1..ids' /\ W \subseteq HeldBy(call[c]) \cup New /\ W \subseteq 1..ids'
  BY <1>3, <1>6 DEF Goes, IdsInv
<1>8. (Asked(conns) \cup Answers)' \subseteq 1..ids'
  BY <1>3, <1>4, <1>5, <1>7 DEF IdsInv
<1>9. ASSUME NEW d \in Callers
      PROVE  /\ HeldBy(call'[d]) \subseteq 1..ids'
             /\ IsNamed(call'[d])
             /\ \A e \in Callers : e # d => HeldBy(call'[d]) \cap HeldBy(call'[e]) = {}
  <2>1. \A e \in Callers : e # c => HeldBy(call[e]) \cap HeldBy(f) = {}
    BY <1>3 DEF Goes, IdsInv
  <2> QED
    BY <1>1, <1>3, <1>7, <2>1 DEF Goes, IdsInv
<1>10. ASSUME NEW d \in Callers
       PROVE  UnsentBy(call'[d]) \cap (Asked(conns') \cup Answers') = {}
  <2>1. CASE d = c
    <3>1. UnsentBy(f) \cap (Asked(conns) \cup Answers) = {}
      BY <1>3 DEF Goes, IdsInv
    <3>2. UnsentBy(f) \cap W = {}
      BY DEF Goes
    <3> QED
      BY <1>1, <1>4, <1>5, <2>1, <3>1, <3>2
  <2>2. CASE d # c
    <3>1. UnsentBy(call[d]) \cap (Asked(conns) \cup Answers) = {}
      BY DEF IdsInv
    <3>2. UnsentBy(call[d]) \subseteq HeldBy(call[d]) /\ HeldBy(call[d]) \subseteq 1..ids
      BY WaitedIsHeld DEF IdsInv
    <3>3. HeldBy(call[d]) \cap HeldBy(call[c]) = {}
      BY <2>2 DEF IdsInv
    <3>4. UnsentBy(call[d]) \cap W = {}
      BY <1>3, <1>7, <3>2, <3>3
    <3> QED
      BY <1>1, <1>4, <1>5, <2>2, <3>1, <3>4
  <2> QED
    BY <2>1, <2>2
<1>11. ASSUME NEW d \in Callers
       PROVE  WaitedBy(call'[d]) \cap Answers' \subseteq answered'
  <2>1. CASE d = c
    <3>1. WaitedBy(f) \cap Answers = {}
      BY <1>3 DEF Goes, IdsInv
    <3> QED
      BY <1>1, <1>4, <2>1, <3>1
  <2>2. CASE d # c
    <3>1. WaitedBy(call[d]) \cap Answers \subseteq answered
      BY DEF IdsInv
    <3>2. WaitedBy(call[d]) \cap WaitedBy(call[c]) = {}
      BY <2>2, WaitedIsHeld DEF IdsInv
    <3> QED
      BY <1>1, <1>4, <2>2, <3>1, <3>2 DEF Goes
  <2> QED
    BY <2>1, <2>2
<1>12. answered' \subseteq UNION {WaitedBy(call'[d]) : d \in Callers}
  <2> SUFFICES ASSUME NEW i \in answered' PROVE \E d \in Callers : i \in WaitedBy(call'[d])
    OBVIOUS
  <2>1. i \in answered /\ i \notin WaitedBy(call[c])
    BY DEF Goes
  <2>2. PICK d \in Callers : i \in WaitedBy(call[d])
    BY <2>1 DEF IdsInv
  <2> QED
    BY <1>1, <2>1, <2>2
<1> QED
  BY <1>8, <1>9, <1>10, <1>11, <1>12 DEF IdsInv

(* The network and the servers: the answers of A come.                     *)
LEMMA FarIds ==
    ASSUME IInv, IdsInv, NEW A, ids' = ids,
           \A c \in Callers : call'[c] = call[c] \/ (call'[c] = Idle /\ WaitedBy(call[c]) = {}),
           Asked(conns') \subseteq Asked(conns), A \subseteq Asked(conns),
           Answers' \subseteq Answers \cup A,
           answered' = answered \cup (A \cap UNION {WaitedBy(call[c]) : c \in Callers})
    PROVE  IdsInv'
<1>1. HeldBy(Idle) = {} /\ UnsentBy(Idle) = {} /\ WaitedBy(Idle) = {} /\ IsNamed(Idle)
  BY IdleIs DEF HeldBy, UnsentBy, WaitedBy, IsNamed
<1>2. \A c \in Callers : WaitedBy(call'[c]) = WaitedBy(call[c])
  BY <1>1
<1>3. (Asked(conns) \cup Answers)' \subseteq 1..ids'
  BY DEF IdsInv
<1>4. ASSUME NEW c \in Callers
      PROVE  /\ HeldBy(call'[c]) \subseteq 1..ids'
             /\ IsNamed(call'[c])
             /\ \A d \in Callers : d # c => HeldBy(call'[c]) \cap HeldBy(call'[d]) = {}
  BY <1>1 DEF IdsInv
<1>5. ASSUME NEW c \in Callers
      PROVE  UnsentBy(call'[c]) \cap (Asked(conns') \cup Answers') = {}
  BY <1>1 DEF IdsInv
<1>6. ASSUME NEW c \in Callers
      PROVE  WaitedBy(call'[c]) \cap Answers' \subseteq answered'
  <2>1. WaitedBy(call[c]) \cap Answers \subseteq answered
    BY DEF IdsInv
  <2>2. WaitedBy(call[c]) \cap A \subseteq answered'
    OBVIOUS
  <2> QED
    BY <1>2, <2>1, <2>2
<1>7. answered' \subseteq UNION {WaitedBy(call'[c]) : c \in Callers}
  BY <1>2 DEF IdsInv
<1> QED
  BY <1>3, <1>4, <1>5, <1>6, <1>7 DEF IdsInv

LEMMA NewIs == ASSUME IInv, IdsInv
               PROVE  /\ ids + 1 \in Nat /\ ids + 1 # None /\ New \subseteq {ids + 1}
                      /\ ids' = ids + 1 => New = {ids + 1}
                      /\ \A c \in Callers : ids + 1 \notin HeldBy(call[c])
<1>1. ids \in Nat
  BY DEF IInv, Typed
<1>2. ids + 1 \notin 1..ids
  BY <1>1
<1> QED
  BY <1>1, <1>2 DEF New, None, IdsInv

(* A caller gives up, or leaves.                                           *)
LEMMA RestsIds ==
    ASSUME IInv, IdsInv, NEW c \in Callers, NEW f, Turn(c, f), Adds({}),
           f.pc \in {"idle", "dropping", "leaving"},
           HeldBy(f) \subseteq HeldBy(call[c]),
           ids' = ids \/ ids' = ids + 1, answered' = answered \ WaitedBy(call[c])
    PROVE  IdsInv'
<1>1. UnsentBy(f) = {} /\ WaitedBy(f) = {} /\ IsNamed(f)
  BY DEF UnsentBy, WaitedBy, IsNamed
<1>2. Goes(c, f, {})
  BY <1>1 DEF Goes
<1> QED
  BY <1>2, GoesIds

LEMMA IdleHolds == HeldBy(Idle) = {}
BY IdleIs DEF HeldBy

(* It writes.                                                              *)
LEMMA WritesIds ==
    ASSUME IInv, IdsInv, NEW c \in Callers, NEW g \in Calls, NEW kind \in {"ask", "hello", "proof"},
           NEW r, Outcome(c, g, kind, r),
           HeldBy(g) \subseteq HeldBy(call[c]) \cup New,
           g.id # None, g.id \in UnsentBy(call[c]) \cup New,
           kind # "ask" => /\ g.sub \in UnsentBy(call[c]) \cup New
                           /\ g.sub # None /\ g.sub # g.id,
           ids' = ids \/ ids' = ids + 1, answered' = answered \ WaitedBy(call[c])
    PROVE  IdsInv'
<1>1. CASE Turn(c, Idle) /\ Adds({})
  BY <1>1, RestsIds, IdleHolds, IdleIs
<1>2. CASE Turn(c, Wrote(g, kind)) /\ Adds({Sent(g, kind)})
  <2> DEFINE f == Wrote(g, kind)
  <2>1. f.pc = (IF kind = "ask" THEN "asked" ELSE kind) /\ f.id = g.id /\ f.sub = g.sub
    BY WroteIs
  <2> HIDE DEF f
  <2>2. IsNamed(f) /\ HeldBy(f) = HeldBy(g)
    BY <2>1 DEF IsNamed, HeldBy
  <2>3. UnsentBy(f) \subseteq UnsentBy(call[c]) \cup New
        /\ WaitedBy(f) \subseteq UnsentBy(call[c]) \cup New
    BY <2>1 DEF UnsentBy, WaitedBy
  <2>4. {Sent(g, kind)} \subseteq (UnsentBy(call[c]) \cup New) \ UnsentBy(f)
    <3>1. CASE kind = "ask"
      <4>1. Sent(g, kind) = g.id /\ UnsentBy(f) = {}
        BY <2>1, <3>1 DEF Sent, UnsentBy
      <4> QED
        BY <4>1
    <3>2. CASE kind # "ask"
      <4>1. Sent(g, kind) = g.sub /\ UnsentBy(f) = {g.id}
        BY <2>1, <3>2 DEF Sent, UnsentBy
      <4> QED
        BY <3>2, <4>1
    <3> QED
      BY <3>1, <3>2
  <2>5. Turn(c, f) /\ Adds({Sent(g, kind)})
    BY <1>2 DEF f
  <2>6. Goes(c, f, {Sent(g, kind)})
    BY <2>2, <2>3, <2>4, <2>5 DEF Goes
  <2> QED
    BY <2>6, GoesIds
<1> QED
  BY <1>1, <1>2 DEF Outcome

LEMMA WaitsForNothing ==
    ASSUME NEW f, f.pc \notin {"asked", "hello", "proof"} PROVE WaitedBy(f) = {}
BY DEF WaitedBy

LEMMA CallIds ==
    ASSUME IInv, WireInv, IdsInv, NEW c \in Callers, NEW a \in Addrs,
           CallUnknown(c, a) \/ CallKnown(c, a)
    PROVE  IdsInv'
<1>1. ids' = ids + 1 /\ answered' = answered \ WaitedBy(call[c])
  <2>1. ids' = ids + 1 /\ answered' = answered /\ call[c].pc = "idle"
    BY DEF CallUnknown, CallKnown, Begins
  <2> QED
    BY <2>1, WaitsForNothing
<1>2. New = {ids + 1} /\ ids + 1 # None
  BY <1>1, NewIs
<1>3. CASE CallUnknown(c, a)
  <2> DEFINE f == Dialler(a)
  <2>1. Turn(c, f) /\ Adds({})
    BY <1>3, CallUnknownWire
  <2>2. f.pc = "dial" /\ f.id = ids + 1 /\ f.sub = None
    BY BeginnersAre
  <2> HIDE DEF f
  <2>3. HeldBy(f) = New /\ UnsentBy(f) = New /\ WaitedBy(f) = {} /\ IsNamed(f)
    BY <1>2, <2>2 DEF HeldBy, UnsentBy, WaitedBy, IsNamed
  <2>4. Goes(c, f, {})
    BY <1>1, <2>1, <2>3 DEF Goes
  <2> QED
    BY <2>4, GoesIds
<1>4. CASE CallKnown(c, a)
  <2> DEFINE g == Asker(a)
  <2>1. Outcome(c, g, "ask", result[c])
    BY <1>4, CallKnownWire
  <2>2. g \in Calls /\ g.id = ids + 1 /\ g.sub = None
    BY BeginnersAre
  <2> HIDE DEF g
  <2>3. HeldBy(g) = New
    BY <1>2, <2>2 DEF HeldBy
  <2> QED
    BY <1>1, <1>2, <2>1, <2>2, <2>3, WritesIds
<1> QED
  BY <1>3, <1>4

LEMMA DialSucceedsIds ==
    ASSUME IInv, WireInv, IdsInv, NEW c \in Callers, DialSucceeds(c)
    PROVE  IdsInv'
<1> DEFINE g == Greeter(c)
<1>1. call[c].addr \in Addrs /\ call[c].pc = "dial" /\ ids' = ids + 1 /\ answered' = answered
  BY DEF DialSucceeds, IInv, Typed
<1>2. answered' = answered \ WaitedBy(call[c])
  BY <1>1, WaitsForNothing
<1>3. New = {ids + 1} /\ ids + 1 # None /\ ids + 1 \notin HeldBy(call[c])
  BY <1>1, NewIs
<1>4. g \in Calls /\ g.id = call[c].id /\ g.sub = ids + 1
  BY <1>1, PartnersAre
<1>5. call[c].id # None /\ call[c].id \in HeldBy(call[c]) /\ call[c].id \in UnsentBy(call[c])
  BY <1>1 DEF IdsInv, IsNamed, HeldBy, UnsentBy
<1>6. Outcome(c, g, "hello", result[c])
  BY DialSucceedsWire
<1> HIDE DEF g
<1>7. HeldBy(g) \subseteq HeldBy(call[c]) \cup New
  BY <1>3, <1>4 DEF HeldBy
<1> QED
  BY <1>1, <1>2, <1>3, <1>4, <1>5, <1>6, <1>7, WritesIds

LEMMA DialEndsIds ==
    ASSUME IInv, WireInv, IdsInv, NEW c \in Callers,
           DialFails(c) \/ RedialSucceeds(c) \/ RedialFails(c)
    PROVE  IdsInv'
<1>1. ids' = ids /\ answered' = answered /\ call[c].pc \in {"dial", "redial"}
  BY DEF DialFails, RedialSucceeds, RedialFails
<1>2. answered' = answered \ WaitedBy(call[c])
  BY <1>1, WaitsForNothing
<1>3. call[c] \in Calls
  BY DEF IInv, Typed
<1>4. call[c].id # None /\ call[c].id \in UnsentBy(call[c])
  BY <1>1 DEF IdsInv, IsNamed, UnsentBy
<1>5. CASE DialFails(c)
  <2>1. Outcome(c, call[c], "ask", result[c])
    BY <1>5, DialFailsWire
  <2> QED
    BY <1>1, <1>2, <1>3, <1>4, <2>1, WritesIds
<1>6. CASE RedialSucceeds(c) \/ RedialFails(c)
  <2>1. Outcome(c, call[c], "proof", result[c])
    BY <1>6, DialFailsWire, RedialSucceedsWire
  <2>2. call[c].pc = "redial"
    BY <1>6 DEF RedialSucceeds, RedialFails
  <2>3. call[c].sub # None /\ call[c].sub # call[c].id /\ call[c].sub \in UnsentBy(call[c])
    BY <2>2 DEF IdsInv, IsNamed, UnsentBy
  <2> QED
    BY <1>1, <1>2, <1>3, <1>4, <2>1, <2>3, WritesIds
<1> QED
  BY <1>5, <1>6

LEMMA EndedIds ==
    ASSUME IInv, WireInv, IdsInv, NEW c \in Callers,
           TimesOut(c) \/ \E r \in responses : Answered(c, r)
    PROVE  IdsInv'
<1>1. Turn(c, Idle) /\ Adds({})
  BY EndedWire
<1>2. ids' = ids /\ answered' = answered \ WaitedBy(call[c])
  BY WaitedIs DEF TimesOut, Answered
<1> QED
  BY <1>1, <1>2, RestsIds, IdleHolds, IdleIs

LEMMA DroppedIds ==
    ASSUME IInv, WireInv, IdsInv, NEW c \in Callers, NEW r, call[c].addr \in Addrs,
           DropOutcome(c, r), Adds({}), ids' = ids, answered' = answered \ WaitedBy(call[c])
    PROVE  IdsInv'
<1>1. CASE Turn(c, Idle)
  BY <1>1, RestsIds, IdleHolds, IdleIs
<1>2. CASE Turn(c, Dropper(c))
  <2>1. Dropper(c).pc = "dropping" /\ HeldBy(Dropper(c)) = HeldBy(call[c])
    BY PartnersAre DEF HeldBy
  <2> QED
    BY <1>2, <2>1, RestsIds
<1> QED
  BY <1>1, <1>2 DEF DropOutcome

LEMMA HelloAnsweredIds ==
    ASSUME IInv, WireInv, IdsInv, NEW c \in Callers, NEW r \in responses, HelloAnswered(c, r)
    PROVE  IdsInv'
<1>1. call[c].addr \in Addrs /\ call[c].pc = "hello" /\ answered' = answered \ WaitedBy(call[c])
  BY WaitedIs DEF HelloAnswered, IInv, Typed
<1>2. call[c].id # None /\ call[c].id \in HeldBy(call[c]) /\ call[c].id \in UnsentBy(call[c])
  BY <1>1 DEF IdsInv, IsNamed, HeldBy, UnsentBy
<1>3. CASE DropOutcome(c, r.id) /\ Adds({}) /\ ids' = ids
  BY <1>1, <1>3, DroppedIds
<1>4. CASE ids' = ids + 1 /\ Outcome(c, Prover(c), "proof", r.id)
  <2> DEFINE g == Prover(c)
  <2>1. New = {ids + 1} /\ ids + 1 # None /\ ids + 1 \notin HeldBy(call[c])
    BY <1>4, NewIs
  <2>2. g \in Calls /\ g.id = call[c].id /\ g.sub = ids + 1
    BY <1>1, PartnersAre
  <2>3. Outcome(c, g, "proof", r.id)
    BY <1>4
  <2> HIDE DEF g
  <2>4. HeldBy(g) \subseteq HeldBy(call[c]) \cup New
    BY <2>1, <2>2 DEF HeldBy
  <2> QED
    BY <1>1, <1>2, <1>4, <2>1, <2>2, <2>3, <2>4, WritesIds
<1>5. CASE ids' = ids + 1 /\ Turn(c, Redialler(c)) /\ Adds({})
  <2> DEFINE f == Redialler(c)
  <2>1. New = {ids + 1} /\ ids + 1 # None /\ ids + 1 \notin HeldBy(call[c])
    BY <1>5, NewIs
  <2>2. f.pc = "redial" /\ f.id = call[c].id /\ f.sub = ids + 1
    BY <1>1, PartnersAre
  <2>3. Turn(c, f) /\ Adds({})
    BY <1>5
  <2> HIDE DEF f
  <2>4. HeldBy(f) \subseteq HeldBy(call[c]) \cup New /\ IsNamed(f)
    BY <1>2, <2>1, <2>2 DEF HeldBy, IsNamed
  <2>5. UnsentBy(f) \subseteq UnsentBy(call[c]) \cup New /\ WaitedBy(f) = {}
    BY <1>2, <2>1, <2>2 DEF UnsentBy, WaitedBy
  <2>6. Goes(c, f, {})
    BY <1>1, <1>5, <2>3, <2>4, <2>5 DEF Goes
  <2> QED
    BY <2>6, GoesIds
<1> QED
  BY <1>3, <1>4, <1>5, HelloAnsweredWire DEF HelloOutcome

LEMMA ProofAnsweredIds ==
    ASSUME IInv, WireInv, IdsInv, NEW c \in Callers, NEW r \in responses, ProofAnswered(c, r)
    PROVE  IdsInv'
<1>1. /\ call[c].addr \in Addrs /\ call[c] \in Calls /\ call[c].pc = "proof"
      /\ ids' = ids /\ answered' = answered \ WaitedBy(call[c])
  BY WaitedIs DEF ProofAnswered, IInv, Typed
<1>2. call[c].id # None /\ call[c].id \in UnsentBy(call[c])
  BY <1>1 DEF IdsInv, IsNamed, UnsentBy
<1>3. CASE DropOutcome(c, r.id) /\ Adds({})
  BY <1>1, <1>3, DroppedIds
<1>4. CASE Turn(c, Idle) /\ Adds({})
  BY <1>1, <1>4, RestsIds, IdleHolds, IdleIs
<1>5. CASE Outcome(c, call[c], "ask", r.id)
  BY <1>1, <1>2, <1>5, WritesIds
<1> QED
  BY <1>3, <1>4, <1>5, ProofAnsweredWire DEF ProofOutcome

LEMMA DisconnectAllIds ==
    ASSUME IInv, WireInv, IdsInv, NEW c \in Callers, NEW a \in Addrs, DisconnectAll(c, a)
    PROVE  IdsInv'
<1>1. Turn(c, Leaver(a)) /\ Adds({}) /\ Leaver(a).pc = "leaving" /\ HeldBy(Leaver(a)) = {}
  BY DisconnectAllWire DEF HeldBy
<1>2. ids' = ids /\ answered' = answered /\ call[c].pc = "idle"
  BY DEF DisconnectAll
<1>3. answered' = answered \ WaitedBy(call[c])
  BY <1>2, WaitsForNothing
<1> QED
  BY <1>1, <1>2, <1>3, RestsIds

LEMMA FarStepIds ==
    ASSUME IInv, WireInv, IdsInv, NEW k \in DOMAIN conns,
           Receive(k) \/ Handle(k) \/ NoticeEnd(k) \/ ServerEnds(k) \/ Lose(k)
    PROVE  IdsInv'
<1>1. ids' = ids /\ call' = call
  BY DEF Receive, Handle, NoticeEnd, ServerEnds, Lose, callVars
<1>2. ASSUME NEW A, Moved(conns, conns', {}, A), A \subseteq Asked(conns),
             Received(responses') \subseteq Received(responses) \cup Given(conns),
             answered' = answered \cup (A \cap UNION {WaitedBy(call[c]) : c \in Callers})
      PROVE  IdsInv'
  <2>1. Asked(conns') \subseteq Asked(conns) /\ Given(conns') \subseteq Given(conns) \cup A
    BY <1>2, MovedIds
  <2>2. Answers' \subseteq Answers \cup A
    BY <1>2, <2>1 DEF Answers
  <2> QED
    BY <1>1, <1>2, <2>1, <2>2, FarIds
<1>3. CASE Handle(k)
  <2>1. responses' = responses
    BY <1>3 DEF Handle
  <2>2. UNION {Waited(c) : c \in Callers} = UNION {WaitedBy(call[c]) : c \in Callers}
    BY WaitedIs
  <2>3. CASE Moved(conns, conns', {}, {}) /\ answered' = answered
    BY <1>2, <2>1, <2>3
  <2>4. ASSUME NEW id \in Asked(conns), Moved(conns, conns', {}, {id}),
               answered' = answered \cup ({id} \cap UNION {Waited(c) : c \in Callers})
        PROVE  IdsInv'
    BY <1>2, <2>1, <2>2, <2>4
  <2> QED
    BY <1>3, <2>3, <2>4, HandleMoved DEF WireInv, Traffic
<1>4. CASE Receive(k)
  <2>1. Moved(conns, conns', {}, {}) /\ \A r \in responses' : r \in responses \/ r.id \in Given(conns)
    BY <1>4, ReceiveWire
  <2>2. Received(responses') \subseteq Received(responses) \cup Given(conns)
    BY SMTT(60), <2>1 DEF Received
  <2>3. answered' = answered
    BY <1>4 DEF Receive
  <2> QED
    BY <1>2, <2>1, <2>2, <2>3
<1>5. CASE NoticeEnd(k) \/ ServerEnds(k) \/ Lose(k)
  <2>1. Moved(conns, conns', {}, {})
    BY <1>5, QuietWire
  <2>2. answered' = answered /\ responses' = responses
    BY <1>5 DEF NoticeEnd, ServerEnds, Lose
  <2> QED
    BY <1>2, <2>1, <2>2
<1> QED
  BY SMTT(60), <1>3, <1>4, <1>5

LEMMA FewerStepIds ==
    ASSUME IInv, WireInv, IdsInv, Fewer(conns, conns'),
           UNCHANGED <<ids, responses, answered>>,
           \A c \in Callers : call'[c] = call[c] \/ (call'[c] = Idle /\ WaitedBy(call[c]) = {})
    PROVE  IdsInv'
<1>1. Asked(conns') \subseteq Asked(conns) /\ Given(conns') \subseteq Given(conns)
  BY FewerIds
<1>2. Answers' \subseteq Answers
  BY <1>1 DEF Answers
<1> QED
  BY <1>1, <1>2, FarIds

LEMMA CloseEndsIds ==
    ASSUME IInv, WireInv, IdsInv, NEW k \in DOMAIN conns, CloseEnds(k)
    PROVE  IdsInv'
<1>1. UNCHANGED <<ids, responses, answered>> /\ Fewer(conns, conns')
  BY CloseEndsWire DEF CloseEnds
<1>2. \A c \in Callers : \/ call'[c] = call[c]
                         \/ call'[c] = Idle /\ call[c].pc \in {"dropping", "leaving"}
  BY DEF CloseEnds
<1>3. \A c \in Callers : call'[c] = call[c] \/ (call'[c] = Idle /\ WaitedBy(call[c]) = {})
  BY <1>2, WaitsForNothing
<1> QED
  BY <1>1, <1>3, FewerStepIds

LEMMA BroadcastIds ==
    ASSUME IInv, WireInv, IdsInv, NEW a \in Addrs, Broadcast(a)
    PROVE  IdsInv'
<1>1. UNCHANGED <<ids, responses, answered, call>> /\ Fewer(conns, conns')
  BY BroadcastWire DEF Broadcast, callVars
<1> QED
  BY <1>1, FewerStepIds

LEMMA StillIds == ASSUME IdsInv, UNCHANGED vars PROVE IdsInv'
<1>1. UNCHANGED <<conns, call, responses, ids, answered>>
  BY DEF vars, callVars
<1> QED
  BY <1>1 DEF IdsInv, Answers, Received, Asked, Given

THEOREM NextIds == IInv /\ WireInv /\ IdsInv /\ [Next]_vars => IdsInv'
<1> SUFFICES ASSUME IInv, WireInv, IdsInv, [Next]_vars PROVE IdsInv'
  OBVIOUS
<1>1. ASSUME NEW c \in Callers, NEW a \in Addrs,
             CallUnknown(c, a) \/ CallKnown(c, a) \/ DisconnectAll(c, a)
      PROVE  IdsInv'
  BY <1>1, CallIds, DisconnectAllIds
<1>2. ASSUME NEW c \in Callers, Ends(c) PROVE IdsInv'
  BY <1>2, DialSucceedsIds, DialEndsIds, EndedIds, HelloAnsweredIds, ProofAnsweredIds DEF Ends
<1>3. ASSUME NEW k \in DOMAIN conns,
             Listens(k) \/ Handle(k) \/ ServerEnds(k) \/ Lose(k)
      PROVE  IdsInv'
  BY <1>3, FarStepIds, CloseEndsIds DEF Listens
<1>4. ASSUME NEW a \in Addrs, Broadcast(a) PROVE IdsInv'
  BY <1>4, BroadcastIds
<1>5. CASE UNCHANGED vars
  BY <1>5, StillIds
<1> QED
  BY <1>1, <1>2, <1>3, <1>4, <1>5 DEF Next

(* The types are right: the table of peers never names a connection that   *)
(* is closed or is with another address, and no response or answer is to a *)
(* request that was never made (client.py, connectToPeer, disconnect and   *)
(* listenForResponse).                                                     *)
THEOREM TypeCorrect == Spec => []TypeOK
<1> DEFINE Inv == IInv /\ WireInv /\ IdsInv
<1>1. Inv => TypeOK
  <2> SUFFICES ASSUME Inv PROVE TypeOK
    OBVIOUS
  <2>1. \A c \in Callers :
          call[c].pc \in {"idle", "dial", "redial", "hello", "proof", "asked",
                          "dropping", "leaving"}
    BY DEF IInv, Typed, Calls
  <2>2. \A r \in responses : r.id \in 1..ids
    BY DEF IdsInv, Answers, Received
  <2>3. answered \subseteq 1..ids
    BY WaitedIsHeld DEF IdsInv
  <2> QED
    BY <2>1, <2>2, <2>3 DEF TypeOK, WireInv, Table, Small
<1>2. Init => Inv
  BY InitIInv, InitWire, InitIds
<1>3. Inv /\ [Next]_vars => Inv'
  BY NextIInv, NextWire, NextIds
<1> QED
  BY <1>1, <1>2, <1>3, PTL DEF Spec

-----------------------------------------------------------------------------
(* A call makes at most three requests: its own, and two when it has to    *)
(* authenticate a connection first.                                        *)

Doing(p, calling) == {c \in Callers : calling[c].pc = p}

CountInv ==
    ids + 2 * Cardinality(Doing("dial", call)) + Cardinality(Doing("hello", call)) <= 3 * calls

LEMMA DoingIs ==
    ASSUME NEW p, NEW calling
    PROVE  /\ IsFiniteSet(Doing(p, calling)) /\ Cardinality(Doing(p, calling)) \in Nat
<1>1. Doing(p, calling) \subseteq Callers
  BY DEF Doing
<1> QED
  BY <1>1, CallersAreFinite, FS_Subset, FS_CardinalityType

(* By how much the number of those that do p changes when c becomes f.     *)
LEMMA DoingTurn ==
    ASSUME IInv, NEW p, NEW c \in Callers, NEW f, Turn(c, f)
    PROVE  LET n == Cardinality(Doing(p, call))  m == Cardinality(Doing(p, call')) IN
           /\ n \in Nat /\ m \in Nat
           /\ call[c].pc # p /\ f.pc = p => m = n + 1
           /\ call[c].pc = p /\ f.pc # p => m = n - 1
           /\ (call[c].pc = p <=> f.pc = p) => m = n
<1> DEFINE S == Doing(p, call)
           T == Doing(p, call')
<1>1. call'[c] = f /\ \A d \in Callers : d # c => call'[d] = call[d]
  BY TurnIs
<1>2. IsFiniteSet(S) /\ Cardinality(S) \in Nat /\ Cardinality(T) \in Nat
  BY DoingIs
<1>3. ASSUME call[c].pc # p, f.pc = p PROVE Cardinality(T) = Cardinality(S) + 1
  <2>1. T = S \cup {c} /\ c \notin S
    BY <1>1, <1>3 DEF Doing
  <2> HIDE DEF S, T
  <2> QED
    BY <1>2, <2>1, FS_AddElement
<1>4. ASSUME call[c].pc = p, f.pc # p PROVE Cardinality(T) = Cardinality(S) - 1
  <2>1. T = S \ {c} /\ c \in S
    BY <1>1, <1>4 DEF Doing
  <2> HIDE DEF S, T
  <2> QED
    BY <1>2, <2>1, FS_RemoveElement
<1>5. ASSUME call[c].pc = p <=> f.pc = p PROVE T = S
  BY <1>1, <1>5 DEF Doing
<1> QED
  BY <1>2, <1>3, <1>4, <1>5

(* The steps of a caller, by what it does before and after.                *)
LEMMA CountTurn ==
    ASSUME IInv, WireInv, CountInv, NEW c \in Callers, NEW f, Turn(c, f),
           \/ /\ call[c].pc = "idle"
              /\ \/ calls' = calls + 1 /\ ids' = ids + 1 /\ f.pc \in {"dial", "asked", "idle"}
                 \/ calls' = calls /\ ids' = ids /\ f.pc = "leaving"
           \/ calls' = calls /\ call[c].pc = "dial" /\ ids' = ids + 1 /\ f.pc = "hello"
           \/ /\ calls' = calls /\ call[c].pc = "hello" /\ ids' = ids + 1
              /\ f.pc \in {"idle", "proof", "redial"}
           \/ calls' = calls /\ ids' = ids /\ f.pc \notin {"dial", "hello"}
    PROVE  CountInv'
<1> DEFINE n1 == Cardinality(Doing("dial", call))
           m1 == Cardinality(Doing("dial", call'))
           n2 == Cardinality(Doing("hello", call))
           m2 == Cardinality(Doing("hello", call'))
<1>1. ids \in Nat /\ calls \in Nat
  <2>1. calls \in 0..MaxCalls /\ MaxCalls \in Nat
    BY BoundsAreNumbers DEF WireInv, Small
  <2> QED
    BY <2>1 DEF IInv, Typed
<1>2. /\ n1 \in Nat /\ m1 \in Nat
      /\ call[c].pc # "dial" /\ f.pc = "dial" => m1 = n1 + 1
      /\ call[c].pc = "dial" /\ f.pc # "dial" => m1 = n1 - 1
      /\ (call[c].pc = "dial" <=> f.pc = "dial") => m1 = n1
  BY DoingTurn
<1>3. /\ n2 \in Nat /\ m2 \in Nat
      /\ call[c].pc # "hello" /\ f.pc = "hello" => m2 = n2 + 1
      /\ call[c].pc = "hello" /\ f.pc # "hello" => m2 = n2 - 1
      /\ (call[c].pc = "hello" <=> f.pc = "hello") => m2 = n2
  BY DoingTurn
<1>4. ids + 2 * n1 + n2 <= 3 * calls
  BY DEF CountInv
<1> HIDE DEF n1, n2, m1, m2
<1>5. ids' + 2 * m1 + m2 <= 3 * calls'
  BY <1>1, <1>2, <1>3, <1>4
<1> QED
  BY <1>5 DEF CountInv, n1, n2, m1, m2

LEMMA OutcomeTurn ==
    ASSUME NEW c \in Callers, NEW g \in Calls, NEW kind \in {"ask", "hello", "proof"}, NEW r,
           Outcome(c, g, kind, r)
    PROVE  \E f : /\ Turn(c, f)
                  /\ f.pc = "idle" \/ f.pc = (IF kind = "ask" THEN "asked" ELSE kind)
BY WroteIs, IdleIs DEF Outcome

(* Who dials no more and begins no authentication counts for less.         *)
LEMMA CountSame ==
    ASSUME CountInv, calls' = calls, ids' = ids,
           \A c \in Callers : \/ call'[c] = call[c]
                              \/ /\ call'[c].pc \notin {"dial", "hello"}
                                 /\ call[c].pc \notin {"dial", "hello"}
    PROVE  CountInv'
<1>1. Doing("dial", call') = Doing("dial", call) /\ Doing("hello", call') = Doing("hello", call)
  BY DEF Doing
<1> QED
  BY <1>1 DEF CountInv

LEMMA CountCaller ==
    ASSUME IInv, WireInv, CountInv, NEW c \in Callers, Ends(c)
    PROVE  CountInv'
<1>1. CASE DialSucceeds(c)
  <2>1. Turn(c, Wrote(Greeter(c), "hello")) /\ Greeter(c) \in Calls
    BY <1>1, DialSucceedsWire, PartnersAre DEF DialSucceeds, IInv, Typed
  <2>2. Wrote(Greeter(c), "hello").pc = "hello"
    BY <2>1, WroteIs
  <2> QED
    BY <1>1, <2>1, <2>2, CountTurn DEF DialSucceeds
<1>2. CASE DialFails(c) \/ RedialSucceeds(c) \/ RedialFails(c)
  <2>1. call[c] \in Calls
    BY DEF IInv, Typed
  <2>2. \E kind \in {"ask", "proof"} : Outcome(c, call[c], kind, result[c])
    BY <1>2, DialFailsWire, RedialSucceedsWire
  <2>3. PICK f : Turn(c, f) /\ f.pc \in {"idle", "asked", "proof"}
    BY <2>1, <2>2, OutcomeTurn
  <2> QED
    BY <1>2, <2>3, CountTurn DEF DialFails, RedialSucceeds, RedialFails
<1>3. CASE TimesOut(c) \/ \E r \in responses : Answered(c, r)
  <2>1. Turn(c, Idle)
    BY <1>3, EndedWire
  <2> QED
    BY <1>3, <2>1, IdleIs, CountTurn DEF TimesOut, Answered
<1>4. ASSUME NEW r \in responses, HelloAnswered(c, r) PROVE CountInv'
  <2>1. call[c].addr \in Addrs /\ call[c].pc = "hello" /\ calls' = calls
    BY <1>4 DEF HelloAnswered, IInv, Typed
  <2>2. CASE DropOutcome(c, r.id) /\ ids' = ids
    BY <2>1, <2>2, IdleIs, PartnersAre, CountTurn DEF DropOutcome
  <2>3. CASE ids' = ids + 1 /\ Outcome(c, Prover(c), "proof", r.id)
    <3>1. Prover(c) \in Calls
      BY <2>1, PartnersAre
    <3>2. PICK f : Turn(c, f) /\ f.pc \in {"idle", "proof"}
      BY <2>3, <3>1, OutcomeTurn
    <3> QED
      BY <2>1, <2>3, <3>2, CountTurn
  <2>4. CASE ids' = ids + 1 /\ Turn(c, Redialler(c))
    BY <2>1, <2>4, PartnersAre, CountTurn
  <2> QED
    BY <1>4, <2>2, <2>3, <2>4, HelloAnsweredWire DEF HelloOutcome
<1>5. ASSUME NEW r \in responses, ProofAnswered(c, r) PROVE CountInv'
  <2>1. /\ call[c].addr \in Addrs /\ call[c] \in Calls /\ call[c].pc = "proof"
        /\ calls' = calls /\ ids' = ids
    BY <1>5 DEF ProofAnswered, IInv, Typed
  <2>2. CASE DropOutcome(c, r.id) \/ Turn(c, Idle)
    BY <2>1, <2>2, IdleIs, PartnersAre, CountTurn DEF DropOutcome
  <2>3. CASE Outcome(c, call[c], "ask", r.id)
    <3>1. PICK f : Turn(c, f) /\ f.pc \in {"idle", "asked"}
      BY <2>1, <2>3, OutcomeTurn
    <3> QED
      BY <2>1, <3>1, CountTurn
  <2> QED
    BY <1>5, <2>2, <2>3, ProofAnsweredWire DEF ProofOutcome
<1> QED
  BY <1>1, <1>2, <1>3, <1>4, <1>5 DEF Ends

LEMMA CountBegins ==
    ASSUME IInv, WireInv, CountInv, NEW c \in Callers, NEW a \in Addrs,
           CallUnknown(c, a) \/ CallKnown(c, a) \/ DisconnectAll(c, a)
    PROVE  CountInv'
<1>1. CASE CallUnknown(c, a)
  <2>1. Turn(c, Dialler(a)) /\ Dialler(a).pc = "dial"
    BY <1>1, CallUnknownWire, BeginnersAre
  <2> QED
    BY <1>1, <2>1, CountTurn DEF CallUnknown, Begins
<1>2. CASE CallKnown(c, a)
  <2>1. Asker(a) \in Calls /\ Outcome(c, Asker(a), "ask", result[c])
    BY <1>2, CallKnownWire, BeginnersAre
  <2>2. PICK f : Turn(c, f) /\ f.pc \in {"idle", "asked"}
    BY <2>1, OutcomeTurn
  <2> QED
    BY <1>2, <2>2, CountTurn DEF CallKnown, Begins
<1>3. CASE DisconnectAll(c, a)
  <2>1. Turn(c, Leaver(a)) /\ Leaver(a).pc = "leaving"
    BY <1>3, DisconnectAllWire
  <2> QED
    BY <1>3, <2>1, CountTurn DEF DisconnectAll
<1> QED
  BY <1>1, <1>2, <1>3

LEMMA CountFar ==
    ASSUME CountInv,
           \/ UNCHANGED vars
           \/ \E a \in Addrs : Broadcast(a)
           \/ \E k \in DOMAIN conns : Listens(k) \/ Handle(k) \/ ServerEnds(k) \/ Lose(k)
    PROVE  CountInv'
<1>1. calls' = calls /\ ids' = ids
  BY DEF vars, callVars, Broadcast, Listens, Receive, NoticeEnd, CloseEnds, Handle, ServerEnds, Lose
<1>2. \/ call' = call
      \/ \A c \in Callers : \/ call'[c] = call[c]
                            \/ call'[c] = Idle /\ call[c].pc \in {"dropping", "leaving"}
  <2>1. UNCHANGED vars => call' = call
    BY DEF vars, callVars
  <2>2. (\E a \in Addrs : Broadcast(a)) => call' = call
    BY DEF callVars, Broadcast
  <2>3. ASSUME NEW k \in DOMAIN conns, Listens(k) PROVE call' = call \/ CloseEnds(k)
    BY <2>3 DEF callVars, Listens, Receive, NoticeEnd
  <2>4. ASSUME NEW k \in DOMAIN conns, CloseEnds(k)
        PROVE  \/ call' = call
               \/ \A c \in Callers : \/ call'[c] = call[c]
                                     \/ call'[c] = Idle /\ call[c].pc \in {"dropping", "leaving"}
    BY <2>4 DEF CloseEnds
  <2>5. ASSUME NEW k \in DOMAIN conns, Handle(k) \/ ServerEnds(k) \/ Lose(k) PROVE call' = call
    BY <2>5 DEF callVars, Handle, ServerEnds, Lose
  <2> QED
    BY <2>1, <2>2, <2>3, <2>4, <2>5
<1> QED
  BY <1>1, <1>2, IdleIs, CountSame

THEOREM NextCount == IInv /\ WireInv /\ CountInv /\ [Next]_vars => CountInv'
<1> SUFFICES ASSUME IInv, WireInv, CountInv, [Next]_vars PROVE CountInv'
  OBVIOUS
<1>1. ASSUME NEW c \in Callers, NEW a \in Addrs,
             CallUnknown(c, a) \/ CallKnown(c, a) \/ DisconnectAll(c, a)
      PROVE  CountInv'
  BY <1>1, CountBegins
<1>2. ASSUME NEW c \in Callers, Ends(c) PROVE CountInv'
  BY <1>2, CountCaller
<1>3. ASSUME NEW k \in DOMAIN conns,
             Listens(k) \/ Handle(k) \/ ServerEnds(k) \/ Lose(k)
      PROVE  CountInv'
  BY <1>3, CountFar
<1>4. ASSUME NEW a \in Addrs, Broadcast(a) PROVE CountInv'
  BY <1>4, CountFar
<1>5. CASE UNCHANGED vars
  BY <1>5, CountFar
<1> QED
  BY <1>1, <1>2, <1>3, <1>4, <1>5 DEF Next

THEOREM InitCount == Init => CountInv
<1> SUFFICES ASSUME Init PROVE CountInv
  OBVIOUS
<1>1. Doing("dial", call) = {} /\ Doing("hello", call) = {}
  BY IdleIs DEF Init, Doing
<1>2. Cardinality(Doing("dial", call)) = 0 /\ Cardinality(Doing("hello", call)) = 0
  BY <1>1, FS_EmptySet
<1>3. ids = 0 /\ calls = 0
  BY DEF Init
<1> QED
  BY <1>2, <1>3 DEF CountInv

-----------------------------------------------------------------------------
(* The steps of RequestReply that the steps of the client take             *)

asking == [c \in Callers |-> IF Waited(c) = {} THEN None ELSE CHOOSE i \in Waited(c) : TRUE]

AskingBy(f) == IF WaitedBy(f) = {} THEN None ELSE CHOOSE i \in WaitedBy(f) : TRUE

LEMMA AskingIs ==
    /\ asking = [c \in Callers |-> AskingBy(call[c])]
    /\ asking' = [c \in Callers |-> AskingBy(call'[c])]
<1>1. \A c \in Callers : Waited(c)' = WaitedBy(call'[c])
  <2> TAKE c \in Callers
  <2>1. CASE call'[c].pc = "asked"
    BY <2>1 DEF Waited, WaitedBy
  <2>2. CASE call'[c].pc \in {"hello", "proof"}
    BY <2>2 DEF Waited, WaitedBy
  <2>3. CASE call'[c].pc \notin {"asked", "hello", "proof"}
    BY <2>3 DEF Waited, WaitedBy
  <2> QED
    BY <2>1, <2>2, <2>3
<1>2. \A c \in Callers : asking[c] = AskingBy(call[c])
  <2> TAKE c \in Callers
  <2>1. Waited(c) = WaitedBy(call[c])
    BY WaitedIs
  <2> QED
    BY <2>1 DEF asking, AskingBy
<1>3. \A c \in Callers : asking'[c] = AskingBy(call'[c])
  <2> TAKE c \in Callers
  <2>1. Waited(c)' = WaitedBy(call'[c])
    BY <1>1
  <2>2. asking'[c] = IF Waited(c)' = {} THEN None ELSE CHOOSE i \in Waited(c)' : TRUE
    BY DEF asking
  <2> QED
    BY <2>1, <2>2 DEF AskingBy
<1>4. asking = [c \in Callers |-> asking[c]] /\ asking' = [c \in Callers |-> asking'[c]]
  BY DEF asking
<1> QED
  BY <1>2, <1>3, <1>4

LEMMA AskingOne ==
    ASSUME NEW f, IsNamed(f)
    PROVE  \/ AskingBy(f) = None /\ WaitedBy(f) = {}
           \/ AskingBy(f) # None /\ WaitedBy(f) = {AskingBy(f)}
<1>1. CASE f.pc = "asked"
  <2>1. WaitedBy(f) = {f.id} /\ f.id # None
    BY <1>1 DEF WaitedBy, IsNamed
  <2> QED
    BY <2>1 DEF AskingBy
<1>2. CASE f.pc \in {"hello", "proof"}
  <2>1. WaitedBy(f) = {f.sub} /\ f.sub # None
    BY <1>2 DEF WaitedBy, IsNamed
  <2> QED
    BY <2>1 DEF AskingBy
<1>3. CASE f.pc \notin {"asked", "hello", "proof"}
  BY <1>3 DEF WaitedBy, AskingBy
<1> QED
  BY <1>1, <1>2, <1>3

AllInv == IInv /\ WireInv /\ IdsInv /\ CountInv

LEMMA ThreeEach ==
    ASSUME NEW i \in Nat, NEW n \in Nat, NEW m \in Nat, NEW k \in Nat, NEW max \in Nat,
           i + 2 * n + m <= 3 * k, k <= max
    PROVE  1..i \subseteq 1..(3 * max)
OBVIOUS

(* A caller goes on to f, and its last request returns v.                  *)
LEMMA TurnPromise ==
    ASSUME AllInv, AllInv', NEW c \in Callers, NEW f, Turn(c, f),
           answered' = answered \ WaitedBy(call[c]),
           WaitedBy(f) \cap WaitedBy(call[c]) = {},
           NEW v, result' = [result EXCEPT ![c] = v],
           \/ v = None /\ (WaitedBy(call[c]) = {} => WaitedBy(f) = {})
           \/ WaitedBy(call[c]) = {v} /\ v \in answered
           \/ WaitedBy(call[c]) = {} /\ v = result[c]
    PROVE  [Abstract!Next]_(Abstract!vars)
<1> DEFINE i == AskingBy(call[c])
           j == AskingBy(f)
<1>1. call'[c] = f /\ \A d \in Callers : d # c => call'[d] = call[d]
  BY TurnIs DEF AllInv
<1>2. IsNamed(call[c]) /\ IsNamed(f)
  BY <1>1 DEF AllInv, IdsInv
<1>3. \/ i = None /\ WaitedBy(call[c]) = {}
      \/ i # None /\ WaitedBy(call[c]) = {i}
  BY <1>2, AskingOne
<1>4. \/ j = None /\ WaitedBy(f) = {}
      \/ j # None /\ WaitedBy(f) = {j}
  BY <1>2, AskingOne
<1> HIDE DEF i, j
<1>5. asking[c] = i /\ asking' = [asking EXCEPT ![c] = j]
  BY <1>1, AskingIs DEF i, j
<1>6. j # None => /\ j \in 1..(3 * MaxCalls)
                  /\ \A d \in Callers : asking[d] # j
  <2> SUFFICES ASSUME j # None
               PROVE  j \in 1..(3 * MaxCalls) /\ \A d \in Callers : asking[d] # j
    OBVIOUS
  <2>1. j \in HeldBy(call'[c])
    BY <1>1, <1>2, <1>4, WaitedIsHeld
  <2>2. j \in 1..ids'
    BY <2>1 DEF AllInv, IdsInv
  <2>3. 1..ids' \subseteq 1..(3 * MaxCalls)
    <3>1. PICK n \in Nat : n = Cardinality(Doing("dial", call'))
      BY DoingIs
    <3>2. PICK m \in Nat : m = Cardinality(Doing("hello", call'))
      BY DoingIs
    <3>3. ids' + 2 * n + m <= 3 * calls'
      BY <3>1, <3>2 DEF AllInv, CountInv
    <3>4. ids' \in Nat /\ calls' \in 0..MaxCalls /\ MaxCalls \in Nat
      BY BoundsAreNumbers DEF AllInv, IInv, Typed, WireInv, Small
    <3>5. calls' \in Nat /\ calls' <= MaxCalls
      BY <3>4
    <3> QED
      BY <3>3, <3>4, <3>5, ThreeEach
  <2>4. ASSUME NEW d \in Callers PROVE asking[d] # j
    <3>1. CASE d = c
      BY <1>3, <1>4, <1>5, <3>1
    <3>2. CASE d # c
      <4>1. IsNamed(call[d]) /\ call'[d] = call[d]
        BY <1>1, <3>2 DEF AllInv, IdsInv
      <4>2. asking[d] = AskingBy(call[d])
        BY AskingIs
      <4>3. AskingBy(call[d]) # None => AskingBy(call[d]) \in HeldBy(call'[d])
        BY <4>1, AskingOne, WaitedIsHeld
      <4>4. HeldBy(call'[c]) \cap HeldBy(call'[d]) = {}
        BY <3>2 DEF AllInv, IdsInv
      <4> QED
        BY <2>1, <4>2, <4>3, <4>4
    <3> QED
      BY <3>1, <3>2
  <2> QED
    BY <2>2, <2>3, <2>4
<1>7. result \in [Callers -> Nat]
  BY DEF AllInv, WireInv, Small
<1>8. asking \in [Callers -> {AskingBy(call[d]) : d \in Callers}]
  BY AskingIs
<1>9. CASE i # None
  <2>1. answered' = answered \ {i}
    BY <1>3, <1>9
  <2>2. v = None \/ (v = i /\ i \in answered)
    BY <1>3, <1>9
  <2>3. j \in 1..(3 * MaxCalls) \cup {None} /\ \A d \in Callers : asking[d] # j \/ j = None
    BY <1>6
  <2>4. Abstract!Return(c)
    BY <1>5, <1>9, <2>1, <2>2, <2>3 DEF Abstract!Return, asking
  <2> QED
    BY <2>4 DEF Abstract!Next
<1>10. CASE i = None
  <2>1. answered' = answered /\ WaitedBy(call[c]) = {}
    BY <1>3, <1>10
  <2>2. CASE j # None
    <3>1. result' = result
      BY <1>4, <1>7, <2>1, <2>2
    <3>2. Abstract!Ask(c, j)
      BY <1>5, <1>6, <1>10, <2>1, <2>2, <3>1 DEF Abstract!Ask, asking
    <3> QED
      BY <1>6, <2>2, <3>2 DEF Abstract!Next
  <2>3. CASE j = None
    <3>1. asking' = asking
      BY <1>5, <1>8, <1>10, <2>3
    <3>2. CASE v = None
      <4>1. Abstract!Refuse(c)
        BY <1>5, <1>10, <2>1, <3>1, <3>2 DEF Abstract!Refuse, asking
      <4> QED
        BY <4>1 DEF Abstract!Next
    <3>3. CASE v = result[c]
      <4>1. result' = result
        BY <1>7, <3>3
      <4> QED
        BY <2>1, <3>1, <4>1 DEF Abstract!vars, asking
    <3> QED
      BY <2>1, <3>2, <3>3
  <2> QED
    BY <2>2, <2>3
<1> QED
  BY <1>9, <1>10

(* Who picks up a response takes the answer to what it waits for.          *)
LEMMA HasIs ==
    ASSUME AllInv, NEW c \in Callers, NEW r \in responses, Has(c, r)
    PROVE  WaitedBy(call[c]) = {r.id} /\ r.id \in answered
<1>1. r.id \in WaitedBy(call[c])
  BY WaitedIs DEF Has
<1>2. WaitedBy(call[c]) = {AskingBy(call[c])}
  BY <1>1, AskingOne DEF AllInv, IdsInv
<1>3. r.id \in Answers
  BY DEF Answers, Received
<1> QED
  BY <1>1, <1>2, <1>3 DEF AllInv, IdsInv

LEMMA OutcomePromise ==
    ASSUME AllInv, AllInv', NEW c \in Callers, NEW g \in Calls,
           NEW kind \in {"ask", "hello", "proof"}, NEW v, Outcome(c, g, kind, v),
           answered' = answered \ WaitedBy(call[c]),
           Sent(g, kind) \notin WaitedBy(call[c]),
           \/ WaitedBy(call[c]) = {v} /\ v \in answered
           \/ WaitedBy(call[c]) = {} /\ v = result[c]
    PROVE  [Abstract!Next]_(Abstract!vars)
<1>1. CASE Turn(c, Wrote(g, kind)) /\ result' = [result EXCEPT ![c] = v]
  <2> DEFINE f == Wrote(g, kind)
  <2>1. f.pc = (IF kind = "ask" THEN "asked" ELSE kind) /\ f.id = g.id /\ f.sub = g.sub
    BY WroteIs
  <2>2. Turn(c, f)
    BY <1>1
  <2> HIDE DEF f
  <2>3. WaitedBy(f) = {Sent(g, kind)}
    <3>1. CASE kind = "ask"
      BY <2>1, <3>1 DEF WaitedBy, Sent
    <3>2. CASE kind \in {"hello", "proof"}
      BY <2>1, <3>2 DEF WaitedBy, Sent
    <3> QED
      BY <3>1, <3>2
  <2>4. WaitedBy(f) \cap WaitedBy(call[c]) = {}
    BY <2>3
  <2> QED
    BY <1>1, <2>2, <2>4, TurnPromise
<1>2. CASE Turn(c, Idle) /\ result' = [result EXCEPT ![c] = None]
  <2>1. WaitedBy(Idle) = {}
    BY IdleIs, WaitsForNothing
  <2> QED
    BY <1>2, <2>1, TurnPromise
<1> QED
  BY <1>1, <1>2 DEF Outcome

LEMMA DropPromise ==
    ASSUME AllInv, AllInv', NEW c \in Callers, call[c].addr \in Addrs, NEW v, DropOutcome(c, v),
           answered' = answered \ WaitedBy(call[c]), WaitedBy(call[c]) = {v}, v \in answered
    PROVE  [Abstract!Next]_(Abstract!vars)
<1>1. CASE Turn(c, Idle) /\ result' = [result EXCEPT ![c] = None]
  <2>1. WaitedBy(Idle) = {}
    BY IdleIs, WaitsForNothing
  <2> QED
    BY <1>1, <2>1, TurnPromise
<1>2. CASE Turn(c, Dropper(c)) /\ result' = [result EXCEPT ![c] = v]
  <2>1. WaitedBy(Dropper(c)) = {}
    BY PartnersAre, WaitsForNothing DEF AllInv
  <2> QED
    BY <1>2, <2>1, TurnPromise
<1> QED
  BY <1>1, <1>2 DEF DropOutcome

LEMMA BeginsPromise ==
    ASSUME AllInv, AllInv', NEW c \in Callers, NEW a \in Addrs,
           CallUnknown(c, a) \/ CallKnown(c, a) \/ DisconnectAll(c, a)
    PROVE  [Abstract!Next]_(Abstract!vars)
<1>1. call[c].pc = "idle" /\ answered' = answered
  BY DEF CallUnknown, CallKnown, DisconnectAll, Begins
<1>2. WaitedBy(call[c]) = {} /\ answered' = answered \ WaitedBy(call[c])
  BY <1>1, WaitsForNothing
<1>3. result \in [Callers -> Nat] /\ result = [result EXCEPT ![c] = result[c]]
  BY DEF AllInv, WireInv, Small
<1>4. ASSUME NEW f, Turn(c, f), f.pc \in {"dial", "leaving"}, result' = result
      PROVE  [Abstract!Next]_(Abstract!vars)
  <2>1. WaitedBy(f) = {}
    BY <1>4, WaitsForNothing
  <2> QED
    BY <1>2, <1>3, <1>4, <2>1, TurnPromise
<1>5. CASE CallUnknown(c, a)
  <2>1. Turn(c, Dialler(a)) /\ Dialler(a).pc = "dial"
    BY <1>5, CallUnknownWire, BeginnersAre DEF AllInv
  <2>2. result' = result
    BY <1>5 DEF CallUnknown
  <2> QED
    BY <1>4, <2>1, <2>2
<1>6. CASE DisconnectAll(c, a)
  <2>1. Turn(c, Leaver(a)) /\ Leaver(a).pc = "leaving"
    BY <1>6, DisconnectAllWire DEF AllInv
  <2>2. result' = result
    BY <1>6 DEF DisconnectAll
  <2> QED
    BY <1>4, <2>1, <2>2
<1>7. CASE CallKnown(c, a)
  <2>1. Outcome(c, Asker(a), "ask", result[c]) /\ Asker(a) \in Calls
    BY <1>7, CallKnownWire, BeginnersAre DEF AllInv
  <2> QED
    BY <1>2, <2>1, OutcomePromise
<1> QED
  BY <1>5, <1>6, <1>7

LEMMA DialPromise ==
    ASSUME AllInv, AllInv', NEW c \in Callers,
           DialSucceeds(c) \/ DialFails(c) \/ RedialSucceeds(c) \/ RedialFails(c)
    PROVE  [Abstract!Next]_(Abstract!vars)
<1>1. call[c].pc \in {"dial", "redial"} /\ answered' = answered
  BY DEF DialSucceeds, DialFails, RedialSucceeds, RedialFails
<1>2. WaitedBy(call[c]) = {} /\ answered' = answered \ WaitedBy(call[c])
  BY <1>1, WaitsForNothing
<1>3. call[c] \in Calls /\ call[c].addr \in Addrs
  BY <1>1 DEF AllInv, IInv, Typed
<1>4. \/ Outcome(c, Greeter(c), "hello", result[c])
      \/ Outcome(c, call[c], "ask", result[c])
      \/ Outcome(c, call[c], "proof", result[c])
  BY DialSucceedsWire, DialFailsWire, RedialSucceedsWire DEF AllInv
<1>5. Greeter(c) \in Calls
  BY <1>3, PartnersAre DEF AllInv
<1> QED
  BY <1>2, <1>3, <1>4, <1>5, OutcomePromise

LEMMA EndedPromise ==
    ASSUME AllInv, AllInv', NEW c \in Callers,
           TimesOut(c) \/ \E r \in responses : Answered(c, r)
    PROVE  [Abstract!Next]_(Abstract!vars)
<1>1. answered' = answered \ WaitedBy(call[c])
  BY WaitedIs DEF TimesOut, Answered
<1>2. WaitedBy(Idle) = {}
  BY IdleIs, WaitsForNothing
<1>3. CASE TimesOut(c)
  <2>1. Turn(c, Idle) /\ result' = [result EXCEPT ![c] = None]
    BY <1>3, EndedWire DEF AllInv
  <2> QED
    BY <1>1, <1>2, <2>1, TurnPromise
<1>4. ASSUME NEW r \in responses, Answered(c, r) PROVE [Abstract!Next]_(Abstract!vars)
  <2>1. Turn(c, Idle) /\ result' = [result EXCEPT ![c] = r.id]
    BY <1>4, EndedWire DEF AllInv
  <2>2. WaitedBy(call[c]) = {r.id} /\ r.id \in answered
    BY <1>4, HasIs DEF Answered
  <2> QED
    BY <1>1, <1>2, <2>1, <2>2, TurnPromise
<1> QED
  BY <1>3, <1>4

LEMMA HelloAnsweredPromise ==
    ASSUME AllInv, AllInv', NEW c \in Callers, NEW r \in responses, HelloAnswered(c, r)
    PROVE  [Abstract!Next]_(Abstract!vars)
<1>1. answered' = answered \ WaitedBy(call[c]) /\ WaitedBy(call[c]) = {r.id} /\ r.id \in answered
  BY WaitedIs, HasIs DEF HelloAnswered
<1>2. call[c].addr \in Addrs
  BY DEF HelloAnswered, AllInv, IInv, Typed
<1>3. CASE DropOutcome(c, r.id)
  BY <1>1, <1>2, <1>3, DropPromise
<1>4. CASE Outcome(c, Prover(c), "proof", r.id)
  <2>1. Prover(c) \in Calls /\ Prover(c).sub = ids + 1
    BY <1>2, PartnersAre DEF AllInv
  <2>2. Sent(Prover(c), "proof") = ids + 1
    BY <2>1 DEF Sent
  <2>3. ids + 1 \notin WaitedBy(call[c])
    BY NewIs, WaitedIsHeld DEF AllInv, IdsInv
  <2> QED
    BY <1>1, <1>4, <2>1, <2>2, <2>3, OutcomePromise
<1>5. CASE Turn(c, Redialler(c)) /\ result' = [result EXCEPT ![c] = r.id]
  <2>1. WaitedBy(Redialler(c)) = {}
    BY <1>2, PartnersAre, WaitsForNothing DEF AllInv
  <2> QED
    BY <1>1, <1>5, <2>1, TurnPromise
<1> QED
  BY <1>3, <1>4, <1>5, HelloAnsweredWire DEF HelloOutcome, AllInv

LEMMA ProofAnsweredPromise ==
    ASSUME AllInv, AllInv', NEW c \in Callers, NEW r \in responses, ProofAnswered(c, r)
    PROVE  [Abstract!Next]_(Abstract!vars)
<1>1. answered' = answered \ WaitedBy(call[c]) /\ WaitedBy(call[c]) = {r.id} /\ r.id \in answered
  BY WaitedIs, HasIs DEF ProofAnswered
<1>2. call[c].addr \in Addrs /\ call[c] \in Calls /\ call[c].pc = "proof"
  BY DEF ProofAnswered, AllInv, IInv, Typed
<1>3. CASE DropOutcome(c, r.id)
  BY <1>1, <1>2, <1>3, DropPromise
<1>4. CASE Turn(c, Idle) /\ result' = [result EXCEPT ![c] = None]
  <2>1. WaitedBy(Idle) = {}
    BY IdleIs, WaitsForNothing
  <2> QED
    BY <1>1, <1>4, <2>1, TurnPromise
<1>5. CASE Outcome(c, call[c], "ask", r.id)
  <2>1. WaitedBy(call[c]) = {call[c].sub} /\ call[c].sub # call[c].id
    BY <1>2 DEF WaitedBy, AllInv, IdsInv, IsNamed
  <2>2. Sent(call[c], "ask") \notin WaitedBy(call[c])
    BY <2>1 DEF Sent
  <2> QED
    BY <1>1, <1>2, <1>5, <2>2, OutcomePromise
<1> QED
  BY <1>3, <1>4, <1>5, ProofAnsweredWire DEF ProofOutcome, AllInv

(* A server answers a request: those who wait for it are served.           *)
LEMMA HandlePromise ==
    ASSUME AllInv, NEW k \in DOMAIN conns, Handle(k)
    PROVE  [Abstract!Next]_(Abstract!vars)
<1>1. call' = call /\ result' = result
  BY DEF Handle, callVars
<1>2. asking' = asking
  BY <1>1, AskingIs
<1>3. CASE answered' = answered
  BY <1>1, <1>2, <1>3 DEF Abstract!vars, asking
<1>4. ASSUME NEW id, answered' = answered \cup ({id} \cap UNION {Waited(c) : c \in Callers})
      PROVE  [Abstract!Next]_(Abstract!vars)
  <2> DEFINE some == {c \in Callers : id \in WaitedBy(call[c])}
  <2>1. ASSUME NEW c \in some PROVE asking[c] = id /\ asking[c] # None
    <3>1. IsNamed(call[c]) /\ id \in WaitedBy(call[c]) /\ asking[c] = AskingBy(call[c])
      BY AskingIs DEF AllInv, IdsInv
    <3> QED
      BY <3>1, AskingOne
  <2>2. {id} \cap UNION {Waited(c) : c \in Callers} = {asking[c] : c \in some}
    <3>1. UNION {Waited(c) : c \in Callers} = UNION {WaitedBy(call[c]) : c \in Callers}
      BY WaitedIs
    <3>2. some = {} => {asking[c] : c \in some} = {}
      OBVIOUS
    <3>3. some # {} => {asking[c] : c \in some} = {id}
      BY <2>1
    <3>4. some = {} <=> id \notin UNION {WaitedBy(call[c]) : c \in Callers}
      OBVIOUS
    <3> HIDE DEF some
    <3> QED
      BY <3>1, <3>2, <3>3, <3>4
  <2>3. some \in SUBSET Callers
    OBVIOUS
  <2> HIDE DEF some
  <2>4. answered' = answered \cup {asking[c] : c \in some}
    BY <1>4, <2>2
  <2>5. Abstract!Serve(some)
    BY <1>1, <1>2, <2>1, <2>4 DEF Abstract!Serve, asking
  <2> QED
    BY <2>3, <2>5 DEF Abstract!Next
<1> QED
  BY <1>3, <1>4, HandleMoved DEF AllInv, WireInv, Traffic

(* What the network does, and the closing of a connection, show nothing.   *)
LEMMA FarPromise ==
    ASSUME AllInv,
           \/ UNCHANGED vars
           \/ \E a \in Addrs : Broadcast(a)
           \/ \E k \in DOMAIN conns : Listens(k) \/ ServerEnds(k) \/ Lose(k)
    PROVE  [Abstract!Next]_(Abstract!vars)
<1>1. answered' = answered /\ result' = result
  BY DEF vars, callVars, Broadcast, Listens, Receive, NoticeEnd, CloseEnds, ServerEnds, Lose
<1>2. \/ call' = call
      \/ \A c \in Callers : \/ call'[c] = call[c]
                            \/ call'[c] = Idle /\ call[c].pc \in {"dropping", "leaving"}
  BY DEF vars, callVars, Broadcast, Listens, Receive, NoticeEnd, CloseEnds, ServerEnds, Lose
<1>3. ASSUME NEW c \in Callers PROVE AskingBy(call'[c]) = AskingBy(call[c])
  <2>1. CASE call'[c] = Idle /\ call[c].pc \in {"dropping", "leaving"}
    <3>1. WaitedBy(call[c]) = {} /\ WaitedBy(call'[c]) = {}
      BY <2>1, IdleIs, WaitsForNothing
    <3> QED
      BY <3>1 DEF AskingBy
  <2> QED
    BY <1>2, <2>1
<1>4. asking' = asking
  BY <1>3, AskingIs
<1> QED
  BY <1>1, <1>4 DEF Abstract!vars, asking

LEMMA NextPromise == AllInv /\ AllInv' /\ [Next]_vars => [Abstract!Next]_(Abstract!vars)
<1> SUFFICES ASSUME AllInv, AllInv', [Next]_vars PROVE [Abstract!Next]_(Abstract!vars)
  OBVIOUS
<1>1. ASSUME NEW c \in Callers, NEW a \in Addrs,
             CallUnknown(c, a) \/ CallKnown(c, a) \/ DisconnectAll(c, a)
      PROVE  [Abstract!Next]_(Abstract!vars)
  BY <1>1, BeginsPromise
<1>2. ASSUME NEW c \in Callers, Ends(c) PROVE [Abstract!Next]_(Abstract!vars)
  BY <1>2, DialPromise, EndedPromise, HelloAnsweredPromise, ProofAnsweredPromise DEF Ends
<1>3. ASSUME NEW k \in DOMAIN conns, Handle(k) PROVE [Abstract!Next]_(Abstract!vars)
  BY <1>3, HandlePromise
<1>4. ASSUME NEW k \in DOMAIN conns, Listens(k) \/ ServerEnds(k) \/ Lose(k)
      PROVE  [Abstract!Next]_(Abstract!vars)
  BY <1>4, FarPromise
<1>5. ASSUME NEW a \in Addrs, Broadcast(a) PROVE [Abstract!Next]_(Abstract!vars)
  BY <1>5, FarPromise
<1>6. CASE UNCHANGED vars
  BY <1>6, FarPromise
<1> QED
  BY <1>1, <1>2, <1>3, <1>4, <1>5, <1>6 DEF Next

LEMMA InitPromise == Init => Abstract!Init
<1> SUFFICES ASSUME Init PROVE Abstract!Init
  OBVIOUS
<1>1. \A c \in Callers : AskingBy(call[c]) = None
  BY IdleIs, WaitsForNothing DEF Init, AskingBy
<1>2. asking = [c \in Callers |-> None]
  BY <1>1, AskingIs
<1> QED
  BY <1>2 DEF Init, Abstract!Init, asking

(* A request returns once, with the answer to this very request or with    *)
(* None, for any number of callers, servers, connections and faults, and   *)
(* whoever dials whom: the client implements RequestReply (client.py,      *)
(* send, listenForResponse and cleanUpResponses).                          *)
THEOREM AnswersOwnAlways == Spec => AnswersOwn
<1>1. Init => AllInv
  BY InitIInv, InitWire, InitIds, InitCount DEF AllInv
<1>2. AllInv /\ [Next]_vars => AllInv'
  BY NextIInv, NextWire, NextIds, NextCount DEF AllInv
<1> QED
  BY <1>1, <1>2, InitPromise, NextPromise, PTL DEF Spec, AnswersOwn, Abstract!Spec

-----------------------------------------------------------------------------
(* Rows: those in a queue, and behind them those on their way on the one   *)
(* live connection with the server.                                        *)

Risen(q, n) ==
    \A x \in DOMAIN q : q[x] <= n /\ \A y \in DOMAIN q : x < y => q[x] < q[y]

RowsInv ==
    ~ raced =>
      /\ \A k \in DOMAIN conns :
            Orderly(conns[k].down, queued[conns[k].addr], rows[conns[k].addr])
      /\ \A a \in Addrs : Risen(queued[a], rows[a])

(* What the callers do to the connections, of which there may be one more. *)
Reaches(cs) ==
    /\ cs \in {conns} \cup {Append(conns, Connection(a)) : a \in Addrs}
    /\ \E W : Moved(cs, conns', W, {})

LEMMA ReachedBegin ==
    ASSUME IInv, WireInv, NEW c \in Callers, NEW a \in Addrs,
           CallUnknown(c, a) \/ CallKnown(c, a) \/ DisconnectAll(c, a)
    PROVE  Reaches(conns)
<1>1. conns \in Seq(Wires) /\ Moved(conns, conns, {}, {})
  BY MovedSelf DEF WireInv, Traffic
<1>2. CASE CallUnknown(c, a)
  BY <1>1, <1>2 DEF CallUnknown, Reaches
<1>3. CASE DisconnectAll(c, a)
  <2>1. peers[a] \in DOMAIN conns /\ conns' = Closing(conns, peers[a])
    BY <1>3 DEF DisconnectAll, WireInv, Table
  <2>2. Moved(conns, conns', {}, {})
    BY <1>1, <2>1, ClosingMoved
  <2> QED
    BY <2>2 DEF Reaches
<1>4. CASE CallKnown(c, a)
  <2>1. Write(c, Asker(a), "ask", conns, peers, result[c])
    BY <1>4 DEF CallKnown, Asker
  <2>2. Asker(a) \in Calls /\ Asker(a).addr = a
    BY BeginnersAre
  <2>3. peers[Asker(a).addr] # None => peers[Asker(a).addr] \in DOMAIN conns
    BY <2>2 DEF WireInv, Table
  <2>4. WriteDoes(c, Asker(a), "ask", conns, peers, result[c])
    BY <1>1, <2>1, <2>2, <2>3, WriteEffect
  <2> QED
    BY <2>4 DEF WriteDoes, Reaches
<1> QED
  BY <1>2, <1>3, <1>4

LEMMA ReachedDial ==
    ASSUME IInv, WireInv, NEW c \in Callers,
           DialSucceeds(c) \/ DialFails(c) \/ RedialSucceeds(c) \/ RedialFails(c)
    PROVE  \E cs : Reaches(cs)
<1>1. call[c] \in Calls /\ call[c].addr \in Addrs
  BY DEF DialSucceeds, DialFails, RedialSucceeds, RedialFails, IInv, Typed
<1>2. CASE DialSucceeds(c) \/ RedialSucceeds(c)
  <2> DEFINE cs == Append(conns, Connection(call[c].addr))
  <2>1. \E kind \in {"hello", "proof"}, id, chal \in Nat :
           conns' = Written(cs, Len(conns) + 1, kind, id, chal)
    <3>1. CASE DialSucceeds(c)
      <4>1. conns' = Written(cs, Len(conns) + 1, "hello", ids + 1, Greeter(c).chal)
        BY <3>1, DialSucceedsWire
      <4>2. Greeter(c) \in Calls /\ ids + 1 \in Nat
        BY <1>1, PartnersAre DEF IInv, Typed
      <4>3. Greeter(c).chal \in Nat
        BY <4>2 DEF Calls
      <4> QED
        BY <4>1, <4>2, <4>3
    <3>2. CASE RedialSucceeds(c)
      <4>1. conns' = Written(cs, Len(conns) + 1, "proof", call[c].sub, call[c].chal)
        BY <3>2, RedialSucceedsWire
      <4>2. call[c].sub \in Nat /\ call[c].chal \in Nat
        BY <1>1 DEF Calls
      <4> QED
        BY <4>1, <4>2
    <3> QED
      BY <1>2, <3>1, <3>2
  <2>2. PICK kind \in {"hello", "proof"}, id, chal \in Nat :
           conns' = Written(cs, Len(conns) + 1, kind, id, chal)
    BY <2>1
  <2>3. cs \in Seq(Wires) /\ Len(conns) + 1 \in DOMAIN cs
    <3>1. conns \in Seq(Wires) /\ Len(conns) \in Nat
      BY Lengths DEF WireInv, Traffic
    <3> QED
      BY <1>1, <3>1, ConnectionAdded
  <2>4. cs \in {Append(conns, Connection(a)) : a \in Addrs}
    BY <1>1
  <2> HIDE DEF cs
  <2>5. Moved(cs, Written(cs, Len(conns) + 1, kind, id, chal), {id}, {})
    BY <2>3, WrittenMoved
  <2> QED
    BY <2>2, <2>4, <2>5 DEF Reaches
<1>3. CASE DialFails(c) \/ RedialFails(c)
  <2>1. PICK kind \in {"ask", "proof"} : Write(c, call[c], kind, conns, peers, result[c])
    BY <1>3 DEF DialFails, RedialFails
  <2>2. conns \in Seq(Wires)
        /\ (peers[call[c].addr] # None => peers[call[c].addr] \in DOMAIN conns)
    BY <1>1 DEF WireInv, Traffic, Table
  <2>3. WriteDoes(c, call[c], kind, conns, peers, result[c])
    BY <1>1, <2>1, <2>2, WriteEffect
  <2> QED
    BY <2>3 DEF WriteDoes, Reaches
<1> QED
  BY <1>2, <1>3

LEMMA ReachedAnswer ==
    ASSUME IInv, WireInv, NEW c \in Callers,
           \/ TimesOut(c)
           \/ \E r \in responses : Answered(c, r) \/ HelloAnswered(c, r) \/ ProofAnswered(c, r)
    PROVE  Reaches(conns)
<1>1. conns \in Seq(Wires) /\ Moved(conns, conns, {}, {})
  BY MovedSelf DEF WireInv, Traffic
<1>2. CASE conns' = conns
  BY <1>1, <1>2 DEF Reaches
<1>3. ASSUME NEW v, DropOutcome(c, v), call[c].addr \in Addrs PROVE Reaches(conns)
  <2>1. CASE peers[call[c].addr] # None /\ conns' = Closing(conns, peers[call[c].addr])
    <3>1. peers[call[c].addr] \in DOMAIN conns
      BY <1>3, <2>1 DEF WireInv, Table
    <3>2. Moved(conns, conns', {}, {})
      BY <1>1, <2>1, <3>1, ClosingMoved
    <3> QED
      BY <3>2 DEF Reaches
  <2> QED
    BY <1>2, <1>3, <2>1 DEF DropOutcome
<1>4. CASE TimesOut(c) \/ \E r \in responses : Answered(c, r)
  BY <1>2, <1>4 DEF TimesOut, Answered
<1>5. ASSUME NEW r \in responses, HelloAnswered(c, r) PROVE Reaches(conns)
  <2>1. call[c].addr \in Addrs
    BY <1>5 DEF HelloAnswered, IInv, Typed
  <2>2. HelloOutcome(c, r)
    BY <1>5, HelloAnsweredWire
  <2>3. CASE WriteDoes(c, Prover(c), "proof", conns, peers, r.id)
    BY <2>3 DEF WriteDoes, Reaches
  <2> QED
    BY <1>2, <1>3, <2>1, <2>2, <2>3 DEF HelloOutcome
<1>6. ASSUME NEW r \in responses, ProofAnswered(c, r) PROVE Reaches(conns)
  <2>1. call[c].addr \in Addrs
    BY <1>6 DEF ProofAnswered, IInv, Typed
  <2>2. ProofOutcome(c, r)
    BY <1>6, ProofAnsweredWire
  <2>3. CASE WriteDoes(c, call[c], "ask", Trusted(call[c].peer), peers, r.id)
    <3>1. Moved(conns, Trusted(call[c].peer), {}, {})
      BY TrustedMoved
    <3>2. \E W : Moved(Trusted(call[c].peer), conns', W, {})
      BY <2>3 DEF WriteDoes
    <3>3. \E W : Moved(conns, conns', W, {})
      BY <3>1, <3>2, MovedTwice
    <3> QED
      BY <3>3 DEF Reaches
  <2> QED
    BY <1>2, <1>3, <2>1, <2>2, <2>3 DEF ProofOutcome
<1> QED
  BY <1>4, <1>5, <1>6

(* Nothing comes or goes.                                                  *)
LEMMA RowsStay ==
    ASSUME WireInv, RowsInv, raced => raced', UNCHANGED <<rows, queued>>,
           \/ \E cs : Reaches(cs)
           \/ \E A : Moved(conns, conns', {}, A)
    PROVE  RowsInv'
<1> SUFFICES ASSUME ~ raced' PROVE RowsInv'
  BY DEF RowsInv
<1>1. PICK cs, W, A : /\ Moved(cs, conns', W, A)
                      /\ cs \in {conns} \cup {Append(conns, Connection(a)) : a \in Addrs}
  BY DEF Reaches
<1>2. ASSUME NEW k \in DOMAIN cs
      PROVE  Orderly(cs[k].down, queued[cs[k].addr], rows[cs[k].addr])
  <2>1. CASE cs = conns
    BY <2>1, <1>2 DEF RowsInv
  <2>2. ASSUME NEW a \in Addrs, cs = Append(conns, Connection(a))
        PROVE  Orderly(cs[k].down, queued[cs[k].addr], rows[cs[k].addr])
    <3>1. PICK n \in Nat : n = Len(conns) /\ DOMAIN conns = 1..n
      BY Element DEF WireInv, Traffic
    <3>2. /\ DOMAIN cs = 1..(n + 1) /\ cs[n + 1] = Connection(a)
          /\ \A j \in DOMAIN conns : cs[j] = conns[j]
      BY <2>2, <3>1, ConnectionAdded DEF WireInv, Traffic
    <3>3. CASE k = n + 1
      <4>1. cs[k].down = <<>>
        BY <3>2, <3>3 DEF Connection
      <4> QED
        BY <4>1 DEF Orderly
    <3>4. CASE k # n + 1
      <4>1. k \in DOMAIN conns /\ cs[k] = conns[k]
        BY <1>2, <3>1, <3>2, <3>4
      <4> QED
        BY <4>1 DEF RowsInv
    <3> QED
      BY <3>3, <3>4
  <2> QED
    BY <1>1, <2>1, <2>2
<1>3. ASSUME NEW k \in DOMAIN conns'
      PROVE  Orderly(conns'[k].down, queued'[conns'[k].addr], rows'[conns'[k].addr])
  <2>1. k \in DOMAIN cs /\ Moves(cs[k], conns'[k], W, A)
    BY <1>1, <1>3 DEF Moved
  <2>2. Orderly(conns'[k].down, queued[cs[k].addr], rows[cs[k].addr])
    BY <1>2, <2>1 DEF Moves, StaysOrderly
  <2> QED
    BY SMTT(60), <2>1, <2>2 DEF Moves
<1> QED
  BY <1>3 DEF RowsInv

(* The first row on its way joins the queue.                               *)
LEMMA HeadJoins ==
    ASSUME NEW d \in Seq(Messages), d # <<>>, NEW q \in Seq(Nat), NEW n \in Nat,
           Head(d).kind = "row", Orderly(d, q, n), Risen(q, n)
    PROVE  Orderly(Tail(d), Append(q, Head(d).id), n) /\ Risen(Append(q, Head(d).id), n)
<1>1. PICK m \in Nat : m = Len(d) /\ DOMAIN d = 1..m
  BY Element
<1>2. PICK l \in Nat : l = Len(q) /\ DOMAIN q = 1..l
  BY Element
<1>3. PICK e, p, i : e = Tail(d) /\ p = Append(q, i) /\ i = Head(d).id
  OBVIOUS
<1>4. m >= 1 /\ i = d[1].id /\ d[1].kind = "row" /\ i \in Nat
  <2>1. m >= 1 /\ Head(d) = d[1] /\ d[1] \in Messages
    BY <1>1, Element
  <2> QED
    BY <1>3, <2>1 DEF Messages
<1>5. e \in Seq(Messages) /\ DOMAIN e = 1..(m - 1) /\ \A j \in 1..(m - 1) : e[j] = d[j + 1]
  <2>1. e \in Seq(Messages) /\ Len(e) = m - 1 /\ \A j \in 1..Len(e) : e[j] = d[j + 1]
    BY <1>1, <1>3, HeadTailProperties
  <2> QED
    BY <2>1, Element
<1>6. p \in Seq(Nat) /\ DOMAIN p = 1..(l + 1) /\ p[l + 1] = i /\ \A j \in 1..l : p[j] = q[j]
  <2>1. p \in Seq(Nat) /\ Len(p) = l + 1 /\ p[l + 1] = i /\ \A j \in 1..l : p[j] = q[j]
    BY <1>2, <1>3, <1>4, AppendProperties
  <2> QED
    BY <2>1, Element
<1>7. ASSUME NEW j \in DOMAIN e, e[j].kind = "row"
      PROVE  /\ e[j].id <= n /\ i < e[j].id
             /\ \A x \in DOMAIN q : q[x] < e[j].id
             /\ \A z \in DOMAIN e : j < z /\ e[z].kind = "row" => e[j].id < e[z].id
  <2>1. j + 1 \in DOMAIN d /\ 1 \in DOMAIN d /\ 1 < j + 1 /\ e[j] = d[j + 1]
    BY <1>1, <1>4, <1>5
  <2>2. \A z \in DOMAIN e : z + 1 \in DOMAIN d /\ e[z] = d[z + 1] /\ (j < z => j + 1 < z + 1)
    BY <1>1, <1>5
  <2> QED
    BY <1>4, <1>7, <2>1, <2>2 DEF Orderly
<1>8. \A x \in DOMAIN p : (x = l + 1 /\ p[x] = i) \/ (x \in DOMAIN q /\ p[x] = q[x])
  BY SMTT(60), <1>2, <1>6
<1>9. Orderly(e, p, n)
  BY <1>7, <1>8 DEF Orderly
<1>10. 1 \in DOMAIN d /\ i <= n /\ \A x \in DOMAIN q : q[x] < i
  BY <1>1, <1>4 DEF Orderly
<1>11. Risen(p, n)
  <2> SUFFICES ASSUME NEW x \in DOMAIN p
               PROVE  p[x] <= n /\ \A y \in DOMAIN p : x < y => p[x] < p[y]
    BY DEF Risen
  <2>1. CASE x = l + 1
    BY <1>6, <1>10, <2>1
  <2>2. CASE x # l + 1
    <3>1. x \in DOMAIN q /\ p[x] = q[x]
      BY <1>8, <2>2
    <3> QED
      BY <1>8, <1>10, <3>1 DEF Risen
  <2> QED
    BY <2>1, <2>2
<1> QED
  BY <1>3, <1>9, <1>11

(* A new row comes after all others.                                       *)
LEMMA RowJoins ==
    ASSUME NEW d \in Seq(Messages), NEW q \in Seq(Nat), NEW n \in Nat, NEW m \in Messages,
           m.kind = "row", m.id = n + 1, Orderly(d, q, n), Risen(q, n)
    PROVE  /\ Orderly(d, q, n + 1) /\ Orderly(Append(d, m), q, n + 1)
           /\ Risen(q, n + 1)
<1>1. PICK l \in Nat : l = Len(d) /\ DOMAIN d = 1..l
  BY Element
<1>2. PICK e : e = Append(d, m)
  OBVIOUS
<1>3. e \in Seq(Messages) /\ DOMAIN e = 1..(l + 1) /\ e[l + 1] = m /\ \A j \in 1..l : e[j] = d[j]
  <2>1. e \in Seq(Messages) /\ Len(e) = l + 1 /\ e[l + 1] = m /\ \A j \in 1..l : e[j] = d[j]
    BY <1>1, <1>2, AppendProperties
  <2> QED
    BY <2>1, Element
<1>4. \A j \in DOMAIN d : d[j].id \in Nat
  <2>1. \A j \in DOMAIN d : d[j] \in Messages
    BY Element
  <2> QED
    BY <2>1 DEF Messages
<1>5. \A x \in DOMAIN q : q[x] \in Nat
  BY Element
<1>6. Orderly(d, q, n + 1) /\ Risen(q, n + 1)
  BY <1>4, <1>5 DEF Orderly, Risen
<1>7. ASSUME NEW j \in DOMAIN e, e[j].kind = "row"
      PROVE  /\ e[j].id <= n + 1
             /\ \A x \in DOMAIN q : q[x] < e[j].id
             /\ \A z \in DOMAIN e : j < z /\ e[z].kind = "row" => e[j].id < e[z].id
  <2>1. CASE j = l + 1
    <3>1. e[j].id = n + 1 /\ \A x \in DOMAIN q : q[x] <= n
      BY <1>3, <2>1 DEF Risen
    <3>2. \A z \in DOMAIN e : ~ (j < z)
      BY <1>3, <2>1
    <3> QED
      BY <1>5, <3>1, <3>2
  <2>2. CASE j # l + 1
    <3>1. j \in DOMAIN d /\ e[j] = d[j] /\ d[j].kind = "row" /\ d[j].id <= n /\ d[j].id \in Nat
      BY <1>1, <1>3, <1>4, <1>7, <2>2 DEF Orderly
    <3>2. ASSUME NEW z \in DOMAIN e, j < z, e[z].kind = "row" PROVE e[j].id < e[z].id
      <4>1. CASE z = l + 1
        BY <1>3, <3>1, <4>1
      <4>2. CASE z # l + 1
        <5>1. z \in DOMAIN d /\ e[z] = d[z]
          BY <1>1, <1>3, <4>2
        <5> QED
          BY <3>1, <3>2, <5>1 DEF Orderly
      <4> QED
        BY <4>1, <4>2
    <3>3. \A x \in DOMAIN q : q[x] < e[j].id
      BY <3>1 DEF Orderly
    <3> QED
      BY <3>1, <3>2, <3>3
  <2> QED
    BY <2>1, <2>2
<1> QED
  BY <1>2, <1>6, <1>7 DEF Orderly

LEMMA ReceiveRows ==
    ASSUME IInv, WireInv, RowsInv, NEW k \in DOMAIN conns, Receive(k)
    PROVE  RowsInv'
<1> DEFINE r == conns[k]
           s == [r EXCEPT !.down = Tail(r.down)]
<1>1. UNCHANGED <<rows, raced, peers>>
  BY DEF Receive, serverVars
<1>2. CASE queued' = queued
  <2>1. Moved(conns, conns', {}, {})
    BY ReceiveWire
  <2> QED
    BY <1>1, <1>2, <2>1, RowsStay
<1>3. CASE /\ Head(r.down).kind = "row" /\ conns' = [conns EXCEPT ![k] = s]
           /\ queued' = [queued EXCEPT ![r.addr] = Append(@, Head(r.down).id)]
  <2>1. conns \in Seq(Wires) /\ \A j \in DOMAIN conns : conns[j] \in Wires
    BY Element DEF WireInv, Traffic
  <2>2. r \in Wires /\ r.state # "closed" /\ r.down # <<>> /\ r.down \in Seq(Messages)
        /\ r.addr \in Addrs
    BY <2>1 DEF Receive, Wires
  <2>3. s \in Wires /\ s.down = Tail(r.down) /\ s.addr = r.addr
    <3>1. Tail(r.down) \in Seq(Messages)
      BY <2>2, TailPart
    <3> QED
      BY <2>2, <3>1 DEF Wires
  <2> HIDE DEF s
  <2>4. DOMAIN conns' = DOMAIN conns /\ \A j \in DOMAIN conns : conns'[j] = IF j = k THEN s ELSE conns[j]
    BY <1>3, <2>1, <2>3, Put
  <2>5. queued \in [Addrs -> Seq(Nat)] /\ rows \in [Addrs -> Nat]
    BY DEF WireInv, Small
  <2> SUFFICES ASSUME ~ raced' PROVE RowsInv'
    BY DEF RowsInv
  <2>6. /\ Orderly(r.down, queued[r.addr], rows[r.addr]) /\ Risen(queued[r.addr], rows[r.addr])
        /\ ~ raced
    BY <1>1, <2>2 DEF RowsInv
  <2>7. /\ Orderly(s.down, queued'[r.addr], rows[r.addr])
        /\ Risen(queued'[r.addr], rows[r.addr])
    BY <1>3, <2>2, <2>3, <2>5, <2>6, HeadJoins
  <2>8. \A a \in Addrs : a # r.addr => queued'[a] = queued[a]
    BY <1>3, <2>5
  <2>9. ASSUME NEW j \in DOMAIN conns'
        PROVE  Orderly(conns'[j].down, queued'[conns'[j].addr], rows'[conns'[j].addr])
    <3>1. CASE j = k
      BY <1>1, <2>3, <2>4, <2>7, <3>1
    <3>2. CASE j # k /\ conns[j].addr = r.addr
      <4>1. conns[j].state = "closed"
        BY <2>2, <2>4, <2>6, <3>2 DEF IInv, LiveIsListed
      <4>2. conns'[j].down = <<>>
        BY <2>4, <3>2, <4>1 DEF WireInv, Table
      <4> QED
        BY <4>2 DEF Orderly
    <3>3. CASE j # k /\ conns[j].addr # r.addr
      <4>1. conns'[j] = conns[j] /\ conns[j].addr \in Addrs
        BY <2>1, <2>4, <3>3 DEF Wires
      <4>2. queued'[conns[j].addr] = queued[conns[j].addr]
        BY <2>8, <3>3, <4>1
      <4> QED
        BY <1>1, <2>4, <2>6, <4>1, <4>2 DEF RowsInv
    <3> QED
      BY <3>1, <3>2, <3>3
  <2>10. ASSUME NEW a \in Addrs PROVE Risen(queued'[a], rows'[a])
    BY <1>1, <2>6, <2>7, <2>8 DEF RowsInv
  <2> QED
    BY <2>9, <2>10 DEF RowsInv
<1> QED
  BY <1>2, <1>3 DEF Receive

LEMMA BroadcastRows ==
    ASSUME IInv, WireInv, RowsInv, NEW a \in Addrs, Broadcast(a)
    PROVE  RowsInv'
<1>1. UNCHANGED <<queued, raced>> /\ rows' = [rows EXCEPT ![a] = @ + 1]
  BY DEF Broadcast
<1>2. /\ NewRow(a) \in Messages
      /\ DOMAIN conns' = DOMAIN conns
      /\ \A k \in DOMAIN conns : \/ conns'[k] = conns[k]
                                 \/ conns'[k] = Told(conns[k], NewRow(a)) /\ conns[k].addr = a
  BY BroadcastTells DEF WireInv, Traffic, Small
<1>3. \A k \in DOMAIN conns : conns[k] \in Wires
  BY Element DEF WireInv, Traffic
<1>4. queued \in [Addrs -> Seq(Nat)] /\ rows \in [Addrs -> Nat]
  BY DEF WireInv, Small
<1> SUFFICES ASSUME ~ raced' PROVE RowsInv'
  BY DEF RowsInv
<1>5. NewRow(a).kind = "row" /\ NewRow(a).id = rows[a] + 1
  BY DEF NewRow
<1>6. \A b \in Addrs : rows'[b] = IF b = a THEN rows[a] + 1 ELSE rows[b]
  BY <1>1, <1>4
<1>7. ASSUME NEW k \in DOMAIN conns'
      PROVE  Orderly(conns'[k].down, queued'[conns'[k].addr], rows'[conns'[k].addr])
  <2> DEFINE r == conns[k]
             b == r.addr
  <2>1. k \in DOMAIN conns /\ r \in Wires /\ b \in Addrs /\ r.down \in Seq(Messages)
    BY <1>2, <1>3, <1>7 DEF Wires
  <2>2. Orderly(r.down, queued[b], rows[b]) /\ Risen(queued[b], rows[b])
    BY <1>1, <2>1 DEF RowsInv
  <2>3. CASE b # a
    <3>1. conns'[k] = r /\ rows'[b] = rows[b]
      BY <1>2, <1>6, <2>1, <2>3
    <3> QED
      BY <1>1, <2>2, <3>1
  <2>4. CASE b = a
    <3>1. rows'[b] = rows[a] + 1
      BY <1>6, <2>1, <2>4
    <3>2. /\ Orderly(r.down, queued[a], rows[a] + 1)
          /\ Orderly(Append(r.down, NewRow(a)), queued[a], rows[a] + 1)
      BY <1>2, <1>4, <1>5, <2>1, <2>2, <2>4, RowJoins
    <3>3. /\ conns'[k].addr = a
          /\ conns'[k].down \in {r.down, Append(r.down, NewRow(a))}
      <4>1. Told(r, NewRow(a)).addr = a
            /\ Told(r, NewRow(a)).down \in {r.down, Append(r.down, NewRow(a))}
        BY <1>2, <2>1, <2>4, ToldIs
      <4> QED
        BY <1>2, <2>1, <2>4, <4>1
    <3> QED
      BY <1>1, <2>4, <3>1, <3>2, <3>3
  <2> QED
    BY <2>3, <2>4
<1>8. ASSUME NEW b \in Addrs PROVE Risen(queued'[b], rows'[b])
  <2>1. Risen(queued[b], rows[b])
    BY <1>1 DEF RowsInv
  <2>2. CASE b # a
    BY <1>1, <1>6, <2>1, <2>2
  <2>3. CASE b = a
    <3>1. <<>> \in Seq(Messages) /\ Orderly(<<>>, queued[a], rows[a])
      BY DEF Orderly
    <3>2. Risen(queued[a], rows[a] + 1)
      BY <1>2, <1>4, <1>5, <2>1, <2>3, <3>1, RowJoins
    <3> QED
      BY <1>1, <1>6, <2>3, <3>2
  <2> QED
    BY <2>2, <2>3
<1> QED
  BY <1>7, <1>8 DEF RowsInv

LEMMA CloseEndsRows ==
    ASSUME IInv, WireInv, RowsInv, NEW k \in DOMAIN conns, CloseEnds(k)
    PROVE  RowsInv'
<1>1. UNCHANGED <<queued, raced, rows>>
  BY DEF CloseEnds, serverVars
<1>2. /\ DOMAIN conns' = DOMAIN conns
      /\ \A j \in DOMAIN conns :
           conns'[j] = conns[j] \/ (conns'[j].down = <<>> /\ conns'[j].addr = conns[j].addr)
  BY CloseEndsFewer DEF WireInv, Traffic, Fewer
<1>3. \A q, n : Orderly(<<>>, q, n)
  BY DEF Orderly
<1> QED
  BY <1>1, <1>2, <1>3 DEF RowsInv

LEMMA NextRows == IInv /\ WireInv /\ RowsInv /\ [Next]_vars => RowsInv'
<1> SUFFICES ASSUME IInv, WireInv, RowsInv, [Next]_vars PROVE RowsInv'
  OBVIOUS
<1>1. ASSUME NEW c \in Callers, NEW a \in Addrs,
             CallUnknown(c, a) \/ CallKnown(c, a) \/ DisconnectAll(c, a)
      PROVE  RowsInv'
  <2>1. UNCHANGED <<rows, queued>>
    BY <1>1 DEF CallUnknown, CallKnown, DisconnectAll, serverVars
  <2>3. raced => raced'
    BY <1>1, Zenon DEF CallUnknown, CallKnown, DisconnectAll
  <2> QED
    BY <1>1, <2>1, <2>3, ReachedBegin, RowsStay
<1>2. ASSUME NEW c \in Callers, Ends(c) PROVE RowsInv'
  <2>1. UNCHANGED <<rows, queued>>
    BY <1>2 DEF Ends, DialSucceeds, DialFails, RedialSucceeds, RedialFails, TimesOut, Answered,
       HelloAnswered, ProofAnswered, serverVars
  <2>3. raced => raced'
    BY <1>2, Zenon DEF Ends, DialSucceeds, DialFails, RedialSucceeds, RedialFails, TimesOut, Answered,
       HelloAnswered, ProofAnswered
  <2>2. \E cs : Reaches(cs)
    BY <1>2, ReachedDial, ReachedAnswer DEF Ends
  <2> QED
    BY <2>1, <2>2, <2>3, RowsStay
<1>3. ASSUME NEW k \in DOMAIN conns, Handle(k) \/ NoticeEnd(k) \/ ServerEnds(k) \/ Lose(k)
      PROVE  RowsInv'
  <2>1. UNCHANGED <<rows, queued>>
    BY <1>3 DEF Handle, NoticeEnd, ServerEnds, Lose, serverVars
  <2>3. raced => raced'
    BY <1>3, Zenon DEF Handle, NoticeEnd, ServerEnds, Lose
  <2>2. \E A : Moved(conns, conns', {}, A)
    BY <1>3, HandleMoved, QuietWire DEF WireInv, Traffic
  <2> QED
    BY <2>1, <2>2, <2>3, RowsStay
<1>4. ASSUME NEW k \in DOMAIN conns, Receive(k) \/ CloseEnds(k) PROVE RowsInv'
  BY <1>4, ReceiveRows, CloseEndsRows
<1>5. ASSUME NEW a \in Addrs, Broadcast(a) PROVE RowsInv'
  BY <1>5, BroadcastRows
<1>6. CASE UNCHANGED vars
  BY <1>6 DEF vars, serverVars, RowsInv
<1> QED
  BY <1>1, <1>2, <1>3, <1>4, <1>5, <1>6 DEF Next, Listens

(* Unless two callers dial one address at a time, the queues get the rows  *)
(* of a server in order and once, whatever connections are lost and made   *)
(* in between (client.py, listenToPeer; server.py, updateSubscribers): a   *)
(* server has one live connection with the client, and a lost one takes    *)
(* with it what was on its way.                                            *)
THEOREM RowsOnceAlways == Spec => []RowsOnce
<1> DEFINE Inv == IInv /\ WireInv /\ RowsInv
<1>1. Inv => RowsOnce
  BY DEF RowsInv, Risen, RowsOnce
<1>2. Init => RowsInv
  BY DEF Init, RowsInv, Risen
<1>3. Init => Inv
  BY <1>2, InitIInv, InitWire
<1>4. Inv /\ [Next]_vars => Inv'
  BY NextIInv, NextWire, NextRows
<1> QED
  BY <1>1, <1>3, <1>4, PTL DEF Spec

-----------------------------------------------------------------------------
(* Encryption: what is on its way on a connection on which nothing went    *)
(* unencrypted that should not have.  Before this end has the secret, it   *)
(* is one message of an authentication; after it, requests and answers in  *)
(* cipher.                                                                 *)

MessageIds(r) == UpIds(r) \cup DownIds(r)
OnlyOn(cs, k, i) == \A j \in DOMAIN cs : i \in MessageIds(cs[j]) => j = k

Plain(r) ==
    /\ ~ r.garbled /\ ~ r.subscribed
    /\ Len(r.up) <= 1 /\ Len(r.down) <= 1 /\ (r.up = <<>> \/ r.down = <<>>)
    /\ \A x \in DOMAIN r.up : ~ r.up[x].enc /\ r.up[x].kind # "ask"
    /\ \A x \in DOMAIN r.down : ~ r.down[x].enc /\ r.down[x].kind = "answer"
    /\ r.theirs => r.up = <<>>
Secret(r) ==
    /\ ~ r.garbled /\ r.theirs
    /\ \A x \in DOMAIN r.up : r.up[x].enc /\ r.up[x].kind = "ask"
    /\ \A x \in DOMAIN r.down : r.down[x].enc
Sound(r) == ~ r.bare => /\ r.mine => Secret(r)
                        /\ ~ r.mine => Plain(r)

(* A caller waits for the answer to hello, or to proof, the request i on   *)
(* this connection: when it has come, nothing else is on its way, and the  *)
(* server has the secret if it said so.                                    *)
HelloOn(r, i, rs) ==
    /\ ~ r.mine
    /\ ~ r.bare =>
         /\ ~ r.theirs
         /\ \A x \in DOMAIN r.up : r.up[x].kind = "hello"
         /\ i \in Received(rs) => r.up = <<>> /\ r.down = <<>>
ProofOn(r, i, rs) ==
    /\ ~ r.mine
    /\ ~ r.bare =>
         /\ \A x \in DOMAIN r.up : r.up[x].kind = "proof"
         /\ i \in Received(rs) => r.up = <<>> /\ r.down = <<>>
         /\ \A q \in rs : q.id = i /\ q.ok => r.theirs
         /\ \A x \in DOMAIN r.down : r.down[x].id = i /\ r.down[x].ok => r.theirs

(* What a step makes of one connection keeps all this, for the requests I. *)
Kept(r, s, rs, ss, I) ==
    Sound(r) => /\ Sound(s)
                /\ \A i \in I : HelloOn(r, i, rs) => HelloOn(s, i, ss)
                /\ \A i \in I : ProofOn(r, i, rs) => ProofOn(s, i, ss)

Alike(r, s) ==
    /\ s.mine = r.mine /\ s.theirs = r.theirs /\ s.bare = r.bare
    /\ s.garbled = r.garbled /\ s.subscribed = r.subscribed
Within(d, e) ==
    /\ \A x \in DOMAIN e : \E y \in DOMAIN d : e[x] = d[y]
    /\ Len(e) <= Len(d)
    /\ d = <<>> => e = <<>>
NoneNew(rs, ss, I) == \A q \in ss : q \in rs \/ q.id \notin I

LEMMA NoneNewReceived ==
    ASSUME NEW rs, NEW ss, NEW I, NoneNew(rs, ss, I), NEW i \in I, i \in Received(ss)
    PROVE  i \in Received(rs)
BY DEF NoneNew, Received

(* The first of those in plain is the only one.                            *)
LEMMA OnlyOne ==
    ASSUME NEW S, NEW d \in Seq(S), d # <<>>
    PROVE  /\ 1 \in DOMAIN d /\ Head(d) = d[1] /\ Head(d) \in S
           /\ Tail(d) \in Seq(S) /\ Len(Tail(d)) <= Len(d)
           /\ Len(d) <= 1 => Tail(d) = <<>>
           /\ \A x \in DOMAIN Tail(d) : x + 1 \in DOMAIN d /\ Tail(d)[x] = d[x + 1]
<1>1. /\ Len(d) \in Nat /\ Len(d) # 0 /\ DOMAIN d = 1..Len(d)
      /\ Tail(d) \in Seq(S) /\ Len(Tail(d)) = Len(d) - 1 /\ Head(d) \in S /\ Head(d) = d[1]
      /\ \A x \in 1..(Len(d) - 1) : Tail(d)[x] = d[x + 1]
  BY Element, EmptySeq, HeadTailProperties
<1>2. DOMAIN Tail(d) = 1..(Len(d) - 1)
  BY <1>1, Element
<1>3. Len(d) <= 1 => Tail(d) = <<>>
  <2>1. Len(d) <= 1 => Len(Tail(d)) = 0
    BY SMTT(60), <1>1
  <2> QED
    BY <1>1, <2>1, EmptySeq
<1>4. PICK n \in Nat : n = Len(d) /\ n # 0
  BY <1>1
<1>5. /\ 1 \in 1..n /\ n - 1 <= n
      /\ \A x \in 1..(n - 1) : x + 1 \in 1..n
  BY <1>4
<1> QED
  BY <1>1, <1>2, <1>3, <1>4, <1>5

(* Nothing new: some messages are lost, or received.                       *)
LEMMA KeptLess ==
    ASSUME NEW r \in Wires, NEW s \in Wires, NEW rs, NEW ss, NEW I, Alike(r, s),
           s.up = r.up \/ s.up = <<>>, Within(r.down, s.down), NoneNew(rs, ss, I)
    PROVE  Kept(r, s, rs, ss, I)
<1> SUFFICES ASSUME Sound(r)
             PROVE  /\ Sound(s)
                    /\ \A i \in I : HelloOn(r, i, rs) => HelloOn(s, i, ss)
                    /\ \A i \in I : ProofOn(r, i, rs) => ProofOn(s, i, ss)
  BY DEF Kept
<1>1. /\ \A x \in DOMAIN s.up : x \in DOMAIN r.up /\ s.up[x] = r.up[x]
      /\ r.up = <<>> => s.up = <<>>
      /\ Len(s.up) <= 1 \/ Len(s.up) = Len(r.up)
  OBVIOUS
<1>2. /\ \A x \in DOMAIN s.down : \E y \in DOMAIN r.down : s.down[x] = r.down[y]
      /\ Len(s.down) <= Len(r.down) /\ Len(s.down) \in Nat /\ Len(r.down) \in Nat
      /\ r.down = <<>> => s.down = <<>>
  <2>1. r.down \in Seq(Messages) /\ s.down \in Seq(Messages)
    BY DEF Wires
  <2> QED
    BY <2>1, Element DEF Within
<1>3. Secret(r) => Secret(s)
  BY <1>1, <1>2 DEF Secret, Alike
<1>4. Plain(r) => Plain(s)
  BY <1>1, <1>2 DEF Plain, Alike
<1>5. Sound(s)
  BY <1>3, <1>4 DEF Sound, Alike
<1>6. ASSUME NEW i \in I, HelloOn(r, i, rs) PROVE HelloOn(s, i, ss)
  BY <1>1, <1>2, <1>6, NoneNewReceived DEF HelloOn, Alike
<1>7. ASSUME NEW i \in I, ProofOn(r, i, rs) PROVE ProofOn(s, i, ss)
  <2>1. \A q \in ss : q.id = i => q \in rs
    BY DEF NoneNew
  <2> QED
    BY <1>1, <1>2, <1>7, <2>1, NoneNewReceived DEF ProofOn, Alike
<1> QED
  BY <1>5, <1>6, <1>7

(* An answer is received.                                                  *)
LEMMA KeptReceived ==
    ASSUME NEW r \in Wires, NEW s \in Wires, NEW rs, NEW I, Alike(r, s),
           s.up = r.up, r.down # <<>>, s.down = Tail(r.down)
    PROVE  Kept(r, s, rs, rs \cup {[id |-> Head(r.down).id, ok |-> Head(r.down).ok]}, I)
<1> DEFINE m == Head(r.down)
           v == [id |-> m.id, ok |-> m.ok]
           ss == rs \cup {v}
<1> SUFFICES ASSUME Sound(r)
             PROVE  /\ Sound(s)
                    /\ \A i \in I : HelloOn(r, i, rs) => HelloOn(s, i, ss)
                    /\ \A i \in I : ProofOn(r, i, rs) => ProofOn(s, i, ss)
  BY DEF Kept
<1>1. /\ 1 \in DOMAIN r.down /\ m = r.down[1]
      /\ Len(s.down) <= Len(r.down)
      /\ Len(r.down) <= 1 => s.down = <<>>
      /\ \A x \in DOMAIN s.down : \E y \in DOMAIN r.down : s.down[x] = r.down[y]
  <2>1. r.down \in Seq(Messages)
    BY DEF Wires
  <2> QED
    BY <2>1, OnlyOne
<1>2. Kept(r, s, rs, rs, I)
  BY <1>1, KeptLess DEF Within, NoneNew
<1>3. v.id = m.id /\ v.ok = m.ok
  OBVIOUS
<1> HIDE DEF m, v
<1>4. ASSUME ~ r.mine, ~ r.bare PROVE s.up = <<>> /\ s.down = <<>>
  BY <1>1, <1>4 DEF Sound, Plain
<1>5. ASSUME NEW i \in I, HelloOn(r, i, rs) PROVE HelloOn(s, i, ss)
  <2>1. HelloOn(s, i, rs)
    BY <1>2, <1>5 DEF Kept
  <2> QED
    BY <1>4, <1>5, <2>1 DEF HelloOn, Alike
<1>6. ASSUME NEW i \in I, ProofOn(r, i, rs) PROVE ProofOn(s, i, ss)
  <2>1. ProofOn(s, i, rs)
    BY <1>2, <1>6 DEF Kept
  <2>2. ~ r.bare /\ v.id = i /\ v.ok => s.theirs
    BY <1>1, <1>3, <1>6 DEF ProofOn, Alike
  <2> QED
    BY <1>4, <1>6, <2>1, <2>2 DEF ProofOn, Alike
<1> QED
  BY <1>2, <1>5, <1>6 DEF Kept

(* A message that its end cannot read: something went unencrypted.         *)
LEMMA KeptBare ==
    ASSUME NEW r, NEW s, NEW rs, NEW ss, NEW I, Sound(r) => s.bare, s.mine = r.mine
    PROVE  Kept(r, s, rs, ss, I)
BY DEF Kept, Sound, HelloOn, ProofOn

LEMMA Misread ==
    ASSUME NEW r \in Wires, Sound(r),
           \/ r.down # <<>> /\ Head(r.down).enc # r.mine
           \/ r.up # <<>> /\ Head(r.up).enc # r.theirs
    PROVE  r.bare
<1>1. r.up \in Seq(Requests) /\ r.down \in Seq(Messages) /\ r.mine \in BOOLEAN /\ r.theirs \in BOOLEAN
  BY DEF Wires
<1>2. CASE r.down # <<>> /\ Head(r.down).enc # r.mine
  <2>1. 1 \in DOMAIN r.down /\ Head(r.down) = r.down[1] /\ Head(r.down) \in Messages
    BY <1>1, <1>2, OnlyOne
  <2>2. r.down[1].enc \in BOOLEAN
    BY <2>1 DEF Messages
  <2> QED
    BY <1>1, <1>2, <2>1, <2>2 DEF Sound, Plain, Secret
<1>3. CASE r.up # <<>> /\ Head(r.up).enc # r.theirs
  <2>1. 1 \in DOMAIN r.up /\ Head(r.up) = r.up[1] /\ Head(r.up) \in Requests
    BY <1>1, <1>3, OnlyOne
  <2>2. r.up[1].enc \in BOOLEAN
    BY <2>1 DEF Requests
  <2> QED
    BY <1>1, <1>3, <2>1, <2>2 DEF Sound, Plain, Secret
<1> QED
  BY <1>2, <1>3

(* One more message.                                                       *)
LEMMA OneMore ==
    ASSUME NEW S, NEW d \in Seq(S), NEW m \in S
    PROVE  /\ Append(d, m) \in Seq(S) /\ Len(Append(d, m)) = Len(d) + 1
           /\ \A x \in DOMAIN Append(d, m) : \/ x \in DOMAIN d /\ Append(d, m)[x] = d[x]
                                             \/ Append(d, m)[x] = m
           /\ d = <<>> => Len(Append(d, m)) <= 1
<1>1. /\ Append(d, m) \in Seq(S) /\ Len(Append(d, m)) = Len(d) + 1
      /\ Append(d, m)[Len(d) + 1] = m
      /\ \A x \in 1..Len(d) : Append(d, m)[x] = d[x]
      /\ Len(d) \in Nat /\ DOMAIN d = 1..Len(d)
  BY AppendProperties, Element
<1>2. DOMAIN Append(d, m) = 1..(Len(d) + 1)
  BY <1>1, Element
<1>3. d = <<>> => Len(d) = 0
  BY EmptySeq
<1> QED
  BY <1>1, <1>2, <1>3

(* The server answers a request.                                           *)
LEMMA KeptHandled ==
    ASSUME NEW k \in DOMAIN conns, conns \in Seq(Wires), NEW m, NEW t \in BOOLEAN, NEW b \in BOOLEAN,
           Handles(k, m, t, b), NEW rs, NEW I
    PROVE  Kept(conns[k], Handled(conns[k], t, b, m), rs, rs, I)
<1> DEFINE r == conns[k]
           s == Handled(r, t, b, m)
           h == Head(r.up)
<1>1. /\ r \in Wires /\ m \in Messages /\ r.up # <<>> /\ h.enc = r.theirs /\ m.kind = "answer"
      /\ r.up \in Seq(Requests) /\ r.down \in Seq(Messages)
      /\ r.theirs \in BOOLEAN /\ r.subscribed \in BOOLEAN /\ m.enc \in BOOLEAN /\ m.ok \in BOOLEAN
  <2>1. r \in Wires /\ m \in Messages
    BY Element DEF Handles
  <2> QED
    BY <2>1 DEF Handles, Wires, Messages
<1>2. /\ s \in Wires /\ s.mine = r.mine /\ s.bare = r.bare /\ s.garbled = r.garbled
      /\ s.theirs = t /\ s.subscribed = b /\ s.up = Tail(r.up)
      /\ s.down = IF r.state = "closed" THEN r.down ELSE Append(r.down, m)
  BY <1>1, HandledIs
<1>3. /\ 1 \in DOMAIN r.up /\ h = r.up[1]
      /\ Len(r.up) <= 1 => s.up = <<>>
      /\ \A x \in DOMAIN s.up : \E y \in DOMAIN r.up : s.up[x] = r.up[y]
  BY <1>1, <1>2, OnlyOne
<1>4. /\ \A x \in DOMAIN s.down : \/ x \in DOMAIN r.down /\ s.down[x] = r.down[x]
                                  \/ s.down[x] = m
      /\ r.down = <<>> => Len(s.down) <= 1
  <2>1. CASE r.state = "closed"
    BY <1>2, <2>1
  <2>2. CASE r.state # "closed"
    BY <1>1, <1>2, <2>2, OneMore
  <2> QED
    BY <2>1, <2>2
<1>5. \/ h.kind = "proof" /\ m.ok /\ ~ m.enc /\ t = TRUE /\ b = r.subscribed
      \/ /\ h.kind # "ask" /\ m.enc = r.theirs /\ (h.kind = "proof" => ~ m.ok)
         /\ t = r.theirs /\ b = r.subscribed
      \/ h.kind = "ask" /\ m.enc = r.theirs /\ t = r.theirs /\ b = TRUE
  BY DEF Handles
<1> HIDE DEF r, s, h
<1> SUFFICES ASSUME Sound(r)
             PROVE  /\ Sound(s)
                    /\ \A i \in I : HelloOn(r, i, rs) => HelloOn(s, i, rs)
                    /\ \A i \in I : ProofOn(r, i, rs) => ProofOn(s, i, rs)
  BY DEF Kept, r, s
<1>6. CASE r.bare
  BY <1>2, <1>6 DEF Sound, HelloOn, ProofOn
<1>7. CASE ~ r.bare /\ r.mine
  <2>1. Secret(r) /\ h.kind = "ask" /\ r.theirs
    BY <1>3, <1>7 DEF Sound, Secret
  <2>2. m.enc /\ t
    BY <1>5, <2>1
  <2>3. Secret(s)
    BY <1>2, <1>3, <1>4, <2>1, <2>2 DEF Secret
  <2> QED
    BY <1>2, <1>7, <2>3 DEF Sound, HelloOn, ProofOn
<1>8. CASE ~ r.bare /\ ~ r.mine
  <2>1. Plain(r)
    BY <1>8 DEF Sound
  <2>2. /\ r.down = <<>> /\ s.up = <<>> /\ ~ r.theirs /\ h.kind # "ask"
        /\ ~ r.garbled /\ ~ r.subscribed
    BY <1>1, <1>3, <2>1 DEF Plain
  <2>3. ~ m.enc /\ ~ b /\ (t => h.kind = "proof") /\ (h.kind = "proof" /\ m.ok => t)
    BY <1>5, <2>2
  <2>4. \A x \in DOMAIN s.down : s.down[x] = m
    BY <1>4, <2>2
  <2>5. Plain(s)
    <3>1. Len(s.up) <= 1 /\ Len(s.down) <= 1 /\ DOMAIN s.up = {}
      BY <1>4, <2>2
    <3>2. ~ s.garbled /\ ~ s.subscribed
      BY <1>2, <2>2, <2>3
    <3>3. \A x \in DOMAIN s.down : ~ s.down[x].enc /\ s.down[x].kind = "answer"
      BY <1>1, <2>3, <2>4
    <3> QED
      BY <2>2, <3>1, <3>2, <3>3 DEF Plain
  <2>6. ASSUME NEW i, HelloOn(r, i, rs) PROVE HelloOn(s, i, rs)
    BY <1>1, <1>2, <1>3, <1>8, <2>2, <2>3, <2>6 DEF HelloOn
  <2>7. ASSUME NEW i, ProofOn(r, i, rs) PROVE ProofOn(s, i, rs)
    <3>1. h.kind = "proof" /\ i \notin Received(rs)
      BY <1>1, <1>3, <1>8, <2>7 DEF ProofOn
    <3>2. \A q \in rs : q.id # i
      BY <3>1 DEF Received
    <3>3. \A x \in DOMAIN s.down : s.down[x].id = i /\ s.down[x].ok => s.theirs
      BY <1>2, <2>3, <2>4, <3>1
    <3>4. ~ s.mine
      BY <1>2, <1>8
    <3>5. DOMAIN s.up = {}
      BY <2>2
    <3> QED
      BY <3>1, <3>2, <3>3, <3>4, <3>5 DEF ProofOn
  <2> QED
    BY <1>2, <1>8, <2>5, <2>6, <2>7 DEF Sound
<1> QED
  BY <1>6, <1>7, <1>8

(* A subscriber is told of a row.                                          *)
LEMMA KeptTold ==
    ASSUME NEW r \in Wires, NEW m \in Messages, m.enc, r.subscribed, NEW rs, NEW I
    PROVE  Kept(r, Told(r, m), rs, rs, I)
<1> DEFINE s == Told(r, m)
<1>1. /\ s.mine = r.mine /\ s.theirs = r.theirs /\ s.bare = r.bare /\ s.garbled = r.garbled
      /\ s.up = r.up /\ s.down = IF r.state = "closed" THEN r.down ELSE Append(r.down, m)
  BY ToldIs
<1>2. \A x \in DOMAIN s.down : \/ x \in DOMAIN r.down /\ s.down[x] = r.down[x]
                               \/ s.down[x] = m
  <2>1. r.down \in Seq(Messages)
    BY DEF Wires
  <2> QED
    BY <1>1, <2>1, OneMore
<1> HIDE DEF s
<1>3. Sound(r) /\ ~ r.bare => r.mine
  BY DEF Sound, Plain
<1>4. Sound(r) => Sound(s)
  BY <1>1, <1>2, <1>3 DEF Sound, Secret
<1>5. Kept(r, s, rs, rs, I)
  BY <1>1, <1>3, <1>4 DEF Kept, HelloOn, ProofOn
<1> QED
  BY <1>5 DEF s

(* A caller asks: in cipher, or else it is bare.                           *)
LEMMA KeptAsk ==
    ASSUME NEW cs \in Seq(Wires), NEW k \in DOMAIN cs, NEW id \in Nat, NEW chal \in Nat, NEW rs, NEW I
    PROVE  Kept(cs[k], Written(cs, k, "ask", id, chal)[k], rs, rs, I)
<1> DEFINE r == cs[k]
           m == [kind |-> "ask", id |-> id, chal |-> chal, enc |-> r.mine]
           s == Written(cs, k, "ask", id, chal)[k]
<1>1. r \in Wires
  BY Element
<1>2. m \in Requests /\ m.kind = "ask" /\ m.enc = r.mine
  BY <1>1 DEF Wires, Requests
<1>3. s = [r EXCEPT !.up = Append(r.up, m), !.bare = IF ~ r.mine THEN TRUE ELSE r.bare]
  BY DEF Written
<1>4. /\ s.mine = r.mine /\ s.theirs = r.theirs /\ s.garbled = r.garbled
      /\ s.up = Append(r.up, m) /\ s.down = r.down
      /\ r.mine => s.bare = r.bare
      /\ ~ r.mine => s.bare
  BY <1>1, <1>3 DEF Wires
<1> HIDE DEF r, m, s
<1>5. \A x \in DOMAIN s.up : (x \in DOMAIN r.up /\ s.up[x] = r.up[x]) \/ s.up[x] = m
  <2>1. PICK d : d = r.up
    OBVIOUS
  <2>2. d \in Seq(Requests)
    BY <1>1, <2>1 DEF Wires
  <2>3. m \in Requests
    BY <1>2
  <2>4. \A x \in DOMAIN Append(d, m) : \/ x \in DOMAIN d /\ Append(d, m)[x] = d[x]
                                       \/ Append(d, m)[x] = m
    BY <2>2, <2>3, OneMore
  <2>5. s.up = Append(d, m)
    BY <1>4, <2>1
  <2> QED
    BY <2>1, <2>4, <2>5, Zenon
<1>6. Sound(r) => Sound(s)
  BY <1>2, <1>4, <1>5 DEF Sound, Secret
<1>7. Kept(r, s, rs, rs, I)
  BY <1>4, <1>6 DEF Kept, HelloOn, ProofOn
<1> QED
  BY <1>7 DEF r, s

(* Who dials for the second time of an authentication has signed the last  *)
(* challenge of the address: no one else waits for the answer to it.       *)

Redials ==
    ~ raced => \A c \in Callers : call[c].pc = "redial" =>
       /\ call[c].peer = None
       /\ \A d \in Callers : call[d].pc = "hello" /\ call[d].addr = call[c].addr =>
             call[d].sub # challenges[call[d].addr]

LEMMA RedialsStay ==
    ASSUME Redials, raced => raced', challenges' = challenges,
           \A c \in Callers : call'[c] = call[c] \/ call'[c].pc \notin {"hello", "redial"}
    PROVE  Redials'
<1> SUFFICES ASSUME ~ raced', NEW c \in Callers, call'[c].pc = "redial"
             PROVE  /\ call'[c].peer = None
                    /\ \A d \in Callers : call'[d].pc = "hello" /\ call'[d].addr = call'[c].addr =>
                          call'[d].sub # challenges'[call'[d].addr]
  BY DEF Redials
<1>1. ~ raced
  OBVIOUS
<1>2. call'[c] = call[c]
  OBVIOUS
<1>3. ASSUME NEW d \in Callers, call'[d].pc = "hello" PROVE call'[d] = call[d]
  BY <1>3
<1> QED
  BY <1>1, <1>2, <1>3 DEF Redials

LEMMA RedialsTurn ==
    ASSUME IInv, Redials, raced => raced', challenges' = challenges, NEW c \in Callers, NEW f,
           Turn(c, f), f.pc \notin {"hello", "redial"}
    PROVE  Redials'
BY TurnIs, RedialsStay

LEMMA RedialsOutcome ==
    ASSUME IInv, Redials, raced => raced', challenges' = challenges, NEW c \in Callers,
           NEW g \in Calls, NEW kind \in {"ask", "proof"}, NEW r, Outcome(c, g, kind, r)
    PROVE  Redials'
<1>1. PICK f : Turn(c, f) /\ f.pc \in {"idle", "asked", "proof"}
  BY OutcomeTurn
<1> QED
  BY <1>1, RedialsTurn

LEMMA RedialsBegin ==
    ASSUME IInv, WireInv, Redials, NEW c \in Callers, NEW a \in Addrs,
           CallUnknown(c, a) \/ CallKnown(c, a) \/ DisconnectAll(c, a)
    PROVE  Redials'
<1>1. challenges' = challenges
  BY DEF CallUnknown, CallKnown, DisconnectAll
<1>2. raced => raced'
  BY Zenon DEF CallUnknown, CallKnown, DisconnectAll
<1>3. CASE CallUnknown(c, a)
  BY <1>1, <1>2, <1>3, CallUnknownWire, BeginnersAre, RedialsTurn
<1>4. CASE CallKnown(c, a)
  BY <1>1, <1>2, <1>4, CallKnownWire, BeginnersAre, RedialsOutcome
<1>5. CASE DisconnectAll(c, a)
  BY <1>1, <1>2, <1>5, DisconnectAllWire, RedialsTurn
<1> QED
  BY <1>3, <1>4, <1>5

LEMMA RedialsDial ==
    ASSUME IInv, WireInv, Redials, NEW c \in Callers, DialSucceeds(c)
    PROVE  Redials'
<1> DEFINE a == call[c].addr
           f == Wrote(Greeter(c), "hello")
<1>1. a \in Addrs /\ call[c].pc = "dial" /\ raced' = raced
      /\ challenges' = [challenges EXCEPT ![a] = ids + 1]
  BY DEF DialSucceeds, IInv, Typed
<1>2. Turn(c, f) /\ Greeter(c) \in Calls /\ Greeter(c).addr = a
  BY <1>1, DialSucceedsWire, PartnersAre
<1>3. f.pc = "hello" /\ f.addr = a
  BY <1>2, WroteIs
<1> HIDE DEF f
<1>4. call'[c] = f /\ \A d \in Callers : d # c => call'[d] = call[d]
  BY <1>2, TurnIs
<1> SUFFICES ASSUME ~ raced', NEW d \in Callers, call'[d].pc = "redial"
             PROVE  /\ call'[d].peer = None
                    /\ \A e \in Callers : call'[e].pc = "hello" /\ call'[e].addr = call'[d].addr =>
                          call'[e].sub # challenges'[call'[e].addr]
  BY DEF Redials
<1>5. ~ raced
  BY <1>1
<1>6. d # c /\ call'[d] = call[d] /\ call[d].pc = "redial" /\ call[d].addr \in Addrs
  BY <1>3, <1>4 DEF IInv, Typed
<1>7. call[d].addr # a
  BY <1>1, <1>5, <1>6 DEF IInv, DialsAlone, Dials
<1>8. challenges'[call[d].addr] = challenges[call[d].addr]
  BY <1>1, <1>6, <1>7 DEF WireInv, Small
<1>9. ASSUME NEW e \in Callers, call'[e].pc = "hello", call'[e].addr = call[d].addr
      PROVE  call[e].pc = "hello" /\ call[e].addr = call[d].addr /\ call'[e] = call[e]
  BY <1>3, <1>4, <1>7, <1>9
<1> QED
  BY <1>5, <1>6, <1>8, <1>9 DEF Redials

LEMMA RedialsHello ==
    ASSUME IInv, WireInv, IdsInv, Redials, NEW c \in Callers, NEW r \in responses, HelloAnswered(c, r)
    PROVE  Redials'
<1>1. /\ call[c].addr \in Addrs /\ call[c].pc = "hello" /\ challenges' = challenges
      /\ r.id = call[c].sub
  BY DEF HelloAnswered, Has, Waited, IInv, Typed
<1>2. raced => raced'
  BY Zenon DEF HelloAnswered
<1>3. HelloOutcome(c, r)
  BY HelloAnsweredWire
<1>4. CASE DropOutcome(c, r.id)
  BY <1>1, <1>2, <1>4, IdleIs, PartnersAre, RedialsTurn DEF DropOutcome
<1>5. CASE Outcome(c, Prover(c), "proof", r.id)
  BY <1>1, <1>2, <1>5, PartnersAre, RedialsOutcome
<1>6. CASE /\ challenges[call[c].addr] = r.id /\ peers[call[c].addr] = None
           /\ Turn(c, Redialler(c))
  <2> DEFINE f == Redialler(c)
  <2>1. f.pc = "redial" /\ f.addr = call[c].addr /\ f.peer = None
    BY <1>1, <1>6, PartnersAre
  <2>2. Turn(c, f)
    BY <1>6
  <2> HIDE DEF f
  <2>3. call'[c] = f /\ \A d \in Callers : d # c => call'[d] = call[d]
    BY <2>2, TurnIs
  <2>4. ASSUME NEW d \in Callers, call'[d].pc = "hello", call'[d].addr = call[c].addr
        PROVE  call'[d].sub # challenges'[call'[d].addr]
    <3>1. d # c /\ call'[d] = call[d]
      BY <2>1, <2>3, <2>4
    <3>2. call[c].sub \in HeldBy(call[c]) /\ call[d].sub \in HeldBy(call[d])
      BY <1>1, <2>4, <3>1 DEF IdsInv, IsNamed, HeldBy
    <3>3. call[d].sub # call[c].sub
      BY <3>1, <3>2 DEF IdsInv
    <3> QED
      BY <1>1, <1>6, <2>4, <3>1, <3>3
  <2>5. ASSUME ~ raced', NEW e \in Callers, call'[e].pc = "redial"
        PROVE  /\ call'[e].peer = None
               /\ \A d \in Callers : call'[d].pc = "hello" /\ call'[d].addr = call'[e].addr =>
                     call'[d].sub # challenges'[call'[d].addr]
    <3>1. CASE e = c
      BY <2>1, <2>3, <2>4, <3>1
    <3>2. CASE e # c
      <4>1. ~ raced
        BY <1>2, <2>5
      <4>2. \A d \in Callers : call'[d].pc = "hello" => call'[d] = call[d]
        BY <2>1, <2>3
      <4> QED
        BY <1>1, <2>3, <2>5, <3>2, <4>1, <4>2 DEF Redials
    <3> QED
      BY <3>1, <3>2
  <2> QED
    BY <2>5 DEF Redials
<1> QED
  BY <1>3, <1>4, <1>5, <1>6 DEF HelloOutcome

LEMMA RedialsEnds ==
    ASSUME IInv, WireInv, IdsInv, Redials, NEW c \in Callers, Ends(c)
    PROVE  Redials'
<1>1. CASE DialFails(c) \/ RedialSucceeds(c) \/ RedialFails(c)
  <2>1. challenges' = challenges /\ call[c] \in Calls
    BY <1>1 DEF DialFails, RedialSucceeds, RedialFails, IInv, Typed
  <2>2. raced => raced'
    BY <1>1, Zenon DEF DialFails, RedialSucceeds, RedialFails
  <2>3. \E kind \in {"ask", "proof"} : Outcome(c, call[c], kind, result[c])
    BY <1>1, DialFailsWire, RedialSucceedsWire
  <2> QED
    BY <2>1, <2>2, <2>3, RedialsOutcome
<1>2. CASE TimesOut(c) \/ \E r \in responses : Answered(c, r)
  <2>1. challenges' = challenges
    BY <1>2 DEF TimesOut, Answered
  <2>2. raced => raced'
    BY <1>2, Zenon DEF TimesOut, Answered
  <2> QED
    BY <1>2, <2>1, <2>2, EndedWire, IdleIs, RedialsTurn
<1>3. ASSUME NEW r \in responses, ProofAnswered(c, r) PROVE Redials'
  <2>1. challenges' = challenges /\ call[c] \in Calls /\ call[c].addr \in Addrs
    BY <1>3 DEF ProofAnswered, IInv, Typed
  <2>2. raced => raced'
    BY <1>3, Zenon DEF ProofAnswered
  <2>3. ProofOutcome(c, r)
    BY <1>3, ProofAnsweredWire
  <2>4. CASE DropOutcome(c, r.id) \/ Turn(c, Idle)
    BY <2>1, <2>2, <2>4, IdleIs, PartnersAre, RedialsTurn DEF DropOutcome
  <2>5. CASE Outcome(c, call[c], "ask", r.id)
    BY <2>1, <2>2, <2>5, RedialsOutcome
  <2> QED
    BY <2>3, <2>4, <2>5 DEF ProofOutcome
<1> QED
  BY <1>1, <1>2, <1>3, RedialsDial, RedialsHello DEF Ends

LEMMA RedialsFar ==
    ASSUME Redials,
           \/ UNCHANGED vars
           \/ \E a \in Addrs : Broadcast(a)
           \/ \E k \in DOMAIN conns : Listens(k) \/ Handle(k) \/ ServerEnds(k) \/ Lose(k)
    PROVE  Redials'
<1>1. challenges' = challenges
  BY DEF vars, Broadcast, Listens, Receive, NoticeEnd, CloseEnds, Handle, ServerEnds, Lose
<1>2. raced => raced'
  BY Zenon DEF vars, Broadcast, Listens, Receive, NoticeEnd, CloseEnds, Handle, ServerEnds, Lose
<1>3. \A c \in Callers : call'[c] = call[c] \/ call'[c] = Idle
  BY DEF vars, callVars, Broadcast, Listens, Receive, NoticeEnd, CloseEnds, Handle, ServerEnds, Lose
<1> QED
  BY <1>1, <1>2, <1>3, IdleIs, RedialsStay

LEMMA NextRedials == IInv /\ WireInv /\ IdsInv /\ Redials /\ [Next]_vars => Redials'
<1> SUFFICES ASSUME IInv, WireInv, IdsInv, Redials, [Next]_vars PROVE Redials'
  OBVIOUS
<1>1. ASSUME NEW c \in Callers, NEW a \in Addrs,
             CallUnknown(c, a) \/ CallKnown(c, a) \/ DisconnectAll(c, a)
      PROVE  Redials'
  BY <1>1, RedialsBegin
<1>2. ASSUME NEW c \in Callers, Ends(c) PROVE Redials'
  BY <1>2, RedialsEnds
<1>3. ASSUME NEW k \in DOMAIN conns,
             Listens(k) \/ Handle(k) \/ ServerEnds(k) \/ Lose(k)
      PROVE  Redials'
  BY <1>3, RedialsFar
<1>4. ASSUME NEW a \in Addrs, Broadcast(a) PROVE Redials'
  BY <1>4, RedialsFar
<1>5. CASE UNCHANGED vars
  BY <1>5, RedialsFar
<1> QED
  BY <1>1, <1>2, <1>3, <1>4, <1>5 DEF Next

-----------------------------------------------------------------------------
(* Who waits for an answer on which connection: a caller greets the        *)
(* connection in the table, unless another has been set a challenge since, *)
(* and proves itself on the one it remembers; and it does so alone.        *)

Greets(g, ps, ch, c, k) == g[c].pc = "hello" /\ g[c].sub = ch[g[c].addr] /\ ps[g[c].addr] = k
Proves(g, c, k) == g[c].pc = "proof" /\ g[c].peer = k

Read(cs, g, ps, rs, ch) ==
    /\ \A k \in DOMAIN cs : Sound(cs[k])
    /\ \A c \in Callers, k \in DOMAIN cs : Greets(g, ps, ch, c, k) =>
          /\ HelloOn(cs[k], g[c].sub, rs) /\ OnlyOn(cs, k, g[c].sub)
          /\ \A d \in Callers : ~ Proves(g, d, k)
    /\ \A c \in Callers, k \in DOMAIN cs : Proves(g, c, k) =>
          /\ ProofOn(cs[k], g[c].sub, rs) /\ OnlyOn(cs, k, g[c].sub)
          /\ \A d \in Callers : Proves(g, d, k) => d = c

ReadInv == ~ raced => Read(conns, call, peers, responses, challenges)

(* Steps of the network, the servers and of callers that write nothing or  *)
(* only ask: messages of W are new.                                        *)
Stays(cs, ds, rs, ss, W) ==
    /\ DOMAIN ds = DOMAIN cs
    /\ \A k \in DOMAIN cs :
         /\ Kept(cs[k], ds[k], rs, ss, {i \in Nat : OnlyOn(cs, k, i)})
         /\ MessageIds(ds[k]) \subseteq MessageIds(cs[k]) \cup W

Leaves(g, h, W) ==
    \A c \in Callers : h[c].pc \in {"hello", "proof"} =>
        h[c] = g[c] /\ h[c].sub \in Nat \ W /\ h[c].addr \in Addrs

LEMMA ReadFar ==
    ASSUME NEW cs, NEW ds, NEW g, NEW h, NEW ps, NEW qs, NEW rs, NEW ss, NEW ch, NEW W,
           Read(cs, g, ps, rs, ch), Stays(cs, ds, rs, ss, W), Leaves(g, h, W),
           None \notin DOMAIN cs, \A a \in Addrs : qs[a] = ps[a] \/ qs[a] = None
    PROVE  Read(ds, h, qs, ss, ch)
<1>1. DOMAIN ds = DOMAIN cs
  BY DEF Stays
<1>2. ASSUME NEW k \in DOMAIN cs PROVE Sound(cs[k]) /\ Sound(ds[k])
  BY DEF Read, Stays, Kept
<1>3. ASSUME NEW c \in Callers, NEW k \in DOMAIN cs, Greets(h, qs, ch, c, k)
      PROVE  Greets(g, ps, ch, c, k) /\ h[c] = g[c] /\ g[c].sub \in Nat /\ g[c].sub \notin W
  BY <1>3 DEF Greets, Leaves
<1>4. ASSUME NEW c \in Callers, NEW k, Proves(h, c, k)
      PROVE  Proves(g, c, k) /\ h[c] = g[c] /\ g[c].sub \in Nat /\ g[c].sub \notin W
  BY <1>4 DEF Proves, Leaves
<1>5. ASSUME NEW k \in DOMAIN cs, NEW i, i \notin W, OnlyOn(cs, k, i)
      PROVE  OnlyOn(ds, k, i)
  BY <1>1, <1>5 DEF OnlyOn, Stays
<1>6. ASSUME NEW c \in Callers, NEW k \in DOMAIN cs, Greets(h, qs, ch, c, k)
      PROVE  /\ HelloOn(ds[k], h[c].sub, ss) /\ OnlyOn(ds, k, h[c].sub)
             /\ \A d \in Callers : ~ Proves(h, d, k)
  <2>1. Greets(g, ps, ch, c, k) /\ h[c] = g[c] /\ g[c].sub \in Nat /\ g[c].sub \notin W
    BY <1>3, <1>6
  <2>2. /\ HelloOn(cs[k], g[c].sub, rs) /\ OnlyOn(cs, k, g[c].sub)
        /\ \A d \in Callers : ~ Proves(g, d, k)
    BY <2>1 DEF Read
  <2>3. HelloOn(ds[k], g[c].sub, ss)
    BY <1>2, <2>1, <2>2 DEF Stays, Kept
  <2> QED
    BY <1>4, <1>5, <2>1, <2>2, <2>3
<1>7. ASSUME NEW c \in Callers, NEW k \in DOMAIN cs, Proves(h, c, k)
      PROVE  /\ ProofOn(ds[k], h[c].sub, ss) /\ OnlyOn(ds, k, h[c].sub)
             /\ \A d \in Callers : Proves(h, d, k) => d = c
  <2>1. Proves(g, c, k) /\ h[c] = g[c] /\ g[c].sub \in Nat /\ g[c].sub \notin W
    BY <1>4, <1>7
  <2>2. /\ ProofOn(cs[k], g[c].sub, rs) /\ OnlyOn(cs, k, g[c].sub)
        /\ \A d \in Callers : Proves(g, d, k) => d = c
    BY <2>1 DEF Read
  <2>3. ProofOn(ds[k], g[c].sub, ss)
    BY <1>2, <2>1, <2>2 DEF Stays, Kept
  <2> QED
    BY <1>4, <1>5, <2>1, <2>2, <2>3
<1> QED
  BY <1>1, <1>2, <1>6, <1>7 DEF Read

(* A connection is made with a, and put into the table: nobody greets it   *)
(* yet.                                                                    *)
Grows(cs, ds, g, ps, qs, ch, eh, a) ==
    /\ DOMAIN ds = 1..(Len(cs) + 1) /\ \A k \in DOMAIN cs : ds[k] = cs[k]
    /\ ds[Len(cs) + 1] = Connection(a)
    /\ \A b \in Addrs : b # a => qs[b] = ps[b] /\ eh[b] = ch[b]
    /\ qs[a] = Len(cs) + 1 /\ \A b \in Addrs : ps[b] \in 0..Len(cs)
    /\ \A c \in Callers : g[c].pc \in {"hello", "proof"} => g[c].addr \in Addrs
    /\ \A c \in Callers : g[c].peer \in 0..Len(cs)
    /\ \A c \in Callers : g[c].pc = "hello" /\ g[c].addr = a => g[c].sub # eh[a]

LEMMA ReadNew ==
    ASSUME NEW cs \in Seq(Wires), NEW ds, NEW g, NEW ps, NEW qs, NEW rs, NEW ch, NEW eh,
           NEW a \in Addrs, Read(cs, g, ps, rs, ch), Grows(cs, ds, g, ps, qs, ch, eh, a)
    PROVE  /\ Read(ds, g, qs, rs, eh)
           /\ \A c \in Callers : /\ ~ Greets(g, qs, eh, c, Len(cs) + 1)
                                 /\ ~ Proves(g, c, Len(cs) + 1)
<1> USE DEF Grows
<1>1. PICK n \in Nat : n = Len(cs) /\ DOMAIN cs = 1..n
  BY Element
<1>2. DOMAIN ds = 1..(n + 1) /\ ds[n + 1] = Connection(a) /\ qs[a] = n + 1 /\ n + 1 \notin 1..n
  BY <1>1
<1>3. /\ ~ ds[n + 1].garbled /\ ~ ds[n + 1].subscribed /\ ~ ds[n + 1].mine /\ ~ ds[n + 1].theirs
      /\ ds[n + 1].up = <<>> /\ ds[n + 1].down = <<>>
  BY <1>2 DEF Connection
<1>4. MessageIds(ds[n + 1]) = {} /\ Sound(ds[n + 1])
  BY <1>3 DEF MessageIds, UpIds, DownIds, Sound, Plain
<1>5. ASSUME NEW k \in 1..n, NEW i, OnlyOn(cs, k, i) PROVE OnlyOn(ds, k, i)
  <2>1. ASSUME NEW j \in 1..(n + 1), i \in MessageIds(ds[j]) PROVE j = k
    <3>1. j # n + 1
      BY <1>4, <2>1
    <3>2. j \in DOMAIN cs /\ ds[j] = cs[j]
      BY <1>1, <3>1
    <3> QED
      BY <1>5, <2>1, <3>2 DEF OnlyOn
  <2> QED
    BY <1>2, <2>1 DEF OnlyOn
<1>6. ASSUME NEW c \in Callers, NEW k \in 1..(n + 1), Greets(g, qs, eh, c, k)
      PROVE  k \in 1..n /\ Greets(g, ps, ch, c, k)
  <2>1. g[c].addr \in Addrs /\ g[c].addr # a
    BY <1>6 DEF Greets
  <2>2. Greets(g, ps, ch, c, k)
    BY <1>6, <2>1 DEF Greets
  <2>3. k \in 0..n
    BY <1>1, <2>1, <2>2 DEF Greets
  <2> QED
    BY <1>6, <2>2, <2>3
<1>7. ASSUME NEW c \in Callers, NEW k \in 1..(n + 1), Proves(g, c, k)
      PROVE  k \in 1..n
  BY <1>1, <1>7 DEF Proves
<1>8. ASSUME NEW k \in 1..n PROVE k \in DOMAIN cs /\ ds[k] = cs[k]
  BY <1>1, <1>8
<1>9. ASSUME NEW k \in 1..(n + 1) PROVE Sound(ds[k])
  BY <1>4, <1>8 DEF Read
<1>10. ASSUME NEW c \in Callers, NEW k \in 1..(n + 1), Greets(g, qs, eh, c, k)
       PROVE  /\ HelloOn(ds[k], g[c].sub, rs) /\ OnlyOn(ds, k, g[c].sub)
              /\ \A d \in Callers : ~ Proves(g, d, k)
  BY <1>5, <1>6, <1>8, <1>10 DEF Read
<1>11. ASSUME NEW c \in Callers, NEW k \in 1..(n + 1), Proves(g, c, k)
       PROVE  /\ ProofOn(ds[k], g[c].sub, rs) /\ OnlyOn(ds, k, g[c].sub)
              /\ \A d \in Callers : Proves(g, d, k) => d = c
  BY <1>5, <1>7, <1>8, <1>11 DEF Read
<1>12. Read(ds, g, qs, rs, eh)
  BY <1>2, <1>9, <1>10, <1>11 DEF Read
<1>13. ASSUME NEW c \in Callers
       PROVE  ~ Greets(g, qs, eh, c, n + 1) /\ ~ Proves(g, c, n + 1)
  <2>1. n + 1 \in 1..(n + 1) /\ n + 1 \notin 1..n
    OBVIOUS
  <2> QED
    BY <1>6, <1>7, <2>1
<1> QED
  BY <1>1, <1>12, <1>13

(* A connection on which the authentication can go on: nothing is on its   *)
(* way and neither end has the secret.                                     *)
Fresh(r) == ~ r.mine /\ (~ r.bare => ~ r.theirs /\ r.up = <<>> /\ r.down = <<>>)

LEMMA WrittenAuth ==
    ASSUME NEW r \in Wires, Sound(r), Fresh(r), NEW m \in Requests, m.kind \in {"hello", "proof"},
           ~ m.enc, NEW rs, m.id \notin Received(rs), NEW s, s = [r EXCEPT !.up = Append(r.up, m)]
    PROVE  /\ Sound(s)
           /\ m.kind = "hello" => HelloOn(s, m.id, rs)
           /\ m.kind = "proof" => ProofOn(s, m.id, rs)
           /\ MessageIds(s) \subseteq MessageIds(r) \cup {m.id}
<1>1. /\ ~ s.mine /\ s.theirs = r.theirs /\ s.bare = r.bare /\ s.garbled = r.garbled
      /\ s.subscribed = r.subscribed /\ s.down = r.down /\ s.up = Append(r.up, m)
  BY DEF Wires, Fresh
<1>2. /\ \A x \in DOMAIN s.up : (x \in DOMAIN r.up /\ s.up[x] = r.up[x]) \/ s.up[x] = m
      /\ r.up = <<>> => Len(s.up) <= 1
  <2>1. r.up \in Seq(Requests)
    BY DEF Wires
  <2> QED
    BY <1>1, <2>1, OneMore
<1>3. \A q \in rs : q.id # m.id
  BY DEF Received
<1>4. MessageIds(s) \subseteq MessageIds(r) \cup {m.id}
  BY <1>1, <1>2 DEF MessageIds, UpIds, DownIds
<1>5. ASSUME ~ s.bare
      PROVE  /\ ~ r.theirs /\ r.down = <<>> /\ Plain(r)
             /\ \A x \in DOMAIN s.up : s.up[x] = m
             /\ Len(s.up) <= 1
  <2>1. ~ r.bare
    BY <1>1, <1>5
  <2>2. ~ r.theirs /\ r.up = <<>> /\ r.down = <<>> /\ Plain(r)
    BY <2>1 DEF Fresh, Sound
  <2> QED
    BY <1>2, <2>2
<1>6. ASSUME ~ s.bare PROVE ~ s.theirs /\ ~ s.garbled /\ ~ s.subscribed /\ s.down = <<>>
  BY <1>1, <1>5, <1>6 DEF Plain
<1>7. Sound(s)
  <2>1. ASSUME ~ s.bare PROVE Plain(s)
    BY <1>5, <1>6, <2>1 DEF Plain
  <2> QED
    BY <1>1, <2>1 DEF Sound
<1>8. m.kind = "hello" => HelloOn(s, m.id, rs)
  BY <1>1, <1>5, <1>6 DEF HelloOn
<1>9. m.kind = "proof" => ProofOn(s, m.id, rs)
  BY <1>1, <1>3, <1>5, <1>6 DEF ProofOn
<1> QED
  BY <1>4, <1>7, <1>8, <1>9

(* A caller writes a request of an authentication on k, as f: nobody else  *)
(* waits there.                                                            *)
Authenticates(cs, g, h, ps, rs, ch, c, k, kind, id) ==
    /\ Fresh(cs[k])
    /\ id \notin Received(rs) /\ \A j \in DOMAIN cs : id \notin MessageIds(cs[j])
    /\ \A d \in Callers : d # c => h[d] = g[d]
    /\ h[c].pc = kind /\ h[c].sub = id
    /\ kind = "hello" => ps[h[c].addr] = k
    /\ kind = "proof" => h[c].peer \in {k, None}
    /\ \A d \in Callers : d # c =>
         /\ ~ Greets(g, ps, ch, d, k) /\ ~ Proves(g, d, k)
         /\ g[d].pc \in {"hello", "proof"} => g[d].sub # id

LEMMA ReadAuth ==
    ASSUME NEW cs \in Seq(Wires), NEW g, NEW ps, NEW rs, NEW ch, Read(cs, g, ps, rs, ch),
           NEW k \in DOMAIN cs, NEW kind \in {"hello", "proof"}, NEW id \in Nat, NEW chal \in Nat,
           NEW c \in Callers, NEW h, Authenticates(cs, g, h, ps, rs, ch, c, k, kind, id)
    PROVE  Read(Written(cs, k, kind, id, chal), h, ps, rs, ch)
<1>0. /\ Fresh(cs[k]) /\ id \notin Received(rs) /\ \A j \in DOMAIN cs : id \notin MessageIds(cs[j])
      /\ \A d \in Callers : d # c => h[d] = g[d]
      /\ h[c].pc = kind /\ h[c].sub = id
      /\ kind = "hello" => ps[h[c].addr] = k
      /\ kind = "proof" => h[c].peer \in {k, None}
  BY DEF Authenticates
<1>a. \A d \in Callers : d # c =>
        /\ ~ Greets(g, ps, ch, d, k) /\ ~ Proves(g, d, k)
        /\ g[d].pc \in {"hello", "proof"} => g[d].sub # id
  BY DEF Authenticates
<1> USE <1>0
<1> DEFINE r == cs[k]
           m == [kind |-> kind, id |-> id, chal |-> chal, enc |-> r.mine]
           ds == Written(cs, k, kind, id, chal)
<1>1. r \in Wires /\ k # None
  BY Element DEF None
<1>2. m \in Requests /\ m.kind = kind /\ m.id = id /\ ~ m.enc
  BY <1>1 DEF Wires, Requests, Fresh
<1>3. DOMAIN ds = DOMAIN cs /\ \A j \in DOMAIN cs : j # k => ds[j] = cs[j]
  BY DEF Written
<1>4. ds[k] = [r EXCEPT !.up = Append(r.up, m)]
  BY <1>1 DEF Written, Wires
<1>5. Sound(r)
  BY DEF Read
<1> HIDE DEF m, ds
<1>6. /\ Sound(ds[k])
      /\ kind = "hello" => HelloOn(ds[k], id, rs)
      /\ kind = "proof" => ProofOn(ds[k], id, rs)
      /\ MessageIds(ds[k]) \subseteq MessageIds(r) \cup {id}
  BY SMTT(60), <1>1, <1>2, <1>4, <1>5, WrittenAuth
<1> HIDE DEF r
<1>7. \A j \in DOMAIN cs : MessageIds(ds[j]) \subseteq MessageIds(cs[j]) \cup {id}
  BY <1>3, <1>6 DEF r
<1>8. OnlyOn(ds, k, id)
  BY <1>3 DEF OnlyOn
<1>9. ASSUME NEW j, NEW i, i # id, OnlyOn(cs, j, i) PROVE OnlyOn(ds, j, i)
  BY <1>3, <1>7, <1>9 DEF OnlyOn
<1>10. ASSUME NEW d \in Callers, d # c, NEW j \in DOMAIN cs, Greets(h, ps, ch, d, j)
       PROVE  Greets(g, ps, ch, d, j) /\ j # k /\ g[d].sub # id /\ h[d] = g[d]
  <2>1. h[d] = g[d]
    BY <1>10
  <2>2. Greets(g, ps, ch, d, j) /\ g[d].pc = "hello"
    BY <1>10, <2>1 DEF Greets
  <2> QED
    BY <1>a, <1>10, <2>1, <2>2
<1>11. ASSUME NEW d \in Callers, d # c, NEW j \in DOMAIN cs, Proves(h, d, j)
       PROVE  Proves(g, d, j) /\ j # k /\ g[d].sub # id /\ h[d] = g[d]
  <2>1. h[d] = g[d]
    BY <1>11
  <2>2. Proves(g, d, j) /\ g[d].pc = "proof"
    BY <1>11, <2>1 DEF Proves
  <2> QED
    BY <1>a, <1>11, <2>1, <2>2
<1>12. ASSUME NEW j \in DOMAIN cs, Greets(h, ps, ch, c, j) PROVE j = k /\ kind = "hello"
  BY <1>12 DEF Greets
<1>13. ASSUME NEW j \in DOMAIN cs, Proves(h, c, j) PROVE j = k /\ kind = "proof"
  <2>1. j # None
    <3>1. cs \in Seq(Wires)
      OBVIOUS
    <3> QED
      BY <3>1, Element DEF None
  <2> QED
    BY <1>13, <2>1 DEF Proves
<1>14. ASSUME NEW d \in Callers, NEW j \in DOMAIN cs, Greets(h, ps, ch, d, j)
       PROVE  /\ HelloOn(ds[j], h[d].sub, rs) /\ OnlyOn(ds, j, h[d].sub)
              /\ \A e \in Callers : ~ Proves(h, e, j)
  <2>1. CASE d = c
    BY <1>6, <1>8, <1>11, <1>12, <1>13, <1>14, <2>1
  <2>2. CASE d # c
    <3>1. Greets(g, ps, ch, d, j) /\ j # k /\ g[d].sub # id /\ h[d] = g[d]
      BY <1>10, <1>14, <2>2
    <3>2. /\ HelloOn(cs[j], g[d].sub, rs) /\ OnlyOn(cs, j, g[d].sub)
          /\ \A e \in Callers : ~ Proves(g, e, j)
      BY <3>1 DEF Read
    <3> QED
      BY <1>3, <1>9, <1>11, <1>13, <3>1, <3>2
  <2> QED
    BY <2>1, <2>2
<1>15. ASSUME NEW d \in Callers, NEW j \in DOMAIN cs, Proves(h, d, j)
       PROVE  /\ ProofOn(ds[j], h[d].sub, rs) /\ OnlyOn(ds, j, h[d].sub)
              /\ \A e \in Callers : Proves(h, e, j) => e = d
  <2>1. CASE d = c
    BY <1>6, <1>8, <1>11, <1>13, <1>15, <2>1
  <2>2. CASE d # c
    <3>1. Proves(g, d, j) /\ j # k /\ g[d].sub # id /\ h[d] = g[d]
      BY <1>11, <1>15, <2>2
    <3>2. /\ ProofOn(cs[j], g[d].sub, rs) /\ OnlyOn(cs, j, g[d].sub)
          /\ \A e \in Callers : Proves(g, e, j) => e = d
      BY <3>1 DEF Read
    <3> QED
      BY <1>3, <1>9, <1>11, <1>13, <3>1, <3>2
  <2> QED
    BY <2>1, <2>2
<1>16. \A j \in DOMAIN cs : Sound(ds[j])
  BY <1>3, <1>6 DEF Read
<1>17. Read(ds, h, ps, rs, ch)
  BY <1>3, <1>14, <1>15, <1>16 DEF Read
<1> QED
  BY <1>17 DEF ds

(* The proof was taken: this end gets the secret, and the caller goes on.  *)
LEMMA ReadTrust ==
    ASSUME NEW cs \in Seq(Wires), NEW g, NEW ps, NEW rs, NEW ch, Read(cs, g, ps, rs, ch),
           NEW ss, ss \subseteq rs,
           NEW k \in DOMAIN cs, NEW c \in Callers, Proves(g, c, k),
           NEW q \in rs, q.id = g[c].sub, q.ok,
           NEW h, \A d \in Callers : d # c => h[d] = g[d], h[c].pc \notin {"hello", "proof"}
    PROVE  Read([cs EXCEPT ![k].mine = TRUE], h, ps, ss, ch)
<1> DEFINE r == cs[k]
           s == [r EXCEPT !.mine = TRUE]
           ds == [cs EXCEPT ![k].mine = TRUE]
<1>1. r \in Wires
  BY Element
<1>2. DOMAIN ds = DOMAIN cs /\ ds[k] = s /\ \A j \in DOMAIN cs : j # k => ds[j] = cs[j]
  OBVIOUS
<1>3. /\ s.mine /\ s.theirs = r.theirs /\ s.bare = r.bare /\ s.garbled = r.garbled
      /\ s.up = r.up /\ s.down = r.down
  BY <1>1 DEF Wires
<1>4. MessageIds(s) = MessageIds(r)
  BY <1>3 DEF MessageIds, UpIds, DownIds
<1> HIDE DEF s, ds
<1>5. /\ Sound(r) /\ ProofOn(r, g[c].sub, rs)
      /\ \A d \in Callers : (Proves(g, d, k) => d = c) /\ ~ Greets(g, ps, ch, d, k)
  BY DEF Read
<1>6. g[c].sub \in Received(rs)
  BY DEF Received
<1>7. Sound(s)
  <2>1. ASSUME ~ r.bare PROVE r.up = <<>> /\ r.down = <<>> /\ r.theirs /\ ~ r.garbled
    BY <1>5, <1>6, <2>1 DEF ProofOn, Sound, Plain
  <2>2. ASSUME ~ s.bare PROVE Secret(s)
    BY <1>3, <2>1, <2>2 DEF Secret
  <2> QED
    BY <1>3, <2>2 DEF Sound
<1>8. ASSUME NEW j, NEW i, OnlyOn(cs, j, i) PROVE OnlyOn(ds, j, i)
  BY <1>2, <1>4, <1>8 DEF OnlyOn
<1>9. ASSUME NEW d \in Callers, NEW j \in DOMAIN cs, Greets(h, ps, ch, d, j)
      PROVE  Greets(g, ps, ch, d, j) /\ j # k /\ h[d] = g[d]
  BY <1>5, <1>9 DEF Greets
<1>10. ASSUME NEW d \in Callers, NEW j \in DOMAIN cs, Proves(h, d, j)
       PROVE  Proves(g, d, j) /\ j # k /\ h[d] = g[d]
  BY <1>5, <1>10 DEF Proves
<1>11. Received(ss) \subseteq Received(rs)
  BY DEF Received
<1>12. ASSUME NEW d \in Callers, NEW j \in DOMAIN cs, Greets(h, ps, ch, d, j)
       PROVE  /\ HelloOn(ds[j], h[d].sub, ss) /\ OnlyOn(ds, j, h[d].sub)
              /\ \A e \in Callers : ~ Proves(h, e, j)
  <2>1. Greets(g, ps, ch, d, j) /\ j # k /\ h[d] = g[d]
    BY <1>9, <1>12
  <2>2. /\ HelloOn(cs[j], g[d].sub, rs) /\ OnlyOn(cs, j, g[d].sub)
        /\ \A e \in Callers : ~ Proves(g, e, j)
    BY <2>1 DEF Read
  <2>3. HelloOn(cs[j], g[d].sub, ss)
    BY <1>11, <2>2 DEF HelloOn
  <2> QED
    BY <1>2, <1>8, <1>10, <2>1, <2>2, <2>3
<1>13. ASSUME NEW d \in Callers, NEW j \in DOMAIN cs, Proves(h, d, j)
       PROVE  /\ ProofOn(ds[j], h[d].sub, ss) /\ OnlyOn(ds, j, h[d].sub)
              /\ \A e \in Callers : Proves(h, e, j) => e = d
  <2>1. Proves(g, d, j) /\ j # k /\ h[d] = g[d]
    BY <1>10, <1>13
  <2>2. /\ ProofOn(cs[j], g[d].sub, rs) /\ OnlyOn(cs, j, g[d].sub)
        /\ \A e \in Callers : Proves(g, e, j) => e = d
    BY <2>1 DEF Read
  <2>3. ProofOn(cs[j], g[d].sub, ss)
    BY <1>11, <2>2 DEF ProofOn
  <2> QED
    BY <1>2, <1>8, <1>10, <2>1, <2>2, <2>3
<1>14. \A j \in DOMAIN cs : Sound(ds[j])
  BY <1>2, <1>7 DEF Read
<1>15. Read(ds, h, ps, ss, ch)
  BY <1>2, <1>12, <1>13, <1>14 DEF Read
<1> QED
  BY <1>15 DEF ds

(* The steps in these terms: one connection changes, the others do not.    *)
Only(cs, k) == {i \in Nat : OnlyOn(cs, k, i)}

LEMMA WithinSelf == ASSUME NEW d \in Seq(Messages) PROVE Within(d, d)
BY Element DEF Within

LEMMA KeptSame ==
    ASSUME NEW r \in Wires, NEW rs, NEW ss, NEW I, NoneNew(rs, ss, I)
    PROVE  Kept(r, r, rs, ss, I)
<1>1. r.down \in Seq(Messages)
  BY DEF Wires
<1>2. Within(r.down, r.down)
  BY <1>1, WithinSelf
<1> QED
  BY <1>2, KeptLess DEF Alike

LEMMA StaysSame ==
    ASSUME NEW cs \in Seq(Wires), NEW rs, NEW ss, ss \subseteq rs, NEW W
    PROVE  Stays(cs, cs, rs, ss, W)
<1>1. ASSUME NEW k \in DOMAIN cs PROVE Kept(cs[k], cs[k], rs, ss, Only(cs, k))
  <2>1. cs[k] \in Wires
    BY Element
  <2> QED
    BY <2>1, KeptSame DEF NoneNew
<1> QED
  BY <1>1 DEF Stays, Only

LEMMA StaysOne ==
    ASSUME NEW cs \in Seq(Wires), NEW k \in DOMAIN cs, NEW s \in Wires, NEW rs, NEW ss, NEW W,
           Kept(cs[k], s, rs, ss, Only(cs, k)),
           MessageIds(s) \subseteq MessageIds(cs[k]) \cup W,
           \A j \in DOMAIN cs : j # k => NoneNew(rs, ss, Only(cs, j))
    PROVE  Stays(cs, [cs EXCEPT ![k] = s], rs, ss, W)
<1> DEFINE ds == [cs EXCEPT ![k] = s]
<1>1. DOMAIN ds = DOMAIN cs /\ \A j \in DOMAIN cs : ds[j] = IF j = k THEN s ELSE cs[j]
  OBVIOUS
<1> HIDE DEF ds
<1>2. ASSUME NEW j \in DOMAIN cs
      PROVE  /\ Kept(cs[j], ds[j], rs, ss, Only(cs, j))
             /\ MessageIds(ds[j]) \subseteq MessageIds(cs[j]) \cup W
  <2>1. CASE j = k
    BY <1>1, <2>1
  <2>2. CASE j # k
    <3>1. cs[j] \in Wires /\ ds[j] = cs[j]
      BY <1>1, <2>2, Element
    <3> QED
      BY <2>2, <3>1, KeptSame
  <2> QED
    BY <2>1, <2>2
<1>3. Stays(cs, ds, rs, ss, W)
  BY <1>1, <1>2 DEF Stays, Only
<1> QED
  BY <1>3 DEF ds

LEMMA LessIds ==
    ASSUME NEW r \in Wires, NEW s \in Wires, s.up = r.up \/ s.up = <<>>, Within(r.down, s.down)
    PROVE  MessageIds(s) \subseteq MessageIds(r)
<1>1. UpIds(s) \subseteq UpIds(r)
  BY DEF UpIds
<1>2. DownIds(s) \subseteq DownIds(r)
  BY DEF DownIds, Within
<1> QED
  BY <1>1, <1>2 DEF MessageIds

LEMMA StaysLess ==
    ASSUME NEW cs \in Seq(Wires), NEW k \in DOMAIN cs, NEW s \in Wires, NEW rs,
           Alike(cs[k], s), s.up = cs[k].up \/ s.up = <<>>, Within(cs[k].down, s.down)
    PROVE  Stays(cs, [cs EXCEPT ![k] = s], rs, rs, {})
<1>1. cs[k] \in Wires
  BY Element
<1>2. Kept(cs[k], s, rs, rs, Only(cs, k)) /\ MessageIds(s) \subseteq MessageIds(cs[k])
  BY <1>1, KeptLess, LessIds DEF NoneNew
<1> QED
  BY <1>2, StaysOne DEF NoneNew

LEMMA StaysClosing ==
    ASSUME NEW cs \in Seq(Wires), NEW k \in DOMAIN cs, NEW rs
    PROVE  Stays(cs, Closing(cs, k), rs, rs, {})
<1> DEFINE r == cs[k]
           s == [r EXCEPT !.state = Shut(r)]
<1>1. r \in Wires
  BY Element
<1>2. s \in Wires /\ Alike(r, s) /\ s.up = r.up /\ s.down = r.down
  BY <1>1 DEF Wires, Shut, States, Alike
<1>3. Closing(cs, k) = [cs EXCEPT ![k] = s]
  BY DEF Closing, Shut
<1>4. Within(r.down, r.down)
  BY <1>1, WithinSelf DEF Wires
<1> HIDE DEF s
<1>5. Stays(cs, [cs EXCEPT ![k] = s], rs, rs, {})
  BY <1>2, <1>4, StaysLess
<1> QED
  BY <1>3, <1>5

LEMMA StaysLeft ==
    ASSUME conns \in Seq(Wires), NEW k \in DOMAIN conns, NEW rs
    PROVE  Stays(conns, Left(k), rs, rs, {})
<1> DEFINE r == conns[k]
           s == [r EXCEPT !.state = Shut(r), !.listening = FALSE]
<1>1. r \in Wires
  BY Element
<1>2. s \in Wires /\ Alike(r, s) /\ s.up = r.up /\ s.down = r.down
  BY <1>1 DEF Wires, Shut, States, Alike
<1>3. Left(k) = [conns EXCEPT ![k] = s]
  BY DEF Left, Closing, Shut
<1>4. Within(r.down, r.down)
  BY <1>1, WithinSelf DEF Wires
<1> HIDE DEF s
<1>5. Stays(conns, [conns EXCEPT ![k] = s], rs, rs, {})
  BY <1>2, <1>4, StaysLess
<1> QED
  BY <1>3, <1>5

LEMMA StaysEnded ==
    ASSUME conns \in Seq(Wires), NEW k \in DOMAIN conns, ServerEnds(k), NEW rs
    PROVE  Stays(conns, conns', rs, rs, {})
<1> DEFINE r == conns[k]
           s == [r EXCEPT !.ended = TRUE]
<1>1. r \in Wires
  BY Element
<1>2. s \in Wires /\ Alike(r, s) /\ s.up = r.up /\ s.down = r.down
  BY <1>1 DEF Wires, Alike
<1>3. conns' = [conns EXCEPT ![k] = s]
  BY DEF ServerEnds
<1>4. Within(r.down, r.down)
  BY <1>1, WithinSelf DEF Wires
<1> HIDE DEF s
<1>5. Stays(conns, [conns EXCEPT ![k] = s], rs, rs, {})
  BY <1>2, <1>4, StaysLess
<1> QED
  BY <1>3, <1>5

LEMMA FirstWithin ==
    ASSUME NEW d \in Seq(Messages), NEW n \in 0..Len(d)
    PROVE  SubSeq(d, 1, n) \in Seq(Messages) /\ Within(d, SubSeq(d, 1, n))
<1> DEFINE e == SubSeq(d, 1, n)
<1>1. PICK l \in Nat : l = Len(d) /\ DOMAIN d = 1..l
  BY Element
<1>2. /\ e \in Seq(Messages) /\ Len(e) = n
      /\ \A x \in 1..n : e[x] = d[x]
  BY <1>1
<1> HIDE DEF e
<1>3. n \in Nat /\ n <= l /\ DOMAIN e = 1..n
  BY <1>1, <1>2, Element
<1>4. d = <<>> => e = <<>>
  <2>1. ASSUME d = <<>> PROVE e = <<>>
    <3>1. n = 0
      BY <1>1, <1>3, <2>1
    <3> QED
      BY <1>2, <3>1, EmptySeq
  <2> QED
    BY <2>1
<1>5. \A x \in 1..n : x \in 1..l
  BY <1>3
<1> QED
  BY <1>1, <1>2, <1>3, <1>4, <1>5 DEF Within, e

LEMMA StaysLost ==
    ASSUME conns \in Seq(Wires), NEW k \in DOMAIN conns, Lose(k), NEW rs
    PROVE  Stays(conns, conns', rs, rs, {})
<1> DEFINE r == conns[k]
<1>1. r \in Wires /\ r.down \in Seq(Messages)
  <2>1. r \in Wires
    BY Element
  <2> QED
    BY <2>1 DEF Wires
<1>2. PICK n \in 0..Len(r.down) :
          conns' = [conns EXCEPT ![k].ended = TRUE, ![k].up = <<>>, ![k].down = SubSeq(@, 1, n)]
  BY DEF Lose
<1> DEFINE e == SubSeq(r.down, 1, n)
           s == [r EXCEPT !.ended = TRUE, !.up = <<>>, !.down = e]
<1>3. Within(r.down, e) /\ e \in Seq(Messages)
  BY <1>1, FirstWithin
<1>4. conns' = [conns EXCEPT ![k] = s]
  BY <1>1, <1>2 DEF Wires
<1> HIDE DEF e
<1>5. s \in Wires /\ s.up = <<>> /\ s.down = e
  BY <1>1, <1>3, LostIs
<1>6. Alike(r, s)
  BY <1>1 DEF Wires, Alike
<1> HIDE DEF s
<1>7. Stays(conns, [conns EXCEPT ![k] = s], rs, rs, {})
  BY <1>3, <1>5, <1>6, StaysLess
<1> QED
  BY <1>4, <1>7

LEMMA StaysClosed ==
    ASSUME conns \in Seq(Wires), NEW k \in DOMAIN conns, CloseEnds(k), NEW rs
    PROVE  Stays(conns, conns', rs, rs, {})
<1> DEFINE r == conns[k]
           s == Cut(r)
<1>1. r \in Wires /\ r.down \in Seq(Messages)
  <2>1. r \in Wires
    BY Element
  <2> QED
    BY <2>1 DEF Wires
<1>2. Alike(r, s) /\ s.up = r.up /\ s.down = <<>>
  BY CloseEndsFewer DEF Alike
<1>3. s \in Wires
  <2>1. <<>> \in Seq(Messages) /\ "closed" \in States
    BY DEF States
  <2> QED
    BY <1>1, <2>1 DEF Wires, Cut
<1>4. conns' = [conns EXCEPT ![k] = s]
  BY DEF CloseEnds, Cut
<1>5. Within(r.down, <<>>)
  <2>1. Len(r.down) \in Nat /\ Len(<<>>) = 0
    BY <1>1, Element
  <2> QED
    BY <2>1 DEF Within
<1> HIDE DEF s
<1>6. Stays(conns, [conns EXCEPT ![k] = s], rs, rs, {})
  BY <1>2, <1>3, <1>5, StaysLess
<1> QED
  BY <1>4, <1>6

LEMMA StaysReceived ==
    ASSUME conns \in Seq(Wires), NEW k \in DOMAIN conns, Receive(k)
    PROVE  Stays(conns, conns', responses, responses', {})
<1> DEFINE r == conns[k]
           m == Head(r.down)
           s == [r EXCEPT !.down = Tail(r.down)]
           t == [r EXCEPT !.down = Tail(r.down), !.state = Shut(r), !.listening = FALSE,
                          !.garbled = TRUE]
<1>1. r \in Wires /\ r.down # <<>> /\ r.state # "closed" /\ r.down \in Seq(Messages)
  <2>1. r \in Wires
    BY Element
  <2> QED
    BY <2>1 DEF Receive, Wires
<1>2. Within(r.down, Tail(r.down)) /\ Tail(r.down) \in Seq(Messages)
      /\ 1 \in DOMAIN r.down /\ m = r.down[1]
  BY <1>1, OnlyOne DEF Within
<1>3. s \in Wires /\ s.up = r.up /\ s.down = Tail(r.down) /\ Alike(r, s)
  BY <1>1, <1>2 DEF Wires, Alike
<1>4. t \in Wires /\ t.up = r.up /\ t.down = Tail(r.down) /\ t.mine = r.mine /\ t.bare = r.bare
  BY <1>1, <1>2 DEF Wires, Shut, States
<1>5. MessageIds(s) \subseteq MessageIds(r) /\ MessageIds(t) \subseteq MessageIds(r)
  <2> HIDE DEF s, t
  <2> QED
    BY <1>1, <1>2, <1>3, <1>4, LessIds
<1>6. CASE m.enc # r.mine
  <2>1. conns' = [conns EXCEPT ![k] = t] /\ responses' = responses
    BY <1>1, <1>6 DEF Receive, Closing, Shut, Wires
  <2>2. Sound(r) => r.bare
    BY <1>1, <1>6, Misread
  <2> HIDE DEF t
  <2>3. Kept(r, t, responses, responses, Only(conns, k))
    BY <1>4, <2>2, KeptBare
  <2>4. Stays(conns, [conns EXCEPT ![k] = t], responses, responses, {})
    BY <1>4, <1>5, <2>3, StaysOne DEF NoneNew
  <2> QED
    BY <2>1, <2>4
<1>7. CASE m.enc = r.mine /\ m.kind = "answer"
  <2> DEFINE v == [id |-> m.id, ok |-> m.ok]
             ss == responses \cup {v}
  <2>1. conns' = [conns EXCEPT ![k] = s] /\ responses' = ss
    BY <1>1, <1>7 DEF Receive, Wires
  <2>2. m.id \in MessageIds(r) /\ v.id = m.id
    BY <1>2, <1>7 DEF MessageIds, DownIds
  <2> HIDE DEF s
  <2>3. Kept(r, s, responses, ss, Only(conns, k))
    BY <1>1, <1>3, KeptReceived
  <2> HIDE DEF v
  <2>4. ASSUME NEW j \in DOMAIN conns, j # k PROVE NoneNew(responses, ss, Only(conns, j))
    BY <2>2, <2>4 DEF NoneNew, Only, OnlyOn
  <2> HIDE DEF ss
  <2>5. Stays(conns, [conns EXCEPT ![k] = s], responses, ss, {})
    BY <1>3, <1>5, <2>3, <2>4, StaysOne
  <2> QED
    BY <2>1, <2>5
<1>8. CASE m.enc = r.mine /\ m.kind = "row"
  <2>1. conns' = [conns EXCEPT ![k] = s] /\ responses' = responses
    BY <1>1, <1>8 DEF Receive, Wires
  <2> HIDE DEF s
  <2>2. Stays(conns, [conns EXCEPT ![k] = s], responses, responses, {})
    BY <1>2, <1>3, StaysLess
  <2> QED
    BY <2>1, <2>2
<1> QED
  BY <1>6, <1>7, <1>8 DEF Receive

LEMMA StaysHandled ==
    ASSUME conns \in Seq(Wires), NEW k \in DOMAIN conns, Handle(k), NEW rs
    PROVE  Stays(conns, conns', rs, rs, {})
<1> DEFINE r == conns[k]
<1>1. r \in Wires /\ r.up \in Seq(Requests) /\ r.down \in Seq(Messages)
  <2>1. r \in Wires
    BY Element
  <2> QED
    BY <2>1 DEF Wires
<1>2. CASE /\ conns' = [conns EXCEPT ![k] = Choked(r)]
           /\ r.up # <<>> /\ Head(r.up).enc # r.theirs
  <2> DEFINE s == Choked(r)
  <2>1. s \in Wires /\ s.up = <<>> /\ s.down = r.down /\ s.mine = r.mine /\ s.bare = r.bare
    <3>1. <<>> \in Seq(Requests)
      OBVIOUS
    <3> QED
      BY <1>1, <3>1 DEF Wires, Choked
  <2>2. Sound(r) => r.bare
    BY <1>1, <1>2, Misread
  <2> HIDE DEF s
  <2>3. Kept(r, s, rs, rs, Only(conns, k))
    BY <2>1, <2>2, KeptBare
  <2>4. MessageIds(s) \subseteq MessageIds(r)
    BY <1>1, <2>1, LessIds, WithinSelf
  <2>5. Stays(conns, [conns EXCEPT ![k] = s], rs, rs, {})
    BY <2>1, <2>3, <2>4, StaysOne DEF NoneNew
  <2> QED
    BY <1>2, <2>5 DEF s
<1>3. ASSUME NEW m \in Messages, NEW t \in BOOLEAN, NEW b \in BOOLEAN, Handles(k, m, t, b)
      PROVE  Stays(conns, conns', rs, rs, {})
  <2> DEFINE s == Handled(r, t, b, m)
  <2>1. /\ r.up # <<>> /\ m.kind = "answer" /\ m.id = Head(r.up).id
        /\ conns' = [conns EXCEPT ![k] = s]
    BY <1>3 DEF Handles
  <2>2. /\ s \in Wires /\ s.addr = r.addr /\ s.state = r.state /\ s.up = Tail(r.up)
        /\ s.down = IF r.state = "closed" THEN r.down ELSE Append(r.down, m)
    BY <1>1, <2>1, HandledIs
  <2>3. Kept(r, s, rs, rs, Only(conns, k))
    BY <1>3, KeptHandled
  <2> HIDE DEF s
  <2>4. Moves(r, s, {}, {m.id})
    BY <1>1, <2>1, <2>2, MovesHandled
  <2>5. 1 \in DOMAIN r.up /\ Head(r.up) = r.up[1]
    BY <1>1, <2>1, OnlyOne
  <2>6. m.id \in UpIds(r)
    BY <2>1, <2>5 DEF UpIds
  <2>7. MessageIds(s) \subseteq MessageIds(r)
    BY <2>4, <2>6 DEF Moves, MessageIds
  <2>8. Stays(conns, [conns EXCEPT ![k] = s], rs, rs, {})
    BY <2>2, <2>3, <2>7, StaysOne DEF NoneNew
  <2> QED
    BY <2>1, <2>8
<1> QED
  BY <1>2, <1>3, HandleCases

LEMMA StaysTold ==
    ASSUME conns \in Seq(Wires), rows \in [Addrs -> Nat], NEW a \in Addrs, Broadcast(a), NEW rs
    PROVE  Stays(conns, conns', rs, rs, {})
<1>1. Fewer(conns, conns') /\ NewRow(a) \in Messages /\ NewRow(a).enc
  BY BroadcastFewer, BroadcastTells DEF NewRow
<1>2. ASSUME NEW k \in DOMAIN conns
      PROVE  /\ Kept(conns[k], conns'[k], rs, rs, Only(conns, k))
             /\ MessageIds(conns'[k]) \subseteq MessageIds(conns[k])
  <2>1. conns[k] \in Wires
    BY Element
  <2>2. MessageIds(conns'[k]) \subseteq MessageIds(conns[k])
    BY <1>1 DEF Fewer, MessageIds
  <2>3. CASE conns'[k] = conns[k]
    BY <2>1, <2>2, <2>3, KeptSame DEF NoneNew
  <2>4. CASE conns'[k] = Told(conns[k], NewRow(a)) /\ conns[k].subscribed
    <3>1. Kept(conns[k], Told(conns[k], NewRow(a)), rs, rs, Only(conns, k))
      BY <1>1, <2>1, <2>4, KeptTold
    <3> QED
      BY <2>2, <2>4, <3>1
  <2> QED
    BY <2>3, <2>4, BroadcastTells
<1> QED
  BY <1>1, <1>2 DEF Stays, Fewer, Only

LEMMA StaysAsked ==
    ASSUME NEW cs \in Seq(Wires), NEW k \in DOMAIN cs, NEW id \in Nat, NEW chal \in Nat, NEW rs
    PROVE  Stays(cs, Written(cs, k, "ask", id, chal), rs, rs, {id})
<1> DEFINE ds == Written(cs, k, "ask", id, chal)
           s == ds[k]
<1>1. Moved(cs, ds, {id}, {})
  BY WrittenMoved
<1>2. s \in Wires /\ MessageIds(s) \subseteq MessageIds(cs[k]) \cup {id}
  BY <1>1 DEF Moved, Moves, MessageIds
<1>3. Kept(cs[k], s, rs, rs, Only(cs, k))
  BY KeptAsk
<1>4. ds = [cs EXCEPT ![k] = s]
  <2>1. PICK u : ds = [cs EXCEPT ![k] = u]
    BY DEF Written
  <2>2. s = u
    BY <2>1
  <2> QED
    BY <2>1, <2>2
<1> HIDE DEF s, ds
<1>5. Stays(cs, [cs EXCEPT ![k] = s], rs, rs, {id})
  BY <1>2, <1>3, StaysOne DEF NoneNew
<1> QED
  BY <1>4, <1>5 DEF ds

(* The steps of the network and of the servers.                            *)
LEMMA WaitersAre ==
    ASSUME IInv, WireInv, IdsInv, NEW c \in Callers, call[c].pc \in {"redial", "hello", "proof"}
    PROVE  /\ call[c].sub \in Nat /\ call[c].addr \in Addrs
           /\ call[c].sub \in HeldBy(call[c]) /\ call[c].sub \in 1..ids
           /\ \A d \in Callers : d # c => call[c].sub \notin HeldBy(call[d])
<1>1. call[c].sub \in HeldBy(call[c])
  BY DEF IdsInv, IsNamed, HeldBy
<1> QED
  BY <1>1 DEF IInv, Typed, Calls, IdsInv

LEMMA NoConnection == ASSUME WireInv PROVE None \notin DOMAIN conns
BY Element DEF WireInv, Traffic, None

LEMMA ReadOf ==
    ASSUME raced => raced', ReadInv,
           Read(conns, call, peers, responses, challenges) =>
               Read(conns', call', peers', responses', challenges')
    PROVE  ReadInv'
<1>1. ASSUME ~ raced' PROVE Read(conns', call', peers', responses', challenges')
  <2>1. ~ raced
    BY <1>1
  <2> QED
    BY <2>1 DEF ReadInv
<1> QED
  BY <1>1 DEF ReadInv

LEMMA NetworkRead ==
    ASSUME IInv, WireInv, IdsInv, ReadInv, raced => raced', challenges' = challenges,
           Stays(conns, conns', responses, responses', {}),
           \A a \in Addrs : peers'[a] = peers[a] \/ peers'[a] = None,
           \A c \in Callers : call'[c] = call[c] \/ call'[c] = Idle
    PROVE  ReadInv'
<1> SUFFICES ASSUME Read(conns, call, peers, responses, challenges)
             PROVE  Read(conns', call', peers', responses', challenges')
  BY ReadOf
<1>1. Leaves(call, call', {})
  <2>1. ASSUME NEW c \in Callers, call'[c].pc \in {"hello", "proof"}
        PROVE  call'[c] = call[c] /\ call'[c].sub \in Nat \ {} /\ call'[c].addr \in Addrs
    <3>1. call'[c] = call[c]
      BY <2>1, IdleIs
    <3> QED
      BY <2>1, <3>1, WaitersAre
  <2> QED
    BY <2>1 DEF Leaves
<1>2. Read(conns', call', peers', responses', challenges)
  BY <1>1, NoConnection, ReadFar
<1> QED
  BY <1>2

LEMMA ReadNetwork ==
    ASSUME IInv, WireInv, IdsInv, ReadInv,
           \/ UNCHANGED vars
           \/ \E a \in Addrs : Broadcast(a)
           \/ \E k \in DOMAIN conns : Listens(k) \/ Handle(k) \/ ServerEnds(k) \/ Lose(k)
    PROVE  ReadInv'
<1>1. challenges' = challenges
  BY DEF vars, Broadcast, Listens, Receive, NoticeEnd, CloseEnds, Handle, ServerEnds, Lose
<1>2. raced => raced'
  BY Zenon DEF vars, Broadcast, Listens, Receive, NoticeEnd, CloseEnds, Handle, ServerEnds, Lose
<1>3. \A c \in Callers : call'[c] = call[c] \/ call'[c] = Idle
  BY DEF vars, callVars, Broadcast, Listens, Receive, NoticeEnd, CloseEnds, Handle, ServerEnds, Lose
<1>4. \A a \in Addrs : peers'[a] = peers[a] \/ peers'[a] = None
  BY DEF vars, Broadcast, Listens, Receive, NoticeEnd, CloseEnds, Deleted, Handle, ServerEnds, Lose,
         IInv, Typed
<1>5. conns \in Seq(Wires) /\ rows \in [Addrs -> Nat]
  BY DEF WireInv, Traffic, Small
<1>6. Stays(conns, conns', responses, responses', {})
  <2>1. CASE UNCHANGED vars
    <3>1. conns' = conns /\ responses' = responses
      BY <2>1 DEF vars
    <3> QED
      BY <1>5, <3>1, StaysSame
  <2>2. ASSUME NEW a \in Addrs, Broadcast(a) PROVE Stays(conns, conns', responses, responses', {})
    <3>1. responses' = responses
      BY <2>2 DEF Broadcast
    <3> QED
      BY <1>5, <2>2, <3>1, StaysTold
  <2>3. ASSUME NEW k \in DOMAIN conns, Receive(k)
        PROVE  Stays(conns, conns', responses, responses', {})
    BY <1>5, <2>3, StaysReceived
  <2>4. ASSUME NEW k \in DOMAIN conns,
               NoticeEnd(k) \/ CloseEnds(k) \/ Handle(k) \/ ServerEnds(k) \/ Lose(k)
        PROVE  Stays(conns, conns', responses, responses', {})
    <3>1. responses' = responses
      BY <2>4 DEF NoticeEnd, CloseEnds, Handle, ServerEnds, Lose
    <3>2. NoticeEnd(k) => conns' = Left(k)
      BY DEF NoticeEnd
    <3> QED
      BY <1>5, <2>4, <3>1, <3>2, StaysLeft, StaysClosed, StaysHandled, StaysEnded, StaysLost
  <2> QED
    BY <2>1, <2>2, <2>3, <2>4 DEF Listens
<1> QED
  BY <1>1, <1>2, <1>3, <1>4, <1>6, NetworkRead

(* A caller goes on, and waits for no answer of an authentication.         *)
LEMMA TurnRead ==
    ASSUME IInv, WireInv, IdsInv, ReadInv, raced => raced', challenges' = challenges,
           peers' = peers, responses' \subseteq responses, NEW W,
           Stays(conns, conns', responses', responses', W),
           NEW c \in Callers, NEW f, Turn(c, f), f.pc \notin {"hello", "proof"},
           \A d \in Callers : d # c => W \cap HeldBy(call[d]) = {}
    PROVE  ReadInv'
<1> SUFFICES ASSUME Read(conns, call, peers, responses, challenges)
             PROVE  Read(conns', call', peers', responses', challenges')
  BY ReadOf
<1>1. Stays(conns, conns, responses, responses', {})
  BY StaysSame DEF WireInv, Traffic
<1>2. Leaves(call, call, {})
  BY WaitersAre DEF Leaves
<1>3. Read(conns, call, peers, responses', challenges)
  BY <1>1, <1>2, NoConnection, ReadFar
<1>4. Leaves(call, call', W)
  <2>1. ASSUME NEW d \in Callers, call'[d].pc \in {"hello", "proof"}
        PROVE  call'[d] = call[d] /\ call'[d].sub \in Nat \ W /\ call'[d].addr \in Addrs
    <3>1. d # c /\ call'[d] = call[d]
      BY <2>1, TurnIs
    <3> QED
      BY <2>1, <3>1, WaitersAre
  <2> QED
    BY <2>1 DEF Leaves
<1>5. Read(conns', call', peers, responses', challenges)
  BY <1>3, <1>4, NoConnection, ReadFar
<1> QED
  BY <1>5

LEMMA RestsRead ==
    ASSUME IInv, WireInv, IdsInv, ReadInv, raced => raced', challenges' = challenges,
           peers' = peers, responses' \subseteq responses,
           \/ conns' = conns
           \/ \E k \in DOMAIN conns : conns' = Closing(conns, k),
           NEW c \in Callers, NEW f, Turn(c, f), f.pc \notin {"hello", "proof"}
    PROVE  ReadInv'
<1>1. Stays(conns, conns', responses', responses', {})
  BY StaysSame, StaysClosing DEF WireInv, Traffic
<1> QED
  BY <1>1, TurnRead

(* It asks, or gives up.                                                   *)
LEMMA AskRead ==
    ASSUME IInv, WireInv, IdsInv, ReadInv, raced => raced', challenges' = challenges,
           peers' = peers, responses' \subseteq responses,
           NEW c \in Callers, NEW f \in Calls, f.addr \in Addrs, NEW r,
           WriteDoes(c, f, "ask", conns, peers, r),
           \A d \in Callers : d # c => f.id \notin HeldBy(call[d])
    PROVE  ReadInv'
<1>1. CASE conns' = conns /\ call' = [call EXCEPT ![c] = Idle]
  BY <1>1, IdleIs, RestsRead DEF Turn
<1>2. CASE /\ Writable(conns, peers, f.addr)
           /\ conns' = Written(conns, peers[f.addr], "ask", Sent(f, "ask"), f.chal)
           /\ call' = [call EXCEPT ![c] = Wrote(f, "ask")]
  <2>1. peers[f.addr] \in DOMAIN conns /\ conns \in Seq(Wires)
    BY <1>2 DEF Writable, WireInv, Traffic, Table
  <2>2. Sent(f, "ask") = f.id /\ f.id \in Nat /\ f.chal \in Nat
    BY DEF Sent, Calls
  <2>3. Stays(conns, conns', responses', responses', {f.id})
    BY <1>2, <2>1, <2>2, StaysAsked
  <2>4. Turn(c, Wrote(f, "ask")) /\ Wrote(f, "ask").pc = "asked"
    BY <1>2, WroteIs DEF Turn
  <2> QED
    BY <2>3, <2>4, TurnRead
<1> QED
  BY <1>1, <1>2 DEF WriteDoes

LEMMA BeginsRead ==
    ASSUME IInv, WireInv, IdsInv, ReadInv, NEW c \in Callers, NEW a \in Addrs,
           CallUnknown(c, a) \/ CallKnown(c, a) \/ DisconnectAll(c, a)
    PROVE  ReadInv'
<1>1. challenges' = challenges /\ peers' = peers /\ responses' = responses
  BY DEF CallUnknown, CallKnown, DisconnectAll
<1>2. raced => raced'
  BY Zenon DEF CallUnknown, CallKnown, DisconnectAll
<1>3. CASE CallUnknown(c, a)
  <2>1. conns' = conns /\ Turn(c, Dialler(a)) /\ Dialler(a).pc = "dial"
    BY <1>3, CallUnknownWire, BeginnersAre DEF CallUnknown
  <2> QED
    BY <1>1, <1>2, <2>1, RestsRead
<1>4. CASE CallKnown(c, a)
  <2>1. Write(c, Asker(a), "ask", conns, peers, result[c])
    BY <1>4 DEF CallKnown, Asker
  <2>2. Asker(a) \in Calls /\ Asker(a).addr = a /\ Asker(a).id = ids + 1
    BY BeginnersAre
  <2>3. peers[Asker(a).addr] # None => peers[Asker(a).addr] \in DOMAIN conns
    BY <2>2 DEF WireInv, Table
  <2>4. WriteDoes(c, Asker(a), "ask", conns, peers, result[c])
    BY <2>1, <2>2, <2>3, WriteEffect DEF WireInv, Traffic
  <2> QED
    BY <1>1, <1>2, <2>2, <2>4, NewIs, AskRead
<1>5. CASE DisconnectAll(c, a)
  <2>1. peers[a] \in DOMAIN conns /\ conns' = Closing(conns, peers[a])
    BY <1>5 DEF DisconnectAll, WireInv, Table
  <2>2. Turn(c, Leaver(a)) /\ Leaver(a).pc = "leaving"
    BY <1>5, DisconnectAllWire
  <2> QED
    BY <1>1, <1>2, <2>1, <2>2, RestsRead
<1> QED
  BY <1>3, <1>4, <1>5

(* A dial fails: as no one else dials the address, the table has nothing   *)
(* for it, and nothing is written.                                         *)
LEMMA FailsRead ==
    ASSUME IInv, WireInv, IdsInv, ReadInv, NEW c \in Callers, DialFails(c) \/ RedialFails(c)
    PROVE  ReadInv'
<1>1. challenges' = challenges /\ peers' = peers /\ responses' = responses /\ raced' = raced
  BY DEF DialFails, RedialFails
<1> SUFFICES ASSUME ~ raced' PROVE ReadInv'
  BY DEF ReadInv
<1>2. call[c].addr \in Addrs /\ Dials(c, call[c].addr)
  BY DEF DialFails, RedialFails, IInv, Typed, Dials
<1>3. peers[call[c].addr] = None
  BY <1>1, <1>2 DEF IInv, DialsAlone
<1>4. conns' = conns /\ call' = [call EXCEPT ![c] = Idle]
  BY <1>3 DEF DialFails, RedialFails, Write, Writable
<1>5. Turn(c, Idle) /\ Idle.pc = "idle"
  BY <1>4, IdleIs DEF Turn
<1> QED
  BY <1>1, <1>4, <1>5, RestsRead

LEMMA EndedRead ==
    ASSUME IInv, WireInv, IdsInv, ReadInv, NEW c \in Callers,
           TimesOut(c) \/ \E r \in responses : Answered(c, r)
    PROVE  ReadInv'
<1>1. /\ challenges' = challenges /\ peers' = peers /\ responses' \subseteq responses
      /\ conns' = conns
  BY DEF TimesOut, Answered, PickUp
<1>2. raced => raced'
  BY Zenon DEF TimesOut, Answered
<1>3. Turn(c, Idle)
  BY EndedWire
<1> QED
  BY <1>1, <1>2, <1>3, IdleIs, RestsRead

LEMMA DropRead ==
    ASSUME IInv, WireInv, IdsInv, ReadInv, NEW c \in Callers, NEW v, DropOutcome(c, v),
           call[c].addr \in Addrs,
           raced => raced', challenges' = challenges, peers' = peers, responses' \subseteq responses
    PROVE  ReadInv'
<1>1. CASE Turn(c, Idle) /\ conns' = conns
  BY <1>1, IdleIs, RestsRead
<1>2. CASE /\ peers[call[c].addr] # None /\ Turn(c, Dropper(c))
           /\ conns' = Closing(conns, peers[call[c].addr])
  <2>1. peers[call[c].addr] \in DOMAIN conns /\ Dropper(c).pc = "dropping"
    BY <1>2, PartnersAre DEF WireInv, Table
  <2> QED
    BY <1>2, <2>1, RestsRead
<1> QED
  BY <1>1, <1>2 DEF DropOutcome

(* An id that is in no message.                                            *)
LEMMA Unheard ==
    ASSUME NEW cs, Asked(cs) \subseteq Asked(conns), Given(cs) \subseteq Given(conns),
           NEW rs, rs \subseteq responses, NEW i, i \notin Asked(conns) \cup Answers
    PROVE  /\ i \notin Received(rs)
           /\ \A j \in DOMAIN cs : i \notin MessageIds(cs[j])
<1>1. i \notin Received(rs)
  BY DEF Received, Answers
<1>2. ASSUME NEW j \in DOMAIN cs PROVE i \notin MessageIds(cs[j])
  <2>1. UpIds(cs[j]) \subseteq Asked(cs) /\ DownIds(cs[j]) \subseteq Given(cs)
    BY DEF Asked, Given
  <2> QED
    BY <2>1 DEF MessageIds, Answers
<1> QED
  BY <1>1, <1>2

LEMMA NewUnheard == ASSUME IInv, IdsInv PROVE ids + 1 \in Nat /\ ids + 1 \notin Asked(conns) \cup Answers
<1>1. ids \in Nat
  BY DEF IInv, Typed
<1>2. ids + 1 \notin 1..ids
  BY <1>1
<1> QED
  BY <1>1, <1>2 DEF IdsInv

(* A new connection, on which c writes a request of an authentication.     *)
Dialled(c, a, f, kind, id, chal) ==
    /\ id \notin Asked(conns) \cup Answers
    /\ Turn(c, f) /\ f.pc = kind /\ f.sub = id /\ f.addr = a
    /\ kind = "proof" => f.peer = None
    /\ peers' = [peers EXCEPT ![a] = Len(conns) + 1] /\ responses' = responses
    /\ \A b \in Addrs : b # a => challenges'[b] = challenges[b]
    /\ \A d \in Callers : call[d].pc = "hello" /\ call[d].addr = a => call[d].sub # challenges'[a]
    /\ \A d \in Callers : d # c => id \notin HeldBy(call[d])
    /\ conns' = Written(Append(conns, Connection(a)), Len(conns) + 1, kind, id, chal)

LEMMA AddedRead ==
    ASSUME IInv, WireInv, IdsInv, Read(conns, call, peers, responses, challenges),
           NEW c \in Callers, NEW a \in Addrs, NEW kind \in {"hello", "proof"},
           NEW id \in Nat, NEW chal \in Nat, NEW f, Dialled(c, a, f, kind, id, chal)
    PROVE  Read(conns', call', peers', responses', challenges')
<1> USE DEF Dialled
<1> DEFINE k  == Len(conns) + 1
           cs == Append(conns, Connection(a))
<1>1. conns \in Seq(Wires) /\ Len(conns) \in Nat
  BY Lengths DEF WireInv, Traffic
<1>2. /\ cs \in Seq(Wires) /\ DOMAIN cs = 1..(Len(conns) + 1)
      /\ \A j \in DOMAIN conns : cs[j] = conns[j]
      /\ cs[Len(conns) + 1] = Connection(a)
      /\ Asked(cs) \subseteq Asked(conns) /\ Given(cs) \subseteq Given(conns)
  BY <1>1, ConnectionAdded
<1>3. k \in DOMAIN cs /\ k \in Nat
  BY <1>1, <1>2
<1>4. /\ \A b \in Addrs : b # a => peers'[b] = peers[b] /\ challenges'[b] = challenges[b]
      /\ peers'[a] = Len(conns) + 1
  BY DEF IInv, Typed
<1>5. \A b \in Addrs : peers[b] \in 0..Len(conns)
  <2>1. \A b \in Addrs : peers[b] # None => peers[b] \in DOMAIN conns
    BY DEF WireInv, Table
  <2>2. DOMAIN conns = 1..Len(conns)
    BY <1>1, Element
  <2> QED
    BY <1>1, <2>1, <2>2 DEF None
<1>6. \A d \in Callers : /\ call[d].pc \in {"hello", "proof"} => call[d].addr \in Addrs
                         /\ call[d].peer \in 0..Len(conns)
  BY WaitersAre DEF WireInv, Table
<1> HIDE DEF cs
<1>7. /\ Read(cs, call, peers', responses, challenges')
      /\ \A d \in Callers : /\ ~ Greets(call, peers', challenges', d, Len(conns) + 1)
                            /\ ~ Proves(call, d, Len(conns) + 1)
  <2>1. Grows(conns, cs, call, peers, peers', challenges, challenges', a)
    BY <1>2, <1>4, <1>5, <1>6 DEF Grows
  <2> HIDE DEF Dialled
  <2>2. conns \in Seq(Wires)
    BY <1>1
  <2> QED
    BY <2>1, <2>2, ReadNew
<1>8. Fresh(cs[k])
  BY <1>2 DEF Fresh, Connection
<1>9. id \notin Received(responses) /\ \A j \in DOMAIN cs : id \notin MessageIds(cs[j])
  BY <1>2, Unheard
<1>10. call'[c] = f /\ \A d \in Callers : d # c => call'[d] = call[d]
  BY TurnIs
<1>11. \A d \in Callers : d # c =>
         /\ ~ Greets(call, peers', challenges', d, k) /\ ~ Proves(call, d, k)
         /\ call[d].pc \in {"hello", "proof"} => call[d].sub # id
  BY <1>7, WaitersAre
<1>12. /\ kind = "hello" => peers'[call'[c].addr] = k
       /\ kind = "proof" => call'[c].peer \in {k, None}
  BY <1>4, <1>10
<1> HIDE DEF k
<1>13. Read(Written(cs, k, kind, id, chal), call', peers', responses, challenges')
  <2>1. Authenticates(cs, call, call', peers', responses, challenges', c, k, kind, id)
    <3>1. \A d \in Callers : d # c => call'[d] = call[d]
      BY <1>10
    <3>2. call'[c].pc = kind /\ call'[c].sub = id
      BY <1>4, <1>10
    <3>3. \A d \in Callers : d # c =>
            /\ ~ Greets(call, peers', challenges', d, k) /\ ~ Proves(call, d, k)
            /\ call[d].pc \in {"hello", "proof"} => call[d].sub # id
      BY <1>11
    <3> HIDE DEF cs
    <3> QED
      BY <1>8, <1>9, <1>12, <3>1, <3>2, <3>3, Zenon DEF Authenticates
  <2> QED
    BY ZenonT(90), <1>2, <1>3, <1>7, <2>1, ReadAuth
<1> QED
  BY <1>13 DEF cs, k

LEMMA DialRead ==
    ASSUME IInv, WireInv, IdsInv, ReadInv, NEW c \in Callers, DialSucceeds(c)
    PROVE  ReadInv'
<1> DEFINE a == call[c].addr
           f == Wrote(Greeter(c), "hello")
<1>1. /\ raced' = raced /\ responses' = responses /\ a \in Addrs
      /\ peers' = [peers EXCEPT ![a] = Len(conns) + 1]
      /\ challenges' = [challenges EXCEPT ![a] = ids + 1]
  BY DEF DialSucceeds, IInv, Typed
<1>2. raced => raced'
  BY <1>1, Zenon
<1> SUFFICES ASSUME Read(conns, call, peers, responses, challenges)
             PROVE  Read(conns', call', peers', responses', challenges')
  BY <1>2, ReadOf
<1>3. /\ Turn(c, f) /\ Greeter(c) \in Calls /\ Greeter(c).addr = a /\ Greeter(c).sub = ids + 1
      /\ conns' = Written(Append(conns, Connection(a)), Len(conns) + 1, "hello", ids + 1,
                          Greeter(c).chal)
  BY <1>1, DialSucceedsWire, PartnersAre
<1>4. f.pc = "hello" /\ f.addr = a /\ f.sub = ids + 1 /\ Greeter(c).chal \in Nat
  BY <1>3, WroteIs DEF Calls
<1>5. challenges'[a] = ids + 1 /\ \A b \in Addrs : b # a => challenges'[b] = challenges[b]
  BY <1>1 DEF WireInv, Small
<1>6. \A d \in Callers : /\ ids + 1 \notin HeldBy(call[d])
                         /\ call[d].pc = "hello" => call[d].sub # ids + 1
  BY NewIs, WaitersAre
<1> HIDE DEF a, f
<1>7. Dialled(c, a, f, "hello", ids + 1, Greeter(c).chal)
  BY <1>1, <1>3, <1>4, <1>5, <1>6, NewUnheard DEF Dialled
<1> QED
  BY <1>1, <1>4, <1>7, NewUnheard, AddedRead

LEMMA RedialRead ==
    ASSUME IInv, WireInv, IdsInv, ReadInv, Redials, NEW c \in Callers, RedialSucceeds(c)
    PROVE  ReadInv'
<1> DEFINE a == call[c].addr
           f == Wrote(call[c], "proof")
<1>1. /\ raced' = raced /\ responses' = responses /\ a \in Addrs /\ call[c] \in Calls
      /\ peers' = [peers EXCEPT ![a] = Len(conns) + 1]
      /\ challenges' = challenges /\ call[c].pc = "redial"
  BY DEF RedialSucceeds, IInv, Typed
<1> SUFFICES ASSUME ~ raced' PROVE ReadInv'
  BY DEF ReadInv
<1>2. ~ raced
  BY <1>1
<1>3. Read(conns, call, peers, responses, challenges)
  BY <1>2 DEF ReadInv
<1>4. /\ call[c].peer = None
      /\ \A d \in Callers : call[d].pc = "hello" /\ call[d].addr = a => call[d].sub # challenges[a]
  BY <1>1, <1>2 DEF Redials
<1>5. /\ Turn(c, f)
      /\ conns' = Written(Append(conns, Connection(a)), Len(conns) + 1, "proof", call[c].sub,
                          call[c].chal)
  BY RedialSucceedsWire
<1>6. /\ f.pc = "proof" /\ f.addr = a /\ f.sub = call[c].sub /\ f.peer = None
      /\ call[c].chal \in Nat /\ call[c].sub \in Nat
  BY <1>1, <1>4, WroteIs DEF Calls
<1>7. call[c].sub \notin Asked(conns) \cup Answers
  BY <1>1 DEF IdsInv, UnsentBy
<1>8. \A d \in Callers : d # c => call[c].sub \notin HeldBy(call[d])
  BY <1>1, WaitersAre
<1> HIDE DEF a, f
<1>9. Read(conns', call', peers', responses', challenges')
  <2>1. Dialled(c, a, f, "proof", call[c].sub, call[c].chal)
    BY <1>1, <1>4, <1>5, <1>6, <1>7, <1>8 DEF Dialled
  <2> QED
    BY <1>1, <1>3, <1>6, <2>1, AddedRead
<1> QED
  BY <1>9 DEF ReadInv

(* The challenge is answered: nothing else is on its way, and c proves     *)
(* itself.                                                                 *)
LEMMA HelloRead ==
    ASSUME IInv, WireInv, IdsInv, ReadInv, NEW c \in Callers, NEW r \in responses, HelloAnswered(c, r)
    PROVE  ReadInv'
<1> DEFINE a == call[c].addr
           k == peers[a]
           f == Wrote(Prover(c), "proof")
<1>1. /\ a \in Addrs /\ call[c].pc = "hello" /\ challenges' = challenges
      /\ r.id = call[c].sub /\ peers' = peers /\ responses' \subseteq responses
  BY DEF HelloAnswered, Has, Waited, PickUp, IInv, Typed
<1>2. raced => raced'
  BY Zenon DEF HelloAnswered
<1>3. HelloOutcome(c, r)
  BY HelloAnsweredWire
<1>4. CASE DropOutcome(c, r.id)
  BY <1>1, <1>2, <1>4, DropRead
<1>5. CASE Turn(c, Redialler(c)) /\ conns' = conns
  <2>1. Redialler(c).pc = "redial"
    BY <1>1, PartnersAre
  <2> QED
    BY <1>1, <1>2, <1>5, <2>1, RestsRead
<1>6. CASE challenges[a] = r.id /\ WriteDoes(c, Prover(c), "proof", conns, peers, r.id)
  <2>1. CASE conns' = conns /\ call' = [call EXCEPT ![c] = Idle]
    BY <1>1, <1>2, <2>1, IdleIs, RestsRead DEF Turn
  <2>2. CASE /\ Writable(conns, peers, Prover(c).addr)
             /\ conns' = Written(conns, peers[Prover(c).addr], "proof", Sent(Prover(c), "proof"),
                                 Prover(c).chal)
             /\ call' = [call EXCEPT ![c] = f]
    <3> SUFFICES ASSUME Read(conns, call, peers, responses, challenges)
                 PROVE  Read(conns', call', peers', responses', challenges')
      BY <1>2, ReadOf
    <3>1. /\ Prover(c) \in Calls /\ Prover(c).addr = a /\ Prover(c).sub = ids + 1
          /\ Prover(c).peer = k
      BY <1>1, PartnersAre
    <3>2. /\ f \in Calls /\ f.pc = "proof" /\ f.addr = a /\ f.sub = ids + 1 /\ f.peer = k
          /\ Prover(c).chal \in Nat
      BY <3>1, WroteIs DEF Calls
    <3>3. /\ k \in DOMAIN conns /\ conns \in Seq(Wires) /\ conns[k].addr = a
          /\ conns' = Written(conns, k, "proof", ids + 1, Prover(c).chal)
      BY <1>1, <2>2, <3>1 DEF Writable, WireInv, Traffic, Table, Sent
    <3>4. call'[c] = f /\ \A d \in Callers : d # c => call'[d] = call[d]
      BY <2>2, <3>2, TurnIs DEF Turn
    <3> HIDE DEF f
    <3>5. Greets(call, peers, challenges, c, k)
      BY <1>1, <1>6 DEF Greets
    <3>6. /\ HelloOn(conns[k], call[c].sub, responses)
          /\ \A d \in Callers : ~ Proves(call, d, k)
      BY <3>3, <3>5 DEF Read
    <3>7. Fresh(conns[k])
      <4>1. call[c].sub \in Received(responses)
        BY <1>1 DEF Received
      <4> QED
        BY <3>6, <4>1 DEF HelloOn, Fresh
    <3>8. ASSUME NEW d \in Callers, d # c PROVE ~ Greets(call, peers, challenges, d, k)
      <4>1. ASSUME Greets(call, peers, challenges, d, k) PROVE FALSE
        <5>1. call[d].pc = "hello" /\ call[d].addr \in Addrs /\ peers[call[d].addr] = k
              /\ call[d].sub \in HeldBy(call[d])
          BY <4>1, WaitersAre DEF Greets
        <5>2. call[d].addr = a
          <6>1. k # None
            BY <3>3, NoConnection
          <6> QED
            BY <3>3, <5>1, <6>1 DEF WireInv, Table
        <5>3. call[d].sub = call[c].sub
          BY <1>1, <1>6, <4>1, <5>2 DEF Greets
        <5> QED
          BY <1>1, <3>8, <5>1, <5>3, WaitersAre
      <4> QED
        BY <4>1
    <3>9. Read(conns, call, peers, responses', challenges)
      <4>1. Stays(conns, conns, responses, responses', {}) /\ Leaves(call, call, {})
        BY <1>1, <3>3, StaysSame, WaitersAre DEF Leaves
      <4> QED
        BY <4>1, NoConnection, ReadFar
    <3>10. /\ ids + 1 \in Nat /\ ids + 1 \notin Received(responses')
           /\ \A j \in DOMAIN conns : ids + 1 \notin MessageIds(conns[j])
      BY <1>1, NewUnheard, Unheard
    <3>11. \A d \in Callers : d # c =>
             /\ ~ Greets(call, peers, challenges, d, k) /\ ~ Proves(call, d, k)
             /\ call[d].pc \in {"hello", "proof"} => call[d].sub # ids + 1
      BY <3>6, <3>8, NewIs, WaitersAre
    <3> HIDE DEF k
    <3>12. Read(Written(conns, k, "proof", ids + 1, Prover(c).chal), call', peers, responses',
                challenges)
      <4>1. Authenticates(conns, call, call', peers, responses', challenges, c, k, "proof", ids + 1)
        BY <3>2, <3>4, <3>7, <3>10, <3>11 DEF Authenticates
      <4> QED
        BY <3>2, <3>3, <3>9, <3>10, <4>1, ReadAuth
    <3> QED
      BY <1>1, <3>3, <3>12
  <2> QED
    BY <1>6, <2>1, <2>2 DEF WriteDoes
<1> QED
  BY <1>3, <1>4, <1>5, <1>6 DEF HelloOutcome

(* The proof is answered, and c asks what it wanted the connection for.    *)
LEMMA ProofRead ==
    ASSUME IInv, WireInv, IdsInv, ReadInv, NEW c \in Callers, NEW r \in responses, ProofAnswered(c, r)
    PROVE  ReadInv'
<1> DEFINE k == call[c].peer
           cs == Trusted(k)
<1>1. /\ call[c].addr \in Addrs /\ call[c] \in Calls /\ call[c].pc = "proof"
      /\ challenges' = challenges
      /\ r.id = call[c].sub /\ peers' = peers /\ responses' \subseteq responses
  BY DEF ProofAnswered, Has, Waited, PickUp, IInv, Typed
<1>2. raced => raced'
  BY Zenon DEF ProofAnswered
<1>3. ProofOutcome(c, r)
  BY ProofAnsweredWire
<1>4. CASE DropOutcome(c, r.id)
  BY <1>1, <1>2, <1>4, DropRead
<1>5. CASE Turn(c, Idle) /\ conns' = conns
  BY <1>1, <1>2, <1>5, IdleIs, RestsRead
<1>6. CASE r.ok /\ k # None /\ WriteDoes(c, call[c], "ask", cs, peers, r.id)
  <2> SUFFICES ASSUME Read(conns, call, peers, responses, challenges)
               PROVE  Read(conns', call', peers', responses', challenges')
    BY <1>2, ReadOf
  <2>1. k \in DOMAIN conns /\ conns \in Seq(Wires) /\ cs \in Seq(Wires) /\ DOMAIN cs = DOMAIN conns
    <3>1. k \in 0..Len(conns) /\ conns \in Seq(Wires)
      BY DEF WireInv, Traffic, Table
    <3>2. Len(conns) \in Nat /\ DOMAIN conns = 1..Len(conns)
      BY <3>1, Element
    <3>3. k \in DOMAIN conns
      BY <1>6, <3>1, <3>2 DEF None
    <3> QED
      BY <3>1, <3>3, TrustedMoved DEF Moved
  <2>2. Proves(call, c, k)
    BY <1>1 DEF Proves
  <2>3. PICK f \in {Idle, Wrote(call[c], "ask")} : call' = [call EXCEPT ![c] = f]
    BY <1>6 DEF WriteDoes
  <2>4. f \in Calls /\ f.pc \notin {"hello", "proof"}
    BY <1>1, <2>3, IdleIs, WroteIs
  <2>5. call'[c] = f /\ \A d \in Callers : d # c => call'[d] = call[d]
    BY <2>3, <2>4, TurnIs DEF Turn
  <2>6. Read([conns EXCEPT ![k].mine = TRUE], call', peers, responses', challenges)
    BY <1>1, <1>6, <2>1, <2>2, <2>4, <2>5, ReadTrust
  <2>7. Read(cs, call', peers, responses', challenges)
    BY <2>6 DEF Trusted
  <2> HIDE DEF cs
  <2>8. CASE conns' = cs
    BY <1>1, <2>7, <2>8
  <2>9. CASE /\ Writable(cs, peers, call[c].addr)
             /\ conns' = Written(cs, peers[call[c].addr], "ask", Sent(call[c], "ask"), call[c].chal)
    <3>1. peers[call[c].addr] \in DOMAIN cs
      BY <1>1, <2>1, <2>9 DEF Writable, WireInv, Table
    <3>2. Sent(call[c], "ask") = call[c].id /\ call[c].id \in Nat /\ call[c].chal \in Nat
      BY <1>1 DEF Sent, Calls
    <3>3. Stays(cs, conns', responses', responses', {call[c].id})
      BY <2>1, <2>9, <3>1, <3>2, StaysAsked
    <3>4. Leaves(call', call', {call[c].id})
      <4>1. ASSUME NEW d \in Callers, call'[d].pc \in {"hello", "proof"}
            PROVE  call'[d].sub \in Nat \ {call[c].id} /\ call'[d].addr \in Addrs
        <5>1. d # c /\ call'[d] = call[d]
          BY <2>4, <2>5, <4>1
        <5>2. call[c].id \in HeldBy(call[c])
          BY <1>1 DEF IdsInv, IsNamed, HeldBy
        <5> QED
          BY <4>1, <5>1, <5>2, WaitersAre
      <4> QED
        BY <4>1 DEF Leaves
    <3>5. None \notin DOMAIN cs
      BY <2>1, NoConnection
    <3>6. Read(conns', call', peers, responses', challenges)
      BY <2>7, <3>3, <3>4, <3>5, ReadFar
    <3> QED
      BY <1>1, <3>6
  <2> QED
    BY <1>6, <2>8, <2>9 DEF WriteDoes
<1> QED
  BY <1>3, <1>4, <1>5, <1>6 DEF ProofOutcome

LEMMA NextRead == IInv /\ WireInv /\ IdsInv /\ Redials /\ ReadInv /\ [Next]_vars => ReadInv'
<1> SUFFICES ASSUME IInv, WireInv, IdsInv, Redials, ReadInv, [Next]_vars PROVE ReadInv'
  OBVIOUS
<1>1. ASSUME NEW c \in Callers, NEW a \in Addrs,
             CallUnknown(c, a) \/ CallKnown(c, a) \/ DisconnectAll(c, a)
      PROVE  ReadInv'
  BY <1>1, BeginsRead
<1>2. ASSUME NEW c \in Callers, Ends(c) PROVE ReadInv'
  BY <1>2, DialRead, RedialRead, FailsRead, EndedRead, HelloRead, ProofRead DEF Ends
<1>3. ASSUME NEW k \in DOMAIN conns,
             Listens(k) \/ Handle(k) \/ ServerEnds(k) \/ Lose(k)
      PROVE  ReadInv'
  BY <1>3, ReadNetwork
<1>4. ASSUME NEW a \in Addrs, Broadcast(a) PROVE ReadInv'
  BY <1>4, ReadNetwork
<1>5. CASE UNCHANGED vars
  BY <1>5, ReadNetwork
<1> QED
  BY <1>1, <1>2, <1>3, <1>4, <1>5 DEF Next

LEMMA InitRead == Init => Redials /\ ReadInv
<1> SUFFICES ASSUME Init PROVE Redials /\ ReadInv
  OBVIOUS
<1>1. \A c \in Callers : call[c] = Idle
  BY DEF Init
<1>2. Redials
  BY <1>1, IdleIs DEF Redials
<1>3. DOMAIN conns = {}
  BY DEF Init
<1>4. Read(conns, call, peers, responses, challenges)
  BY <1>3 DEF Read
<1> QED
  BY <1>2, <1>4 DEF ReadInv

(* Unless two callers dial one address at a time, an end reads every       *)
(* message of a connection on which no request went unencrypted: the two   *)
(* ends change to the secret with nothing on its way, whatever other       *)
(* callers, challenges and lost connections come in between (client.py,    *)
(* authenticate; server.py, handleConnection).                             *)
THEOREM ReadableAlways == Spec => []Readable
<1>1. ReadInv => Readable
  <2> SUFFICES ASSUME ReadInv, ~ raced, NEW k \in DOMAIN conns, conns[k].garbled
               PROVE  conns[k].bare
    BY DEF Readable
  <2>1. Sound(conns[k])
    BY DEF ReadInv, Read
  <2> QED
    BY <2>1 DEF Sound, Plain, Secret
<1> QED
  BY <1>1, InitIInv, InitWire, InitIds, InitRead, NextIInv, NextWire, NextIds, NextRedials, NextRead,
     PTL DEF Spec

=============================================================================

----------------------------- MODULE EventProofs -----------------------------
(***************************************************************************)
(* Proofs about the events that a client of the relays sees.  Of           *)
(* ChannelEvents, for any number of tags, events and faults: what the      *)
(* queries answer, that commitments advance, and that the newest arrives.  *)
(* Of DedupeCache, for every set of events and every size: the cache is a  *)
(* window over the last MaxSize distinct arrivals, so timely copies are    *)
(* handled once.                                                           *)
(***************************************************************************)
EXTENDS ChannelEvents, DedupeCache, FiniteSetTheorems, SequenceTheorems, TLAPS

Kinds == PayerKinds \union PayeeKinds

Event == [kind : Kinds, tag : Tags \union {None}, at : 1 .. MaxEvents, low : BOOLEAN]

RelayType ==
  /\ log \in Seq(Event)
  /\ stored \subseteq DOMAIN log

(* The relay keeps one event of an address ... *)
OnePerAddress ==
  \A j, k \in stored : SameAddress(log[j], log[k]) => j = k

(* ... and none that was signed is newer. *)
NewestIsStored ==
  \A j \in DOMAIN log : \E k \in stored :
    SameAddress(log[k], log[j]) /\ log[j].at <= log[k].at

RelayInv == RelayType /\ OnePerAddress /\ NewestIsStored

(* What Publish gives to Emit. *)
Signed(e) ==
  /\ e \in Event
  /\ e.low => \E k \in stored : SameAddress(log[k], e) /\ log[k].at = e.at

LEMMA PublishEmits ==
  ASSUME RelayType, NEW kind \in Kinds, NEW tag \in Tags \union {None},
         Publish(kind, tag)
  PROVE  \E e : Signed(e) /\ Emit(e)
<1> DEFINE new == [kind |-> kind, tag |-> tag, at |-> 1, low |-> FALSE]
<1>1. PICK t \in Times(new) :
        \/ Emit([new EXCEPT !.at = t])
        \/ /\ \E k \in Replaced(new) : log[k].at = t
           /\ Emit([new EXCEPT !.at = t, !.low = TRUE])
  BY Zenon DEF Publish
<1>2. t \in 1 .. MaxEvents
  BY <1>1 DEF Times
<1>3. CASE Emit([new EXCEPT !.at = t])
  <2>1. [new EXCEPT !.at = t] \in Event /\ ~[new EXCEPT !.at = t].low
    BY <1>2 DEF Event
  <2> QED BY <1>3, <2>1 DEF Signed
<1>4. CASE /\ \E k \in Replaced(new) : log[k].at = t
           /\ Emit([new EXCEPT !.at = t, !.low = TRUE])
  <2> DEFINE e == [new EXCEPT !.at = t, !.low = TRUE]
  <2>1. e \in Event /\ e.at = t /\ e.kind = new.kind /\ e.tag = new.tag
    BY <1>2 DEF Event
  <2>2. PICK k \in Replaced(new) : log[k].at = t
    BY <1>4
  <2>3. k \in stored /\ SameAddress(log[k], new)
    BY <2>2 DEF Replaced
  <2>4. SameAddress(log[k], e)
    BY <2>1, <2>3 DEF SameAddress, Author, KindNumber, DTag
  <2> QED BY <1>4, <2>1, <2>2, <2>3, <2>4 DEF Signed
<1> QED BY <1>1, <1>3, <1>4

(* Every call of Next signs one event. *)
LEMMA CallEmits ==
  ASSUME RelayType, Call
  PROVE  \E e : Signed(e) /\ Emit(e)
<1>1. ASSUME NEW kind \in Kinds, NEW tag \in Tags \union {None}, Publish(kind, tag)
      PROVE  \E e : Signed(e) /\ Emit(e)
  BY <1>1, PublishEmits
<1>2. \E kind \in Kinds : \E tag \in Tags \union {None} : Publish(kind, tag)
  BY DEF Call, PublishCommitment, PublishChannelOpen, SubmitPrediction, RequestAccess,
         RemoveCommitment, PublishSettlement, AnnounceDatastream, AnnounceBounty,
         CloseBounty, Kinds, PayerKinds, PayeeKinds
<1> QED BY <1>1, <1>2

LEMMA SameAddressTwice ==
  ASSUME NEW e, NEW f, NEW g, SameAddress(e, f), SameAddress(f, g)
  PROVE  SameAddress(e, g) /\ SameAddress(f, e)
BY DEF SameAddress

LEMMA EmitKeepsRelay ==
  ASSUME RelayInv, NEW e, Signed(e), Emit(e)
  PROVE  RelayInv'
<1> DEFINE n == Len(log) + 1
<1>1. /\ log' = Append(log, e)
      /\ \/ Accepted(e) /\ stored' = (stored \ Replaced(e)) \union {n}
         \/ ~Accepted(e) /\ stored' = stored
  BY DEF Emit
<1>2. /\ log \in Seq(Event) /\ stored \subseteq DOMAIN log
      /\ e \in Event
  BY DEF RelayInv, RelayType, Signed
<1>3. /\ log' \in Seq(Event) /\ DOMAIN log' = DOMAIN log \union {n}
      /\ n \notin DOMAIN log /\ log'[n] = e
      /\ \A j \in DOMAIN log : log'[j] = log[j]
  BY <1>1, <1>2
<1>4. \A j \in DOMAIN log : log[j].at \in Nat
  <2>1. \A j \in DOMAIN log : log[j] \in Event
    BY <1>2
  <2> QED BY <2>1 DEF Event
<1>5. e.at \in Nat
  BY <1>2 DEF Event
<1>6. RelayType'
  BY <1>1, <1>2, <1>3 DEF RelayType, Replaced
<1>7. \A k \in Replaced(e) : k \in stored /\ SameAddress(log[k], e)
  BY DEF Replaced
<1>8. \A k \in stored : SameAddress(log[k], e) => k \in Replaced(e)
  BY DEF Replaced
<1>9. OnePerAddress'
  <2> SUFFICES ASSUME NEW j \in stored', NEW k \in stored',
                      SameAddress(log'[j], log'[k])
               PROVE  j = k
    BY DEF OnePerAddress, SameAddress, Author, KindNumber, DTag
  <2>1. CASE j \in stored /\ k \in stored
    BY <2>1, <1>2, <1>3 DEF RelayInv, OnePerAddress
  <2>2. CASE j = n /\ k # n
    <3>1. k \in stored /\ k \notin Replaced(e) /\ SameAddress(e, log[k])
      BY <2>2, <1>1, <1>2, <1>3
    <3> QED BY <3>1, <1>8, SameAddressTwice DEF SameAddress
  <2>3. CASE k = n /\ j # n
    <3>1. j \in stored /\ j \notin Replaced(e) /\ SameAddress(log[j], e)
      BY <2>3, <1>1, <1>2, <1>3
    <3> QED BY <3>1, <1>8
  <2> QED BY <2>1, <2>2, <2>3, <1>1
<1>10. NewestIsStored'
  <2> SUFFICES ASSUME NEW j \in DOMAIN log'
               PROVE  \E k \in stored' : SameAddress(log'[k], log'[j])
                                         /\ log'[j].at <= log'[k].at
    BY DEF NewestIsStored, SameAddress, Author, KindNumber, DTag
  <2>1. CASE Accepted(e)
    <3>1. n \in stored'
      BY <2>1, <1>1
    <3>2. CASE j = n
      BY <3>1, <3>2, <1>3, <1>5 DEF SameAddress
    <3>3. CASE j # n
      <4>1. j \in DOMAIN log
        BY <3>3, <1>3
      <4>2. PICK k \in stored : SameAddress(log[k], log[j]) /\ log[j].at <= log[k].at
        BY <4>1 DEF RelayInv, NewestIsStored
      <4>3. CASE k \in Replaced(e)
        <5>1. SameAddress(log[k], e)
          BY <4>3, <1>7
        <5>2. log[k].at <= e.at
          <6>1. CASE log[k].at < e.at
            BY <6>1, <1>2, <1>4, <1>5
          <6>2. CASE ~(log[k].at < e.at)
            <7>1. e.low
              BY <2>1, <5>1, <6>2 DEF Accepted
            <7>2. PICK i \in stored : SameAddress(log[i], e) /\ log[i].at = e.at
              BY <7>1 DEF Signed
            <7>3. SameAddress(log[i], log[k])
              BY <5>1, <7>2 DEF SameAddress
            <7>4. i = k
              BY <7>3 DEF RelayInv, OnePerAddress
            <7> QED BY <7>2, <7>4, <1>5
          <6> QED BY <6>1, <6>2
        <5>3. SameAddress(e, log[j])
          BY <4>2, <5>1 DEF SameAddress
        <5>4. log[j].at <= e.at
          BY <4>1, <4>2, <5>2, <1>2, <1>4, <1>5
        <5> QED BY <3>1, <4>1, <5>3, <5>4, <1>3
      <4>4. CASE k \notin Replaced(e)
        BY <2>1, <4>1, <4>2, <4>4, <1>1, <1>2, <1>3
      <4> QED BY <4>3, <4>4
    <3> QED BY <3>2, <3>3
  <2>2. CASE ~Accepted(e)
    <3>1. stored' = stored
      BY <2>2, <1>1
    <3>2. CASE j = n
      <4>1. PICK k \in stored : SameAddress(log[k], e) /\ ~(log[k].at < e.at)
        BY <2>2 DEF Accepted
      <4>2. e.at <= log[k].at
        BY <4>1, <1>2, <1>4, <1>5
      <4> QED BY <3>1, <3>2, <4>1, <4>2, <1>2, <1>3
    <3>3. CASE j # n
      <4>1. j \in DOMAIN log
        BY <3>3, <1>3
      <4> QED BY <3>1, <4>1, <1>2, <1>3 DEF RelayInv, NewestIsStored
    <3> QED BY <3>2, <3>3
  <2> QED BY <2>1, <2>2
<1> QED BY <1>6, <1>9, <1>10 DEF RelayInv

LEMMA InitRelay == Init => RelayInv
BY DEF Init, RelayInv, RelayType, OnePerAddress, NewestIsStored, Event

LEMMA NextRelay == RelayInv /\ [Next]_vars => RelayInv'
<1> SUFFICES ASSUME RelayInv, [Next]_vars PROVE RelayInv'
  OBVIOUS
<1>1. CASE Call
  <2>1. PICK e : Signed(e) /\ Emit(e)
    BY <1>1, CallEmits DEF RelayInv
  <2> QED BY <2>1, EmitKeepsRelay
<1>2. ASSUME UNCHANGED <<log, stored>> PROVE RelayInv'
  BY <1>2 DEF RelayInv, RelayType, OnePerAddress, NewestIsStored, SameAddress,
              Author, KindNumber, DTag
<1>3. ASSUME NEW n \in Nodes,
             Handle(n) \/ Take(n) \/ Lose(n) \/ Reconnect(n) \/ Restart(n)
      PROVE  UNCHANGED <<log, stored>>
  BY <1>3 DEF Handle, Take, Lose, Reconnect, Restart
<1>4. CASE UNCHANGED vars
  BY <1>2, <1>4 DEF vars
<1> QED BY <1>1, <1>2, <1>3, <1>4 DEF Next

(* In every reachable state the relay keeps one event of every address     *)
(* that has been used, and no event of the address is newer.               *)
THEOREM RelayInvAlways == Spec => []RelayInv
<1> QED BY InitRelay, NextRelay, PTL DEF Spec

(* Of whatever author the newest event with the d tag is, a commitment     *)
(* that get_commitment returns has no tombstone of a later second.         *)
LEMMA FetchedFollows == RelayInv => FetchedIsUnclaimed
<1> SUFFICES ASSUME RelayInv, NEW c \in Tags, NEW k \in GetCommitment(c),
                    NEW j \in DOMAIN log,
                    log[j].kind = "tombstone", log[j].tag = c
             PROVE  log[j].at <= log[k].at
  BY DEF FetchedIsUnclaimed
<1>1. PICK m \in stored : SameAddress(log[m], log[j]) /\ log[j].at <= log[m].at
  BY DEF RelayInv, NewestIsStored
<1>2. m \in Asked(c)
  BY <1>1 DEF Asked, SameAddress, KindNumber, DTag
<1>3. log[m].at <= log[k].at
  BY <1>2 DEF GetCommitment
<1>4. log[j].at \in Nat /\ log[m].at \in Nat /\ log[k].at \in Nat
  <2>1. log[j] \in Event /\ log[m] \in Event /\ log[k] \in Event
    BY DEF RelayInv, RelayType, GetCommitment, Asked
  <2> QED BY <2>1 DEF Event
<1> QED BY <1>1, <1>3, <1>4

THEOREM FetchedIsUnclaimedAlways == Spec => []FetchedIsUnclaimed
<1> QED BY RelayInvAlways, FetchedFollows, PTL

(* What discover_datastreams and discover_bounties list is not withdrawn   *)
(* in a later second than it was announced in.                             *)
LEMMA WithdrawnFollows == RelayInv => WithdrawnIsHidden
<1> SUFFICES ASSUME RelayInv, NEW k \in DiscoverDatastreams \union DiscoverBounties,
                    NEW j \in DOMAIN log, SameTopic(log[j], log[k])
             PROVE  log[j].at <= log[k].at
  BY DEF WithdrawnIsHidden
<1>1. k \in stored
  BY DEF DiscoverDatastreams, DiscoverBounties
<1>2. PICK m \in stored : SameAddress(log[m], log[j]) /\ log[j].at <= log[m].at
  BY DEF RelayInv, NewestIsStored
<1>3. SameAddress(log[m], log[k])
  BY <1>2 DEF SameAddress, SameTopic, DTag
<1> QED BY <1>1, <1>2, <1>3 DEF RelayInv, OnePerAddress

THEOREM WithdrawnIsHiddenAlways == Spec => []WithdrawnIsHidden
<1> QED BY RelayInvAlways, WithdrawnFollows, PTL

-----------------------------------------------------------------------------
(* Commitments advance: of one channel, what is on its way to the payee is *)
(* in the order it was signed in, copies included, comes after all that    *)
(* the payee has queued, and before or with what the relay keeps.          *)

OneChannel(j, k) ==
  log[j].kind = "commitment" /\ log[k].kind = "commitment" /\ log[j].tag = log[k].tag

(* A line of events towards the payee ... *)
IsLine(line) == line \in Seq(Nat) /\ \A i \in DOMAIN line : line[i] \in DOMAIN log

(* ... whose commitments of a channel are in order ... *)
Ordered(line) ==
  \A i, j \in DOMAIN line : i <= j /\ OneChannel(line[i], line[j]) => line[i] <= line[j]

(* ... and not newer than those of k. *)
UpTo(line, k) == \A i \in DOMAIN line : OneChannel(line[i], k) => line[i] <= k

ClientType ==
  /\ transit \in [Nodes -> Seq(Nat)]
  /\ seen \in [Nodes -> SUBSET Nat]
  /\ IsLine(transit["payee"])
  /\ IsLine(passed)
  /\ \A i \in DOMAIN passed :
       log[passed[i]].kind = "commitment" /\ passed[i] \in seen["payee"]

LineInv ==
  /\ ClientType
  /\ Ordered(transit["payee"])
  /\ \A k \in stored : UpTo(transit["payee"], k) /\ UpTo(passed, k)
  /\ \A i \in DOMAIN transit["payee"] : UpTo(passed, transit["payee"][i])
  /\ CommitmentsAdvance

(* The replay of what the relay has is a line, in whatever order. *)
LEMMA ReplayIsLine ==
  ASSUME RelayInv, NEW n \in Nodes, NEW replay \in Replays(n)
  PROVE  /\ replay \in Seq(Nat)
         /\ \A i \in DOMAIN replay : replay[i] \in stored
<1> DEFINE S == {k \in stored : SentTo(n, log[k])}
<1>1. log \in Seq(Event) /\ stored \subseteq DOMAIN log
  BY DEF RelayInv, RelayType
<1>2. S \subseteq 1 .. Len(log) /\ Len(log) \in Nat
  BY <1>1
<1>3. IsFiniteSet(1 .. Len(log))
  BY <1>2, FS_Interval
<1>4. IsFiniteSet(S)
  BY <1>2, <1>3, FS_Subset
<1>5. Cardinality(S) \in Nat
  BY <1>4, FS_CardinalityType
<1>6. replay \in [1 .. Cardinality(S) -> S]
  BY DEF Replays, SetToSeqs
<1>7. replay \in Seq(S)
  <2> DEFINE m == Cardinality(S)
  <2>1. m \in Nat /\ replay \in [1 .. m -> S]
    BY <1>5, <1>6
  <2> HIDE DEF m
  <2> QED BY <2>1
<1>8. S \subseteq Nat
  BY <1>2
<1> QED BY <1>6, <1>7, <1>8

(* Two commitments of one channel that the relay keeps are the same. *)
LEMMA OneStored ==
  ASSUME RelayInv, NEW j \in stored, NEW k \in stored, OneChannel(j, k)
  PROVE  j = k
<1>1. SameAddress(log[j], log[k])
  BY DEF OneChannel, SameAddress, Author, KindNumber, DTag
<1> QED BY <1>1 DEF RelayInv, OnePerAddress

LEMMA EmitKeepsLine ==
  ASSUME RelayInv, LineInv, NEW e, Signed(e), Emit(e)
  PROVE  LineInv'
<1> DEFINE n == Len(log) + 1
           line == transit["payee"]
<1>1. /\ log' = Append(log, e) /\ stored' \subseteq stored \union {n}
      /\ seen' = seen /\ passed' = passed
      /\ \/ transit' = transit
         \/ transit' = [x \in Nodes |-> IF x \in up /\ SentTo(x, e)
                                        THEN Append(transit[x], n) ELSE transit[x]]
  BY DEF Emit, Replaced
<1>2. log \in Seq(Event) /\ stored \subseteq DOMAIN log /\ e \in Event
  BY DEF RelayInv, RelayType, Signed
<1>3. /\ DOMAIN log' = DOMAIN log \union {n} /\ n \in Nat
      /\ \A k \in DOMAIN log : log'[k] = log[k] /\ k \in Nat /\ k < n
  BY <1>1, <1>2
<1>4. ClientType
  BY DEF LineInv
<1>5. line' = line \/ line' = Append(line, n)
  BY <1>1, <1>4 DEF ClientType, Nodes
<1>6. line \in Seq(Nat) /\ \A i \in DOMAIN line : line[i] \in DOMAIN log
  BY <1>4 DEF ClientType, IsLine
<1>7. passed \in Seq(Nat) /\ \A i \in DOMAIN passed : passed[i] \in DOMAIN log
  BY <1>4 DEF ClientType, IsLine
<1>8. /\ line' \in Seq(Nat)
      /\ \A i \in DOMAIN line' : line'[i] \in DOMAIN log' /\ line'[i] \in Nat /\ line'[i] <= n
      /\ \A i \in DOMAIN line' : \/ i \in DOMAIN line /\ line'[i] = line[i]
                                 \/ i = Len(line) + 1 /\ line'[i] = n
  <2> HIDE DEF n, line
  <2>1. CASE line' = line
    BY <2>1, <1>3, <1>6
  <2>2. CASE line' = Append(line, n)
    <3>1. /\ line' \in Seq(Nat) /\ DOMAIN line' = DOMAIN line \union {Len(line) + 1}
          /\ \A i \in DOMAIN line : line'[i] = line[i]
          /\ line'[Len(line) + 1] = n
      BY <2>2, <1>3, <1>6
    <3> QED BY <3>1, <1>3, <1>6
  <2> QED BY <2>1, <2>2, <1>5
<1>9. ClientType'
  <2>1. transit' \in [Nodes -> Seq(Nat)]
    <3>1. \A x \in Nodes : transit[x] \in Seq(Nat) /\ Append(transit[x], n) \in Seq(Nat)
      BY <1>3, <1>4 DEF ClientType
    <3> HIDE DEF n
    <3> QED BY <3>1, <1>1, <1>4 DEF ClientType
  <2>2. IsLine(transit["payee"])'
    BY <1>8 DEF IsLine
  <2> QED BY <2>1, <2>2, <1>1, <1>3, <1>4, <1>7 DEF ClientType, IsLine
<1>10. Ordered(transit["payee"])'
  <2> SUFFICES ASSUME NEW i \in DOMAIN line', NEW j \in DOMAIN line', i <= j,
                      OneChannel(line[i], line[j])'
               PROVE  line'[i] <= line'[j]
    BY DEF Ordered
  <2>1. CASE j \in DOMAIN line /\ line'[j] = line[j]
    <3>1. i \in DOMAIN line /\ line'[i] = line[i]
      BY SMTT(60), <2>1, <1>6, <1>8
    <3>2. OneChannel(line[i], line[j])
      BY <2>1, <3>1, <1>3, <1>6 DEF OneChannel
    <3> QED BY <2>1, <3>1, <3>2 DEF LineInv, Ordered
  <2>2. CASE line'[j] = n
    BY <2>2, <1>8
  <2> QED BY <2>1, <2>2, <1>8
<1>11. \A k \in stored' : UpTo(transit["payee"], k)' /\ UpTo(passed, k)'
  <2> SUFFICES ASSUME NEW k \in stored'
               PROVE  UpTo(transit["payee"], k)' /\ UpTo(passed, k)'
    OBVIOUS
  <2>1. CASE k = n
    <3>1. \A i \in DOMAIN passed' : passed'[i] <= n
      BY <1>1, <1>3, <1>7
    <3> QED BY <2>1, <3>1, <1>8 DEF UpTo
  <2>2. CASE k \in stored
    <3>1. UpTo(passed, k)'
      <4> SUFFICES ASSUME NEW i \in DOMAIN passed, OneChannel(passed[i], k)'
                   PROVE  passed[i] <= k
        BY <1>1, Zenon DEF UpTo
      <4>1. OneChannel(passed[i], k)
        BY <2>2, <1>1, <1>2, <1>3, <1>7 DEF OneChannel
      <4> QED BY <2>2, <4>1 DEF LineInv, UpTo
    <3>2. ASSUME NEW i \in DOMAIN line', OneChannel(line[i], k)' PROVE line'[i] <= k
      <4>1. CASE i \in DOMAIN line /\ line'[i] = line[i]
        <5>1. OneChannel(line[i], k)
          BY <3>2, <4>1, <2>2, <1>2, <1>3, <1>6 DEF OneChannel
        <5> QED BY <4>1, <5>1, <2>2 DEF LineInv, UpTo
      <4>2. CASE i = Len(line) + 1 /\ line'[i] = n
        <5>1. transit' # transit
          BY <4>2, <1>6
        <5>2. n \in stored' /\ Accepted(e) /\ stored' = (stored \ Replaced(e)) \union {n}
          BY <5>1 DEF Emit
        <5>3. log'[n] = e
          BY <1>1, <1>2
        <5>4. SameAddress(log[k], e)
          <6>1. /\ log'[n].kind = "commitment" /\ log'[k].kind = "commitment"
                /\ log'[n].tag = log'[k].tag
            BY <3>2, <4>2 DEF OneChannel
          <6>2. e.kind = log[k].kind /\ e.tag = log[k].tag
            BY <6>1, <5>3, <2>2, <1>2, <1>3
          <6> QED BY <6>2 DEF SameAddress, Author, KindNumber, DTag
        <5>5. k \in Replaced(e) /\ k # n
          BY <5>4, <2>2, <1>2, <1>3 DEF Replaced
        <5> QED BY <5>2, <5>5
      <4> QED BY <4>1, <4>2, <1>8
    <3> QED BY <3>1, <3>2 DEF UpTo
  <2> QED BY <2>1, <2>2, <1>1
<1>12. \A i \in DOMAIN transit["payee"]' : UpTo(passed, transit["payee"][i])'
  <2> SUFFICES ASSUME NEW i \in DOMAIN line', NEW p \in DOMAIN passed,
                      OneChannel(passed[p], line[i])'
               PROVE  passed[p] <= line'[i]
    BY <1>1, Zenon DEF UpTo
  <2>1. CASE i \in DOMAIN line /\ line'[i] = line[i]
    <3>1. OneChannel(passed[p], line[i])
      BY <2>1, <1>1, <1>3, <1>6, <1>7 DEF OneChannel
    <3> QED BY <2>1, <3>1 DEF LineInv, UpTo
  <2>2. CASE line'[i] = n
    BY <2>2, <1>3, <1>7
  <2> QED BY <2>1, <2>2, <1>8
<1>13. CommitmentsAdvance'
  BY <1>1, <1>3, <1>7 DEF CommitmentsAdvance, LineInv
<1> QED BY <1>9, <1>10, <1>11, <1>12, <1>13 DEF LineInv

LEMMA HandleKeepsLine ==
  ASSUME LineInv, NEW n \in Nodes, Handle(n)
  PROVE  LineInv'
<1> DEFINE k == Head(transit[n])
           line == transit["payee"]
<1>1. /\ log' = log /\ stored' = stored
      /\ transit[n] # <<>> /\ transit' = [transit EXCEPT ![n] = Tail(@)]
      /\ seen' = [seen EXCEPT ![n] = @ \union {k}]
      /\ \/ /\ k \notin seen[n] /\ Wanted(n, log[k])
            /\ log[k].kind = "commitment" /\ passed' = Append(passed, k)
         \/ passed' = passed
  BY DEF Handle, IsDuplicate
<1>2. ClientType
  BY DEF LineInv
<1>3. line \in Seq(Nat) /\ \A i \in DOMAIN line : line[i] \in DOMAIN log
  BY <1>2 DEF ClientType, IsLine
<1>4. passed \in Seq(Nat) /\ \A i \in DOMAIN passed : passed[i] \in DOMAIN log
  BY <1>2 DEF ClientType, IsLine
<1>5. /\ transit[n] \in Seq(Nat) /\ k \in Nat /\ Tail(transit[n]) \in Seq(Nat)
  BY <1>1, <1>2 DEF ClientType
<1>6. transit' \in [Nodes -> Seq(Nat)] /\ seen' \in [Nodes -> SUBSET Nat]
  BY <1>1, <1>2, <1>5 DEF ClientType
<1>7. seen["payee"] \subseteq seen'["payee"]
  BY <1>1, <1>2 DEF ClientType, Nodes
<1>8. CASE n = "payer"
  <2>1. line' = line
    BY <1>1, <1>2, <1>8 DEF ClientType, Nodes
  <2>2. passed' = passed
    BY <1>1, <1>8 DEF Wanted, PTagFits
  <2> QED BY <2>1, <2>2, <1>1, <1>2, <1>6, <1>7
          DEF LineInv, ClientType, IsLine, Ordered, UpTo, OneChannel, CommitmentsAdvance
<1>9. CASE n = "payee"
  <2>1. line # <<>> /\ line' = Tail(line) /\ k = line[1]
    BY <1>1, <1>2, <1>9 DEF ClientType, Nodes
  <2>2. /\ line' \in Seq(Nat) /\ 1 \in DOMAIN line
        /\ \A i \in DOMAIN line' : i \in Nat /\ i + 1 \in DOMAIN line /\ line'[i] = line[i + 1]
    <3> HIDE DEF line
    <3> QED BY <2>1, <1>3
  <2>3. k \in DOMAIN log /\ k \in seen'["payee"]
    BY <2>1, <2>2, <1>1, <1>2, <1>3, <1>9 DEF ClientType, Nodes
  <2>4. Ordered(transit["payee"])'
    <3>1. Ordered(line')
      <4> SUFFICES ASSUME NEW i \in DOMAIN line', NEW j \in DOMAIN line', i <= j,
                          OneChannel(line'[i], line'[j])
                   PROVE  line'[i] <= line'[j]
        BY DEF Ordered
      <4>1. i + 1 <= j + 1 /\ i + 1 \in DOMAIN line /\ j + 1 \in DOMAIN line
        BY <2>2
      <4>2. OneChannel(line[i + 1], line[j + 1])
        BY <2>2
      <4> QED BY <2>2, <4>1, <4>2 DEF LineInv, Ordered
    <3>2. log' = log
      BY <1>1
    <3> QED BY <3>1, <3>2 DEF Ordered, OneChannel
  <2>5. \A x \in stored : UpTo(transit["payee"], x)'
    BY ZenonT(60), <2>2, <1>1 DEF UpTo, OneChannel, LineInv
  <2>6. \A i \in DOMAIN line' : UpTo(passed, line'[i])
    BY <2>2 DEF LineInv
  <2>7. \A i \in DOMAIN line' : OneChannel(k, line'[i]) => k <= line'[i]
    BY <2>1, <2>2 DEF LineInv, Ordered
  <2>8. \A x \in stored : OneChannel(k, x) => k <= x
    BY <2>1, <2>2 DEF LineInv, UpTo
  <2>9. CASE passed' = passed
    BY <2>9, <2>2, <2>4, <2>5, <2>6, <1>1, <1>2, <1>3, <1>6, <1>7
       DEF LineInv, ClientType, IsLine, UpTo, OneChannel, CommitmentsAdvance
  <2>10. CASE /\ k \notin seen[n] /\ log[k].kind = "commitment"
              /\ passed' = Append(passed, k)
    <3>1. /\ passed' \in Seq(Nat)
          /\ \A i \in DOMAIN passed' :
               \/ i \in DOMAIN passed /\ passed'[i] = passed[i] /\ i < Len(passed) + 1
               \/ i = Len(passed) + 1 /\ passed'[i] = k
      <4> HIDE DEF k
      <4> QED BY <2>10, <1>4, <1>5
    <3>2. ClientType'
      BY <3>1, <2>2, <2>3, <2>10, <1>1, <1>2, <1>3, <1>4, <1>6, <1>7
         DEF ClientType, IsLine
    <3>3. \A x \in stored : UpTo(passed, x)'
      BY <3>1, <2>8, <1>1 DEF UpTo, OneChannel, LineInv
    <3>4. \A i \in DOMAIN line' : UpTo(passed, transit["payee"][i])'
      BY <3>1, <2>6, <2>7, <1>1 DEF UpTo, OneChannel
    <3>5. \A i \in DOMAIN passed : OneChannel(passed[i], k) => passed[i] < k
      <4>1. UpTo(passed, k)
        BY <2>1, <2>2 DEF LineInv
      <4>2. \A i \in DOMAIN passed : passed[i] # k
        BY <2>10, <1>2, <1>9 DEF ClientType
      <4> QED BY <4>1, <4>2, <1>4, <1>5 DEF UpTo
    <3>6. CommitmentsAdvance'
      <4> SUFFICES ASSUME NEW i \in DOMAIN passed', NEW j \in DOMAIN passed', i < j,
                          log[passed'[i]].tag = log[passed'[j]].tag
                   PROVE  passed'[i] < passed'[j]
        BY <1>1 DEF CommitmentsAdvance
      <4>1. CASE j \in DOMAIN passed /\ passed'[j] = passed[j]
        <5>1. i \in DOMAIN passed /\ passed'[i] = passed[i]
          BY <4>1, <3>1, <1>4
        <5> QED BY <4>1, <5>1 DEF LineInv, CommitmentsAdvance
      <4>2. CASE j = Len(passed) + 1 /\ passed'[j] = k
        <5>1. i \in DOMAIN passed /\ passed'[i] = passed[i]
          BY <4>2, <3>1, <1>4
        <5>2. OneChannel(passed[i], k)
          BY <4>2, <5>1, <2>10, <1>2 DEF ClientType, OneChannel
        <5> QED BY <4>2, <5>1, <5>2, <3>5
      <4> QED BY <4>1, <4>2, <3>1
    <3> QED BY <3>2, <2>4, <2>5, <3>3, <3>4, <3>6, <1>1 DEF LineInv
  <2> QED BY <2>9, <2>10, <1>1
<1> QED BY <1>8, <1>9 DEF Nodes

(* A lost connection or a restart: what is left of the line, a replay, or  *)
(* a replay after what is left.                                            *)
LEMMA NewLine ==
  ASSUME RelayInv, LineInv, UNCHANGED <<log, stored>>,
         transit' \in [Nodes -> Seq(Nat)],
         seen' \in [Nodes -> SUBSET Nat],
         \/ passed' = passed /\ seen["payee"] \subseteq seen'["payee"]
         \/ passed' = <<>>,
         \A i \in DOMAIN transit'["payee"] :
           \/ transit'["payee"][i] \in stored
           \/ /\ passed' = passed
              /\ \E m \in DOMAIN transit["payee"] : transit'["payee"][i] = transit["payee"][m],
         Ordered(transit'["payee"])
  PROVE  LineInv'
<1> DEFINE line == transit["payee"]
<1>1. ClientType /\ stored \subseteq DOMAIN log
  BY DEF LineInv, RelayInv, RelayType
<1>2. \A i \in DOMAIN line' : line'[i] \in DOMAIN log
  BY <1>1 DEF ClientType, IsLine
<1>3. passed' \in Seq(Nat) /\ \A i \in DOMAIN passed' :
         i \in DOMAIN passed /\ passed' = passed
  <2>1. passed \in Seq(Nat)
    BY <1>1 DEF ClientType, IsLine
  <2>2. <<>> \in Seq(Nat) /\ DOMAIN <<>> = {}
    OBVIOUS
  <2> QED BY <2>1, <2>2
<1>4. ClientType'
  BY SMTT(60), <1>1, <1>2, <1>3 DEF ClientType, IsLine, Nodes
<1>5. Ordered(transit["payee"])'
  BY DEF Ordered, OneChannel
<1>6. \A k \in stored : UpTo(transit["payee"], k)'
  <2> SUFFICES ASSUME NEW k \in stored, NEW i \in DOMAIN line', OneChannel(line'[i], k)
               PROVE  line'[i] <= k
    BY DEF UpTo, OneChannel
  <2>1. CASE line'[i] \in stored
    <3>1. line'[i] = k
      BY <2>1, OneStored
    <3>2. k \in Nat
      BY <1>1 DEF RelayInv, RelayType
    <3> QED BY <3>1, <3>2
  <2>2. CASE \E m \in DOMAIN line : line'[i] = line[m]
    BY <2>2 DEF LineInv, UpTo
  <2> QED BY <2>1, <2>2
<1>7. \A k \in stored : UpTo(passed, k)'
  BY <1>3 DEF UpTo, OneChannel, LineInv
<1>8. \A i \in DOMAIN line' : UpTo(passed, transit["payee"][i])'
  BY <1>3 DEF UpTo, OneChannel, LineInv
<1>9. CommitmentsAdvance'
  BY <1>3 DEF CommitmentsAdvance, LineInv
<1> QED BY <1>4, <1>5, <1>6, <1>7, <1>8, <1>9 DEF LineInv

LEMMA LoseKeepsLine ==
  ASSUME RelayInv, LineInv, NEW n \in Nodes, Lose(n)
  PROVE  LineInv'
<1> DEFINE line == transit["payee"]
<1>1. PICK arrived \in Prefixes(transit[n]) : transit' = [transit EXCEPT ![n] = arrived]
  BY DEF Lose
<1>2. PICK l \in 0 .. Len(transit[n]) : arrived = SubSeq(transit[n], 1, l)
  BY DEF Prefixes
<1>3. transit \in [Nodes -> Seq(Nat)] /\ seen \in [Nodes -> SUBSET Nat]
  BY DEF LineInv, ClientType
<1>4. /\ arrived \in Seq(Nat)
      /\ \A i \in DOMAIN arrived : i \in DOMAIN transit[n] /\ arrived[i] = transit[n][i]
  BY <1>2, <1>3
<1>5. transit' \in [Nodes -> Seq(Nat)]
  BY <1>1, <1>3, <1>4
<1>6. \A i \in DOMAIN line' : i \in DOMAIN line /\ line'[i] = line[i]
  BY <1>1, <1>3, <1>4 DEF Nodes
<1>7. Ordered(transit'["payee"])
  BY <1>6 DEF Ordered, LineInv
<1> QED BY <1>3, <1>5, <1>6, <1>7, NewLine DEF Lose

LEMMA ReconnectKeepsLine ==
  ASSUME RelayInv, LineInv, NEW n \in Nodes, Reconnect(n)
  PROVE  LineInv'
<1> DEFINE line == transit["payee"]
<1>1. PICK replay \in Replays(n) : transit' = [transit EXCEPT ![n] = @ \o replay]
  BY DEF Reconnect
<1>2. /\ replay \in Seq(Nat)
      /\ \A i \in DOMAIN replay : replay[i] \in stored
  BY ReplayIsLine
<1>3. transit \in [Nodes -> Seq(Nat)] /\ seen \in [Nodes -> SUBSET Nat]
  BY DEF LineInv, ClientType
<1>4. \A x \in Nodes :
        /\ transit[x] \o replay \in Seq(Nat)
        /\ \A i \in DOMAIN (transit[x] \o replay) :
             \/ i \in DOMAIN transit[x] /\ (transit[x] \o replay)[i] = transit[x][i]
             \/ /\ i > Len(transit[x])
                /\ (transit[x] \o replay)[i] \in stored
  BY <1>2, <1>3
<1>5. transit' \in [Nodes -> Seq(Nat)]
  BY <1>1, <1>3, <1>4
<1>6. \A i \in DOMAIN line' :
        \/ i \in DOMAIN line /\ line'[i] = line[i]
        \/ i > Len(line) /\ line'[i] \in stored
  BY <1>1, <1>3, <1>4 DEF Nodes
<1>7. Ordered(transit'["payee"])
  <2> SUFFICES ASSUME NEW i \in DOMAIN line', NEW j \in DOMAIN line', i <= j,
                      OneChannel(line'[i], line'[j])
               PROVE  line'[i] <= line'[j]
    BY DEF Ordered
  <2>0. line \in Seq(Nat) /\ line' \in Seq(Nat)
    BY <1>3, <1>5 DEF Nodes
  <2>1. CASE j \in DOMAIN line /\ line'[j] = line[j]
    <3>1. i \in DOMAIN line /\ line'[i] = line[i]
      <4>1. j <= Len(line) /\ i \in Nat /\ j \in Nat
        BY SMTT(60), <2>0, <2>1
      <4>2. Len(line) \in Nat /\ ~ (i > Len(line))
        BY <2>0, <4>1
      <4> QED
        BY <4>2, <1>6
    <3> QED BY <2>1, <3>1 DEF LineInv, Ordered
  <2>2. CASE line'[j] \in stored
    <3>1. CASE i \in DOMAIN line /\ line'[i] = line[i]
      BY <2>2, <3>1 DEF LineInv, UpTo
    <3>2. CASE line'[i] \in stored
      <4>1. line'[i] = line'[j]
        BY <2>2, <3>2, OneStored
      <4> QED BY <4>1, <2>0
    <3> QED BY <3>1, <3>2, <1>6
  <2> QED BY <2>1, <2>2, <1>6
<1> QED BY <1>3, <1>5, <1>6, <1>7, NewLine DEF Reconnect

LEMMA RestartKeepsLine ==
  ASSUME RelayInv, LineInv, NEW n \in Nodes, Restart(n)
  PROVE  LineInv'
<1> DEFINE line == transit["payee"]
<1>0. PICK replay \in Replays(n) : \E m \in 0 .. Len(replay) :
        transit' = [transit EXCEPT ![n] = SubSeq(replay, m + 1, Len(replay))]
  BY DEF Restart
<1>1. PICK lost \in 0 .. Len(replay) :
        transit' = [transit EXCEPT ![n] = SubSeq(replay, lost + 1, Len(replay))]
  BY <1>0
<1>2. /\ replay \in Seq(Nat)
      /\ \A i \in DOMAIN replay : replay[i] \in stored
  BY ReplayIsLine
<1>3. transit \in [Nodes -> Seq(Nat)] /\ seen \in [Nodes -> SUBSET Nat]
  BY DEF LineInv, ClientType
<1> DEFINE rest == SubSeq(replay, lost + 1, Len(replay))
<1>4. /\ rest \in Seq(Nat)
      /\ \A i \in DOMAIN rest : rest[i] \in stored
  BY <1>2
<1>5. transit' \in [Nodes -> Seq(Nat)]
  BY <1>1, <1>3, <1>4
<1>6. seen' \in [Nodes -> SUBSET Nat] /\ UNCHANGED <<log, stored>>
  BY <1>3 DEF Restart
<1>7. CASE n = "payer"
  <2>1. line' = line /\ passed' = passed /\ seen'["payee"] = seen["payee"]
    BY <1>1, <1>3, <1>7 DEF Restart, Nodes
  <2>2. Ordered(transit'["payee"])
    BY <2>1 DEF LineInv
  <2> QED BY <1>5, <1>6, <2>1, <2>2, NewLine
<1>8. CASE n = "payee"
  <2>1. line' = rest /\ passed' = <<>>
    BY <1>1, <1>3, <1>8 DEF Restart, Nodes
  <2>2. \A i \in DOMAIN line' : line'[i] \in stored /\ line'[i] \in Nat
    BY <2>1, <1>4
  <2>3. Ordered(transit'["payee"])
    <3> SUFFICES ASSUME NEW i \in DOMAIN line', NEW j \in DOMAIN line',
                        OneChannel(line'[i], line'[j])
                 PROVE  line'[i] <= line'[j]
      BY DEF Ordered
    <3>1. line'[i] = line'[j]
      BY <2>2, OneStored
    <3> QED BY <3>1, <2>2
  <2> QED BY <1>5, <1>6, <2>1, <2>2, <2>3, NewLine
<1> QED BY <1>7, <1>8 DEF Nodes

LEMMA InitLine == Init => LineInv
<1> SUFFICES ASSUME Init PROVE LineInv
  OBVIOUS
<1>1. transit["payee"] = <<>> /\ passed = <<>> /\ stored = {} /\ "payee" \in Nodes
  BY DEF Init, Nodes
<1>2. <<>> \in Seq(Nat) /\ DOMAIN <<>> = {}
  OBVIOUS
<1>3. transit \in [Nodes -> Seq(Nat)] /\ seen \in [Nodes -> SUBSET Nat]
  BY <1>2 DEF Init
<1> QED BY <1>1, <1>2, <1>3
        DEF LineInv, ClientType, IsLine, Ordered, UpTo, CommitmentsAdvance

LEMMA NextLine == RelayInv /\ LineInv /\ [Next]_vars => LineInv'
<1> SUFFICES ASSUME RelayInv, LineInv, [Next]_vars PROVE LineInv'
  OBVIOUS
<1>1. CASE Call
  <2>1. PICK e : Signed(e) /\ Emit(e)
    BY <1>1, CallEmits DEF RelayInv
  <2> QED BY <2>1, EmitKeepsLine
<1>2. ASSUME UNCHANGED <<log, stored, transit, seen, passed>> PROVE LineInv'
  BY <1>2 DEF LineInv, ClientType, IsLine, Ordered, UpTo, OneChannel, CommitmentsAdvance
<1>3. ASSUME NEW n \in Nodes, Take(n) PROVE LineInv'
  BY <1>2, <1>3 DEF Take
<1>4. CASE UNCHANGED vars
  BY <1>2, <1>4 DEF vars
<1> QED BY <1>1, <1>3, <1>4, HandleKeepsLine, LoseKeepsLine, ReconnectKeepsLine,
           RestartKeepsLine DEF Next

(* The commitments of a channel that one run of the payee's client hands   *)
(* out are newer and newer, through any number of losses and replays.      *)
THEOREM CommitmentsAdvanceAlways == Spec => []CommitmentsAdvance
<1>1. Init => RelayInv /\ LineInv
  BY InitRelay, InitLine
<1>2. (RelayInv /\ LineInv) /\ [Next]_vars => (RelayInv /\ LineInv)'
  BY NextRelay, NextLine
<1>3. LineInv => CommitmentsAdvance
  BY DEF LineInv
<1> QED BY <1>1, <1>2, <1>3, PTL DEF Spec

-----------------------------------------------------------------------------
(* The newest events arrive. *)

(* What sequence operations do to the set of elements. *)
LEMMA ElementsType ==
  ASSUME NEW X, NEW s \in Seq(X)
  PROVE  ToSet(s) \subseteq X
BY DEF ToSet

LEMMA ElementsAppend ==
  ASSUME NEW X, NEW s \in Seq(X), NEW x \in X
  PROVE  ToSet(Append(s, x)) = ToSet(s) \union {x}
<1>1. /\ DOMAIN Append(s, x) = DOMAIN s \union {Len(s) + 1}
      /\ Append(s, x)[Len(s) + 1] = x
      /\ \A i \in DOMAIN s : Append(s, x)[i] = s[i]
  OBVIOUS
<1>2. QED
  BY <1>1 DEF ToSet

LEMMA Element ==
  ASSUME NEW s
  PROVE  \A x : x \in ToSet(s) <=> \E i \in DOMAIN s : s[i] = x
BY DEF ToSet

LEMMA ElementsConcat ==
  ASSUME NEW X, NEW s \in Seq(X), NEW t \in Seq(X)
  PROVE  ToSet(s \o t) = ToSet(s) \union ToSet(t)
<1>0. PICK c : c = s \o t
  OBVIOUS
<1>1. /\ Len(s) \in Nat /\ Len(t) \in Nat
      /\ DOMAIN s = 1 .. Len(s) /\ DOMAIN t = 1 .. Len(t)
      /\ DOMAIN c = 1 .. Len(s) + Len(t)
      /\ \A i \in 1 .. Len(s) + Len(t) :
           c[i] = IF i <= Len(s) THEN s[i] ELSE t[i - Len(s)]
  BY <1>0
<1>2. \A i \in DOMAIN s : i \in DOMAIN c /\ c[i] = s[i]
  BY <1>1
<1>3. \A i \in DOMAIN t : \E j \in DOMAIN c : c[j] = t[i]
  <2>1. TAKE i \in DOMAIN t
  <2>2. i + Len(s) \in DOMAIN c /\ ~(i + Len(s) <= Len(s)) /\ (i + Len(s)) - Len(s) = i
    BY <1>1
  <2>3. c[i + Len(s)] = t[i]
    BY <1>1, <2>2
  <2>4. QED
    BY <2>2, <2>3
<1>4. \A i \in DOMAIN c : \/ i \in DOMAIN s /\ c[i] = s[i]
                          \/ i - Len(s) \in DOMAIN t /\ c[i] = t[i - Len(s)]
  BY <1>1
<1>5. \A x : x \in ToSet(c) => x \in ToSet(s) \/ x \in ToSet(t)
  BY <1>4, Element
<1>6. \A x : x \in ToSet(s) \/ x \in ToSet(t) => x \in ToSet(c)
  BY <1>2, <1>3, Element
<1>7. QED
  BY <1>0, <1>5, <1>6

LEMMA ElementsTail ==
  ASSUME NEW X, NEW s \in Seq(X), s # <<>>
  PROVE  ToSet(s) = {Head(s)} \union ToSet(Tail(s)) /\ Head(s) \in X
<1>0. PICK t, h : t = Tail(s) /\ h = Head(s)
  OBVIOUS
<1>1. /\ h = s[1] /\ 1 \in DOMAIN s /\ h \in X
      /\ \A i \in DOMAIN t : i + 1 \in DOMAIN s /\ t[i] = s[i + 1]
      /\ \A i \in DOMAIN s : i # 1 => i - 1 \in DOMAIN t /\ t[i - 1] = s[i]
  BY <1>0
<1>2. \A x : x \in ToSet(s) => x = h \/ x \in ToSet(t)
  BY <1>1, Element
<1>3. \A x : x = h \/ x \in ToSet(t) => x \in ToSet(s)
  BY <1>1, Element
<1>4. QED
  BY <1>0, <1>1, <1>2, <1>3

LEMMA ElementsCut ==
  ASSUME NEW X, NEW s \in Seq(X), NEW m \in 0 .. Len(s)
  PROVE  /\ SubSeq(s, 1, m) \in Seq(X) /\ SubSeq(s, m + 1, Len(s)) \in Seq(X)
         /\ ToSet(s) = ToSet(SubSeq(s, 1, m)) \union ToSet(SubSeq(s, m + 1, Len(s)))
<1> DEFINE a == SubSeq(s, 1, m)
           b == SubSeq(s, m + 1, Len(s))
<1>1. a \in Seq(X) /\ b \in Seq(X) /\ Len(s) \in Nat /\ DOMAIN s = 1 .. Len(s) /\ m \in Nat
  OBVIOUS
<1>2. DOMAIN a = 1 .. m /\ \A i \in 1 .. m : a[i] = s[i]
  OBVIOUS
<1>3. DOMAIN b = 1 .. Len(s) - m /\ \A i \in 1 .. Len(s) - m : b[i] = s[i + m]
  OBVIOUS
<1> HIDE DEF a, b
<1>4. \A i \in DOMAIN s : i \in DOMAIN a \/ (i - m \in DOMAIN b /\ b[i - m] = s[i])
  <2>1. TAKE i \in DOMAIN s
  <2>2. i \in 1 .. Len(s) /\ (i <= m \/ i - m \in 1 .. Len(s) - m) /\ (i - m) + m = i
    BY <1>1
  <2>3. QED
    BY <1>1, <1>2, <1>3, <2>2
<1>5. ToSet(s) = ToSet(a) \union ToSet(b)
  <2>1. \A i \in DOMAIN a : i \in DOMAIN s
    BY <1>1, <1>2
  <2>2. \A i \in DOMAIN b : i + m \in DOMAIN s
    BY <1>1, <1>3
  <2>3. QED
    BY <1>2, <1>3, <1>4, <2>1, <2>2 DEF ToSet
<1>6. QED
  BY <1>1, <1>5 DEF a, b

LEMMA ElementsRemoved ==
  ASSUME NEW X, NEW s \in Seq(X), NEW i \in DOMAIN s
  PROVE  /\ RemoveAt(s, i) \in Seq(X)
         /\ ToSet(s) = ToSet(RemoveAt(s, i)) \union {s[i]}
<1>1. i \in 1 .. Len(s) /\ Len(s) \in Nat
  OBVIOUS
<1> DEFINE a == SubSeq(s, 1, i - 1)
           c == SubSeq(s, 1, i)
           b == SubSeq(s, i + 1, Len(s))
<1>2. i - 1 \in 0 .. Len(s) /\ i \in 0 .. Len(s)
  BY <1>1
<1>3. a \in Seq(X) /\ b \in Seq(X) /\ ToSet(s) = ToSet(c) \union ToSet(b)
  BY <1>2, ElementsCut
<1>4. /\ DOMAIN a = 1 .. i - 1 /\ DOMAIN c = 1 .. i
      /\ (\A j \in 1 .. i - 1 : a[j] = s[j]) /\ (\A j \in 1 .. i : c[j] = s[j])
  BY <1>1
<1>5. RemoveAt(s, i) = a \o b
  BY DEF RemoveAt
<1> HIDE DEF a, b, c
<1>6. /\ \A j \in DOMAIN a : j \in DOMAIN c /\ c[j] = a[j]
      /\ \A j \in DOMAIN c : (j \in DOMAIN a /\ c[j] = a[j]) \/ j = i
      /\ i \in DOMAIN c /\ c[i] = s[i]
  BY <1>1, <1>4
<1>7. \A x : x \in ToSet(c) <=> x \in ToSet(a) \/ x = s[i]
  BY <1>6, Zenon DEF ToSet
<1>8. a \o b \in Seq(X) /\ ToSet(a \o b) = ToSet(a) \union ToSet(b)
  BY <1>3, ElementsConcat
<1>9. QED
  BY <1>3, <1>5, <1>7, <1>8

(* The replay of what the relay has leaves nothing out. *)
LEMMA ReplayIsAll ==
  ASSUME RelayInv, NEW n \in Nodes, NEW replay \in Replays(n)
  PROVE  /\ replay \in Seq(Nat)
         /\ ToSet(replay) = {k \in stored : SentTo(n, log[k])}
<1> DEFINE S == {k \in stored : SentTo(n, log[k])}
<1>1. log \in Seq(Event) /\ stored \subseteq DOMAIN log
  BY DEF RelayInv, RelayType
<1>2. S \subseteq 1 .. Len(log) /\ Len(log) \in Nat
  BY <1>1
<1>3. IsFiniteSet(S) /\ Cardinality(S) \in Nat
  <2>1. IsFiniteSet(1 .. Len(log))
    BY <1>2, FS_Interval
  <2>2. IsFiniteSet(S)
    BY <1>2, <2>1, FS_Subset
  <2>3. QED
    BY <2>2, FS_CardinalityType
<1>4. PICK m : m = Cardinality(S)
  OBVIOUS
<1>5. replay \in [1 .. m -> S] /\ \A i, j \in 1 .. m : i # j => replay[i] # replay[j]
  BY <1>4 DEF Replays, SetToSeqs
<1> HIDE DEF S
<1>6. replay \in Injection(1 .. m, S)
  BY <1>5 DEF Injection, IsInjective
<1>7. Cardinality(1 .. m) = m
  BY <1>3, <1>4, FS_Interval
<1>8. replay \in Surjection(1 .. m, S)
  BY <1>3, <1>4, <1>6, <1>7, FS_Injection
<1>9. \A k \in S : \E i \in 1 .. m : replay[i] = k
  BY <1>8 DEF Surjection
<1>10. ToSet(replay) = S
  <2>1. DOMAIN replay = 1 .. m /\ \A i \in 1 .. m : replay[i] \in S
    BY <1>5
  <2>2. \A x : x \in ToSet(replay) => x \in S
    BY <2>1, Element
  <2>3. \A x : x \in S => x \in ToSet(replay)
    BY <1>9, <2>1, Element
  <2>4. QED
    BY <2>2, <2>3
<1>11. QED
  BY <1>10, ReplayIsLine DEF S

(* The client of n has given k to its application, or queued it. *)
Delivered(n, k) == k \in got[n] \/ k \in ToSet(queue[n])

PostType ==
  /\ transit \in [Nodes -> Seq(Nat)] /\ queue \in [Nodes -> Seq(Nat)]
  /\ seen \in [Nodes -> SUBSET Nat]
  /\ got \in [Nodes -> SUBSET Nat] /\ missed \in [Nodes -> SUBSET Nat]
  /\ up \subseteq Nodes
  /\ \A n \in Nodes : ToSet(transit[n]) \subseteq DOMAIN log /\ seen[n] \subseteq DOMAIN log

(* The running client has dispatched what it marked as seen ... *)
Dispatched ==
  \A n \in Nodes : \A k \in seen[n] : Wanted(n, log[k]) => Delivered(n, k)

(* ... and the newest events that are not dispatched are on their way. *)
Coming ==
  \A n \in up : \A k \in DOMAIN log :
    SentTo(n, log[k]) /\ Newest(k) =>
      Delivered(n, k) \/ k \in missed[n] \/ k \in ToSet(transit[n])

PostInv == PostType /\ Dispatched /\ Coming

(* Of two clients the one that did not sign an event can read it. *)
LEMMA SentIsWanted ==
  ASSUME NEW n \in Nodes, NEW e, SentTo(n, e)
  PROVE  Wanted(n, e)
BY DEF SentTo, Wanted, PTagFits, Decrypts, Author, Nodes, PayerKinds

(* The relay keeps the newest event of a topic. *)
LEMMA NewestIsKept ==
  ASSUME RelayInv, NEW k \in DOMAIN log, Newest(k)
  PROVE  k \in stored
<1>1. PICK j \in stored : SameAddress(log[j], log[k]) /\ log[k].at <= log[j].at
  BY DEF RelayInv, NewestIsStored
<1>2. j \in DOMAIN log /\ SameTopic(log[j], log[k])
  BY <1>1 DEF RelayInv, RelayType, SameAddress, SameTopic, DTag
<1>3. log[j] \in Event /\ log[k] \in Event
  BY <1>2 DEF RelayInv, RelayType
<1>4. log[j].at \in 1 .. MaxEvents /\ log[k].at \in 1 .. MaxEvents
  BY <1>3 DEF Event
<1>5. j # k => log[j].at < log[k].at
  BY <1>2 DEF Newest
<1>6. QED
  BY <1>1, <1>4, <1>5

(* A signed event is sent to whom it is meant for, or is not the newest. *)
LEMMA EmitKeepsPost ==
  ASSUME RelayInv, PostInv, NEW e, Signed(e), Emit(e)
  PROVE  PostInv'
<1>0. PICK k : k = Len(log) + 1
  OBVIOUS
<1>1. log \in Seq(Event) /\ stored \subseteq DOMAIN log /\ e \in Event /\ Len(log) \in Nat
  BY DEF RelayInv, RelayType, Signed
<1>2. /\ log' = Append(log, e)
      /\ UNCHANGED <<up, seen, queue, got, missed>>
      /\ \/ /\ Accepted(e)
            /\ transit' = [n \in Nodes |-> IF n \in up /\ SentTo(n, e)
                                           THEN Append(transit[n], k) ELSE transit[n]]
         \/ ~Accepted(e) /\ transit' = transit
  BY <1>0 DEF Emit
<1>3. /\ k \in Nat /\ DOMAIN log' = DOMAIN log \union {k} /\ log'[k] = e
      /\ \A j \in DOMAIN log : log'[j] = log[j] /\ j # k
  BY <1>0, <1>1, <1>2
<1>4. \A n \in Nodes : transit[n] \in Seq(Nat)
  BY DEF PostInv, PostType
<1>5. \A n \in Nodes : /\ transit'[n] \in Seq(Nat)
                       /\ ToSet(transit[n]) \subseteq ToSet(transit'[n])
                       /\ ToSet(transit'[n]) \subseteq ToSet(transit[n]) \union {k}
                       /\ Accepted(e) /\ n \in up /\ SentTo(n, e) => k \in ToSet(transit'[n])
  <2>1. TAKE n \in Nodes
  <2>2. /\ Append(transit[n], k) \in Seq(Nat)
        /\ ToSet(Append(transit[n], k)) = ToSet(transit[n]) \union {k}
    BY <1>3, <1>4, ElementsAppend
  <2>3. \/ transit'[n] = Append(transit[n], k)
        \/ transit'[n] = transit[n] /\ ~(Accepted(e) /\ n \in up /\ SentTo(n, e))
    BY <1>2
  <2>4. QED
    BY <1>4, <2>2, <2>3
<1>6. PostType'
  <2>1. transit' \in [Nodes -> Seq(Nat)]
    <3>1. DOMAIN transit' = Nodes /\ transit' = [n \in Nodes |-> transit'[n]]
      BY <1>2 DEF PostInv, PostType
    <3>2. QED
      BY <1>5, <3>1
  <2>2. \A n \in Nodes : ToSet(transit'[n]) \subseteq DOMAIN log' /\ seen[n] \subseteq DOMAIN log'
    BY <1>3, <1>5 DEF PostInv, PostType
  <2>3. QED
    BY <1>2, <2>1, <2>2 DEF PostInv, PostType
<1>7. \A n, j : Delivered(n, j)' <=> Delivered(n, j)
  BY <1>2 DEF Delivered
<1>8. Dispatched'
  BY <1>2, <1>3, <1>7 DEF PostInv, PostType, Dispatched
<1>9. Coming'
  <2>1. SUFFICES ASSUME NEW n \in up, NEW j \in DOMAIN log', SentTo(n, log'[j]), Newest(j)'
                 PROVE  Delivered(n, j) \/ j \in missed[n] \/ j \in ToSet(transit'[n])
    BY <1>2, <1>7 DEF Coming
  <2>2. n \in Nodes
    BY DEF PostInv, PostType
  <2>3. CASE j \in DOMAIN log
    <3>1. Newest(j)
      BY <1>3, <2>1, <2>3 DEF Newest
    <3>2. Delivered(n, j) \/ j \in missed[n] \/ j \in ToSet(transit[n])
      BY <1>3, <2>1, <2>3, <3>1 DEF PostInv, Coming
    <3>3. QED
      BY <1>5, <2>2, <3>2
  <2>4. CASE j = k
    <3>1. Accepted(e)
      <4>1. SUFFICES ASSUME NEW i \in stored, SameAddress(log[i], e), ~(log[i].at < e.at)
                     PROVE  FALSE
        BY DEF Accepted
      <4>2. i \in DOMAIN log /\ SameTopic(log[i], e)
        BY <1>1, <4>1 DEF SameAddress, SameTopic, DTag
      <4>3. log[i].at < e.at
        BY <1>3, <2>1, <2>4, <4>2 DEF Newest
      <4>4. QED
        BY <4>1, <4>3
    <3>2. QED
      BY <1>3, <1>5, <2>1, <2>2, <2>4, <3>1
  <2>5. QED
    BY <1>3, <2>1, <2>3, <2>4
<1>10. QED
  BY <1>6, <1>8, <1>9 DEF PostInv

(* One step changes the fields of n only ... *)
OfOne(n) ==
  /\ log' = log /\ up' \subseteq Nodes /\ up' \ {n} \subseteq up
  /\ transit' = [transit EXCEPT ![n] = transit'[n]]
  /\ queue' = [queue EXCEPT ![n] = queue'[n]]
  /\ seen' = [seen EXCEPT ![n] = seen'[n]]
  /\ got' = [got EXCEPT ![n] = got'[n]]
  /\ missed' = [missed EXCEPT ![n] = missed'[n]]

(* ... whose types are kept ... *)
TypeOfOne(n) ==
  /\ transit'[n] \in Seq(Nat) /\ queue'[n] \in Seq(Nat)
  /\ seen'[n] \in SUBSET Nat /\ got'[n] \in SUBSET Nat /\ missed'[n] \in SUBSET Nat
  /\ ToSet(transit'[n]) \subseteq DOMAIN log /\ seen'[n] \subseteq DOMAIN log

(* ... and the invariant of n. *)
DispatchedOfOne(n) ==
  \A k \in seen'[n] : Wanted(n, log[k]) => k \in got'[n] \/ k \in ToSet(queue'[n])

ComingOfOne(n) ==
  n \in up' =>
    \A k \in DOMAIN log :
      SentTo(n, log[k]) /\ Newest(k) =>
        \/ k \in got'[n] \/ k \in ToSet(queue'[n])
        \/ k \in missed'[n] \/ k \in ToSet(transit'[n])

LEMMA ClientKeepsPost ==
  ASSUME PostInv, NEW n \in Nodes,
         OfOne(n), TypeOfOne(n), DispatchedOfOne(n), ComingOfOne(n)
  PROVE  PostInv'
<1>1. \A x \in Nodes \ {n} :
        /\ transit'[x] = transit[x] /\ queue'[x] = queue[x] /\ seen'[x] = seen[x]
        /\ got'[x] = got[x] /\ missed'[x] = missed[x]
  BY DEF PostInv, PostType, OfOne
<1>2. PostType'
  <2>1. /\ transit' \in [Nodes -> Seq(Nat)] /\ queue' \in [Nodes -> Seq(Nat)]
        /\ seen' \in [Nodes -> SUBSET Nat]
        /\ got' \in [Nodes -> SUBSET Nat] /\ missed' \in [Nodes -> SUBSET Nat]
    BY DEF PostInv, PostType, OfOne, TypeOfOne
  <2>2. \A x \in Nodes : ToSet(transit'[x]) \subseteq DOMAIN log' /\ seen'[x] \subseteq DOMAIN log'
    BY <1>1 DEF PostInv, PostType, OfOne, TypeOfOne
  <2>3. QED
    BY <2>1, <2>2 DEF PostType, OfOne
<1>3. Dispatched'
  <2>1. SUFFICES ASSUME NEW x \in Nodes, NEW k \in seen'[x], Wanted(x, log[k])
                 PROVE  k \in got'[x] \/ k \in ToSet(queue'[x])
    BY DEF Dispatched, Delivered, OfOne
  <2>2. CASE x = n
    BY <2>1, <2>2 DEF DispatchedOfOne
  <2>3. CASE x # n
    BY <1>1, <2>1, <2>3 DEF PostInv, Dispatched, Delivered
  <2>4. QED
    BY <2>2, <2>3
<1>4. \A k : Newest(k)' <=> Newest(k)
  BY DEF Newest, OfOne
<1>5. Coming'
  <2>1. SUFFICES ASSUME NEW x \in up', NEW k \in DOMAIN log, SentTo(x, log[k]), Newest(k)
                 PROVE  \/ k \in got'[x] \/ k \in ToSet(queue'[x])
                        \/ k \in missed'[x] \/ k \in ToSet(transit'[x])
    BY <1>4 DEF Coming, Delivered, OfOne
  <2>2. CASE x = n
    BY <2>1, <2>2 DEF ComingOfOne
  <2>3. CASE x # n
    <3>1. x \in up /\ x \in Nodes \ {n}
      BY <2>1, <2>3 DEF OfOne
    <3>2. Delivered(x, k) \/ k \in missed[x] \/ k \in ToSet(transit[x])
      BY <2>1, <3>1 DEF PostInv, Coming
    <3>3. QED
      BY <1>1, <3>1, <3>2 DEF Delivered
  <2>4. QED
    BY <2>2, <2>3
<1>6. QED
  BY <1>2, <1>3, <1>5 DEF PostInv

(* What the fields of one client are. *)
LEMMA PostFields ==
  ASSUME PostInv, NEW n \in Nodes
  PROVE  /\ transit[n] \in Seq(Nat) /\ queue[n] \in Seq(Nat) /\ seen[n] \in SUBSET Nat
         /\ got[n] \in SUBSET Nat /\ missed[n] \in SUBSET Nat /\ up \subseteq Nodes
         /\ ToSet(transit[n]) \subseteq DOMAIN log /\ seen[n] \subseteq DOMAIN log
         /\ transit = [transit EXCEPT ![n] = transit[n]]
         /\ queue = [queue EXCEPT ![n] = queue[n]]
         /\ seen = [seen EXCEPT ![n] = seen[n]]
         /\ got = [got EXCEPT ![n] = got[n]]
         /\ missed = [missed EXCEPT ![n] = missed[n]]
         /\ \A k \in seen[n] : Wanted(n, log[k]) => k \in got[n] \/ k \in ToSet(queue[n])
         /\ n \in up =>
              \A k \in DOMAIN log :
                SentTo(n, log[k]) /\ Newest(k) =>
                  \/ k \in got[n] \/ k \in ToSet(queue[n])
                  \/ k \in missed[n] \/ k \in ToSet(transit[n])
BY DEF PostInv, PostType, Dispatched, Coming, Delivered

(* What leaves the line is in a queue, or was before, or is for another. *)
LEMMA HandleKeepsPost ==
  ASSUME PostInv, NEW n \in Nodes, Handle(n)
  PROVE  PostInv'
<1>0. PICK k, t : k = Head(transit[n]) /\ t = Tail(transit[n])
  OBVIOUS
<1>1. /\ transit[n] \in Seq(Nat) /\ transit[n] # <<>> /\ t \in Seq(Nat)
  BY <1>0, PostFields DEF Handle
<1>2. ToSet(transit[n]) = {k} \union ToSet(t) /\ k \in Nat
  BY <1>0, <1>1, ElementsTail
<1>3. k \in DOMAIN log /\ ToSet(t) \subseteq DOMAIN log
  BY <1>2, PostFields
<1>4. /\ UNCHANGED <<log, up, got, missed>>
      /\ transit' = [transit EXCEPT ![n] = t]
      /\ seen' = [seen EXCEPT ![n] = seen[n] \union {k}]
      /\ \/ ~(k \in seen[n]) /\ queue' = [queue EXCEPT ![n] = Append(queue[n], k)]
         \/ (k \in seen[n] \/ ~Wanted(n, log[k])) /\ queue' = queue
  BY <1>0 DEF Handle, IsDuplicate
<1>5. /\ transit'[n] = t /\ seen'[n] = seen[n] \union {k}
      /\ got'[n] = got[n] /\ missed'[n] = missed[n]
  BY <1>4 DEF PostInv, PostType
<1>6. /\ queue' = [queue EXCEPT ![n] = queue'[n]]
      /\ queue'[n] \in Seq(Nat) /\ ToSet(queue[n]) \subseteq ToSet(queue'[n])
      /\ k \in ToSet(queue'[n]) \/ k \in seen[n] \/ ~Wanted(n, log[k])
  <2>1. CASE ~(k \in seen[n]) /\ queue' = [queue EXCEPT ![n] = Append(queue[n], k)]
    <3>1. queue[n] \in Seq(Nat) /\ k \in Nat
      BY <1>2, PostFields
    <3>2. /\ Append(queue[n], k) \in Seq(Nat)
          /\ ToSet(Append(queue[n], k)) = ToSet(queue[n]) \union {k}
      BY <3>1, ElementsAppend
    <3>3. queue'[n] = Append(queue[n], k)
      BY <2>1 DEF PostInv, PostType
    <3>4. QED
      BY <2>1, <3>2, <3>3
  <2>2. CASE (k \in seen[n] \/ ~Wanted(n, log[k])) /\ queue' = queue
    BY <2>2, PostFields
  <2>3. QED
    BY <1>4, <2>1, <2>2
<1>7. OfOne(n)
  BY <1>4, <1>5, <1>6, PostFields DEF OfOne
<1>8. TypeOfOne(n)
  BY <1>1, <1>2, <1>3, <1>5, <1>6, PostFields DEF TypeOfOne
<1>9. DispatchedOfOne(n)
  BY <1>5, <1>6, PostFields DEF DispatchedOfOne
<1>10. SentTo(n, log[k]) => k \in got'[n] \/ k \in ToSet(queue'[n])
  BY <1>5, <1>9, SentIsWanted DEF DispatchedOfOne
<1>11. ComingOfOne(n)
  BY <1>2, <1>4, <1>5, <1>6, <1>10, PostFields DEF ComingOfOne
<1>12. QED
  BY <1>7, <1>8, <1>9, <1>11, ClientKeepsPost

(* What the application takes it has. *)
LEMMA TakeKeepsPost ==
  ASSUME PostInv, NEW n \in Nodes, Take(n)
  PROVE  PostInv'
<1>1. PICK i \in DOMAIN queue[n] :
        /\ got' = [got EXCEPT ![n] = @ \union {queue[n][i]}]
        /\ queue' = [queue EXCEPT ![n] = RemoveAt(@, i)]
        /\ UNCHANGED <<log, up, transit, seen, missed>>
  BY DEF Take
<1>2. PICK k, q : k = queue[n][i] /\ q = RemoveAt(queue[n], i)
  OBVIOUS
<1>3. queue[n] \in Seq(Nat)
  BY PostFields
<1>4. q \in Seq(Nat) /\ ToSet(queue[n]) = ToSet(q) \union {k} /\ k \in Nat
  BY <1>2, <1>3, ElementsRemoved
<1>5. /\ got' = [got EXCEPT ![n] = got[n] \union {k}]
      /\ queue' = [queue EXCEPT ![n] = q]
  BY <1>1, <1>2
<1>6. /\ transit'[n] = transit[n] /\ seen'[n] = seen[n] /\ queue'[n] = q
      /\ got'[n] = got[n] \union {k} /\ missed'[n] = missed[n]
  BY <1>1, <1>5 DEF PostInv, PostType
<1>7. OfOne(n)
  BY <1>1, <1>5, <1>6, PostFields DEF OfOne
<1>8. TypeOfOne(n)
  BY <1>4, <1>6, PostFields DEF TypeOfOne
<1>9. DispatchedOfOne(n)
  BY <1>4, <1>6, PostFields DEF DispatchedOfOne
<1>10. ComingOfOne(n)
  BY <1>1, <1>4, <1>6, PostFields DEF ComingOfOne
<1>11. QED
  BY <1>7, <1>8, <1>9, <1>10, ClientKeepsPost

(* Nothing is asked of a client whose connection is down. *)
LEMMA LoseKeepsPost ==
  ASSUME PostInv, NEW n \in Nodes, Lose(n)
  PROVE  PostInv'
<1>1. PICK arrived \in Prefixes(transit[n]) : transit' = [transit EXCEPT ![n] = arrived]
  BY DEF Lose
<1>2. PICK l \in 0 .. Len(transit[n]) : arrived = SubSeq(transit[n], 1, l)
  BY DEF Prefixes
<1>3. arrived \in Seq(Nat) /\ ToSet(arrived) \subseteq ToSet(transit[n])
  BY <1>2, PostFields, ElementsCut
<1>4. UNCHANGED <<log, seen, queue, got, missed>> /\ up' = up \ {n}
  BY DEF Lose
<1>5. transit'[n] = arrived
  BY <1>1 DEF PostInv, PostType
<1>6. OfOne(n)
  BY <1>1, <1>4, <1>5, PostFields DEF OfOne
<1>7. TypeOfOne(n)
  BY <1>3, <1>4, <1>5, PostFields DEF TypeOfOne
<1>8. DispatchedOfOne(n)
  BY <1>4, PostFields DEF DispatchedOfOne
<1>9. ComingOfOne(n)
  BY <1>4 DEF ComingOfOne
<1>10. QED
  BY <1>6, <1>7, <1>8, <1>9, ClientKeepsPost

(* The replay has the newest events. *)
LEMMA NewestIsReplayed ==
  ASSUME RelayInv, NEW n \in Nodes, NEW replay \in Replays(n)
  PROVE  /\ replay \in Seq(Nat) /\ ToSet(replay) \subseteq DOMAIN log
         /\ \A k \in DOMAIN log : SentTo(n, log[k]) /\ Newest(k) => k \in ToSet(replay)
BY ReplayIsAll, NewestIsKept DEF RelayInv, RelayType

LEMMA ReconnectKeepsPost ==
  ASSUME RelayInv, PostInv, NEW n \in Nodes, Reconnect(n)
  PROVE  PostInv'
<1>1. PICK replay \in Replays(n) : transit' = [transit EXCEPT ![n] = @ \o replay]
  BY DEF Reconnect
<1>2. PICK t : t = transit[n] \o replay
  OBVIOUS
<1>3. transit[n] \in Seq(Nat) /\ replay \in Seq(Nat)
  BY PostFields, NewestIsReplayed
<1>4. t \in Seq(Nat) /\ ToSet(t) = ToSet(transit[n]) \union ToSet(replay)
  BY <1>2, <1>3, ElementsConcat
<1>5. UNCHANGED <<log, seen, queue, got, missed>> /\ up' = up \union {n}
  BY DEF Reconnect
<1>6. transit' = [transit EXCEPT ![n] = t] /\ transit'[n] = t
  BY <1>1, <1>2 DEF PostInv, PostType
<1>7. OfOne(n)
  BY <1>5, <1>6, PostFields DEF OfOne
<1>8. TypeOfOne(n)
  BY <1>4, <1>5, <1>6, PostFields, NewestIsReplayed DEF TypeOfOne
<1>9. DispatchedOfOne(n)
  BY <1>5, PostFields DEF DispatchedOfOne
<1>10. ComingOfOne(n)
  BY <1>4, <1>6, NewestIsReplayed DEF ComingOfOne
<1>11. QED
  BY <1>7, <1>8, <1>9, <1>10, ClientKeepsPost

(* A start that loses the first of the replay gets the rest of it. *)
LEMMA RestartKeepsPost ==
  ASSUME RelayInv, PostInv, NEW n \in Nodes, Restart(n)
  PROVE  PostInv'
<1>1. PICK replay \in Replays(n) : \E lost \in 0 .. Len(replay) :
        /\ missed' = [missed EXCEPT ![n] = ToSet(SubSeq(replay, 1, lost))]
        /\ transit' = [transit EXCEPT ![n] = SubSeq(replay, lost + 1, Len(replay))]
  BY DEF Restart
<1>2. PICK lost \in 0 .. Len(replay) :
        /\ missed' = [missed EXCEPT ![n] = ToSet(SubSeq(replay, 1, lost))]
        /\ transit' = [transit EXCEPT ![n] = SubSeq(replay, lost + 1, Len(replay))]
  BY <1>1
<1>3. PICK a, t : a = SubSeq(replay, 1, lost) /\ t = SubSeq(replay, lost + 1, Len(replay))
  OBVIOUS
<1>4. replay \in Seq(Nat)
  BY NewestIsReplayed
<1>5. a \in Seq(Nat) /\ t \in Seq(Nat) /\ ToSet(replay) = ToSet(a) \union ToSet(t)
  BY <1>3, <1>4, ElementsCut
<1>6. ToSet(a) \subseteq Nat
  BY <1>5, ElementsType
<1>7. UNCHANGED <<log, got>> /\ up' = up \union {n}
      /\ seen' = [seen EXCEPT ![n] = {}] /\ queue' = [queue EXCEPT ![n] = <<>>]
  BY DEF Restart
<1>8. missed' = [missed EXCEPT ![n] = ToSet(a)] /\ transit' = [transit EXCEPT ![n] = t]
  BY <1>2, <1>3
<1>9. /\ transit'[n] = t /\ seen'[n] = {} /\ queue'[n] = <<>>
      /\ got'[n] = got[n] /\ missed'[n] = ToSet(a)
  BY <1>7, <1>8 DEF PostInv, PostType
<1>10. OfOne(n)
  BY <1>7, <1>8, <1>9, PostFields DEF OfOne
<1>11. TypeOfOne(n)
  <2>1. <<>> \in Seq(Nat)
    OBVIOUS
  <2>2. QED
    BY <1>5, <1>6, <1>9, <2>1, PostFields, NewestIsReplayed DEF TypeOfOne
<1>12. DispatchedOfOne(n)
  BY <1>9 DEF DispatchedOfOne
<1>13. ComingOfOne(n)
  BY <1>5, <1>9, NewestIsReplayed DEF ComingOfOne
<1>14. QED
  BY <1>10, <1>11, <1>12, <1>13, ClientKeepsPost

LEMMA InitPost == Init => PostInv
<1> SUFFICES ASSUME Init PROVE PostInv
  OBVIOUS
<1>2. <<>> \in Seq(Nat) /\ ToSet(<<>>) = {} /\ DOMAIN log = {}
  BY DEF Init, ToSet
<1>3. \A n \in Nodes : transit[n] = <<>> /\ seen[n] = {}
  BY DEF Init
<1>4. PostType
  BY <1>2, <1>3 DEF Init, PostType
<1>5. Dispatched /\ Coming
  BY <1>2, <1>3 DEF Dispatched, Coming
<1>6. QED
  BY <1>4, <1>5 DEF PostInv

LEMMA NextPost == RelayInv /\ PostInv /\ [Next]_vars => PostInv'
<1> SUFFICES ASSUME RelayInv, PostInv, [Next]_vars PROVE PostInv'
  OBVIOUS
<1>2. CASE Call
  <2>1. PICK e : Signed(e) /\ Emit(e)
    BY <1>2, CallEmits DEF RelayInv
  <2>2. QED
    BY <2>1, EmitKeepsPost
<1>3. CASE UNCHANGED vars
  BY <1>3 DEF vars, PostInv, PostType, Dispatched, Coming, Delivered, Newest
<1>4. QED
  BY <1>2, <1>3, HandleKeepsPost, TakeKeepsPost, LoseKeepsPost, ReconnectKeepsPost,
     RestartKeepsPost DEF Next

(* Whatever is lost and replayed, and whenever a client is restarted: when *)
(* nothing is on its way any more, its application has, or has in a queue, *)
(* the newest event of each topic meant for it, but for what a start lost. *)
THEOREM NewestArrivesAlways == Spec => []NewestArrives
<1>1. Init => RelayInv /\ PostInv
  BY InitRelay, InitPost
<1>2. (RelayInv /\ PostInv) /\ [Next]_vars => (RelayInv /\ PostInv)'
  BY NextRelay, NextPost
<1>3. PostInv => NewestArrives
  <2>1. ToSet(<<>>) = {}
    BY DEF ToSet
  <2>2. QED
    BY <2>1 DEF PostInv, Coming, Delivered, NewestArrives
<1>4. QED
  BY <1>1, <1>2, <1>3, PTL DEF Spec

-----------------------------------------------------------------------------
(* Deduplication: the cache is a window                                    *)

USE DedupeAssumption

(* The cached identifiers are as many as a natural number. *)
LEMMA CachedFinite ==
  ASSUME NEW u
  PROVE  /\ IsFiniteSet(Cached(u)) /\ Cardinality(Cached(u)) \in Nat
         /\ Cached(u) \subseteq Events
<1>1. Cached(u) \subseteq Events
  BY DEF Cached
<1>2. QED
  BY <1>1, FS_Subset, FS_CardinalityType

(* A cache that is not empty has an oldest entry. *)
LEMMA OldestExists ==
  ASSUME NEW u \in [Events -> Nat], Cached(u) # {}
  PROVE  /\ Oldest(u) \in Cached(u)
         /\ \A x \in Cached(u) : u[Oldest(u)] <= u[x]
<1> DEFINE C == Cached(u)
           Down(x) == {y \in C : u[y] <= u[x]}
           T == {Down(x) : x \in C}
<1>1. IsFiniteSet(C) /\ C \subseteq Events /\ C # {}
  BY CachedFinite
<1>2. IsWellFoundedOn(StrictSubsetOrdering(C), FiniteSubsetsOf(C))
  BY FS_StrictSubsetOrderingWellFounded
<1>3. T \subseteq FiniteSubsetsOf(C) /\ T # {}
  <2>1. FiniteSubsetsOf(C) = SUBSET C
    BY <1>1, FS_FiniteSubsetsOfFinite
  <2>2. \A x \in C : Down(x) \subseteq C
    OBVIOUS
  <2> HIDE DEF Down, C
  <2>3. QED
    BY <1>1, <2>1, <2>2
<1>4. PICK D \in T : \A E \in T : <<E, D>> \notin StrictSubsetOrdering(C)
  <2> HIDE DEF T, C
  <2> QED
    BY <1>2, <1>3, WFMin
<1>5. PICK e \in C : D = Down(e)
  BY <1>4
<1>6. ASSUME NEW x \in C
      PROVE  u[e] <= u[x]
  <2>1. SUFFICES ASSUME u[x] < u[e]
                 PROVE  FALSE
    BY <1>1, <1>5, <1>6
  <2>2. Down(x) \subseteq Down(e) /\ e \notin Down(x) /\ e \in Down(e)
    BY <1>1, <1>5, <1>6, <2>1
  <2>3. <<Down(x), Down(e)>> \in StrictSubsetOrdering(C)
    BY <2>2 DEF StrictSubsetOrdering
  <2>4. QED
    BY <1>4, <1>5, <2>3
<1>7. QED
  BY <1>5, <1>6 DEF Oldest

-----------------------------------------------------------------------------
(* The parts of the invariant that hold of any dict u and history s. *)
Placed(u, s) ==
  \A e, x \in Events : u[e] # 0 => (x \in s[e] <=> u[x] > u[e])

Distinct(u) == \A e, x \in Events : (u[e] = u[x] /\ u[e] # 0) => e = x

(* Trim evicts the oldest entry or none: nothing overtakes anything, the   *)
(* size is within its bound, and whatever is evicted has at least MaxSize  *)
(* events after it.                                                        *)
LEMMA Trimmed ==
  ASSUME NEW u \in [Events -> Nat], NEW s \in [Events -> SUBSET Events],
         Placed(u, s), Distinct(u), Cardinality(Cached(u)) <= MaxSize + 1
  PROVE  /\ Trim(u) \in [Events -> Nat]
         /\ \A x \in Events : Trim(u)[x] \in {u[x], 0}
         /\ Placed(Trim(u), s) /\ Distinct(Trim(u))
         /\ Cardinality(Cached(Trim(u))) <= MaxSize
         /\ \A x \in Cached(u) \ Cached(Trim(u)) : Cardinality(s[x]) >= MaxSize
<1>1. IsFiniteSet(Cached(u)) /\ Cardinality(Cached(u)) \in Nat /\ Cached(u) \subseteq Events
  BY CachedFinite
<1>2. CASE Cardinality(Cached(u)) <= MaxSize
  BY <1>1, <1>2 DEF Trim
<1>3. CASE Cardinality(Cached(u)) > MaxSize
  <2>1. Cached(u) # {}
    BY <1>1, <1>3, FS_EmptySet
  <2>2. PICK o \in Cached(u) : o = Oldest(u) /\ \A x \in Cached(u) : u[o] <= u[x]
    BY <2>1, OldestExists
  <2>3. Trim(u) = [u EXCEPT ![o] = 0] /\ o \in Events
    BY <1>1, <1>3, <2>2 DEF Trim
  <2>4. \A x \in Cached(u) \ {o} : u[x] > u[o]
    BY <1>1, <2>2 DEF Distinct, Cached
  <2>5. Cached(Trim(u)) = Cached(u) \ {o}
    <3>1. \A x \in Events : Trim(u)[x] = IF x = o THEN 0 ELSE u[x]
      BY <2>3
    <3>2. QED
      BY <3>1 DEF Cached
  <2>6. Cardinality(Cached(Trim(u))) = MaxSize
    <3>1. Cardinality(Cached(u)) = MaxSize + 1 /\ MaxSize \in Nat
      BY <1>1, <1>3 DEF DedupeAssumption
    <3>2. Cardinality(Cached(u) \ {o}) = Cardinality(Cached(u)) - 1
      BY <1>1, <2>2, FS_RemoveElement
    <3>3. QED
      BY <2>5, <3>1, <3>2
  <2>7. Cardinality(s[o]) >= MaxSize
    <3>1. Cached(u) \ {o} \subseteq s[o]
      BY <1>1, <2>4 DEF Placed, Cached
    <3>2. IsFiniteSet(s[o]) /\ Cardinality(s[o]) \in Nat
      BY <2>3, FS_Subset, FS_CardinalityType
    <3>3. QED
      BY <2>5, <2>6, <3>1, <3>2, FS_Subset
  <2>8. Placed(Trim(u), s)
    <3>1. \A x \in Events : Trim(u)[x] = IF x = o THEN 0 ELSE u[x]
      BY <2>3
    <3>2. \A e \in Events : u[e] # 0 /\ e # o => o \notin s[e]
      BY <1>1, <2>2, <2>3, <2>4 DEF Placed, Cached
    <3>3. QED
      BY <3>1, <3>2 DEF Placed
  <2>9. QED
    <3>1. Distinct(Trim(u))
      BY <2>3 DEF Distinct
    <3>2. MaxSize \in Nat
      BY DEF DedupeAssumption
    <3>3. \A x \in Cached(u) \ Cached(Trim(u)) : Cardinality(s[x]) >= MaxSize
      BY <2>5, <2>7
    <3>4. \A x \in Events : Trim(u)[x] \in {u[x], 0}
      BY <2>3
    <3>5. Trim(u) \in [Events -> Nat]
      BY <2>3
    <3>6. Cardinality(Cached(Trim(u))) <= MaxSize
      BY <2>6, <3>2
    <3>7. QED
      BY <2>8, <3>1, <3>3, <3>4, <3>5, <3>6
<1>4. QED
  BY <1>1, <1>2, <1>3

(* What an arrival does before the cache is trimmed. *)
LEMMA Moved ==
  ASSUME CacheType, WindowInv, NEW e \in Events, Arrive(e)
  PROVE  /\ MoveToEnd(e) \in [Events -> Nat]
         /\ since' \in [Events -> SUBSET Events]
         /\ Placed(MoveToEnd(e), since') /\ Distinct(MoveToEnd(e))
         /\ \A x \in Events : MoveToEnd(e)[x] <= clock'
         /\ Cached(MoveToEnd(e)) = Cached(used) \union {e}
         /\ Handled' = Handled \union {e}
         /\ handled' \in Seq(Events)
<1>1. used \in [Events -> Nat] /\ clock \in Nat /\ clock' = clock + 1
  BY DEF CacheType, Arrive
<1>2. since \in [Events -> SUBSET Events] /\ handled \in Seq(Events)
  BY DEF CacheType
<1>3. since' \in [Events -> SUBSET Events]
  BY <1>2 DEF Arrive
<1>4. MoveToEnd(e) \in [Events -> Nat] /\ MoveToEnd(e)[e] = clock + 1
      /\ \A x \in Events \ {e} : MoveToEnd(e)[x] = used[x]
  BY <1>1 DEF MoveToEnd
<1>5. \A x \in Events : used[x] <= clock /\ (used[x] # 0 => x \in Handled)
  BY DEF WindowInv, Cached
<1>6. Placed(MoveToEnd(e), since')
  <2> SUFFICES ASSUME NEW g \in Events, NEW x \in Events, MoveToEnd(e)[g] # 0
               PROVE  x \in since'[g] <=> MoveToEnd(e)[x] > MoveToEnd(e)[g]
    BY DEF Placed
  <2>1. CASE g = e
    <3>1. since'[g] = {}
      BY <2>1 DEF Arrive
    <3>2. MoveToEnd(e)[x] <= clock + 1
      BY <1>1, <1>4, <1>5
    <3>3. QED
      BY <1>1, <1>4, <2>1, <3>1, <3>2
  <2>2. CASE g # e
    <3>1. used[g] # 0 /\ MoveToEnd(e)[g] = used[g] /\ since'[g] = since[g] \union {e}
      BY <1>4, <1>5, <2>2 DEF Arrive
    <3>2. x \in since[g] <=> used[x] > used[g]
      BY <3>1 DEF WindowInv, OrderIsArrival
    <3>3. CASE x = e
      BY <1>1, <1>4, <1>5, <3>1, <3>3
    <3>4. CASE x # e
      BY <1>4, <3>1, <3>2, <3>4
    <3>5. QED
      BY <3>3, <3>4
  <2>3. QED
    BY <2>1, <2>2
<1>7. Distinct(MoveToEnd(e))
  BY <1>1, <1>4, <1>5 DEF WindowInv, Distinct
<1>8. \A x \in Events : MoveToEnd(e)[x] <= clock'
  BY <1>1, <1>4, <1>5
<1>9. Cached(MoveToEnd(e)) = Cached(used) \union {e}
  BY <1>1, <1>4 DEF Cached
<1>10. Handled' = Handled \union {e} /\ handled' \in Seq(Events)
  <2>1. CASE IsSeen(e)
    BY <1>2, <1>5, <2>1 DEF Arrive, IsSeen, Cached, Handled
  <2>2. CASE ~IsSeen(e)
    <3>1. handled' = Append(handled, e)
      BY <2>2 DEF Arrive
    <3>2. QED
      BY <1>2, <3>1 DEF Handled
  <2>3. QED
    BY <2>1, <2>2
<1>11. QED
  BY <1>3, <1>4, <1>6, <1>7, <1>8, <1>9, <1>10

(* One arrival keeps the invariant. *)
LEMMA ArriveWindow ==
  ASSUME CacheType, WindowInv, NEW e \in Events, Arrive(e)
  PROVE  CacheType' /\ WindowInv'
<1> DEFINE m == MoveToEnd(e)
<1>1. /\ m \in [Events -> Nat] /\ since' \in [Events -> SUBSET Events]
      /\ Placed(m, since') /\ Distinct(m) /\ \A x \in Events : m[x] <= clock'
      /\ Cached(m) = Cached(used) \union {e} /\ Handled' = Handled \union {e}
      /\ handled' \in Seq(Events)
  BY Moved
<1>2. /\ IsFiniteSet(Cached(used)) /\ Cardinality(Cached(used)) \in Nat
      /\ Cardinality(Cached(used)) <= MaxSize /\ Cached(used) \subseteq Handled
  BY CachedFinite DEF CacheType, WindowInv
<1>3. clock' \in 0 .. MaxArrivals /\ clock' \in Nat
  BY DEF CacheType, Arrive
<1> HIDE DEF m
<1>4. /\ used' \in [Events -> Nat]
      /\ \A x \in Events : used'[x] \in {m[x], 0}
      /\ Placed(used', since') /\ Distinct(used')
      /\ Cardinality(Cached(used')) <= MaxSize
      /\ \A x \in Cached(m) \ Cached(used') : Cardinality(since'[x]) >= MaxSize
  <2>1. CASE IsSeen(e)
    <3>1. used' = m /\ Cached(m) = Cached(used)
      BY <1>1, <2>1 DEF Arrive, IsSeen, m
    <3>2. QED
      BY <1>1, <1>2, <3>1
  <2>2. CASE ~IsSeen(e)
    <3>1. used' = Trim(m)
      BY <2>2 DEF Arrive, m
    <3>2. Cardinality(Cached(m)) <= MaxSize + 1
      <4>1. Cardinality(Cached(used) \union {e}) \in
              {Cardinality(Cached(used)), Cardinality(Cached(used)) + 1}
        BY <1>2, FS_AddElement
      <4>2. Cardinality(Cached(m)) \in {Cardinality(Cached(used)), Cardinality(Cached(used)) + 1}
        BY <1>1, <4>1
      <4>3. MaxSize \in Nat
        BY DEF DedupeAssumption
      <4>4. QED
        BY <1>2, <4>2, <4>3
    <3>3. QED
      BY <1>1, <3>1, <3>2, Trimmed
  <2>3. QED
    BY <2>1, <2>2
<1>5. ASSUME NEW f \in Handled'
      PROVE  f \in Cached(used') <=> Cardinality(since'[f]) < MaxSize
  <2>1. f \in Events
    BY <1>1 DEF Handled
  <2>2. IsFiniteSet(since'[f]) /\ Cardinality(since'[f]) \in Nat
    BY <1>1, <2>1, FS_Subset, FS_CardinalityType
  <2>3. CASE f \in Cached(used')
    <3>1. used'[f] # 0 /\ used'[f] \in Nat
      BY <1>4, <2>1, <2>3 DEF Cached
    <3>2. since'[f] \subseteq Cached(used') \ {f}
      <4> SUFFICES ASSUME NEW x \in since'[f]
                   PROVE  x \in Cached(used') /\ x # f
        OBVIOUS
      <4>1. x \in Events /\ used'[x] > used'[f]
        BY <1>1, <1>4, <2>1, <3>1 DEF Placed
      <4>2. QED
        BY <1>4, <3>1, <4>1 DEF Cached
    <3>3. IsFiniteSet(Cached(used')) /\ Cardinality(Cached(used')) \in Nat
      BY CachedFinite
    <3>4. Cardinality(Cached(used') \ {f}) = Cardinality(Cached(used')) - 1
          /\ IsFiniteSet(Cached(used') \ {f})
      BY <2>3, <3>3, FS_RemoveElement
    <3>5. Cardinality(since'[f]) <= Cardinality(Cached(used') \ {f})
      BY <3>2, <3>4, FS_Subset
    <3>6. QED
      BY <1>4, <2>2, <2>3, <3>3, <3>4, <3>5
  <2>4. CASE f \notin Cached(used')
    <3>1. Cardinality(since'[f]) >= MaxSize
      <4>1. CASE f \in Cached(m)
        BY <1>4, <2>4, <4>1
      <4>2. CASE f \notin Cached(m)
        <5>1. f \in Handled /\ f # e /\ f \notin Cached(used)
          BY <1>1, <4>2
        <5>2. Cardinality(since[f]) >= MaxSize
          <6>1. IsFiniteSet(since[f]) /\ Cardinality(since[f]) \in Nat
            BY <2>1, FS_Subset, FS_CardinalityType DEF CacheType
          <6>2. QED
            BY <5>1, <6>1 DEF WindowInv, CacheIsWindow, IsSeen
        <5>3. since[f] \subseteq since'[f]
          BY <2>1, <5>1 DEF Arrive
        <5>4. QED
          BY <2>2, <5>2, <5>3, FS_Subset, FS_CardinalityType
      <4>3. QED
        BY <4>1, <4>2
    <3>2. QED
      BY <2>2, <2>4, <3>1
  <2>5. QED
    BY <2>3, <2>4
<1>6. CacheType'
  BY <1>1, <1>3, <1>4 DEF CacheType
<1>7. CacheIsWindow'
  BY <1>5 DEF CacheIsWindow, IsSeen
<1>8. \A x \in Events : used'[x] <= clock'
  BY SMTT(60), <1>1, <1>3, <1>4
<1>9. Cached(used') \subseteq Handled'
  <2>1. Cached(used') \subseteq Cached(m)
    BY <1>4 DEF Cached
  <2>2. QED
    BY <1>1, <1>2, <2>1
<1>10. QED
  BY <1>4, <1>6, <1>7, <1>8, <1>9 DEF WindowInv, OrderIsArrival, Placed, Distinct

(* A new subscriber has an empty cache and no arrivals. *)
LEMMA StartWindow == CacheInit => CacheType /\ WindowInv
<1> SUFFICES ASSUME CacheInit
             PROVE  CacheType /\ WindowInv
  OBVIOUS
<1>1. Cached(used) = {} /\ Handled = {} /\ Cardinality(Cached(used)) = 0
  <2>1. Cached(used) = {}
    BY DEF CacheInit, Cached
  <2>2. handled = <<>>
    BY DEF CacheInit
  <2>3. Handled = {}
    BY <2>2 DEF Handled
  <2>4. Cardinality({}) = 0
    BY FS_EmptySet
  <2> QED
    BY <2>1, <2>3, <2>4
<1>2. QED
  BY <1>1 DEF CacheInit, CacheType, WindowInv, CacheIsWindow, OrderIsArrival

(* No step of the subscriber breaks the invariant. *)
LEMMA StepWindow == CacheType /\ WindowInv /\ [CacheNext]_cacheVars => CacheType' /\ WindowInv'
<1> SUFFICES ASSUME CacheType, WindowInv, [CacheNext]_cacheVars
             PROVE  CacheType' /\ WindowInv'
  OBVIOUS
<1>1. CASE CacheNext
  BY <1>1, ArriveWindow DEF CacheNext
<1>2. CASE UNCHANGED cacheVars
  BY <1>2 DEF cacheVars, CacheType, WindowInv, CacheIsWindow, OrderIsArrival, IsSeen, Cached, Handled
<1>3. QED
  BY <1>1, <1>2

(* Every reachable cache has at most MaxSize entries and no other type. *)
THEOREM CacheTypeCorrect == CacheSpec => []CacheType
<1>1. QED
  BY StartWindow, StepWindow, PTL DEF CacheSpec

(* The cache of DedupeCache is exactly the window of the last MaxSize       *)
(* distinct events: is_seen says yes to a handled event if and only if     *)
(* fewer than MaxSize others have arrived after its last copy.             *)
THEOREM WindowExact == CacheSpec => []CacheIsWindow
<1>1. WindowInv => CacheIsWindow
  BY DEF WindowInv
<1>2. QED
  BY <1>1, StartWindow, StepWindow, PTL DEF CacheSpec

(* With timely copies, _handle_event passes each event to its handler at   *)
(* most once: the cache implements HandledOnce.                            *)
THEOREM TimelyOnce == TimelySpec => EveryEventOnce
<1>1. CacheInit => Promise!Init
  BY DEF CacheInit, Promise!Init
<1>2. [TimelyNext]_cacheVars => [CacheNext]_cacheVars
  BY DEF TimelyNext, CacheNext
<1>3. CacheType /\ WindowInv /\ [TimelyNext]_cacheVars => [Promise!Next]_handled
  <2> SUFFICES ASSUME CacheType, WindowInv, [TimelyNext]_cacheVars
               PROVE  [Promise!Next]_handled
    OBVIOUS
  <2>1. ASSUME NEW e \in Events, Timely(e), Arrive(e)
        PROVE  [Promise!Next]_handled
    <3>1. CASE IsSeen(e)
      BY <2>1, <3>1 DEF Arrive
    <3>2. CASE ~IsSeen(e)
      <4>1. e \notin Handled
        BY <2>1, <3>2 DEF Timely, WindowInv, CacheIsWindow
      <4>2. handled' = Append(handled, e)
        BY <2>1, <3>2 DEF Arrive
      <4>3. QED
        BY <4>1, <4>2 DEF Promise!Next, Promise!Handle, Promise!Handled, Handled
    <3>3. QED
      BY <3>1, <3>2
  <2>2. CASE UNCHANGED cacheVars
    BY <2>2 DEF cacheVars
  <2>3. QED
    BY <2>1, <2>2 DEF TimelyNext
<1>4. QED
  BY <1>1, <1>2, <1>3, StartWindow, StepWindow, PTL
     DEF TimelySpec, EveryEventOnce, Promise!Spec
=============================================================================

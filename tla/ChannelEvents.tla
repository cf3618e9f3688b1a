---------------------------- MODULE ChannelEvents ----------------------------
(***************************************************************************)
(* The events of SatoriNostr that are not a stream's data: commitments to  *)
(* payment channels, their tombstones, channel opens and settlements,      *)
(* predictions and access requests, and the announcements of streams and   *)
(* bounties.  Two clients share one relay: the payer of the channels and   *)
(* their payee, who also announces and hosts.  All kinds are addressable:  *)
(* the relay keeps one event per author, kind number and d tag.  A client  *)
(* that connects is sent everything kept, in any order.                    *)
(***************************************************************************)
EXTENDS Naturals, Sequences, SequencesExt

CONSTANTS
  Tags,          \* p2sh addresses, stream names: the values of d tags
  None,          \* the d tag of an event without one
  MaxEvents,     \* bound: events published
  MaxFaults      \* bound: lost connections and restarts

ASSUME ChannelAssumption ==
  /\ None \notin Tags
  /\ MaxEvents \in Nat /\ MaxFaults \in Nat

Nodes == {"payer", "payee"}

PayerKinds == {"commitment", "open", "prediction", "access"}

PayeeKinds == {"tombstone", "settled", "stream", "deleted", "bounty", "closed"}

VARIABLES
  log,           \* every event ever signed; its index is its id
  stored,        \* the events the relay keeps
  up,            \* the nodes whose connection to the relay is up
  transit,       \* transit[n]: on their way to the listener of n, in order
  seen,          \* seen[n]: the dedupe cache of the running client
  queue,         \* queue[n]: handled, and not yet taken by the application
  passed,        \* history: the commitments the running payee queued, in order
  got,           \* history: what the application of n has been given
  missed,        \* what a start lost before the listener asked for it
  faults         \* number of faults so far

vars == <<log, stored, up, transit, seen, queue, passed, got, missed, faults>>

Author(e) == IF e.kind \in PayerKinds THEN "payer" ELSE "payee"

(* A withdrawal has the kind number of what it withdraws. *)
KindNumber(e) ==
  CASE e.kind = "tombstone" -> "commitment"
    [] e.kind = "deleted" -> "stream"
    [] e.kind = "closed" -> "bounty"
    [] OTHER -> e.kind

(* Mutant of DTag: nobody sets a d tag. *)
NoTag(e) == None

(* Mutant of DTag: withdrawals do not carry the tag of what they withdraw. *)
TagOfLive(e) == IF e.kind \in {"deleted", "closed"} THEN None ELSE e.tag

(* The p2sh address or the name; submit_prediction and request_access set   *)
(* none.                                                                   *)
DTag(e) == e.tag

SameAddress(e, f) ==
  /\ Author(e) = Author(f)
  /\ KindNumber(e) = KindNumber(f)
  /\ DTag(e) = DTag(f)

(* The kinds of the listener's filter. *)
Listened(e) == KindNumber(e) \notin {"stream", "bounty"}

SentTo(n, e) == Listened(e) /\ Author(e) # n

(* Mutant of PTagFits: the p tag is read before the tombstones are taken out. *)
PTagFirst(n, e) == KindNumber(e) = "commitment" => n = "payee"

(* Tombstones are taken before the p tag is read, and have none. *)
PTagFits(n, e) == e.kind = "commitment" => n = "payee"

Decrypts(n, e) == e.kind \in {"prediction", "access"} => n = "payee"

(***************************************************************************)
(* What the handlers of n put into a queue: of the other kinds all events. *)
(* (The events n itself published, which its application has to ignore     *)
(* when it gets them, are left out.)                                       *)
(***************************************************************************)
Wanted(n, e) == PTagFits(n, e) /\ Decrypts(n, e)

Init ==
  /\ log = <<>>
  /\ stored = {}
  /\ up = Nodes
  /\ transit = [n \in Nodes |-> <<>>]
  /\ seen = [n \in Nodes |-> {}]
  /\ queue = [n \in Nodes |-> <<>>]
  /\ passed = <<>>
  /\ got = [n \in Nodes |-> {}]
  /\ missed = [n \in Nodes |-> {}]
  /\ faults = 0

-----------------------------------------------------------------------------
(* The relay. *)

(* Of two events of one address in one second the lower id is kept. *)
Accepted(e) ==
  \A k \in stored : SameAddress(log[k], e) => log[k].at < e.at \/ e.low

(* Bound: announcements and the other events share no address and no queue, *)
(* so an execution has the ones or the others.                             *)
Unmixed(e) == \A k \in DOMAIN log : Listened(log[k]) = Listened(e)

Replaced(e) == {j \in stored : SameAddress(log[j], e)}

(***************************************************************************)
(* _send_builder: signed, sent, and kept and forwarded by the relay unless *)
(* it has a newer event of the address.  low stands for the order of ids:  *)
(* it is lower than that of the event it meets there.                      *)
(***************************************************************************)
Emit(e) ==
  LET k == Len(log) + 1 IN
  /\ k <= MaxEvents
  /\ Unmixed(e)
  /\ Author(e) \in up
  /\ log' = Append(log, e)
  /\ \/ /\ Accepted(e)
        /\ stored' = (stored \ Replaced(e)) \union {k}
        /\ transit' = [n \in Nodes |-> IF n \in up /\ SentTo(n, e)
                                       THEN Append(transit[n], k)
                                       ELSE transit[n]]
     \/ /\ ~Accepted(e)
        /\ UNCHANGED <<stored, transit>>
  /\ UNCHANGED <<up, seen, queue, passed, got, missed, faults>>

(* The events that share the kind number and the tag of e: all that e can    *)
(* be compared with.                                                       *)
Comparable(e) ==
  {k \in DOMAIN log : KindNumber(log[k]) = KindNumber(e) /\ log[k].tag = e.tag}

(* created_at, in seconds: the last second of a comparable event or the     *)
(* next one; seconds between them make no difference.                      *)
Times(e) ==
  {t \in 1 .. MaxEvents :
     /\ \A k \in Comparable(e) : log[k].at <= t
     /\ t = 1 \/ \E k \in Comparable(e) : t \in {log[k].at, log[k].at + 1}}

Publish(kind, tag) ==
  LET new == [kind |-> kind, tag |-> tag, at |-> 1, low |-> FALSE] IN
  \E t \in Times(new) :
    \/ Emit([new EXCEPT !.at = t])
    \/ /\ \E k \in Replaced(new) : log[k].at = t
       /\ Emit([new EXCEPT !.at = t, !.low = TRUE])

(* The calls of the payer ... *)
PublishCommitment(c) == Publish("commitment", c)

PublishChannelOpen(c) == Publish("open", c)

SubmitPrediction == Publish("prediction", None)

RequestAccess == Publish("access", None)

(* ... and those of the payee. *)
RemoveCommitment(c) == Publish("tombstone", c)

PublishSettlement(c) == Publish("settled", c)

AnnounceDatastream(s) == \E kind \in {"stream", "deleted"} : Publish(kind, s)

AnnounceBounty(s) == Publish("bounty", s)

CloseBounty(s) == Publish("closed", s)

-----------------------------------------------------------------------------
(* The clients. *)

(* Mutant of IsDuplicate: no dedupe cache. *)
NeverDuplicate(n, k) == FALSE

IsDuplicate(n, k) == k \in seen[n]

(* _handle_event: a copy is dropped, the first is marked and dispatched. *)
Handle(n) ==
  LET k == Head(transit[n]) IN
  /\ transit[n] # <<>>
  /\ transit' = [transit EXCEPT ![n] = Tail(@)]
  /\ seen' = [seen EXCEPT ![n] = @ \union {k}]
  /\ \/ /\ ~IsDuplicate(n, k) /\ Wanted(n, log[k])
        /\ queue' = [queue EXCEPT ![n] = Append(@, k)]
        /\ passed' = IF log[k].kind = "commitment" THEN Append(passed, k)
                                                  ELSE passed
     \/ /\ IsDuplicate(n, k) \/ ~Wanted(n, log[k])
        /\ UNCHANGED <<queue, passed>>
  /\ UNCHANGED <<log, stored, up, got, missed, faults>>

(* commitments(), tombstones() and the other iterators: a queue each. *)
Take(n) ==
  \E i \in DOMAIN queue[n] :
    /\ \A j \in 1 .. i - 1 : log[queue[n][j]].kind # log[queue[n][i]].kind
    /\ got' = [got EXCEPT ![n] = @ \union {queue[n][i]}]
    /\ queue' = [queue EXCEPT ![n] = RemoveAt(@, i)]
    /\ UNCHANGED <<log, stored, up, transit, seen, passed, missed, faults>>

Replays(n) == SetToSeqs({k \in stored : SentTo(n, log[k])})

(* The relay goes away; what has reached the client is still handled. *)
Lose(n) ==
  /\ n \in up
  /\ faults < MaxFaults
  /\ faults' = faults + 1
  /\ up' = up \ {n}
  /\ \E arrived \in Prefixes(transit[n]) :
       transit' = [transit EXCEPT ![n] = arrived]
  /\ UNCHANGED <<log, stored, seen, queue, passed, got, missed>>

Reconnect(n) ==
  /\ n \notin up
  /\ up' = up \union {n}
  /\ \E replay \in Replays(n) :
       transit' = [transit EXCEPT ![n] = @ \o replay]
  /\ UNCHANGED <<log, stored, seen, queue, passed, got, missed, faults>>

(***************************************************************************)
(* The process ends in any way and start() is called in a new one.  The    *)
(* listener subscribes before it asks for notifications(), so the first    *)
(* events of the replay may find nobody listening.                         *)
(***************************************************************************)
Restart(n) ==
  /\ faults < MaxFaults
  /\ faults' = faults + 1
  /\ up' = up \union {n}
  /\ seen' = [seen EXCEPT ![n] = {}]
  /\ queue' = [queue EXCEPT ![n] = <<>>]
  /\ passed' = IF n = "payee" THEN <<>> ELSE passed
  /\ \E replay \in Replays(n) : \E lost \in 0 .. Len(replay) :
       /\ missed' = [missed EXCEPT ![n] = ToSet(SubSeq(replay, 1, lost))]
       /\ transit' = [transit EXCEPT ![n] =
                        SubSeq(replay, lost + 1, Len(replay))]
  /\ UNCHANGED <<log, stored, got>>

Call ==
  \/ SubmitPrediction
  \/ RequestAccess
  \/ \E t \in Tags :
       \/ PublishCommitment(t) \/ PublishChannelOpen(t)
       \/ RemoveCommitment(t) \/ PublishSettlement(t)
       \/ AnnounceDatastream(t) \/ AnnounceBounty(t) \/ CloseBounty(t)

Next ==
  \/ Call
  \/ \E n \in Nodes :
       Handle(n) \/ Take(n) \/ Lose(n) \/ Reconnect(n) \/ Restart(n)

(* The listener and the application run, and a lost relay comes back. *)
Fairness ==
  \A n \in Nodes : WF_vars(Handle(n)) /\ WF_vars(Take(n)) /\ WF_vars(Reconnect(n))

Spec == Init /\ [][Next]_vars /\ Fairness

-----------------------------------------------------------------------------
(* What the calls that ask the relay return. *)

(* Mutant of Asked: get_commitment asks for the commitments of the payer. *)
AskedOfPayer(c) ==
  {k \in stored : log[k].kind = "commitment" /\ DTag(log[k]) = c}

(* The filter of get_commitment: the kind and the d tag, any author. *)
Asked(c) ==
  {k \in stored : KindNumber(log[k]) = "commitment" /\ DTag(log[k]) = c}

(* get_commitment: the newest answer, or None when that is a tombstone.     *)
(* Which of two authors' events of one second comes first is left open.    *)
GetCommitment(c) ==
  {k \in Asked(c) : /\ \A j \in Asked(c) : log[j].at <= log[k].at
                    /\ log[k].kind = "commitment"}

DiscoverDatastreams == {k \in stored : log[k].kind = "stream"}

(* With active_only. *)
DiscoverBounties == {k \in stored : log[k].kind = "bounty"}

(* Events about one thing.  Predictions have no tag: all of a predictor are *)
(* one topic here, and the relay keeps but the last.                       *)
SameTopic(e, f) ==
  KindNumber(e) = KindNumber(f) /\ Author(e) = Author(f) /\ e.tag = f.tag

Newest(k) ==
  \A j \in DOMAIN log : j # k /\ SameTopic(log[j], log[k]) => log[j].at < log[k].at

(* A client that is connected and has handled all that was sent to it has  *)
(* given its application, or queued for it, the newest event of each topic *)
(* meant for it, through lost connections, replays and restarts.  Left out *)
(* are topics with two events in the newest second and what a start lost.  *)
NewestArrives ==
  \A n \in up : \A k \in DOMAIN log :
    transit[n] = <<>> /\ SentTo(n, log[k]) /\ Newest(k) =>
      k \in got[n] \union ToSet(queue[n]) \union missed[n]

(* get_commitment does not return a commitment when the payee has removed  *)
(* the channel's in a later second: the tombstone has another author, so   *)
(* the relay keeps both, and the answer rests on their order.              *)
FetchedIsUnclaimed ==
  \A c \in Tags : \A k \in GetCommitment(c) : \A j \in DOMAIN log :
    log[j].kind = "tombstone" /\ log[j].tag = c => log[j].at <= log[k].at

(* The commitments of one channel that one run of the client gives to the  *)
(* payee are newer and newer: no replay brings back an old one.            *)
CommitmentsAdvance ==
  \A i, j \in DOMAIN passed :
    i < j /\ log[passed[i]].tag = log[passed[j]].tag => passed[i] < passed[j]

(* A stream deleted, or a bounty closed, in a later second than it was     *)
(* announced is not found any more.                                        *)
WithdrawnIsHidden ==
  \A k \in DiscoverDatastreams \union DiscoverBounties : \A j \in DOMAIN log :
    SameTopic(log[j], log[k]) /\ log[j].kind \in {"deleted", "closed"} =>
      log[j].at <= log[k].at

(* The payer gets to know that a commitment was removed: the tombstone the *)
(* relay keeps, or a later one of the channel, is given to its application *)
(* unless a start lost it.                                                 *)
ClaimIsNoticed ==
  \A k \in 1 .. MaxEvents :
    (k \in stored /\ log[k].kind = "tombstone") ~>
      \E j \in k .. Len(log) :
        /\ SameTopic(log[j], log[k])
        /\ j \in got["payer"] \union missed["payer"]
=============================================================================

----------------------------- MODULE PaidStream -----------------------------
(***************************************************************************)
(* One paid stream end to end: the provider of StreamProvider, the         *)
(* ReliableSubscribers that subscribe and pay for the next observation     *)
(* whenever they receive one, and the relays between them.                 *)
(*                                                                         *)
(* Every event ever published is kept in a log (made, sent); what is on    *)
(* its way to a reader is a set of indices into the log.  All the kinds    *)
(* used here are addressable events with the stream name as d tag, so a    *)
(* relay keeps only the newest event of each author and kind and replays   *)
(* that one to a client that connects.                                     *)
(***************************************************************************)
EXTENDS StreamProvider, Sequences

CONSTANTS
  OneRelay,      \* one relay: it answers OK before it forwards, and keeps order
  MaxJoins,      \* bound: subscription announcements of one subscriber
  MaxResends,    \* bound: gap-recovery sends
  MaxFaults      \* bound: restarts, lost connections and failed calls

ASSUME StreamAssumption ==
  /\ OneRelay \in BOOLEAN
  /\ MaxJoins \in Nat /\ MaxResends \in Nat /\ MaxFaults \in Nat

VARIABLES
  made,          \* made[s]: events s has published, oldest first
  inbox,         \* <<s, k>>: made[s][k] is on its way to the provider
  sent,          \* the provider's events for the stream, in relay order
  transit,       \* k: sent[k] is on its way to its recipient
  mode,          \* "off", "on", or "leaving": unsubscribe awaits its send
  received,      \* k: sent[k] has been handed to the application
  due,           \* the observation whose auto-payment is being prepared
  resends,       \* number of gap-recovery sends so far
  faults         \* number of faults so far

streamVars == <<made, inbox, sent, transit, mode, received, due,
                resends, faults>>

vars == <<providerVars, streamVars>>

Requests == [kind : {"sub", "unsub"}, seq : {0}] \union [kind : {"pay"}, seq : Nat]

Deliveries ==
  [to : Subscribers \union {Nobody}, seq : Nat,
   kind : {"paid", "free", "gift", "beat"}]

(* Kind 34602 carries both announcements, kind 34603 the payments. *)
SameKind(d, e) == (d.kind = "pay") = (e.kind = "pay")

Latest(s, k) ==
  /\ k \in DOMAIN made[s]
  /\ \A j \in DOMAIN made[s] : SameKind(made[s][j], made[s][k]) => j <= k

(* The events of subscribers that a relay still has. *)
Stored == UNION {{<<s, k>> : k \in {j \in DOMAIN made[s] : Latest(s, j)}} :
                   s \in Subscribers}

Joins(s) == {k \in DOMAIN made[s] : made[s][k].kind = "sub"}

StreamTypeOK ==
  /\ made \in [Subscribers -> Seq(Requests)]
  /\ inbox \subseteq Subscribers \X Nat
  /\ \A e \in inbox : e[2] \in DOMAIN made[e[1]]
  /\ sent \in Seq(Deliveries)
  /\ transit \subseteq DOMAIN sent
  /\ received \subseteq DOMAIN sent
  /\ mode \in [Subscribers -> {"off", "on", "leaving"}]
  /\ due \in [Subscribers -> Nat \union {NoSeq}]
  /\ resends \in 0 .. MaxResends
  /\ faults \in 0 .. MaxFaults

TypeOK == ProviderTypeOK /\ StreamTypeOK

Init ==
  /\ ProviderInit
  /\ made = [s \in Subscribers |-> <<>>]
  /\ inbox = {}
  /\ sent = <<>>
  /\ transit = {}
  /\ received = {}
  /\ mode = [s \in Subscribers |-> "off"]
  /\ due = [s \in Subscribers |-> NoSeq]
  /\ resends = 0
  /\ faults = 0

-----------------------------------------------------------------------------
(* Subscribers. *)

(* _send_builder of a subscriber: signed, and on its way to the provider. *)
Emit(s, request) ==
  /\ made' = [made EXCEPT ![s] = Append(@, request)]
  /\ inbox' = inbox \union {<<s, Len(made[s]) + 1>>}

(* ReliableSubscriber.subscribe; a repeated call announces again. *)
Subscribe(s) ==
  /\ mode[s] # "leaving"
  /\ Cardinality(Joins(s)) < MaxJoins
  /\ mode' = [mode EXCEPT ![s] = "on"]
  /\ Emit(s, [kind |-> "sub", seq |-> 0])
  /\ UNCHANGED <<providerVars, sent, transit, received, due, resends, faults>>

(* ReliableSubscriber.unsubscribe up to its await ... *)
Unsubscribe(s) ==
  /\ mode[s] = "on"
  /\ mode' = [mode EXCEPT ![s] = "leaving"]
  /\ Emit(s, [kind |-> "unsub", seq |-> 0])
  /\ UNCHANGED <<providerVars, sent, transit, received, due, resends, faults>>

(* ... and after it, when the configuration is deleted. *)
Forget(s) ==
  /\ mode[s] = "leaving"
  /\ mode' = [mode EXCEPT ![s] = "off"]
  /\ UNCHANGED <<providerVars, made, inbox, sent, transit, received, due,
                 resends, faults>>

(* One relay forwards in order, and only what it has acknowledged. *)
Deliverable(k) ==
  OneRelay =>
    /\ pub.out # k
    /\ \A j \in transit : sent[j].to = sent[k].to => k <= j

(***************************************************************************)
(* _handle_observation_event and _observation_listener: the application    *)
(* gets the observation, and the listener prepares a payment if the stream *)
(* has a configuration.  The listener takes no other observation meanwhile.*)
(***************************************************************************)
Receive(k) ==
  LET s == sent[k].to IN
  /\ k \in transit
  /\ due[s] = NoSeq
  /\ Deliverable(k)
  /\ transit' = transit \ {k}
  /\ received' = received \union {k}
  /\ due' = [due EXCEPT ![s] = IF mode[s] = "off" THEN NoSeq ELSE sent[k].seq]
  /\ UNCHANGED <<providerVars, made, inbox, sent, mode, resends, faults>>

(* Mutant of AutoPay: the payment is for the observation just received. *)
AutoPayReceived(s) ==
  /\ due[s] # NoSeq
  /\ due' = [due EXCEPT ![s] = NoSeq]
  /\ Emit(s, [kind |-> "pay", seq |-> due[s]])
  /\ UNCHANGED <<providerVars, sent, transit, received, mode, resends, faults>>

(* _auto_pay: the payment for the NEXT observation. *)
AutoPay(s) ==
  /\ due[s] # NoSeq
  /\ due' = [due EXCEPT ![s] = NoSeq]
  /\ Emit(s, [kind |-> "pay", seq |-> due[s] + 1])
  /\ UNCHANGED <<providerVars, sent, transit, received, mode, resends, faults>>

(* _auto_pay finds no metadata or the send raises: printed, not retried. *)
AutoPayFails(s) ==
  /\ due[s] # NoSeq
  /\ faults < MaxFaults
  /\ due' = [due EXCEPT ![s] = NoSeq]
  /\ faults' = faults + 1
  /\ UNCHANGED <<providerVars, made, inbox, sent, transit, received, mode, resends>>

(* The connection of s drops and comes back: only the newest event of the  *)
(* stream is still there to be replayed.                                   *)
SubscriberReconnects(s) ==
  /\ faults < MaxFaults
  /\ faults' = faults + 1
  /\ transit' = {k \in transit : sent[k].to # s}
                \union {k \in DOMAIN sent \ received :
                          k = Len(sent) /\ sent[k].to = s}
  /\ UNCHANGED <<providerVars, made, inbox, sent, received, mode, due, resends>>

-----------------------------------------------------------------------------
(* The provider. *)

(* _event_listener takes an event that it has not seen and handles it. *)
Handle(s, k) ==
  LET e == made[s][k] IN
  /\ <<s, k>> \in inbox
  /\ OneRelay => \A j \in DOMAIN made[s] :
                   <<s, j>> \in inbox /\ SameKind(made[s][j], e) => k <= j
  /\ inbox' = inbox \ {<<s, k>>}
  /\ \/ e.kind = "sub" /\ RecordSubscription(s)
     \/ e.kind = "unsub" /\ DropSubscription(s)
     \/ e.kind = "pay" /\ RecordPayment(s, e.seq)
  /\ UNCHANGED <<made, sent, transit, received, mode, due, resends, faults>>

Publish ==
  /\ PublishObservation
  /\ UNCHANGED streamVars

(* What the pending send carries. *)
Outgoing ==
  [to |-> pub.cur, seq |-> pub.seq,
   kind |-> IF pub.pc = "beat" THEN "beat" ELSE IF pub.free THEN "free" ELSE "paid"]

Transmit ==
  /\ EventReachesRelay(Len(sent) + 1)
  /\ sent' = Append(sent, Outgoing)
  /\ transit' = IF pub.pc = "send" THEN transit \union {Len(sent) + 1} ELSE transit
  /\ UNCHANGED <<made, inbox, received, mode, due, resends, faults>>

Return ==
  /\ SendReturns \/ HeartbeatEnds
  /\ UNCHANGED streamVars

Raise ==
  /\ faults < MaxFaults
  /\ SendRaises \/ HeartbeatRaises
  /\ faults' = faults + 1
  /\ UNCHANGED <<made, inbox, sent, transit, received, mode, due, resends>>

(* send_observation_to_subscriber, called by the provider's application. *)
Resend(s, n) ==
  /\ resends < MaxResends
  /\ s \in Members
  /\ Eligible(s, n)
  /\ resends' = resends + 1
  /\ sent' = Append(sent, [to |-> s, seq |-> n,
                           kind |-> IF Free(s) THEN "gift" ELSE "paid"])
  /\ transit' = transit \union {Len(sent) + 1}
  /\ UNCHANGED <<providerVars, made, inbox, received, mode, due, faults>>

(* The provider's connection drops and comes back. *)
ProviderReconnects ==
  /\ faults < MaxFaults
  /\ faults' = faults + 1
  /\ inbox' = inbox \intersect Stored
  /\ UNCHANGED <<providerVars, made, sent, transit, received, mode, due, resends>>

(* A new provider process: it has seen nothing, the relay replays. *)
ProviderRestarts ==
  /\ faults < MaxFaults
  /\ faults' = faults + 1
  /\ ProviderRestart
  /\ inbox' = Stored
  /\ UNCHANGED <<made, sent, transit, received, mode, due, resends>>

-----------------------------------------------------------------------------
SubscriberNext(s) ==
  \/ Subscribe(s) \/ Unsubscribe(s) \/ Forget(s)
  \/ AutoPay(s) \/ AutoPayFails(s) \/ SubscriberReconnects(s)

(* Everything but the start of a new publish_observation. *)
Rest ==
  \/ \E s \in Subscribers : SubscriberNext(s)
  \/ \E k \in transit : Receive(k)
  \/ \E e \in inbox : Handle(e[1], e[2])
  \/ Transmit \/ Return \/ Raise
  \/ \E s \in Subscribers, n \in 1 .. published : Resend(s, n)
  \/ ProviderReconnects \/ ProviderRestarts

Next == Publish \/ Rest

Spec == Init /\ [][Next]_vars

(***************************************************************************)
(* A stream whose cadence is long against the time events take: the next   *)
(* observation is published when the last one has been received, paid for  *)
(* and recorded.  The loops of the two clients keep running, the relay     *)
(* keeps forwarding, and an awaited send comes back.                       *)
(***************************************************************************)
Quiet ==
  /\ inbox = {}
  /\ transit = {}
  /\ \A s \in Subscribers : due[s] = NoSeq

PacedNext == (Quiet /\ Publish) \/ Rest

Fairness ==
  /\ WF_vars(Transmit)
  /\ WF_vars(Return)
  /\ WF_vars(\E k \in transit : Receive(k))
  /\ WF_vars(\E e \in inbox : Handle(e[1], e[2]))
  /\ WF_vars(\E s \in Subscribers : AutoPay(s))

PacedSpec == Init /\ [][PacedNext]_vars /\ Fairness

-----------------------------------------------------------------------------
(* Properties. *)

PaymentMade(s, n) ==
  \E k \in DOMAIN made[s] : made[s][k].kind = "pay" /\ made[s][k].seq >= n

SampleSent(s, n) ==
  \E k \in DOMAIN sent : sent[k].to = s /\ sent[k].kind = "free" /\ sent[k].seq >= n

Earned(s, n) == PaymentMade(s, n) \/ SampleSent(s, n)

(* Nothing is sent as paid to a subscriber that has neither paid for it or *)
(* for a later observation, nor been given it or a later one as a sample.  *)
(* (publish_observation and send_observation_to_subscriber read            *)
(* last_paid_seq, which record_payment and the free mark write.)           *)
Entitled ==
  \A k \in DOMAIN sent : sent[k].kind = "paid" => Earned(sent[k].to, sent[k].seq)

(* What makes Entitled inductive: whatever last_paid_seq says was earned,  *)
(* and so is what the suspended loop is about to send as paid, or has sent *)
(* free and is about to write into last_paid_seq.                          *)
TableEarned == \A s \in Subscribers : lastPaid[s] # NoSeq => Earned(s, lastPaid[s])

FrameEarned ==
  (pub.pc = "send" /\ (~pub.free \/ pub.out # 0)) => Earned(pub.cur, pub.seq)

Addressed ==
  /\ \A k \in DOMAIN sent : sent[k].kind = "paid" => sent[k].to \in Subscribers
  /\ pub.pc = "send" => pub.cur \in Subscribers

EntitledInv == Entitled /\ TableEarned /\ FrameEarned /\ Addressed

(* publish_observation gives a subscriber at most one free observation per *)
(* announcement it made, whatever the order in which handlers run while    *)
(* the loop is suspended; each fault can cost one more.                    *)
FreeSamplesBounded ==
  \A s \in Subscribers :
    Cardinality({k \in DOMAIN sent : sent[k].to = s /\ sent[k].kind = "free"})
      <= Cardinality(Joins(s)) + faults

Announcements(s) == {k \in DOMAIN made[s] : made[s][k].kind # "pay"}

(* Once the announcements of s are handled, s is in the table exactly when *)
(* the newest one says so: after replays, lost connections and restarts.   *)
MembershipSettles ==
  \A s \in Subscribers :
    (\A k \in Announcements(s) : <<s, k>> \notin inbox) =>
      (s \in Members <=>
         \E k \in Announcements(s) : Latest(s, k) /\ made[s][k].kind = "sub")

(* Two events of one observation are addressed to s. *)
SentTwice(s) ==
  \E j, k \in DOMAIN sent :
    j < k /\ sent[j].to = s /\ sent[k].to = s /\ sent[j].seq = sent[k].seq

(* Once its payments are handled, a subscriber in the table is sent every  *)
(* observation it has paid for: no mark, replay or re-subscription takes   *)
(* away what record_payment granted.  One that was sent an observation     *)
(* twice is excepted: the mark of the second copy may overwrite what it    *)
(* has paid on the first one.                                              *)
AccessKept ==
  \A s \in Members :
    \A k \in DOMAIN made[s] :
      (made[s][k].kind = "pay" /\ \A j \in DOMAIN made[s] : <<s, j>> \notin inbox)
        => Eligible(s, made[s][k].seq) \/ SentTwice(s)

(* Every publish_observation that returned, with no send failing, left an  *)
(* event with its sequence number on the relay: the stream does not look   *)
(* stale because nobody has paid.                                          *)
StaysFresh ==
  \A n \in 1 .. published :
    (faults = 0 /\ n \notin aborted /\ pub.seq # n) =>
      \E k \in DOMAIN sent : sent[k].seq = n

(* The event the relay keeps for the stream is the newest observation, as  *)
(* long as none was sent again on purpose.                                 *)
LatestIsNewest ==
  resends = 0 => \A k \in DOMAIN sent : sent[k].seq <= sent[Len(sent)].seq

(* So a monitor, or a subscriber that comes back, finds on the relay how   *)
(* far the stream has got.                                                 *)
RelayIsFresh == StaysFresh /\ LatestIsNewest

(* One call of publish_observation sends a subscriber at most one event: no *)
(* removal and re-insertion in the table under the loop makes it come up    *)
(* twice, as long as it is alone in leaving: the iterator then raises       *)
(* before it gets there.  When another one leaves as well there is room for *)
(* a second copy.  (Not stated where something is sent again on purpose.)   *)
Leavers == {s \in Subscribers : \E k \in DOMAIN made[s] : made[s][k].kind = "unsub"}
OneEventPerSubscriber ==
  resends = 0 =>
    \A s \in Subscribers : SentTwice(s) => s \in Leavers /\ Leavers # {s}

Has(s, n) == \E k \in received : sent[k].to = s /\ sent[k].seq = n

(* On a paced stream behind one relay a subscriber that pays automatically *)
(* receives every observation that is sent to anybody while it is in the   *)
(* table, unless a publish call ended in a RuntimeError: a missed one      *)
(* would never be paid for, and neither would those after it.              *)
AutoPayKeepsUp ==
  \A s \in Subscribers, n \in Seqs :
    (pub.pc = "send" /\ pub.seq = n /\ s \in Members /\ mode[s] = "on")
      ~> (Has(s, n) \/ mode[s] # "on" \/ aborted # {})
=============================================================================

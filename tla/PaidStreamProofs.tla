-------------------------- MODULE PaidStreamProofs --------------------------
(***************************************************************************)
(* What holds of a paid stream for every set of subscribers, every number  *)
(* of observations and every bound on announcements, resends and faults:   *)
(* the types, and that an observation sent as paid was earned.             *)
(***************************************************************************)
EXTENDS PaidStream, FiniteSetTheorems, TLAPS

USE ProviderAssumption, StreamAssumption

-----------------------------------------------------------------------------
(* Type correctness. *)

(* The entries the loop passes over are finitely many. *)
LEMMA UptoFinite ==
  ASSUME NEW p, NEW s
  PROVE  Cardinality(Upto(p, s)) \in Nat
<1>1. Upto(p, s) \subseteq Subscribers
  BY DEF Upto, Ahead, Members
<1>2. QED
  BY <1>1, FS_Subset, FS_CardinalityType

(* The size of a table of subscribers is a natural number. *)
LEMMA MembersFinite == Cardinality(Members) \in Nat
<1>1. Members \subseteq Subscribers
  BY DEF Members
<1>2. QED
  BY <1>1, FS_Subset, FS_CardinalityType

(* The empty frame is a frame. *)
LEMMA IdleType == Idle \in Frames
BY DEF Idle, Frames

(* The code between two awaits leaves a well-formed frame. *)
LEMMA ContinueType ==
  ASSUME ProviderTypeOK, NEW p \in Frames, Continue(p)
  PROVE  pub' \in Frames /\ aborted' \subseteq Nat
<1>1. CASE pub' = Idle /\ aborted' = aborted \union {p.seq}
  BY <1>1, IdleType DEF ProviderTypeOK, Frames
<1>2. CASE UNCHANGED aborted /\ \E s \in Subscribers : NextRecipient(p, s) /\ SendTo(p, s)
  <2>1. PICK s \in Subscribers : NextRecipient(p, s) /\ SendTo(p, s)
    BY <1>2
  <2>2. Cardinality(Upto(p, s)) \in Nat /\ Cardinality(Upto(p, s)) <= p.left
    BY <2>1, UptoFinite DEF NextRecipient
  <2>3. p.left - Cardinality(Upto(p, s)) \in Nat
    BY <2>2 DEF Frames
  <2>4. slot[s] \in Nat /\ Free(s) \in BOOLEAN
    BY DEF ProviderTypeOK, Free
  <2>5. QED
    BY <1>2, <2>1, <2>3, <2>4 DEF SendTo, Frames, ProviderTypeOK
<1>3. CASE /\ UNCHANGED aborted
           /\ pub' = LoopEnds(p)
  BY <1>3, IdleType DEF LoopEnds, ProviderTypeOK, Frames, Idle
<1>4. QED
  BY <1>1, <1>2, <1>3 DEF Continue

(* Dropping the object a handler held leaves a frame. *)
LEMMA ReleaseType ==
  ASSUME pub \in Frames, NEW s, ReleaseObject(s)
  PROVE  pub' \in Frames
BY DEF ReleaseObject, Frames

(* A published observation keeps the types of the provider. *)
LEMMA PublishType == ProviderTypeOK /\ PublishObservation => ProviderTypeOK'
<1> SUFFICES ASSUME ProviderTypeOK, PublishObservation
             PROVE  ProviderTypeOK'
  OBVIOUS
<1> DEFINE p == [Idle EXCEPT !.seq = published + 1, !.size = Cardinality(Members),
                             !.left = Cardinality(Members)]
<1>1. p \in Frames
  <2>1. published + 1 \in Nat
    BY DEF ProviderTypeOK
  <2>2. QED
    BY <2>1, IdleType, MembersFinite DEF Frames
<1>2. Continue(p)
  BY DEF PublishObservation
<1>3. pub' \in Frames /\ aborted' \subseteq Nat
  <2> HIDE DEF p
  <2> QED
    BY <1>1, <1>2, ContinueType
<1>4. QED
  BY <1>3 DEF PublishObservation, ProviderTypeOK, table

(* A send that returns keeps the types of the provider. *)
LEMMA ReturnType == ProviderTypeOK /\ SendReturns => ProviderTypeOK'
<1> SUFFICES ASSUME ProviderTypeOK, SendReturns
             PROVE  ProviderTypeOK'
  OBVIOUS
<1> DEFINE p == [pub EXCEPT !.any = TRUE]
<1>1. p \in Frames /\ Continue(p)
  BY DEF ProviderTypeOK, Frames, SendReturns
<1>2. pub' \in Frames /\ aborted' \subseteq Nat
  <2> HIDE DEF p
  <2> QED
    BY <1>1, ContinueType
<1>3. lastPaid' \in [Subscribers -> Nat \union {NoSeq}]
  BY DEF ProviderTypeOK, SendReturns, MarkFree, Frames
<1>4. QED
  BY <1>2, <1>3 DEF SendReturns, ProviderTypeOK, table

(* A send that raises keeps the types of the provider. *)
LEMMA RaiseType == ProviderTypeOK /\ SendRaises => ProviderTypeOK'
<1> SUFFICES ASSUME ProviderTypeOK, SendRaises
             PROVE  ProviderTypeOK'
  OBVIOUS
<1>1. pub \in Frames /\ Continue(pub)
  BY DEF ProviderTypeOK, SendRaises
<1>2. QED
  BY <1>1, ContinueType DEF SendRaises, ProviderTypeOK, table

(* A handled message keeps the types of the provider. *)
LEMMA HandlerType ==
  ASSUME ProviderTypeOK, NEW s \in Subscribers, NEW n \in Nat,
         RecordSubscription(s) \/ DropSubscription(s) \/ RecordPayment(s, n)
  PROVE  ProviderTypeOK'
<1>1. CASE RecordSubscription(s)
  <2>1. pub' \in Frames
    BY <1>1, ReleaseType DEF RecordSubscription, ProviderTypeOK
  <2>2. slot' \in [Subscribers -> Nat] /\ entries' \in Nat
    BY <1>1 DEF RecordSubscription, ProviderTypeOK, table
  <2>3. QED
    BY <1>1, <2>1, <2>2 DEF RecordSubscription, ProviderTypeOK
<1>2. CASE DropSubscription(s)
  <2>1. pub' \in Frames
    BY <1>2, ReleaseType DEF DropSubscription, ProviderTypeOK
  <2>2. QED
    BY <1>2, <2>1 DEF DropSubscription, ProviderTypeOK
<1>3. CASE RecordPayment(s, n)
  BY <1>3 DEF RecordPayment, ProviderTypeOK, table
<1>4. QED
  BY <1>1, <1>2, <1>3

(* The steps of the provider keep the provider's types. *)
LEMMA ProviderStepType ==
  ASSUME ProviderTypeOK,
         \/ PublishObservation \/ SendReturns \/ SendRaises
         \/ HeartbeatEnds \/ HeartbeatRaises \/ ProviderRestart
         \/ \E k \in Nat : EventReachesRelay(k)
         \/ UNCHANGED providerVars
  PROVE  ProviderTypeOK'
<1>1. CASE HeartbeatEnds \/ HeartbeatRaises
  <2>1. UNCHANGED <<slot, entries, lastPaid, published, aborted>> /\ pub' = Idle
    BY <1>1 DEF HeartbeatEnds, HeartbeatRaises, table
  <2>2. QED
    BY <2>1, IdleType DEF ProviderTypeOK
<1>2. CASE ProviderRestart
  <2>1. slot' \in [Subscribers -> Nat] /\ lastPaid' \in [Subscribers -> Nat \union {NoSeq}]
    BY <1>2 DEF ProviderRestart
  <2>2. entries' \in Nat /\ pub' \in Frames
    BY <1>2, IdleType DEF ProviderRestart
  <2>3. QED
    BY <1>2, <2>1, <2>2 DEF ProviderRestart, ProviderTypeOK
<1>3. CASE \E k \in Nat : EventReachesRelay(k)
  BY <1>3 DEF EventReachesRelay, ProviderTypeOK, Frames, table
<1>4. CASE UNCHANGED providerVars
  BY <1>4 DEF providerVars, ProviderTypeOK
<1>5. QED
  BY <1>1, <1>2, <1>3, <1>4, PublishType, ReturnType, RaiseType

(* The part of TypeOK about the subscribers' events. *)
LogTypeOK ==
  /\ made \in [Subscribers -> Seq(Requests)]
  /\ inbox \subseteq Subscribers \X Nat
  /\ \A e \in inbox : e[2] \in DOMAIN made[e[1]]

(* A signed event keeps the types of the logs and the inboxes. *)
LEMMA EmitType ==
  ASSUME LogTypeOK, NEW s \in Subscribers, NEW r \in Requests, Emit(s, r)
  PROVE  LogTypeOK'
<1>1. made[s] \in Seq(Requests) /\ Len(made[s]) \in Nat
  BY DEF LogTypeOK
<1>2. made' \in [Subscribers -> Seq(Requests)]
  BY <1>1 DEF LogTypeOK, Emit
<1>3. \A t \in Subscribers : DOMAIN made[t] \subseteq DOMAIN made'[t]
  BY <1>1 DEF LogTypeOK, Emit
<1>4. Len(made[s]) + 1 \in DOMAIN made'[s]
  BY <1>1 DEF LogTypeOK, Emit
<1>5. inbox' \subseteq Subscribers \X Nat
  BY <1>1 DEF LogTypeOK, Emit
<1>6. \A e \in inbox' : e[2] \in DOMAIN made'[e[1]]
  BY <1>3, <1>4 DEF LogTypeOK, Emit
<1>7. QED
  BY <1>2, <1>5, <1>6 DEF LogTypeOK

(* TypeOK is inductive: the tables, frames, logs and queues of the clients *)
(* and the relays keep their types in every step.                          *)
LEMMA TypeStep == TypeOK /\ [Next]_vars => TypeOK'
<1> SUFFICES ASSUME TypeOK, [Next]_vars
             PROVE  TypeOK'
  OBVIOUS
<1> USE DEF TypeOK
<1>T. /\ ProviderTypeOK /\ LogTypeOK /\ Len(sent) \in Nat
      /\ sent \in Seq(Deliveries) /\ DOMAIN sent = 1 .. Len(sent)
      /\ transit \subseteq DOMAIN sent /\ received \subseteq DOMAIN sent
  BY DEF StreamTypeOK, LogTypeOK
<1>1. ASSUME NEW s \in Subscribers, SubscriberNext(s)
      PROVE  TypeOK'
  <2>1. ProviderTypeOK'
    BY <1>1, <1>T, ProviderStepType DEF SubscriberNext, Subscribe, Unsubscribe,
       Forget, AutoPay, AutoPayFails, SubscriberReconnects
  <2>2. CASE Subscribe(s)
    <3>1. LogTypeOK'
      BY <1>T, <2>2, EmitType DEF Subscribe, Requests
    <3>2. QED
      BY <2>1, <2>2, <3>1 DEF Subscribe, StreamTypeOK, LogTypeOK
  <2>3. CASE Unsubscribe(s)
    <3>1. LogTypeOK'
      BY <1>T, <2>3, EmitType DEF Unsubscribe, Requests
    <3>2. QED
      BY <2>1, <2>3, <3>1 DEF Unsubscribe, StreamTypeOK, LogTypeOK
  <2>4. CASE Forget(s)
    BY <2>1, <2>4 DEF Forget, StreamTypeOK
  <2>5. CASE AutoPay(s)
    <3>1. [kind |-> "pay", seq |-> due[s] + 1] \in Requests
      BY <2>5 DEF AutoPay, StreamTypeOK, Requests
    <3>2. LogTypeOK'
      BY <1>T, <2>5, <3>1, EmitType DEF AutoPay
    <3>3. QED
      BY <2>1, <2>5, <3>2 DEF AutoPay, StreamTypeOK, LogTypeOK
  <2>6. CASE AutoPayFails(s)
    BY <2>1, <2>6 DEF AutoPayFails, StreamTypeOK
  <2>7. CASE SubscriberReconnects(s)
    BY <2>1, <2>7 DEF SubscriberReconnects, StreamTypeOK
  <2>8. QED
    BY <1>1, <2>2, <2>3, <2>4, <2>5, <2>6, <2>7 DEF SubscriberNext
<1>2. ASSUME NEW k \in transit, Receive(k)
      PROVE  TypeOK'
  <2>1. ProviderTypeOK'
    BY <1>2, <1>T, ProviderStepType DEF Receive
  <2>2. sent[k].seq \in Nat
    <3>1. sent[k] \in Deliveries
      BY <1>T, <1>2
    <3>2. QED
      BY <3>1 DEF Deliveries
  <2>3. due' \in [Subscribers -> Nat \union {NoSeq}]
    BY <1>2, <2>2 DEF Receive, StreamTypeOK
  <2>4. transit' \subseteq DOMAIN sent /\ received' \subseteq DOMAIN sent
    BY <1>2, <1>T DEF Receive
  <2>5. UNCHANGED <<made, inbox, sent, mode, resends, faults>>
    BY <1>2 DEF Receive
  <2>6. QED
    BY <2>1, <2>3, <2>4, <2>5 DEF StreamTypeOK
<1>3. ASSUME NEW e \in inbox, Handle(e[1], e[2])
      PROVE  TypeOK'
  <2>1. e[1] \in Subscribers /\ made[e[1]][e[2]] \in Requests
    BY <1>T, <1>3 DEF LogTypeOK
  <2>2. made[e[1]][e[2]].seq \in Nat
    BY <2>1 DEF Requests
  <2>3. ProviderTypeOK'
    BY <1>3, <1>T, <2>1, <2>2, HandlerType DEF Handle
  <2>4. QED
    BY <1>3, <2>3 DEF Handle, StreamTypeOK
<1>4. ASSUME Transmit
      PROVE  TypeOK'
  <2>1. ProviderTypeOK'
    BY <1>4, <1>T, ProviderStepType DEF Transmit
  <2>2. Outgoing \in Deliveries
    BY <1>T DEF Outgoing, Deliveries, ProviderTypeOK, Frames
  <2>3. QED
    BY <1>4, <1>T, <2>1, <2>2 DEF Transmit, StreamTypeOK
<1>5. ASSUME NEW s \in Subscribers, NEW n \in 1 .. published, Resend(s, n)
      PROVE  TypeOK'
  <2>1. ProviderTypeOK' /\ n \in Nat
    BY <1>5, <1>T, ProviderStepType DEF Resend, ProviderTypeOK
  <2>2. [to |-> s, seq |-> n, kind |-> IF Free(s) THEN "gift" ELSE "paid"] \in Deliveries
    BY <2>1 DEF Deliveries
  <2>3. QED
    BY <1>5, <1>T, <2>1, <2>2 DEF Resend, StreamTypeOK
<1>6. CASE Publish \/ Return \/ Raise
  <2>1. ProviderTypeOK'
    BY <1>6, <1>T, ProviderStepType DEF Publish, Return, Raise
  <2>2. QED
    BY <1>6, <2>1 DEF Publish, Return, Raise, streamVars, StreamTypeOK
<1>7. CASE ProviderReconnects
  <2>1. ProviderTypeOK'
    BY <1>7, <1>T, ProviderStepType DEF ProviderReconnects
  <2>2. QED
    BY <1>7, <2>1 DEF ProviderReconnects, StreamTypeOK
<1>8. CASE ProviderRestarts
  <2>1. ProviderTypeOK'
    BY <1>8, <1>T, ProviderStepType DEF ProviderRestarts
  <2>2. Stored \subseteq Subscribers \X Nat /\ \A e \in Stored : e[2] \in DOMAIN made[e[1]]
    BY <1>T DEF Stored, LogTypeOK, Latest
  <2>3. QED
    BY <1>8, <2>1, <2>2 DEF ProviderRestarts, StreamTypeOK
<1>9. CASE UNCHANGED vars
  <2>1. ProviderTypeOK'
    BY <1>9, <1>T, ProviderStepType DEF vars
  <2>2. QED
    BY <1>9, <2>1 DEF vars, streamVars, StreamTypeOK
<1>10. QED
  BY <1>1, <1>2, <1>3, <1>4, <1>5, <1>6, <1>7, <1>8, <1>9 DEF Next, Rest

(* Every reachable state of a paid stream is well typed. *)
THEOREM TypeCorrect == Spec => []TypeOK
<1>1. Init => TypeOK
  BY IdleType DEF Init, ProviderInit, TypeOK, ProviderTypeOK, StreamTypeOK
<1>2. QED
  BY <1>1, TypeStep, PTL DEF Spec

-----------------------------------------------------------------------------
(* Entitlement. *)

(* What was earned stays earned: the two logs only grow. *)
LogsGrow ==
  /\ \A s \in Subscribers : \A k \in DOMAIN made[s] :
       k \in DOMAIN made'[s] /\ made'[s][k] = made[s][k]
  /\ \A k \in DOMAIN sent : k \in DOMAIN sent' /\ sent'[k] = sent[k]

(* What was earned stays earned while the logs only grow. *)
LEMMA StillEarned ==
  ASSUME LogsGrow, NEW s \in Subscribers, NEW n, Earned(s, n)
  PROVE  Earned(s, n)'
BY DEF LogsGrow, Earned, PaymentMade, SampleSent

(* Signing an event only extends the logs. *)
LEMMA EmitGrows ==
  ASSUME TypeOK, NEW s \in Subscribers, NEW r, Emit(s, r), UNCHANGED sent
  PROVE  LogsGrow
<1>1. \A t \in Subscribers : made[t] \in Seq(Requests)
  BY DEF TypeOK, StreamTypeOK
<1>2. made[s] \in Seq(Requests) /\ Len(made[s]) \in Nat
  BY <1>1
<1>3. made'[s] = Append(made[s], r) /\ \A t \in Subscribers \ {s} : made'[t] = made[t]
  BY DEF Emit, TypeOK, StreamTypeOK
<1>4. \A k \in DOMAIN made[s] : k \in DOMAIN made'[s] /\ made'[s][k] = made[s][k]
  BY <1>2, <1>3
<1>5. QED
  BY <1>3, <1>4 DEF LogsGrow

(* An event appended to the provider's log is found there; the older ones  *)
(* stay where they were.                                                   *)
LEMMA AppendGrows ==
  ASSUME TypeOK, NEW d, sent' = Append(sent, d), UNCHANGED made
  PROVE  /\ LogsGrow
         /\ DOMAIN sent' = DOMAIN sent \union {Len(sent) + 1}
         /\ sent'[Len(sent) + 1] = d
<1>1. sent \in Seq(Deliveries) /\ Len(sent) \in Nat
  BY DEF TypeOK, StreamTypeOK
<1>2. QED
  BY <1>1 DEF LogsGrow

(* A step that leaves the logs alone shrinks neither. *)
LEMMA UnchangedGrows == UNCHANGED <<made, sent>> => LogsGrow
BY DEF LogsGrow

(* Whom the loop sends to without a free mark has earned the observation. *)
LEMMA PaidEarned ==
  ASSUME TypeOK, TableEarned, NEW s \in Subscribers, NEW n \in Nat, Paid(s, n)
  PROVE  Earned(s, n)
<1>1. lastPaid[s] \in Nat /\ lastPaid[s] >= n /\ Earned(s, lastPaid[s])
  BY DEF Paid, TableEarned, TypeOK, ProviderTypeOK
<1>2. CASE PaymentMade(s, lastPaid[s])
  <2>1. PICK k \in DOMAIN made[s] : made[s][k].kind = "pay" /\ made[s][k].seq >= lastPaid[s]
    BY <1>2 DEF PaymentMade
  <2>2. made[s][k] \in Requests
    BY <2>1 DEF TypeOK, StreamTypeOK
  <2>3. made[s][k].seq \in Nat
    BY <2>2 DEF Requests
  <2>4. QED
    BY <1>1, <2>1, <2>3 DEF Earned, PaymentMade
<1>3. CASE SampleSent(s, lastPaid[s])
  <2>1. PICK k \in DOMAIN sent : sent[k].to = s /\ sent[k].kind = "free" /\ sent[k].seq >= lastPaid[s]
    BY <1>3 DEF SampleSent
  <2>2. sent[k] \in Deliveries
    BY <2>1 DEF TypeOK, StreamTypeOK
  <2>3. sent[k].seq \in Nat
    BY <2>2 DEF Deliveries
  <2>4. QED
    BY <1>1, <2>1, <2>3 DEF Earned, SampleSent
<1>4. QED
  BY <1>1, <1>2, <1>3 DEF Earned

(* The loop goes on only to a subscriber that earned its copy. *)
LEMMA ContinueEarned ==
  ASSUME TypeOK, TableEarned, NEW p \in Frames, Continue(p), UNCHANGED <<made, sent>>
  PROVE  FrameEarned' /\ (pub'.pc = "send" => pub'.cur \in Subscribers)
<1>1. CASE \E s \in Subscribers : NextRecipient(p, s) /\ SendTo(p, s)
  <2>1. PICK s \in Subscribers : NextRecipient(p, s) /\ SendTo(p, s)
    BY <1>1
  <2>2. pub'.cur = s /\ pub'.seq = p.seq /\ pub'.free = Free(s) /\ pub'.out = 0
    <3> DEFINE l == p.left - Cardinality(Upto(p, s))
    <3>1. pub' = [p EXCEPT !.pc = "send", !.pos = slot[s], !.left = l, !.cur = s,
                           !.free = Free(s), !.held = TRUE, !.out = 0]
      BY <2>1 DEF SendTo
    <3> HIDE DEF l
    <3>2. QED
      BY <3>1 DEF Frames
  <2>3. ~pub'.free => Paid(s, p.seq)
    BY <2>1, <2>2 DEF NextRecipient, Eligible
  <2>4. ~pub'.free => Earned(s, p.seq)
    BY <2>3, PaidEarned DEF Frames
  <2>5. Earned(s, p.seq) => Earned(s, p.seq)'
    BY UnchangedGrows, StillEarned
  <2>6. ASSUME ~pub'.free
        PROVE  Earned(pub.cur, pub.seq)'
    <3>1. Earned(s, p.seq)'
      BY <2>4, <2>5, <2>6
    <3>2. QED
      BY <2>2, <3>1 DEF Earned, PaymentMade, SampleSent
  <2>7. (pub.pc = "send" /\ (~pub.free \/ pub.out # 0))' => ~pub'.free
    BY <2>2
  <2>8. QED
    BY <2>2, <2>6, <2>7 DEF FrameEarned
<1>2. CASE pub' = Idle \/ pub' = [Idle EXCEPT !.pc = "beat", !.seq = p.seq]
  <2>1. Idle.pc = "idle" /\ [Idle EXCEPT !.pc = "beat", !.seq = p.seq].pc = "beat"
    BY IdleType DEF Idle, Frames
  <2>2. pub'.pc # "send"
    BY <1>2, <2>1
  <2>3. QED
    BY <2>2 DEF FrameEarned
<1>3. QED
  BY <1>1, <1>2 DEF Continue, LoopEnds

(* A step that neither shrinks a log nor sends anything as paid. *)
LEMMA NothingPaid ==
  ASSUME EntitledInv, LogsGrow,
         \A k \in DOMAIN sent' : k \in DOMAIN sent \/ sent'[k].kind # "paid"
  PROVE  Entitled' /\ (\A k \in DOMAIN sent' : sent'[k].kind = "paid" => sent'[k].to \in Subscribers)
<1> SUFFICES ASSUME NEW k \in DOMAIN sent', sent'[k].kind = "paid"
             PROVE  Earned(sent[k].to, sent[k].seq)' /\ sent'[k].to \in Subscribers
  BY DEF Entitled
<1>1. k \in DOMAIN sent /\ sent'[k] = sent[k]
  BY DEF LogsGrow
<1>2. sent[k].to \in Subscribers /\ Earned(sent[k].to, sent[k].seq)
  BY <1>1 DEF EntitledInv, Entitled, Addressed
<1>3. PICK s \in Subscribers, n \in {sent[k].seq} : s = sent[k].to
  BY <1>2
<1>4. Earned(s, n)'
  <2>1. Earned(s, n)
    BY <1>2, <1>3
  <2>2. QED
    BY <2>1, StillEarned
<1>5. QED
  BY <1>1, <1>2, <1>3, <1>4 DEF Earned, PaymentMade, SampleSent

(* The table stays justified by the logs across such a step. *)
LEMMA TableKept ==
  ASSUME EntitledInv, LogsGrow,
         \A s \in Subscribers : \/ lastPaid'[s] \in {lastPaid[s], NoSeq}
                               \/ Earned(s, lastPaid'[s])
  PROVE  TableEarned'
<1> SUFFICES ASSUME NEW s \in Subscribers, lastPaid'[s] # NoSeq
             PROVE  Earned(s, lastPaid[s])'
  BY DEF TableEarned
<1>1. Earned(s, lastPaid'[s])
  BY DEF EntitledInv, TableEarned
<1>2. PICK n : n = lastPaid'[s]
  OBVIOUS
<1>3. Earned(s, n)'
  <2>1. Earned(s, n)
    BY <1>1, <1>2
  <2>2. QED
    BY <2>1, StillEarned
<1>4. QED
  BY <1>2, <1>3 DEF Earned, PaymentMade, SampleSent

(* A frame stays justified by the logs across such a step. *)
LEMMA FrameKept ==
  ASSUME EntitledInv, LogsGrow, TypeOK,
         UNCHANGED pub \/ pub' = Idle \/ pub' = [pub EXCEPT !.held = FALSE]
  PROVE  FrameEarned' /\ (pub'.pc = "send" => pub'.cur \in Subscribers)
<1>1. CASE pub' = Idle
  BY <1>1 DEF Idle, FrameEarned
<1>2. CASE UNCHANGED pub \/ pub' = [pub EXCEPT !.held = FALSE]
  <2>1. /\ pub'.pc = pub.pc /\ pub'.cur = pub.cur /\ pub'.seq = pub.seq
        /\ pub'.free = pub.free /\ pub'.out = pub.out
    BY <1>2 DEF TypeOK, ProviderTypeOK, Frames
  <2>2. SUFFICES ASSUME pub.pc = "send" /\ (~pub.free \/ pub.out # 0)
                 PROVE  Earned(pub.cur, pub.seq)'
    BY <2>1 DEF FrameEarned, EntitledInv, Addressed
  <2>3. PICK s \in Subscribers, n \in {pub.seq} : s = pub.cur
    BY <2>2 DEF EntitledInv, Addressed
  <2>4. Earned(s, n)'
    <3>1. Earned(s, n)
      BY <2>2, <2>3 DEF EntitledInv, FrameEarned
    <3>2. QED
      BY <3>1, StillEarned
  <2>5. QED
    BY <2>1, <2>3, <2>4 DEF Earned, PaymentMade, SampleSent
<1>3. QED
  BY <1>1, <1>2

(* The strengthened invariant from its three parts. *)
LEMMA Assemble ==
  ASSUME EntitledInv, TypeOK, LogsGrow,
         \A k \in DOMAIN sent' : k \in DOMAIN sent \/ sent'[k].kind # "paid",
         \A s \in Subscribers : \/ lastPaid'[s] \in {lastPaid[s], NoSeq}
                               \/ Earned(s, lastPaid'[s]),
         \/ UNCHANGED pub \/ pub' = Idle \/ pub' = [pub EXCEPT !.held = FALSE]
         \/ FrameEarned' /\ (pub'.pc = "send" => pub'.cur \in Subscribers)
  PROVE  EntitledInv'
BY NothingPaid, TableKept, FrameKept DEF EntitledInv, Addressed

(* An event that reaches the relay keeps the invariant. *)
LEMMA TransmitEntitled == EntitledInv /\ TypeOK /\ Transmit => EntitledInv'
<1> SUFFICES ASSUME EntitledInv, TypeOK, Transmit
             PROVE  EntitledInv'
  OBVIOUS
<1>1. /\ pub' = [pub EXCEPT !.out = Len(sent) + 1] /\ pub \in Frames
      /\ UNCHANGED <<lastPaid, made>> /\ sent' = Append(sent, Outgoing)
  BY DEF Transmit, EventReachesRelay, TypeOK, ProviderTypeOK
<1>2. /\ LogsGrow /\ DOMAIN sent' = DOMAIN sent \union {Len(sent) + 1}
      /\ sent'[Len(sent) + 1] = Outgoing
  BY <1>1, AppendGrows
<1>3. /\ pub'.pc = pub.pc /\ pub'.cur = pub.cur /\ pub'.seq = pub.seq /\ pub'.free = pub.free
      /\ pub.seq \in Nat
  BY <1>1 DEF Frames
<1>4. TableEarned'
  BY <1>1, <1>2, TableKept
<1>5. ASSUME pub.pc = "send"
      PROVE  pub.cur \in Subscribers /\ Earned(pub.cur, pub.seq)'
  <2>1. PICK s \in Subscribers, n \in Nat : s = pub.cur /\ n = pub.seq
    BY <1>3, <1>5 DEF EntitledInv, Addressed
  <2>2. CASE pub.free
    <3>1. Outgoing.to = s /\ Outgoing.kind = "free" /\ Outgoing.seq = n
      BY <1>5, <2>1, <2>2 DEF Outgoing
    <3>2. SampleSent(s, n)'
      BY <1>2, <2>1, <3>1 DEF SampleSent
    <3>3. QED
      BY <1>3, <2>1, <3>2 DEF Earned, SampleSent
  <2>3. CASE ~pub.free
    <3>1. Earned(s, n)
      BY <1>5, <2>1, <2>3 DEF EntitledInv, FrameEarned
    <3>2. Earned(s, n)'
      BY <1>2, <3>1, StillEarned
    <3>3. QED
      BY <1>3, <2>1, <3>2 DEF Earned, PaymentMade, SampleSent
  <2>4. QED
    BY <2>2, <2>3
<1>6. FrameEarned' /\ (pub'.pc = "send" => pub'.cur \in Subscribers)
  <2>1. CASE pub.pc = "send"
    BY <1>3, <1>5, <2>1 DEF FrameEarned, Earned, PaymentMade, SampleSent
  <2>2. CASE pub.pc # "send"
    BY <1>3, <2>2 DEF FrameEarned
  <2>3. QED
    BY <2>1, <2>2
<1>7. ASSUME NEW k \in DOMAIN sent', sent'[k].kind = "paid"
      PROVE  sent'[k].to \in Subscribers /\ Earned(sent[k].to, sent[k].seq)'
  <2>1. CASE k \in DOMAIN sent
    <3>1. sent'[k] = sent[k]
      BY <1>2, <2>1 DEF LogsGrow
    <3>2. PICK s \in Subscribers, n \in {sent[k].seq} : s = sent[k].to
      BY <1>7, <2>1, <3>1 DEF EntitledInv, Addressed
    <3>3. Earned(s, n)
      BY <1>7, <2>1, <3>1, <3>2 DEF EntitledInv, Entitled
    <3>4. Earned(s, n)'
      BY <1>2, <3>3, StillEarned
    <3>5. QED
      BY <3>1, <3>2, <3>4 DEF Earned, PaymentMade, SampleSent
  <2>2. CASE k = Len(sent) + 1
    <3>1. Outgoing.kind = "paid"
      BY <1>2, <1>7, <2>2
    <3>2. pub.pc = "send"
      BY <1>1, <3>1 DEF Outgoing, Transmit, EventReachesRelay, Frames
    <3>3. sent'[k].to = pub.cur /\ sent'[k].seq = pub.seq
      BY <1>2, <2>2 DEF Outgoing
    <3>4. QED
      BY <1>3, <1>5, <3>2, <3>3 DEF Earned, PaymentMade, SampleSent
  <2>3. QED
    BY <1>2, <2>1, <2>2
<1>8. Entitled' /\ (\A k \in DOMAIN sent' : sent'[k].kind = "paid" => sent'[k].to \in Subscribers)
  BY <1>7 DEF Entitled
<1>9. QED
  BY <1>4, <1>6, <1>8 DEF EntitledInv, Addressed

(* An old observation sent again keeps the invariant. *)
LEMMA ResendEntitled ==
  ASSUME EntitledInv, TypeOK, NEW s \in Subscribers, NEW n \in 1 .. published, Resend(s, n)
  PROVE  EntitledInv'
<1> DEFINE d == [to |-> s, seq |-> n, kind |-> IF Free(s) THEN "gift" ELSE "paid"]
<1>1. sent' = Append(sent, d) /\ UNCHANGED <<lastPaid, pub, made>>
  BY DEF Resend, providerVars
<1>2. LogsGrow /\ DOMAIN sent' = DOMAIN sent \union {Len(sent) + 1} /\ sent'[Len(sent) + 1] = d
  <2> HIDE DEF d
  <2> QED
    BY <1>1, AppendGrows
<1>3. TableEarned' /\ FrameEarned' /\ (pub'.pc = "send" => pub'.cur \in Subscribers)
  BY <1>1, <1>2, TableKept, FrameKept
<1>4. ASSUME NEW k \in DOMAIN sent', sent'[k].kind = "paid"
      PROVE  sent'[k].to \in Subscribers /\ Earned(sent[k].to, sent[k].seq)'
  <2>1. PICK r, m : r = sent'[k].to /\ m = sent'[k].seq
    OBVIOUS
  <2>2. r \in Subscribers /\ Earned(r, m)
    <3>1. CASE k \in DOMAIN sent
      <4>1. sent'[k] = sent[k]
        BY <1>2, <3>1 DEF LogsGrow
      <4>2. QED
        BY <1>4, <2>1, <3>1, <4>1 DEF EntitledInv, Entitled, Addressed
    <3>2. CASE k = Len(sent) + 1
      <4>3. sent'[k] = d
        BY <1>2, <3>2
      <4>1. r = s /\ m = n /\ ~Free(s)
        BY <1>4, <2>1, <4>3
      <4>2. Paid(s, n)
        BY <4>1 DEF Resend, Eligible
      <4>4. QED
        BY <4>1, <4>2, PaidEarned DEF EntitledInv
    <3>3. QED
      BY <1>2, <3>1, <3>2
  <2>3. Earned(r, m)'
    BY <1>2, <2>2, StillEarned
  <2>4. QED
    BY <2>1, <2>2, <2>3 DEF Earned, PaymentMade, SampleSent
<1>5. QED
  BY <1>3, <1>4 DEF EntitledInv, Entitled, Addressed

(* The free mark: the sample it stands for is on the relay. *)
LEMMA MarkEarned ==
  ASSUME EntitledInv, TypeOK, MarkFree, pub.pc = "send", pub.out # 0
  PROVE  \A s \in Subscribers : lastPaid'[s] = lastPaid[s] \/ Earned(s, lastPaid'[s])
<1> TAKE s \in Subscribers
<1>1. lastPaid \in [Subscribers -> Nat \union {NoSeq}]
  BY DEF TypeOK, ProviderTypeOK
<1>2. CASE pub.cur = s /\ lastPaid' = [lastPaid EXCEPT ![pub.cur] = pub.seq]
  <2>1. lastPaid'[s] = pub.seq
    BY <1>1, <1>2
  <2>2. PICK n : n = pub.seq
    OBVIOUS
  <2>3. Earned(s, n)
    BY <1>2, <2>2 DEF EntitledInv, FrameEarned
  <2>4. QED
    BY <2>1, <2>2, <2>3
<1>3. CASE pub.cur # s \/ UNCHANGED lastPaid
  BY <1>1, <1>3 DEF MarkFree
<1>4. QED
  BY <1>2, <1>3 DEF MarkFree

(* A send that returns keeps the invariant. *)
LEMMA ReturnEntitled == EntitledInv /\ TypeOK /\ Return => EntitledInv'
<1> SUFFICES ASSUME EntitledInv, TypeOK, Return
             PROVE  EntitledInv'
  OBVIOUS
<1>1. LogsGrow /\ sent' = sent
  BY UnchangedGrows DEF Return, streamVars
<1>2. CASE SendReturns
  <2>1. [pub EXCEPT !.any = TRUE] \in Frames
    BY DEF TypeOK, ProviderTypeOK, Frames
  <2>2. FrameEarned' /\ (pub'.pc = "send" => pub'.cur \in Subscribers)
    BY <1>2, <2>1, ContinueEarned DEF EntitledInv, SendReturns, Return, streamVars
  <2>3. \A s \in Subscribers : lastPaid'[s] = lastPaid[s] \/ Earned(s, lastPaid'[s])
    BY <1>2, MarkEarned DEF SendReturns
  <2>4. QED
    BY <1>1, <2>2, <2>3, Assemble
<1>3. CASE HeartbeatEnds
  BY <1>1, <1>3, Assemble DEF HeartbeatEnds
<1>4. QED
  BY <1>2, <1>3 DEF Return

(* A send that raises keeps the invariant. *)
LEMMA RaiseEntitled == EntitledInv /\ TypeOK /\ Raise => EntitledInv'
<1> SUFFICES ASSUME EntitledInv, TypeOK, Raise
             PROVE  EntitledInv'
  OBVIOUS
<1>1. LogsGrow /\ UNCHANGED <<made, sent, lastPaid>>
  BY UnchangedGrows DEF Raise, SendRaises, HeartbeatRaises
<1>2. CASE SendRaises
  <2>1. FrameEarned' /\ (pub'.pc = "send" => pub'.cur \in Subscribers)
    BY <1>1, <1>2, ContinueEarned DEF EntitledInv, SendRaises, TypeOK, ProviderTypeOK
  <2>2. QED
    BY <1>1, <2>1, Assemble
<1>3. CASE HeartbeatRaises
  BY <1>1, <1>3, Assemble DEF HeartbeatRaises
<1>4. QED
  BY <1>2, <1>3 DEF Raise

(* A new observation keeps the invariant. *)
LEMMA PublishEntitled == EntitledInv /\ TypeOK /\ Publish => EntitledInv'
<1> SUFFICES ASSUME EntitledInv, TypeOK, Publish
             PROVE  EntitledInv'
  OBVIOUS
<1> DEFINE p == [Idle EXCEPT !.seq = published + 1, !.size = Cardinality(Members),
                             !.left = Cardinality(Members)]
<1>1. LogsGrow /\ UNCHANGED <<made, sent, lastPaid>>
  BY UnchangedGrows DEF Publish, PublishObservation, streamVars
<1>2. p \in Frames
  <2>1. Cardinality(Members) \in Nat /\ published + 1 \in Nat
    BY MembersFinite DEF TypeOK, ProviderTypeOK
  <2>2. QED
    BY <2>1, IdleType DEF Frames
<1>3. Continue(p)
  BY DEF Publish, PublishObservation
<1> HIDE DEF p
<1>4. FrameEarned' /\ (pub'.pc = "send" => pub'.cur \in Subscribers)
  BY <1>1, <1>2, <1>3, ContinueEarned DEF EntitledInv
<1>5. QED
  BY <1>1, <1>4, Assemble

(* A handled announcement or payment keeps the invariant. *)
LEMMA HandleEntitled ==
  ASSUME EntitledInv, TypeOK, NEW s \in Subscribers, NEW k \in DOMAIN made[s], Handle(s, k)
  PROVE  EntitledInv'
<1>1. LogsGrow /\ UNCHANGED <<made, sent>>
  BY UnchangedGrows DEF Handle
<1>2. lastPaid \in [Subscribers -> Nat \union {NoSeq}] /\ pub \in Frames
  BY DEF TypeOK, ProviderTypeOK
<1>3. CASE RecordSubscription(s)
  BY <1>1, <1>3, Assemble DEF RecordSubscription, ReleaseObject
<1>4. CASE DropSubscription(s)
  <2>1. \A r \in Subscribers : lastPaid'[r] \in {lastPaid[r], NoSeq}
    BY <1>2, <1>4 DEF DropSubscription
  <2>2. UNCHANGED pub \/ pub' = [pub EXCEPT !.held = FALSE]
    BY <1>4 DEF DropSubscription, ReleaseObject
  <2>3. QED
    BY <1>1, <2>1, <2>2, Assemble
<1>5. CASE made[s][k].kind = "pay" /\ RecordPayment(s, made[s][k].seq)
  <2>1. PICK n : n = made[s][k].seq
    OBVIOUS
  <2>2. n \in Nat
    <3>1. made[s][k] \in Requests
      BY DEF TypeOK, StreamTypeOK
    <3>2. QED
      BY <2>1, <3>1 DEF Requests
  <2>3. Earned(s, n)
    BY <1>5, <2>1, <2>2 DEF Earned, PaymentMade
  <2>4. \A r \in Subscribers : lastPaid'[r] = lastPaid[r] \/ (r = s /\ lastPaid'[r] = n)
    BY <1>2, <1>5, <2>1 DEF RecordPayment
  <2>5. \A r \in Subscribers : lastPaid'[r] = lastPaid[r] \/ Earned(r, lastPaid'[r])
    BY <2>3, <2>4
  <2>6. UNCHANGED pub
    BY <1>5 DEF RecordPayment
  <2>7. QED
    BY <1>1, <2>5, <2>6, Assemble
<1>6. QED
  BY <1>3, <1>4, <1>5 DEF Handle

(* A subscriber's own call adds to its log and touches nothing of the provider's. *)
LEMMA EmitEntitled ==
  ASSUME EntitledInv, TypeOK, NEW s \in Subscribers, NEW e, Emit(s, e),
         UNCHANGED <<providerVars, sent>>
  PROVE  EntitledInv'
<1>1. LogsGrow
  BY EmitGrows
<1>2. QED
  BY <1>1, Assemble DEF providerVars

(* No step of a paid stream breaks the invariant. *)
LEMMA EntitledStep == EntitledInv /\ TypeOK /\ [Next]_vars => EntitledInv'
<1> SUFFICES ASSUME EntitledInv, TypeOK, [Next]_vars
             PROVE  EntitledInv'
  OBVIOUS
<1>1. ASSUME UNCHANGED <<providerVars, made, sent>>
      PROVE  EntitledInv'
  BY <1>1, UnchangedGrows, Assemble DEF providerVars
<1>2. ASSUME NEW s \in Subscribers, SubscriberNext(s)
      PROVE  EntitledInv'
  <2>1. CASE Subscribe(s)
    BY <2>1, EmitEntitled DEF Subscribe
  <2>2. CASE Unsubscribe(s)
    BY <2>2, EmitEntitled DEF Unsubscribe
  <2>3. CASE AutoPay(s)
    BY <2>3, EmitEntitled DEF AutoPay
  <2>4. CASE Forget(s) \/ AutoPayFails(s) \/ SubscriberReconnects(s)
    BY <1>1, <2>4 DEF Forget, AutoPayFails, SubscriberReconnects
  <2>5. QED
    BY <1>2, <2>1, <2>2, <2>3, <2>4 DEF SubscriberNext
<1>3. ASSUME NEW k \in transit, Receive(k)
      PROVE  EntitledInv'
  BY <1>1, <1>3 DEF Receive
<1>4. ASSUME NEW e \in inbox, Handle(e[1], e[2])
      PROVE  EntitledInv'
  <2>1. e[1] \in Subscribers /\ e[2] \in DOMAIN made[e[1]]
    BY DEF TypeOK, StreamTypeOK
  <2>2. QED
    BY <1>4, <2>1, HandleEntitled
<1>5. CASE Transmit
  BY <1>5, TransmitEntitled
<1>6. CASE Return
  BY <1>6, ReturnEntitled
<1>7. CASE Raise
  BY <1>7, RaiseEntitled
<1>8. ASSUME NEW s \in Subscribers, NEW n \in 1 .. published, Resend(s, n)
      PROVE  EntitledInv'
  BY <1>8, ResendEntitled
<1>9. CASE ProviderReconnects
  BY <1>1, <1>9 DEF ProviderReconnects
<1>10. CASE ProviderRestarts
  BY <1>10, UnchangedGrows, Assemble DEF ProviderRestarts, ProviderRestart
<1>11. CASE Publish
  BY <1>11, PublishEntitled
<1>12. CASE UNCHANGED vars
  BY <1>1, <1>12 DEF vars, streamVars
<1>13. QED
  BY <1>2, <1>3, <1>4, <1>5, <1>6, <1>7, <1>8, <1>9, <1>10, <1>11, <1>12 DEF Next, Rest

(* Whatever the handlers do while the loop of publish_observation awaits a *)
(* send, whatever is lost, replayed or restarted, an observation is sent as *)
(* paid only to a subscriber who paid for it, or for a later one, or was    *)
(* given it, or a later one, as the free sample.                            *)
THEOREM EntitledAlways == Spec => []Entitled
<1>1. Init => EntitledInv
  BY DEF Init, ProviderInit, EntitledInv, Entitled, TableEarned, FrameEarned, Addressed, Idle
<1>2. EntitledInv => Entitled
  BY DEF EntitledInv
<1>3. QED
  BY <1>1, <1>2, EntitledStep, TypeCorrect, PTL DEF Spec

-----------------------------------------------------------------------------
(* What the code of publish_observation does to its frame. *)

(* The loop goes on to s. *)
WalksTo(p, s) ==
  /\ NextRecipient(p, s) /\ ~SizeChanged(p)
  /\ pub'.pc = "send" /\ pub'.cur = s /\ pub'.pos = slot[s]
  /\ pub'.left = p.left - Cardinality(Upto(p, s))
  /\ pub'.seq = p.seq /\ pub'.size = p.size /\ pub'.any = p.any
  /\ pub'.free = Free(s) /\ pub'.held = TRUE /\ pub'.out = 0

(* Between two awaits the loop ends in an error, goes on, returns, or sends *)
(* a heartbeat.                                                             *)
LEMMA ContinueShape ==
  ASSUME ProviderTypeOK, NEW p \in Frames, Continue(p)
  PROVE  \/ pub' = Idle /\ aborted' = aborted \union {p.seq}
         \/ aborted' = aborted /\ \E s \in Subscribers : WalksTo(p, s)
         \/ aborted' = aborted /\ p.any /\ pub' = Idle
         \/ /\ aborted' = aborted /\ ~p.any
            /\ pub'.pc = "beat" /\ pub'.seq = p.seq /\ pub'.cur = Nobody
            /\ pub'.any = FALSE /\ pub'.out = 0 /\ pub'.free = FALSE /\ pub'.held = FALSE
<1>1. CASE /\ ~SizeChanged(p) /\ UNCHANGED aborted
           /\ \E s \in Subscribers : NextRecipient(p, s) /\ SendTo(p, s)
  <2>1. PICK s \in Subscribers : NextRecipient(p, s) /\ SendTo(p, s)
    BY <1>1
  <2> DEFINE l == p.left - Cardinality(Upto(p, s))
             q == slot[s]
             f == Free(s)
  <2>2. pub' = [p EXCEPT !.pc = "send", !.pos = q, !.left = l, !.cur = s,
                         !.free = f, !.held = TRUE, !.out = 0]
    BY <2>1 DEF SendTo
  <2> HIDE DEF l, q, f
  <2>3. /\ pub'.pc = "send" /\ pub'.cur = s /\ pub'.pos = q /\ pub'.left = l
        /\ pub'.seq = p.seq /\ pub'.size = p.size /\ pub'.any = p.any
        /\ pub'.free = f /\ pub'.held = TRUE /\ pub'.out = 0
    BY <2>2 DEF Frames
  <2>4. WalksTo(p, s)
    BY <1>1, <2>1, <2>3, Zenon DEF WalksTo, l, q, f
  <2>5. QED
    BY <1>1, <2>4
<1>2. CASE pub' = LoopEnds(p) /\ UNCHANGED aborted
  <2>1. CASE p.any
    BY <1>2, <2>1 DEF LoopEnds
  <2>2. CASE ~p.any
    <3>1. pub' = [Idle EXCEPT !.pc = "beat", !.seq = p.seq]
      BY <1>2, <2>2 DEF LoopEnds
    <3>2. QED
      BY <1>2, <2>2, <3>1 DEF Idle
  <2>3. QED
    BY <2>1, <2>2
<1>3. QED
  BY <1>1, <1>2 DEF Continue

(* Dropping an object of the table changes nothing of the frame but whether *)
(* the loop holds it.                                                       *)
LEMMA ReleaseShape ==
  ASSUME pub \in Frames, NEW s, ReleaseObject(s)
  PROVE  /\ pub'.pc = pub.pc /\ pub'.seq = pub.seq /\ pub'.pos = pub.pos
         /\ pub'.size = pub.size /\ pub'.left = pub.left /\ pub'.cur = pub.cur
         /\ pub'.free = pub.free /\ pub'.any = pub.any /\ pub'.out = pub.out
         /\ pub.cur = s => pub'.held = FALSE
         /\ pub.cur # s => pub'.held = pub.held
BY DEF ReleaseObject, Frames

(* What the frame of a new call looks like to the walk. *)
FirstFrame == [Idle EXCEPT !.seq = published + 1, !.size = Cardinality(Members),
                           !.left = Cardinality(Members)]

LEMMA FirstShape ==
  ASSUME ProviderTypeOK
  PROVE  /\ FirstFrame \in Frames
         /\ FirstFrame.seq = published + 1 /\ FirstFrame.size = Cardinality(Members)
         /\ FirstFrame.left = Cardinality(Members) /\ FirstFrame.pos = 0
         /\ FirstFrame.any = FALSE /\ FirstFrame.cur = Nobody
<1>1. published + 1 \in Nat /\ Cardinality(Members) \in Nat
  BY MembersFinite DEF ProviderTypeOK
<1> DEFINE n == published + 1
           c == Cardinality(Members)
<1>2. FirstFrame = [Idle EXCEPT !.seq = n, !.size = c, !.left = c]
  BY DEF FirstFrame
<1>3. n \in Nat /\ c \in Nat
  BY <1>1
<1> HIDE DEF n, c
<1>4. /\ FirstFrame \in Frames
      /\ FirstFrame.seq = n /\ FirstFrame.size = c
      /\ FirstFrame.left = c /\ FirstFrame.pos = 0
      /\ FirstFrame.any = FALSE /\ FirstFrame.cur = Nobody
  BY <1>2, <1>3 DEF Idle, Frames
<1>5. QED
  BY <1>4 DEF n, c

(* After an answered send the walk goes on with the same frame. *)
LEMMA AnyShape ==
  ASSUME pub \in Frames, NEW p, p = [pub EXCEPT !.any = TRUE]
  PROVE  /\ p \in Frames /\ p.any = TRUE
         /\ p.pc = pub.pc /\ p.seq = pub.seq /\ p.pos = pub.pos /\ p.size = pub.size
         /\ p.left = pub.left /\ p.cur = pub.cur /\ p.free = pub.free
         /\ p.held = pub.held /\ p.out = pub.out
BY DEF Frames

(* An event that reaches the relay is noted in the frame. *)
LEMMA ReachShape ==
  ASSUME pub \in Frames, NEW k \in Nat, EventReachesRelay(k)
  PROVE  /\ pub'.out = k /\ pub.out = 0 /\ pub.pc # "idle"
         /\ pub'.pc = pub.pc /\ pub'.seq = pub.seq /\ pub'.pos = pub.pos
         /\ pub'.size = pub.size /\ pub'.left = pub.left /\ pub'.cur = pub.cur
         /\ pub'.free = pub.free /\ pub'.any = pub.any /\ pub'.held = pub.held
BY DEF EventReachesRelay, Frames

(* The empty frame. *)
LEMMA IdleShape ==
  /\ Idle.pc = "idle" /\ Idle.seq = 0 /\ Idle.cur = Nobody /\ Idle.out = 0
  /\ Idle.any = FALSE /\ Idle.free = FALSE /\ Idle.held = FALSE
BY DEF Idle

(* A step in which the provider does nothing and nothing is sent. *)
Elsewhere ==
  /\ UNCHANGED <<providerVars, sent, resends>>
  /\ faults' \in {faults, faults + 1}

(* The steps of a paid stream, seen from the provider. *)
LEMMA StepKinds ==
  ASSUME TypeOK, [Next]_vars
  PROVE  \/ Elsewhere
         \/ \E s \in Subscribers : \E k \in DOMAIN made[s] : Handle(s, k)
         \/ Publish \/ Transmit \/ Return \/ Raise \/ ProviderRestarts
         \/ \E s \in Subscribers, n \in 1 .. published : Resend(s, n)
<1>1. ASSUME NEW s \in Subscribers, SubscriberNext(s)
      PROVE  Elsewhere
  BY <1>1 DEF SubscriberNext, Subscribe, Unsubscribe, Forget, AutoPay, AutoPayFails,
     SubscriberReconnects, Elsewhere
<1>2. ASSUME NEW k \in transit, Receive(k)
      PROVE  Elsewhere
  BY <1>2 DEF Receive, Elsewhere
<1>3. ASSUME NEW e \in inbox, Handle(e[1], e[2])
      PROVE  e[1] \in Subscribers /\ e[2] \in DOMAIN made[e[1]]
  BY <1>3 DEF TypeOK, StreamTypeOK
<1>4. CASE ProviderReconnects
  BY <1>4 DEF ProviderReconnects, Elsewhere
<1>5. CASE UNCHANGED vars
  BY <1>5 DEF vars, streamVars, Elsewhere
<1>6. QED
  BY <1>1, <1>2, <1>3, <1>4, <1>5 DEF Next, Rest

-----------------------------------------------------------------------------
(* How far the stream has got. *)

(* The running call publishes the latest observation, the relay has what it *)
(* says it has, and without resends the log is in the order of publication. *)
Sequenced ==
  /\ pub.pc = "idle" => pub.seq = 0
  /\ pub.pc # "idle" => pub.seq = published
  /\ pub.pc = "beat" => pub.cur = Nobody
  /\ pub.pc # "idle" /\ pub.out # 0 =>
       /\ pub.out \in DOMAIN sent
       /\ sent[pub.out].seq = pub.seq
       /\ sent[pub.out].to = pub.cur
  /\ \A k \in DOMAIN sent : sent[k].seq <= published
  /\ resends = 0 => \A j, k \in DOMAIN sent : j <= k => sent[j].seq <= sent[k].seq

(* An event with the sequence number n is on the relay. *)
Out(n) == \E k \in DOMAIN sent : sent[k].seq = n

(* While nothing fails, every call that returned has left an event, and so *)
(* has the running one when it says so.                                    *)
Fresh ==
  faults = 0 =>
    /\ pub.any => Out(pub.seq)
    /\ \A n \in 1 .. published : (n \notin aborted /\ pub.seq # n) => Out(n)

(* The numbers in a typed state. *)
LEMMA StreamNumbers ==
  ASSUME TypeOK
  PROVE  /\ published \in Nat /\ faults \in Nat /\ resends \in Nat /\ entries \in Nat
         /\ pub \in Frames /\ pub.seq \in Nat /\ pub.out \in Nat
         /\ pub.pos \in Nat /\ pub.size \in Nat /\ pub.left \in Nat
         /\ sent \in Seq(Deliveries) /\ Len(sent) \in Nat /\ DOMAIN sent = 1 .. Len(sent)
         /\ \A k \in DOMAIN sent : sent[k].seq \in Nat
         /\ \A s \in Subscribers : slot[s] \in Nat
<1>1. /\ published \in Nat /\ faults \in Nat /\ resends \in Nat /\ entries \in Nat
      /\ pub \in Frames /\ \A s \in Subscribers : slot[s] \in Nat
      /\ sent \in Seq(Deliveries)
  BY DEF TypeOK, ProviderTypeOK, StreamTypeOK
<1>2. Len(sent) \in Nat /\ DOMAIN sent = 1 .. Len(sent)
  BY <1>1
<1>3. \A k \in DOMAIN sent : sent[k] \in Deliveries
  BY <1>1
<1>4. \A k \in DOMAIN sent : sent[k].seq \in Nat
  BY <1>3 DEF Deliveries
<1>5. QED
  BY <1>1, <1>2, <1>4 DEF Frames

LEMMA SequencedStep ==
  ASSUME TypeOK, Sequenced, [Next]_vars
  PROVE  Sequenced'
<1> USE DEF Sequenced
<1>0. /\ published \in Nat /\ faults \in Nat /\ resends \in Nat
      /\ pub \in Frames /\ pub.seq \in Nat /\ pub.out \in Nat
      /\ Len(sent) \in Nat /\ DOMAIN sent = 1 .. Len(sent)
      /\ \A k \in DOMAIN sent : sent[k].seq \in Nat
      /\ ProviderTypeOK
  BY StreamNumbers DEF TypeOK
<1>1. CASE Elsewhere
  BY <1>1 DEF Elsewhere, providerVars
<1>2. ASSUME NEW s \in Subscribers, NEW k \in DOMAIN made[s], Handle(s, k)
      PROVE  Sequenced'
  <2>1. /\ UNCHANGED <<published, sent, resends>>
        /\ pub'.pc = pub.pc /\ pub'.seq = pub.seq /\ pub'.cur = pub.cur /\ pub'.out = pub.out
    BY <1>0, <1>2, ReleaseShape DEF Handle, RecordSubscription, DropSubscription, RecordPayment
  <2>2. QED
    BY <2>1
<1>3. ASSUME UNCHANGED <<sent, resends>>, pub' = Idle, published' = published
      PROVE  Sequenced'
  BY <1>3, IdleShape
<1>4. ASSUME NEW p \in Frames, Continue(p), p.seq = published',
             published' \in {published, published + 1}, UNCHANGED <<sent, resends>>
      PROVE  Sequenced'
  <2>1. \/ pub' = Idle
        \/ pub'.pc = "send" /\ pub'.seq = p.seq /\ pub'.out = 0
        \/ pub'.pc = "beat" /\ pub'.seq = p.seq /\ pub'.cur = Nobody /\ pub'.out = 0
    BY <1>0, <1>4, ContinueShape DEF WalksTo
  <2>2. \A k \in DOMAIN sent : sent[k].seq <= published'
    BY <1>0, <1>4
  <2>3. QED
    BY <1>4, <2>1, <2>2, IdleShape
<1>5. CASE Publish
  <2>1. /\ Continue(FirstFrame) /\ published' = published + 1 /\ UNCHANGED <<sent, resends>>
    BY <1>5 DEF Publish, PublishObservation, streamVars, FirstFrame
  <2>2. QED
    BY <1>0, <1>4, <2>1, FirstShape
<1>6. CASE Transmit
  <2>1. /\ EventReachesRelay(Len(sent) + 1) /\ sent' = Append(sent, Outgoing)
        /\ UNCHANGED <<published, resends>>
    BY <1>6 DEF Transmit, EventReachesRelay
  <2>2. /\ pub'.out = Len(sent) + 1 /\ pub.pc # "idle"
        /\ pub'.pc = pub.pc /\ pub'.seq = pub.seq /\ pub'.cur = pub.cur
    BY <1>0, <2>1, ReachShape
  <2>3. /\ DOMAIN sent' = 1 .. Len(sent) + 1 /\ Len(sent') = Len(sent) + 1
        /\ sent'[Len(sent) + 1] = Outgoing
        /\ \A k \in DOMAIN sent : sent'[k] = sent[k]
    BY <1>0, <2>1
  <2>4. Outgoing.seq = pub.seq /\ Outgoing.to = pub.cur
    BY DEF Outgoing
  <2>5. \A k \in DOMAIN sent' : k \in DOMAIN sent \/ k = Len(sent) + 1
    BY <1>0, <2>3
  <2>6. \A k \in DOMAIN sent' : sent'[k].seq <= published /\ (k = Len(sent) + 1 => sent'[k].seq = published)
    BY <2>2, <1>0, <2>3, <2>4, <2>5
  <2>7. ASSUME resends = 0, NEW j \in DOMAIN sent', NEW k \in DOMAIN sent', j <= k
        PROVE  sent'[j].seq <= sent'[k].seq
    BY SMTT(60), <1>0, <2>3, <2>5, <2>6, <2>7
  <2>8. QED
    BY <1>0, <2>1, <2>2, <2>3, <2>4, <2>6, <2>7
<1>7. CASE Return
  <2>1. CASE SendReturns
    <3> DEFINE p == [pub EXCEPT !.any = TRUE]
    <3>1. Continue(p) /\ published' = published /\ UNCHANGED <<sent, resends>> /\ pub.pc = "send"
      BY <1>7, <2>1 DEF Return, SendReturns, streamVars
    <3>2. p \in Frames /\ p.seq = pub.seq
      BY <1>0, AnyShape
    <3> HIDE DEF p
    <3>3. QED
      BY <1>0, <1>4, <3>1, <3>2
  <2>2. CASE HeartbeatEnds
    BY <1>3, <1>7, <2>2 DEF Return, HeartbeatEnds, streamVars
  <2>3. QED
    BY <1>7, <2>1, <2>2 DEF Return
<1>8. CASE Raise
  <2>1. CASE SendRaises
    BY <1>0, <1>4, <1>8, <2>1 DEF Raise, SendRaises
  <2>2. CASE HeartbeatRaises
    BY <1>3, <1>8, <2>2 DEF Raise, HeartbeatRaises
  <2>3. QED
    BY <1>8, <2>1, <2>2 DEF Raise
<1>9. CASE ProviderRestarts
  BY <1>3, <1>9 DEF ProviderRestarts, ProviderRestart
<1>10. ASSUME NEW s \in Subscribers, NEW n \in 1 .. published, Resend(s, n)
       PROVE  Sequenced'
  <2> DEFINE d == [to |-> s, seq |-> n, kind |-> IF Free(s) THEN "gift" ELSE "paid"]
  <2>1. /\ sent' = Append(sent, d) /\ UNCHANGED <<published, pub>> /\ resends' # 0
    BY <1>0, <1>10 DEF Resend, providerVars
  <2>2. d.seq = n
    OBVIOUS
  <2> HIDE DEF d
  <2>3. /\ DOMAIN sent' = 1 .. Len(sent) + 1
        /\ sent'[Len(sent) + 1] = d
        /\ \A k \in DOMAIN sent : k \in DOMAIN sent' /\ sent'[k] = sent[k]
    BY <1>0, <2>1
  <2>4. \A k \in DOMAIN sent' : sent'[k].seq <= published
    BY <1>0, <2>2, <2>3
  <2>5. QED
    BY <2>1, <2>3, <2>4
<1>11. QED
  BY <1>1, <1>2, <1>5, <1>6, <1>7, <1>8, <1>9, <1>10, StepKinds

(* No step takes an event off the relay, or ends a call without one. *)
LEMMA FreshStep ==
  ASSUME TypeOK, Sequenced, Fresh, [Next]_vars
  PROVE  Fresh'
<1> SUFFICES ASSUME faults' = 0
             PROVE  Fresh'
  BY DEF Fresh
<1> USE DEF Fresh, Out
<1>0. /\ published \in Nat /\ faults \in Nat /\ pub \in Frames /\ pub.out \in Nat
      /\ Len(sent) \in Nat /\ DOMAIN sent = 1 .. Len(sent)
      /\ pub.pc = "idle" => pub.seq = 0
      /\ pub.pc # "idle" => pub.seq = published
      /\ pub.pc # "idle" /\ pub.out # 0 => Out(pub.seq)
      /\ ProviderTypeOK
  BY StreamNumbers DEF TypeOK, Sequenced
<1>1. CASE Elsewhere
  BY <1>0, <1>1 DEF Elsewhere, providerVars
<1>2. ASSUME NEW s \in Subscribers, NEW k \in DOMAIN made[s], Handle(s, k)
      PROVE  Fresh'
  <2>1. /\ UNCHANGED <<published, aborted, sent, faults>>
        /\ pub'.seq = pub.seq /\ pub'.any = pub.any
    BY <1>0, <1>2, ReleaseShape DEF Handle, RecordSubscription, DropSubscription, RecordPayment
  <2>2. QED
    BY <2>1
<1>3. ASSUME NEW p \in Frames, Continue(p), p.seq = published', p.any => Out(p.seq),
             published' \in {published, published + 1}, UNCHANGED <<sent, faults>>,
             \A n \in 1 .. published : n # p.seq /\ n \notin aborted => Out(n)
      PROVE  Fresh'
  <2>1. \/ pub' = Idle /\ aborted' = aborted \union {p.seq}
        \/ pub'.seq = p.seq /\ pub'.any = p.any /\ aborted' = aborted
        \/ pub' = Idle /\ Out(p.seq) /\ aborted' = aborted
        \/ pub'.seq = p.seq /\ pub'.any = FALSE /\ aborted' = aborted
    BY <1>0, <1>3, ContinueShape DEF WalksTo
  <2>2. \A n \in 1 .. published' : n # p.seq => n \in 1 .. published
    BY <1>0, <1>3
  <2>3. \A n : Out(n)' <=> Out(n)
    BY <1>3
  <2>4. CASE pub' = Idle
    <3>1. pub'.any = FALSE
      BY <2>4, IdleShape
    <3>2. \A n \in 1 .. published' : n \notin aborted' => Out(n)
      BY <1>3, <2>1, <2>2, <2>4, IdleShape
    <3>3. QED
      BY <2>3, <3>1, <3>2
  <2>5. CASE pub' # Idle
    <3>1. pub'.seq = p.seq /\ aborted' = aborted /\ (pub'.any => Out(p.seq))
      BY <1>3, <2>1, <2>5
    <3>2. QED
      BY <1>3, <2>2, <2>3, <3>1
  <2>6. QED
    BY <2>4, <2>5
<1>4. CASE Publish
  <2>1. /\ Continue(FirstFrame) /\ published' = published + 1 /\ UNCHANGED <<sent, faults>>
        /\ pub.pc = "idle"
    BY <1>4 DEF Publish, PublishObservation, streamVars, FirstFrame
  <2>2. FirstFrame \in Frames /\ FirstFrame.seq = published' /\ ~FirstFrame.any
    BY <1>0, <2>1, FirstShape
  <2>3. \A n \in 1 .. published : n \notin aborted => Out(n)
    BY <1>0, <2>1
  <2>4. QED
    BY <1>3, <2>1, <2>2, <2>3
<1>5. CASE Transmit
  <2>1. /\ EventReachesRelay(Len(sent) + 1) /\ sent' = Append(sent, Outgoing)
        /\ UNCHANGED <<published, aborted, faults>>
    BY <1>5 DEF Transmit, EventReachesRelay
  <2>2. pub'.seq = pub.seq /\ pub'.any = pub.any
    BY <1>0, <2>1, ReachShape
  <2>3. \A k \in DOMAIN sent : k \in DOMAIN sent' /\ sent'[k] = sent[k]
    BY <1>0, <2>1
  <2>4. \A n : Out(n) => Out(n)'
    BY <2>3
  <2>5. QED
    BY <2>1, <2>2, <2>4
<1>6. CASE Return
  <2>1. CASE SendReturns
    <3> DEFINE p == [pub EXCEPT !.any = TRUE]
    <3>1. /\ Continue(p) /\ published' = published /\ UNCHANGED <<sent, faults>>
          /\ pub.pc = "send" /\ pub.out # 0
      BY <1>6, <2>1 DEF Return, SendReturns, streamVars
    <3>2. p \in Frames /\ p.seq = pub.seq
      BY <1>0, AnyShape
    <3> HIDE DEF p
    <3>3. QED
      BY <1>0, <1>3, <3>1, <3>2
  <2>2. CASE HeartbeatEnds
    <3>1. /\ pub' = Idle /\ UNCHANGED <<published, aborted, sent, faults>>
          /\ pub.pc = "beat" /\ pub.out # 0
      BY <1>6, <2>2 DEF Return, HeartbeatEnds, streamVars
    <3>2. Out(pub.seq)
      BY <1>0, <3>1
    <3>3. QED
      BY <3>1, <3>2, IdleShape
  <2>3. QED
    BY <1>6, <2>1, <2>2 DEF Return
<1>7. CASE Raise \/ ProviderRestarts
  BY <1>0, <1>7 DEF Raise, ProviderRestarts
<1>8. ASSUME NEW s \in Subscribers, NEW n \in 1 .. published, Resend(s, n)
      PROVE  Fresh'
  <2> DEFINE d == [to |-> s, seq |-> n, kind |-> IF Free(s) THEN "gift" ELSE "paid"]
  <2>1. sent' = Append(sent, d) /\ UNCHANGED <<published, aborted, pub, faults>>
    BY <1>8 DEF Resend, providerVars
  <2> HIDE DEF d
  <2>2. \A k \in DOMAIN sent : k \in DOMAIN sent' /\ sent'[k] = sent[k]
    BY <1>0, <2>1
  <2>3. \A m : Out(m) => Out(m)'
    BY <2>2
  <2>4. QED
    BY SMTT(60), <2>1, <2>3
<1>9. QED
  BY <1>1, <1>2, <1>4, <1>5, <1>6, <1>7, <1>8, StepKinds

(* The stream starts with nothing published. *)
LEMMA SequencedInit == Init => Sequenced /\ Fresh
BY IdleShape DEF Init, ProviderInit, Sequenced, Fresh

(* A monitor or a returning subscriber finds on the relay how far the      *)
(* stream has got: while nothing fails every publish_observation that      *)
(* returned left an event with its sequence number, paid for or not, and   *)
(* without resends the newest event is the newest observation.             *)
THEOREM RelayIsFreshAlways == Spec => []RelayIsFresh
<1>1. TypeOK /\ Sequenced /\ Fresh => RelayIsFresh
  <2> SUFFICES ASSUME TypeOK, Sequenced, Fresh
               PROVE  RelayIsFresh
    OBVIOUS
  <2>1. StaysFresh
    BY DEF Fresh, Out, StaysFresh
  <2>2. LatestIsNewest
    BY StreamNumbers DEF Sequenced, LatestIsNewest
  <2>3. QED
    BY <2>1, <2>2 DEF RelayIsFresh
<1>2. Init => TypeOK
  BY IdleType DEF Init, ProviderInit, TypeOK, ProviderTypeOK, StreamTypeOK
<1>3. QED
  BY <1>1, <1>2, TypeStep, SequencedInit, SequencedStep, FreshStep, PTL DEF Spec

-----------------------------------------------------------------------------
(* One event for each subscriber and call. *)

(* Sets of subscribers are finite. *)
LEMMA Sized ==
  ASSUME NEW S \in SUBSET Subscribers
  PROVE  /\ IsFiniteSet(S) /\ Cardinality(S) \in Nat
         /\ \A T \in SUBSET S : Cardinality(T) <= Cardinality(S)
BY FS_Subset, FS_CardinalityType

LEMMA Joined ==
  ASSUME NEW S \in SUBSET Subscribers, NEW T \in SUBSET Subscribers, S \cap T = {}
  PROVE  Cardinality(S \union T) = Cardinality(S) + Cardinality(T)
<1>1. Cardinality(S \union T) = Cardinality(S) + Cardinality(T) - Cardinality({})
  BY Sized, FS_Union
<1>2. QED
  BY <1>1, Sized, FS_EmptySet

LEMMA Without ==
  ASSUME NEW S \in SUBSET Subscribers, NEW s \in S
  PROVE  Cardinality(S) = Cardinality(S \ {s}) + 1
<1>1. Cardinality(S \ {s}) = Cardinality(S) - 1
  BY Sized, FS_RemoveElement
<1>2. QED
  BY <1>1, Sized

(* An event of the observation n is addressed to s. *)
SentIn(n, s) == \E k \in DOMAIN sent : sent[k].to = s /\ sent[k].seq = n

(* The members whose entries the iterator has passed. *)
Behind(p) == {s \in Members : slot[s] <= p.pos}

(* Where s can be after the loop sent to it, when nobody else ever left:   *)
(* everybody who was in the table then still is, and if s is ahead of the  *)
(* iterator again while the table has its old size, s is the last.         *)
Back(p, s) ==
  /\ p.size <= Cardinality(Members \ {s}) + 1
  /\ p.size = Cardinality(Members \ {s}) + 1 /\ slot[s] > p.pos =>
       \A t \in Members : slot[t] <= slot[s]

(* The loop has sent to s in this call, or is sending. *)
Visited(p, s) == p.cur = s \/ SentIn(p.seq, s)

(* The iterator has yielded p.size - p.left entries: those behind it, and  *)
(* that of s if the loop sent to it, wherever s is now.                    *)
Walk(p) ==
  /\ p.pos <= entries
  /\ Cardinality(Behind(p)) + p.left <= p.size
  /\ \A s \in Subscribers : Visited(p, s) =>
       /\ Cardinality(Behind(p) \ {s}) + 1 + p.left <= p.size
       /\ s \notin Leavers => slot[s] \in 1 .. p.pos
       /\ Leavers \subseteq {s} => Back(p, s)

(* s never left, or nobody else did. *)
Alone(s) == s \notin Leavers \/ Leavers \subseteq {s}

WalkInv ==
  /\ \A s \in Subscribers : slot[s] <= entries
  /\ resends = 0 =>
       /\ pub.pc = "send" => Walk(pub) /\ pub.cur \in Subscribers
       /\ pub.pc = "send" /\ pub.out = 0 /\ Alone(pub.cur) => ~SentIn(pub.seq, pub.cur)
       /\ \A s \in Subscribers : Alone(s) => ~SentTwice(s)

(* The loop goes on to a subscriber that it has not sent to.               *)
LEMMA WalkOn ==
  ASSUME TypeOK, NEW p \in Frames, Walk(p), NEW s \in Subscribers,
         NEW q, q.pos = slot[s], q.left = p.left - Cardinality(Upto(p, s)),
         q.size = p.size, q.seq = p.seq, q.cur = s,
         NextRecipient(p, s), ~SizeChanged(p),
         \A t \in Subscribers : slot[t] <= entries
  PROVE  Walk(q) /\ (Alone(s) => ~SentIn(p.seq, s))
<1> DEFINE U == Upto(p, s)
           B == Behind(p)
           A == Ahead(p)
<1>1. /\ slot \in [Subscribers -> Nat] /\ p.pos \in Nat /\ p.left \in Nat /\ p.size \in Nat
      /\ Members \subseteq Subscribers
  BY DEF TypeOK, ProviderTypeOK, Frames, Members
<1>2. /\ s \in U /\ s \in A /\ s \in Members /\ slot[s] > p.pos /\ U \subseteq A
      /\ Cardinality(U) <= p.left
  BY <1>1 DEF NextRecipient, Upto, Ahead
<1>3. /\ B \subseteq Subscribers /\ U \subseteq Subscribers /\ A \subseteq Subscribers
      /\ B \cap U = {} /\ B \cap A = {} /\ Members = B \union A
      /\ Behind(q) = B \union U
  BY <1>1, <1>2 DEF Behind, Upto, Ahead
<1>4. /\ Cardinality(Behind(q)) = Cardinality(B) + Cardinality(U)
      /\ Cardinality(Members) = Cardinality(B) + Cardinality(A)
      /\ p.size = Cardinality(Members)
      /\ Cardinality(Members) = Cardinality(Members \ {s}) + 1
      /\ Cardinality(B) \in Nat /\ Cardinality(U) \in Nat /\ Cardinality(A) \in Nat
      /\ Cardinality(Members \ {s}) \in Nat
  BY <1>1, <1>2, <1>3, Joined, Without, Sized DEF SizeChanged
<1>5. Cardinality(B) + p.left <= p.size
  BY DEF Walk
<1> HIDE DEF U, B, A
<1>6. Cardinality(Behind(q)) + q.left <= q.size
  BY <1>1, <1>4, <1>5 DEF U
<1>7. q.pos <= entries
  BY DEF Walk
<1>8. ASSUME NEW r \in Subscribers, Visited(q, r)
      PROVE  /\ Cardinality(Behind(q) \ {r}) + 1 + q.left <= q.size
             /\ r \notin Leavers => slot[r] \in 1 .. q.pos
             /\ Leavers \subseteq {r} => Back(q, r)
  <2>1. CASE r = s
    <3>1. Cardinality(Behind(q)) = Cardinality(Behind(q) \ {s}) + 1
      BY <1>2, <1>3, Without
    <3>2. slot[s] \in 1 .. q.pos
      BY <1>1, <1>2
    <3>3. Back(q, s)
      BY <1>1, <1>4 DEF Back
    <3>4. QED
      BY <1>6, <2>1, <3>1, <3>2, <3>3
  <2>2. CASE r # s
    <3>1. Visited(p, r)
      BY <1>8, <2>2 DEF Visited
    <3>2. /\ Cardinality(B \ {r}) + 1 + p.left <= p.size
          /\ r \notin Leavers => slot[r] \in 1 .. p.pos
          /\ Leavers \subseteq {r} => Back(p, r)
      BY <3>1 DEF Walk, B
    <3>3. Cardinality(Behind(q) \ {r}) = Cardinality(B \ {r}) + Cardinality(U \ {r})
      <4>1. Behind(q) \ {r} = (B \ {r}) \union (U \ {r})
        BY <1>3
      <4>2. QED
        BY <1>3, <4>1, Joined
    <3>4. Cardinality(U \ {r}) <= Cardinality(U) /\ Cardinality(U \ {r}) \in Nat /\ Cardinality(B \ {r}) \in Nat
      BY <1>3, Sized
    <3>5. Cardinality(Behind(q) \ {r}) + 1 + q.left <= q.size
      BY <1>1, <1>4, <3>2, <3>3, <3>4 DEF U
    <3>6. Back(p, r) => Back(q, r)
      BY <1>1, <1>2 DEF Back
    <3>7. QED
      BY <1>1, <1>2, <3>2, <3>5, <3>6
  <2>3. QED
    BY <2>1, <2>2
<1>9. ASSUME Alone(s), SentIn(p.seq, s)
      PROVE  FALSE
  <2>1. /\ Cardinality(B \ {s}) + 1 + p.left <= p.size
        /\ s \notin Leavers => slot[s] \in 1 .. p.pos
        /\ Leavers \subseteq {s} => Back(p, s)
    BY <1>9 DEF Visited, Walk, B
  <2>2. Leavers \subseteq {s} /\ Back(p, s)
    BY <1>1, <1>2, <1>9, <2>1 DEF Alone
  <2>3. \A t \in Members : slot[t] <= slot[s]
    BY <1>1, <1>2, <1>4, <2>2 DEF Back
  <2>4. U = A
    BY <2>3 DEF U, A, Upto, Ahead
  <2>5. B \ {s} = B
    BY <1>2, <1>3
  <2>6. QED
    BY <1>1, <1>2, <1>4, <2>1, <2>4, <2>5
<1>10. QED
  BY <1>6, <1>7, <1>8, <1>9 DEF Walk

(* A new call has sent to nobody. *)
LEMMA WalkStarts ==
  ASSUME TypeOK, Sequenced
  PROVE  Walk(FirstFrame)
<1>1. /\ slot \in [Subscribers -> Nat] /\ published \in Nat
      /\ \A k \in DOMAIN sent : sent[k].seq \in Nat /\ sent[k].seq <= published
      /\ entries \in Nat
  BY StreamNumbers DEF TypeOK, ProviderTypeOK, Sequenced
<1>2. /\ FirstFrame.seq = published + 1 /\ FirstFrame.size = Cardinality(Members)
      /\ FirstFrame.left = Cardinality(Members) /\ FirstFrame.pos = 0
      /\ FirstFrame.cur = Nobody /\ Cardinality(Members) \in Nat
  BY FirstShape, MembersFinite DEF TypeOK
<1>3. Behind(FirstFrame) = {}
  BY <1>1, <1>2 DEF Behind, Members
<1>4. \A s \in Subscribers : ~Visited(FirstFrame, s)
  BY <1>1, <1>2 DEF Visited, SentIn
<1>5. QED
  BY <1>1, <1>2, <1>3, <1>4, FS_EmptySet DEF Walk

(* Frames that differ in nothing the walk reads. *)
LEMMA WalkSame ==
  ASSUME NEW p, NEW q, Walk(p),
         q.pos = p.pos, q.left = p.left, q.size = p.size, q.seq = p.seq, q.cur = p.cur
  PROVE  Walk(q)
<1>1. Behind(q) = Behind(p)
  BY DEF Behind
<1>2. \A s \in Subscribers : (Visited(q, s) <=> Visited(p, s)) /\ (Back(q, s) <=> Back(p, s))
  BY DEF Visited, Back
<1>3. QED
  BY <1>1, <1>2 DEF Walk

(* While the table and the logs stay as they are, so does what they say.   *)
LEMMA WalkNext ==
  ASSUME UNCHANGED <<slot, entries, made, sent>>, NEW q, q = pub', Walk(q)
  PROVE  Walk(pub)'
<1>1. /\ Behind(q) = Behind(pub)' /\ Leavers' = Leavers
      /\ \A s : (Visited(q, s) <=> Visited(pub, s)') /\ (Back(q, s) <=> Back(pub, s)')
  BY DEF Behind, Members, Leavers, Visited, SentIn, Back
<1>2. QED
  BY <1>1 DEF Walk

(* Who left has left: the log keeps the announcement. *)
LEMMA LeaversGrow ==
  ASSUME LogsGrow
  PROVE  Leavers \subseteq Leavers' /\ \A s : Alone(s)' => Alone(s)
<1>1. Leavers \subseteq Leavers'
  BY DEF LogsGrow, Leavers
<1>2. QED
  BY <1>1 DEF Alone

(* The logs of the subscribers never shrink. *)
LEMMA NextGrows == TypeOK /\ Elsewhere /\ [Next]_vars => LogsGrow
<1> SUFFICES ASSUME TypeOK, Elsewhere, [Next]_vars PROVE LogsGrow
  OBVIOUS
<1>1. UNCHANGED sent
  BY DEF Elsewhere
<1>2. ASSUME NEW s \in Subscribers, SubscriberNext(s)
      PROVE  LogsGrow
  <2>1. CASE Subscribe(s)
    BY <1>1, <2>1, EmitGrows DEF Subscribe
  <2>2. CASE Unsubscribe(s)
    BY <1>1, <2>2, EmitGrows DEF Unsubscribe
  <2>3. CASE AutoPay(s)
    BY <1>1, <2>3, EmitGrows DEF AutoPay
  <2>4. CASE Forget(s) \/ AutoPayFails(s) \/ SubscriberReconnects(s)
    BY <1>1, <2>4, UnchangedGrows DEF Forget, AutoPayFails, SubscriberReconnects
  <2>5. QED
    BY <1>2, <2>1, <2>2, <2>3, <2>4 DEF SubscriberNext
<1>3. ASSUME NEW k \in transit, Receive(k)
      PROVE  UNCHANGED made
  BY <1>3 DEF Receive
<1>4. ASSUME NEW e \in inbox, Handle(e[1], e[2])
      PROVE  UNCHANGED made
  BY <1>4 DEF Handle
<1>5. CASE Publish \/ Transmit \/ Return \/ Raise \/ ProviderReconnects \/ ProviderRestarts
  BY <1>1, <1>5, UnchangedGrows
  DEF Publish, Transmit, Return, Raise, ProviderReconnects, ProviderRestarts, streamVars
<1>6. ASSUME NEW s \in Subscribers, NEW n \in 1 .. published, Resend(s, n)
      PROVE  UNCHANGED made
  BY <1>6 DEF Resend
<1>7. CASE UNCHANGED vars
  BY <1>1, <1>7, UnchangedGrows DEF vars, streamVars
<1>8. QED
  BY <1>1, <1>2, <1>3, <1>4, <1>5, <1>6, <1>7, UnchangedGrows DEF Next, Rest

(* A step of the subscribers at most makes somebody a leaver. *)
LEMMA WalkElsewhere ==
  ASSUME TypeOK, WalkInv, Elsewhere, LogsGrow
  PROVE  WalkInv'
<1>1. /\ UNCHANGED <<slot, entries, pub, sent, resends>>
      /\ Leavers \subseteq Leavers' /\ \A s : Alone(s)' => Alone(s)
  BY LeaversGrow DEF Elsewhere, providerVars
<1>2. \A s : /\ SentTwice(s)' <=> SentTwice(s)
             /\ \A n : SentIn(n, s)' <=> SentIn(n, s)
  BY <1>1 DEF SentTwice, SentIn
<1>3. Walk(pub) => Walk(pub)'
  <2>1. /\ Behind(pub)' = Behind(pub)
        /\ \A s : Back(pub, s)' <=> Back(pub, s)
        /\ \A s : Visited(pub, s)' <=> Visited(pub, s)
    BY <1>1, <1>2 DEF Behind, Members, Back, Visited
  <2>2. QED
    BY <1>1, <2>1 DEF Walk
<1>4. QED
  BY <1>1, <1>2, <1>3 DEF WalkInv

(* A handled announcement moves one entry: a new one goes to the end, and  *)
(* whoever is taken out is a leaver.                                       *)
LEMMA WalkHandle ==
  ASSUME TypeOK, WalkInv, NEW s \in Subscribers, NEW k \in DOMAIN made[s], Handle(s, k)
  PROVE  WalkInv'
<1>0. /\ slot \in [Subscribers -> Nat] /\ entries \in Nat /\ pub \in Frames
      /\ pub.pos \in Nat /\ pub.left \in Nat /\ pub.size \in Nat
      /\ Members \subseteq Subscribers
      /\ \A r \in Subscribers : slot[r] <= entries
  BY StreamNumbers DEF TypeOK, ProviderTypeOK, Members, WalkInv
<1>1. /\ UNCHANGED <<made, sent, resends>>
      /\ pub'.pc = pub.pc /\ pub'.seq = pub.seq /\ pub'.pos = pub.pos
      /\ pub'.size = pub.size /\ pub'.left = pub.left /\ pub'.cur = pub.cur
      /\ pub'.out = pub.out
  BY <1>0, ReleaseShape DEF Handle, RecordSubscription, DropSubscription, RecordPayment
<1>2. /\ Leavers' = Leavers /\ \A r : Alone(r)' <=> Alone(r)
      /\ \A r : SentTwice(r)' <=> SentTwice(r)
      /\ \A n, r : SentIn(n, r)' <=> SentIn(n, r)
      /\ \A r : Visited(pub, r)' <=> Visited(pub, r)
  BY <1>1 DEF Leavers, Alone, SentTwice, SentIn, Visited
<1>3. SUFFICES ASSUME pub.pc = "send", Walk(pub)
               PROVE  Walk(pub)' /\ \A r \in Subscribers : slot'[r] <= entries'
  <2>1. CASE pub.pc = "send" /\ Walk(pub)
    BY <1>1, <1>2, <1>3, <2>1 DEF WalkInv
  <2>2. CASE ~(pub.pc = "send" /\ Walk(pub))
    <3>1. \A r \in Subscribers : slot'[r] <= entries'
      BY <1>0 DEF Handle, RecordSubscription, DropSubscription, RecordPayment, table
    <3>2. QED
      BY <1>1, <1>2, <2>2, <3>1 DEF WalkInv
  <2>3. QED
    BY <2>1, <2>2
<1>4. CASE UNCHANGED <<slot, entries>>
  <2>1. /\ Behind(pub)' = Behind(pub)
        /\ \A r : Back(pub, r)' <=> Back(pub, r)
    BY <1>1, <1>4 DEF Behind, Members, Back
  <2>2. QED
    BY <1>0, <1>1, <1>2, <1>3, <1>4, <2>1 DEF Walk
<1>5. CASE slot[s] = 0 /\ entries' = entries + 1 /\ slot' = [slot EXCEPT ![s] = entries + 1]
  <2>1. /\ \A r \in Subscribers : slot'[r] <= entries'
        /\ slot'[s] = entries + 1 /\ \A r \in Subscribers : r # s => slot'[r] = slot[r]
        /\ Members' = Members \union {s} /\ s \notin Members
    BY <1>0, <1>5 DEF Members
  <2>2. pub.pos <= entries
    BY <1>3 DEF Walk
  <2>3. Behind(pub)' = Behind(pub)
    BY <1>0, <1>1, <2>1, <2>2 DEF Behind
  <2>4. ASSUME NEW r \in Subscribers, Back(pub, r)
        PROVE  Back(pub, r)'
    <3>1. CASE r = s
      <4>1. Members' \ {s} = Members \ {s}
        BY <2>1
      <4>2. \A t \in Members' : slot'[t] <= slot'[s]
        BY <1>0, <1>5, <2>1
      <4>3. QED
        BY <1>1, <2>4, <3>1, <4>1, <4>2 DEF Back
    <3>2. CASE r # s
      <4>1. Members' \ {r} = (Members \ {r}) \union {s} /\ s \notin Members \ {r}
        BY <2>1, <3>2
      <4>2. Cardinality(Members' \ {r}) = Cardinality(Members \ {r}) + 1
        BY <1>0, <4>1, Sized, FS_AddElement
      <4>3. Cardinality(Members \ {r}) \in Nat
        BY <1>0, Sized
      <4>4. QED
        BY <1>0, <1>1, <2>4, <4>2, <4>3 DEF Back
    <3>3. QED
      BY <3>1, <3>2
  <2>5. \A r \in Subscribers : slot[r] \in 1 .. pub.pos => slot'[r] \in 1 .. pub.pos
    BY <1>5, <2>1
  <2>6. pub.pos <= entries'
    BY <1>0, <1>5, <2>2
  <2>7. QED
    BY <1>1, <1>2, <1>3, <2>1, <2>3, <2>4, <2>5, <2>6 DEF Walk
<1>6. CASE made[s][k].kind = "unsub" /\ entries' = entries /\ slot' = [slot EXCEPT ![s] = 0]
  <2>1. s \in Leavers
    BY <1>6 DEF Leavers
  <2>2. /\ slot'[s] = 0 /\ \A r \in Subscribers : r # s => slot'[r] = slot[r]
        /\ Members' = Members \ {s}
    BY <1>0, <1>6 DEF Members
  <2>3. \A r \in Subscribers : slot'[r] <= entries'
    BY <1>0, <1>6, <2>2
  <2>4. Behind(pub)' = Behind(pub) \ {s}
    BY <1>0, <1>1, <2>2 DEF Behind
  <2>5. Behind(pub) \subseteq Subscribers
    BY <1>0 DEF Behind
  <2>6. /\ Cardinality(Behind(pub)') <= Cardinality(Behind(pub))
        /\ Cardinality(Behind(pub)') \in Nat /\ Cardinality(Behind(pub)) \in Nat
    BY <2>4, <2>5, Sized
  <2>7. \A r \in Subscribers :
           /\ Cardinality(Behind(pub)' \ {r}) <= Cardinality(Behind(pub) \ {r})
           /\ Cardinality(Behind(pub)' \ {r}) \in Nat /\ Cardinality(Behind(pub) \ {r}) \in Nat
    <3>1. TAKE r \in Subscribers
    <3>2. Behind(pub)' \ {r} \subseteq Behind(pub) \ {r}
      BY <2>4
    <3>3. QED
      BY <2>5, <3>2, Sized
  <2>8. Back(pub, s) => Back(pub, s)'
    <3>1. Members' \ {s} = Members \ {s}
      BY <2>2
    <3>2. ~(slot'[s] > pub'.pos)
      BY <1>0, <1>1, <2>2
    <3>3. QED
      BY <1>1, <3>1, <3>2 DEF Back
  <2>9. ASSUME NEW r \in Subscribers, Visited(pub, r)'
        PROVE  /\ Cardinality(Behind(pub)' \ {r}) + 1 + pub'.left <= pub'.size
               /\ r \notin Leavers' => slot'[r] \in 1 .. pub'.pos
               /\ Leavers' \subseteq {r} => Back(pub, r)'
    <3>1. /\ Cardinality(Behind(pub) \ {r}) + 1 + pub.left <= pub.size
          /\ r \notin Leavers => slot[r] \in 1 .. pub.pos
          /\ Leavers \subseteq {r} => Back(pub, r)
      BY <1>2, <1>3, <2>9 DEF Walk
    <3>2. Cardinality(Behind(pub)' \ {r}) + 1 + pub'.left <= pub'.size
      <4> DEFINE a == Cardinality(Behind(pub)' \ {r})
                 b == Cardinality(Behind(pub) \ {r})
      <4>1. a <= b /\ a \in Nat /\ b \in Nat /\ b + 1 + pub.left <= pub.size
        BY <2>7, <3>1
      <4> HIDE DEF a, b
      <4>2. a + 1 + pub'.left <= pub'.size
        BY <1>0, <1>1, <4>1
      <4>3. QED
        BY <4>2 DEF a
    <3>3. r \notin Leavers' => slot'[r] \in 1 .. pub'.pos
      BY <1>1, <1>2, <2>1, <2>2, <3>1
    <3>4. Leavers' \subseteq {r} => r = s
      BY <1>2, <2>1
    <3>5. Leavers' \subseteq {r} => Back(pub, r)'
      BY <1>2, <2>8, <3>1, <3>4
    <3>6. QED
      BY <3>2, <3>3, <3>5
  <2>10. /\ pub'.pos <= entries'
         /\ Cardinality(Behind(pub)') + pub'.left <= pub'.size
    BY <1>0, <1>1, <1>3, <1>6, <2>6 DEF Walk
  <2>11. QED
    BY <2>3, <2>9, <2>10 DEF Walk
<1>7. QED
  BY <1>4, <1>5, <1>6 DEF Handle, RecordSubscription, DropSubscription, RecordPayment, table

(* The loop never sends to anybody again whom it has sent to, unless that  *)
(* one left and somebody else did too.                                     *)
LEMMA WalkStep ==
  ASSUME TypeOK, Sequenced, WalkInv, [Next]_vars
  PROVE  WalkInv'
<1>0. /\ pub \in Frames /\ Len(sent) \in Nat /\ DOMAIN sent = 1 .. Len(sent)
      /\ entries \in Nat /\ resends \in Nat /\ published \in Nat
      /\ \A r \in Subscribers : slot[r] \in Nat
      /\ \A r \in Subscribers : slot[r] <= entries
      /\ ProviderTypeOK
  BY StreamNumbers DEF WalkInv, TypeOK
<1>1. CASE Elsewhere
  BY <1>1, NextGrows, WalkElsewhere
<1>2. ASSUME NEW s \in Subscribers, NEW k \in DOMAIN made[s], Handle(s, k)
      PROVE  WalkInv'
  BY <1>2, WalkHandle
<1>3. ASSUME UNCHANGED <<made, sent, resends>>, pub'.pc # "send",
             \A r \in Subscribers : slot'[r] <= entries'
      PROVE  WalkInv'
  BY <1>3 DEF WalkInv, SentTwice, Leavers, Alone
<1>4. ASSUME NEW p \in Frames, Continue(p), resends = 0 => Walk(p),
             UNCHANGED <<slot, entries, made, sent, resends>>
      PROVE  WalkInv'
  <2>1. pub' = Idle \/ (\E s \in Subscribers : WalksTo(p, s)) \/ pub'.pc = "beat"
    BY <1>0, <1>4, ContinueShape
  <2>2. CASE pub'.pc # "send"
    BY <1>0, <1>3, <1>4, <2>2
  <2>3. ASSUME NEW s \in Subscribers, WalksTo(p, s)
        PROVE  WalkInv'
    <3>1. PICK q : q = pub'
      OBVIOUS
    <3>2. /\ q.pos = slot[s] /\ q.left = p.left - Cardinality(Upto(p, s))
          /\ q.size = p.size /\ q.seq = p.seq /\ q.cur = s /\ q.pc = "send"
          /\ NextRecipient(p, s) /\ ~SizeChanged(p)
      BY <2>3, <3>1 DEF WalksTo
    <3>3. resends = 0 => Walk(q) /\ (Alone(s) => ~SentIn(p.seq, s))
      BY <1>0, <1>4, <3>2, WalkOn
    <3>4. resends = 0 => Walk(pub)'
      BY <1>4, <3>1, <3>3, WalkNext
    <3>5. /\ \A n, r : SentIn(n, r)' <=> SentIn(n, r)
          /\ \A r : Alone(r)' <=> Alone(r)
          /\ \A r : SentTwice(r)' <=> SentTwice(r)
      BY <1>4 DEF SentIn, Alone, Leavers, SentTwice
    <3>6. QED
      BY <1>0, <1>4, <3>1, <3>2, <3>3, <3>4, <3>5 DEF WalkInv
  <2>4. QED
    BY <2>1, <2>2, <2>3, IdleShape
<1>5. CASE Publish
  <2>1. Continue(FirstFrame) /\ UNCHANGED <<slot, entries, made, sent, resends>>
    BY <1>5 DEF Publish, PublishObservation, streamVars, table, FirstFrame
  <2>2. QED
    BY <1>0, <1>4, <2>1, FirstShape, WalkStarts
<1>6. CASE Transmit
  <2>1. /\ EventReachesRelay(Len(sent) + 1) /\ sent' = Append(sent, Outgoing)
        /\ UNCHANGED <<slot, entries, made, resends>>
    BY <1>6 DEF Transmit, EventReachesRelay, table
  <2>2. /\ pub'.out = Len(sent) + 1 /\ pub.pc # "idle" /\ pub.out = 0
        /\ pub'.pc = pub.pc /\ pub'.seq = pub.seq /\ pub'.cur = pub.cur
        /\ pub'.pos = pub.pos /\ pub'.size = pub.size /\ pub'.left = pub.left
    BY <1>0, <2>1, ReachShape
  <2>3. /\ DOMAIN sent' = DOMAIN sent \union {Len(sent) + 1}
        /\ sent'[Len(sent) + 1] = Outgoing
        /\ \A k \in DOMAIN sent : sent'[k] = sent[k] /\ k # Len(sent) + 1
    BY <1>0, <2>1
  <2>4. Outgoing.seq = pub.seq /\ Outgoing.to = pub.cur
    BY DEF Outgoing
  <2>5. \A n, r : SentIn(n, r)' <=> SentIn(n, r) \/ (n = pub.seq /\ r = pub.cur)
    BY <2>3, <2>4 DEF SentIn
  <2>6. \A r : Alone(r)' <=> Alone(r)
    BY <2>1 DEF Alone, Leavers
  <2>7. Walk(pub) => Walk(pub)'
    <3>1. /\ Behind(pub)' = Behind(pub) /\ Leavers' = Leavers
          /\ \A r : Back(pub, r)' <=> Back(pub, r)
      BY <2>1, <2>2 DEF Behind, Members, Back, Leavers
    <3>2. \A r : Visited(pub, r)' <=> Visited(pub, r)
      BY <2>2, <2>5 DEF Visited
    <3>3. QED
      BY <2>1, <2>2, <3>1, <3>2 DEF Walk
  <2>8. ASSUME NEW r \in Subscribers, SentTwice(r)', resends = 0, Alone(r)
        PROVE  FALSE
    <3>1. ~SentTwice(r)
      BY <2>8 DEF WalkInv
    <3>2. PICK i \in DOMAIN sent', j \in DOMAIN sent' :
            i < j /\ sent'[i].to = r /\ sent'[j].to = r /\ sent'[i].seq = sent'[j].seq
      BY <2>8 DEF SentTwice
    <3>3. i \in DOMAIN sent /\ j = Len(sent) + 1
      BY <1>0, <2>3, <3>1, <3>2 DEF SentTwice
    <3>4. r = pub.cur /\ SentIn(pub.seq, r)
      BY <2>3, <2>4, <3>2, <3>3 DEF SentIn
    <3>5. pub.pc = "send"
      BY <2>2, <1>0, <3>4, ProviderAssumption DEF Frames, Sequenced
    <3>6. QED
      BY <2>2, <2>8, <3>4, <3>5 DEF WalkInv
  <2>9. QED
    BY <1>0, <2>1, <2>2, <2>6, <2>7, <2>8 DEF WalkInv
<1>7. CASE Return
  <2>1. CASE SendReturns
    <3> DEFINE p == [pub EXCEPT !.any = TRUE]
    <3>1. Continue(p) /\ UNCHANGED <<slot, entries, made, sent, resends>> /\ pub.pc = "send"
      BY <1>7, <2>1 DEF Return, SendReturns, streamVars, table
    <3>2. /\ p \in Frames /\ p.pos = pub.pos /\ p.left = pub.left /\ p.size = pub.size
          /\ p.seq = pub.seq /\ p.cur = pub.cur
      BY <1>0, AnyShape
    <3> HIDE DEF p
    <3>3. resends = 0 => Walk(p)
      BY <3>1, <3>2, WalkSame DEF WalkInv
    <3>4. QED
      BY <1>4, <3>1, <3>2, <3>3
  <2>2. CASE HeartbeatEnds
    BY <1>0, <1>3, <1>7, <2>2, IdleShape DEF Return, HeartbeatEnds, streamVars, table
  <2>3. QED
    BY <1>7, <2>1, <2>2 DEF Return
<1>8. CASE Raise
  <2>1. CASE SendRaises
    <3>1. /\ Continue(pub) /\ UNCHANGED <<slot, entries, made, sent, resends>>
          /\ resends = 0 => Walk(pub)
      BY <1>8, <2>1 DEF Raise, SendRaises, table, WalkInv
    <3>2. QED
      BY <1>0, <1>4, <3>1
  <2>2. CASE HeartbeatRaises
    BY <1>0, <1>3, <1>8, <2>2, IdleShape DEF Raise, HeartbeatRaises, table
  <2>3. QED
    BY <1>8, <2>1, <2>2 DEF Raise
<1>9. CASE ProviderRestarts
  <2>1. /\ UNCHANGED <<made, sent, resends>> /\ pub' = Idle
        /\ \A r \in Subscribers : slot'[r] = 0 /\ entries' = 0
    BY <1>9 DEF ProviderRestarts, ProviderRestart
  <2>2. QED
    BY <1>3, <2>1, IdleShape
<1>10. ASSUME NEW s \in Subscribers, NEW n \in 1 .. published, Resend(s, n)
       PROVE  WalkInv'
  <2>1. resends' # 0 /\ UNCHANGED <<slot, entries>>
    BY <1>0, <1>10 DEF Resend, providerVars
  <2>2. QED
    BY <1>0, <2>1 DEF WalkInv
<1>11. QED
  BY <1>1, <1>2, <1>5, <1>6, <1>7, <1>8, <1>9, <1>10, StepKinds

(* The table starts empty and nothing is sent. *)
LEMMA WalkInit == Init => WalkInv
BY IdleShape DEF Init, ProviderInit, WalkInv, SentTwice

(* One call of publish_observation sends a subscriber at most one event,    *)
(* whatever announcements are handled while the loop is suspended and       *)
(* whatever raises, is replayed or restarts, for every number of            *)
(* subscribers, unless the subscriber and somebody else both left.          *)
THEOREM OneEventAlways == Spec => []OneEventPerSubscriber
<1>1. WalkInv => OneEventPerSubscriber
  BY DEF WalkInv, OneEventPerSubscriber, Alone
<1>2. Init => TypeOK
  BY IdleType DEF Init, ProviderInit, TypeOK, ProviderTypeOK, StreamTypeOK
<1>3. QED
  BY <1>1, <1>2, TypeStep, SequencedInit, SequencedStep, WalkInit, WalkStep, PTL DEF Spec

-----------------------------------------------------------------------------
(* What the provider learns of the newest announcement and payment, behind *)
(* a relay that keeps order.                                               *)

(* A subscriber that has sent events of a kind has sent a newest one. *)
Newest ==
  \A s \in Subscribers : \A j \in DOMAIN made[s] :
    \E k \in DOMAIN made[s] : SameKind(made[s][k], made[s][j]) /\ Latest(s, k)

(* The newest event of a kind is handled last. *)
LatestLast ==
  \A s \in Subscribers : \A k \in DOMAIN made[s] :
    Latest(s, k) /\ <<s, k>> \notin inbox =>
      \A j \in DOMAIN made[s] : SameKind(made[s][j], made[s][k]) => <<s, j>> \notin inbox

(* Once it is handled, the table says what it says. *)
Registered ==
  \A s \in Subscribers :
    /\ Announcements(s) = {} => s \notin Members
    /\ \A k \in Announcements(s) :
         Latest(s, k) /\ <<s, k>> \notin inbox => (s \in Members <=> made[s][k].kind = "sub")

(* What an emitted event adds to the log and the inbox. *)
LEMMA EmitShape ==
  ASSUME TypeOK, NEW s \in Subscribers, NEW r, Emit(s, r)
  PROVE  LET n == Len(made[s]) + 1 IN
         /\ n \in Nat /\ made'[s][n] = r /\ DOMAIN made'[s] = DOMAIN made[s] \union {n}
         /\ \A k \in DOMAIN made[s] : made'[s][k] = made[s][k] /\ k \in Nat /\ k < n
         /\ \A t \in Subscribers : t # s => made'[t] = made[t]
         /\ \A t \in Subscribers, j \in Nat :
              <<t, j>> \in inbox' <=> <<t, j>> \in inbox \/ (t = s /\ j = n)
         /\ <<s, n>> \notin inbox
<1> DEFINE n == Len(made[s]) + 1
<1>1. made \in [Subscribers -> Seq(Requests)] /\ \A e \in inbox : e[2] \in DOMAIN made[e[1]]
  BY DEF TypeOK, StreamTypeOK
<1>2. made[s] \in Seq(Requests) /\ Len(made[s]) \in Nat /\ DOMAIN made[s] = 1 .. Len(made[s])
  BY <1>1
<1>3. made'[s] = Append(made[s], r) /\ \A t \in Subscribers : t # s => made'[t] = made[t]
  BY <1>1 DEF Emit
<1>4. /\ made'[s][n] = r /\ DOMAIN made'[s] = DOMAIN made[s] \union {n}
      /\ \A k \in DOMAIN made[s] : made'[s][k] = made[s][k] /\ k \in Nat /\ k < n
  BY <1>2, <1>3
<1>5. <<s, n>> \notin inbox
  <2>1. SUFFICES ASSUME <<s, n>> \in inbox PROVE FALSE
    OBVIOUS
  <2>2. PICK e \in inbox : e = <<s, n>>
    BY <2>1
  <2>3. n \in DOMAIN made[s]
    BY <1>1, <2>2
  <2>4. QED
    BY <1>2, <2>3
<1>6. \A t \in Subscribers, j \in Nat :
        <<t, j>> \in inbox' <=> <<t, j>> \in inbox \/ (t = s /\ j = n)
  BY <1>2 DEF Emit
<1>7. QED
  BY <1>2, <1>3, <1>4, <1>5, <1>6

(* What the relay still has. *)
LEMMA StoredShape ==
  ASSUME NEW s \in Subscribers, NEW k
  PROVE  <<s, k>> \in Stored <=> k \in DOMAIN made[s] /\ Latest(s, k)
BY DEF Stored

(* The positions in the logs. *)
LEMMA LogIndices ==
  ASSUME TypeOK
  PROVE  \A s \in Subscribers : \A k \in DOMAIN made[s] :
           k \in Nat /\ made[s][k] \in Requests /\ made[s][k].seq \in Nat
                     /\ made[s][k].kind \in {"sub", "unsub", "pay"}
<1>1. TAKE s \in Subscribers
<1>2. made[s] \in Seq(Requests)
  BY DEF TypeOK, StreamTypeOK
<1>3. TAKE k \in DOMAIN made[s]
<1>4. k \in Nat /\ made[s][k] \in Requests
  BY <1>2, <1>3
<1>5. QED
  BY <1>4 DEF Requests

(* How the logs and the inbox change. *)
LEMMA LogKinds ==
  ASSUME TypeOK, [Next]_vars
  PROVE  \/ UNCHANGED <<made, inbox>> /\ Members' = Members
         \/ \E s \in Subscribers, r \in Requests : Emit(s, r) /\ UNCHANGED <<providerVars, sent>>
         \/ \E s \in Subscribers : \E k \in DOMAIN made[s] : Handle(s, k)
         \/ ProviderReconnects
         \/ ProviderRestarts
<1> DEFINE Kept == UNCHANGED <<made, inbox>> /\ Members' = Members
<1>0. UNCHANGED slot => Members' = Members
  BY DEF Members
<1>1. ASSUME NEW s \in Subscribers, SubscriberNext(s)
      PROVE  \/ Kept
             \/ \E r \in Requests : Emit(s, r) /\ UNCHANGED <<providerVars, sent>>
  <2>1. CASE Subscribe(s)
    BY <2>1 DEF Subscribe, Requests
  <2>2. CASE Unsubscribe(s)
    BY <2>2 DEF Unsubscribe, Requests
  <2>3. CASE AutoPay(s)
    <3>1. [kind |-> "pay", seq |-> due[s] + 1] \in Requests
      BY <2>3 DEF AutoPay, TypeOK, StreamTypeOK, Requests
    <3>2. QED
      BY <2>3, <3>1 DEF AutoPay
  <2>4. CASE Forget(s) \/ AutoPayFails(s) \/ SubscriberReconnects(s)
    BY <1>0, <2>4 DEF Forget, AutoPayFails, SubscriberReconnects, providerVars
  <2>5. QED
    BY <1>1, <2>1, <2>2, <2>3, <2>4 DEF SubscriberNext
<1>2. ASSUME NEW k \in transit, Receive(k)
      PROVE  Kept
  BY <1>0, <1>2 DEF Receive, providerVars
<1>3. ASSUME NEW e \in inbox, Handle(e[1], e[2])
      PROVE  e[1] \in Subscribers /\ e[2] \in DOMAIN made[e[1]]
  BY <1>3 DEF TypeOK, StreamTypeOK
<1>4. CASE Publish \/ Transmit
  BY <1>0, <1>4 DEF Publish, PublishObservation, Transmit, EventReachesRelay, streamVars, table
<1>5. CASE Return \/ Raise
  BY <1>0, <1>5 DEF Return, SendReturns, HeartbeatEnds, Raise, SendRaises, HeartbeatRaises,
     streamVars, table
<1>6. ASSUME NEW s \in Subscribers, NEW n \in 1 .. published, Resend(s, n)
      PROVE  Kept
  BY <1>0, <1>6 DEF Resend, providerVars
<1>7. CASE UNCHANGED vars
  BY <1>0, <1>7 DEF vars, streamVars, providerVars
<1>8. QED
  BY <1>1, <1>2, <1>3, <1>4, <1>5, <1>6, <1>7 DEF Next, Rest

(* What handling an event does to the table and the inbox. *)
LEMMA HandleShape ==
  ASSUME TypeOK, NEW s \in Subscribers, NEW k \in DOMAIN made[s], Handle(s, k)
  PROVE  /\ UNCHANGED <<made, sent, transit, received, mode, due, resends, faults>>
         /\ <<s, k>> \in inbox /\ inbox' = inbox \ {<<s, k>>}
         /\ OneRelay => \A j \in DOMAIN made[s] :
              <<s, j>> \in inbox /\ SameKind(made[s][j], made[s][k]) => k <= j
         /\ \A t \in Subscribers : t # s => (t \in Members' <=> t \in Members)
         /\ made[s][k].kind = "sub" => s \in Members'
         /\ made[s][k].kind = "unsub" => s \notin Members'
         /\ made[s][k].kind = "pay" => Members' = Members
<1>1. slot \in [Subscribers -> Nat] /\ entries \in Nat
  BY DEF TypeOK, ProviderTypeOK
<1>2. CASE made[s][k].kind = "sub" /\ RecordSubscription(s)
  BY <1>1, <1>2 DEF Handle, RecordSubscription, Members, table
<1>3. CASE made[s][k].kind = "unsub" /\ DropSubscription(s)
  BY <1>1, <1>3 DEF Handle, DropSubscription, Members
<1>4. CASE made[s][k].kind = "pay" /\ RecordPayment(s, made[s][k].seq)
  BY <1>1, <1>4 DEF Handle, RecordPayment, Members, table
<1>5. QED
  BY <1>2, <1>3, <1>4 DEF Handle

(* The order of one relay, which the proofs below rest on. *)
InOrder == Newest /\ LatestLast /\ Registered

(* A subscriber's own step: the event it emits is the newest of its kind. *)
LEMMA EmitInOrder ==
  ASSUME TypeOK, InOrder, NEW s \in Subscribers, NEW r \in Requests, Emit(s, r),
         UNCHANGED providerVars
  PROVE  InOrder'
<1>0. PICK n : n = Len(made[s]) + 1
  OBVIOUS
<1>1. /\ n \in Nat /\ made'[s][n] = r /\ DOMAIN made'[s] = DOMAIN made[s] \union {n}
      /\ \A k \in DOMAIN made[s] : made'[s][k] = made[s][k] /\ k \in Nat /\ k < n
      /\ \A t \in Subscribers : t # s => made'[t] = made[t]
      /\ \A t \in Subscribers, j \in Nat :
           <<t, j>> \in inbox' <=> <<t, j>> \in inbox \/ (t = s /\ j = n)
      /\ \A t \in Subscribers : \A j \in DOMAIN made[t] : j \in Nat
      /\ Members' = Members
  BY ZenonT(60), <1>0, EmitShape, LogIndices DEF providerVars, Members
<1>2. \A t \in Subscribers : t # s => \A k : Latest(t, k)' <=> Latest(t, k)
  BY <1>1 DEF Latest
<1>3. Latest(s, n)'
  BY <1>1 DEF Latest
<1>4. \A k \in DOMAIN made[s] : Latest(s, k)' <=> Latest(s, k) /\ ~SameKind(r, made[s][k])
  BY <1>1 DEF Latest, SameKind
<1>5. Newest'
  <2>1. SUFFICES ASSUME NEW t \in Subscribers, NEW j \in DOMAIN made'[t]
                 PROVE  \E k \in DOMAIN made'[t] :
                          SameKind(made'[t][k], made'[t][j]) /\ Latest(t, k)'
    BY DEF Newest
  <2>2. CASE t # s
    BY <1>1, <1>2, <2>1, <2>2 DEF InOrder, Newest
  <2>3. CASE t = s /\ SameKind(r, made'[s][j])
    BY <1>1, <1>3, <2>3
  <2>4. CASE t = s /\ ~SameKind(r, made'[s][j])
    <3>1. j \in DOMAIN made[s] /\ made'[s][j] = made[s][j]
      BY <1>1, <2>1, <2>4 DEF SameKind
    <3>2. PICK k \in DOMAIN made[s] : SameKind(made[s][k], made[s][j]) /\ Latest(s, k)
      BY <3>1 DEF InOrder, Newest
    <3>3. Latest(s, k)'
      BY <1>4, <2>4, <3>1, <3>2 DEF SameKind
    <3>4. QED
      BY <1>1, <2>4, <3>1, <3>2, <3>3
  <2>5. QED
    BY <2>2, <2>3, <2>4
<1>6. \A k \in DOMAIN made'[s] : Latest(s, k)' /\ <<s, k>> \notin inbox' =>
         k \in DOMAIN made[s] /\ Latest(s, k) /\ <<s, k>> \notin inbox
                              /\ ~SameKind(r, made[s][k])
  BY <1>1, <1>4
<1>7. LatestLast'
  <2>1. SUFFICES ASSUME NEW t \in Subscribers, NEW k \in DOMAIN made'[t], Latest(t, k)',
                        <<t, k>> \notin inbox', NEW j \in DOMAIN made'[t],
                        SameKind(made'[t][j], made'[t][k])
                 PROVE  <<t, j>> \notin inbox'
    BY DEF LatestLast
  <2>2. CASE t # s
    BY <1>1, <1>2, <2>1, <2>2 DEF InOrder, LatestLast
  <2>3. CASE t = s
    <3>1. /\ k \in DOMAIN made[s] /\ Latest(s, k) /\ <<s, k>> \notin inbox
          /\ ~SameKind(r, made[s][k])
      BY <1>6, <2>1, <2>3
    <3>2. j \in DOMAIN made[s] /\ SameKind(made[s][j], made[s][k])
      BY <1>1, <2>1, <2>3, <3>1
    <3>3. <<s, j>> \notin inbox
      BY <3>1, <3>2 DEF InOrder, LatestLast
    <3>4. QED
      BY <1>1, <2>3, <3>2, <3>3
  <2>4. QED
    BY <2>2, <2>3
<1>8. Registered'
  <2>1. SUFFICES ASSUME NEW t \in Subscribers
                 PROVE  /\ Announcements(t)' = {} => t \notin Members
                        /\ \A k \in Announcements(t)' :
                             Latest(t, k)' /\ <<t, k>> \notin inbox' =>
                               (t \in Members <=> made'[t][k].kind = "sub")
    BY <1>1 DEF Registered
  <2>2. CASE t # s
    <3>1. Announcements(t)' = Announcements(t) /\ \A k \in Announcements(t) : k \in Nat
      BY <1>1, <2>2 DEF Announcements
    <3>2. QED
      BY <1>1, <1>2, <2>2, <3>1 DEF InOrder, Registered
  <2>3. CASE t = s
    <3>1. Announcements(s) \subseteq Announcements(s)'
      BY <1>1 DEF Announcements
    <3>2. \A k \in Announcements(s)' : k \in DOMAIN made'[s] /\
            (k \in DOMAIN made[s] => k \in Announcements(s))
      BY <1>1 DEF Announcements
    <3>3. QED
      BY <1>1, <1>6, <2>3, <3>1, <3>2 DEF InOrder, Registered
  <2>4. QED
    BY <2>2, <2>3
<1>9. QED
  BY <1>5, <1>7, <1>8 DEF InOrder

(* The order survives every step: one relay hands over the oldest event of *)
(* a kind first, and replays only the newest.                              *)
LEMMA InOrderStep ==
  ASSUME OneRelay, TypeOK, InOrder, [Next]_vars
  PROVE  InOrder'
<1>1. CASE UNCHANGED <<made, inbox>> /\ Members' = Members
  BY <1>1 DEF InOrder, Newest, LatestLast, Registered, Latest, Announcements
<1>2. ASSUME NEW s \in Subscribers, NEW r \in Requests, Emit(s, r), UNCHANGED providerVars
      PROVE  InOrder'
  BY <1>2, EmitInOrder
<1>3. ASSUME NEW s \in Subscribers, NEW k \in DOMAIN made[s], Handle(s, k)
      PROVE  InOrder'
  <2>1. /\ made' = made /\ <<s, k>> \in inbox /\ inbox' = inbox \ {<<s, k>>}
        /\ \A j \in DOMAIN made[s] :
             <<s, j>> \in inbox /\ SameKind(made[s][j], made[s][k]) => k <= j
        /\ \A t \in Subscribers : t # s => (t \in Members' <=> t \in Members)
        /\ made[s][k].kind = "sub" => s \in Members'
        /\ made[s][k].kind = "unsub" => s \notin Members'
        /\ made[s][k].kind = "pay" => Members' = Members
        /\ k \in Nat /\ \A j \in DOMAIN made[s] : j \in Nat
        /\ made[s][k].kind \in {"sub", "unsub", "pay"}
    BY <1>3, HandleShape, LogIndices
  <2>2. Newest' /\ \A t, j : Latest(t, j)' <=> Latest(t, j)
    BY <2>1 DEF InOrder, Newest, Latest
  <2>3. LatestLast'
    <3>1. SUFFICES ASSUME NEW t \in Subscribers, NEW i \in DOMAIN made[t], Latest(t, i),
                          <<t, i>> \notin inbox', NEW j \in DOMAIN made[t],
                          SameKind(made[t][j], made[t][i])
                   PROVE  <<t, j>> \notin inbox'
      BY <2>1, <2>2 DEF LatestLast
    <3>2. CASE <<t, i>> \notin inbox
      BY <2>1, <3>1, <3>2 DEF InOrder, LatestLast
    <3>3. CASE t = s /\ i = k
      <4>1. SUFFICES ASSUME <<s, j>> \in inbox, j # k PROVE FALSE
        BY <2>1, <3>3
      <4>2. k <= j /\ j <= k
        BY <2>1, <3>1, <3>3, <4>1 DEF Latest
      <4>3. QED
        BY <2>1, <3>3, <4>1, <4>2
    <3>4. QED
      BY <2>1, <3>1, <3>2, <3>3
  <2>4. Registered'
    <3>1. SUFFICES ASSUME NEW t \in Subscribers
                   PROVE  /\ Announcements(t) = {} => t \notin Members'
                          /\ \A i \in Announcements(t) :
                               Latest(t, i) /\ <<t, i>> \notin inbox' =>
                                 (t \in Members' <=> made[t][i].kind = "sub")
      BY <2>1, <2>2 DEF Registered, Announcements
    <3>2. CASE t # s
      BY <2>1, <3>2 DEF InOrder, Registered
    <3>3. CASE t = s /\ made[s][k].kind = "pay"
      BY <2>1, <3>3 DEF InOrder, Registered, Announcements
    <3>4. CASE t = s /\ made[s][k].kind # "pay"
      <4>1. k \in Announcements(s)
        BY <3>4 DEF Announcements
      <4>2. ASSUME NEW i \in Announcements(s), Latest(s, i), <<s, i>> \notin inbox'
            PROVE  i = k
        <5>1. i \in DOMAIN made[s] /\ SameKind(made[s][k], made[s][i])
          BY <3>4, <4>2 DEF Announcements, SameKind
        <5>2. QED
          BY <2>1, <4>2, <5>1 DEF InOrder, LatestLast
      <4>3. made[s][k].kind = "sub" \/ made[s][k].kind = "unsub"
        BY <2>1, <3>4
      <4>4. QED
        BY <2>1, <3>4, <4>1, <4>2, <4>3
    <3>5. QED
      BY <3>2, <3>3, <3>4
  <2>5. QED
    BY <2>2, <2>3, <2>4 DEF InOrder
<1>4. CASE ProviderReconnects
  <2>1. /\ made' = made /\ inbox' = inbox \intersect Stored /\ Members' = Members
    BY <1>4 DEF ProviderReconnects, providerVars, Members
  <2>2. \A s \in Subscribers : \A k \in DOMAIN made[s] :
          Latest(s, k) /\ <<s, k>> \notin inbox' => <<s, k>> \notin inbox
    BY <2>1, StoredShape
  <2>3. Newest' /\ LatestLast'
    BY <2>1, <2>2 DEF InOrder, Newest, LatestLast, Latest
  <2>4. Registered'
    BY <2>1, <2>2 DEF InOrder, Registered, Announcements, Latest
  <2>5. QED
    BY <2>3, <2>4 DEF InOrder
<1>5. CASE ProviderRestarts
  <2>1. /\ made' = made /\ inbox' = Stored /\ Members' = {}
    BY <1>5 DEF ProviderRestarts, ProviderRestart, Members
  <2>2. \A s \in Subscribers : \A k \in DOMAIN made[s] :
          Latest(s, k) => <<s, k>> \in inbox'
    BY <2>1, StoredShape
  <2>3. Newest' /\ LatestLast'
    BY <2>1, <2>2 DEF InOrder, Newest, LatestLast, Latest
  <2>4. Registered'
    BY <2>1, <2>2 DEF InOrder, Registered, Announcements, Latest
  <2>5. QED
    BY <2>3, <2>4 DEF InOrder
<1>6. QED
  BY <1>1, <1>2, <1>3, <1>4, <1>5, LogKinds

(* Nothing is emitted at first, and nobody is in the table. *)
LEMMA InOrderInit == Init => InOrder
BY DEF Init, ProviderInit, InOrder, Newest, LatestLast, Registered, Members, Announcements

(* Behind one relay, and for every number of subscribers, announcements     *)
(* and faults: once the announcements of a subscriber are handled the       *)
(* provider's table agrees with the newest of them, whatever was replayed,  *)
(* lost with a connection or forgotten in a restart.                        *)
THEOREM MembershipSettlesAlways ==
  ASSUME OneRelay
  PROVE  Spec => []MembershipSettles
<1>1. InOrder /\ TypeOK => MembershipSettles
  <2>1. SUFFICES ASSUME InOrder, TypeOK, NEW s \in Subscribers,
                        \A k \in Announcements(s) : <<s, k>> \notin inbox
                 PROVE  s \in Members <=>
                          \E k \in Announcements(s) : Latest(s, k) /\ made[s][k].kind = "sub"
    BY DEF MembershipSettles
  <2>2. CASE Announcements(s) = {}
    BY <2>1, <2>2 DEF InOrder, Registered
  <2>3. ASSUME NEW j \in Announcements(s)
        PROVE  s \in Members <=>
                 \E k \in Announcements(s) : Latest(s, k) /\ made[s][k].kind = "sub"
    <3>1. j \in DOMAIN made[s] /\ made[s][j].kind # "pay"
      BY DEF Announcements
    <3>2. PICK k \in DOMAIN made[s] : SameKind(made[s][k], made[s][j]) /\ Latest(s, k)
      BY <2>1, <3>1 DEF InOrder, Newest
    <3>3. k \in Announcements(s)
      BY <3>1, <3>2 DEF Announcements, SameKind
    <3>4. s \in Members <=> made[s][k].kind = "sub"
      BY <2>1, <3>2, <3>3 DEF InOrder, Registered
    <3>5. \A i \in Announcements(s) : Latest(s, i) => i = k
      <4>1. TAKE i \in Announcements(s)
      <4>2. /\ i \in DOMAIN made[s] /\ i \in Nat /\ k \in Nat
            /\ SameKind(made[s][i], made[s][k]) /\ SameKind(made[s][k], made[s][i])
        BY <2>1, <3>3, LogIndices DEF Announcements, SameKind
      <4>3. Latest(s, i) => i <= k /\ k <= i
        BY <3>2, <4>2 DEF Latest
      <4>4. QED
        BY <4>2, <4>3
    <3>6. QED
      BY <3>2, <3>3, <3>4, <3>5
  <2>4. QED
    BY <2>2, <2>3
<1>2. Init => TypeOK
  BY IdleType DEF Init, ProviderInit, TypeOK, ProviderTypeOK, StreamTypeOK
<1>3. TypeOK /\ InOrder /\ [Next]_vars => InOrder'
  BY InOrderStep
<1>4. QED
  BY <1>1, <1>2, <1>3, TypeStep, InOrderInit, PTL DEF Spec

-----------------------------------------------------------------------------
(* What an announcement is worth: an accounting of free observations. *)

(* Positions in a log are finitely many. *)
LEMMA Counted ==
  ASSUME NEW X, NEW q \in Seq(X), NEW K \in SUBSET (DOMAIN q)
  PROVE  /\ IsFiniteSet(K) /\ Cardinality(K) \in Nat
         /\ \A J \in SUBSET K : IsFiniteSet(J) /\ Cardinality(J) \in Nat
                                /\ Cardinality(J) <= Cardinality(K)
<1>1. Len(q) \in Nat /\ DOMAIN q = 1 .. Len(q)
  OBVIOUS
<1>2. IsFiniteSet(DOMAIN q)
  BY <1>1, FS_Interval
<1>3. IsFiniteSet(K)
  BY <1>2, FS_Subset
<1>4. QED
  BY <1>3, FS_Subset, FS_CardinalityType

(* The free observations s has been sent, and its announcements on their way. *)
FreeSent(s) == {k \in DOMAIN sent : sent[k].to = s /\ sent[k].kind = "free"}

Waiting(s) == {k \in Joins(s) : <<s, k>> \in inbox}

(* s is in the table with nothing paid, and will be sent the next one free. *)
Spare(s) == s \in Members /\ Free(s)

(* The loop awaits the free send to s. *)
Sending(s) == pub.pc = "send" /\ pub.cur = s /\ pub.free

(* The free observations s may yet get without another announcement: one   *)
(* for the entry, unless the running send uses it up, one for that send.   *)
Chance(s) == IF Spare(s) /\ ~(Sending(s) /\ pub.held) THEN 1 ELSE 0

Pending(s) == IF Sending(s) /\ pub.out = 0 THEN 1 ELSE 0

CreditOf(s) ==
  Cardinality(FreeSent(s)) + Cardinality(Waiting(s)) + Chance(s) + Pending(s)
    <= Cardinality(Joins(s)) + faults

Credit == \A s \in Subscribers : CreditOf(s)

(* The object the loop holds is at the entry the iterator has reached. *)
Held ==
  pub.pc = "send" =>
    /\ pub.cur \in Subscribers
    /\ pub.held => slot[pub.cur] = pub.pos /\ slot[pub.cur] # 0

(* What CreditOf adds up. *)
LEMMA CreditTerms ==
  ASSUME NEW s \in Subscribers,
         made \in [Subscribers -> Seq(Requests)], sent \in Seq(Deliveries)
  PROVE  /\ IsFiniteSet(FreeSent(s)) /\ Cardinality(FreeSent(s)) \in Nat
         /\ IsFiniteSet(Waiting(s)) /\ Cardinality(Waiting(s)) \in Nat
         /\ IsFiniteSet(Joins(s)) /\ Cardinality(Joins(s)) \in Nat
         /\ Chance(s) \in {0, 1} /\ Pending(s) \in {0, 1}
<1>1. FreeSent(s) \in SUBSET (DOMAIN sent)
  BY DEF FreeSent
<1>2. made[s] \in Seq(Requests) /\ Joins(s) \in SUBSET (DOMAIN made[s])
  BY DEF Joins
<1>3. Waiting(s) \in SUBSET (DOMAIN made[s])
  BY <1>2 DEF Waiting
<1>4. Chance(s) \in {0, 1} /\ Pending(s) \in {0, 1}
  BY DEF Chance, Pending
<1>5. QED
  BY <1>1, <1>2, <1>3, <1>4, Counted

(* Most steps neither send anything free nor announce anything. *)
LEMMA CreditKept ==
  ASSUME TypeOK, TypeOK', NEW s \in Subscribers, CreditOf(s),
         FreeSent(s)' = FreeSent(s), Waiting(s)' \subseteq Waiting(s),
         Joins(s)' = Joins(s), faults <= faults',
         Chance(s)' + Pending(s)' + faults <= Chance(s) + Pending(s) + faults'
  PROVE  CreditOf(s)'
<1>1. /\ made \in [Subscribers -> Seq(Requests)] /\ sent \in Seq(Deliveries)
      /\ faults \in Nat /\ faults' \in Nat
  BY StreamNumbers DEF TypeOK, StreamTypeOK
<1>2. /\ Chance(s)' \in {0, 1} /\ Pending(s)' \in {0, 1}
  BY DEF Chance, Pending
<1>3. Cardinality(Waiting(s)') \in Nat /\ Cardinality(Waiting(s)') <= Cardinality(Waiting(s))
  <2>1. made[s] \in Seq(Requests) /\ Waiting(s) \in SUBSET (DOMAIN made[s])
    BY <1>1 DEF Waiting, Joins
  <2>2. QED
    BY <2>1, Counted
<1>4. /\ Cardinality(FreeSent(s)) \in Nat /\ Cardinality(Waiting(s)) \in Nat
      /\ Cardinality(Joins(s)) \in Nat /\ Chance(s) \in {0, 1} /\ Pending(s) \in {0, 1}
  BY <1>1, CreditTerms
<1> DEFINE f == Cardinality(FreeSent(s))
           w == Cardinality(Waiting(s))
           v == Cardinality(Waiting(s)')
           j == Cardinality(Joins(s))
           c == Chance(s)
           d == Chance(s)'
           p == Pending(s)
           q == Pending(s)'
           g == faults
           h == faults'
<1>5. f + w + c + p <= j + g /\ d + q + g <= c + p + h
  BY DEF CreditOf
<1>6. /\ g \in Nat /\ h \in Nat
      /\ f \in Nat /\ w \in Nat /\ v \in Nat /\ j \in Nat /\ v <= w
  BY <1>1, <1>3, <1>4
<1>7. c \in {0, 1} /\ d \in {0, 1} /\ p \in {0, 1} /\ q \in {0, 1}
  BY <1>2, <1>4
<1> HIDE DEF f, w, v, j, c, d, p, q, g, h
<1>8. f + v + d + q <= j + h
  BY <1>5, <1>6, <1>7
<1>9. QED
  BY <1>8 DEF CreditOf, f, v, d, q, j, h

(* Where the loop goes on, it sends free only to an entry with nothing paid. *)
LEMMA ChanceContinues ==
  ASSUME ProviderTypeOK, NEW p \in Frames, Continue(p), NEW s \in Subscribers,
         Spare(s)' => Spare(s)
  PROVE  /\ Chance(s)' + Pending(s)' <= 1
         /\ Chance(s)' + Pending(s)' # 0 => Spare(s)
         /\ Pending(s)' # 0 => slot[s] > p.pos
<1>1. \/ pub'.pc # "send"
      \/ \E r \in Subscribers : WalksTo(p, r)
  BY ContinueShape, IdleShape
<1>2. CASE pub'.pc # "send"
  BY <1>2 DEF Chance, Pending, Sending
<1>3. ASSUME NEW r \in Subscribers, WalksTo(p, r)
      PROVE  /\ Chance(s)' + Pending(s)' <= 1
             /\ Chance(s)' + Pending(s)' # 0 => Spare(s)
             /\ Pending(s)' # 0 => slot[s] > p.pos
  <2>1. CASE r # s
    <3>1. ~Sending(s)'
      BY <1>3, <2>1 DEF WalksTo, Sending
    <3>2. QED
      BY <3>1 DEF Chance, Pending
  <2>2. CASE r = s
    <3>1. /\ Sending(s)' <=> Free(s)
          /\ pub'.held /\ s \in Members /\ slot[s] > p.pos
      BY <1>3, <2>2 DEF WalksTo, Sending, NextRecipient, Ahead
    <3>2. QED
      BY <3>1 DEF Chance, Pending, Spare
  <2>3. QED
    BY <2>1, <2>2
<1>4. QED
  BY <1>1, <1>2, <1>3

(* An announcement adds one to what its sender may be sent free; it waits. *)
LEMMA EmitCredit ==
  ASSUME TypeOK, TypeOK', Credit, NEW s \in Subscribers, NEW r \in Requests, Emit(s, r),
         UNCHANGED <<providerVars, sent>>, faults <= faults'
  PROVE  Credit'
<1>0. PICK n : n = Len(made[s]) + 1
  OBVIOUS
<1>1. /\ n \in Nat /\ made'[s][n] = r /\ DOMAIN made'[s] = DOMAIN made[s] \union {n}
      /\ \A k \in DOMAIN made[s] : made'[s][k] = made[s][k] /\ k \in Nat /\ k < n
      /\ \A t \in Subscribers : t # s => made'[t] = made[t]
      /\ \A t \in Subscribers, j \in Nat :
           <<t, j>> \in inbox' <=> <<t, j>> \in inbox \/ (t = s /\ j = n)
      /\ <<s, n>> \notin inbox
      /\ \A t \in Subscribers : \A j \in DOMAIN made[t] : j \in Nat
  BY <1>0, EmitShape, LogIndices
<1>2. \A t : FreeSent(t)' = FreeSent(t) /\ Chance(t)' = Chance(t) /\ Pending(t)' = Pending(t)
  BY DEF FreeSent, Chance, Pending, Sending, Spare, Members, Free, providerVars
<1>3. /\ made \in [Subscribers -> Seq(Requests)] /\ sent \in Seq(Deliveries)
      /\ faults \in Nat /\ faults' \in Nat
  BY StreamNumbers DEF TypeOK, StreamTypeOK
<1>4. \A t \in Subscribers : Chance(t) \in {0, 1} /\ Pending(t) \in {0, 1}
  BY DEF Chance, Pending
<1>5. ASSUME NEW t \in Subscribers, Joins(t)' = Joins(t), Waiting(t)' = Waiting(t)
      PROVE  CreditOf(t)'
  BY <1>2, <1>3, <1>4, <1>5, CreditKept DEF Credit
<1>6. ASSUME NEW t \in Subscribers, t # s
      PROVE  CreditOf(t)'
  <2>1. Joins(t)' = Joins(t)
    BY <1>1, <1>6 DEF Joins
  <2>2. Waiting(t)' = Waiting(t)
    BY <1>1, <1>6, <2>1 DEF Waiting, Joins
  <2>3. QED
    BY <1>5, <2>1, <2>2
<1>7. CASE r.kind # "sub"
  <2>1. Joins(s)' = Joins(s)
    BY <1>1, <1>7 DEF Joins
  <2>2. Waiting(s)' = Waiting(s)
    BY <1>1, <2>1 DEF Waiting, Joins
  <2>3. QED
    BY <1>5, <1>6, <2>1, <2>2 DEF Credit
<1>8. CASE r.kind = "sub"
  <2>1. Joins(s)' = Joins(s) \union {n} /\ n \notin Joins(s)
    BY <1>1, <1>8 DEF Joins
  <2>2. Waiting(s)' = Waiting(s) \union {n} /\ n \notin Waiting(s)
    BY <1>1, <2>1 DEF Waiting, Joins
  <2>3. /\ IsFiniteSet(Joins(s)) /\ Cardinality(Joins(s)) \in Nat
        /\ IsFiniteSet(Waiting(s)) /\ Cardinality(Waiting(s)) \in Nat
        /\ Cardinality(FreeSent(s)) \in Nat
    BY <1>3, CreditTerms
  <2>4. /\ Cardinality(Joins(s)') = Cardinality(Joins(s)) + 1
        /\ Cardinality(Waiting(s)') = Cardinality(Waiting(s)) + 1
    BY <2>1, <2>2, <2>3, FS_AddElement
  <2> DEFINE f == Cardinality(FreeSent(s))
             w == Cardinality(Waiting(s))
             j == Cardinality(Joins(s))
             c == Chance(s)
             p == Pending(s)
             g == faults
             h == faults'
  <2>5. f + w + c + p <= j + g /\ g <= h
    BY DEF Credit, CreditOf
  <2>6. /\ f \in Nat /\ w \in Nat /\ j \in Nat /\ g \in Nat /\ h \in Nat
        /\ c \in {0, 1} /\ p \in {0, 1}
    BY <1>3, <1>4, <2>3
  <2> HIDE DEF f, w, j, c, p, g, h
  <2>7. f + (w + 1) + c + p <= (j + 1) + h
    BY <2>5, <2>6
  <2>8. CreditOf(s)'
    BY <1>2, <2>4, <2>7 DEF CreditOf, f, w, j, c, p, h
  <2>9. QED
    BY <1>6, <2>8 DEF Credit
<1>9. QED
  BY <1>7, <1>8

(* A handled announcement no longer waits and may make an entry; leaving    *)
(* and paying only take a chance away.                                     *)
LEMMA HandleCredit ==
  ASSUME TypeOK, TypeOK', Credit, NEW s \in Subscribers, NEW k \in DOMAIN made[s],
         Handle(s, k)
  PROVE  Credit'
<1>1. /\ UNCHANGED <<made, sent, faults>> /\ <<s, k>> \in inbox
      /\ inbox' = inbox \ {<<s, k>>}
      /\ \A t \in Subscribers : t # s => (t \in Members' <=> t \in Members)
      /\ made[s][k].kind = "unsub" => s \notin Members'
      /\ made[s][k].kind = "pay" => Members' = Members
      /\ made[s][k].kind \in {"sub", "unsub", "pay"} /\ made[s][k].seq \in Nat
  BY HandleShape, LogIndices
<1>2. /\ made \in [Subscribers -> Seq(Requests)] /\ sent \in Seq(Deliveries)
      /\ faults \in Nat /\ pub \in Frames
      /\ lastPaid \in [Subscribers -> Nat \union {NoSeq}]
  BY StreamNumbers DEF TypeOK, StreamTypeOK, ProviderTypeOK
<1>3. /\ pub'.pc = pub.pc /\ pub'.cur = pub.cur /\ pub'.free = pub.free
      /\ pub'.out = pub.out /\ (pub.cur # s => pub'.held = pub.held)
  BY <1>2, ReleaseShape DEF Handle, RecordSubscription, DropSubscription, RecordPayment
<1>4. \A t \in Subscribers : t # s => lastPaid'[t] = lastPaid[t]
  BY <1>2 DEF Handle, RecordSubscription, DropSubscription, RecordPayment
<1>5. \A t : /\ FreeSent(t)' = FreeSent(t) /\ Pending(t)' = Pending(t)
             /\ Joins(t)' = Joins(t) /\ Waiting(t)' \subseteq Waiting(t)
             /\ (Sending(t)' <=> Sending(t))
  BY <1>1, <1>3 DEF FreeSent, Pending, Sending, Joins, Waiting
<1>6. \A t : Chance(t) \in {0, 1} /\ Chance(t)' \in {0, 1} /\ Pending(t) \in {0, 1}
  BY DEF Chance, Pending
<1>7. ASSUME NEW t \in Subscribers, Chance(t)' <= Chance(t)
      PROVE  CreditOf(t)'
  <2>1. Chance(t)' + Pending(t)' + faults <= Chance(t) + Pending(t) + faults'
    <3>1. Pending(t)' = Pending(t) /\ faults' = faults
      BY <1>1, <1>5
    <3>2. Chance(t) \in {0, 1} /\ Chance(t)' \in {0, 1} /\ Pending(t) \in {0, 1}
      BY <1>6
    <3>3. Chance(t)' + Pending(t) + faults <= Chance(t) + Pending(t) + faults
      BY <1>2, <1>7, <3>2
    <3>4. QED
      BY <3>1, <3>3
  <2>2. faults <= faults'
    BY <1>1, <1>2
  <2>3. QED
    BY <1>5, <2>1, <2>2, CreditKept DEF Credit
<1>8. ASSUME NEW t \in Subscribers, t # s
      PROVE  CreditOf(t)'
  <2>1. Chance(t)' = Chance(t)
    BY <1>1, <1>3, <1>4, <1>5, <1>8 DEF Chance, Spare, Free, Sending
  <2>2. QED
    BY <1>6, <1>7, <2>1
<1>9. CASE made[s][k].kind = "unsub"
  <2>1. Chance(s)' = 0
    BY <1>1, <1>9 DEF Chance, Spare
  <2>2. QED
    BY <1>6, <1>7, <1>8, <2>1 DEF Credit
<1>10. CASE made[s][k].kind = "pay"
  <2>1. Free(s)' => Free(s)
    BY <1>1, <1>2, <1>10, ProviderAssumption DEF Handle, RecordPayment, Free
  <2>2. pub' = pub
    BY <1>10 DEF Handle, RecordPayment
  <2>3. Chance(s)' <= Chance(s)
    BY <1>1, <1>5, <1>10, <2>1, <2>2 DEF Chance, Spare
  <2>4. QED
    BY <1>7, <1>8, <2>3 DEF Credit
<1>11. CASE made[s][k].kind = "sub"
  <2>1. k \in Waiting(s) /\ Waiting(s)' = Waiting(s) \ {k}
    BY <1>1, <1>11 DEF Waiting, Joins
  <2>2. /\ IsFiniteSet(Waiting(s)) /\ Cardinality(Waiting(s)) \in Nat
        /\ Cardinality(FreeSent(s)) \in Nat /\ Cardinality(Joins(s)) \in Nat
    BY <1>2, CreditTerms
  <2>3. Cardinality(Waiting(s)') = Cardinality(Waiting(s)) - 1
    BY <2>1, <2>2, FS_RemoveElement
  <2> DEFINE f == Cardinality(FreeSent(s))
             w == Cardinality(Waiting(s))
             j == Cardinality(Joins(s))
             c == Chance(s)
             d == Chance(s)'
             p == Pending(s)
             g == faults
  <2>4. f + w + c + p <= j + g
    BY DEF Credit, CreditOf
  <2>5. /\ f \in Nat /\ w \in Nat /\ j \in Nat /\ g \in Nat
        /\ c \in {0, 1} /\ d \in {0, 1} /\ p \in {0, 1}
    BY <1>2, <1>6, <2>2
  <2> HIDE DEF f, w, j, c, d, p, g
  <2>6. f + (w - 1) + d + p <= j + g
    BY <2>4, <2>5
  <2>7. CreditOf(s)'
    BY <1>1, <1>5, <2>3, <2>6 DEF CreditOf, f, w, j, d, p, g
  <2>8. QED
    BY <1>8, <2>7 DEF Credit
<1>12. QED
  BY <1>1, <1>9, <1>10, <1>11

(* The loop holds an object only as long as it is in the table. *)
LEMMA HeldStep ==
  ASSUME TypeOK, Held, [Next]_vars
  PROVE  Held'
<1>0. /\ pub \in Frames /\ ProviderTypeOK /\ slot \in [Subscribers -> Nat]
      /\ Len(sent) + 1 \in Nat
  BY StreamNumbers DEF TypeOK, ProviderTypeOK
<1>1. ASSUME NEW p \in Frames, Continue(p), UNCHANGED slot
      PROVE  Held'
  <2>1. pub'.pc # "send" \/ \E r \in Subscribers : WalksTo(p, r)
    BY <1>0, <1>1, ContinueShape, IdleShape
  <2>2. QED
    BY <1>1, <2>1 DEF WalksTo, NextRecipient, Ahead, Members, Held
<1>2. CASE Elsewhere
  BY <1>2 DEF Elsewhere, providerVars, Held
<1>3. ASSUME NEW s \in Subscribers, NEW k \in DOMAIN made[s], Handle(s, k)
      PROVE  Held'
  <2>1. CASE RecordPayment(s, made[s][k].seq)
    BY <2>1 DEF RecordPayment, table, Held
  <2>2. CASE ReleaseObject(s) /\ \A t \in Subscribers : t # s => slot'[t] = slot[t]
    <3>1. /\ pub'.pc = pub.pc /\ pub'.cur = pub.cur /\ pub'.pos = pub.pos
          /\ pub.cur = s => ~pub'.held
          /\ pub.cur # s => pub'.held = pub.held
      BY <1>0, <2>2, ReleaseShape
    <3>2. QED
      BY <2>2, <3>1 DEF Held
  <2>3. QED
    BY <1>0, <1>3, <2>1, <2>2 DEF Handle, RecordSubscription, DropSubscription, table
<1>4. CASE Publish
  <2>1. Continue(FirstFrame) /\ UNCHANGED slot
    BY <1>4 DEF Publish, PublishObservation, FirstFrame, table
  <2>2. QED
    BY <1>0, <1>1, <2>1, FirstShape
<1>5. CASE Transmit
  BY <1>0, <1>5, ReachShape DEF Transmit, EventReachesRelay, table, Held
<1>6. CASE Return
  <2>1. CASE SendReturns
    <3> DEFINE p == [pub EXCEPT !.any = TRUE]
    <3>1. Continue(p) /\ UNCHANGED slot /\ p \in Frames
      BY <1>0, <2>1, AnyShape DEF SendReturns, table
    <3> HIDE DEF p
    <3>2. QED
      BY <1>1, <3>1
  <2>2. QED
    BY <1>6, <2>1, IdleShape DEF Return, HeartbeatEnds, Held
<1>7. CASE Raise
  BY <1>0, <1>1, <1>7, IdleShape DEF Raise, SendRaises, HeartbeatRaises, table, Held
<1>8. CASE ProviderRestarts
  BY <1>8, IdleShape DEF ProviderRestarts, ProviderRestart, Held
<1>9. ASSUME NEW s \in Subscribers, NEW n \in 1 .. published, Resend(s, n)
      PROVE  Held'
  BY <1>9 DEF Resend, providerVars, Held
<1>10. QED
  BY <1>2, <1>3, <1>4, <1>5, <1>6, <1>7, <1>8, <1>9, StepKinds

(* The loop goes on: what was one chance of an entry is still at most one. *)
LEMMA LoopCredit ==
  ASSUME TypeOK, TypeOK', Held, Credit, UNCHANGED <<made, inbox, sent>>,
         Publish \/ Return \/ Raise
  PROVE  Credit'
<1>0. /\ ProviderTypeOK /\ pub \in Frames /\ faults \in Nat /\ faults' \in Nat
      /\ lastPaid \in [Subscribers -> Nat \union {NoSeq}]
      /\ pub.seq \in Nat /\ \A s \in Subscribers : slot[s] \in Nat
  BY SMTT(60), StreamNumbers DEF TypeOK, StreamTypeOK, ProviderTypeOK
<1>1. \A s : FreeSent(s)' = FreeSent(s) /\ Joins(s)' = Joins(s) /\ Waiting(s)' = Waiting(s)
  BY DEF FreeSent, Joins, Waiting
<1>2. \A s : Chance(s) \in {0, 1} /\ Pending(s) \in {0, 1}
             /\ Chance(s)' \in {0, 1} /\ Pending(s)' \in {0, 1}
  BY DEF Chance, Pending
<1>3. ASSUME NEW s \in Subscribers, faults <= faults',
             Chance(s)' + Pending(s)' + faults <= Chance(s) + Pending(s) + faults'
      PROVE  CreditOf(s)'
  BY <1>1, <1>3, CreditKept DEF Credit
<1>4. ASSUME NEW s \in Subscribers, faults <= faults',
             Chance(s)' + Pending(s)' <= 1, Chance(s)' + Pending(s)' # 0 => Chance(s) = 1
      PROVE  CreditOf(s)'
  <2> DEFINE c == Chance(s)
             d == Chance(s)'
             p == Pending(s)
             q == Pending(s)'
             g == faults
             h == faults'
  <2>1. /\ d + q <= 1 /\ (d + q # 0 => c = 1) /\ g <= h /\ g \in Nat /\ h \in Nat
        /\ c \in {0, 1} /\ d \in {0, 1} /\ p \in {0, 1} /\ q \in {0, 1}
    BY <1>0, <1>2, <1>4
  <2> HIDE DEF c, d, p, q, g, h
  <2>2. d + q + g <= c + p + h
    BY <2>1
  <2>3. QED
    BY <1>3, <1>4, <2>2 DEF c, d, p, q, g, h
<1>5. CASE Publish
  <2>1. Continue(FirstFrame) /\ UNCHANGED <<slot, lastPaid, faults>> /\ pub.pc = "idle"
    BY <1>5 DEF Publish, PublishObservation, FirstFrame, table, streamVars
  <2>2. ASSUME NEW s \in Subscribers
        PROVE  CreditOf(s)'
    <3>1. Spare(s)' => Spare(s)
      BY <2>1 DEF Spare, Members, Free
    <3>2. Spare(s) => Chance(s) = 1
      BY <2>1 DEF Chance, Sending
    <3>3. faults <= faults'
      BY <1>0, <2>1
    <3>4. QED
      BY <1>0, <1>4, <2>1, <3>1, <3>2, <3>3, FirstShape, ChanceContinues
  <2>3. QED
    BY <2>2 DEF Credit
<1>6. CASE Return /\ SendReturns
  <2> DEFINE p == [pub EXCEPT !.any = TRUE]
  <2>1. /\ Continue(p) /\ UNCHANGED slot /\ pub.pc = "send" /\ MarkFree /\ faults' = faults
        /\ pub.out # 0
    BY <1>6 DEF Return, SendReturns, table, streamVars
  <2>2. p \in Frames /\ p.pos = pub.pos
    BY <1>0, AnyShape
  <2> HIDE DEF p
  <2>3. ASSUME NEW s \in Subscribers
        PROVE  CreditOf(s)'
    <3>1. Spare(s)' => Spare(s)
      BY <1>0, <2>1, ProviderAssumption DEF Spare, Members, Free, MarkFree
    <3>2. faults <= faults'
      BY <1>0, <2>1
    <3>3. CASE Sending(s) /\ pub.held
      <4>1. lastPaid'[s] = pub.seq
        BY <1>0, <2>1, <3>3 DEF MarkFree, Sending
      <4>2. Chance(s)' = 0
        BY <1>0, <4>1, ProviderAssumption DEF Chance, Spare, Free
      <4>3. slot[s] = pub.pos
        BY <3>3 DEF Held, Sending
      <4>4. ~(slot[s] > p.pos)
        BY <1>0, <2>2, <4>3
      <4>5. Pending(s)' = 0
        BY <1>0, <2>1, <2>2, <3>1, <4>4, ChanceContinues
      <4>6. QED
        BY <1>4, <3>2, <4>2, <4>5
    <3>4. CASE ~(Sending(s) /\ pub.held)
      <4>1. Spare(s) => Chance(s) = 1
        BY <3>4 DEF Chance
      <4>2. QED
        BY <1>0, <1>4, <2>1, <2>2, <3>1, <3>2, <4>1, ChanceContinues
    <3>5. QED
      BY <3>3, <3>4
  <2>4. QED
    BY <2>3 DEF Credit
<1>7. CASE Raise /\ SendRaises
  <2>1. Continue(pub) /\ UNCHANGED <<slot, lastPaid>> /\ faults' = faults + 1
    BY <1>7 DEF Raise, SendRaises, table
  <2>2. ASSUME NEW s \in Subscribers
        PROVE  CreditOf(s)'
    <3>1. Spare(s)' => Spare(s)
      BY <2>1 DEF Spare, Members, Free
    <3>2. Chance(s)' + Pending(s)' <= 1
      BY <1>0, <2>1, <3>1, ChanceContinues
    <3> DEFINE c == Chance(s)
               d == Chance(s)'
               p == Pending(s)
               q == Pending(s)'
               g == faults
    <3>3. /\ d + q <= 1 /\ g \in Nat /\ faults' = g + 1
          /\ c \in {0, 1} /\ d \in {0, 1} /\ p \in {0, 1} /\ q \in {0, 1}
      BY <1>0, <1>2, <2>1, <3>2
    <3> HIDE DEF c, d, p, q, g
    <3>4. d + q + g <= c + p + (g + 1) /\ g <= g + 1
      BY <3>3
    <3>5. QED
      BY <1>3, <3>3, <3>4 DEF c, d, p, q, g
  <2>3. QED
    BY <2>2 DEF Credit
<1>8. CASE HeartbeatEnds \/ HeartbeatRaises
  <2>1. /\ pub' = Idle /\ pub.pc = "beat" /\ UNCHANGED <<slot, lastPaid>>
        /\ faults' = faults \/ faults' = faults + 1
    BY <1>8 DEF Publish, PublishObservation, Return, Raise, SendReturns, SendRaises,
       HeartbeatEnds, HeartbeatRaises, table, streamVars
  <2>2. ASSUME NEW s \in Subscribers
        PROVE  CreditOf(s)'
    <3>1. Chance(s)' = Chance(s) /\ Pending(s)' = 0
      BY <2>1, IdleShape DEF Chance, Pending, Sending, Spare, Members, Free
    <3>2. faults <= faults'
      BY <1>0, <2>1
    <3>3. Chance(s)' + Pending(s)' <= 1 /\ (Chance(s)' + Pending(s)' # 0 => Chance(s) = 1)
      BY <1>2, <3>1
    <3>4. QED
      BY <1>4, <3>2, <3>3
  <2>3. QED
    BY <2>2 DEF Credit
<1>9. QED
  BY <1>5, <1>6, <1>7, <1>8 DEF Return, Raise

(* A free observation that reaches the relay is the one that was pending. *)
LEMMA TransmitCredit ==
  ASSUME TypeOK, TypeOK', Credit, Transmit
  PROVE  Credit'
<1>0. /\ pub \in Frames /\ Len(sent) \in Nat /\ DOMAIN sent = 1 .. Len(sent)
      /\ made \in [Subscribers -> Seq(Requests)] /\ sent \in Seq(Deliveries)
      /\ faults \in Nat
  BY StreamNumbers DEF TypeOK, StreamTypeOK
<1>1. /\ EventReachesRelay(Len(sent) + 1) /\ sent' = Append(sent, Outgoing)
      /\ UNCHANGED <<made, inbox, slot, lastPaid, faults>>
  BY DEF Transmit, EventReachesRelay, table
<1>2. /\ pub'.out = Len(sent) + 1 /\ pub.out = 0 /\ pub.pc # "idle"
      /\ pub'.pc = pub.pc /\ pub'.cur = pub.cur /\ pub'.free = pub.free
      /\ pub'.held = pub.held
  BY <1>0, <1>1, ReachShape
<1>3. /\ DOMAIN sent' = DOMAIN sent \union {Len(sent) + 1}
      /\ sent'[Len(sent) + 1] = Outgoing /\ Len(sent) + 1 # 0
      /\ \A k \in DOMAIN sent : sent'[k] = sent[k] /\ k # Len(sent) + 1
  BY <1>0, <1>1
<1>4. \A s : /\ Joins(s)' = Joins(s) /\ Waiting(s)' = Waiting(s)
             /\ (Sending(s)' <=> Sending(s)) /\ Chance(s)' = Chance(s)
  BY <1>1, <1>2 DEF Joins, Waiting, Sending, Chance, Spare, Members, Free
<1>5. \A s : Chance(s) \in {0, 1} /\ Pending(s) \in {0, 1}
  BY DEF Chance, Pending
<1>6. \A s : Pending(s)' = 0
  BY <1>2, <1>3 DEF Pending
<1>7. ASSUME NEW s \in Subscribers
      PROVE  CreditOf(s)'
  <2>1. Outgoing.to = s /\ Outgoing.kind = "free" <=> Sending(s)
    BY <1>0, <1>2 DEF Outgoing, Sending, Frames
  <2>2. CASE Sending(s)
    <3>1. FreeSent(s)' = FreeSent(s) \union {Len(sent) + 1} /\ Len(sent) + 1 \notin FreeSent(s)
      BY <1>3, <2>1, <2>2 DEF FreeSent
    <3>2. /\ IsFiniteSet(FreeSent(s)) /\ Cardinality(FreeSent(s)) \in Nat
          /\ Cardinality(Waiting(s)) \in Nat /\ Cardinality(Joins(s)) \in Nat
      BY <1>0, CreditTerms
    <3>3. Cardinality(FreeSent(s)') = Cardinality(FreeSent(s)) + 1
      BY <3>1, <3>2, FS_AddElement
    <3>4. Pending(s) = 1
      BY <1>2, <2>2 DEF Pending
    <3> DEFINE f == Cardinality(FreeSent(s))
               w == Cardinality(Waiting(s))
               j == Cardinality(Joins(s))
               c == Chance(s)
               g == faults
    <3>5. f + w + c + 1 <= j + g
      BY <3>4 DEF Credit, CreditOf
    <3>6. f \in Nat /\ w \in Nat /\ j \in Nat /\ g \in Nat /\ c \in {0, 1}
      BY <1>0, <1>5, <3>2
    <3> HIDE DEF f, w, j, c, g
    <3>7. (f + 1) + w + c + 0 <= j + g
      BY <3>5, <3>6
    <3>8. QED
      BY <1>1, <1>4, <1>6, <3>3, <3>7 DEF CreditOf, f, w, j, c, g
  <2>3. CASE ~Sending(s)
    <3>1. FreeSent(s)' = FreeSent(s)
      BY <1>3, <2>1, <2>3 DEF FreeSent
    <3>2. Pending(s) = 0
      BY <2>3 DEF Pending
    <3>3. faults' = faults /\ Chance(s)' = Chance(s) /\ Pending(s)' = Pending(s)
      BY <1>1, <1>4, <1>6, <3>2
    <3>4. /\ faults <= faults'
          /\ Chance(s)' + Pending(s)' + faults <= Chance(s) + Pending(s) + faults'
      BY <1>0, <1>5, <3>3
    <3>5. QED
      BY <1>4, <3>1, <3>4, CreditKept DEF Credit
  <2>4. QED
    BY <2>2, <2>3
<1>8. QED
  BY <1>7 DEF Credit

(* After a restart the relay replays at most one announcement of each, at  *)
(* the price of the restart.                                               *)
LEMMA RestartCredit ==
  ASSUME TypeOK, TypeOK', Credit, ProviderRestarts
  PROVE  Credit'
<1>0. /\ made \in [Subscribers -> Seq(Requests)] /\ sent \in Seq(Deliveries)
      /\ faults \in Nat
  BY StreamNumbers DEF TypeOK, StreamTypeOK
<1>1. /\ UNCHANGED <<made, sent>> /\ inbox' = Stored /\ faults' = faults + 1
      /\ pub' = Idle /\ Members' = {}
  BY DEF ProviderRestarts, ProviderRestart, Members
<1>2. ASSUME NEW s \in Subscribers
      PROVE  CreditOf(s)'
  <2>1. FreeSent(s)' = FreeSent(s) /\ Joins(s)' = Joins(s)
    BY <1>1 DEF FreeSent, Joins
  <2>2. Chance(s)' = 0 /\ Pending(s)' = 0
    BY <1>1, IdleShape DEF Chance, Pending, Spare, Sending
  <2>3. \A i, k \in Waiting(s)' : i = k
    <3>1. SUFFICES ASSUME NEW i \in Waiting(s)', NEW k \in Waiting(s)' PROVE i = k
      OBVIOUS
    <3>2. /\ i \in Joins(s) /\ <<s, i>> \in Stored /\ k \in Joins(s) /\ <<s, k>> \in Stored
      BY <1>1, <2>1, <3>1 DEF Waiting
    <3>3. /\ i \in DOMAIN made[s] /\ k \in DOMAIN made[s] /\ Latest(s, i) /\ Latest(s, k)
          /\ made[s][i].kind = "sub" /\ made[s][k].kind = "sub"
      BY <3>2, StoredShape DEF Joins
    <3>4. i <= k /\ k <= i /\ i \in Nat /\ k \in Nat
      BY <3>3, LogIndices DEF Latest, SameKind
    <3>5. QED
      BY <3>4
  <2>4. Cardinality(Waiting(s)') \in {0, 1}
    <3>1. CASE Waiting(s)' = {}
      BY <3>1, FS_EmptySet
    <3>2. ASSUME NEW k \in Waiting(s)'
          PROVE  Cardinality(Waiting(s)') = 1
      <4>1. Waiting(s)' = {k}
        BY <2>3, <3>2
      <4>2. QED
        BY <4>1, FS_Singleton
    <3>3. QED
      BY <3>1, <3>2
  <2>5. /\ Cardinality(FreeSent(s)) \in Nat /\ Cardinality(Waiting(s)) \in Nat
        /\ Cardinality(Joins(s)) \in Nat /\ Chance(s) \in {0, 1} /\ Pending(s) \in {0, 1}
    BY <1>0, CreditTerms
  <2> DEFINE f == Cardinality(FreeSent(s))
             w == Cardinality(Waiting(s))
             v == Cardinality(Waiting(s)')
             j == Cardinality(Joins(s))
             c == Chance(s)
             p == Pending(s)
             g == faults
  <2>6. f + w + c + p <= j + g
    BY DEF Credit, CreditOf
  <2>7. /\ f \in Nat /\ w \in Nat /\ j \in Nat /\ g \in Nat
        /\ v \in {0, 1} /\ c \in {0, 1} /\ p \in {0, 1}
    BY <1>0, <2>4, <2>5
  <2> HIDE DEF f, w, v, j, c, p, g
  <2>8. f + v + 0 + 0 <= j + (g + 1)
    BY <2>6, <2>7
  <2>9. QED
    BY <1>1, <2>1, <2>2, <2>8 DEF CreditOf, f, v, j, g
<1>3. QED
  BY <1>2 DEF Credit

(* Free observations are accounted for in every step. *)
LEMMA CreditStep ==
  ASSUME TypeOK, Held, Credit, [Next]_vars
  PROVE  Credit'
<1>0. TypeOK' /\ faults \in Nat
  BY TypeStep, StreamNumbers
<1>1. \A s : Chance(s) \in {0, 1} /\ Pending(s) \in {0, 1}
  BY DEF Chance, Pending
<1>2. ASSUME UNCHANGED providerVars, UNCHANGED made, inbox' \subseteq inbox, faults <= faults',
             faults' \in Nat, \A s \in Subscribers : FreeSent(s)' = FreeSent(s)
      PROVE  Credit'
  <2>1. SUFFICES ASSUME NEW s \in Subscribers PROVE CreditOf(s)'
    BY DEF Credit
  <2>2. Joins(s)' = Joins(s) /\ Waiting(s)' \subseteq Waiting(s)
    BY <1>2 DEF Joins, Waiting
  <2>3. Chance(s)' = Chance(s) /\ Pending(s)' = Pending(s)
    BY <1>2 DEF providerVars, Chance, Pending, Sending, Spare, Members, Free
  <2>4. Chance(s)' + Pending(s)' + faults <= Chance(s) + Pending(s) + faults'
    BY <1>0, <1>1, <1>2, <2>3
  <2>5. QED
    BY <1>0, <1>2, <2>2, <2>4, CreditKept DEF Credit
<1>3. CASE Elsewhere
  <2>1. /\ UNCHANGED <<providerVars, sent>> /\ faults <= faults' /\ faults' \in Nat
        /\ \A s \in Subscribers : FreeSent(s)' = FreeSent(s)
    BY <1>0, <1>3 DEF Elsewhere, FreeSent
  <2>2. CASE UNCHANGED <<made, inbox>> \/ ProviderReconnects
    <3>1. UNCHANGED made /\ inbox' \subseteq inbox
      BY <2>2 DEF ProviderReconnects
    <3>2. QED
      BY <1>2, <2>1, <3>1
  <2>3. ASSUME NEW s \in Subscribers, NEW r \in Requests, Emit(s, r)
        PROVE  Credit'
    BY <1>0, <2>1, <2>3, EmitCredit
  <2>4. ASSUME NEW s \in Subscribers, NEW k \in DOMAIN made[s], Handle(s, k)
        PROVE  Credit'
    BY <1>0, <2>4, HandleCredit
  <2>5. CASE ProviderRestarts
    BY <1>0, <2>5, RestartCredit
  <2>6. QED
    BY <2>2, <2>3, <2>4, <2>5, LogKinds
<1>4. ASSUME NEW s \in Subscribers, NEW k \in DOMAIN made[s], Handle(s, k)
      PROVE  Credit'
  BY <1>0, <1>4, HandleCredit
<1>5. CASE Publish \/ Return \/ Raise
  <2>1. UNCHANGED <<made, inbox, sent>>
    BY <1>5 DEF Publish, Return, Raise, streamVars
  <2>2. QED
    BY <1>0, <1>5, <2>1, LoopCredit
<1>6. CASE Transmit
  BY <1>0, <1>6, TransmitCredit
<1>7. CASE ProviderRestarts
  BY <1>0, <1>7, RestartCredit
<1>8. ASSUME NEW s \in Subscribers, NEW n \in 1 .. published, Resend(s, n)
      PROVE  Credit'
  <2>1. /\ UNCHANGED <<providerVars, made, inbox, faults>>
        /\ \E d : sent' = Append(sent, d) /\ d.kind # "free"
    BY <1>8 DEF Resend
  <2>2. \A t \in Subscribers : FreeSent(t)' = FreeSent(t)
    <3>1. PICK d : sent' = Append(sent, d) /\ d.kind # "free"
      BY <2>1
    <3>2. /\ DOMAIN sent' = DOMAIN sent \union {Len(sent) + 1}
          /\ sent'[Len(sent) + 1] = d
          /\ \A k \in DOMAIN sent : sent'[k] = sent[k] /\ k # Len(sent) + 1
      BY SMTT(60), <3>1, StreamNumbers
    <3>3. QED
      BY <3>1, <3>2 DEF FreeSent
  <2>3. QED
    BY <1>0, <1>2, <2>1, <2>2
<1>9. QED
  BY <1>3, <1>4, <1>5, <1>6, <1>7, <1>8, StepKinds

(* At first nothing is sent, announced or in the table. *)
LEMMA CreditInit == Init => Held /\ Credit
<1>1. SUFFICES ASSUME Init PROVE Held /\ Credit
  OBVIOUS
<1>2. Held
  BY <1>1, IdleShape DEF Init, ProviderInit, Held
<1>3. ASSUME NEW s \in Subscribers
      PROVE  CreditOf(s)
  <2>1. FreeSent(s) = {} /\ Joins(s) = {} /\ Waiting(s) = {}
    BY <1>1 DEF Init, FreeSent, Joins, Waiting
  <2>2. Chance(s) = 0 /\ Pending(s) = 0 /\ faults = 0
    BY <1>1, IdleShape DEF Init, ProviderInit, Chance, Pending, Spare, Members, Sending
  <2>3. QED
    BY <2>1, <2>2, FS_EmptySet DEF CreditOf
<1>4. QED
  BY <1>2, <1>3 DEF Credit

(* A subscriber is given at most one free observation for each announcement *)
(* it made, and one more for each fault: for every number of subscribers    *)
(* and relays, wherever in the loop its announcements, withdrawals and      *)
(* payments are handled.                                                    *)
THEOREM FreeSamplesAlways == Spec => []FreeSamplesBounded
<1>1. TypeOK /\ Credit => FreeSamplesBounded
  <2>1. SUFFICES ASSUME TypeOK, Credit, NEW s \in Subscribers
                 PROVE  Cardinality(FreeSent(s)) <= Cardinality(Joins(s)) + faults
    BY DEF FreeSamplesBounded, FreeSent
  <2>2. /\ made \in [Subscribers -> Seq(Requests)] /\ sent \in Seq(Deliveries)
        /\ faults \in Nat
    BY <2>1, StreamNumbers DEF TypeOK, StreamTypeOK
  <2>3. /\ Cardinality(FreeSent(s)) \in Nat /\ Cardinality(Waiting(s)) \in Nat
        /\ Cardinality(Joins(s)) \in Nat /\ Chance(s) \in {0, 1} /\ Pending(s) \in {0, 1}
    BY <2>2, CreditTerms
  <2>4. Cardinality(FreeSent(s)) + Cardinality(Waiting(s)) + Chance(s) + Pending(s)
          <= Cardinality(Joins(s)) + faults
    BY <2>1 DEF Credit, CreditOf
  <2>5. QED
    BY <2>2, <2>3, <2>4
<1>2. Init => TypeOK
  BY IdleType DEF Init, ProviderInit, TypeOK, ProviderTypeOK, StreamTypeOK
<1>3. TypeOK /\ Held /\ Credit /\ [Next]_vars => Held' /\ Credit'
  BY HeldStep, CreditStep
<1>4. QED
  BY <1>1, <1>2, <1>3, TypeStep, CreditInit, PTL DEF Spec

-----------------------------------------------------------------------------
(* What a subscriber pays for, and what the table makes of it. *)

Pays(s) == {k \in DOMAIN made[s] : made[s][k].kind = "pay"}

(* A payment is for the observation after one that was received; so will   *)
(* the payment being prepared be.  What is on its way is later than what   *)
(* was received before, and the event of the pending send is not received. *)
Receipts ==
  /\ \A s \in Subscribers : \A k \in Pays(s) :
       \E n \in Nat : Has(s, n) /\ made[s][k].seq = n + 1
  /\ \A s \in Subscribers : due[s] # NoSeq => Has(s, due[s])
  /\ \A k \in transit, j \in received : sent[j].to = sent[k].to => j < k
  /\ pub.out \notin received

(* So payments rise, as long as nothing is sent again on purpose. *)
Rising ==
  resends = 0 =>
    \A s \in Subscribers :
      /\ \A j, k \in Pays(s) : j <= k => made[s][j].seq <= made[s][k].seq
      /\ due[s] # NoSeq => \A k \in Pays(s) : made[s][k].seq <= due[s] + 1

(* Nothing is sent, received or paid in the step. *)
Aside ==
  /\ UNCHANGED <<sent, transit, received, due, resends>>
  /\ pub'.out \in {0, pub.out}
  /\ \A s \in Subscribers :
       Pays(s)' = Pays(s) /\ \A k \in Pays(s) : made'[s][k] = made[s][k]

(* The steps of a paid stream, seen from the readers. *)
LEMMA ReaderKinds ==
  ASSUME TypeOK, [Next]_vars
  PROVE  \/ Aside
         \/ \E s \in Subscribers : AutoPay(s) \/ AutoPayFails(s) \/ SubscriberReconnects(s)
         \/ \E k \in transit : Receive(k)
         \/ Transmit
         \/ \E s \in Subscribers, n \in 1 .. published : Resend(s, n)
<1>0. pub \in Frames /\ ProviderTypeOK
  BY StreamNumbers DEF TypeOK
<1>1. ASSUME UNCHANGED <<made, sent, transit, received, due, resends>>, pub'.out \in {0, pub.out}
      PROVE  Aside
  BY <1>1 DEF Aside, Pays
<1>2. ASSUME NEW p \in Frames, Continue(p)
      PROVE  pub'.out = 0
  BY <1>0, <1>2, ContinueShape, IdleShape DEF WalksTo
<1>3. ASSUME NEW s \in Subscribers, NEW r \in Requests, r.kind # "pay", Emit(s, r),
             UNCHANGED <<sent, transit, received, due, resends, pub>>
      PROVE  Aside
  <2>0. PICK n : n = Len(made[s]) + 1
    OBVIOUS
  <2>1. /\ made'[s][n] = r /\ DOMAIN made'[s] = DOMAIN made[s] \union {n}
        /\ \A k \in DOMAIN made[s] : made'[s][k] = made[s][k]
        /\ \A t \in Subscribers : t # s => made'[t] = made[t]
    BY <1>3, <2>0, EmitShape
  <2>2. \A t \in Subscribers :
          Pays(t)' = Pays(t) /\ \A k \in Pays(t) : made'[t][k] = made[t][k]
    <3>1. TAKE t \in Subscribers
    <3>2. CASE t = s
      BY <1>3, <2>1, <3>2 DEF Pays
    <3>3. CASE t # s
      BY <2>1, <3>3 DEF Pays
    <3>4. QED
      BY <3>2, <3>3
  <2>3. QED
    BY <1>3, <2>2 DEF Aside
<1>4. ASSUME NEW s \in Subscribers, SubscriberNext(s)
      PROVE  Aside \/ AutoPay(s) \/ AutoPayFails(s) \/ SubscriberReconnects(s)
  <2>1. CASE Subscribe(s)
    BY <1>3, <2>1 DEF Subscribe, Requests, providerVars
  <2>2. CASE Unsubscribe(s)
    BY <1>3, <2>2 DEF Unsubscribe, Requests, providerVars
  <2>3. CASE Forget(s)
    BY <1>1, <2>3 DEF Forget, providerVars
  <2>4. QED
    BY <1>4, <2>1, <2>2, <2>3 DEF SubscriberNext
<1>5. ASSUME NEW e \in inbox, Handle(e[1], e[2])
      PROVE  Aside
  <2>1. /\ UNCHANGED <<made, sent, transit, received, due, resends>>
        /\ pub'.out = pub.out
    BY <1>0, <1>5, ReleaseShape DEF Handle, RecordSubscription, DropSubscription, RecordPayment
  <2>2. QED
    BY <1>1, <2>1
<1>6. CASE Publish
  <2>1. Continue(FirstFrame)
    BY <1>6 DEF Publish, PublishObservation, FirstFrame
  <2>2. pub'.out = 0
    BY <1>0, <1>2, <2>1, FirstShape
  <2>3. QED
    BY <1>1, <1>6, <2>2 DEF Publish, streamVars
<1>7. CASE Return \/ Raise
  <2>1. ASSUME SendReturns
        PROVE  pub'.out = 0
    <3> DEFINE p == [pub EXCEPT !.any = TRUE]
    <3>1. Continue(p) /\ p \in Frames
      BY <1>0, <2>1, AnyShape DEF SendReturns
    <3> HIDE DEF p
    <3>2. QED
      BY <1>2, <3>1
  <2>2. SendRaises => pub'.out = 0
    BY <1>0, <1>2 DEF SendRaises
  <2>3. HeartbeatEnds \/ HeartbeatRaises => pub'.out = 0
    BY IdleShape DEF HeartbeatEnds, HeartbeatRaises
  <2>4. pub'.out = 0
    BY <1>7, <2>1, <2>2, <2>3 DEF Return, Raise
  <2>5. QED
    BY <1>1, <1>7, <2>4 DEF Return, Raise, streamVars
<1>8. CASE ProviderRestarts
  BY <1>1, <1>8, IdleShape DEF ProviderRestarts, ProviderRestart
<1>9. CASE ProviderReconnects
  BY <1>1, <1>9 DEF ProviderReconnects, providerVars
<1>10. CASE UNCHANGED vars
  BY <1>1, <1>10 DEF vars, streamVars, providerVars
<1>11. QED
  BY <1>4, <1>5, <1>6, <1>7, <1>8, <1>9, <1>10 DEF Next, Rest

(* What is received stays received. *)
LEMMA HasStays ==
  ASSUME received \subseteq received', \A k \in received : sent'[k] = sent[k]
  PROVE  \A s, n : Has(s, n) => \E k \in received' : sent'[k].to = s /\ sent'[k].seq = n
BY DEF Has

(* One relay hands over in order, so what a payment says is right, and the *)
(* payments of a subscriber rise.                                          *)
LEMMA ReceiptsStep ==
  ASSUME OneRelay, TypeOK, TypeOK', Sequenced, Receipts, Rising, [Next]_vars
  PROVE  Receipts' /\ Rising'
<1> DEFINE Got(s, n) == \E k \in received' : sent'[k].to = s /\ sent'[k].seq = n
<1>0. /\ sent \in Seq(Deliveries) /\ Len(sent) \in Nat /\ DOMAIN sent = 1 .. Len(sent)
      /\ transit \subseteq DOMAIN sent /\ received \subseteq DOMAIN sent
      /\ due \in [Subscribers -> Nat \union {NoSeq}] /\ resends \in Nat
      /\ \A k \in DOMAIN sent : sent[k].seq \in Nat
      /\ \A s \in Subscribers : \A k \in Pays(s) : made[s][k].seq \in Nat /\ k \in Nat
      /\ pub \in Frames /\ pub.out \in Nat
  BY StreamNumbers, LogIndices DEF TypeOK, StreamTypeOK, Pays
<1>1. CASE Aside
  <2>1. Receipts'
    <3>1. /\ UNCHANGED <<sent, transit, received, due>> /\ pub'.out \in {0, pub.out}
          /\ \A s \in Subscribers :
               Pays(s)' = Pays(s) /\ \A k \in Pays(s) : made'[s][k] = made[s][k]
      BY <1>1 DEF Aside
    <3>2. pub'.out \notin received'
      BY <1>0, <3>1 DEF Receipts
    <3>3. \A t, m : Got(t, m) <=> Has(t, m)
      BY <3>1 DEF Has
    <3>4. \A s \in Subscribers : \A k \in Pays(s)' :
            \E n \in Nat : Got(s, n) /\ made'[s][k].seq = n + 1
      BY <3>1, <3>3 DEF Receipts
    <3>5. \A k \in transit', j \in received' : sent'[j].to = sent'[k].to => j < k
      BY <3>1 DEF Receipts
    <3>6. \A s \in Subscribers : due'[s] # NoSeq => Got(s, due'[s])
      BY <3>1, <3>3 DEF Receipts
    <3>7. QED
      BY <3>2, <3>4, <3>5, <3>6 DEF Receipts, Has
  <2>2. Rising'
    BY <1>1 DEF Aside, Rising
  <2>3. QED
    BY <2>1, <2>2
<1>2. ASSUME NEW s \in Subscribers, AutoPay(s)
      PROVE  Receipts' /\ Rising'
  <2>0. PICK n, r : n = Len(made[s]) + 1 /\ r = [kind |-> "pay", seq |-> due[s] + 1]
    OBVIOUS
  <2>1. /\ due[s] \in Nat /\ due' = [due EXCEPT ![s] = NoSeq] /\ Emit(s, r)
        /\ UNCHANGED <<pub, sent, transit, received, resends>>
    BY <1>0, <1>2, <2>0 DEF AutoPay, providerVars
  <2>2. /\ n \in Nat /\ made'[s][n] = r /\ DOMAIN made'[s] = DOMAIN made[s] \union {n}
        /\ \A k \in DOMAIN made[s] : made'[s][k] = made[s][k] /\ k \in Nat /\ k < n
        /\ \A t \in Subscribers : t # s => made'[t] = made[t]
    BY <2>0, <2>1, EmitShape
  <2>3. /\ Pays(s)' = Pays(s) \union {n}
        /\ \A k \in Pays(s) : made'[s][k] = made[s][k] /\ k \in Nat /\ k < n
        /\ \A t \in Subscribers : t # s => Pays(t)' = Pays(t)
    BY <2>0, <2>2 DEF Pays
  <2>4. r.seq = due[s] + 1 /\ due'[s] = NoSeq /\ Has(s, due[s])
    BY <1>0, <1>2, <2>0, <2>1 DEF AutoPay, Receipts
  <2>5. \A t, m : Got(t, m) <=> Has(t, m)
    BY <2>1 DEF Has
  <2>6. \A t \in Subscribers : \A k \in Pays(t)' :
          \E m \in Nat : Got(t, m) /\ made'[t][k].seq = m + 1
    <3>1. TAKE t \in Subscribers
    <3>2. TAKE k \in Pays(t)'
    <3>3. CASE t = s /\ k = n
      BY <2>1, <2>2, <2>4, <2>5, <3>3
    <3>4. CASE ~(t = s /\ k = n)
      <4>1. k \in Pays(t) /\ made'[t][k] = made[t][k]
        BY <2>2, <2>3, <3>2, <3>4
      <4>2. QED
        BY <2>5, <4>1 DEF Receipts
    <3>5. QED
      BY <3>3, <3>4
  <2>7. \A t \in Subscribers : due'[t] # NoSeq => Got(t, due'[t])
    <3>1. \A t \in Subscribers : t # s => due'[t] = due[t]
      BY <1>0, <2>1
    <3>2. QED
      BY <2>4, <2>5, <3>1 DEF Receipts
  <2>8. Receipts'
    <3>1. /\ \A k \in transit', j \in received' : sent'[j].to = sent'[k].to => j < k
          /\ pub'.out \notin received'
      BY <2>1 DEF Receipts
    <3>2. QED
      BY <2>6, <2>7, <3>1 DEF Receipts, Has
  <2>9. ASSUME resends = 0, NEW t \in Subscribers
        PROVE  /\ \A j, k \in Pays(t)' : j <= k => made'[t][j].seq <= made'[t][k].seq
               /\ due'[t] # NoSeq => \A k \in Pays(t)' : made'[t][k].seq <= due'[t] + 1
    <3>1. CASE t # s
      BY <1>0, <2>1, <2>2, <2>3, <2>9, <3>1 DEF Rising
    <3>2. CASE t = s
      <4>1. \A k \in Pays(s) : made[s][k].seq <= due[s] + 1
        BY <1>2, <2>9 DEF Rising, AutoPay
      <4>2. \A j, k \in Pays(s) : j <= k => made[s][j].seq <= made[s][k].seq
        BY <2>9 DEF Rising
      <4>3. \A j, k \in Pays(s)' : j <= k => made'[s][j].seq <= made'[s][k].seq
        <5>1. TAKE j, k \in Pays(s)'
        <5>2. CASE k = n
          <6>1. made'[s][j].seq = r.seq \/ made'[s][j].seq <= due[s] + 1
            BY <2>2, <2>3, <4>1, <5>1
          <6>2. QED
            BY <2>1, <2>2, <2>4, <5>2, <6>1
        <5>3. CASE j = n /\ k # n
          BY <2>2, <2>3, <5>1, <5>3
        <5>4. CASE j # n /\ k # n
          BY <2>3, <4>2, <5>1, <5>4
        <5>5. QED
          BY <5>2, <5>3, <5>4
      <4>4. QED
        BY <2>4, <3>2, <4>3
    <3>3. QED
      BY <3>1, <3>2
  <2>10. QED
    BY <2>1, <2>8, <2>9 DEF Rising
<1>3. ASSUME UNCHANGED <<made, received>>, pub'.out \notin received,
             resends' = 0 => resends = 0,
             \A k \in received : sent'[k] = sent[k] /\ sent'[k].to = sent[k].to,
             \A t \in Subscribers : due'[t] \in {due[t], NoSeq},
             \A k \in transit', j \in received : sent'[j].to = sent'[k].to => j < k
      PROVE  Receipts' /\ Rising'
  <2>1. \A t, m : Has(t, m) => Got(t, m)
    BY <1>3, HasStays
  <2>2. \A t : Pays(t)' = Pays(t)
    BY <1>3 DEF Pays
  <2>3. Receipts'
    BY <1>3, <2>1, <2>2 DEF Receipts, Has
  <2>4. Rising'
    BY <1>3, <2>2 DEF Rising
  <2>5. QED
    BY <2>3, <2>4
<1>4. ASSUME NEW s \in Subscribers, AutoPayFails(s)
      PROVE  Receipts' /\ Rising'
  BY <1>0, <1>3, <1>4 DEF AutoPayFails, providerVars, Receipts
<1>5. ASSUME NEW s \in Subscribers, SubscriberReconnects(s)
      PROVE  Receipts' /\ Rising'
  <2>1. /\ UNCHANGED <<made, pub, received, resends, sent, due>>
        /\ transit' \subseteq transit \union {k \in DOMAIN sent \ received : k = Len(sent)}
    BY <1>5 DEF SubscriberReconnects, providerVars
  <2>2. \A k \in transit', j \in received : sent[j].to = sent[k].to => j < k
    <3>1. TAKE k \in transit', j \in received
    <3>2. CASE k \in transit
      BY <3>2 DEF Receipts
    <3>3. CASE k = Len(sent) /\ k \notin received
      BY <1>0, <3>3
    <3>4. QED
      BY <2>1, <3>2, <3>3
  <2>3. pub'.out \notin received
    BY <2>1 DEF Receipts
  <2>4. QED
    BY <1>0, <1>3, <2>1, <2>2, <2>3
<1>6. ASSUME NEW k \in transit, Receive(k)
      PROVE  Receipts' /\ Rising'
  <2>0. PICK s : s = sent[k].to
    OBVIOUS
  <2>1. /\ UNCHANGED <<made, pub, sent, resends>> /\ transit' = transit \ {k}
        /\ received' = received \union {k} /\ due[s] = NoSeq
        /\ \A t \in Subscribers : t # s => due'[t] = due[t]
        /\ s \in Subscribers => due'[s] \in {NoSeq, sent[k].seq}
        /\ pub.out # k /\ \A j \in transit : sent[j].to = s => k <= j
    BY <1>0, <1>6, <2>0 DEF Receive, Deliverable, providerVars
  <2>2. /\ \A t, m : Has(t, m) => Got(t, m)
        /\ Got(s, sent[k].seq)
    BY <2>0, <2>1 DEF Has
  <2>3. \A t : Pays(t)' = Pays(t)
    BY <2>1 DEF Pays
  <2>4. \A i \in transit', j \in received' : sent[j].to = sent[i].to => j < i
    <3>1. TAKE i \in transit', j \in received'
    <3>2. CASE j = k
      BY <1>0, <2>0, <2>1, <3>1, <3>2
    <3>3. CASE j \in received
      BY <2>1, <3>1, <3>3 DEF Receipts
    <3>4. QED
      BY <2>1, <3>1, <3>2, <3>3
  <2>5. \A t \in Subscribers : due'[t] # NoSeq => Got(t, due'[t])
    <3>1. TAKE t \in Subscribers
    <3>2. CASE t # s
      BY <2>1, <2>2, <3>2 DEF Receipts
    <3>3. CASE t = s /\ due'[s] = sent[k].seq
      BY <2>2, <3>3
    <3>4. QED
      BY <2>1, <3>2, <3>3
  <2>6. Receipts'
    <3>1. \A t \in Subscribers : \A i \in Pays(t)' :
            \E n \in Nat : Got(t, n) /\ made'[t][i].seq = n + 1
      <4>1. TAKE t \in Subscribers
      <4>2. TAKE i \in Pays(t)'
      <4>0. i \in Pays(t)
        BY <2>3, <4>2
      <4>3. PICK n \in Nat : Has(t, n) /\ made[t][i].seq = n + 1
        BY <4>0 DEF Receipts
      <4>4. Got(t, n) /\ made'[t][i].seq = n + 1
        BY <2>1, <2>2, <4>3
      <4>5. QED
        BY <4>3, <4>4
    <3>2. pub'.out \notin received'
      BY <2>1 DEF Receipts
    <3>3. \A i \in transit', j \in received' : sent'[j].to = sent'[i].to => j < i
      BY <2>1, <2>4
    <3>4. QED
      BY <2>5, <3>1, <3>2, <3>3 DEF Receipts, Has
  <2>7. ASSUME resends = 0, s \in Subscribers, NEW i \in Pays(s)
        PROVE  made[s][i].seq <= sent[k].seq + 1
    <3>1. PICK n \in Nat : Has(s, n) /\ made[s][i].seq = n + 1
      BY <2>7 DEF Receipts
    <3>2. PICK j \in received : sent[j].to = s /\ sent[j].seq = n
      BY <3>1 DEF Has
    <3>3. j < k /\ j \in DOMAIN sent /\ k \in DOMAIN sent
      BY <1>0, <2>0, <3>2 DEF Receipts
    <3>4. n <= sent[k].seq
      <4>1. sent[j].to = sent[k].to /\ j < k
        BY <2>0, <3>2, <3>3
      <4> QED
        BY <1>0, <2>7, <3>2, <3>3, <4>1 DEF Sequenced
    <3>5. QED
      BY <1>0, <3>1, <3>3, <3>4
  <2>8. Rising'
    <3>1. ASSUME resends = 0, NEW t \in Subscribers, due'[t] # NoSeq, NEW i \in Pays(t)
          PROVE  made[t][i].seq <= due'[t] + 1
      <4>1. CASE t # s
        BY <2>1, <3>1, <4>1 DEF Rising
      <4>2. CASE t = s
        BY <2>1, <2>7, <3>1, <4>2
      <4>3. QED
        BY <4>1, <4>2
    <3>2. QED
      BY <2>1, <2>3, <3>1 DEF Rising
  <2>9. QED
    BY <2>6, <2>8
<1>7. CASE Transmit
  <2>1. /\ EventReachesRelay(Len(sent) + 1) /\ sent' = Append(sent, Outgoing)
        /\ UNCHANGED <<made, received, resends, due>>
        /\ transit' \subseteq transit \union {Len(sent) + 1}
    BY <1>7 DEF Transmit
  <2>2. pub'.out = Len(sent) + 1
    BY <1>0, <2>1, ReachShape
  <2>3. /\ \A k \in DOMAIN sent : sent'[k] = sent[k] /\ k < Len(sent) + 1
    BY <1>0, <2>1
  <2>4. \A k \in transit', j \in received : sent'[j].to = sent'[k].to => j < k
    BY <1>0, <2>1, <2>3 DEF Receipts
  <2>5. pub'.out \notin received
    BY <1>0, <2>2, <2>3
  <2>6. QED
    BY <1>0, <1>3, <2>1, <2>3, <2>4, <2>5
<1>8. ASSUME NEW s \in Subscribers, NEW n \in 1 .. published, Resend(s, n)
      PROVE  Receipts' /\ Rising'
  <2>1. PICK d : sent' = Append(sent, d)
    BY <1>8 DEF Resend
  <2>2. /\ UNCHANGED <<made, received, pub, due>> /\ resends' # 0
        /\ transit' = transit \union {Len(sent) + 1}
    BY <1>0, <1>8 DEF Resend, providerVars
  <2>3. /\ \A k \in DOMAIN sent : sent'[k] = sent[k] /\ k < Len(sent) + 1
    BY <1>0, <2>1
  <2>4. \A k \in transit', j \in received : sent'[j].to = sent'[k].to => j < k
    BY <1>0, <2>2, <2>3 DEF Receipts
  <2>5. pub'.out \notin received
    BY <2>2 DEF Receipts
  <2>6. QED
    BY <1>0, <1>3, <2>2, <2>3, <2>4, <2>5
<1>9. QED
  BY <1>1, <1>2, <1>4, <1>5, <1>6, <1>7, <1>8, ReaderKinds

(* Every payment of s has been handled. *)
Settled(s) == \A k \in Pays(s) : <<s, k>> \notin inbox

(* Who is not in the table has nothing paid there.  What a member has paid *)
(* is covered by the mark, once it is handled, if there is a mark at all.  *)
GrantedTo(s) ==
  /\ s \notin Members => Free(s)
  /\ resends = 0 /\ s \in Members /\ ~Free(s) /\ Settled(s) =>
       \A k \in Pays(s) : made[s][k].seq <= lastPaid[s] \/ SentTwice(s)

Granted == \A s \in Subscribers : GrantedTo(s)

LEMMA TwiceStays ==
  ASSUME LogsGrow
  PROVE  \A s : SentTwice(s) => SentTwice(s)'
BY DEF LogsGrow, SentTwice

(* Most steps touch neither the entry of s nor its payments. *)
LEMMA GrantKept ==
  ASSUME TypeOK, Granted, LogsGrow, resends' = 0 => resends = 0, NEW s \in Subscribers,
         s \in Members' <=> s \in Members, lastPaid'[s] = lastPaid[s],
         Settled(s)' => Settled(s) /\ Pays(s)' = Pays(s)
  PROVE  GrantedTo(s)'
<1>1. Free(s)' <=> Free(s)
  BY DEF Free
<1>2. SUFFICES ASSUME resends' = 0, s \in Members', ~Free(s)', Settled(s)', NEW k \in Pays(s)'
               PROVE  made'[s][k].seq <= lastPaid'[s] \/ SentTwice(s)'
  BY <1>1 DEF Granted, GrantedTo
<1>3. k \in Pays(s) /\ made'[s][k] = made[s][k]
  BY <1>2 DEF Pays, LogsGrow
<1>4. made[s][k].seq <= lastPaid[s] \/ SentTwice(s)
  BY <1>1, <1>2, <1>3 DEF Granted, GrantedTo
<1>5. QED
  BY <1>3, <1>4, TwiceStays

(* Where the table and the inbox stay as they are, so does what is granted. *)
LEMMA GrantIdle ==
  ASSUME TypeOK, Granted, LogsGrow, resends' = 0 => resends = 0,
         UNCHANGED <<made, inbox, slot, lastPaid>>
  PROVE  Granted'
<1>1. ASSUME NEW s \in Subscribers
      PROVE  GrantedTo(s)'
  <2>1. Members' = Members /\ Pays(s)' = Pays(s)
    BY DEF Members, Pays
  <2>2. Settled(s)' => Settled(s)
    BY <2>1 DEF Settled
  <2>3. QED
    BY <2>1, <2>2, GrantKept
<1>2. QED
  BY <1>1 DEF Granted

(* A payment that is emitted is not settled. *)
LEMMA GrantEmit ==
  ASSUME TypeOK, Granted, NEW s \in Subscribers, NEW r \in Requests, Emit(s, r),
         UNCHANGED <<providerVars, sent, resends>>
  PROVE  Granted'
<1>0. PICK n : n = Len(made[s]) + 1
  OBVIOUS
<1>1. /\ n \in Nat /\ made'[s][n] = r /\ DOMAIN made'[s] = DOMAIN made[s] \union {n}
      /\ \A k \in DOMAIN made[s] : made'[s][k] = made[s][k]
      /\ \A t \in Subscribers : t # s => made'[t] = made[t]
      /\ \A t \in Subscribers, j \in Nat :
           <<t, j>> \in inbox' <=> <<t, j>> \in inbox \/ (t = s /\ j = n)
      /\ \A t \in Subscribers : \A j \in Pays(t) : j \in Nat
  BY ZenonT(60), <1>0, EmitShape, LogIndices DEF Pays
<1>2. LogsGrow /\ Members' = Members /\ lastPaid' = lastPaid
  BY EmitGrows DEF providerVars, Members
<1>3. ASSUME NEW t \in Subscribers, Settled(t)'
      PROVE  Settled(t) /\ Pays(t)' = Pays(t)
  <2>1. CASE t # s
    BY <1>1, <1>3, <2>1 DEF Settled, Pays
  <2>2. CASE t = s
    <3>1. n \notin Pays(s)'
      BY <1>1, <1>3, <2>2 DEF Settled
    <3>2. Pays(s)' = Pays(s)
      BY <1>1, <3>1 DEF Pays
    <3>3. QED
      BY <1>1, <1>3, <2>2, <3>2 DEF Settled
  <2>3. QED
    BY <2>1, <2>2
<1>4. QED
  BY <1>2, <1>3, GrantKept DEF Granted

(* A payment is handled last if it is the newest, and that is the highest. *)
LEMMA GrantHandle ==
  ASSUME OneRelay, TypeOK, InOrder, Rising, Granted, NEW s \in Subscribers,
         NEW k \in DOMAIN made[s], Handle(s, k)
  PROVE  Granted'
<1>1. /\ UNCHANGED <<made, sent, resends>> /\ <<s, k>> \in inbox
      /\ inbox' = inbox \ {<<s, k>>}
      /\ \A t \in Subscribers : t # s => (t \in Members' <=> t \in Members)
      /\ made[s][k].kind = "sub" => s \in Members'
      /\ made[s][k].kind = "unsub" => s \notin Members'
      /\ made[s][k].kind = "pay" => Members' = Members
      /\ made[s][k].kind \in {"sub", "unsub", "pay"} /\ made[s][k].seq \in Nat
      /\ \A j \in DOMAIN made[s] : j \in Nat /\ made[s][j].seq \in Nat
  BY HandleShape, LogIndices
<1>2. LogsGrow /\ \A t : Pays(t)' = Pays(t) /\ (SentTwice(t)' <=> SentTwice(t))
  BY <1>1 DEF LogsGrow, Pays, SentTwice
<1>3. /\ lastPaid \in [Subscribers -> Nat \union {NoSeq}]
      /\ \A t \in Subscribers : t # s => lastPaid'[t] = lastPaid[t]
  BY DEF TypeOK, ProviderTypeOK, Handle, RecordSubscription, DropSubscription, RecordPayment
<1>4. ASSUME NEW t \in Subscribers, t # s
      PROVE  GrantedTo(t)'
  <2>1. Settled(t)' => Settled(t)
    BY <1>1, <1>2, <1>4 DEF Settled
  <2>2. QED
    BY <1>1, <1>2, <1>3, <1>4, <2>1, GrantKept
<1>5. CASE made[s][k].kind = "sub"
  <2>1. lastPaid' = lastPaid
    BY <1>5 DEF Handle, RecordSubscription
  <2>2. CASE s \in Members
    <3>1. Settled(s)' => Settled(s)
      BY <1>1, <1>2, <1>5 DEF Settled, Pays
    <3>2. GrantedTo(s)'
      BY <1>1, <1>2, <1>5, <2>1, <2>2, <3>1, GrantKept
    <3>3. QED
      BY <1>4, <3>2 DEF Granted
  <2>3. CASE s \notin Members
    <3>1. Free(s)'
      BY <2>1, <2>3 DEF Granted, GrantedTo, Free
    <3>2. GrantedTo(s)'
      BY <3>1 DEF GrantedTo
    <3>3. QED
      BY <1>4, <3>2 DEF Granted
  <2>4. QED
    BY <2>2, <2>3
<1>6. CASE made[s][k].kind = "unsub"
  <2>1. Free(s)'
    BY <1>3, <1>6 DEF Handle, DropSubscription, Free
  <2>2. GrantedTo(s)'
    BY <2>1 DEF GrantedTo
  <2>3. QED
    BY <1>4, <2>2 DEF Granted
<1>7. CASE made[s][k].kind = "pay"
  <2>0. PICK n : n = made[s][k].seq
    OBVIOUS
  <2>1. /\ RecordPayment(s, n) /\ Members' = Members /\ k \in Pays(s) /\ n \in Nat
    BY <1>1, <1>7, <2>0 DEF Handle, Pays
  <2>2. CASE s \notin Members
    <3>1. Free(s)'
      BY <2>1, <2>2 DEF Granted, GrantedTo, Free, RecordPayment, Members
    <3>2. QED
      BY <1>4, <3>1 DEF Granted, GrantedTo
  <2>3. CASE s \in Members
    <3>1. lastPaid'[s] \in Nat /\ n <= lastPaid'[s]
      BY <1>3, <2>1, <2>3, ProviderAssumption DEF RecordPayment, Paid, Members
    <3>2. ASSUME resends = 0, Settled(s)', NEW j \in Pays(s)
          PROVE  made[s][j].seq <= lastPaid'[s]
      <4>1. j \in DOMAIN made[s] /\ made[s][j].kind = "pay"
        BY DEF Pays
      <4>2. PICK i \in DOMAIN made[s] : SameKind(made[s][i], made[s][j]) /\ Latest(s, i)
        BY <4>1 DEF InOrder, Newest
      <4>3. i \in Pays(s) /\ j <= i /\ SameKind(made[s][k], made[s][i])
        BY <1>7, <4>1, <4>2 DEF SameKind, Pays, Latest
      <4>4. i = k
        <5>1. i # k => <<s, i>> \notin inbox
          BY <1>1, <1>2, <3>2, <4>3 DEF Settled
        <5>2. QED
          BY <1>1, <4>2, <4>3, <5>1 DEF InOrder, LatestLast
      <4>5. made[s][j].seq <= n
        BY <2>0, <2>1, <3>2, <4>3, <4>4 DEF Rising
      <4>6. QED
        BY <1>1, <2>1, <3>1, <4>1, <4>5
    <3>3. GrantedTo(s)'
      BY <1>1, <1>2, <2>1, <2>3, <3>2 DEF GrantedTo
    <3>4. QED
      BY <1>4, <3>3 DEF Granted
  <2>4. QED
    BY <2>2, <2>3
<1>8. QED
  BY <1>1, <1>5, <1>6, <1>7

(* The free mark is lower than what its owner has paid only if the owner   *)
(* was sent the observation before.                                        *)
LEMMA GrantMark ==
  ASSUME TypeOK, Sequenced, Held, Receipts, Granted, SendReturns,
         UNCHANGED <<made, inbox, sent, resends, received>>
  PROVE  Granted'
<1>1. /\ UNCHANGED slot /\ pub.pc = "send" /\ pub.out # 0 /\ MarkFree
  BY DEF SendReturns, table
<1>2. LogsGrow /\ Members' = Members /\ \A t : Pays(t)' = Pays(t) /\ Settled(t)' = Settled(t)
  BY <1>1 DEF LogsGrow, Members, Pays, Settled
<1>3. /\ lastPaid \in [Subscribers -> Nat \union {NoSeq}] /\ pub.seq \in Nat
      /\ received \subseteq DOMAIN sent /\ DOMAIN sent = 1 .. Len(sent) /\ Len(sent) \in Nat
      /\ \A k \in DOMAIN sent : sent[k].seq \in Nat
      /\ published \in Nat /\ pub.out \in Nat
  BY StreamNumbers DEF TypeOK, ProviderTypeOK, StreamTypeOK
<1>4. ASSUME NEW t \in Subscribers, lastPaid'[t] = lastPaid[t]
      PROVE  GrantedTo(t)'
  BY <1>2, <1>4, GrantKept
<1>5. CASE ~(pub.free /\ pub.held)
  BY <1>1, <1>4, <1>5 DEF MarkFree, Granted
<1>6. CASE pub.free /\ pub.held
  <2>0. PICK s : s = pub.cur
    OBVIOUS
  <2>1. s \in Members /\ s \in Subscribers
    BY <1>1, <1>6, <2>0 DEF Held, Members
  <2>2. lastPaid'[s] = pub.seq /\ \A t \in Subscribers : t # s => lastPaid'[t] = lastPaid[t]
    BY <1>1, <1>3, <1>6, <2>0, <2>1 DEF MarkFree
  <2>3. ASSUME NEW k \in Pays(s), ~(made[s][k].seq <= pub.seq)
        PROVE  SentTwice(s)
    <3>1. PICK n \in Nat : Has(s, n) /\ made[s][k].seq = n + 1
      BY <2>1 DEF Receipts
    <3>2. PICK j \in received : sent[j].to = s /\ sent[j].seq = n
      BY <3>1 DEF Has
    <3>3. j \in DOMAIN sent /\ n <= published /\ pub.seq = published
      BY <1>1, <1>3, <3>2 DEF Sequenced
    <3>4. n = pub.seq
      BY <1>3, <2>3, <3>1, <3>3
    <3>5. /\ pub.out \in DOMAIN sent /\ sent[pub.out].seq = n /\ sent[pub.out].to = s
          /\ pub.out # j
      BY <1>1, <2>0, <3>2, <3>4 DEF Sequenced, Receipts
    <3>6. j < pub.out \/ pub.out < j
      BY <1>3, <3>3, <3>5
    <3>7. QED
      BY <3>2, <3>3, <3>5, <3>6 DEF SentTwice
  <2>4. GrantedTo(s)'
    <3>1. \A k \in Pays(s)' : made'[s][k].seq <= lastPaid'[s] \/ SentTwice(s)'
      BY <1>2, <2>2, <2>3, TwiceStays
    <3>2. QED
      BY <1>2, <2>1, <3>1 DEF GrantedTo
  <2>5. QED
    BY <1>4, <2>2, <2>4 DEF Granted
<1>7. QED
  BY <1>5, <1>6

(* What was granted stays granted in every step. *)
LEMMA GrantedStep ==
  ASSUME OneRelay, TypeOK, Sequenced, Held, InOrder, Receipts, Rising, Granted, [Next]_vars
  PROVE  Granted'
<1>1. CASE Elsewhere
  <2>1. /\ UNCHANGED <<providerVars, sent, resends, slot, lastPaid>> /\ LogsGrow
        /\ Members' = Members
    BY <1>1, NextGrows DEF Elsewhere, providerVars, Members
  <2>2. CASE UNCHANGED <<made, inbox>>
    BY <2>1, <2>2, GrantIdle
  <2>3. ASSUME NEW s \in Subscribers, NEW r \in Requests, Emit(s, r)
        PROVE  Granted'
    BY <2>1, <2>3, GrantEmit
  <2>4. ASSUME NEW s \in Subscribers, NEW k \in DOMAIN made[s], Handle(s, k)
        PROVE  Granted'
    BY <2>4, GrantHandle
  <2>5. CASE ProviderReconnects
    <3>1. made' = made /\ inbox' = inbox \intersect Stored
      BY <2>5 DEF ProviderReconnects
    <3>2. ASSUME NEW s \in Subscribers, Settled(s)'
          PROVE  Settled(s) /\ Pays(s)' = Pays(s)
      <4>1. Pays(s)' = Pays(s)
        BY <3>1 DEF Pays
      <4>2. ASSUME NEW j \in Pays(s)
            PROVE  <<s, j>> \notin inbox
        <5>1. j \in DOMAIN made[s]
          BY DEF Pays
        <5>2. PICK k \in DOMAIN made[s] : SameKind(made[s][k], made[s][j]) /\ Latest(s, k)
          BY <5>1 DEF InOrder, Newest
        <5>3. k \in Pays(s) /\ <<s, k>> \in Stored /\ SameKind(made[s][j], made[s][k])
          BY <5>2, StoredShape DEF Pays, SameKind
        <5>4. <<s, k>> \notin inbox
          BY <3>1, <3>2, <4>1, <5>3 DEF Settled
        <5>5. QED
          BY <5>1, <5>2, <5>3, <5>4 DEF InOrder, LatestLast
      <4>3. QED
        BY <4>1, <4>2 DEF Settled
    <3>3. QED
      BY <2>1, <3>2, GrantKept DEF Granted
  <2>6. CASE ProviderRestarts
    <3>1. \A s \in Subscribers : Free(s)'
      BY <2>6 DEF ProviderRestarts, ProviderRestart, Free
    <3>2. QED
      BY <3>1 DEF Granted, GrantedTo
  <2>7. QED
    BY <2>2, <2>3, <2>4, <2>5, <2>6, LogKinds
<1>2. ASSUME NEW s \in Subscribers, NEW k \in DOMAIN made[s], Handle(s, k)
      PROVE  Granted'
  BY <1>2, GrantHandle
<1>3. CASE Publish \/ Raise \/ (Return /\ HeartbeatEnds)
  <2>1. UNCHANGED <<made, inbox, sent, resends, slot, lastPaid>>
    BY <1>3 DEF Publish, PublishObservation, Raise, SendRaises, HeartbeatRaises, Return,
       HeartbeatEnds, streamVars, table
  <2>2. QED
    BY <2>1, UnchangedGrows, GrantIdle
<1>4. CASE Return /\ SendReturns
  BY <1>4, GrantMark DEF Return, streamVars
<1>5. CASE Transmit
  <2>1. /\ UNCHANGED <<made, inbox, resends, slot, lastPaid>> /\ LogsGrow
    BY <1>5, AppendGrows DEF Transmit, EventReachesRelay, table
  <2>2. QED
    BY <2>1, GrantIdle
<1>6. CASE ProviderRestarts
  <2>1. \A s \in Subscribers : Free(s)'
    BY <1>6 DEF ProviderRestarts, ProviderRestart, Free
  <2>2. QED
    BY <2>1 DEF Granted, GrantedTo
<1>7. ASSUME NEW s \in Subscribers, NEW n \in 1 .. published, Resend(s, n)
      PROVE  Granted'
  <2>1. /\ UNCHANGED <<made, inbox, slot, lastPaid>> /\ resends' # 0
        /\ \E d : sent' = Append(sent, d)
    BY SMTT(60), <1>7, StreamNumbers DEF Resend, providerVars
  <2>2. LogsGrow
    BY <2>1, AppendGrows
  <2>3. QED
    BY <2>1, <2>2, GrantIdle
<1>8. QED
  BY <1>1, <1>2, <1>3, <1>4, <1>5, <1>6, <1>7, StepKinds DEF Return

(* Nothing is paid, received or in the table at first. *)
LEMMA GrantedInit == Init => Receipts /\ Rising /\ Granted
<1>1. SUFFICES ASSUME Init PROVE Receipts /\ Rising /\ Granted
  OBVIOUS
<1>2. \A s \in Subscribers : Pays(s) = {} /\ due[s] = NoSeq
  BY <1>1 DEF Init, Pays
<1>3. \A s \in Subscribers : Free(s)
  BY <1>1 DEF Init, ProviderInit, Free
<1>4. received = {} /\ transit = {}
  BY <1>1 DEF Init
<1>5. QED
  BY <1>2, <1>3, <1>4 DEF Receipts, Rising, Granted, GrantedTo

(* Behind one relay, and as long as nothing is sent again on purpose, a     *)
(* member whose payments have been handled is sent every observation it     *)
(* has paid for, however often it left, came back or was replayed, unless   *)
(* it was sent one observation twice.                                       *)
THEOREM AccessKeptAlways ==
  ASSUME OneRelay
  PROVE  Spec => [](resends = 0 => AccessKept)
<1>1. TypeOK /\ Granted => (resends = 0 => AccessKept)
  <2>1. SUFFICES ASSUME TypeOK, Granted, resends = 0, NEW s \in Members,
                        NEW k \in DOMAIN made[s], made[s][k].kind = "pay",
                        \A j \in DOMAIN made[s] : <<s, j>> \notin inbox, ~Free(s)
                 PROVE  Paid(s, made[s][k].seq) \/ SentTwice(s)
    BY DEF AccessKept, Eligible
  <2>2. s \in Subscribers /\ Settled(s) /\ k \in Pays(s)
    BY <2>1 DEF Members, Settled, Pays
  <2>3. made[s][k].seq <= lastPaid[s] \/ SentTwice(s)
    BY <2>1, <2>2 DEF Granted, GrantedTo
  <2>4. lastPaid[s] \in Nat /\ made[s][k].seq \in Nat
    BY <2>1, <2>2, LogIndices DEF TypeOK, ProviderTypeOK, Free
  <2>5. QED
    BY <2>1, <2>3, <2>4, ProviderAssumption DEF Paid, Free
<1>2. Init => TypeOK
  BY IdleType DEF Init, ProviderInit, TypeOK, ProviderTypeOK, StreamTypeOK
<1>3. TypeOK /\ Held /\ [Next]_vars => Held'
  BY HeldStep
<1>4. TypeOK /\ InOrder /\ [Next]_vars => InOrder'
  BY InOrderStep
<1>5. TypeOK /\ TypeOK' /\ Sequenced /\ Receipts /\ Rising /\ [Next]_vars
        => Receipts' /\ Rising'
  BY ReceiptsStep
<1>6. TypeOK /\ Sequenced /\ Held /\ InOrder /\ Receipts /\ Rising /\ Granted /\ [Next]_vars
        => Granted'
  BY GrantedStep
<1>7. QED
  BY <1>1, <1>2, <1>3, <1>4, <1>5, <1>6, TypeStep, SequencedInit, SequencedStep, CreditInit,
     InOrderInit, GrantedInit, PTL DEF Spec

=============================================================================

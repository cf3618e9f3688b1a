--------------------------- MODULE StreamProvider ---------------------------
(***************************************************************************)
(* The provider role of a SatoriNostr client for one paid stream:          *)
(* the subscriber table _subscribers[stream], the handlers that change it  *)
(* when an event arrives, and the publish_observation coroutine that walks *)
(* the same table while it awaits one send after another.                  *)
(*                                                                         *)
(* The client runs on one asyncio loop, so code between two awaits is one  *)
(* step and everything else may run at an await.  publish_observation is   *)
(* therefore split at `await self._send_builder(builder)`.                 *)
(***************************************************************************)
EXTENDS Naturals, FiniteSets

CONSTANTS
  Subscribers,   \* public keys that may subscribe
  Nobody,        \* the recipient of a heartbeat: an event without a p tag
  NoSeq,         \* Python's None in last_paid_seq
  MaxSeq         \* bound: the last sequence number the provider publishes

ASSUME ProviderAssumption ==
  /\ IsFiniteSet(Subscribers)
  /\ Nobody \notin Subscribers
  /\ NoSeq \notin Nat
  /\ MaxSeq \in Nat

VARIABLES
  slot,          \* index of a key among the entries of the dict, 0 if absent
  entries,       \* entries the dict has used, deleted ones included (dk_nentries)
  lastPaid,      \* last_paid_seq of the SubscriberState in the dict
  pub,           \* the running publish_observation call
  published,     \* sequence number of the latest call
  aborted        \* history: the calls that ended in a RuntimeError

providerVars == <<slot, entries, lastPaid, pub, published, aborted>>

Seqs == 1 .. MaxSeq

Members == {s \in Subscribers : slot[s] # 0}

table == <<slot, entries>>

(* Mutant of Paid: one observation is sent on credit. *)
PaidOrNext(s, n) == lastPaid[s] # NoSeq /\ lastPaid[s] + 1 >= n

(* Mutant of Paid: a payment is used up one observation early. *)
PaidBeyond(s, n) == lastPaid[s] # NoSeq /\ lastPaid[s] > n

Paid(s, n) == lastPaid[s] # NoSeq /\ lastPaid[s] >= n

Free(s) == lastPaid[s] = NoSeq

Eligible(s, n) == Paid(s, n) \/ Free(s)

-----------------------------------------------------------------------------
(***************************************************************************)
(* pub is the frame of the coroutine.                                      *)
(*   pc    "idle", or awaiting the send of an observation or a heartbeat   *)
(*   pos   the entry the dict iterator has reached                         *)
(*   size  the size of the dict when the iterator was made (di_used)       *)
(*   left  the number of entries the iterator still expects (di_len)       *)
(*   cur   the recipient of the pending send                               *)
(*   free  the local `free`, computed before the await                     *)
(*   held  the local sub_state is still the object in the dict             *)
(*   any   event_ids is not empty                                          *)
(*   out   where the relay has the event of the pending send, 0: not yet   *)
(***************************************************************************)
Frames ==
  [pc : {"idle", "send", "beat"}, seq : Nat, pos : Nat, size : Nat, left : Nat,
   cur : Subscribers \union {Nobody}, free : BOOLEAN, held : BOOLEAN,
   any : BOOLEAN, out : Nat]

Idle ==
  [pc |-> "idle", seq |-> 0, pos |-> 0, size |-> 0, left |-> 0, cur |-> Nobody,
   free |-> FALSE, held |-> FALSE, any |-> FALSE, out |-> 0]

Ahead(p) == {s \in Members : slot[s] > p.pos}

Upto(p, s) == {t \in Ahead(p) : slot[t] <= slot[s]}

(* s is the next entry with something to send, and the iterator gets to it *)
(* before it has yielded as many entries as it expects.                    *)
NextRecipient(p, s) ==
  /\ s \in Ahead(p)
  /\ Eligible(s, p.seq)
  /\ \A t \in Upto(p, s) \ {s} : ~Eligible(t, p.seq)
  /\ Cardinality(Upto(p, s)) <= p.left

SizeChanged(p) == Cardinality(Members) # p.size

Overrun(p) ==
  /\ \A s \in Subscribers : ~NextRecipient(p, s)
  /\ Cardinality(Ahead(p)) > p.left

Exhausted(p) ==
  /\ \A s \in Subscribers : ~NextRecipient(p, s)
  /\ Cardinality(Ahead(p)) <= p.left

(* The loop suspended in the send of the next observation. *)
SendTo(p, s) ==
  pub' = [p EXCEPT !.pc = "send", !.pos = slot[s],
                   !.left = @ - Cardinality(Upto(p, s)),
                   !.cur = s, !.free = Free(s), !.held = TRUE, !.out = 0]

(* Mutant of LoopEnds: the heartbeat is for streams without subscribers. *)
LoopEndsSilently(p) ==
  IF p.any \/ Members # {} THEN Idle ELSE [Idle EXCEPT !.pc = "beat", !.seq = p.seq]

(* The call returns, or awaits the send of the heartbeat. *)
LoopEnds(p) == IF p.any THEN Idle ELSE [Idle EXCEPT !.pc = "beat", !.seq = p.seq]

(***************************************************************************)
(* The code from one await of publish_observation to the next, with the    *)
(* frame p: CPython raises RuntimeError when the dict has another size     *)
(* than the iterator started with, or more entries than it expects.        *)
(***************************************************************************)
Continue(p) ==
  \/ /\ SizeChanged(p) \/ Overrun(p)
     /\ pub' = Idle
     /\ aborted' = aborted \union {p.seq}
  \/ /\ ~SizeChanged(p)
     /\ \E s \in Subscribers : NextRecipient(p, s) /\ SendTo(p, s)
     /\ UNCHANGED aborted
  \/ /\ ~SizeChanged(p)
     /\ Exhausted(p)
     /\ pub' = LoopEnds(p)
     /\ UNCHANGED aborted

PublishObservation ==
  /\ pub.pc = "idle"
  /\ published < MaxSeq
  /\ published' = published + 1
  /\ Continue([Idle EXCEPT !.seq = published + 1,
                           !.size = Cardinality(Members),
                           !.left = Cardinality(Members)])
  /\ UNCHANGED <<table, lastPaid>>

(* A relay has the event, as its k-th; the coroutine still awaits the answer. *)
EventReachesRelay(k) ==
  /\ pub.pc # "idle"
  /\ pub.out = 0
  /\ pub' = [pub EXCEPT !.out = k]
  /\ UNCHANGED <<table, lastPaid, published, aborted>>

(* Mutant of MarkFree: the free sample leaves no mark. *)
MarkNothing == UNCHANGED lastPaid

(* The free mark goes to the object the loop holds, wanted or not. *)
MarkFree ==
  lastPaid' = IF pub.free /\ pub.held
              THEN [lastPaid EXCEPT ![pub.cur] = pub.seq]
              ELSE lastPaid

SendReturns ==
  /\ pub.pc = "send"
  /\ pub.out # 0
  /\ MarkFree
  /\ Continue([pub EXCEPT !.any = TRUE])
  /\ UNCHANGED <<table, published>>

(* Mutant of SendRaises: the send is tried again. *)
SendRetries ==
  /\ pub.pc = "send"
  /\ pub' = [pub EXCEPT !.out = 0]
  /\ UNCHANGED <<table, lastPaid, published, aborted>>

(* send_event raises, before or after the relay got the event. *)
SendRaises ==
  /\ pub.pc = "send"
  /\ Continue(pub)
  /\ UNCHANGED <<table, lastPaid, published>>

HeartbeatEnds ==
  /\ pub.pc = "beat"
  /\ pub.out # 0
  /\ pub' = Idle
  /\ UNCHANGED <<table, lastPaid, published, aborted>>

HeartbeatRaises ==
  /\ pub.pc = "beat"
  /\ pub' = Idle
  /\ UNCHANGED <<table, lastPaid, published, aborted>>

-----------------------------------------------------------------------------
(* The object the loop holds is replaced in, or deleted from, the dict. *)
ReleaseObject(s) ==
  pub' = IF pub.cur = s THEN [pub EXCEPT !.held = FALSE] ELSE pub

(* A new object takes the place of the old one and its last_paid_seq; a    *)
(* key that is not in the dict goes after every entry, with nothing paid.  *)
RecordSubscription(s) ==
  /\ IF slot[s] # 0
     THEN UNCHANGED table
     ELSE /\ entries' = entries + 1
          /\ slot' = [slot EXCEPT ![s] = entries + 1]
  /\ ReleaseObject(s)
  /\ UNCHANGED <<lastPaid, published, aborted>>

(* Mutant of DropSubscription: a subscriber who has paid stays. *)
DropUnpaid(s) ==
  /\ slot' = [slot EXCEPT ![s] = IF Free(s) THEN 0 ELSE @]
  /\ UNCHANGED <<lastPaid, entries, pub, published, aborted>>

(* An announcement with the action tag: the state object is dropped. *)
DropSubscription(s) ==
  /\ slot' = [slot EXCEPT ![s] = 0]
  /\ lastPaid' = [lastPaid EXCEPT ![s] = NoSeq]
  /\ ReleaseObject(s)
  /\ UNCHANGED <<entries, published, aborted>>

(* Payments of a key that is not in the dict are ignored. *)
RecordPayment(s, n) ==
  /\ lastPaid' = IF slot[s] # 0 /\ ~Paid(s, n)
                 THEN [lastPaid EXCEPT ![s] = n]
                 ELSE lastPaid
  /\ UNCHANGED <<table, pub, published, aborted>>

(* A new process: the table lives in memory only.  The application's own   *)
(* sequence counter is kept by the application.                            *)
ProviderRestart ==
  /\ slot' = [s \in Subscribers |-> 0]
  /\ entries' = 0
  /\ lastPaid' = [s \in Subscribers |-> NoSeq]
  /\ pub' = Idle
  /\ UNCHANGED <<published, aborted>>

ProviderInit ==
  /\ slot = [s \in Subscribers |-> 0]
  /\ entries = 0
  /\ lastPaid = [s \in Subscribers |-> NoSeq]
  /\ pub = Idle
  /\ published = 0
  /\ aborted = {}

ProviderTypeOK ==
  /\ slot \in [Subscribers -> Nat]
  /\ entries \in Nat
  /\ lastPaid \in [Subscribers -> Nat \union {NoSeq}]
  /\ pub \in Frames
  /\ published \in 0 .. MaxSeq
  /\ aborted \subseteq Nat
=============================================================================

-------------------------- MODULE ElectrumxProofs --------------------------
(***************************************************************************)
(* What holds of the ElectrumX client for any number of threads, calls,    *)
(* reconnects and lost connections: its types, one reconnect at a time,    *)
(* and that it implements RequestReply.                                    *)
(***************************************************************************)
EXTENDS Electrumx, FiniteSetTheorems, TLAPS

USE ElectrumxAssumption DEF Threads

(* The inductive invariant *)

(* Who is past the acquire of self.lock owns it.                           *)
Holds == \A t \in Threads : Rebuilding(t) => lock = t

(* No two threads wait for the same call.                                  *)
Alone == \A t, u \in Threads : call[t] # 0 /\ call[t] = call[u] => t = u

(* A thread that reconnects waits for no answer until it has a new socket. *)
Settled == \A t \in Threads : pc[t] \in {"lock", "swap"} => call[t] = 0

(* A response that was taken out of the dict is the one its thread waits   *)
(* for, and the server gave it.                                            *)
Taken == \A t \in Threads : found[t] # 0 => found[t] = call[t] /\ call[t] \in served

(* So is a response that is still in the buffer or in the dict.            *)
Arrived == responses \union ToSet(buffer)
Answered ==
  \A t \in Threads : \A m \in Arrived : call[t] # 0 /\ m.id = call[t] => call[t] \in served

Matched == Alone /\ Settled /\ Taken /\ Answered

IInv == TypeOK /\ Holds /\ Matched

-----------------------------------------------------------------------------
(* The types, in the groups in which the steps change them *)

SocketTyped ==
  /\ gen \in 0 .. MaxSwaps /\ link \in {"none", "open", "dead"}
  /\ asked \subseteq Calls /\ told \subseteq {"headers", "hash"}

WaitingTyped ==
  /\ call \in [Threads -> Calls \union {0}] /\ answer \in [Threads -> Calls \union {0}]
  /\ found \in [Threads -> Calls \union {0}] /\ size \in [Threads -> Nat]

HistoryTyped == served \subseteq Calls /\ events \in 0 .. MaxEvents

ListenerTyped ==
  buffer \in Seq(Messages) /\ torn \in BOOLEAN /\ responses \subseteq Messages

SubsTyped == subs \in Seq(Keys) /\ IsInjective(subs)

StageTyped ==
  /\ lock \in Threads \union {None} /\ elock \in Threads \union {None}
  /\ pc \in [Threads -> Stages] /\ job \in [Threads -> Jobs]
  /\ loop \in [Threads -> [pos : 0 .. 4, size : 0 .. 3]]
  /\ starts \in 0 .. MaxStarts

LEMMA Groups ==
  TypeOK <=> /\ SocketTyped /\ WaitingTyped /\ HistoryTyped /\ ListenerTyped /\ SubsTyped
             /\ StageTyped /\ up \in BOOLEAN
BY DEF TypeOK, SocketTyped, WaitingTyped, HistoryTyped, ListenerTyped, SubsTyped, StageTyped

LEMMA GroupsNext ==
  TypeOK' <=> /\ SocketTyped' /\ WaitingTyped' /\ HistoryTyped' /\ ListenerTyped' /\ SubsTyped'
              /\ StageTyped' /\ up' \in BOOLEAN
BY DEF TypeOK, SocketTyped, WaitingTyped, HistoryTyped, ListenerTyped, SubsTyped, StageTyped

(* The responses are finitely many.                                        *)
LEMMA ResponsesFinite ==
  ASSUME NEW S \in SUBSET Messages
  PROVE  IsFiniteSet(S) /\ Cardinality(S) \in Nat
<1> DEFINE Ids == -MaxEvents .. MaxCalls
           Of(n) == [id : Ids, note : {n}]
<1>1. IsFiniteSet(Ids)
  BY FS_Interval
<1>2. ASSUME NEW n PROVE IsFiniteSet(Of(n))
  <2> DEFINE f == [i \in Ids |-> [id |-> i, note |-> n]]
  <2>1. f \in Surjection(Ids, Of(n))
    BY DEF Surjection
  <2> QED
    BY <1>1, <2>1, FS_Surjection
<1>3. Messages = (Of("none") \union Of("headers")) \union Of("hash")
  BY DEF Messages
<1> HIDE DEF Of
<1>4. IsFiniteSet(Messages)
  BY <1>2, <1>3, FS_Union
<1> QED
  BY <1>4, FS_Subset, FS_CardinalityType

(* A call that is free is a call, and it is free.                          *)
LEMMA NewCallFree == Calls \ Live # {} => NewCall \in Calls /\ NewCall \notin Live
BY DEF NewCall

(* Three keys make no longer list.                                         *)
LEMMA ThreeKeys == ASSUME SubsTyped PROVE Len(subs) \in 0 .. 3
<1>1. Len(subs) \in Nat /\ DOMAIN subs = 1 .. Len(subs)
  BY DEF SubsTyped
<1>2. ASSUME Len(subs) > 3 PROVE FALSE
  <2>1. \A i \in 1 .. 4 : i \in DOMAIN subs /\ subs[i] \in Keys
    BY <1>1, <1>2 DEF SubsTyped
  <2>2. \A i, j \in 1 .. 4 : subs[i] = subs[j] => i = j
    BY <2>1 DEF SubsTyped, IsInjective
  <2> QED
    BY <2>1, <2>2 DEF Keys
<1> QED
  BY <1>1, <1>2

LEMMA WithKeyTyped == ASSUME SubsTyped, NEW k \in Keys, subs' = WithKey(k) PROVE SubsTyped'
<1>1. CASE k \in ToSet(subs)
  BY <1>1 DEF SubsTyped, WithKey
<1>2. CASE k \notin ToSet(subs)
  <2>1. subs' = Append(subs, k) /\ subs' \in Seq(Keys)
    BY <1>2 DEF SubsTyped, WithKey
  <2>2. /\ DOMAIN subs' = 1 .. Len(subs) + 1 /\ subs'[Len(subs) + 1] = k
        /\ \A i \in 1 .. Len(subs) : subs'[i] = subs[i] /\ subs[i] # k
    BY <1>2, <2>1 DEF SubsTyped, ToSet
  <2>3. Len(subs) \in Nat /\ DOMAIN subs = 1 .. Len(subs)
    BY DEF SubsTyped
  <2>4. IsInjective(subs')
    BY <2>2, <2>3 DEF SubsTyped, IsInjective
  <2> QED
    BY <2>1, <2>4 DEF SubsTyped
<1> QED
  BY <1>1, <1>2

(* What a request leaves of the types.                                     *)
LEMMA SendTyped ==
  ASSUME TypeOK, NEW t \in Threads, NEW reports \in SUBSET {"headers", "hash"}, Send(t, reports)
  PROVE  SocketTyped' /\ WaitingTyped' /\ HistoryTyped'
<1>1. NewCall \in Calls
  BY NewCallFree DEF Send
<1> QED
  BY ZenonT(60), <1>1, Groups DEF Send, SocketTyped, WaitingTyped, HistoryTyped

LEMMA NoSendTyped == TypeOK /\ NoSend => SocketTyped' /\ WaitingTyped' /\ HistoryTyped'
BY Groups DEF NoSend, SocketTyped, WaitingTyped, HistoryTyped, socket, waiting, history

LEMMA ReturnedTyped ==
  ASSUME TypeOK, NEW t \in Threads, NEW c \in Calls \union {0}, Returned(t, c)
  PROVE  WaitingTyped' /\ served' \subseteq Calls
BY Groups DEF Returned, WaitingTyped, HistoryTyped

LEMMA FinishTyped ==
  ASSUME TypeOK, NEW t \in Threads, Finish(t), starts' = starts
  PROVE  SocketTyped' /\ WaitingTyped' /\ HistoryTyped' /\ StageTyped'
<1>1. CASE Leave(t)
  BY <1>1, Groups DEF Leave, SocketTyped, WaitingTyped, HistoryTyped, StageTyped, socket, history,
     Stages, Jobs, Unlock
<1>2. CASE Verify(t)
  <2>1. SocketTyped' /\ WaitingTyped' /\ HistoryTyped'
    BY <1>2, SendTyped DEF Verify
  <2> QED
    BY <1>2, <2>1, Groups DEF Verify, StageTyped, Stages, Unlock
<1> QED
  BY <1>1, <1>2 DEF Finish

LEMMA LeaveTyped ==
  ASSUME TypeOK, NEW t \in Threads, Leave(t), starts' = starts
  PROVE  SocketTyped' /\ WaitingTyped' /\ HistoryTyped' /\ StageTyped'
BY Groups DEF Leave, SocketTyped, WaitingTyped, HistoryTyped, StageTyped, socket, history,
   Stages, Jobs, Unlock

LEMMA Kept3 ==
  ASSUME TypeOK
  PROVE  /\ UNCHANGED listener /\ responses' = responses => ListenerTyped'
         /\ subs' = subs => SubsTyped'
         /\ UNCHANGED socket => SocketTyped'
         /\ UNCHANGED history => HistoryTyped'
         /\ UNCHANGED waiting => WaitingTyped'
         /\ UNCHANGED stage => StageTyped'
BY SMTT(60), Groups DEF ListenerTyped, SubsTyped, SocketTyped, HistoryTyped, WaitingTyped, StageTyped,
   listener, socket, history, waiting, stage

-----------------------------------------------------------------------------
(* One lemma for the steps of each kind keeps the types.                   *)

LEMMA CallTyped ==
  ASSUME TypeOK, NEW t \in Callers,
         \/ Request(t) \/ EnsureConnected(t) \/ MaybeConnect(t)
         \/ \E k \in {"headers", "hash"} : Subscribe(t, k)
  PROVE  TypeOK'
<1>1. t \in Threads
  OBVIOUS
<1>2. ASSUME NEW j \in Jobs, Start(t, j)
      PROVE  job' \in [Threads -> Jobs] /\ starts' \in 0 .. MaxStarts
  BY <1>1, <1>2 DEF Start, TypeOK
<1>3. CASE Request(t)
  <2>1. SocketTyped' /\ WaitingTyped' /\ HistoryTyped'
    BY <1>1, <1>3, SendTyped DEF Request
  <2>2. StageTyped' /\ up' \in BOOLEAN
    BY <1>2, <1>3, Groups DEF Request, StageTyped, Jobs
  <2> QED
    BY <1>3, <2>1, <2>2, Kept3, Groups, GroupsNext DEF Request
<1>4. CASE EnsureConnected(t)
  <2>1. SocketTyped' /\ WaitingTyped' /\ HistoryTyped'
    BY <1>1, <1>4, SendTyped DEF EnsureConnected
  <2>2. StageTyped' /\ up' \in BOOLEAN
    BY <1>1, <1>2, <1>4, Groups DEF EnsureConnected, StageTyped, Jobs, Stages
  <2> QED
    BY <1>4, <2>1, <2>2, Kept3, Groups, GroupsNext DEF EnsureConnected
<1>5. CASE MaybeConnect(t)
  <2>1. SocketTyped' /\ WaitingTyped' /\ HistoryTyped'
    BY <1>5, NoSendTyped DEF MaybeConnect
  <2>2. StageTyped' /\ up' \in BOOLEAN
    BY <1>1, <1>2, <1>5, Groups DEF MaybeConnect, StageTyped, Jobs, Stages
  <2> QED
    BY <1>5, <2>1, <2>2, Kept3, Groups, GroupsNext DEF MaybeConnect
<1>6. ASSUME NEW k \in {"headers", "hash"}, Subscribe(t, k) PROVE TypeOK'
  <2>1. SocketTyped' /\ WaitingTyped' /\ HistoryTyped'
    BY <1>1, <1>6, SendTyped DEF Subscribe
  <2>2. StageTyped' /\ up' \in BOOLEAN
    BY <1>2, <1>6, Groups DEF Subscribe, StageTyped, Jobs
  <2>3. SubsTyped'
    BY <1>6, WithKeyTyped, Groups DEF Subscribe, Keys
  <2> QED
    BY <1>6, <2>1, <2>2, <2>3, Kept3, Groups, GroupsNext DEF Subscribe
<1> QED
  BY <1>3, <1>4, <1>5, <1>6

LEMMA BeatTyped == ASSUME TypeOK, Beat PROVE TypeOK'
<1>1. Pinger \in Threads
  BY DEF Beat
<1>2. SocketTyped' /\ WaitingTyped' /\ HistoryTyped'
  BY <1>1, SendTyped DEF Beat
<1>3. StageTyped' /\ up' \in BOOLEAN
  BY <1>1, Groups DEF Beat, Start, StageTyped, Jobs, Stages
<1> QED
  BY <1>2, <1>3, Kept3, Groups, GroupsNext DEF Beat

LEMMA AnswerTyped ==
  ASSUME TypeOK, NEW t \in Threads, Find(t) \/ CleanUp(t) \/ GiveUp(t)
  PROVE  TypeOK'
<1>1. CASE Find(t)
  <2>1. PICK r \in responses : r.id = call[t] /\ responses' = responses \ {r}
                               /\ found' = [found EXCEPT ![t] = r.id]
    BY <1>1 DEF Find
  <2>2. Cardinality(responses) - 1 \in Nat
    <3>1. responses \subseteq Messages
      BY Groups DEF ListenerTyped
    <3>2. /\ IsFiniteSet(responses) /\ Cardinality(responses) \in Nat
          /\ responses # {}
      BY <2>1, <3>1, ResponsesFinite
    <3> QED
      BY <3>2, FS_EmptySet
  <2>3. WaitingTyped'
    BY <1>1, <2>1, <2>2, Groups DEF Find, WaitingTyped
  <2>4. ListenerTyped'
    BY <1>1, <2>1, Groups DEF Find, ListenerTyped, listener
  <2> QED
    BY <1>1, <2>3, <2>4, Kept3, Groups, GroupsNext DEF Find
<1>2. CASE CleanUp(t)
  <2>1. found[t] \in Calls \union {0}
    BY Groups DEF WaitingTyped
  <2>2. WaitingTyped' /\ served' \subseteq Calls
    BY <1>2, <2>1, ReturnedTyped DEF CleanUp
  <2>3. ListenerTyped'
    BY <1>2, Groups DEF CleanUp, ListenerTyped, listener
  <2> QED
    BY <1>2, <2>2, <2>3, Kept3, Groups, GroupsNext DEF CleanUp, HistoryTyped
<1>3. CASE GiveUp(t)
  <2>1. WaitingTyped' /\ served' \subseteq Calls
    BY <1>3, ReturnedTyped DEF GiveUp
  <2>2. SocketTyped' /\ HistoryTyped'
    BY <1>3, <2>1, Groups DEF GiveUp, SocketTyped, HistoryTyped
  <2> QED
    BY <1>3, <2>1, <2>2, Kept3, Groups, GroupsNext DEF GiveUp
<1> QED
  BY <1>1, <1>2, <1>3

LEMMA LockTyped ==
  ASSUME TypeOK, NEW t \in Threads,
         \/ Probed(t) \/ AcquireLock(t) \/ Swap(t) \/ Disconnect(t) \/ SwapFails(t) \/ Verified(t)
  PROVE  TypeOK'
<1>1. CASE Probed(t)
  <2>1. SocketTyped' /\ WaitingTyped' /\ HistoryTyped' /\ StageTyped' /\ up' \in BOOLEAN
    <3>1. CASE answer[t] # 0
      BY <1>1, <3>1, LeaveTyped DEF Probed
    <3>2. CASE answer[t] = 0
      BY <1>1, <3>2, NoSendTyped, Groups DEF Probed, StageTyped, Stages
    <3> QED
      BY <3>1, <3>2
  <2> QED
    BY <1>1, <2>1, Kept3, GroupsNext DEF Probed
<1>2. CASE AcquireLock(t)
  <2>1. SocketTyped' /\ WaitingTyped' /\ HistoryTyped'
    BY <1>2, NoSendTyped DEF AcquireLock
  <2>2. StageTyped' /\ up' \in BOOLEAN
    BY <1>2, Groups DEF AcquireLock, StageTyped, Stages
  <2> QED
    BY <1>2, <2>1, <2>2, Kept3, GroupsNext DEF AcquireLock
<1>3. CASE Swap(t)
  <2>1. NewCall \in Calls
    BY <1>3, NewCallFree DEF Swap
  <2>2. SocketTyped' /\ WaitingTyped' /\ HistoryTyped'
    BY <1>3, <2>1, Groups DEF Swap, SocketTyped, WaitingTyped, HistoryTyped
  <2>3. StageTyped' /\ up' \in BOOLEAN
    BY <1>3, Groups DEF Swap, StageTyped, Stages
  <2>4. ListenerTyped'
    BY <1>3, Groups DEF Swap, ListenerTyped, Leftover
  <2> QED
    BY <1>3, <2>2, <2>3, <2>4, Kept3, GroupsNext DEF Swap
<1>4. CASE Disconnect(t)
  <2>1. SocketTyped' /\ up' \in BOOLEAN
    BY <1>4, Groups DEF Disconnect, SocketTyped
  <2>2. ListenerTyped'
    BY <1>4, Groups DEF Disconnect, ListenerTyped, Leftover
  <2> QED
    BY <1>4, <2>1, <2>2, Kept3, GroupsNext DEF Disconnect
<1>5. CASE SwapFails(t)
  BY <1>5, FinishTyped, Kept3, GroupsNext DEF SwapFails
<1>6. CASE Verified(t)
  BY <1>6, LeaveTyped, Kept3, GroupsNext DEF Verified
<1> QED
  BY <1>1, <1>2, <1>3, <1>4, <1>5, <1>6

LEMMA ResubTyped ==
  ASSUME TypeOK, NEW t \in Threads,
         \/ Shaken(t) \/ Reprobed(t) \/ SkipSubscription(t) \/ Resubscribe(t)
         \/ Resubscribed(t) \/ IterationRaises(t)
  PROVE  TypeOK'
<1>1. Len(subs) \in 0 .. 3
  BY ThreeKeys, Groups
<1>2. ASSUME Turn(t), Advance(t), loop[t].pos <= Len(subs)
      PROVE  loop' \in [Threads -> [pos : 0 .. 4, size : 0 .. 3]]
  <2>1. loop \in [Threads -> [pos : 0 .. 4, size : 0 .. 3]]
    BY Groups DEF StageTyped
  <2>2. loop[t].pos + 1 \in 0 .. 4
    <3>1. loop[t].pos \in 0 .. 4
      BY <2>1
    <3>2. loop[t].pos <= Len(subs)
      BY <1>2
    <3>3. \A i \in 0 .. 4, n \in 0 .. 3 : i <= n => i + 1 \in 0 .. 4
      OBVIOUS
    <3> QED
      BY <1>1, <3>1, <3>2, <3>3
  <2>3. [loop[t] EXCEPT !.pos = @ + 1] \in [pos : 0 .. 4, size : 0 .. 3]
    BY <2>1, <2>2
  <2> QED
    BY <1>2, <2>1, <2>3 DEF Advance
<1>3. CASE Shaken(t)
  <2>1. SocketTyped' /\ WaitingTyped' /\ HistoryTyped'
    BY <1>3, SendTyped DEF Shaken
  <2>2. StageTyped' /\ up' \in BOOLEAN
    BY <1>3, Groups DEF Shaken, StageTyped, Stages
  <2> QED
    BY <1>3, <2>1, <2>2, Kept3, GroupsNext DEF Shaken
<1>4. CASE Reprobed(t)
  <2>1. SocketTyped' /\ WaitingTyped' /\ HistoryTyped' /\ StageTyped' /\ up' \in BOOLEAN
    <3>1. CASE answer[t] # 0
      <4>1. SocketTyped' /\ WaitingTyped' /\ HistoryTyped'
        BY <1>4, <3>1, NoSendTyped DEF Reprobed
      <4>2. [pos |-> 1, size |-> Len(subs)] \in [pos : 0 .. 4, size : 0 .. 3]
        BY <1>1
      <4>3. /\ lock \in Threads \union {None} /\ elock \in Threads \union {None}
            /\ pc \in [Threads -> Stages] /\ job \in [Threads -> Jobs]
            /\ loop \in [Threads -> [pos : 0 .. 4, size : 0 .. 3]]
            /\ starts \in 0 .. MaxStarts
        BY Groups DEF StageTyped
      <4>4. /\ pc' = [pc EXCEPT ![t] = "resub"]
            /\ loop' = [loop EXCEPT ![t] = [pos |-> 1, size |-> Len(subs)]]
            /\ job' = job /\ lock' = lock /\ elock' = elock /\ starts' = starts
            /\ up' \in BOOLEAN
        BY <1>4, <3>1 DEF Reprobed
      <4>5. "resub" \in Stages
        BY DEF Stages
      <4>6. pc' \in [Threads -> Stages]
        BY <4>3, <4>4, <4>5
      <4>7. loop' \in [Threads -> [pos : 0 .. 4, size : 0 .. 3]]
        BY <4>2, <4>3, <4>4
      <4>8. StageTyped'
        BY <4>3, <4>4, <4>6, <4>7 DEF StageTyped
      <4> QED
        BY <4>1, <4>4, <4>8
    <3>2. CASE answer[t] = 0
      BY <1>4, <3>2, FinishTyped DEF Reprobed
    <3> QED
      BY <3>1, <3>2
  <2> QED
    BY <1>4, <2>1, Kept3, GroupsNext DEF Reprobed
<1>5. CASE SkipSubscription(t)
  <2>1. SocketTyped' /\ WaitingTyped' /\ HistoryTyped'
    BY <1>5, NoSendTyped DEF SkipSubscription
  <2>2. StageTyped' /\ up' \in BOOLEAN
    BY <1>2, <1>5, Groups DEF SkipSubscription, StageTyped
  <2> QED
    BY <1>5, <2>1, <2>2, Kept3, GroupsNext DEF SkipSubscription
<1>6. CASE Resubscribe(t)
  <2>1. SocketTyped' /\ WaitingTyped' /\ HistoryTyped'
    BY <1>6, SendTyped DEF Resubscribe
  <2>2. StageTyped' /\ up' \in BOOLEAN
    BY <1>2, <1>6, Groups DEF Resubscribe, StageTyped
  <2>3. SubsTyped'
    BY <1>6, WithKeyTyped, Groups DEF Resubscribe, Keys
  <2> QED
    BY <1>6, <2>1, <2>2, <2>3, Kept3, GroupsNext DEF Resubscribe
<1>7. CASE Resubscribed(t)
  BY <1>7, FinishTyped, Kept3, Groups, GroupsNext DEF Resubscribed
<1>8. CASE IterationRaises(t)
  <2>1. up' \in BOOLEAN
    BY <1>8, Groups DEF IterationRaises
  <2> QED
    BY <1>8, <2>1, LeaveTyped, Kept3, GroupsNext DEF IterationRaises
<1> QED
  BY <1>3, <1>4, <1>5, <1>6, <1>7, <1>8

(* What the server may send is a message.                                  *)
LEMMA ChunkTyped ==
  ASSUME TypeOK, NEW lines \in Chunks
  PROVE  /\ lines \in Seq(Messages) /\ lines # <<>>
         /\ \A m \in ToSet(lines) : m \in Sendable
         /\ \A m \in ToSet(lines) : m.id < 0 => events < MaxEvents
         /\ \A m \in ToSet(lines) : m.id # 0
<1>1. asked \subseteq 1 .. MaxCalls /\ told \subseteq {"headers", "hash"} /\ events \in 0 .. MaxEvents
  BY DEF TypeOK, Calls
<1>2. ASSUME NEW m \in Sendable
      PROVE  m \in Messages /\ m.id # 0 /\ (m.id < 0 => events < MaxEvents)
  <2>1. CASE \E c \in asked : m = Reply(c)
    <3>1. PICK c \in 1 .. MaxCalls : m = [id |-> c, note |-> "none"]
      BY <1>1, <2>1 DEF Reply
    <3>2. m.id = c /\ c \in -MaxEvents .. MaxCalls /\ c > 0
      BY <3>1
    <3> QED
      BY <3>1, <3>2 DEF Messages
  <2>2. CASE events < MaxEvents /\ \E k \in told : m = Note(k)
    <3>1. PICK k \in {"headers", "hash"} : m = [id |-> -(events + 1), note |-> k]
      BY <1>1, <2>2 DEF Note
    <3>2. m.id = -(events + 1) /\ m.id \in -MaxEvents .. MaxCalls /\ m.id < 0
      BY <1>1, <2>2, <3>1
    <3> QED
      BY <2>2, <3>1, <3>2 DEF Messages
  <2> QED
    BY <2>1, <2>2 DEF Sendable
<1>3. \A m \in Sendable : m \in Messages /\ m.id # 0 /\ (m.id < 0 => events < MaxEvents)
  BY <1>2
<1>4. CASE \E m \in Sendable : lines = <<m>>
  BY <1>3, <1>4 DEF ToSet
<1>5. CASE lines \in Sendable \X Sendable
  <2>1. PICK m \in Sendable, n \in Sendable : lines = <<m, n>>
    BY <1>5
  <2> QED
    BY <1>3, <2>1 DEF ToSet
<1> QED
  BY <1>4, <1>5 DEF Chunks

LEMMA ReceiveTyped == ASSUME TypeOK, NEW lines \in Chunks, Receive(lines) PROVE TypeOK'
<1> DEFINE read == IF torn THEN <<Garbage>> \o Tail(lines) ELSE lines
           all == buffer \o read
<1>1. lines \in Seq(Messages) /\ lines # <<>>
  BY ChunkTyped
<1>2. Garbage \in Messages /\ buffer \in Seq(Messages)
  BY DEF Garbage, Messages, TypeOK
<1>3. read \in Seq(Messages) /\ read # <<>>
  BY <1>1, <1>2
<1>4. all \in Seq(Messages) /\ all # <<>>
  BY <1>2, <1>3
<1>5. Head(all) \in Messages /\ Tail(all) \in Seq(Messages)
  BY <1>4
<1>6. responses' = responses \union Kept(Head(all)) /\ buffer' = Tail(all) /\ torn' = FALSE
  BY DEF Receive
<1> HIDE DEF all
<1>7. ListenerTyped'
  BY <1>5, <1>6, Groups DEF ListenerTyped, Kept
<1>8. SocketTyped'
  BY Groups DEF Receive, SocketTyped
<1>9. HistoryTyped'
  <2>1. events' \in 0 .. MaxEvents
    BY ChunkTyped, Groups DEF Receive, HistoryTyped
  <2>2. served' \subseteq Calls
    <3>1. \A m \in ToSet(lines) : m.id # 0
      BY ChunkTyped
    <3>2. Range(call) \subseteq Calls \union {0}
      BY Groups DEF WaitingTyped, Range
    <3> QED
      BY <3>1, <3>2, Groups DEF Receive, HistoryTyped
  <2> QED
    BY <2>1, <2>2 DEF HistoryTyped
<1> QED
  BY <1>7, <1>8, <1>9, Kept3, Groups, GroupsNext DEF Receive

LEMMA HangupTyped == TypeOK /\ Hangup => TypeOK'
BY Kept3, GroupsNext DEF Hangup

LEMMA DropTyped == TypeOK /\ Drop => TypeOK'
<1> SUFFICES ASSUME TypeOK, Drop PROVE TypeOK'
  OBVIOUS
<1>1. SocketTyped' /\ HistoryTyped'
  BY Groups DEF Drop, SocketTyped, HistoryTyped
<1> QED
  BY <1>1, Kept3, Groups, GroupsNext DEF Drop

LEMMA InitTyped == Init => TypeOK
<1> SUFFICES ASSUME Init PROVE TypeOK
  OBVIOUS
<1>1. subs \in Seq(Keys) /\ IsInjective(subs) /\ told \subseteq {"headers", "hash"}
  <2>1. told = ToSet(subs)
    BY DEF Init
  <2>2. CASE subs = <<>>
    BY <2>1, <2>2 DEF IsInjective, ToSet
  <2>3. CASE subs = <<"headers", "hash">>
    BY <2>1, <2>3 DEF Keys, IsInjective, ToSet
  <2> QED
    BY <2>2, <2>3 DEF Init
<1>2. SocketTyped /\ WaitingTyped /\ HistoryTyped
  BY <1>1 DEF Init, SocketTyped, WaitingTyped, HistoryTyped
<1>3. ListenerTyped /\ SubsTyped /\ up \in BOOLEAN
  <2>1. buffer = <<>> /\ torn = FALSE /\ responses = {} /\ up = TRUE
    BY DEF Init
  <2>2. buffer \in Seq(Messages)
    BY <2>1
  <2> QED
    BY <1>1, <2>1, <2>2 DEF ListenerTyped, SubsTyped
<1>4. StageTyped
  BY DEF Init, StageTyped, Stages, Jobs
<1> QED
  BY <1>2, <1>3, <1>4, Groups

LEMMA NextTyped == TypeOK /\ [Next]_vars => TypeOK'
<1> SUFFICES ASSUME TypeOK, [Next]_vars PROVE TypeOK'
  OBVIOUS
<1>1. CASE UNCHANGED vars
  BY <1>1, Kept3, Groups, GroupsNext DEF vars
<1>2. CASE Next
  BY <1>2, CallTyped, BeatTyped, AnswerTyped, LockTyped, ResubTyped, ReceiveTyped, HangupTyped,
     DropTyped DEF Next, Inside
<1> QED
  BY <1>1, <1>2

(* Type correctness, for any number of threads, calls and reconnects. That *)
(* a subscription has one key bounds the loop of resubscribe.              *)
THEOREM TypeCorrect == Spec => []TypeOK
BY InitTyped, NextTyped, PTL DEF Spec

-----------------------------------------------------------------------------
(* One reconnect at a time *)

(* Leaving reconnect releases self.lock, if the thread owns it.            *)
LEMMA FinishHolds ==
  ASSUME TypeOK, Holds, NEW t \in Threads, Finish(t) \/ Leave(t)
  PROVE  Holds'
<1>1. pc \in [Threads -> Stages] /\ None \notin Threads
  BY DEF TypeOK
<1>2. /\ lock' = Unlock(t, lock)
      /\ pc' = [pc EXCEPT ![t] = "request"] \/ pc' = [pc EXCEPT ![t] = "verify"]
  BY DEF Finish, Leave, Verify
<1>3. ASSUME NEW u \in Threads, Rebuilding(u)' PROVE lock' = u
  <2>1. u # t /\ pc'[u] = pc[u]
    BY <1>1, <1>2, <1>3 DEF Rebuilding
  <2>2. lock = u
    BY <1>3, <2>1 DEF Holds, Rebuilding
  <2> QED
    BY <1>2, <2>1, <2>2 DEF Unlock
<1> QED
  BY <1>3 DEF Holds

(* Any other step but an acquire leaves a thread as far as it was, or takes *)
(* it on while it owns the lock.                                           *)
LEMMA OnwardHolds ==
  ASSUME TypeOK, Holds, NEW t \in Threads, lock' = lock, NEW s \in Stages,
         pc' = [pc EXCEPT ![t] = s], Rebuilding(t) \/ s \in {"request", "probe", "lock", "verify"}
  PROVE  Holds'
<1>1. pc \in [Threads -> Stages]
  BY DEF TypeOK
<1>2. ASSUME NEW u \in Threads, Rebuilding(u)' PROVE lock' = u
  <2>1. CASE u = t
    BY <1>1, <1>2, <2>1 DEF Holds, Rebuilding
  <2>2. CASE u # t
    BY <1>1, <1>2, <2>2 DEF Holds, Rebuilding
  <2> QED
    BY <2>1, <2>2
<1> QED
  BY <1>2 DEF Holds

LEMMA StillHolds == Holds /\ pc' = pc /\ lock' = lock => Holds'
BY DEF Holds, Rebuilding

LEMMA NextHolds == TypeOK /\ Holds /\ [Next]_vars => Holds'
<1> SUFFICES ASSUME TypeOK, Holds, [Next]_vars PROVE Holds'
  OBVIOUS
<1>1. CASE UNCHANGED vars
  BY <1>1, StillHolds DEF vars, stage
<1>2. ASSUME NEW t \in Callers, Request(t) \/ \E k \in {"headers", "hash"} : Subscribe(t, k)
      PROVE  Holds'
  BY <1>2, StillHolds DEF Request, Subscribe
<1>3. ASSUME NEW t \in Callers, EnsureConnected(t) \/ MaybeConnect(t) PROVE Holds'
  BY <1>3, OnwardHolds DEF EnsureConnected, MaybeConnect, Stages
<1>4. CASE Beat
  BY <1>4, OnwardHolds DEF Beat, Stages
<1>5. CASE (\E lines \in Chunks : Receive(lines)) \/ Hangup \/ Drop
  BY <1>5, StillHolds DEF Receive, Hangup, Drop, stage
<1>6. ASSUME NEW t \in Threads, Inside(t) PROVE Holds'
  <2>1. CASE Find(t) \/ CleanUp(t) \/ GiveUp(t) \/ Disconnect(t)
    BY <2>1, StillHolds DEF Find, CleanUp, GiveUp, Disconnect, stage
  <2>2. CASE SkipSubscription(t) \/ Resubscribe(t)
    BY <2>2, StillHolds DEF SkipSubscription, Resubscribe
  <2>3. CASE Probed(t)
    <3>1. CASE answer[t] # 0
      BY <2>3, <3>1, FinishHolds DEF Probed
    <3>2. CASE answer[t] = 0
      BY <2>3, <3>2, OnwardHolds DEF Probed, Stages
    <3> QED
      BY <3>1, <3>2
  <2>4. CASE AcquireLock(t)
    <3>1. pc \in [Threads -> Stages] /\ None \notin Threads
      BY DEF TypeOK
    <3>2. \A u \in Threads : u # t => pc'[u] = pc[u]
      BY <2>4, <3>1 DEF AcquireLock
    <3>3. \A u \in Threads : ~Rebuilding(u)
      BY <2>4, <3>1 DEF AcquireLock, Holds
    <3> QED
      BY <2>4, <3>2, <3>3 DEF AcquireLock, Holds, Rebuilding
  <2>5. CASE Swap(t) \/ Shaken(t)
    BY <2>5, OnwardHolds DEF Swap, Shaken, Rebuilding, Waits, Stages
  <2>6. CASE SwapFails(t) \/ Resubscribed(t) \/ IterationRaises(t) \/ Verified(t)
    BY <2>6, FinishHolds DEF SwapFails, Resubscribed, IterationRaises, Verified
  <2>7. CASE Reprobed(t)
    <3>1. CASE answer[t] # 0
      BY <2>7, <3>1, OnwardHolds DEF Reprobed, Rebuilding, Waits, Stages
    <3>2. CASE answer[t] = 0
      BY <2>7, <3>2, FinishHolds DEF Reprobed
    <3> QED
      BY <3>1, <3>2
  <2> QED
    BY <1>6, <2>1, <2>2, <2>3, <2>4, <2>5, <2>6, <2>7 DEF Inside
<1> QED
  BY <1>1, <1>2, <1>3, <1>4, <1>5, <1>6 DEF Next

(* A step that replaces the socket is a Swap of the thread that owns the    *)
(* lock.                                                                   *)
LEMMA OnlySwap ==
  ASSUME TypeOK, [Next]_vars, gen' # gen
  PROVE  \E t \in Threads : Swap(t)
<1>1. \A t, reports : Send(t, reports) => gen' = gen
  BY DEF Send
<1>2. NoSend => gen' = gen
  BY DEF NoSend, socket
<1>3. \A t : Leave(t) \/ Finish(t) => gen' = gen
  BY <1>1 DEF Finish, Verify, Leave, socket
<1>4. ~UNCHANGED vars
  BY DEF vars, socket
<1>5. \A t \in Callers, k \in {"headers", "hash"} :
        ~(Request(t) \/ EnsureConnected(t) \/ MaybeConnect(t) \/ Subscribe(t, k))
  BY <1>1, <1>2 DEF Request, EnsureConnected, MaybeConnect, Subscribe
<1>6. ~Beat
  BY <1>1 DEF Beat
<1>7. ~((\E lines \in Chunks : Receive(lines)) \/ Hangup \/ Drop)
  BY DEF Receive, Hangup, Drop, socket
<1>8. ASSUME NEW t \in Threads, Inside(t) PROVE Swap(t)
  <2>1. ~(Find(t) \/ CleanUp(t) \/ GiveUp(t) \/ Disconnect(t))
    BY DEF Find, CleanUp, GiveUp, Disconnect, socket
  <2>2. ~(Probed(t) \/ AcquireLock(t) \/ SwapFails(t) \/ Verified(t))
    BY <1>2, <1>3 DEF Probed, AcquireLock, SwapFails, Verified
  <2>3. ~(Shaken(t) \/ Reprobed(t) \/ SkipSubscription(t) \/ Resubscribe(t))
    BY <1>1, <1>2, <1>3 DEF Shaken, Reprobed, SkipSubscription, Resubscribe
  <2>4. ~(Resubscribed(t) \/ IterationRaises(t))
    BY <1>3 DEF Resubscribed, IterationRaises
  <2> QED
    BY <1>8, <2>1, <2>2, <2>3, <2>4 DEF Inside
<1> QED
  BY <1>4, <1>5, <1>6, <1>7, <1>8 DEF Next

(* Whatever threads find the connection lost, one of them rebuilds it, and *)
(* no other replaces its socket before the resubscriptions are over.       *)
THEOREM OneReconnectAlways == Spec => OneReconnect
<1> DEFINE Step ==
      \A t \in Threads : gen' # gen /\ Rebuilding(t) => pc[t] = "swap" /\ pc'[t] = "shake"
<1>1. Init => TypeOK /\ Holds
  BY InitTyped DEF Init, Holds, Rebuilding
<1>2. TypeOK /\ Holds /\ [Next]_vars => TypeOK' /\ Holds'
  BY NextTyped, NextHolds
<1>3. TypeOK /\ Holds /\ [Next]_vars => [Step]_vars
  <2> SUFFICES ASSUME TypeOK, Holds, [Next]_vars, NEW t \in Threads, gen' # gen, Rebuilding(t)
               PROVE  pc[t] = "swap" /\ pc'[t] = "shake"
    OBVIOUS
  <2>1. PICK u \in Threads : Swap(u)
    BY OnlySwap
  <2>2. Rebuilding(u) /\ pc[u] = "swap"
    BY <2>1 DEF Swap, Rebuilding
  <2>3. u = t
    BY <2>2 DEF Holds
  <2>4. pc \in [Threads -> Stages]
    BY DEF TypeOK
  <2> QED
    BY <2>1, <2>2, <2>3, <2>4 DEF Swap
<1> QED
  BY <1>1, <1>2, <1>3, PTL DEF Spec, OneReconnect

-----------------------------------------------------------------------------
(* A request returns its own answer: the client implements RequestReply *)

(* A step of thread t that takes no answer: it asks, is refused, or does   *)
(* neither, and moves on to a stage that may wait for an answer only if it *)
(* is not about to reconnect.                                              *)
Asks(t) ==
  /\ call[t] = 0 /\ NewCall \in Calls /\ NewCall \notin Live
  /\ call' = [call EXCEPT ![t] = NewCall] /\ UNCHANGED answer

Refuses(t) ==
  call[t] = 0 /\ answer' = [answer EXCEPT ![t] = 0] /\ UNCHANGED call

Calm(t) ==
  /\ Asks(t) \/ Refuses(t) \/ UNCHANGED <<call, answer>>
  /\ UNCHANGED <<found, served, responses, buffer>>
  /\ \A u \in Threads : u # t => pc'[u] = pc[u]
  /\ pc'[t] \in {"lock", "swap"} => call'[t] = 0

LEMMA SendCalm ==
  ASSUME TypeOK, NEW t \in Threads, NEW reports, Send(t, reports), call[t] = 0
  PROVE  (Asks(t) \/ Refuses(t)) /\ UNCHANGED <<found, served>>
BY NewCallFree DEF Send, Asks, Refuses

LEMMA LeaveCalm ==
  ASSUME TypeOK, NEW t \in Threads, Leave(t) \/ Finish(t), call[t] = 0,
         UNCHANGED <<responses, buffer>>
  PROVE  Calm(t)
<1>1. pc \in [Threads -> Stages]
  BY DEF TypeOK
<1>2. CASE Leave(t)
  BY <1>1, <1>2 DEF Leave, Calm, Refuses, history
<1>3. CASE Verify(t)
  BY <1>1, <1>3, SendCalm DEF Verify, Calm
<1> QED
  BY <1>2, <1>3 DEF Finish

LEMMA CallCalm ==
  ASSUME TypeOK, Matched, NEW t \in Callers,
         \/ Request(t) \/ EnsureConnected(t) \/ MaybeConnect(t)
         \/ \E k \in {"headers", "hash"} : Subscribe(t, k)
  PROVE  Calm(t)
<1>1. pc \in [Threads -> Stages] /\ t \in Threads
  BY DEF TypeOK
<1>2. CASE Request(t)
  BY <1>1, <1>2, SendCalm DEF Request, Start, Free, Calm, listener
<1>3. CASE EnsureConnected(t)
  BY <1>1, <1>3, SendCalm DEF EnsureConnected, Start, Free, Calm, listener
<1>4. CASE MaybeConnect(t)
  BY <1>1, <1>4 DEF MaybeConnect, Start, Free, Calm, NoSend, waiting, history, listener
<1>5. ASSUME NEW k \in {"headers", "hash"}, Subscribe(t, k) PROVE Calm(t)
  BY <1>1, <1>5, SendCalm DEF Subscribe, Start, Free, Calm, listener
<1> QED
  BY <1>2, <1>3, <1>4, <1>5

LEMMA BeatCalm == ASSUME TypeOK, Matched, Beat PROVE Pinger \in Threads /\ Calm(Pinger)
<1>1. pc \in [Threads -> Stages] /\ Pinger \in Threads
  BY DEF TypeOK, Beat
<1> QED
  BY <1>1, SendCalm DEF Beat, Start, Free, Calm, listener

LEMMA InsideCalm ==
  ASSUME TypeOK, Matched, NEW t \in Threads, Inside(t), ~(Find(t) \/ CleanUp(t) \/ GiveUp(t))
  PROVE  Calm(t)
<1>1. pc \in [Threads -> Stages]
  BY DEF TypeOK
<1>2. CASE Probed(t)
  <2>1. CASE answer[t] # 0
    BY <1>2, <2>1, LeaveCalm DEF Probed, Waits, listener
  <2>2. CASE answer[t] = 0
    BY <1>1, <1>2, <2>2 DEF Probed, Waits, listener, Calm, NoSend, waiting, history
  <2> QED
    BY <2>1, <2>2
<1>3. CASE AcquireLock(t)
  <2>1. call[t] = 0
    BY <1>3 DEF AcquireLock, Matched, Settled
  <2> QED
    BY <1>1, <1>3, <2>1 DEF AcquireLock, listener, Calm, NoSend, waiting, history
<1>4. CASE Swap(t)
  <2>1. call[t] = 0 /\ NewCall \in Calls /\ NewCall \notin Live
    BY <1>4, NewCallFree DEF Swap, Matched, Settled
  <2> QED
    BY <1>1, <1>4, <2>1 DEF Swap, Calm, Asks
<1>5. CASE Disconnect(t)
  <2>1. call[t] = 0
    BY <1>5 DEF Disconnect, Matched, Settled
  <2> QED
    BY <1>1, <1>5, <2>1 DEF Disconnect, Calm, waiting, stage, history
<1>6. CASE SwapFails(t)
  <2>1. call[t] = 0
    BY <1>6 DEF SwapFails, Matched, Settled
  <2> QED
    BY <1>6, <2>1, LeaveCalm DEF SwapFails, listener
<1>7. CASE Shaken(t)
  BY <1>1, <1>7, SendCalm DEF Shaken, Waits, listener, Calm
<1>8. CASE Reprobed(t)
  <2>1. CASE answer[t] # 0
    BY <1>1, <1>8, <2>1 DEF Reprobed, Waits, listener, Calm, NoSend, waiting, history
  <2>2. CASE answer[t] = 0
    BY <1>8, <2>2, LeaveCalm DEF Reprobed, Waits, listener
  <2> QED
    BY <2>1, <2>2
<1>9. CASE SkipSubscription(t)
  BY <1>1, <1>9 DEF SkipSubscription, Turn, Waits, listener, Calm, NoSend, waiting, history
<1>10. CASE Resubscribe(t)
  BY <1>1, <1>10, SendCalm DEF Resubscribe, Turn, Waits, listener, Calm
<1>11. CASE Resubscribed(t) \/ IterationRaises(t) \/ Verified(t)
  BY <1>11, LeaveCalm DEF Resubscribed, IterationRaises, Verified, Turn, Waits, listener
<1> QED
  BY <1>2, <1>3, <1>4, <1>5, <1>6, <1>7, <1>8, <1>9, <1>10, <1>11 DEF Inside

(* A call that is new answers to no message that is anywhere.              *)
LEMMA CalmMatched ==
  ASSUME TypeOK, Matched, NEW t \in Threads, Calm(t)
  PROVE  Matched'
<1>1. call \in [Threads -> Calls \union {0}] /\ found \in [Threads -> Calls \union {0}]
  BY DEF TypeOK
<1>2. ASSUME Asks(t)
      PROVE  /\ \A u \in Threads : u # t => call'[u] = call[u]
             /\ call'[t] # 0 /\ \A u \in Threads : call[u] # call'[t]
             /\ \A m \in Arrived : m.id # call'[t]
             /\ found[t] = 0
  <2>1. call'[t] = NewCall
    BY <1>1, <1>2 DEF Asks
  <2>2. \A u \in Threads : call[u] \in Range(call)
    BY <1>1 DEF Range
  <2>3. found[t] = 0
    BY <1>2 DEF Asks, Matched, Taken
  <2> QED
    BY <1>1, <1>2, <2>1, <2>2, <2>3 DEF Asks, Live, Arrived, Calls
<1>3. Arrived' = Arrived
  BY DEF Calm, Arrived
<1>4. Alone' /\ Taken' /\ Answered'
  <2>1. CASE call' = call
    BY <1>3, <2>1 DEF Calm, Matched, Alone, Taken, Answered
  <2>2. CASE Asks(t)
    BY <1>2, <1>3, <2>2 DEF Calm, Matched, Alone, Taken, Answered
  <2> QED
    BY <2>1, <2>2 DEF Calm, Refuses
<1>5. Settled'
  <2>1. \A u \in Threads : u # t => call'[u] = call[u]
    BY <1>2 DEF Calm, Refuses
  <2> QED
    BY <2>1 DEF Calm, Settled, Matched
<1> QED
  BY <1>4, <1>5 DEF Matched

(* A request that returns is waited for no more; what has been served to   *)
(* the other threads stays served.                                         *)
LEMMA ReturnedMatched ==
  ASSUME TypeOK, Matched, NEW t \in Threads, NEW c, Returned(t, c), pc' = pc,
         Arrived' \subseteq Arrived, call[t] # 0
  PROVE  Matched'
<1>1. call \in [Threads -> Calls \union {0}] /\ found \in [Threads -> Calls \union {0}]
  BY DEF TypeOK
<1>2. call'[t] = 0 /\ found'[t] = 0
  BY <1>1 DEF Returned
<1>3. ASSUME NEW u \in Threads, u # t
      PROVE  /\ call'[u] = call[u] /\ found'[u] = found[u]
             /\ call[u] # 0 /\ call[u] \in served => call[u] \in served'
  BY <1>1, <1>3 DEF Returned, Matched, Alone
<1>4. Alone' /\ Settled'
  BY <1>2, <1>3 DEF Matched, Alone, Settled
<1>5. Taken' /\ Answered'
  BY <1>2, <1>3 DEF Matched, Taken, Answered
<1> QED
  BY <1>4, <1>5 DEF Matched

LEMMA AnswerMatched ==
  ASSUME TypeOK, Matched, NEW t \in Threads, Find(t) \/ CleanUp(t) \/ GiveUp(t)
  PROVE  Matched'
<1>1. CASE Find(t)
  <2>1. PICK r \in responses : r.id = call[t] /\ responses' = responses \ {r}
                               /\ found' = [found EXCEPT ![t] = r.id]
    BY <1>1 DEF Find
  <2>2. call[t] # 0 /\ UNCHANGED <<call, served, pc, buffer>>
    BY <1>1 DEF Find, Polling, history, stage, listener
  <2>3. Arrived' \subseteq Arrived
    BY <2>1, <2>2 DEF Arrived
  <2>4. call[t] \in served
    BY <2>1, <2>2 DEF Matched, Answered, Arrived
  <2>5. found \in [Threads -> Calls \union {0}]
    BY DEF TypeOK
  <2>6. Taken'
    BY <2>1, <2>2, <2>4, <2>5 DEF Matched, Taken
  <2>7. Answered' /\ Alone' /\ Settled'
    BY <2>2, <2>3 DEF Matched, Answered, Alone, Settled
  <2> QED
    BY <2>6, <2>7 DEF Matched
<1>2. CASE CleanUp(t)
  <2>1. Arrived' \subseteq Arrived
    BY <1>2 DEF CleanUp, Arrived, listener
  <2>2. call[t] # 0
    BY <1>2 DEF CleanUp, Matched, Taken
  <2>3. Returned(t, found[t]) \/ Returned(t, 0)
    BY <1>2 DEF CleanUp
  <2>4. pc' = pc
    BY <1>2 DEF CleanUp, stage
  <2> QED
    BY <2>1, <2>2, <2>3, <2>4, ReturnedMatched
<1>3. CASE GiveUp(t)
  BY <1>3, ReturnedMatched DEF GiveUp, Arrived, listener, stage, Polling
<1> QED
  BY <1>1, <1>2, <1>3

(* What the listener hands over, it has read before or reads now.          *)
LEMMA ReceivedArrives ==
  ASSUME TypeOK, NEW lines \in Chunks, Receive(lines)
  PROVE  \A m \in Arrived' : m \in Arrived \/ m \in ToSet(lines) \/ m.id = 0
<1> DEFINE read == IF torn THEN <<Garbage>> \o Tail(lines) ELSE lines
           all == buffer \o read
<1>1. lines \in Seq(Messages) /\ lines # <<>> /\ buffer \in Seq(Messages) /\ Garbage \in Messages
  <2>1. Garbage \in Messages
    BY DEF Garbage, Messages
  <2> QED
    BY <2>1, ChunkTyped DEF TypeOK
<1>2. \A i \in DOMAIN Tail(lines) : Tail(lines)[i] \in ToSet(lines)
  <2>1. ASSUME NEW i \in DOMAIN Tail(lines) PROVE Tail(lines)[i] = lines[i + 1] /\ i + 1 \in DOMAIN lines
    BY <1>1
  <2> QED
    BY <2>1 DEF ToSet
<1>3. read \in Seq(Messages) /\ read # <<>>
  BY <1>1
<1>4. \A i \in DOMAIN read : read[i] \in ToSet(lines) \/ read[i].id = 0
  <2>1. CASE torn
    <3>1. read = <<Garbage>> \o Tail(lines)
      BY <2>1
    <3>2. ASSUME NEW i \in DOMAIN read
          PROVE  read[i] = Garbage \/ \E j \in DOMAIN Tail(lines) : read[i] = Tail(lines)[j]
      <4>1. Tail(lines) \in Seq(Messages) /\ Len(Tail(lines)) \in Nat
        BY <1>1
      <4>2. i \in 1 .. Len(Tail(lines)) + 1
        BY <1>1, <3>1, <4>1
      <4>3. i = 1 => read[i] = Garbage
        BY <1>1, <3>1, <4>1
      <4>4. i # 1 => i - 1 \in DOMAIN Tail(lines) /\ read[i] = Tail(lines)[i - 1]
        BY SMTT(60), <1>1, <3>1, <4>1, <4>2
      <4> QED
        BY <4>3, <4>4
    <3> HIDE DEF read
    <3> QED
      BY <1>2, <3>2 DEF Garbage
  <2>2. CASE ~torn
    BY <2>2 DEF ToSet
  <2> QED
    BY <2>1, <2>2
<1> HIDE DEF read
<1>5. \A i \in DOMAIN all : all[i] \in Arrived \/ all[i] \in ToSet(lines) \/ all[i].id = 0
  <2>1. ASSUME NEW i \in DOMAIN all
        PROVE  (i \in DOMAIN buffer /\ all[i] = buffer[i]) \/ \E j \in DOMAIN read : all[i] = read[j]
    BY <1>1, <1>3
  <2> HIDE DEF all
  <2> QED
    BY <1>4, <2>1 DEF Arrived, ToSet
<1>6. all \in Seq(Messages) /\ all # <<>>
  BY <1>1, <1>3
<1>7. responses' = responses \union Kept(Head(all)) /\ buffer' = Tail(all)
  BY DEF Receive, read
<1> HIDE DEF all
<1>8. 1 \in DOMAIN all /\ Head(all) = all[1]
  BY <1>6
<1>9. \A i \in DOMAIN Tail(all) : i + 1 \in DOMAIN all /\ Tail(all)[i] = all[i + 1]
  BY <1>6
<1>10. ASSUME NEW m \in Arrived' PROVE m \in Arrived \/ \E i \in DOMAIN all : m = all[i]
  BY <1>7, <1>8, <1>9 DEF Arrived, ToSet, Kept
<1> QED
  BY <1>5, <1>10

LEMMA ReceiveMatched ==
  ASSUME TypeOK, Matched, NEW lines \in Chunks, Receive(lines)
  PROVE  Matched'
<1>1. UNCHANGED <<call, found, pc>> /\ served \subseteq served'
  BY DEF Receive, waiting, stage
<1>2. \A t \in Threads : call[t] \in {m.id : m \in ToSet(lines)} => call[t] \in served'
  BY DEF Receive, Range, TypeOK
<1>3. Alone' /\ Settled' /\ Taken'
  BY <1>1 DEF Matched, Alone, Settled, Taken
<1>4. ASSUME NEW t \in Threads, NEW m \in Arrived', call[t] # 0, m.id = call[t]
      PROVE  call[t] \in served'
  <2>1. m \in Arrived \/ m \in ToSet(lines)
    BY <1>4, ReceivedArrives
  <2> QED
    BY <1>1, <1>2, <1>4, <2>1 DEF Matched, Answered
<1>5. Answered'
  BY <1>1, <1>4 DEF Answered
<1> QED
  BY <1>3, <1>5 DEF Matched

LEMMA NextMatched == TypeOK /\ Matched /\ [Next]_vars => Matched'
<1> SUFFICES ASSUME TypeOK, Matched, [Next]_vars PROVE Matched'
  OBVIOUS
<1>1. CASE UNCHANGED vars
  BY <1>1 DEF vars, waiting, history, listener, stage, Matched, Alone, Settled, Taken, Answered,
     Arrived
<1>2. CASE Hangup \/ Drop
  BY <1>2 DEF Hangup, Drop, waiting, history, listener, stage, Matched, Alone, Settled, Taken,
     Answered, Arrived
<1>3. ASSUME NEW t \in Threads, Inside(t) PROVE Matched'
  BY <1>3, AnswerMatched, InsideCalm, CalmMatched
<1> QED
  BY <1>1, <1>2, <1>3, CallCalm, BeatCalm, CalmMatched, ReceiveMatched DEF Next

(* The steps of RequestReply that the steps of the client take *)

LEMMA CalmPromise ==
  ASSUME TypeOK, Matched, NEW t \in Threads, Calm(t)
  PROVE  [Promise!Next]_(Promise!vars)
<1>1. call \in [Threads -> Calls \union {0}]
  BY DEF TypeOK
<1>2. CASE Asks(t)
  <2>1. \A u \in Threads : call[u] # NewCall
    BY <1>1, <1>2 DEF Asks, Live, Range
  <2>2. Promise!Ask(t, NewCall)
    BY <1>2, <2>1 DEF Promise!Ask, Asks, Calm
  <2> QED
    BY <1>2, <2>2 DEF Promise!Next, Asks
<1>3. CASE Refuses(t)
  BY <1>3 DEF Promise!Refuse, Promise!Next, Refuses, Calm
<1>4. CASE UNCHANGED <<call, answer>>
  BY <1>4 DEF Promise!vars, Calm
<1> QED
  BY <1>2, <1>3, <1>4 DEF Calm

LEMMA AnswerPromise ==
  ASSUME TypeOK, Matched, NEW t \in Threads, Find(t) \/ CleanUp(t) \/ GiveUp(t)
  PROVE  [Promise!Next]_(Promise!vars)
<1>1. ASSUME NEW c, Returned(t, c), call[t] # 0,
              c = 0 \/ (c = call[t] /\ call[t] \in served)
      PROVE  Promise!Return(t)
  BY <1>1 DEF Promise!Return, Returned
<1>2. CASE Find(t)
  BY <1>2 DEF Find, history, Promise!vars
<1>3. CASE CleanUp(t)
  <2>1. found[t] # 0 /\ (Returned(t, found[t]) \/ Returned(t, 0))
    BY <1>3 DEF CleanUp
  <2>2. found[t] = call[t] /\ call[t] \in served /\ call[t] # 0
    BY <2>1 DEF Matched, Taken
  <2> QED
    BY <1>1, <2>1, <2>2 DEF Promise!Next
<1>4. CASE GiveUp(t)
  <2>1. Returned(t, 0) /\ call[t] # 0
    BY <1>4 DEF GiveUp, Polling
  <2>2. Promise!Return(t)
    BY <2>1 DEF Promise!Return, Returned
  <2> QED
    BY <2>2 DEF Promise!Next
<1> QED
  BY <1>2, <1>3, <1>4

LEMMA ReceivePromise ==
  ASSUME TypeOK, NEW lines \in Chunks, Receive(lines)
  PROVE  [Promise!Next]_(Promise!vars)
<1> DEFINE ids == {m.id : m \in ToSet(lines)}
           some == {t \in Threads : call[t] \in ids}
<1>1. 0 \notin ids
  BY ChunkTyped
<1>2. served' = served \union (Range(call) \intersect ids) /\ UNCHANGED <<call, answer>>
  BY DEF Receive, waiting
<1> HIDE DEF ids
<1>3. Range(call) \intersect ids = {call[t] : t \in some}
  BY DEF Range, TypeOK
<1>4. Promise!Serve(some)
  BY <1>1, <1>2, <1>3 DEF Promise!Serve
<1> QED
  BY <1>4 DEF Promise!Next

LEMMA NextPromise == TypeOK /\ Matched /\ [Next]_vars => [Promise!Next]_(Promise!vars)
<1> SUFFICES ASSUME TypeOK, Matched, [Next]_vars PROVE [Promise!Next]_(Promise!vars)
  OBVIOUS
<1>1. CASE UNCHANGED vars
  BY <1>1 DEF vars, waiting, history, Promise!vars
<1>2. CASE Hangup \/ Drop
  BY <1>2 DEF Hangup, Drop, waiting, history, Promise!vars
<1>3. ASSUME NEW t \in Threads, Inside(t) PROVE [Promise!Next]_(Promise!vars)
  BY <1>3, AnswerPromise, InsideCalm, CalmPromise
<1> QED
  BY <1>1, <1>2, <1>3, CallCalm, BeatCalm, CalmPromise, ReceivePromise DEF Next

(* A request returns once, with the server's answer to it or None, for any *)
(* number of threads, calls, reconnects, late answers and torn lines: the  *)
(* client implements the abstract specification RequestReply.              *)
THEOREM AnswersOwnAlways == Spec => AnswersOwn
<1>1. Init => Promise!Init
  BY DEF Init, Promise!Init
<1>2. Init => TypeOK /\ Matched
  BY InitTyped DEF Init, Matched, Alone, Settled, Taken, Answered
<1>3. TypeOK /\ Matched /\ [Next]_vars => TypeOK' /\ Matched'
  BY NextTyped, NextMatched
<1> QED
  BY <1>1, <1>2, <1>3, NextPromise, PTL DEF Spec, AnswersOwn, Promise!Spec

=============================================================================

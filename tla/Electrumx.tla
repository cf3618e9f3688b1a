------------------------------ MODULE Electrumx ------------------------------
(***************************************************************************)
(* The ElectrumX client: one socket, shared by a listener thread, a pinger *)
(* thread and the threads of the application. Requests are sent without a  *)
(* lock and answered through the dict `responses`, which the callers poll; *)
(* reconnect replaces the socket under self.lock; ensureConnected holds    *)
(* ensureConnectedLock around the whole check.                             *)
(*                                                                         *)
(* A message is [id, note]: the callId of the request it answers, or a     *)
(* number below zero for a notification, which carries none; 0 is a line   *)
(* that is no JSON. Call ids are timestamps; two calls are taken to fall   *)
(* into different ticks of the clock. An id that is nowhere any more is    *)
(* used again here, which keeps the states few.                            *)
(***************************************************************************)
EXTENDS Integers, Sequences, FiniteSets, Functions, SequencesExt

CONSTANTS
  Callers,      \* application threads
  Pinger,       \* the thread that runs stayConnected
  None,         \* no thread
  Persistent,   \* the flag of the constructor: whether there is a pinger
  MaxStarts,    \* bound: methods the threads call
  MaxCalls,     \* bound: calls that are under way, or whose answers are, at once
  MaxSwaps,     \* bound: sockets connected after the first
  MaxEvents     \* bound: notifications, dropped connections, answers that are late

ASSUME ElectrumxAssumption ==
  /\ Pinger \notin Callers /\ None \notin Callers \union {Pinger}
  /\ Persistent \in BOOLEAN
  /\ {MaxStarts, MaxCalls, MaxSwaps, MaxEvents} \subseteq Nat

VARIABLES
  gen,        \* sockets replaced so far
  link,       \* the current socket: "none" (not connected), "open", "dead"
  asked,      \* calls sent on this socket whose answers have not been read
  told,       \* what the server has been asked to report on this socket
  buffer,     \* whole lines the listener has read and not handled
  torn,       \* the buffer ends in a line broken off on a socket that was replaced
  responses,  \* the dict responses, as the set of its values
  subs,       \* the keys of the dict subscriptions, in their order
  up,         \* self.isConnected
  lock,       \* owner of self.lock
  elock,      \* owner of self.ensureConnectedLock
  pc,         \* the stage a thread is at
  job,        \* the method it was called with
  call,       \* the call whose response it waits for, 0: none
  answer,     \* the response to the last call it made at its stage, 0: None
  found,      \* the response it has taken out of the dict, 0: none
  size,       \* the size it expects of the dict responses while it walks it
  loop,       \* the for loop of resubscribe: next position, expected size
  served,     \* history: the calls waited for that the server has answered
  starts, events

Threads == IF Persistent THEN Callers \union {Pinger} ELSE Callers

Calls == 1 .. MaxCalls

socket == <<gen, link, asked, told>>
listener == <<buffer, torn>>
waiting == <<call, answer, found, size>>
stage == <<pc, job, loop, lock, elock, starts>>
history == <<served, events>>
vars == <<socket, listener, responses, subs, up, waiting, stage, history>>

(***************************************************************************)
(* The keys of the dict are Subscription objects, compared by method and   *)
(* params: "headers" has params [], "hash" the list [scripthash] that      *)
(* subscribeScripthash passes, and "text" the bare string scripthash that  *)
(* resubscribe makes of it. A dict keeps the place of a key set again.     *)
(***************************************************************************)
Keys == {"headers", "hash", "text"}

KeyTwice(k) == Append(subs, k)

WithKey(k) == IF k \in ToSet(subs) THEN subs ELSE Append(subs, k)

Reply(c) == [id |-> c, note |-> "none"]
Note(k) == [id |-> -(events + 1), note |-> k]
Garbage == [id |-> 0, note |-> "none"]
Messages == [id : -MaxEvents .. MaxCalls, note : {"none", "headers", "hash"}]

Stages == {"request", "probe", "lock", "swap", "shake", "reprobe", "resub", "verify"}
Jobs == {"request", "ensure", "maybe", "beat"}

(* The constructor and a first reconnect are over, and the application has *)
(* subscribed, or not yet. (A client that could not connect is in the state *)
(* that Disconnect leaves.)                                                *)
Init ==
  /\ gen = 0 /\ link = "open" /\ up = TRUE
  /\ subs \in {<<>>, <<"headers", "hash">>} /\ told = ToSet(subs)
  /\ asked = {} /\ buffer = <<>> /\ torn = FALSE /\ responses = {}
  /\ lock = None /\ elock = None
  /\ pc = [t \in Threads |-> "request"] /\ job = [t \in Threads |-> "request"]
  /\ call = [t \in Threads |-> 0] /\ answer = [t \in Threads |-> 0]
  /\ found = [t \in Threads |-> 0] /\ size = [t \in Threads |-> 0]
  /\ loop = [t \in Threads |-> [pos |-> 0, size |-> 0]]
  /\ served = {}
  /\ starts = 0 /\ events = 0

-----------------------------------------------------------------------------
Live ==
  asked \union Range(call) \union {r.id : r \in responses \union ToSet(buffer)}

NewCall == CHOOSE c \in Calls : c \notin Live

(***************************************************************************)
(* send: the payload goes out on whatever socket self.connection is now.   *)
(* A socket that is not connected raises, which sendRequest turns into     *)
(* None; one the server has closed takes the bytes or raises.              *)
(***************************************************************************)
Send(t, reports) ==
  /\ Calls \ Live # {}
  /\ \/ /\ link # "none"
        /\ call' = [call EXCEPT ![t] = NewCall]
        /\ asked' = IF link = "open" THEN asked \union {NewCall} ELSE asked
        /\ told' = IF link = "open" THEN told \union reports ELSE told
        /\ UNCHANGED answer
     \/ /\ link # "open"
        /\ answer' = [answer EXCEPT ![t] = 0]
        /\ UNCHANGED <<call, asked, told>>
  /\ UNCHANGED <<gen, link, served, events, found, size>>

NoSend == UNCHANGED <<socket, waiting, history>>

(* A request that has returned leaves its thread at the stage that made it. *)
Returned(t, c) ==
  /\ call' = [call EXCEPT ![t] = 0]
  /\ answer' = [answer EXCEPT ![t] = c]
  /\ found' = [found EXCEPT ![t] = 0]
  /\ size' = [size EXCEPT ![t] = 0]
  /\ served' = served \ {call[t]}

(***************************************************************************)
(* listenForResponse polls for the response and deletes it; after thirty   *)
(* seconds it returns None. cleanUpResponses then walks the dict, which    *)
(* other threads change under it: a size that changed raises, and so does  *)
(* a stale key another thread has deleted. sendRequest catches both: the   *)
(* answer that was already found is lost.                                  *)
(***************************************************************************)
Polling(t) == call[t] # 0 /\ found[t] = 0

FindAny(t) ==
  /\ Polling(t)
  /\ \E r \in responses :
       /\ r.id > 0
       /\ responses' = responses \ {r}
       /\ found' = [found EXCEPT ![t] = r.id]
  /\ size' = [size EXCEPT ![t] = Cardinality(responses) - 1]
  /\ UNCHANGED <<socket, listener, subs, up, stage, call, answer, history>>

Find(t) ==
  /\ Polling(t)
  /\ \E r \in responses :
       /\ r.id = call[t]
       /\ responses' = responses \ {r}
       /\ found' = [found EXCEPT ![t] = r.id]
  /\ size' = [size EXCEPT ![t] = Cardinality(responses) - 1]
  /\ UNCHANGED <<socket, listener, subs, up, stage, call, answer, history>>

(* Only a response nobody waits for any more is older than thirty seconds. *)
Stale == {r \in responses : \A t \in Threads : call[t] # r.id}

CleanUp(t) ==
  /\ found[t] # 0
  /\ \E old \in SUBSET Stale : responses' = responses \ old
  /\ \/ Returned(t, found[t])
     \/ size[t] # Cardinality(responses) /\ Returned(t, 0)
  /\ UNCHANGED <<socket, listener, subs, up, stage, events>>

(* The thirty seconds are over: the answer is lost, or will be late.       *)
GiveUp(t) ==
  /\ Polling(t)
  /\ \/ /\ call[t] \in asked /\ events < MaxEvents
        /\ events' = events + 1 /\ UNCHANGED asked
     \/ asked' = asked \ {call[t]} /\ UNCHANGED events
  /\ Returned(t, 0)
  /\ UNCHANGED <<gen, link, told, listener, responses, subs, up, stage>>

-----------------------------------------------------------------------------
(***************************************************************************)
(* What the application calls. A thread whose request has returned at the  *)
(* stage "request" is free. A stage is entered with the call it makes.     *)
(***************************************************************************)
Free(t) == pc[t] = "request" /\ call[t] = 0
Waits(t, s) == pc[t] = s /\ call[t] = 0

Start(t, j) ==
  /\ Free(t) /\ starts < MaxStarts
  /\ starts' = starts + 1
  /\ job' = [job EXCEPT ![t] = j]

(* sendRequest, and sendSubscriptionRequest with the key it stores first.  *)
Request(t) ==
  /\ t \in Callers /\ Start(t, "request")
  /\ Send(t, {})
  /\ UNCHANGED <<listener, responses, subs, up, pc, loop, lock, elock>>

Subscribe(t, k) ==
  /\ t \in Callers /\ Start(t, "request")
  /\ subs' = WithKey(k)
  /\ Send(t, {k})
  /\ UNCHANGED <<listener, responses, up, pc, loop, lock, elock>>

(* ensureConnected, up to the ping of its first connected().               *)
EnsureConnected(t) ==
  /\ t \in Callers /\ Start(t, "ensure")
  /\ elock = None /\ elock' = t
  /\ pc' = [pc EXCEPT ![t] = "probe"]
  /\ Send(t, {})
  /\ UNCHANGED <<listener, responses, subs, up, loop, lock>>

(* maybeConnect of the wallet looks at the flag only. A reconnect that     *)
(* fails makes it drop this client for a new one.                          *)
MaybeConnect(t) ==
  /\ t \in Callers /\ Start(t, "maybe")
  /\ ~up
  /\ pc' = [pc EXCEPT ![t] = "lock"]
  /\ NoSend
  /\ UNCHANGED <<listener, responses, subs, up, loop, lock, elock>>

(* stayConnected wakes up every 29 seconds.                                *)
Beat ==
  /\ Persistent /\ Start(Pinger, "beat")
  /\ pc' = [pc EXCEPT ![Pinger] = "probe"]
  /\ Send(Pinger, {})
  /\ UNCHANGED <<listener, responses, subs, up, loop, lock, elock>>

Unlock(t, l) == IF l = t THEN None ELSE l

LeaveLocked(t) ==
  /\ pc' = [pc EXCEPT ![t] = "request"]
  /\ loop' = [loop EXCEPT ![t] = [pos |-> 0, size |-> 0]]
  /\ job' = [job EXCEPT ![t] = "request"]
  /\ answer' = [answer EXCEPT ![t] = 0]
  /\ elock' = Unlock(t, elock) /\ UNCHANGED lock
  /\ UNCHANGED <<socket, call, found, size, history>>

(* The method returns or raises: its with statements release the locks.    *)
Leave(t) ==
  /\ pc' = [pc EXCEPT ![t] = "request"]
  /\ job' = [job EXCEPT ![t] = "request"]
  /\ answer' = [answer EXCEPT ![t] = 0]
  /\ loop' = [loop EXCEPT ![t] = [pos |-> 0, size |-> 0]]
  /\ lock' = Unlock(t, lock) /\ elock' = Unlock(t, elock)
  /\ UNCHANGED <<socket, call, found, size, history>>

(* connected() of ensureConnected or stayConnected has its answer.         *)
Probed(t) ==
  /\ Waits(t, "probe")
  /\ up' = (answer[t] # 0)
  /\ IF answer[t] # 0 THEN Leave(t)
     ELSE /\ pc' = [pc EXCEPT ![t] = "lock"]
          /\ NoSend /\ UNCHANGED <<job, loop, lock, elock>>
  /\ UNCHANGED <<listener, responses, subs, starts>>

AcquireNothing(t) ==
  /\ pc[t] = "lock"
  /\ lock' = IF t = Pinger THEN lock ELSE t
  /\ t # Pinger => lock = None
  /\ pc' = [pc EXCEPT ![t] = "swap"]
  /\ NoSend
  /\ UNCHANGED <<listener, responses, subs, up, job, loop, elock, starts>>

AcquireLock(t) ==
  /\ pc[t] = "lock"
  /\ lock = None /\ lock' = t
  /\ pc' = [pc EXCEPT ![t] = "swap"]
  /\ NoSend
  /\ UNCHANGED <<listener, responses, subs, up, job, loop, elock, starts>>

(* The second half of ensureConnected asks connected() again.              *)
Verify(t) ==
  /\ pc' = [pc EXCEPT ![t] = "verify"]
  /\ loop' = [loop EXCEPT ![t] = [pos |-> 0, size |-> 0]]
  /\ lock' = Unlock(t, lock)
  /\ Send(t, {})
  /\ UNCHANGED <<job, elock>>

Finish(t) == IF job[t] = "ensure" THEN Verify(t) ELSE Leave(t)

(***************************************************************************)
(* super().reconnect(): the old socket is closed and a new one connected.  *)
(* What was on the old one is gone; the listener may have read a part of   *)
(* its next line.                                                          *)
(***************************************************************************)
Leftover == torn' \in IF asked = {} /\ told = {} THEN {torn} ELSE {torn, TRUE}

Swap(t) ==
  /\ pc[t] = "swap" /\ gen < MaxSwaps /\ Calls \ Live # {}
  /\ gen' = gen + 1 /\ link' = "open"
  /\ asked' = {NewCall} /\ told' = {}
  /\ up' = TRUE
  /\ pc' = [pc EXCEPT ![t] = "shake"]
  /\ call' = [call EXCEPT ![t] = NewCall]
  /\ Leftover
  /\ UNCHANGED <<buffer, responses, subs, answer, found, size,
                 job, loop, lock, elock, starts, served, events>>

(* The old socket is closed, the new one not connected.                    *)
Disconnect(t) ==
  /\ pc[t] = "swap" /\ link # "none"
  /\ link' = "none" /\ asked' = {} /\ told' = {}
  /\ up' = FALSE
  /\ Leftover
  /\ UNCHANGED <<gen, buffer, responses, subs, waiting, stage, history>>

SwapFails(t) ==
  /\ pc[t] = "swap" /\ link = "none"
  /\ up' = FALSE
  /\ Finish(t)
  /\ UNCHANGED <<listener, responses, subs, starts>>

(* The result of the handshake is not looked at; resubscribe pings first.  *)
Shaken(t) ==
  /\ Waits(t, "shake")
  /\ pc' = [pc EXCEPT ![t] = "reprobe"]
  /\ Send(t, {})
  /\ UNCHANGED <<listener, responses, subs, up, job, loop, lock, elock, starts>>

Reprobed(t) ==
  /\ Waits(t, "reprobe")
  /\ up' = (answer[t] # 0)
  /\ IF answer[t] # 0
     THEN /\ pc' = [pc EXCEPT ![t] = "resub"]
          /\ loop' = [loop EXCEPT ![t] = [pos |-> 1, size |-> Len(subs)]]
          /\ NoSend /\ UNCHANGED <<job, lock, elock>>
     ELSE Finish(t)
  /\ UNCHANGED <<listener, responses, subs, starts>>

(***************************************************************************)
(* One turn of the loop of resubscribe. *params unpacks [] to nothing and  *)
(* a string to its letters: both calls raise a TypeError, which is caught  *)
(* and skipped. [scripthash] is unpacked to the bare string, a new key of  *)
(* the dict under iteration.                                               *)
(***************************************************************************)
Turn(t) == Waits(t, "resub") /\ loop[t].size = Len(subs)
Advance(t) == loop' = [loop EXCEPT ![t].pos = @ + 1]

SkipSubscription(t) ==
  /\ Turn(t) /\ loop[t].pos <= Len(subs)
  /\ subs[loop[t].pos] # "hash"
  /\ Advance(t)
  /\ NoSend
  /\ UNCHANGED <<listener, responses, subs, up, pc, job, lock, elock, starts>>

Resubscribe(t) ==
  /\ Turn(t) /\ loop[t].pos <= Len(subs)
  /\ subs[loop[t].pos] = "hash"
  /\ subs' = WithKey("text")
  /\ Advance(t)
  /\ Send(t, {})
  /\ UNCHANGED <<listener, responses, up, pc, job, lock, elock, starts>>

Resubscribed(t) ==
  /\ Turn(t) /\ loop[t].pos > Len(subs)
  /\ Finish(t)
  /\ UNCHANGED <<listener, responses, subs, up, starts>>

(* The dict grew: the for statement raises out of reconnect and its caller; *)
(* the pinger catches it and takes the flag down.                          *)
IterationRaises(t) ==
  /\ Waits(t, "resub") /\ loop[t].size # Len(subs)
  /\ up' = (up /\ job[t] # "beat")
  /\ Leave(t)
  /\ UNCHANGED <<listener, responses, subs, starts>>

Verified(t) ==
  /\ Waits(t, "verify")
  /\ up' = (answer[t] # 0)
  /\ Leave(t)
  /\ UNCHANGED <<listener, responses, subs, starts>>

-----------------------------------------------------------------------------
(***************************************************************************)
(* listen. One recv reads some of what is on its way; if there is a line   *)
(* end in it, the FIRST line of the buffer is handled and the others stay. *)
(* The buffer is not emptied when the socket is replaced: a line broken    *)
(* off on the old one makes no JSON with the first line of the new one.    *)
(* A header notification is handed to its subscription and stored in       *)
(* responses as well; one of a scripthash is looked up by a string, finds  *)
(* no subscription with a callback and is dropped.                         *)
(***************************************************************************)
Kept(m) == IF m.id = 0 \/ m.note = "hash" THEN {} ELSE {m}

Receive(lines) ==
  /\ link # "none"
  /\ LET read == IF torn THEN <<Garbage>> \o Tail(lines) ELSE lines
         all == buffer \o read
     IN /\ responses' = responses \union Kept(Head(all))
        /\ buffer' = Tail(all)
  /\ torn' = FALSE
  /\ asked' = asked \ {m.id : m \in ToSet(lines)}
  /\ served' = served \union (Range(call) \intersect {m.id : m \in ToSet(lines)})
  /\ events' = IF \E m \in ToSet(lines) : m.id < 0 THEN events + 1 ELSE events
  /\ UNCHANGED <<gen, link, told, subs, up, waiting, stage>>

(***************************************************************************)
(* The server answers in any order and reports what it was asked to.       *)
(***************************************************************************)
Sendable ==
  {Reply(c) : c \in asked} \union (IF events < MaxEvents THEN {Note(k) : k \in told} ELSE {})

(* One recv reads one or two lines, at most one of them a notification.    *)
Chunks ==
  {<<m>> : m \in Sendable}
    \union {pair \in Sendable \X Sendable :
              pair[1] # pair[2] /\ ~(pair[1].id < 0 /\ pair[2].id < 0)}

(* recv returns '' or fails, be it on a socket that has been replaced      *)
(* meanwhile: the flag goes down.                                          *)
Hangup ==
  /\ link # "open" \/ gen > 0
  /\ up /\ up' = FALSE
  /\ UNCHANGED <<socket, listener, responses, subs, waiting, stage, history>>

(* The server drops the connection; some answers may be on their way.      *)
Drop ==
  /\ link = "open" /\ events < MaxEvents
  /\ link' = "dead" /\ told' = {}
  /\ \E sent \in SUBSET asked : asked' = sent
  /\ events' = events + 1
  /\ UNCHANGED <<gen, listener, responses, subs, up, waiting, stage, served>>

-----------------------------------------------------------------------------
Inside(t) ==
  \/ Find(t) \/ CleanUp(t) \/ GiveUp(t)
  \/ Probed(t) \/ AcquireLock(t) \/ Swap(t) \/ Disconnect(t) \/ SwapFails(t)
  \/ Shaken(t) \/ Reprobed(t) \/ SkipSubscription(t) \/ Resubscribe(t)
  \/ Resubscribed(t) \/ IterationRaises(t) \/ Verified(t)

Next ==
  \/ \E t \in Callers : Request(t) \/ EnsureConnected(t) \/ MaybeConnect(t)
  \/ \E t \in Callers, k \in {"headers", "hash"} : Subscribe(t, k)
  \/ Beat
  \/ \E t \in Threads : Inside(t)
  \/ \E lines \in Chunks : Receive(lines)
  \/ Hangup
  \/ Drop

(* A thread runs on: its waits end after thirty seconds, a connect after   *)
(* its timeout. The server and the network owe nothing.                    *)
Spec == Init /\ [][Next]_vars /\ \A t \in Threads : WF_vars(Inside(t))

-----------------------------------------------------------------------------
(* The variables stay in their types, and a subscription has one key.      *)
TypeOK ==
  /\ gen \in 0 .. MaxSwaps /\ link \in {"none", "open", "dead"}
  /\ asked \subseteq Calls /\ told \subseteq {"headers", "hash"}
  /\ buffer \in Seq(Messages) /\ torn \in BOOLEAN
  /\ responses \subseteq Messages /\ subs \in Seq(Keys) /\ IsInjective(subs) /\ up \in BOOLEAN
  /\ lock \in Threads \union {None} /\ elock \in Threads \union {None}
  /\ pc \in [Threads -> Stages] /\ job \in [Threads -> Jobs]
  /\ call \in [Threads -> Calls \union {0}] /\ answer \in [Threads -> Calls \union {0}]
  /\ found \in [Threads -> Calls \union {0}] /\ size \in [Threads -> Nat]
  /\ loop \in [Threads -> [pos : 0 .. 4, size : 0 .. 3]]
  /\ served \subseteq Calls
  /\ starts \in 0 .. MaxStarts /\ events \in 0 .. MaxEvents

(* Whatever the threads, the listener and reconnects do to the shared      *)
(* dict, a request returns once, with the server's answer to it or None:   *)
(* the client implements RequestReply.                                     *)
Promise == INSTANCE RequestReply WITH
  Clients <- Threads, Requests <- Calls, NoRequest <- 0, Nothing <- 0, asking <- call
AnswersOwn == Promise!Spec

(* The race that the comment in stayConnected tells of stays fixed: no     *)
(* thread replaces the socket while another is between its own replacement *)
(* and the end of its resubscriptions.                                     *)
Rebuilding(t) == pc[t] \in {"swap", "shake", "reprobe", "resub"}
OneReconnect ==
  [][\A t \in Threads : gen' # gen /\ Rebuilding(t) => pc[t] = "swap" /\ pc'[t] = "shake"]_vars

(* Every method that is called returns: the two locks and the calls made   *)
(* under them cannot leave a thread waiting for good.                      *)
MethodsReturn == \A t \in Threads : ~Free(t) ~> Free(t)

=============================================================================

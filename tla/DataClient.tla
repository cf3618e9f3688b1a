----------------------------- MODULE DataClient -----------------------------
(***************************************************************************)
(* The data client of a node (datamanager/client.py) and the remote data   *)
(* servers that its coroutines subscribe at: the table of peers, dialling  *)
(* and authentication inside send, the listener of every connection, the   *)
(* responses that callers poll for, and the queue of a subscription.       *)
(*                                                                         *)
(* A coroutine is interrupted only while it dials, sleeps between two      *)
(* polls, or waits for a connection to close.                              *)
(***************************************************************************)
EXTENDS Naturals, Sequences, FiniteSets

CONSTANTS
    Callers,    \* coroutines that call subscribe, one call at a time
    Addrs,      \* addresses of remote servers; each has one stream
    MaxConns,   \* bound on connections
    MaxCalls,   \* bound on calls
    MaxRows,    \* bound on rows that a server broadcasts
    MaxFaults   \* bound on lost connections and calls of disconnectAll

ASSUME BoundsAreNumbers ==
    MaxConns \in Nat /\ MaxCalls \in Nat /\ MaxRows \in Nat /\ MaxFaults \in Nat
ASSUME CallersAreFinite == IsFiniteSet(Callers)

VARIABLES
    peers,      \* the table: the connection with each address, or None
    conns,      \* every connection, in the order they were made
    call,       \* what each caller is doing
    responses,  \* answers received and not picked up
    challenges, \* the last challenge for each address: the id of the request
    posed,      \* at each server, the last challenge it has set this client
    ids,        \* request ids given out
    calls,      \* calls so far
    queued,     \* history: rows put into the queues of the subscription at each address
                \* (every call makes a new queue, and what is in the old one stays there)
    rows,       \* rows that each server has broadcast
    faults,     \* faults so far
    answered,   \* history: requests waited for that a server has answered
    result,     \* history: what the last request that a caller wrote returned
    raced       \* history: a caller dialled an address that another was dialling

callVars   == <<call, result, calls>>
serverVars == <<posed, rows>>
vars == <<peers, conns, callVars, responses, challenges, serverVars, ids, queued,
          faults, answered, raced>>

None == 0

(* A connection: as its two ends see it, what is on its way in each        *)
(* direction, and, as history, whether an end could not read a message and *)
(* whether a request other than those of the authentication went out       *)
(* unencrypted.                                                            *)
Connection(a) ==
    [addr |-> a, state |-> "open", listening |-> TRUE, mine |-> FALSE,
     ended |-> FALSE, theirs |-> FALSE, subscribed |-> FALSE,
     up |-> <<>>, down |-> <<>>, garbled |-> FALSE, bare |-> FALSE]

(* A caller: its request, the request of the authentication it is in, the  *)
(* connection it holds on to meanwhile, and the challenge it has signed.   *)
Idle == [pc |-> "idle", addr |-> None, id |-> None, sub |-> None, peer |-> None,
         chal |-> None, dialled |-> FALSE]

Waited(c) ==
    CASE call[c].pc = "asked" -> {call[c].id}
      [] call[c].pc \in {"hello", "proof"} -> {call[c].sub}
      [] OTHER -> {}

Init ==
    /\ peers = [a \in Addrs |-> None]
    /\ conns = <<>>
    /\ call = [c \in Callers |-> Idle]
    /\ responses = {}
    /\ challenges = [a \in Addrs |-> None]
    /\ posed = [a \in Addrs |-> None]
    /\ ids = 0 /\ calls = 0 /\ faults = 0
    /\ queued = [a \in Addrs |-> <<>>]
    /\ rows = [a \in Addrs |-> 0]
    /\ answered = {}
    /\ result = [c \in Callers |-> None]
    /\ raced = FALSE

-----------------------------------------------------------------------------
(* send: the part after connect.  Without an entry in the table, or with a *)
(* connection that is being closed, it returns an error; of that the       *)
(* authentication makes an AttributeError, which ends the call.            *)

Writable(cs, ps, a) == ps[a] # None /\ cs[ps[a]].state = "open"

Written(cs, k, kind, id, chal) ==
    [cs EXCEPT ![k].up = Append(@, [kind |-> kind, id |-> id, chal |-> chal,
                                    enc |-> cs[k].mine]),
               ![k].bare = IF kind = "ask" /\ ~ cs[k].mine THEN TRUE ELSE @]

(* c writes a request of this kind, or fails; its last request returned r. *)
Write(c, f, kind, cs, ps, r) ==
    LET id == IF kind = "ask" THEN f.id ELSE f.sub IN
    IF Writable(cs, ps, f.addr)
    THEN /\ conns' = Written(cs, ps[f.addr], kind, id, f.chal)
         /\ call' = [call EXCEPT ![c] = [f EXCEPT !.pc = IF kind = "ask" THEN "asked" ELSE kind]]
         /\ result' = [result EXCEPT ![c] = r]
    ELSE /\ conns' = cs
         /\ call' = [call EXCEPT ![c] = Idle]
         /\ result' = [result EXCEPT ![c] = None]

Raise(c) ==
    /\ call' = [call EXCEPT ![c] = Idle]
    /\ result' = [result EXCEPT ![c] = None]

-----------------------------------------------------------------------------
(* connect, connectToPeer *)

Dialling(a) == \E c \in Callers : call[c].addr = a /\ call[c].pc \in {"dial", "redial"}

Begins(c) ==
    /\ call[c].pc = "idle" /\ calls < MaxCalls
    /\ calls' = calls + 1
    /\ ids' = ids + 1

(* Mutant of Unknown: connect trusts isConnected rather than the table.    *)
NotConnected(a) == ~ (peers[a] # None /\ conns[peers[a]].state = "open")

Unknown(a) == peers[a] = None

CallUnknown(c, a) ==
    /\ Begins(c)
    /\ Unknown(a)
    /\ call' = [call EXCEPT ![c] = [Idle EXCEPT !.pc = "dial", !.addr = a, !.id = ids + 1,
                                                !.dialled = TRUE]]
    /\ raced' = (raced \/ Dialling(a))
    /\ UNCHANGED <<peers, conns, result, responses, challenges, serverVars, queued,
                   faults, answered>>

CallKnown(c, a) ==
    /\ Begins(c)
    /\ ~ Unknown(a)
    /\ Write(c, [Idle EXCEPT !.addr = a, !.id = ids + 1], "ask", conns, peers, result[c])
    /\ UNCHANGED <<peers, responses, challenges, serverVars, queued, faults, answered, raced>>

(* The connection is made and put into the table, whatever is there, and   *)
(* authentication begins.                                                  *)
DialSucceeds(c) ==
    LET f == call[c]  k == Len(conns) + 1  ps == [peers EXCEPT ![f.addr] = k] IN
    /\ f.pc = "dial" /\ k <= MaxConns
    /\ peers' = ps
    /\ ids' = ids + 1
    /\ challenges' = [challenges EXCEPT ![f.addr] = ids + 1]
    /\ Write(c, [f EXCEPT !.sub = ids + 1], "hello",
             Append(conns, Connection(f.addr)), ps, result[c])
    /\ UNCHANGED <<calls, responses, serverVars, queued, faults, answered, raced>>

DialFails(c) ==
    /\ call[c].pc = "dial"
    /\ Write(c, call[c], "ask", conns, peers, result[c])
    /\ UNCHANGED <<peers, calls, responses, challenges, serverVars, ids, queued,
                   faults, answered, raced>>

(* The second request of an authentication found no entry: it dials, and   *)
(* this connection is not authenticated from its beginning.                *)
RedialSucceeds(c) ==
    LET f == call[c]  k == Len(conns) + 1  ps == [peers EXCEPT ![f.addr] = k] IN
    /\ f.pc = "redial" /\ k <= MaxConns
    /\ peers' = ps
    /\ Write(c, f, "proof", Append(conns, Connection(f.addr)), ps, result[c])
    /\ UNCHANGED <<calls, responses, challenges, serverVars, ids, queued, faults,
                   answered, raced>>

RedialFails(c) ==
    /\ call[c].pc = "redial"
    /\ Write(c, call[c], "proof", conns, peers, result[c])
    /\ UNCHANGED <<peers, calls, responses, challenges, serverVars, ids, queued,
                   faults, answered, raced>>

-----------------------------------------------------------------------------
(* listenForResponse, cleanUpResponses *)

(* Mutant of Has: the first response will do.                              *)
HasAny(c, r) == Waited(c) # {} /\ r \in responses

Has(c, r) == r \in responses /\ r.id \in Waited(c)

(* With the response go those older than 30 seconds: what nobody waits for *)
(* any more, and possibly what is waited for by a caller that had to dial  *)
(* after its id was made.                                                  *)
Slow == {call[c].id : c \in {d \in Callers : call[d].pc = "asked" /\ call[d].dialled}}
PickUp(c, r) ==
    \E lost \in SUBSET Slow :
        responses' = {q \in responses \ {r} :
                        (\E d \in Callers \ {c} : q.id \in Waited(d)) /\ q.id \notin lost}

Polls(c) == Waited(c) # {}

(* 30 seconds have passed.                                                 *)
TimesOut(c) ==
    /\ Polls(c)
    /\ Raise(c)
    /\ answered' = answered \ Waited(c)
    /\ UNCHANGED <<peers, conns, calls, responses, challenges, serverVars, ids, queued,
                   faults, raced>>

Answered(c, r) ==
    /\ call[c].pc = "asked" /\ Has(c, r)
    /\ PickUp(c, r)
    /\ call' = [call EXCEPT ![c] = Idle]
    /\ result' = [result EXCEPT ![c] = r.id]
    /\ answered' = answered \ Waited(c)
    /\ UNCHANGED <<peers, conns, calls, challenges, serverVars, ids, queued, faults, raced>>

-----------------------------------------------------------------------------
(* authenticate *)

Closing(cs, k) == [cs EXCEPT ![k].state = IF @ = "open" THEN "closing" ELSE @]

(* disconnect of whatever is in the table: of nothing it raises.           *)
Drop(c, r) ==
    LET k == peers[call[c].addr] IN
    IF k = None THEN Raise(c) /\ UNCHANGED conns
    ELSE /\ conns' = Closing(conns, k)
         /\ call' = [call EXCEPT ![c].pc = "dropping", ![c].peer = k]
         /\ result' = [result EXCEPT ![c] = r]

(* The answer to the challenge, which must still be the last one for this  *)
(* address; then the proof, and the peer that is in the table by now.      *)
HelloAnswered(c, r) ==
    LET f == call[c]
        g == [f EXCEPT !.sub = ids + 1, !.chal = f.sub, !.peer = peers[f.addr]]
    IN
    /\ f.pc = "hello" /\ Has(c, r)
    /\ PickUp(c, r)
    /\ answered' = answered \ Waited(c)
    /\ \/ /\ challenges[f.addr] # r.id
          /\ Drop(c, r.id)
          /\ UNCHANGED <<ids, raced>>
       \/ /\ challenges[f.addr] = r.id /\ ~ Unknown(f.addr)
          /\ ids' = ids + 1
          /\ Write(c, g, "proof", conns, peers, r.id)
          /\ UNCHANGED raced
       \/ /\ challenges[f.addr] = r.id /\ Unknown(f.addr)
          /\ ids' = ids + 1
          /\ call' = [call EXCEPT ![c] = [g EXCEPT !.pc = "redial"]]
          /\ result' = [result EXCEPT ![c] = r.id]
          /\ raced' = (raced \/ Dialling(f.addr))
          /\ UNCHANGED conns
    /\ UNCHANGED <<peers, calls, challenges, serverVars, queued, faults>>

(* The secret goes to the peer that was in the table before the proof, and *)
(* the request that wanted the connection is sent.                         *)
ProofAnswered(c, r) ==
    LET f == call[c] IN
    /\ f.pc = "proof" /\ Has(c, r)
    /\ PickUp(c, r)
    /\ answered' = answered \ Waited(c)
    /\ \/ ~ r.ok /\ Drop(c, r.id)
       \/ r.ok /\ f.peer = None /\ Raise(c) /\ UNCHANGED conns
       \/ /\ r.ok /\ f.peer # None
          /\ Write(c, f, "ask", [conns EXCEPT ![f.peer].mine = TRUE], peers, r.id)
    /\ UNCHANGED <<peers, calls, challenges, serverVars, ids, queued, faults, raced>>

-----------------------------------------------------------------------------
(* listenToPeer, disconnect, disconnectAll *)

(* A message in the form the listener expects is handled by a task of its  *)
(* own at once; any other ends the listener, which closes the connection.  *)
Receive(k) ==
    LET m == Head(conns[k].down)
        rest == [conns EXCEPT ![k].down = Tail(@)]
    IN
    /\ conns[k].state # "closed" /\ conns[k].listening /\ conns[k].down # <<>>
    /\ \/ /\ m.enc # conns[k].mine
          /\ conns' = [Closing(rest, k) EXCEPT ![k].listening = FALSE, ![k].garbled = TRUE]
          /\ UNCHANGED <<responses, queued>>
       \/ /\ m.enc = conns[k].mine /\ m.kind = "answer"
          /\ conns' = rest
          /\ responses' = responses \cup {[id |-> m.id, ok |-> m.ok]}
          /\ UNCHANGED queued
       \/ /\ m.enc = conns[k].mine /\ m.kind = "row"
          /\ conns' = rest
          /\ queued' = [queued EXCEPT ![conns[k].addr] = Append(@, m.id)]
          /\ UNCHANGED responses
    /\ UNCHANGED <<peers, callVars, challenges, serverVars, ids, faults, answered, raced>>

(* Mutant of Left: the listener ends and leaves the connection alone.      *)
LeftAlone(k) == [conns EXCEPT ![k].listening = FALSE]

Left(k) == [Closing(conns, k) EXCEPT ![k].listening = FALSE]

(* recv raises when the other end is gone and everything has been read.    *)
NoticeEnd(k) ==
    /\ conns[k].state = "open" /\ conns[k].ended /\ conns[k].down = <<>>
    /\ conns' = Left(k)
    /\ UNCHANGED <<peers, callVars, responses, challenges, serverVars, ids, queued,
                   faults, answered, raced>>

(* Mutant of Deleted: disconnect leaves the table as it is.                *)
NotDeleted(k) == peers

(* Whatever the table has for the address of k.                            *)
Deleted(k) == [peers EXCEPT ![conns[k].addr] = None]

(* The connection is closed.  The listener and all others that wait for it *)
(* delete what the table has for its address.  A failed authentication     *)
(* goes on to send, which finds nothing; disconnectAll raises, since the   *)
(* table it iterates over has changed.                                     *)
CloseEnds(k) ==
    LET done == {c \in Callers : call[c].pc \in {"dropping", "leaving"} /\ call[c].peer = k} IN
    /\ conns[k].state = "closing"
    /\ conns' = [conns EXCEPT ![k].state = "closed", ![k].down = <<>>]
    /\ peers' = Deleted(k)
    /\ call' = [c \in Callers |-> IF c \in done THEN Idle ELSE call[c]]
    /\ UNCHANGED <<calls, result, responses, challenges, serverVars, ids, queued, faults,
                   answered, raced>>

(* disconnectAll: the first peer of the table, which may be any.           *)
DisconnectAll(c, a) ==
    /\ call[c].pc = "idle" /\ faults < MaxFaults
    /\ peers[a] # None
    /\ faults' = faults + 1
    /\ conns' = Closing(conns, peers[a])
    /\ call' = [call EXCEPT ![c] = [Idle EXCEPT !.pc = "leaving", !.peer = peers[a]]]
    /\ UNCHANGED <<peers, result, calls, responses, challenges, serverVars, ids, queued,
                   answered, raced>>

-----------------------------------------------------------------------------
(* The remote server *)

Delivered(cs, k, m) ==
    IF cs[k].state = "closed" THEN cs ELSE [cs EXCEPT ![k].down = Append(@, m)]

Answer(m, ok, enc) == [kind |-> "answer", id |-> m.id, ok |-> ok, enc |-> enc]

(* Mutant of Notified: the news of the authentication is encrypted too.    *)
NotifiedEncrypted == TRUE

(* The success of an authentication is told in plain.                      *)
Notified == FALSE

(* handleConnection handles the next request.  One that it cannot decrypt  *)
(* or parse ends it.                                                       *)
Handle(k) ==
    LET n == conns[k]  a == n.addr  m == Head(n.up)
        rest == [conns EXCEPT ![k].up = Tail(@)]
    IN
    /\ ~ n.ended /\ n.up # <<>>
    /\ \/ /\ m.enc # n.theirs
          /\ conns' = [conns EXCEPT ![k].up = <<>>, ![k].ended = TRUE, ![k].garbled = TRUE]
          /\ UNCHANGED <<posed, answered>>
       \/ /\ m.enc = n.theirs
          /\ answered' = answered \cup ({m.id} \cap UNION {Waited(c) : c \in Callers})
          /\ \/ /\ m.kind = "hello"
                /\ posed' = [posed EXCEPT ![a] = m.id]
                /\ conns' = Delivered(rest, k, Answer(m, TRUE, n.theirs))
             \/ /\ m.kind = "proof" /\ m.chal = posed[a]
                /\ conns' = Delivered([rest EXCEPT ![k].theirs = TRUE], k,
                                      Answer(m, TRUE, Notified))
                /\ UNCHANGED posed
             \/ /\ m.kind = "proof" /\ m.chal # posed[a]
                /\ conns' = Delivered(rest, k, Answer(m, FALSE, n.theirs))
                /\ UNCHANGED posed
             \/ /\ m.kind = "ask"
                /\ conns' = Delivered([rest EXCEPT ![k].subscribed = TRUE], k,
                                      Answer(m, TRUE, n.theirs))
                /\ UNCHANGED posed
    /\ UNCHANGED <<peers, callVars, responses, challenges, rows, ids, queued, faults, raced>>

(* updateSubscribers: a subscriber without a secret makes it raise, and    *)
(* those after it get nothing.                                             *)
Broadcast(a) ==
    LET subscribed == {k \in DOMAIN conns :
                         conns[k].addr = a /\ conns[k].subscribed /\ ~ conns[k].ended}
        served == {k \in subscribed : \A j \in subscribed : j <= k => conns[j].theirs}
        row == [kind |-> "row", id |-> rows[a] + 1, ok |-> TRUE, enc |-> TRUE]
    IN
    /\ served # {} /\ rows[a] < MaxRows
    /\ rows' = [rows EXCEPT ![a] = @ + 1]
    /\ conns' = [k \in DOMAIN conns |->
                    IF k \in served THEN Delivered(conns, k, row)[k] ELSE conns[k]]
    /\ UNCHANGED <<peers, callVars, responses, challenges, posed, ids, queued, faults,
                   answered, raced>>

(* It sees the end of a connection that the client has closed.             *)
ServerEnds(k) ==
    /\ ~ conns[k].ended /\ conns[k].state = "closed" /\ conns[k].up = <<>>
    /\ conns' = [conns EXCEPT ![k].ended = TRUE]
    /\ UNCHANGED <<peers, callVars, responses, challenges, serverVars, ids, queued, faults,
                   answered, raced>>

(* The network drops a connection, and some of what was on its way.        *)
Lose(k) ==
    /\ ~ conns[k].ended /\ conns[k].state = "open" /\ faults < MaxFaults
    /\ faults' = faults + 1
    /\ \E n \in 0..Len(conns[k].down) :
         conns' = [conns EXCEPT ![k].ended = TRUE, ![k].up = <<>>,
                                ![k].down = SubSeq(@, 1, n)]
    /\ UNCHANGED <<peers, callVars, responses, challenges, serverVars, ids, queued,
                   answered, raced>>

-----------------------------------------------------------------------------
Ends(c) ==
    \/ DialSucceeds(c) \/ DialFails(c) \/ RedialSucceeds(c) \/ RedialFails(c)
    \/ TimesOut(c)
    \/ \E r \in responses : Answered(c, r) \/ HelloAnswered(c, r) \/ ProofAnswered(c, r)

Listens(k) == Receive(k) \/ NoticeEnd(k) \/ CloseEnds(k)

Next ==
    \/ \E c \in Callers, a \in Addrs : CallUnknown(c, a) \/ CallKnown(c, a) \/ DisconnectAll(c, a)
    \/ \E c \in Callers : Ends(c)
    \/ \E k \in DOMAIN conns : Listens(k) \/ Handle(k) \/ ServerEnds(k) \/ Lose(k)
    \/ \E a \in Addrs : Broadcast(a)

(* The event loop goes on with every coroutine whose wait is over: a dial  *)
(* and a close have time limits of their own, a poll lasts 30 seconds.     *)
Fairness ==
    /\ \A c \in Callers : WF_vars(Ends(c))
    /\ \A k \in 1..MaxConns : WF_vars(k \in DOMAIN conns /\ Listens(k))

Spec == Init /\ [][Next]_vars /\ Fairness

-----------------------------------------------------------------------------
(* Properties *)

(* The table never names a connection that is closed.                      *)
TypeOK ==
    /\ \A a \in Addrs : peers[a] # None =>
          peers[a] \in DOMAIN conns /\ conns[peers[a]].addr = a
          /\ conns[peers[a]].state # "closed"
    /\ \A c \in Callers :
          call[c].pc \in {"idle", "dial", "redial", "hello", "proof", "asked",
                          "dropping", "leaving"}
    /\ Len(conns) <= MaxConns /\ faults \in 0..MaxFaults /\ calls \in 0..MaxCalls
    /\ \A r \in responses : r.id \in 1..ids
    /\ answered \subseteq 1..ids

(* Unless two callers dial one address at a time, every connection that is *)
(* not closed is the one in the table: the deletions in disconnect, which  *)
(* go by address, never take out a successor.                              *)
LiveIsListed ==
    ~ raced => \A k \in DOMAIN conns :
                  conns[k].state # "closed" => peers[conns[k].addr] = k

(* The two ends of a connection disagree on encryption only if a request   *)
(* was sent on it unencrypted: by a caller that found the peer in the      *)
(* table while another was authenticating it or had failed to.             *)
Readable ==
    ~ raced => \A k \in DOMAIN conns : conns[k].garbled => conns[k].bare

(* The queues of a subscription get the rows of a server in order and     *)
(* once, across lost connections, unless two callers dial it at a time.    *)
RowsOnce ==
    ~ raced => \A a \in Addrs : \A i, j \in DOMAIN queued[a] :
                  i < j => queued[a][i] < queued[a][j]

(* A request returns once, with the answer to this very request or with    *)
(* None, whatever other requests are under way.                            *)
Abstract == INSTANCE RequestReply WITH
    Clients   <- Callers,
    Requests  <- 1..(3 * MaxCalls),
    NoRequest <- None,
    Nothing   <- None,
    asking    <- [c \in Callers |-> IF Waited(c) = {} THEN None ELSE CHOOSE i \in Waited(c) : TRUE],
    served    <- answered,
    answer    <- result

AnswersOwn == Abstract!Spec

(* Every call ends.                                                        *)
CallsEnd == \A c \in Callers : call[c].pc # "idle" ~> call[c].pc = "idle"

(* A connection that the server has ended leaves the table.                *)
Gone(a) == peers[a] # None /\ conns[peers[a]].ended
EndsForgotten == \A a \in Addrs : Gone(a) ~> ~ Gone(a)

(* Nothing is left behind: neither a caller that waits nor a dead peer.    *)
NothingStays == CallsEnd /\ EndsForgotten
=============================================================================

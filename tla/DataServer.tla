----------------------------- MODULE DataServer -----------------------------
(***************************************************************************)
(* The data server of a node (datamanager/server.py) for one stream and    *)
(* the publication that belongs to it: its table of connections, what each *)
(* subscribes to and provides, the broadcasts, and the table of the stream *)
(* in its store.                                                           *)
(*                                                                         *)
(* Every connection has a coroutine, handleConnection, on one event loop:  *)
(* it handles one request after another, and in the end cleans up.  It is  *)
(* interrupted only after it has sent a message (the send waits when the   *)
(* peer is slow), and while it closes the connection.                      *)
(***************************************************************************)
EXTENDS History

CONSTANTS
    Conns,        \* connections; a peer that comes back has a new port
    Local,        \* those of the node's own neuron and engine
    Stream,       \* the stream, and the uuid of
    Publication,  \* the predictions of it
    Nobody,       \* no connection
    MaxRequests   \* bound on requests

ASSUME LocalAreConns == Local \subseteq Conns /\ Nobody \notin Conns
ASSUME TwoStreams == Stream # Publication

VARIABLES
    slots,      \* connectedClients: the slots of the dict in order, Nobody where one left
    link,       \* of each connection: "new", "open" or "closed"
    subs, pubs, \* subscriptions and publications of each
    task,       \* its coroutine
    running,    \* the connection whose coroutine has the event loop, or Nobody
    rows,       \* the stream's table
    got,        \* the rows that each connection was sent
    requests,   \* requests so far
    disturbed,  \* history: a row was added or removed out of order since the last merge
    rewritten,  \* history: rows were removed, replaced or hashed again
    missed      \* history: subscribers that a finished broadcast had not served
vars == <<slots, link, subs, pubs, task, running, rows, got, requests, disturbed,
          rewritten, missed>>
peerVars  == <<slots, link, subs, pubs>>
tableVars == <<rows, disturbed, rewritten>>

uuids == {Stream, Publication}

(* A coroutine: what it is about to broadcast (todo), whether that is part *)
(* of its clean-up, the iterator over the dict (the slot it has reached,   *)
(* the entries it still expects, the size of the dict), the publications   *)
(* it saw when the clean-up began, and, as history, whom it owes.          *)
Frame(at) == [at |-> at, todo |-> <<>>, cleaning |-> FALSE, pos |-> 0, left |-> 0,
              size |-> 0, provided |-> 0, owed |-> {}]

Row(t, hash)   == [kind |-> "row", uuid |-> Stream, t |-> t, hash |-> hash]
Inactive(uuid) == [kind |-> "inactive", uuid |-> uuid, t |-> 0, hash |-> <<>>]

Entries(table) == {table[i] : i \in DOMAIN table} \ {Nobody}
Used == Cardinality({i \in DOMAIN slots : slots[i] # Nobody})

Init ==
    /\ slots = <<>>
    /\ link = [c \in Conns |-> "new"]
    /\ subs = [c \in Conns |-> {}] /\ pubs = [c \in Conns |-> {}]
    /\ task = [c \in Conns |-> Frame("none")]
    /\ running = Nobody
    /\ rows = Empty /\ disturbed = FALSE /\ rewritten = FALSE
    /\ got = [c \in Conns |-> <<>>]
    /\ requests = 0
    /\ missed = {}

-----------------------------------------------------------------------------
(* Connections *)

(* handleConnection up to its first message.                               *)
Connect(c) ==
    /\ running = Nobody
    /\ link[c] = "new"
    /\ link' = [link EXCEPT ![c] = "open"]
    /\ slots' = Append(slots, c)
    /\ task' = [task EXCEPT ![c] = Frame("idle")]
    /\ UNCHANGED <<subs, pubs, running, tableVars, got, requests, missed>>

(* The peer goes away, at any time.  A broadcast owes it nothing then.     *)
Disconnect(c) ==
    /\ running = Nobody
    /\ link[c] = "open"
    /\ link' = [link EXCEPT ![c] = "closed"]
    /\ task' = [d \in Conns |-> [task[d] EXCEPT !.owed = @ \ {c}]]
    /\ UNCHANGED <<slots, subs, pubs, running, tableVars, got, requests, missed>>

-----------------------------------------------------------------------------
(* Broadcasts: updateSubscribers *)

Subscribers(uuid) == {d \in Entries(slots) : uuid \in subs[d]}
Broadcast(f, todo) ==
    [at |-> "sending", todo |-> todo, cleaning |-> f.cleaning, pos |-> 0, left |-> Used,
     size |-> Used, provided |-> f.provided,
     owed |-> {d \in Subscribers(Head(todo).uuid) : link[d] = "open"}]

Ahead(f)  == {i \in DOMAIN slots : i > f.pos /\ slots[i] # Nobody}
Due(f)    == {i \in Ahead(f) : Head(f.todo).uuid \in subs[slots[i]]}
Target(f) == CHOOSE i \in Due(f) : \A j \in Due(f) : i <= j
Upto(f)   == IF Due(f) = {} THEN Ahead(f) ELSE {i \in Ahead(f) : i <= Target(f)}

(* The iterator notices that the dict's size has changed, or that there    *)
(* are more entries than it expects.                                       *)
IteratorFails(f) == Used # f.size \/ Cardinality(Upto(f)) > f.left
Closed(f) == Due(f) # {} /\ link[slots[Target(f)]] = "closed"
Raises(f) == IteratorFails(f) \/ Closed(f)

(* It goes on in the event loop, or when an awaited send has returned.     *)
Runs(c) == running \in {c, Nobody}

Send(c) ==
    LET f == task[c] IN
    /\ Runs(c) /\ f.at = "sending"
    /\ ~ Raises(f) /\ Due(f) # {} /\ link[slots[Target(f)]] = "open"
    /\ LET d == slots[Target(f)] IN
        /\ got' = IF Head(f.todo).kind = "row"
                  THEN [got EXCEPT ![d] = Append(@, Head(f.todo))] ELSE got
        /\ task' = [task EXCEPT ![c].pos = Target(f), ![c].left = @ - Cardinality(Upto(f)),
                                ![c].owed = @ \ {d}]
    /\ running' = Nobody
    /\ UNCHANGED <<peerVars, tableVars, requests, missed>>

(* The broadcast is over; the next one begins, or the request is answered, *)
(* or the clean-up closes the connection.                                  *)
Finished(c) == IF task[c].cleaning THEN "closing" ELSE "idle"
BroadcastEnds(c) ==
    LET f == task[c] IN
    /\ Runs(c) /\ f.at = "sending"
    /\ ~ Raises(f) /\ Due(f) = {}
    /\ f.cleaning => Cardinality(pubs[c]) = f.provided
    /\ missed' = missed \cup f.owed
    /\ IF Len(f.todo) > 1
       THEN task' = [task EXCEPT ![c] = Broadcast(f, Tail(f.todo))] /\ running' = c
       ELSE /\ task' = [task EXCEPT ![c].at = Finished(c), ![c].todo = <<>>]
            /\ running' = IF f.cleaning THEN c ELSE Nobody
    /\ UNCHANGED <<peerVars, tableVars, got, requests>>

-----------------------------------------------------------------------------
(* The end of a connection: cleanupConnection *)

(* The streams it provided are said to be inactive, one after another.     *)
Orders(S) == {order \in [1..Cardinality(S) -> S] :
                \A i, j \in DOMAIN order : order[i] = order[j] => i = j}
Cleanup(c) ==
    /\ \/ /\ pubs[c] = {}
          /\ task' = [task EXCEPT ![c] = [Frame("closing") EXCEPT !.cleaning = TRUE]]
       \/ /\ pubs[c] # {}
          /\ \E order \in Orders(pubs[c]) :
               LET f == [Frame("sending") EXCEPT !.cleaning = TRUE,
                                                 !.provided = Cardinality(pubs[c])]
               IN  task' = [task EXCEPT ![c] =
                        Broadcast(f, [i \in DOMAIN order |-> Inactive(order[i])])]
    /\ running' = c
    /\ UNCHANGED <<peerVars, tableVars, got, requests, missed>>

(* Its messages end, since the peer has gone.                              *)
MessagesEnd(c) ==
    /\ running = Nobody /\ task[c].at = "idle" /\ link[c] = "closed"
    /\ Cleanup(c)

(* A broadcast raises.  Whatever the request was, its handler ends: what   *)
(* streamInactive raises nobody catches, and the failure that insert makes *)
(* of it holds the exception itself, which cannot be put into a message.   *)
RequestFails(c) ==
    LET f == task[c] IN
    /\ Runs(c) /\ f.at = "sending" /\ ~ f.cleaning /\ Raises(f)
    /\ Cleanup(c)

(* In the clean-up it ends there: the connection stays in the table.       *)
CleanupFails(c) ==
    LET f == task[c] IN
    /\ Runs(c) /\ f.at = "sending" /\ f.cleaning
    /\ Raises(f) \/ (Due(f) = {} /\ Cardinality(pubs[c]) # f.provided)
    /\ task' = [d \in Conns |-> IF d = c THEN Frame("ended")
                                ELSE [task[d] EXCEPT !.owed = @ \ {c}]]
    /\ link' = [link EXCEPT ![c] = "closed"]
    /\ running' = Nobody
    /\ UNCHANGED <<slots, subs, pubs, tableVars, got, requests, missed>>

(* The connection is closed if the peer has not closed it (the coroutine   *)
(* waits for that), and removed.                                           *)
Close(c) ==
    /\ running = c /\ task[c].at = "closing"
    /\ link[c] = "open"
    /\ link' = [link EXCEPT ![c] = "closed"]
    /\ task' = [d \in Conns |-> [task[d] EXCEPT !.owed = @ \ {c}]]
    /\ running' = Nobody
    /\ UNCHANGED <<slots, subs, pubs, tableVars, got, requests, missed>>
ForgetShifting(c) ==
    /\ Runs(c) /\ task[c].at = "closing"
    /\ link[c] = "closed"
    /\ slots' = SelectSeq(slots, LAMBDA d : d # c)
    /\ task' = [task EXCEPT ![c] = Frame("ended")]
    /\ running' = Nobody
    /\ UNCHANGED <<link, subs, pubs, tableVars, got, requests, missed>>
Forget(c) ==
    /\ Runs(c) /\ task[c].at = "closing"
    /\ link[c] = "closed"
    /\ slots' = [i \in DOMAIN slots |-> IF slots[i] = c THEN Nobody ELSE slots[i]]
    /\ task' = [task EXCEPT ![c] = Frame("ended")]
    /\ running' = Nobody
    /\ UNCHANGED <<link, subs, pubs, tableVars, got, requests, missed>>

-----------------------------------------------------------------------------
(* Requests: handleRequest *)

Asks(c) ==
    /\ running = Nobody /\ task[c].at = "idle" /\ link[c] = "open"
    /\ requests < MaxRequests
    /\ requests' = requests + 1
Answered == UNCHANGED <<task, running>>

subscribe(c, uuid) ==
    /\ Asks(c)
    /\ subs' = [subs EXCEPT ![c] = @ \cup {uuid}]
    /\ Answered /\ UNCHANGED <<slots, link, pubs, tableVars, got, missed>>

addActiveStreamTwice(c, uuid) ==
    /\ Asks(c)
    /\ pubs' = [pubs EXCEPT ![c] = @ \cup {uuid}]
    /\ Answered /\ UNCHANGED <<slots, link, subs, tableVars, got, missed>>
addActiveStream(c, uuid) ==
    /\ Asks(c)
    /\ pubs' = IF \E d \in Entries(slots) : uuid \in pubs[d] THEN pubs
               ELSE [pubs EXCEPT ![c] = @ \cup {uuid}]
    /\ Answered /\ UNCHANGED <<slots, link, subs, tableVars, got, missed>>

(* With several local connections, whether they provide the stream or not, *)
(* only the one that asks loses it; with one, everybody does, and nobody   *)
(* is left to be told.                                                     *)
streamInactive(c) ==
    /\ Asks(c)
    /\ LET several == Cardinality(Entries(slots) \cap Local) > 1
           losers  == IF several THEN {c} ELSE Entries(slots)
           after   == [d \in Conns |-> IF d \in losers THEN subs[d] \ uuids ELSE subs[d]]
           todo    == <<Inactive(Stream), Inactive(Publication)>>
       IN  /\ subs' = after
           /\ pubs' = [d \in Conns |-> IF d \in losers THEN pubs[d] \ uuids ELSE pubs[d]]
           /\ task' = [d \in Conns |->
                IF d = c THEN [Broadcast(Frame("sending"), todo) EXCEPT !.owed =
                                {e \in Subscribers(Stream) \ losers : link[e] = "open"}]
                ELSE [task[d] EXCEPT !.owed = @ \ losers]]
    /\ running' = c
    /\ UNCHANGED <<slots, link, tableVars, got, missed>>

(* insertStreamData with a subscription's row, from a provider that knows  *)
(* its hash (it has the table already) or does not.                        *)
HashesOf(t) == {NoHash} \cup {Chained(S \cup {t})[t] : S \in SUBSET Times}
insertSubscription(c, t, hash) ==
    /\ Asks(c)
    /\ IF IsNew(rows, t)
       THEN /\ rows' = AddSub(rows, t, hash)
            /\ disturbed' = (\/ disturbed
                             \/ \E s \in DOMAIN rows : s > t
                             \/ hash \notin {NoHash, HashFor(rows, t, NoHash)})
            /\ task' = [task EXCEPT ![c] =
                    Broadcast(Frame("sending"), <<Row(t, HashFor(rows, t, hash))>>)]
            /\ running' = c
       ELSE UNCHANGED <<rows, disturbed, task, running>>
    /\ UNCHANGED <<peerVars, rewritten, got, missed>>

(* insertStreamData with a frame, which may replace the table: that is     *)
(* emptied first, and stays so if the frame has no hashes.                 *)
Frames == {Chained(S) : S \in SUBSET Times} \cup {[t \in S |-> NoHash] : S \in SUBSET Times}
insertFrame(c, frame, replace) ==
    LET before == IF replace THEN Empty ELSE rows
        after  == AddFrame(before, frame)
    IN
    /\ Asks(c)
    /\ frame # Empty
    /\ rows' = after
    /\ disturbed' = (~ replace /\ (disturbed \/ after # rows))
    /\ rewritten' = (rewritten \/ replace)
    /\ Answered /\ UNCHANGED <<peerVars, got, missed>>

mergeFromCsv(c, times) ==
    /\ Asks(c)
    /\ times # {}
    /\ rows' = blindMerge(rows, times)
    /\ disturbed' = FALSE /\ rewritten' = TRUE
    /\ Answered /\ UNCHANGED <<peerVars, got, missed>>

deleteStreamData(c, times) ==
    /\ Asks(c)
    /\ times # {}
    /\ rows' = Without(rows, times)
    /\ disturbed' = (disturbed \/ \E t \in times, s \in DOMAIN rows \ times :
                                        t \in DOMAIN rows /\ t < s)
    /\ rewritten' = TRUE
    /\ Answered /\ UNCHANGED <<peerVars, got, missed>>

-----------------------------------------------------------------------------

Step(c) ==
    \/ Send(c) \/ BroadcastEnds(c) \/ RequestFails(c) \/ CleanupFails(c)
    \/ MessagesEnd(c) \/ Close(c) \/ Forget(c)

Request(c) ==
    \/ \E uuid \in uuids : subscribe(c, uuid) \/ addActiveStream(c, uuid)
    \/ streamInactive(c)
    \/ \E t \in Times : \E hash \in HashesOf(t) : insertSubscription(c, t, hash)
    \/ \E frame \in Frames, replace \in BOOLEAN : insertFrame(c, frame, replace)
    \/ \E times \in SUBSET Times : mergeFromCsv(c, times) \/ deleteStreamData(c, times)

Next == \E c \in Conns : Connect(c) \/ Disconnect(c) \/ Step(c) \/ Request(c)

Spec == Init /\ [][Next]_vars

-----------------------------------------------------------------------------
(* Properties *)

(* A broadcast that ends without raising has reached every connection that *)
(* was subscribed and open from its beginning to its end, whatever others  *)
(* did to the table of connections between its sends.                      *)
NoneSkipped == missed = {}

(* A row is sent to a connection at most once, whoever inserts it again,   *)
(* and with the hash that the table has for it; as long as rows are only   *)
(* added.                                                                  *)
SentAsStored ==
    ~ rewritten =>
        \A c \in Conns : \A i \in DOMAIN got[c] :
            /\ got[c][i].t \in DOMAIN rows /\ rows[got[c][i].t] = got[c][i].hash
            /\ \A j \in DOMAIN got[c] : got[c][j] = got[c][i] => j = i

(* The chain of hashes is valid, however rows were added, merged, replaced *)
(* or deleted, if none was added or deleted out of order since the last    *)
(* merge or replacement.                                                   *)
ChainValid == ~ disturbed => Valid(rows)

(* Subscribers can verify what they are sent: the hashes they get are those *)
(* of the table, and these form a chain.                                   *)
HistoriesAgree == SentAsStored /\ ChainValid

(* A stream has one provider: while its connection is there, nobody else's *)
(* leaving makes it inactive.                                              *)
OneProvider == \A c, d \in Entries(slots) : pubs[c] \cap pubs[d] # {} => c = d
=============================================================================

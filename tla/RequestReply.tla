---------------------------- MODULE RequestReply ----------------------------
(***************************************************************************)
(* What ElectrumxApi.sendRequest promises the threads that call it: a      *)
(* request returns once, with the answer the server gave to this very      *)
(* request, or with None.                                                  *)
(***************************************************************************)
CONSTANTS
  Clients,    \* the threads that make requests, one at a time
  Requests,   \* the requests
  NoRequest,  \* a client that waits for nothing
  Nothing     \* the result None; also no result yet

VARIABLES
  asking,     \* the request a client waits for
  served,     \* the requests waited for that the server has answered
  answer      \* what the last request of a client returned

vars == <<asking, served, answer>>

Init ==
  /\ asking = [c \in Clients |-> NoRequest]
  /\ served = {}
  /\ answer = [c \in Clients |-> Nothing]

Ask(c, r) ==
  /\ asking[c] = NoRequest
  /\ \A d \in Clients : asking[d] # r
  /\ asking' = [asking EXCEPT ![c] = r]
  /\ UNCHANGED <<served, answer>>

(* The socket may refuse a request in the step that makes it.              *)
Refuse(c) ==
  /\ asking[c] = NoRequest
  /\ answer' = [answer EXCEPT ![c] = Nothing]
  /\ UNCHANGED <<asking, served>>

(* The answers to some of them may arrive together.                        *)
Serve(some) ==
  /\ \A c \in some : asking[c] # NoRequest
  /\ served' = served \union {asking[c] : c \in some}
  /\ UNCHANGED <<asking, answer>>

(* The client may make its next request in the same step.                  *)
Return(c) ==
  /\ asking[c] # NoRequest
  /\ \/ asking[c] \in served /\ answer' = [answer EXCEPT ![c] = asking[c]]
     \/ answer' = [answer EXCEPT ![c] = Nothing]
  /\ \E r \in Requests \union {NoRequest} :
       /\ \A d \in Clients : asking[d] # r \/ r = NoRequest
       /\ asking' = [asking EXCEPT ![c] = r]
  /\ served' = served \ {asking[c]}

Next ==
  \/ \E c \in Clients, r \in Requests : Ask(c, r)
  \/ \E c \in Clients : Refuse(c) \/ Return(c)
  \/ \E some \in SUBSET Clients : Serve(some)

Spec == Init /\ [][Next]_vars
=============================================================================

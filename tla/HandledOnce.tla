------------------------------ MODULE HandledOnce ------------------------------
(***************************************************************************)
(* What event deduplication promises its client: of the events that        *)
(* arrive, each is handled at most once.                                   *)
(***************************************************************************)
EXTENDS Naturals, Sequences

CONSTANT Events

VARIABLE handled   \* the events handled so far, in order

Handled == {handled[i] : i \in DOMAIN handled}

Init == handled = <<>>

Handle(e) ==
  /\ e \notin Handled
  /\ handled' = Append(handled, e)

Next == \E e \in Events : Handle(e)

Spec == Init /\ [][Next]_handled
=============================================================================

---------------------------- MODULE MCPaidStream ----------------------------
(* Symmetry for the runs of PaidStream that check safety only. *)
EXTENDS PaidStream, TLC

SubscriberSymmetry == Permutations(Subscribers)
=============================================================================

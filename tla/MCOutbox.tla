------------------------------ MODULE MCOutbox ------------------------------
(* Two publishers and two events of the same wallet.                       *)
EXTENDS Outbox

CONSTANTS p1, p2
TwoPublishers == {p1, p2}
OwnInstances == [p \in TwoPublishers |-> p]

TwoEvents == {1, 2}
TwoOfOneWallet == [m \in TwoEvents |-> "w1"]
=============================================================================

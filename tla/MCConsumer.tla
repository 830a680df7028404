----------------------------- MODULE MCConsumer -----------------------------
(* Consumers over two messages of one wallet.                              *)
EXTENDS WagerConsumer

TwoMessages == {1, 2}
OneWallet == [m \in TwoMessages |-> "w1"]
NoPoison == {}
FirstIsPoison == {1}
=============================================================================

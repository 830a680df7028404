----------------------------- MODULE MCWagering -----------------------------
(* The small instances Wagering is checked on: each scenario is a set of   *)
(* wallets, commands and deliveries that meet where the code is delicate.  *)
EXTENDS Wagering, TLC

Cmd(key, ext, kind, amount, ref) ==
    [key |-> key, ext |-> ext, kind |-> kind, wallet |-> "w1", player |-> "ana",
     currency |-> "BRL", round |-> "r1", amount |-> amount, ref |-> ref]

OpeningCmd(w, player, currency, amount) ==
    [key |-> "opening:" \o w, ext |-> "opening:" \o w, kind |-> "OPENING", wallet |-> w,
     player |-> player, currency |-> currency, round |-> "internal", amount |-> amount,
     ref |-> None]

ProcSymmetry == Permutations(Handlers) \cup Permutations(Resolvers)

OneWallet == {"w1"}
TenBRL == [w \in OneWallet |-> OpeningCmd(w, "ana", "BRL", 10)]

(* Reversals: a bet, two refunds and a rollback of it, and a rollback of    *)
(* the first refund, which frees the bet for another reversal.             *)
ReversalCommands ==
    {Cmd("k1", "bet", "BET", 4, None), Cmd("k2", "refund", "REFUND", 4, "bet"),
     Cmd("k3", "refund2", "REFUND", 4, "bet"), Cmd("k4", "rollback", "ROLLBACK", 4, "refund"),
     Cmd("k5", "rollback2", "ROLLBACK", 4, "bet")}
RollbackCommands ==
    {Cmd("k1", "bet", "BET", 4, None), Cmd("k2", "refund", "REFUND", 4, "bet"),
     Cmd("k3", "rollback", "ROLLBACK", 4, "bet"), Cmd("k4", "win", "WIN", 9, "bet")}

(* Pending references: a rollback of a refund of a bet, in any order, with  *)
(* two workers that may fail.                                              *)
PendingCommands ==
    {Cmd("k1", "bet", "BET", 4, None), Cmd("k2", "refund", "REFUND", 4, "bet"),
     Cmd("k3", "rollback", "ROLLBACK", 4, "refund")}

(* Submissions: two creations for one owner and a wallet of another player; *)
(* the checks a submission meets once it holds the wallet; and on bob's     *)
(* wallet the same fact over HTTP and SQS, the same key with another        *)
(* payload, the same external id under another key, a message id reused,    *)
(* and a second bet the wallet cannot pay as well.                          *)
ThreeWallets == {"w1", "w2", "w3"}
MixedOpenings ==
    [w \in ThreeWallets |->
        CASE w = "w1" -> OpeningCmd(w, "ana", "BRL", 3)
          [] w = "w2" -> OpeningCmd(w, "ana", "BRL", 0)
          [] OTHER    -> OpeningCmd(w, "bob", "USD", 5)]
ThirdWallet == {"w3"}
BobsBet(key, ext, amount) ==
    [Cmd(key, ext, "BET", amount, None) EXCEPT !.wallet = "w3", !.player = "bob",
                                               !.currency = "USD"]
SubmissionCommands ==
    {BobsBet("k1", "e1", 3), [BobsBet("k1", "e1", 2) EXCEPT !.kind = "LOSS"],
     BobsBet("k2", "e1", 3), BobsBet("k3", "e3", 3),
     Cmd("k4", "e4", "WIN", 7, None),
     [Cmd("k5", "e5", "BET", 1, None) EXCEPT !.wallet = "w2", !.currency = "USD"],
     [Cmd("k6", "e6", "BET", 1, None) EXCEPT !.wallet = "w3"]}
SubmissionDeliveries ==
    {[id |-> "m1", cmd |-> BobsBet("k1", "e1", 3)],
     [id |-> "m2", cmd |-> BobsBet("k1", "e1", 3)],
     [id |-> "m1", cmd |-> BobsBet("k3", "e3", 3)]}

(* A reference of another wallet, settling while nobody holds its wallet:   *)
(* a win that names it, and a refund that must not give it back.           *)
TwoWallets == {"w1", "w2"}
TwoOpenings ==
    [w \in TwoWallets |-> IF w = "w1" THEN OpeningCmd(w, "ana", "BRL", 10)
                                      ELSE OpeningCmd(w, "bob", "BRL", 4)]
CrossCommands ==
    {Cmd("k1", "bet", "BET", 4, None),
     [Cmd("k2", "win", "WIN", 3, "bet") EXCEPT !.wallet = "w2", !.player = "bob"],
     [Cmd("k3", "refund", "REFUND", 4, "bet") EXCEPT !.wallet = "w2", !.player = "bob"]}
NoDeliveries == {}
=============================================================================

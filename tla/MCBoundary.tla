---------------------------- MODULE MCBoundary ------------------------------
(* A bet, what may meet it (the same in other spellings, conflicts, another *)
(* provider, a reversal), and one submission for each way to be defective. *)
EXTENDS Boundary, FiniteSetsExt

Short(says) == [says |-> says, nfc |-> TRUE, ascii |-> TRUE, length |-> 4, blank |-> FALSE,
                control |-> FALSE, comma |-> FALSE]
Accented(says) == [Short(says) EXCEPT !.ascii = FALSE]
Decomposed(says) == [Accented(says) EXCEPT !.nfc = FALSE]
Long(says, n) == [Short(says) EXCEPT !.length = n]
Blank == [Short("blank") EXCEPT !.blank = TRUE]
Tab == [Short("tab") EXCEPT !.control = TRUE]
Comma == [Short("comma") EXCEPT !.comma = TRUE]

Amount(value) == [decimal |-> TRUE, value |-> value, spelling |-> "plain"]

Bet == [shape |-> "object", envelope |-> TRUE, headers |-> 1, message |-> Short("m1"),
        text |-> [provider |-> Short("acme"), key |-> Short("k1"), ext |-> Accented("e1"),
                  player |-> Short("ana"), round |-> Short("r1"), game |-> Short("g1"), ref |-> None],
        kind |-> "BET", wallet |-> [id |-> "w1", capitals |-> FALSE],
        amount |-> Amount(25), currency |-> "BRL", occurred |-> 1]
Refund == [Bet EXCEPT !.message = Short("m6"), !.text.key = Short("k7"), !.text.ext = Short("e7"),
                      !.text.ref = Accented("e1"), !.kind = "REFUND"]

(* One bet with a key only SQS carries, in its two spellings. *)
Accent == [Bet EXCEPT !.message = Short("m7"), !.text.key = Accented("k8"),
                      !.text.ext = Accented("e8")]
Accents == {Accent, [Accent EXCEPT !.message = Short("m8"), !.text.key = Decomposed("k8"),
                                   !.text.ext = Decomposed("e8")]}

Meeting ==
    {Bet, Refund,
     [Bet EXCEPT !.message = Short("m2"), !.text.ext = Decomposed("e1"), !.amount.spelling = "25.0"],
     [Bet EXCEPT !.amount.spelling = "25.0"],
     [Bet EXCEPT !.occurred = 2],
     [Bet EXCEPT !.message = Short("m3"), !.amount = Amount(30), !.kind = "LOSS"],
     [Bet EXCEPT !.message = Short("m4"), !.text.key = Short("k2"), !.text.ext = Decomposed("e1")],
     [Bet EXCEPT !.message = Short("m5"), !.wallet.capitals = TRUE],
     [Bet EXCEPT !.text.provider = Short("other")],
     [Bet EXCEPT !.text.key = Short("k3"), !.text.ext = Short("e3")]}

Other == [Bet EXCEPT !.message = Short("m9"), !.text.key = Short("k9"), !.text.ext = Short("e9")]
Defective ==
    {[Other EXCEPT !.shape = shape] : shape \in {"broken", "large", "charset"}}
    \cup {[Other EXCEPT !.text[f] = Long(f, Limit(f) + 1)] : f \in DOMAIN Bet.text \ {"ref"}}
    \cup {[Other EXCEPT !.text[f] = None] : f \in {"provider", "key", "round"}}
    \cup {[Other EXCEPT !.text[f] = Tab] : f \in {"key", "game"}}
    \cup {[Other EXCEPT !.text.player = Blank], [Other EXCEPT !.text.key = Comma],
          [Other EXCEPT !.text.provider = Internal], [Other EXCEPT !.text.ref = Accented("e1")],
          [Other EXCEPT !.kind = "LOSS", !.text.ref = Accented("e1")],
          [Other EXCEPT !.kind = "WIN", !.text.ref = Accented("e1")],
          [Other EXCEPT !.kind = "WIN", !.text.ref = Long("ref", 129)],
          [Other EXCEPT !.kind = "ROLLBACK"], [Other EXCEPT !.kind = "OPENING"],
          [Other EXCEPT !.headers = 2], [Other EXCEPT !.envelope = FALSE],
          [Other EXCEPT !.message = None], [Other EXCEPT !.wallet.id = "no-uuid"],
          [Other EXCEPT !.amount = Amount(0)], [Other EXCEPT !.amount = Amount(0 - 1)],
          [Other EXCEPT !.amount = Amount(MaxAmount + 1)],
          [Other EXCEPT !.amount.decimal = FALSE], [Other EXCEPT !.currency = "XXQ"]}

SomeEncounters ==
    kSubset(3, Meeting) \cup {Accents \cup {r} : r \in Meeting} \cup {{d, Bet, Refund} : d \in Defective}
InternalProvider == Short("internal")
OneUuid == {"w1"}
SomeCurrencies == {"BRL"}
=============================================================================

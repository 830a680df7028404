--------------------------- MODULE SerialWagering ---------------------------
(***************************************************************************)
(* What the wagering core promises: every submission, every settlement of  *)
(* a pending reference and every wallet creation happens at one instant,   *)
(* against the tables as they are at that instant.  There are no           *)
(* transactions, locks, retries or redeliveries here; Wagering is shown to *)
(* implement this specification with its committed tables as they are.     *)
(*                                                                         *)
(* Two views may be older than the instant.  The lock of the wallet orders *)
(* only the wagers of that wallet, so a reference of another wallet may    *)
(* have settled unseen, and a wallet may be created while a submission     *)
(* that did not find it is being recorded.                                 *)
(***************************************************************************)
EXTENDS Integers, Sequences, WagerRules

CONSTANTS Wallets, Existing, OpeningOf, Commands, MaxAttempts

VARIABLES wager, wallet, ledger, outbox, lapsed

vars == <<wager, wallet, ledger, outbox, lapsed>>

Keys == {c.key : c \in Commands} \cup {OpeningOf[w].key : w \in Wallets}
Rows == {wager[k] : k \in {j \in Keys : wager[j] # None}}

OpenWallet(w, balance) ==
    [player |-> OpeningOf[w].player, currency |-> OpeningOf[w].currency,
     balance |-> balance, version |-> 1]
Opening(w) == Apply(Reserved(OpeningOf[w]), OpenWallet(w, 0), "CREDIT", None)
Funded(w) == OpeningOf[w].amount > 0

Init ==
    /\ wallet = [w \in Wallets |->
                    IF w \in Existing THEN OpenWallet(w, OpeningOf[w].amount) ELSE None]
    /\ ledger = [w \in Wallets |->
                    IF w \in Existing /\ Funded(w) THEN <<Opening(w).entry>> ELSE <<>>]
    /\ wager = [k \in Keys |->
                    IF \E w \in Existing : OpeningOf[w].key = k /\ Funded(w)
                    THEN Opening(CHOOSE w \in Existing : OpeningOf[w].key = k).row
                    ELSE None]
    /\ outbox = UNION {Events(Opening(w), 1) : w \in {v \in Existing : Funded(v)}}
    /\ lapsed = {}

-----------------------------------------------------------------------------
(* The reference of a wager at this instant, its own row included.         *)
Reference(own) ==
    LET hits == {r \in Rows \cup {own} : r.cmd.ext = own.cmd.ref}
    IN  IF hits = {} THEN None ELSE CHOOSE r \in hits : TRUE

(* The reference may have changed after it was read. *)
Unordered(own, reference) ==
    /\ reference # None
    /\ reference.cmd.wallet # own.cmd.wallet \/ own.cmd.wallet \notin Existing

Views(own) ==
    {Reference(own)} \cup (IF Unordered(own, Reference(own)) THEN {None} ELSE {})
WalletViews(w) == {wallet[w]} \cup (IF w \in Existing THEN {} ELSE {None})

Judge(own, reference, w) ==
    LET decidable == IF reference = None THEN FALSE ELSE IsDecidable(own, reference)
    IN  IF WalletFailure(own, w) # NoCode
        THEN Reject(own, WalletFailure(own, w), DisclosedBalance(WalletFailure(own, w), w))
        ELSE IF own.cmd.kind = "LOSS" THEN ProcessIdle(own, w)
        ELSE IF ~ RequiresReference(own)
        THEN ApplyPlain(own, IF own.cmd.ref # None /\ decidable THEN reference ELSE None, w)
        ELSE IF ~ decidable THEN Defer(own, w)
        ELSE ApplyReversal(own, reference, HasActiveReversal(Rows, reference.cmd.key), w)

Publish(o) ==
    LET w == o.row.cmd.wallet
        v == IF o.entry = None THEN 0 ELSE wallet[w].version + 1
    IN  /\ wager' = [wager EXCEPT ![o.row.cmd.key] = o.row]
        /\ outbox' = outbox \cup Events(o, v)
        /\ IF o.entry = None THEN UNCHANGED <<wallet, ledger>>
           ELSE /\ wallet' = [wallet EXCEPT ![w].balance = o.entry.after, ![w].version = v]
                /\ ledger' = [ledger EXCEPT ![w] = Append(@, o.entry)]
        /\ UNCHANGED lapsed

(* The first submission of a fact; every later one changes nothing.        *)
Submit(c) ==
    /\ \A r \in Rows : r.cmd.key # c.key /\ r.cmd.ext # c.ext
    /\ \E reference \in Views(Reserved(c)), w \in WalletViews(c.wallet) :
          Publish(Judge(Reserved(c), reference, w))

IsPending(k) == wager[k] # None /\ wager[k].status = "PENDING_REFERENCE"
IsExhausted(k) == wager[k].attempts >= MaxAttempts \/ k \in lapsed

Retry(k) ==
    /\ IsPending(k)
    /\ wager[k].attempts < MaxAttempts
    /\ wager' = [wager EXCEPT ![k].attempts = @ + 1]
    /\ UNCHANGED <<wallet, ledger, outbox, lapsed>>

(* The reference has settled: the pending is decided by the same rules.    *)
Settle(k) ==
    LET reference == Reference(wager[k])
    IN  /\ IsPending(k)
        /\ reference # None
        /\ IsTerminal(reference)
        /\ Publish(ApplyReversal(wager[k], reference,
                                 HasActiveReversal(Rows, reference.cmd.key),
                                 wallet[wager[k].cmd.wallet]))

(* The pending is exhausted and its reference has not settled.             *)
GiveUp(k) ==
    LET own       == wager[k]
        reference == Reference(own)
    IN  /\ IsPending(k)
        /\ IsExhausted(k)
        /\ \E code \in {"REFERENCE_NOT_FOUND", "REFERENCE_NOT_PROCESSED"} :
              /\ \/ Unordered(own, reference)
                 \/ reference = None /\ code = "REFERENCE_NOT_FOUND"
                 \/ reference # None /\ ~ IsTerminal(reference) /\ code = "REFERENCE_NOT_PROCESSED"
              /\ Publish(Reject(own, code, wallet[own.cmd.wallet].balance))

(* The worker met a failure no retry can fix.                              *)
Break(k) ==
    /\ IsPending(k)
    /\ Publish(Fail(wager[k], wallet[wager[k].cmd.wallet]))

Create(w) ==
    /\ wallet[w] = None
    /\ \A v \in Wallets : wallet[v] # None =>
          OpeningOf[v].player # OpeningOf[w].player \/ OpeningOf[v].currency # OpeningOf[w].currency
    /\ wallet' = [wallet EXCEPT ![w] = OpenWallet(w, OpeningOf[w].amount)]
    /\ IF ~ Funded(w) THEN UNCHANGED <<wager, ledger, outbox>>
       ELSE /\ wager' = [wager EXCEPT ![OpeningOf[w].key] = Opening(w).row]
            /\ ledger' = [ledger EXCEPT ![w] = <<Opening(w).entry>>]
            /\ outbox' = outbox \cup Events(Opening(w), 1)
    /\ UNCHANGED lapsed

Lapse(k) ==
    /\ IsPending(k)
    /\ lapsed' = lapsed \cup {k}
    /\ UNCHANGED <<wager, wallet, ledger, outbox>>

Next ==
    \/ \E c \in Commands : Submit(c)
    \/ \E k \in Keys : Retry(k) \/ Settle(k) \/ GiveUp(k) \/ Break(k) \/ Lapse(k)
    \/ \E w \in Wallets : Create(w)

Spec == Init /\ [][Next]_vars
=============================================================================

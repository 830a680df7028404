----------------------------- MODULE WagerRules -----------------------------
(***************************************************************************)
(* The pure decisions of the wagering domain: which wager may reverse      *)
(* which, what binds a wager to its reference, which way the money moves,  *)
(* when a wallet can take the movement, and what the wager becomes.        *)
(*                                                                         *)
(* A command is the business payload of a submission together with its     *)
(* idempotency key.  Key, ext and ref stand for the provider-scoped pairs  *)
(* (provider, idempotency key), (provider, external id) and (provider,     *)
(* referenced external id): a reference is only ever looked up inside the  *)
(* provider of the wager that names it.  A row is a wager_transaction row. *)
(***************************************************************************)
EXTENDS Integers

CONSTANTS
    None,         \* no row, no key, no reference
    MaxBalance    \* the largest amount a Money can hold

ASSUME MaxBalanceAssumption == MaxBalance \in Nat

NoCode == "NONE"
NoBalance == -1

ReversalKinds == {"REFUND", "ROLLBACK"}
Terminal == {"PROCESSED", "REJECTED", "FAILED"}

(* A wager as its reservation inserts it. *)
Reserved(c) ==
    [cmd |-> c, status |-> "PENDING", code |-> NoCode, balance |-> NoBalance,
     ref |-> None, attempts |-> 0]

(* The payload hash covers every field of a command but its key. *)
SamePayload(c, d) == [c EXCEPT !.key = None] = [d EXCEPT !.key = None]

RequiresReference(r) == r.cmd.kind \in ReversalKinds
IsTerminal(r) == r.status \in Terminal

(* The CHECK constraints a row of wager_transaction has to satisfy. *)
ChecksPass(r) ==
    /\ (r.code # NoCode) <=> r.status \in {"REJECTED", "FAILED"}
    /\ (r.status = "FAILED") <=> (r.code = "INFRASTRUCTURE_FAILURE")
    /\ (r.balance = NoBalance) <=>
          \/ r.status = "PENDING"
          \/ r.code \in {"WALLET_NOT_FOUND", "WALLET_PLAYER_MISMATCH"}
    /\ r.status = "PENDING_REFERENCE" => RequiresReference(r) /\ r.ref = None
    /\ (r.status = "PROCESSED" /\ RequiresReference(r)) => r.ref # None
    /\ r.ref # r.cmd.key

-----------------------------------------------------------------------------
(* A reference, once resolved, against the wager that names it.            *)

ReversibleKinds(kind) ==
    CASE kind = "REFUND"   -> {"BET"}
      [] kind = "ROLLBACK" -> {"BET", "WIN", "REFUND"}
      [] OTHER             -> {}

SameBinding(r, reference) ==
    /\ reference.cmd.player = r.cmd.player
    /\ reference.cmd.wallet = r.cmd.wallet
    /\ reference.cmd.round = r.cmd.round

BindingFailure(r, reference) ==
    IF reference.status # "PROCESSED" THEN "REFERENCE_NOT_PROCESSED"
    ELSE IF ~ SameBinding(r, reference) THEN "REFERENCE_MISMATCH"
    ELSE IF reference.cmd.currency # r.cmd.currency THEN "CURRENCY_MISMATCH"
    ELSE NoCode

ReversalFailure(r, reference) ==
    IF reference.cmd.kind \notin ReversibleKinds(r.cmd.kind)
    THEN "REFERENCE_KIND_NOT_REVERSIBLE"
    ELSE IF BindingFailure(r, reference) # NoCode
    THEN BindingFailure(r, reference)
    ELSE IF reference.cmd.amount # r.cmd.amount
    THEN "REVERSAL_AMOUNT_MISMATCH"
    ELSE NoCode

WinReferenceFailure(r, reference) ==
    IF reference.cmd.kind # "BET" THEN "REFERENCE_MISMATCH"
    ELSE BindingFailure(r, reference)

(* A wager pointing at itself never settles: it is decided at once. *)
IsDecidable(r, reference) ==
    \/ reference.cmd.key = r.cmd.key
    \/ IsTerminal(reference)

(* Mutant: any rollback of the reference counts as an undo of its reversals. *)
HasActiveReversalUnlessRolledBack(rows, key) ==
    \E a \in rows :
        /\ a.ref = key /\ a.status = "PROCESSED" /\ a.cmd.kind \in ReversalKinds
        /\ ~ \E u \in rows : /\ u.ref = key
                             /\ u.status = "PROCESSED"
                             /\ u.cmd.kind = "ROLLBACK"

(* Some processed reversal of the reference stands, itself not rolled back. *)
HasActiveReversal(rows, key) ==
    \E a \in rows :
        /\ a.ref = key /\ a.status = "PROCESSED" /\ a.cmd.kind \in ReversalKinds
        /\ ~ \E u \in rows : /\ u.ref = a.cmd.key
                             /\ u.status = "PROCESSED"
                             /\ u.cmd.kind = "ROLLBACK"

-----------------------------------------------------------------------------
(* The movement of money.  A wallet is [player, currency, balance,         *)
(* version].                                                               *)

PlainDirection(kind) == IF kind = "BET" THEN "DEBIT" ELSE "CREDIT"

(* Mutant: every reversal gives money back. *)
DirectionAlwaysCredit(r, reference) ==
    IF r.cmd.kind = "BET" THEN "DEBIT" ELSE PlainDirection("WIN")
Direction(r, reference) ==
    IF r.cmd.kind # "ROLLBACK" THEN PlainDirection(r.cmd.kind)
    ELSE IF PlainDirection(reference.cmd.kind) = "DEBIT" THEN "CREDIT" ELSE "DEBIT"

(* Mutant: a credit is never too much. *)
MovementFailureUnlimited(w, r, direction) ==
    IF direction = "DEBIT" /\ w.balance < r.cmd.amount THEN "INSUFFICIENT_FUNDS" ELSE NoCode
MovementFailure(w, r, direction) ==
    CASE direction = "DEBIT" /\ w.balance < r.cmd.amount ->
            IF RequiresReference(r) THEN "REVERSAL_WOULD_OVERDRAW" ELSE "INSUFFICIENT_FUNDS"
      [] direction = "CREDIT" /\ w.balance + r.cmd.amount > MaxBalance ->
            "BALANCE_LIMIT_EXCEEDED"
      [] OTHER -> NoCode

Entry(w, r, direction) ==
    [tx |-> r.cmd.key, direction |-> direction, amount |-> r.cmd.amount,
     before |-> w.balance,
     after |-> IF direction = "CREDIT" THEN w.balance + r.cmd.amount
                                       ELSE w.balance - r.cmd.amount]

-----------------------------------------------------------------------------
(* What a transaction is about to write: the wager row and, when money     *)
(* moves, the ledger entry whose "after" becomes the wallet's balance.     *)

Outcome(row, entry) == [row |-> row, entry |-> entry]

Reject(r, code, balance) ==
    Outcome([r EXCEPT !.status = "REJECTED", !.code = code, !.balance = balance], None)

Defer(r, w) ==
    Outcome([r EXCEPT !.status = "PENDING_REFERENCE", !.balance = w.balance], None)

Fail(r, w) ==
    Outcome([r EXCEPT !.status = "FAILED", !.code = "INFRASTRUCTURE_FAILURE",
                      !.balance = w.balance], None)

(* LOSS: processed, nothing moved. *)
ProcessIdle(r, w) ==
    Outcome([r EXCEPT !.status = "PROCESSED", !.balance = w.balance], None)

(* Move the money, or reject when the wallet cannot take it. *)
Apply(r, w, direction, refKey) ==
    LET failure == MovementFailure(w, r, direction)
        entry   == Entry(w, r, direction)
    IN  IF failure # NoCode THEN Reject(r, failure, w.balance)
        ELSE Outcome([r EXCEPT !.status = "PROCESSED", !.balance = entry.after,
                               !.ref = refKey], entry)

(* A reversal whose reference is known; active: the reference is already    *)
(* reversed.  The reversal kinds are decided before active is asked.        *)
ApplyReversal(r, reference, active, w) ==
    LET failure == ReversalFailure(r, reference)
    IN  IF failure # NoCode THEN Reject(r, failure, w.balance)
        ELSE IF active THEN Reject(r, "REFERENCE_ALREADY_REVERSED", w.balance)
        ELSE Apply(r, w, Direction(r, reference), reference.cmd.key)

(* A BET, or a WIN and the reference it optionally names (None: it names    *)
(* none, or none that can be decided yet).                                 *)
ApplyPlain(r, reference, w) ==
    IF reference = None THEN Apply(r, w, PlainDirection(r.cmd.kind), None)
    ELSE IF WinReferenceFailure(r, reference) # NoCode
    THEN Reject(r, WinReferenceFailure(r, reference), w.balance)
    ELSE Apply(r, w, PlainDirection(r.cmd.kind), reference.cmd.key)

(* The checks on the wallet itself, made as soon as it is locked. *)
WalletFailure(r, w) ==
    IF w = None THEN "WALLET_NOT_FOUND"
    ELSE IF w.player # r.cmd.player THEN "WALLET_PLAYER_MISMATCH"
    ELSE IF w.currency # r.cmd.currency THEN "CURRENCY_MISMATCH"
    ELSE NoCode

(* A balance is never shown to a caller that does not own the wallet. *)
DisclosedBalance(code, w) ==
    IF code \in {"WALLET_NOT_FOUND", "WALLET_PLAYER_MISMATCH"} THEN NoBalance ELSE w.balance

(* Mutant: a wager that is put aside announces nothing. *)
EventsOfVerdicts(outcome, version) ==
    IF outcome.row.status = "PENDING_REFERENCE" THEN {}
    ELSE {[type |-> IF outcome.row.status = "PROCESSED" THEN "Processed" ELSE "Rejected",
           tx |-> outcome.row.cmd.key, version |-> 0]}
         \cup IF outcome.entry = None THEN {}
              ELSE {[type |-> "WalletBalanceChanged", tx |-> outcome.row.cmd.key,
                     version |-> version]}
(* The events the outbox receives with an outcome. *)
Events(outcome, version) ==
    {[type |-> CASE outcome.row.status = "PROCESSED" -> "Processed"
                 [] outcome.row.status = "PENDING_REFERENCE" -> "PendingReference"
                 [] OTHER -> "Rejected",
      tx |-> outcome.row.cmd.key, version |-> 0]}
    \cup IF outcome.entry = None THEN {}
         ELSE {[type |-> "WalletBalanceChanged", tx |-> outcome.row.cmd.key,
                version |-> version]}
=============================================================================

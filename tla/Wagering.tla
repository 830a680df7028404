------------------------------ MODULE Wagering ------------------------------
(***************************************************************************)
(* The wagering core: HTTP submissions, SQS deliveries, wallet creation    *)
(* and the pending-reference workers, each running one PostgreSQL          *)
(* transaction at a time under READ COMMITTED.                             *)
(*                                                                         *)
(* The first group of variables is what PostgreSQL has committed.  The     *)
(* second is what each process holds in its open transaction: where it     *)
(* stands (pc, named after the statement it will run next), what it works  *)
(* on, what it has read, and the outcome it has decided (plan) but not yet *)
(* committed.  A step is one statement: it sees what is committed at that  *)
(* moment and its own uncommitted row.  An INSERT .. ON CONFLICT DO        *)
(* NOTHING waits for the other transactions that insert the same identity; *)
(* SELECT .. FOR UPDATE waits for the holder of the row.  Commit publishes *)
(* the plan and frees every lock; Abort (crash, lost connection, lock      *)
(* timeout, deadlock victim) frees them and publishes nothing.             *)
(***************************************************************************)
EXTENDS Integers, Sequences, FiniteSets, WagerRules

CONSTANTS
    Handlers,     \* transactions of the API and of the SQS consumers
    Resolvers,    \* transactions of the pending-reference workers
    Wallets,      \* wallet ids
    Existing,     \* the wallets that exist from the start
    OpeningOf,    \* wallet id -> the OPENING command its creation would record
    Commands,     \* the commands the providers may submit
    Deliveries,   \* the SQS messages: [id, cmd], with the provider-scoped id
    MaxAttempts   \* attempts after which a pending reference is exhausted

Procs == Handlers \cup Resolvers
AllCommands == Commands \cup {OpeningOf[w] : w \in Wallets}
Keys == {c.key : c \in AllCommands}
SubmittedKeys == {c.key : c \in Commands}
MessageIds == {d.id : d \in Deliveries}

Fields == {"key", "ext", "kind", "wallet", "player", "currency", "round", "amount", "ref"}

ASSUME ProcsAssumption == Handlers \cap Resolvers = {} /\ None \notin Procs
ASSUME MaxAttemptsAssumption == MaxAttempts \in Nat
ASSUME ExistingAssumption ==
    /\ Existing \subseteq Wallets
    /\ \A v, w \in Existing :   \* wallet_player_currency_uq
          (/\ OpeningOf[v].player = OpeningOf[w].player
           /\ OpeningOf[v].currency = OpeningOf[w].currency) => v = w
ASSUME CommandsAssumption ==
    \A c \in AllCommands : /\ DOMAIN c = Fields
                           /\ c.amount \in 0 .. MaxBalance
                           /\ c.key # None
                           /\ c.wallet \in Wallets
ASSUME SubmittedAssumption ==
    \A c \in Commands : /\ c.kind \in {"BET", "WIN", "LOSS", "REFUND", "ROLLBACK"}
                        /\ c.amount > 0
                        /\ c.kind \in ReversalKinds => c.ref # None
                        /\ c.kind \in {"BET", "LOSS"} => c.ref = None
                        /\ \A w \in Wallets : c.key # OpeningOf[w].key /\ c.ext # OpeningOf[w].ext
ASSUME OpeningAssumption ==
    /\ DOMAIN OpeningOf = Wallets
    /\ \A w \in Wallets : OpeningOf[w].kind = "OPENING" /\ OpeningOf[w].wallet = w
    /\ \A v, w \in Wallets :   \* openingIdentity: both are made of the wallet's id
          OpeningOf[v].key = OpeningOf[w].key \/ OpeningOf[v].ext = OpeningOf[w].ext => v = w
ASSUME DeliveriesAssumption ==
    /\ \A d \in Deliveries : d.cmd \in Commands
    /\ None \notin MessageIds

VARIABLES
    wager,      \* idempotency key -> row of wager_transaction, or None
    wallet,     \* wallet id -> row of wallet, or None
    ledger,     \* wallet id -> its entries, oldest first
    inbox,      \* message id -> row of inbox_message, or None
    outbox,     \* the events enqueued so far
    lapsed,     \* keys of the pending wagers whose expiresAt has passed
    walletLock, \* wallet id -> the process holding its row lock, or None
    rowLock,    \* idempotency key -> the process holding the row lock, or None
    pc, work, snap, found, plan, answer

committed == <<wager, wallet, ledger, inbox, outbox>>
locks == <<walletLock, rowLock>>
memory == <<work, snap, found, plan>>
vars == <<wager, wallet, ledger, inbox, outbox, lapsed, walletLock, rowLock,
          pc, work, snap, found, plan, answer>>

NoWork == [cmd |-> None, msg |-> None]
Rows == {wager[k] : k \in {j \in Keys : wager[j] # None}}
OpenWallet(w, balance) ==
    [player |-> OpeningOf[w].player, currency |-> OpeningOf[w].currency,
     balance |-> balance, version |-> 1]

(* The first row and entry of a wallet created with money in it. *)
OpeningOutcome(w) ==
    LET empty == OpenWallet(w, 0)
        opening == Reserved(OpeningOf[w])
    IN  Apply(opening, empty, "CREDIT", None)

Init ==
    /\ wallet = [w \in Wallets |->
                    IF w \in Existing THEN OpenWallet(w, OpeningOf[w].amount) ELSE None]
    /\ ledger = [w \in Wallets |->
                    IF w \in Existing /\ OpeningOf[w].amount > 0
                    THEN <<OpeningOutcome(w).entry>> ELSE <<>>]
    /\ wager = [k \in Keys |->
                    IF \E w \in Existing : OpeningOf[w].key = k /\ OpeningOf[w].amount > 0
                    THEN LET w == CHOOSE w \in Existing : OpeningOf[w].key = k
                         IN  OpeningOutcome(w).row
                    ELSE None]
    /\ outbox = UNION {Events(OpeningOutcome(w), 1) :
                          w \in {v \in Existing : OpeningOf[v].amount > 0}}
    /\ inbox = [m \in MessageIds |-> None]
    /\ lapsed = {}
    /\ walletLock = [w \in Wallets |-> None]
    /\ rowLock = [k \in Keys |-> None]
    /\ pc = [p \in Procs |-> "idle"]
    /\ work = [p \in Procs |-> NoWork]
    /\ snap = [p \in Procs |-> None]
    /\ found = [p \in Procs |-> None]
    /\ plan = [p \in Procs |-> None]
    /\ answer = [p \in Procs |-> None]

-----------------------------------------------------------------------------
(* What a transaction sees, holds and answers.                             *)

(* The wager the process is deciding: its own uncommitted reservation, or   *)
(* the pending row it holds the lock of.                                   *)
Own(p) == IF p \in Handlers THEN Reserved(work[p].cmd) ELSE wager[work[p].cmd.key]

(* findByExternalId inside p's transaction: committed rows and its own.    *)
Lookup(p, ext) ==
    LET visible == Rows \cup (IF p \in Handlers THEN {Own(p)} ELSE {})
        hits    == {r \in visible : r.cmd.ext = ext}
    IN  IF hits = {} THEN None ELSE CHOOSE r \in hits : TRUE

IsResolvable(reference) == IF reference = None THEN FALSE ELSE IsTerminal(reference)

IsExhausted(k) == wager[k].attempts >= MaxAttempts \/ k \in lapsed

(* Mutant: the worker that records a failure trusts what it read before.   *)
StillPendingAssumed(row) == row # None
StillPending(row) == ~ IsTerminal(row)

(* Mutant: the replay does not compare payloads. *)
ReplaysByKey(owner, c) == owner.cmd.key = c.key
Replays(owner, c) == SamePayload(owner.cmd, c)

(* Identities another open transaction has inserted and not committed.     *)
HoldsInbox(q, m) == work[q].msg = m /\ pc[q] \notin {"idle", "inbox", "inboxRead", "reply"}
(* Mutant: nobody waits for an uncommitted insert of the same identity. *)
HoldsIdentityNever(q, c) == q \notin Procs
HoldsIdentity(q, c) ==
    /\ q \in Handlers
    /\ pc[q] \in {"lock", "reference", "slot", "commit"}
    /\ work[q].cmd.key = c.key \/ work[q].cmd.ext = c.ext
(* Mutant: nobody waits for an uncommitted wallet of the same owner. *)
HoldsOwnerNever(q, w) == q \notin Procs
HoldsOwner(q, w) ==
    /\ pc[q] = "create"
    /\ work[q].cmd.player = OpeningOf[w].player
    /\ work[q].cmd.currency = OpeningOf[w].currency

Goto(p, label) == pc' = [pc EXCEPT ![p] = label]

(* Mutants: one kind of lock leaks. *)
ReleaseRowsOnly(p) ==
    /\ rowLock' = [k \in Keys |-> IF rowLock[k] = p THEN None ELSE rowLock[k]]
    /\ UNCHANGED walletLock
ReleaseWalletsOnly(p) ==
    /\ walletLock' = [w \in Wallets |-> IF walletLock[w] = p THEN None ELSE walletLock[w]]
    /\ UNCHANGED rowLock
(* End of the transaction, committed or rolled back: its locks are free.   *)
ReleaseLocks(p) ==
    /\ walletLock' = [w \in Wallets |-> IF walletLock[w] = p THEN None ELSE walletLock[w]]
    /\ rowLock' = [k \in Keys |-> IF rowLock[k] = p THEN None ELSE rowLock[k]]

Forget(p) ==
    /\ snap' = [snap EXCEPT ![p] = None]
    /\ found' = [found EXCEPT ![p] = None]
    /\ plan' = [plan EXCEPT ![p] = None]

(* resultOf and replayOf: what the caller is told about a wager.           *)
ResultOf(row) == [status |-> row.status, code |-> row.code, balance |-> row.balance]
ErrorOf(code) == [status |-> "ERROR", code |-> code, balance |-> NoBalance]

(* The transaction of a handler ends and its caller is told the outcome.   *)
Finish(p, result) ==
    /\ Goto(p, "reply")
    /\ answer' = [answer EXCEPT ![p] = result]

(* The row that marks p's delivery processed, written in its transaction.  *)
MarkInboxProcessed(p) ==
    inbox' = IF work[p].msg = None THEN inbox
             ELSE [inbox EXCEPT ![work[p].msg] = [cmd |-> work[p].cmd, processed |-> TRUE]]

(* The decision is made: nothing is left to do but write it and commit.    *)
Decide(p, outcome) ==
    /\ plan' = [plan EXCEPT ![p] = outcome]
    /\ Goto(p, "commit")

-----------------------------------------------------------------------------
(* A submission over HTTP, or the same submission inside the SQS consumer's *)
(* transaction, which reserves its inbox row first.                        *)

BeginHttp(p, c) ==
    /\ pc[p] = "idle"
    /\ work' = [work EXCEPT ![p] = [cmd |-> c, msg |-> None]]
    /\ Goto(p, "reserve")
    /\ UNCHANGED <<committed, lapsed, locks, snap, found, plan, answer>>

BeginDelivery(p, d) ==
    /\ pc[p] = "idle"
    /\ work' = [work EXCEPT ![p] = [cmd |-> d.cmd, msg |-> d.id]]
    /\ Goto(p, "inbox")
    /\ UNCHANGED <<committed, lapsed, locks, snap, found, plan, answer>>

(* Mutant: the inbox row is committed on its own, before the wager. *)
ReserveInboxEagerly(p) ==
    /\ pc[p] = "inbox"
    /\ \A q \in Handlers \ {p} : ~ HoldsInbox(q, work[p].msg)
    /\ IF inbox[work[p].msg] = None
       THEN /\ inbox' = [inbox EXCEPT ![work[p].msg] =
                            [cmd |-> work[p].cmd, processed |-> FALSE]]
            /\ Goto(p, "reserve")
       ELSE Goto(p, "inboxRead") /\ UNCHANGED inbox
    /\ UNCHANGED <<wager, wallet, ledger, outbox, lapsed, locks, memory, answer>>

ReserveInbox(p) ==
    /\ pc[p] = "inbox"
    /\ \A q \in Handlers \ {p} : ~ HoldsInbox(q, work[p].msg)
    /\ Goto(p, IF inbox[work[p].msg] = None THEN "reserve" ELSE "inboxRead")
    /\ UNCHANGED <<committed, lapsed, locks, memory, answer>>

ClassifyRedelivery(p) ==
    /\ pc[p] = "inboxRead"
    /\ LET row == inbox[work[p].msg]
       IN  Finish(p, IF row = None THEN ErrorOf("TRANSIENT")
                     ELSE IF row.cmd # work[p].cmd THEN ErrorOf("MESSAGE_ID_REUSED")
                     ELSE IF ~ row.processed THEN ErrorOf("TRANSIENT")
                     ELSE ErrorOf("DUPLICATE"))
    /\ UNCHANGED <<committed, lapsed, locks, memory>>

(* Mutant: the loser does not wait for the winner to commit. *)
ReserveWagerImpatient(p) ==
    /\ pc[p] = "reserve"
    /\ LET c == work[p].cmd
       IN  Goto(p, IF \/ \E q \in Handlers \ {p} : HoldsIdentity(q, c)
                      \/ \E r \in Rows : r.cmd.key = c.key \/ r.cmd.ext = c.ext
                   THEN "byKey" ELSE "lock")
    /\ UNCHANGED <<committed, lapsed, locks, memory, answer>>

(* INSERT .. ON CONFLICT DO NOTHING on both unique identities.             *)
ReserveWager(p) ==
    /\ pc[p] = "reserve"
    /\ LET c == work[p].cmd
       IN  /\ \A q \in Handlers \ {p} : ~ HoldsIdentity(q, c)
           /\ Goto(p, IF \E r \in Rows : r.cmd.key = c.key \/ r.cmd.ext = c.ext
                      THEN "byKey" ELSE "lock")
    /\ UNCHANGED <<committed, lapsed, locks, memory, answer>>

(* The loser of the reservation reads the owner of its key.  A replay      *)
(* commits the inbox row of its delivery; a conflict rolls it back.        *)
FindByKey(p) ==
    /\ pc[p] = "byKey"
    /\ LET c == work[p].cmd
           owner == wager[c.key]
       IN  IF owner = None
           THEN Goto(p, "byExternal") /\ UNCHANGED <<inbox, answer>>
           ELSE IF Replays(owner, c)
           THEN Finish(p, ResultOf(owner)) /\ MarkInboxProcessed(p)
           ELSE Finish(p, ErrorOf("IDEMPOTENCY_KEY_CONFLICT")) /\ UNCHANGED inbox
    /\ UNCHANGED <<wager, wallet, ledger, outbox, lapsed, locks, memory>>

FindByExternal(p) ==
    /\ pc[p] = "byExternal"
    /\ Finish(p, IF \E r \in Rows : r.cmd.ext = work[p].cmd.ext
                 THEN ErrorOf("EXTERNAL_TRANSACTION_ID_REUSED")
                 ELSE ErrorOf("SERVICE_UNAVAILABLE"))
    /\ UNCHANGED <<committed, lapsed, locks, memory>>

(* SELECT .. FOR UPDATE finds no wallet: nothing to wait for, no lock.     *)
MissWallet(p) ==
    /\ pc[p] = "lock"
    /\ wallet[work[p].cmd.wallet] = None
    /\ Decide(p, Reject(Own(p), "WALLET_NOT_FOUND", NoBalance))
    /\ UNCHANGED <<committed, lapsed, locks, work, snap, found, answer>>

(* Mutant: the wallet is read without FOR UPDATE. *)
TakeWalletUnlocked(p, w) ==
    /\ wallet[w] # None
    /\ walletLock' = [walletLock EXCEPT ![w] = p]
    /\ snap' = [snap EXCEPT ![p] = wallet[w]]
(* Waits for the row lock and reads the balance its holder left.           *)
TakeWallet(p, w) ==
    /\ wallet[w] # None
    /\ walletLock[w] = None
    /\ walletLock' = [walletLock EXCEPT ![w] = p]
    /\ snap' = [snap EXCEPT ![p] = wallet[w]]

LockWallet(p) ==
    LET own     == Own(p)
        w       == wallet[own.cmd.wallet]
        failure == WalletFailure(own, w)
    IN  /\ pc[p] = "lock"
        /\ TakeWallet(p, own.cmd.wallet)
        /\ IF failure # NoCode
           THEN Decide(p, Reject(own, failure, DisclosedBalance(failure, w)))
           ELSE IF own.cmd.kind = "LOSS"
           THEN Decide(p, ProcessIdle(own, w))
           ELSE IF own.cmd.ref = None
           THEN Decide(p, ApplyPlain(own, None, w))
           ELSE Goto(p, "reference") /\ UNCHANGED plan
        /\ UNCHANGED <<committed, lapsed, rowLock, work, found, answer>>

(* The reference of a WIN is optional; a reversal without one is deferred. *)
ReadReference(p) ==
    LET own       == Own(p)
        reference == Lookup(p, own.cmd.ref)
        decidable == IF reference = None THEN FALSE ELSE IsDecidable(own, reference)
    IN  /\ pc[p] = "reference"
        /\ IF ~ RequiresReference(own)
           THEN /\ Decide(p, ApplyPlain(own, IF decidable THEN reference ELSE None, snap[p]))
                /\ UNCHANGED found
           ELSE IF ~ decidable
           THEN Decide(p, Defer(own, snap[p])) /\ UNCHANGED found
           ELSE IF ReversalFailure(own, reference) # NoCode
           THEN Decide(p, ApplyReversal(own, reference, FALSE, snap[p])) /\ UNCHANGED found
           ELSE /\ found' = [found EXCEPT ![p] = reference]
                /\ Goto(p, "slot") /\ UNCHANGED plan
        /\ UNCHANGED <<committed, lapsed, locks, work, snap, answer>>

(* hasActiveReversal, then the movement of the money.                      *)
ReadSlot(p) ==
    /\ pc[p] = "slot"
    /\ Decide(p, ApplyReversal(Own(p), found[p],
                               HasActiveReversal(Rows, found[p].cmd.key), snap[p]))
    /\ UNCHANGED <<committed, lapsed, locks, work, snap, found, answer>>

(* The balance a row reports is the one of the wallet p has read, and in    *)
(* its currency: another one than the wager's only where it was rejected   *)
(* for that.                                                               *)
ResultInCurrency(p, row) ==
    (row.balance # NoBalance /\ row.code # "CURRENCY_MISMATCH") =>
        snap[p].currency = row.cmd.currency

(* The triggers and CHECKs on a write of wager_transaction: a second active *)
(* reversal, an update of a terminal row, a row the columns do not allow.  *)
SchemaRefuses(p, row) ==
    \/ /\ row.status = "PROCESSED" /\ row.cmd.kind \in ReversalKinds /\ row.ref # None
       /\ HasActiveReversal({r \in Rows : r.cmd.key # row.cmd.key}, row.ref)
    \/ p \in Resolvers /\ IsTerminal(wager[row.cmd.key])
    \/ ~ ChecksPass(row)
    \/ ~ ResultInCurrency(p, row)

(* A write of reference_transaction_id takes the referenced row FOR KEY      *)
(* SHARE, its foreign key, and waits for a worker that has it FOR UPDATE.  *)
ReferenceRowFree(p, row) == row.ref # None => rowLock[row.ref] \in {None, p}

(* Everything the transaction wrote becomes visible at once.               *)
Commit(p) ==
    LET o == plan[p]
        w == o.row.cmd.wallet
        v == IF o.entry = None THEN 0 ELSE snap[p].version + 1
    IN  /\ pc[p] = "commit"
        /\ ReferenceRowFree(p, o.row)
        /\ ~ SchemaRefuses(p, o.row)
        /\ wager' = [wager EXCEPT ![o.row.cmd.key] = o.row]
        /\ outbox' = outbox \cup Events(o, v)
        /\ IF o.entry = None THEN UNCHANGED <<ledger, wallet>>
           ELSE /\ ledger' = [ledger EXCEPT ![w] = Append(@, o.entry)]
                /\ wallet' = [wallet EXCEPT ![w] = [snap[p] EXCEPT !.balance = o.entry.after,
                                                                  !.version = v]]
        /\ MarkInboxProcessed(p)
        /\ ReleaseLocks(p)
        /\ Forget(p)
        /\ IF p \in Handlers THEN Finish(p, ResultOf(o.row)) /\ UNCHANGED work
           ELSE /\ Goto(p, "idle")
                /\ work' = [work EXCEPT ![p] = NoWork]
                /\ UNCHANGED answer
        /\ UNCHANGED lapsed

(* The caller is told, or was gone before it could be: the process moves on. *)
Reply(p) ==
    /\ pc[p] = "reply"
    /\ Goto(p, "idle")
    /\ work' = [work EXCEPT ![p] = NoWork]
    /\ answer' = [answer EXCEPT ![p] = None]
    /\ UNCHANGED <<committed, lapsed, locks, snap, found, plan>>

-----------------------------------------------------------------------------
(* Creating a wallet: the insert waits for another creation of the same     *)
(* (player, currency) and loses to a committed one.                        *)

InsertWallet(p, w) ==
    /\ pc[p] = "idle"
    /\ wallet[w] = None
    /\ \A q \in Handlers \ {p} : ~ HoldsOwner(q, w)
    /\ IF \E v \in Wallets : /\ wallet[v] # None
                             /\ wallet[v].player = OpeningOf[w].player
                             /\ wallet[v].currency = OpeningOf[w].currency
       THEN Finish(p, ErrorOf("WALLET_ALREADY_EXISTS"))
       ELSE Goto(p, "create") /\ UNCHANGED answer
    /\ work' = [work EXCEPT ![p] = [cmd |-> OpeningOf[w], msg |-> None]]
    /\ UNCHANGED <<committed, lapsed, locks, snap, found, plan>>

CommitCreation(p) ==
    LET c == work[p].cmd
        w == c.wallet
        o == OpeningOutcome(w)
    IN  /\ pc[p] = "create"
        /\ wallet' = [wallet EXCEPT ![w] = OpenWallet(w, c.amount)]
        /\ IF c.amount = 0 THEN UNCHANGED <<wager, ledger, outbox>>
           ELSE /\ wager' = [wager EXCEPT ![c.key] = o.row]
                /\ ledger' = [ledger EXCEPT ![w] = <<o.entry>>]
                /\ outbox' = outbox \cup Events(o, 1)
        /\ Finish(p, [status |-> "CREATED", code |-> NoCode, balance |-> c.amount])
        /\ UNCHANGED <<inbox, lapsed, locks, memory>>

-----------------------------------------------------------------------------
(* The pending-reference worker.                                           *)

(* FOR UPDATE SKIP LOCKED on a due pending row; now is read before it.     *)
LockDue(p, k) ==
    /\ pc[p] = "idle"
    /\ rowLock[k] = None
    /\ wager[k] # None
    /\ wager[k].status = "PENDING_REFERENCE"
    /\ rowLock' = [rowLock EXCEPT ![k] = p]
    /\ work' = [work EXCEPT ![p] = [cmd |-> wager[k].cmd, msg |-> None]]
    /\ Goto(p, IF IsExhausted(k) THEN "peekLast" ELSE "peek")
    /\ UNCHANGED <<committed, lapsed, walletLock, snap, found, plan, answer>>

(* The first look at the reference, without the wallet: still missing and  *)
(* not exhausted, the pending is rescheduled and the transaction commits.  *)
Reschedule(p) ==
    LET own == Own(p)
    IN  /\ pc[p] = "peek"
        /\ ~ IsResolvable(Lookup(p, own.cmd.ref))
        /\ wager' = [wager EXCEPT ![own.cmd.key].attempts = @ + 1]
        /\ ReleaseLocks(p)
        /\ Goto(p, "idle")
        /\ work' = [work EXCEPT ![p] = NoWork]
        /\ UNCHANGED <<wallet, ledger, inbox, outbox, lapsed, snap, found, plan, answer>>

(* Mutant: the first look rejects a pending that is exhausted. *)
PeekDecides(p) ==
    /\ \/ pc[p] = "peekLast"
       \/ pc[p] = "peek" /\ IsResolvable(Lookup(p, Own(p).cmd.ref))
    /\ IF IsResolvable(Lookup(p, Own(p).cmd.ref))
       THEN Goto(p, "settleLock") /\ UNCHANGED <<snap, plan>>
       ELSE /\ snap' = [snap EXCEPT ![p] = wallet[work[p].cmd.wallet]]
            /\ Decide(p, Reject(Own(p), "REFERENCE_NOT_FOUND", snap'[p].balance))
    /\ UNCHANGED <<committed, lapsed, locks, work, found, answer>>
Peek(p) ==
    /\ \/ pc[p] = "peekLast"
       \/ pc[p] = "peek" /\ IsResolvable(Lookup(p, Own(p).cmd.ref))
    /\ Goto(p, "settleLock")
    /\ UNCHANGED <<committed, lapsed, locks, memory, answer>>

SettleLock(p) ==
    /\ pc[p] = "settleLock"
    /\ TakeWallet(p, work[p].cmd.wallet)
    /\ Goto(p, "reread")
    /\ UNCHANGED <<committed, lapsed, rowLock, work, found, plan, answer>>

(* The reference is read again under the wallet lock before anything is    *)
(* decided about the pending.                                              *)
Reread(p) ==
    LET own       == Own(p)
        reference == Lookup(p, own.cmd.ref)
    IN  /\ pc[p] = "reread"
        /\ IF ~ IsResolvable(reference)
           THEN /\ Decide(p, Reject(own, IF reference = None THEN "REFERENCE_NOT_FOUND"
                                         ELSE "REFERENCE_NOT_PROCESSED", snap[p].balance))
                /\ UNCHANGED found
           ELSE IF ReversalFailure(own, reference) # NoCode
           THEN Decide(p, ApplyReversal(own, reference, FALSE, snap[p])) /\ UNCHANGED found
           ELSE /\ found' = [found EXCEPT ![p] = reference]
                /\ Goto(p, "slot") /\ UNCHANGED plan
        /\ UNCHANGED <<committed, lapsed, locks, work, snap, answer>>

(* A failure the classification calls deterministic: the transaction rolls  *)
(* back and a second one will record it.                                   *)
Defect(p) ==
    /\ pc[p] \in {"peek", "peekLast", "settleLock", "reread", "slot", "commit"}
    /\ plan[p] # None => plan[p].row.status # "FAILED"
    /\ ReleaseLocks(p)
    /\ Forget(p)
    /\ Goto(p, "failRow")
    /\ UNCHANGED <<committed, lapsed, work, answer>>

LockFailedRow(p) ==
    LET k == work[p].cmd.key
    IN  /\ pc[p] = "failRow"
        /\ rowLock[k] = None
        /\ rowLock' = [rowLock EXCEPT ![k] = p]
        /\ Goto(p, "failWallet")
        /\ UNCHANGED <<committed, lapsed, walletLock, memory, answer>>

(* Another worker may have settled the pending in the meantime: then the   *)
(* error is thrown again and nothing is written.                           *)
RecordFailure(p) ==
    LET own == Own(p)
    IN  /\ pc[p] = "failWallet"
        /\ wallet[own.cmd.wallet] # None
        /\ walletLock[own.cmd.wallet] = None
        /\ IF StillPending(own)
           THEN /\ TakeWallet(p, own.cmd.wallet)
                /\ Decide(p, Fail(own, wallet[own.cmd.wallet]))
                /\ UNCHANGED <<rowLock, work, found>>
           ELSE /\ ReleaseLocks(p) /\ Forget(p)
                /\ Goto(p, "idle")
                /\ work' = [work EXCEPT ![p] = NoWork]
        /\ UNCHANGED <<committed, lapsed, answer>>

-----------------------------------------------------------------------------
(* The environment.                                                        *)

(* The process whose row lock p's next statement waits for, or None.       *)
WaitsFor(p) ==
    CASE pc[p] \in {"lock", "settleLock", "failWallet"} -> walletLock[work[p].cmd.wallet]
      [] pc[p] = "failRow" -> rowLock[work[p].cmd.key]
      [] pc[p] = "commit" /\ plan[p].row.ref # None -> rowLock[plan[p].row.ref]
      [] OTHER -> None
(* Two transactions that wait for each other: PostgreSQL kills one.        *)
Circular(p) == \E q \in Procs \ {p} : WaitsFor(p) = q /\ WaitsFor(q) = p

(* The transaction dies: process crash, lost connection, lock timeout, or   *)
(* the victim of a deadlock.                                               *)
Abort(p) ==
    /\ pc[p] \notin {"idle", "reply"}
    /\ ReleaseLocks(p)
    /\ Forget(p)
    /\ Goto(p, "idle")
    /\ work' = [work EXCEPT ![p] = NoWork]
    /\ UNCHANGED <<committed, lapsed, answer>>

(* The pending wager's expiresAt passes.  It no longer matters once the     *)
(* attempts are used up.                                                   *)
Lapse(k) ==
    /\ wager[k] # None
    /\ wager[k].status = "PENDING_REFERENCE"
    /\ wager[k].attempts < MaxAttempts
    /\ k \notin lapsed
    /\ lapsed' = lapsed \cup {k}
    /\ UNCHANGED <<committed, locks, pc, memory, answer>>

HandlerStep(p) ==
    \/ ReserveInbox(p) \/ ClassifyRedelivery(p) \/ ReserveWager(p)
    \/ FindByKey(p) \/ FindByExternal(p)
    \/ MissWallet(p) \/ LockWallet(p) \/ ReadReference(p)
    \/ CommitCreation(p) \/ Reply(p)

ResolverStep(p) ==
    \/ Reschedule(p) \/ Peek(p) \/ SettleLock(p) \/ Reread(p)
    \/ LockFailedRow(p) \/ RecordFailure(p)

Next ==
    \/ \E p \in Handlers : \/ \E c \in Commands : BeginHttp(p, c)
                           \/ \E d \in Deliveries : BeginDelivery(p, d)
                           \/ \E w \in Wallets : InsertWallet(p, w)
                           \/ HandlerStep(p)
    \/ \E p \in Resolvers : \/ \E k \in Keys : LockDue(p, k)
                            \/ ResolverStep(p)
                            \/ Defect(p)
    \/ \E p \in Procs : ReadSlot(p) \/ Commit(p) \/ Abort(p)
    \/ \E k \in Keys : Lapse(k)

Spec == Init /\ [][Next]_vars

(* Statements complete, waiters of a row or of an identity are served in    *)
(* turn, PostgreSQL breaks deadlocks, the worker's poll reaches every due   *)
(* row, expiresAt passes, and from some point on the infrastructure is      *)
(* healthy: only deadlocks still kill transactions.                        *)
Waits(p) ==
    \/ p \in Handlers /\ (ReserveInbox(p) \/ ReserveWager(p) \/ LockWallet(p))
    \/ p \in Resolvers /\ (SettleLock(p) \/ LockFailedRow(p) \/ RecordFailure(p))
    \/ Commit(p)
Proceeds(p) ==
    \/ p \in Handlers /\ HandlerStep(p)
    \/ p \in Resolvers /\ ResolverStep(p)
    \/ ReadSlot(p) \/ Commit(p)

LiveSpec ==
    /\ Spec
    /\ \A p \in Procs : WF_vars(Proceeds(p)) /\ SF_vars(Waits(p))
    /\ \A k \in SubmittedKeys : /\ SF_vars(\E p \in Resolvers : LockDue(p, k))
                                /\ WF_vars(Lapse(k))
    /\ WF_vars(\E p \in Procs : Circular(p) /\ Abort(p))
    /\ <>[][\A p \in Procs : Abort(p) => Circular(p)]_vars

-----------------------------------------------------------------------------
(* Types.                                                                  *)

Statuses == {"PENDING", "PENDING_REFERENCE"} \cup Terminal
Codes == {NoCode, "INSUFFICIENT_FUNDS", "REVERSAL_WOULD_OVERDRAW", "BALANCE_LIMIT_EXCEEDED",
          "REFERENCE_NOT_FOUND", "REFERENCE_NOT_PROCESSED", "REFERENCE_KIND_NOT_REVERSIBLE",
          "REFERENCE_MISMATCH", "REVERSAL_AMOUNT_MISMATCH", "REFERENCE_ALREADY_REVERSED",
          "CURRENCY_MISMATCH", "WALLET_NOT_FOUND", "WALLET_PLAYER_MISMATCH",
          "INFRASTRUCTURE_FAILURE"}
Amount == 0 .. MaxBalance
Row == [cmd : AllCommands, status : Statuses, code : Codes, balance : Amount \cup {NoBalance},
        ref : Keys \cup {None}, attempts : 0 .. MaxAttempts]
WalletRow == [player : {OpeningOf[w].player : w \in Wallets},
              currency : {OpeningOf[w].currency : w \in Wallets},
              balance : Amount, version : Nat]
LedgerEntry == [tx : Keys, direction : {"DEBIT", "CREDIT"}, amount : Amount,
                before : Amount, after : Amount]
Plan == [row : Row, entry : LedgerEntry \cup {None}]
Event == [type : {"Processed", "Rejected", "PendingReference", "WalletBalanceChanged"},
          tx : Keys, version : Nat]
Errors == {"TRANSIENT", "MESSAGE_ID_REUSED", "DUPLICATE", "IDEMPOTENCY_KEY_CONFLICT",
           "EXTERNAL_TRANSACTION_ID_REUSED", "SERVICE_UNAVAILABLE", "WALLET_ALREADY_EXISTS"}
Result == [status : Statuses \cup {"ERROR", "CREATED"}, code : Codes \cup Errors,
           balance : Amount \cup {NoBalance}]
Labels == {"idle", "inbox", "inboxRead", "reserve", "byKey", "byExternal", "lock", "reference",
           "slot", "commit", "reply", "create", "peek", "peekLast", "settleLock", "reread",
           "failRow", "failWallet"}

ASSUME NoneAssumption ==
    /\ None \notin Row /\ None \notin WalletRow /\ None \notin LedgerEntry /\ None \notin Plan
    /\ None \notin [cmd : Commands, processed : BOOLEAN]

(* Every table and every open transaction holds what its columns and       *)
(* fields allow; in particular no balance leaves 0 .. MaxBalance.          *)
TypeOK ==
    /\ wager \in [Keys -> Row \cup {None}]
    /\ wallet \in [Wallets -> WalletRow \cup {None}]
    /\ ledger \in [Wallets -> Seq(LedgerEntry)]
    /\ inbox \in [MessageIds -> [cmd : Commands, processed : BOOLEAN] \cup {None}]
    /\ outbox \subseteq Event
    /\ lapsed \subseteq Keys
    /\ walletLock \in [Wallets -> Procs \cup {None}]
    /\ rowLock \in [Keys -> Procs \cup {None}]
    /\ pc \in [Procs -> Labels]
    /\ work \in [Procs -> [cmd : AllCommands \cup {None}, msg : MessageIds \cup {None}]]
    /\ snap \in [Procs -> WalletRow \cup {None}]
    /\ found \in [Procs -> Row \cup {None}]
    /\ plan \in [Procs -> Plan \cup {None}]
    /\ answer \in [Procs -> Result \cup {None}]

-----------------------------------------------------------------------------
(* Safety.                                                                 *)

Signed(e) == IF e.direction = "CREDIT" THEN e.amount ELSE - e.amount

(* The ledger of a wallet is an unbroken chain: each entry starts at the   *)
(* balance the one before it left, and the last one left today's balance.  *)
LedgerChains ==
    \A w \in Wallets :
        /\ \A i \in 1 .. Len(ledger[w]) :
              LET e == ledger[w][i]
              IN  /\ e.after = e.before + Signed(e)
                  /\ e.before = IF i = 1 THEN 0 ELSE ledger[w][i - 1].after
        /\ wallet[w] # None =>
              wallet[w].balance = IF ledger[w] = <<>> THEN 0
                                  ELSE ledger[w][Len(ledger[w])].after

MovesMoney(row) == row.status = "PROCESSED" /\ row.cmd.kind # "LOSS"

Effects(k) ==
    UNION {{<<w, i>> : i \in {j \in DOMAIN ledger[w] : ledger[w][j].tx = k}} : w \in Wallets}

(* One fact moves money exactly once, whatever mix of HTTP retries, SQS    *)
(* redeliveries and worker ticks carried it: a processed wager that moves  *)
(* money has one ledger entry, in its wallet, leaving the balance the      *)
(* wager reports; every other wager has none.                              *)
OneEffectPerFact ==
    \A k \in Keys :
        IF wager[k] # None /\ MovesMoney(wager[k])
        THEN LET w == wager[k].cmd.wallet
             IN  \E i \in DOMAIN ledger[w] :
                    /\ Effects(k) = {<<w, i>>}
                    /\ ledger[w][i].amount = wager[k].cmd.amount
                    /\ ledger[w][i].after = wager[k].balance
        ELSE Effects(k) = {}

StandingReversals(k) ==
    {a \in Rows : /\ a.ref = k /\ a.status = "PROCESSED" /\ a.cmd.kind \in ReversalKinds
                  /\ ~ \E u \in Rows : /\ u.ref = a.cmd.key /\ u.status = "PROCESSED"
                                       /\ u.cmd.kind = "ROLLBACK"}

(* A wager is never given back twice: at most one processed reversal of it *)
(* stands that has not itself been rolled back.                            *)
OneStandingReversal == \A k \in Keys : Cardinality(StandingReversals(k)) <= 1

EntriesOf(row) == {ledger[e[1]][e[2]] : e \in Effects(row.cmd.key)}

(* What stands of a wager is all of it or none of it: a reversed reference *)
(* was processed, in the same wallet and round, for the same amount, and   *)
(* the reversal moved the money the other way.                             *)
ReversalsMirrorTheirReference ==
    \A r \in Rows :
        (r.status = "PROCESSED" /\ r.cmd.kind \in ReversalKinds) =>
            LET reference == wager[r.ref]
            IN  /\ reference # None
                /\ reference.status = "PROCESSED"
                /\ SameBinding(r, reference)
                /\ \A e \in EntriesOf(r), f \in EntriesOf(reference) : Signed(e) = - Signed(f)

(* The constraints of the schema are only a safety net: whatever else has   *)
(* committed since, no transaction is about to write a row they refuse.    *)
SchemaNeverRefuses ==
    \A p \in Procs : pc[p] = "commit" => ~ SchemaRefuses(p, plan[p].row)

(* A wager that was put aside, as far as its row still tells. *)
HasWaited(r) == r.status \in {"PENDING_REFERENCE", "FAILED"} \/ r.attempts > 0

(* What is announced is what is committed.  A wager that is decided has     *)
(* announced that verdict and no other, and its movement if it has one; one *)
(* that waits, or was given up after waiting, has announced that it waits,  *)
(* and only a reversal ever does; each wallet has announced every version  *)
(* of its balance and none it never had.  The outbox is a set: how often a *)
(* row of one event is written is not asked.                               *)
EventsMatchState ==
    /\ \A k \in Keys :
          {e.type : e \in {f \in outbox : f.tx = k /\ f.type # "PendingReference"}} =
              IF wager[k] = None THEN {}
              ELSE IF ~ IsTerminal(wager[k]) THEN {}
              ELSE {IF wager[k].status = "PROCESSED" THEN "Processed" ELSE "Rejected"}
                   \cup (IF MovesMoney(wager[k]) THEN {"WalletBalanceChanged"} ELSE {})
    /\ \A k \in Keys :
          (wager[k] # None /\ HasWaited(wager[k])) =>
              \E f \in outbox : f.tx = k /\ f.type = "PendingReference"
    /\ \A f \in outbox :
          f.type = "PendingReference" => wager[f.tx] # None /\ RequiresReference(wager[f.tx])
    /\ \A w \in Wallets :
          {e.version : e \in {f \in outbox : /\ f.type = "WalletBalanceChanged"
                                             /\ wager[f.tx].cmd.wallet = w}} =
              IF wallet[w] = None THEN {}
              ELSE (IF OpeningOf[w].amount > 0 THEN 1 ELSE 2) .. wallet[w].version

(* A delivery is recorded only together with its fact: an inbox row is     *)
(* processed and the wager it carried is committed under the same payload. *)
InboxCommitsWithItsWager ==
    \A m \in MessageIds :
        inbox[m] # None =>
            /\ inbox[m].processed
            /\ wager[inbox[m].cmd.key] # None
            /\ SamePayload(wager[inbox[m].cmd.key].cmd, inbox[m].cmd)

(* Whoever loses a reservation finds its owner: neither "no visible owner" *)
(* nor "the inbox row disappeared" is ever answered.                       *)
LoserSeesTheOwner ==
    \A p \in Procs : answer[p] # None => answer[p].code \notin {"SERVICE_UNAVAILABLE", "TRANSIENT"}

(* What a caller is told is what stays recorded: a terminal result is the  *)
(* stored result of the wager that owns the caller's key and payload.      *)
AnswersAreDurable ==
    \A p \in Handlers :
        (answer[p] # None /\ answer[p].status \in Statuses) =>
            LET row == wager[work[p].cmd.key]
            IN  /\ row # None
                /\ SamePayload(row.cmd, work[p].cmd)
                /\ answer[p].status \in Terminal => answer[p] = ResultOf(row)

(* A player has one wallet per currency.                                   *)
OneWalletPerOwner ==
    \A v, w \in Wallets :
        (wallet[v] # None /\ wallet[w] # None /\ v # w) =>
            OpeningOf[v].player # OpeningOf[w].player \/ OpeningOf[v].currency # OpeningOf[w].currency

-----------------------------------------------------------------------------
(* What no step may do.                                                    *)

(* A committed wager keeps its identity and payload; once terminal it never *)
(* changes again; a pending reference goes only to itself or to the end.   *)
HistoryIsImmutable ==
    [][/\ \A k \in Keys : wager[k] # None =>
              /\ wager'[k] # None
              /\ wager'[k].cmd = wager[k].cmd
              /\ IsTerminal(wager[k]) => wager'[k] = wager[k]
              /\ ~ IsTerminal(wager[k]) => wager'[k].status # "PENDING"
       /\ \A w \in Wallets : \A i \in DOMAIN ledger[w] :
              i \in DOMAIN ledger'[w] /\ ledger'[w][i] = ledger[w][i]]_<<wager, ledger>>

(* A pending reversal is given up for a missing reference only when it is  *)
(* exhausted and its wallet really holds no settled reference.             *)
GivesUpOnlyWithoutReference ==
    [][\A k \in Keys :
          (/\ wager[k] # None /\ wager[k].status = "PENDING_REFERENCE"
           /\ wager'[k].code \in {"REFERENCE_NOT_FOUND", "REFERENCE_NOT_PROCESSED"}) =>
              /\ wager'[k].code = "REFERENCE_NOT_FOUND" =>
                     wager[k].attempts >= MaxAttempts \/ k \in lapsed
              /\ ~ \E r \in Rows : /\ r.cmd.ext = wager[k].cmd.ref
                                   /\ r.cmd.wallet = wager[k].cmd.wallet
                                   /\ r.status = "PROCESSED"]_wager

-----------------------------------------------------------------------------
(* What the documents say and the code does not do.                        *)

(* README.md 61: BET, REFUND(BET), ROLLBACK(BET) is accepted and credits    *)
(* twice.  The code refuses the second reversal of any kind.               *)
SecondKindIsAccepted ==
    \A r \in Rows : r.code = "REFERENCE_ALREADY_REVERSED" =>
        \A k \in Keys : (wager[k] # None /\ wager[k].cmd.ext = r.cmd.ref) =>
            \E a \in StandingReversals(k) : a.cmd.kind = r.cmd.kind

(* ARCHITECTURE.md 257-261: a worker's lock of a wager comes before the      *)
(* wallet, and the reference is read after it without a row lock, so nobody *)
(* waits in a circle.  The foreign key does lock the reference, and the    *)
(* failure path of a worker locks a wager that has been settled since.     *)
LocksAreOrdered == \A p \in Procs : ~ Circular(p)

-----------------------------------------------------------------------------
(* What must happen.                                                       *)

(* A reversal parked for its reference is decided one day, even when the   *)
(* reference never comes or two pending reversals wait for each other.     *)
PendingSettles ==
    \A k \in SubmittedKeys :
        (wager[k] # None /\ wager[k].status = "PENDING_REFERENCE")
            ~> (wager[k] # None /\ IsTerminal(wager[k]))

(* No transaction waits for ever for an identity, a wallet, a pending row   *)
(* or a foreign key: the waits have no cycle that PostgreSQL cannot break. *)
TransactionsEnd == \A p \in Procs : (pc[p] # "idle") ~> (pc[p] = "idle")

-----------------------------------------------------------------------------
(* The committed tables behave as if every submission, settlement and       *)
(* creation were one indivisible step: whatever a transaction read before   *)
(* it committed still held when it did.                                    *)
Serial == INSTANCE SerialWagering
          WITH wager <- wager, wallet <- wallet, ledger <- ledger,
               outbox <- outbox, lapsed <- lapsed
ImplementsSerialWagering == Serial!Spec
=============================================================================

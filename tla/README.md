# Verification of the wagering backend

TLA+ models, model-checking runs and machine-checked proofs of the wallet and
wagering backend in `src/` (NestJS, MikroORM, PostgreSQL, SQS). Paths below are
relative to `src/src/` unless they say otherwise; `ARCHITECTURE.md` and
`README.md` are those of the backend.

## 1. The system

Providers send wager transactions (BET, WIN, LOSS, REFUND, ROLLBACK) over HTTP or
over an SQS FIFO queue. Each one is applied once, in one PostgreSQL transaction, to
the wallet of a player, with a ledger entry and the events it announces. A
reversal whose reference is not known yet waits as PENDING_REFERENCE until a worker
settles it or gives it up. Events leave through an outbox that several publishers
drain.

| component | state it keeps | operations | talks to |
|---|---|---|---|
| wager rules (`domain/`) | none | kinds, references, movement of money, outcomes | called by every use case |
| submission (`submit-wager-transaction.ts`) | `wager_transaction`, `wallet`, `ledger_entry`, `outbox_message` | reserve, replay or conflict, lock wallet, read reference, read reversal slot, write, commit | the HTTP controller and the consumer's transaction |
| inbox (`consume-wager-message.ts`) | `inbox_message` | reserve, classify a redelivery, mark processed | inside the transaction of a submission |
| wallet creation (`create-wallet.ts`) | `wallet`, opening wager, entry and events | insert, loser's answer | HTTP |
| pending worker (`resolve-pending-reference.ts`) | `wager_transaction` rows in PENDING_REFERENCE | claim (SKIP LOCKED), look, reschedule, settle, give up, record a failure | the wallets and references of submissions |
| outbox publisher (`publish-outbox-message.ts`, `outbox-claim.repository.ts`) | `outbox_message` claims and state | claim, send, mark, reschedule, abandon | SQS `wager-events.fifo` |
| consumer worker (`wager-consumer.worker.ts`) | batch and in-flight message, in memory | receive, take up, handle, ack, dead-letter, retry, stop, release | SQS `wager-transactions.fifo`, its dead-letter queue |
| schema (`migrations/`) | unique indexes, triggers, CHECKs, foreign keys | refuses writes | every transaction |
| ledger pages, reconciliation (`ledger.repository.ts`, `ledger-query.ts`, `reconcile-wallet.ts`) | the cursor a client holds | read a page, read the balance and the sum of the entries, each in one snapshot | the tables that submissions write |
| polling loop (`polling-loop.ts`) | running flag, timer, step under way | start, stop, step, sleep | drives the pending worker, the publisher and the collector of metrics |
| the boundary (`validation.ts`, `wagering.controller.ts`, `error-filter.ts`, `envelope.ts`) | none | parse, normalise, classify failures, answer | between providers and submissions |
| auth, health, metrics, wiring, load scripts | none that matters here | | not modelled |

What makes it hard:

- **Concurrency.** Transactions run under READ COMMITTED, so two reads of one
  transaction may see different commits. Safety rests on who waits for whom: unique
  indexes for identities, `SELECT .. FOR UPDATE` for wallets and pending rows, a
  foreign key for references.
- **Failure.** A transaction may die at any statement, a caller may time out and
  retry, a message may be redelivered, a send may be counted as failed and arrive.
- **Ordering.** References may come after the reversal that names them; events of
  a wallet must leave in order although several publishers compete.
- **Time.** Leases, visibility timeouts and expiries end at inconvenient moments;
  a pending has a term, a number of attempts and a queue to stand in.
- **Two entrances.** HTTP and SQS parse, classify and answer on their own, and one
  fact may come through both.

What makes each component correct: one effect per fact and an intact ledger
(submission); one standing reversal that mirrors its reference (rules); a
delivery recorded with its fact (inbox); one wallet per owner (creation); every
pending settles, and only a missing reference gives it up (worker); nothing lost,
nothing changed after it is settled, order within a wallet (outbox); nothing lost
and order within a wallet (consumer); no entry skipped, repeated or wrongly accused
(ledger reads); an answer in time, whoever holds a wallet (pending queue); one
verdict for one submission (boundary). `PROJECT.json` lists the hazards at their
lines with the properties that cover them.

## 2. The modules

| module | models | checked by | proved in |
|---|---|---|---|
| `WagerRules` | the domain: rows, reference rules, outcomes, events (operators only) | through the modules that use it | lemmas of `WageringProofs`, `DecisionProofs` |
| `Wagering` | the database and every transaction on it, one statement per step | `MCWagering` | `WageringProofs`, `DecisionProofs`, `EffectProofs` |
| `SerialWagering` | what `Wagering` promises: each submission, settlement, creation is one step | `MCSerial` | `EffectProofs` (`CoreIsSerial`) |
| `Outbox` | the publishers, their claims and the broker | `MCOutbox` | `OutboxProofs` |
| `WagerConsumer` | the consumer loops, the queue and the dead-letter queue | `MCConsumer` | `ConsumerProofs` |
| `LedgerReads` | pages of a ledger and reconciliation, while the wallet is written | `MCLedgerReads` | `LedgerReadsProofs` |
| `PollingLoop` | the loop of a worker: step, sleep, stop | through `PendingWorker` | `PendingWorkerProofs` |
| `PendingWorker` | the queue of pendings in time: which one is taken, when, and until when | `MCPendingWorker` | `PendingWorkerProofs` |
| `Boundary` | what either transport lets through, and the verdict it gives | `MCBoundary` | `BoundaryProofs` |

`PendingWorker` extends `PollingLoop` and gives it its step. `Wagering` says what a
resolution does and leaves open when it happens; `PendingWorker` says when and
leaves open what it does. `Boundary` takes a whole transaction of `Wagering` as one
step and adds what comes before and after it.

### Wagering

The variables are of two groups. The committed tables are `wager`, `wallet`,
`ledger`, `inbox`, `outbox`; `lapsed` holds the pendings whose `expiresAt` has
passed. Each process (a handler, that is an HTTP request or the transaction of an
SQS delivery, or a resolver, that is a pending worker) has an open transaction:
`pc` names its next statement, `work` what it works on, `snap` the wallet row it
read under its lock, `found` its reference, `plan` the outcome it has decided, and
`answer` what its caller is told. `walletLock` and `rowLock` are the row locks.

A step is one SQL statement with the code that follows it up to the next one, so
every interleaving of statements is explored. A statement sees what is committed
and the transaction's own rows. Uncommitted rows of others are visible only through
waiting: `HoldsIdentity`, `HoldsInbox` and `HoldsOwner` are the unique indexes that
make an `INSERT .. ON CONFLICT DO NOTHING` wait for the inserter. The writes of a
transaction come last and are seen by nobody before the commit, so they are part of
`Commit`, with the locks and triggers they meet: `SchemaRefuses` is the triggers and
CHECKs (`ResultInCurrency` the one on the currency of a reported balance),
`ReferenceRowFree` the key-share lock of `wager_reference_fk`. `Abort` is a
crash, a lost connection, a lock timeout or a deadlock victim, at any step.

A handler runs `BeginHttp` or `BeginDelivery` (`ReserveInbox`,
`ClassifyRedelivery`), `ReserveWager`, then as a loser `FindByKey` and
`FindByExternal`, as the winner `LockWallet` or `MissWallet`, `ReadReference`,
`ReadSlot`, `Commit`, `Reply`. Creation is `InsertWallet`, `CommitCreation`. A
resolver runs `LockDue`, `Reschedule` or `Peek`, `SettleLock`, `Reread`,
`ReadSlot`, `Commit`; a deterministic failure is `Defect`, then `LockFailedRow`,
`RecordFailure`, `Commit` in a second transaction.

Abstractions: a command is a record of its business fields (the payload hash is
equality of these), one provider, amounts are small integers with an upper limit
`MaxBalance` for `numeric(20,2)`; keys, ids and rounds are model values or short
names. The set of events replaces the outbox table (`Outbox` takes it from there).
A row lock that `lockDuePendingReference` may keep after its condition turned false
on recheck is not modelled. `Reschedule` looks for the reference, updates the row and
commits in one step: a look that is stale by then only delays the wager by one retry.

### SerialWagering

The same tables, changed only by indivisible `Submit`, `Retry`, `Settle`, `GiveUp`,
`Break`, `Create`. `Wagering` is checked to implement it with the identity mapping on
the committed tables. So whatever a transaction read before it committed still held
when it did.

### Outbox

`row` is the outbox table (state, attempts, due, claim, lease), `arrived` what the
FIFO queue accepted, `transit` the sends that timed out and may still arrive, `pc`
and `claim` the ticks under way, `behind` a history variable for the order
property. `Claim` is one transaction, the send is outside any, the settlement
(`MarkPublished`, `Reschedule`, `Abandon`) is another and changes nothing unless the
claim is still the publisher's own (`Owns`). A lease runs out whenever it can.
`InstanceOf` is a constant because publishers deployed without INSTANCE_ID share
the default token (`bootstrap/env.ts:85`). The transaction `clock` orders events by
an instant sampled before the wallet lock, so events may be committed in any order
of rank: the order property speaks of what was committed at the claim.

### WagerConsumer

`queue`, `receives`, `dlq` are the FIFO queue with its redrive policy; `applied` the
committed messages in order; `mode`, `pc`, `batch` the consumers. Any call to SQS
may throw, before or after it took effect (`CallThrows`), the ones that give a message
back at a stop and the release after the grace included; visibility ends at any
moment, a consumer may stop (`Shutdown`, `GiveBack`, `ReleaseInFlight`, `Exit`), die
and restart. The database transaction of a message is one step here; `Wagering`
models its inside. `Poison` is the set of messages the contract refuses for good.

### LedgerReads

`wallet` and `ledger` are the committed tables of one wallet; `Open` and `Move` are
the writers, `Forge` is an entry with no balance behind it. A reader is a client
with the request it has open: `pc` and `snap` are the REPEATABLE READ transaction,
`reply` the answer on its way, `cursor`, `listed` and `over` what the client keeps.
A request is two statements (`FindWallet`, then `ReadPage` or `Reconcile`), between
which others commit; the answer may be lost (`Drop`), and then the client asks again
with the cursor it has. An entry's instant is any of `Instants`, because it is read
from a clock before the wait for the wallet: it tells nothing about the order of the
commits, and two entries may share one. The application's clock has milliseconds;
what is written past it takes its instant from `now()` and may have `Micros` besides,
which a cursor does not keep (`Mark`). Ids are ranks. `InOrder` is ORDER BY with LIMIT,
stated by counting: the i-th row is the one that i - 1 others precede. `Total` adds the
entries up as the SUM of `reconstruct` does.

### PollingLoop and PendingWorker

What lies between two awaits is one action of the loop, so `Sleep` is the guard of
`idle()` together with the timer it sets; `Stop` may come at any await. An empty step
is two actions, the claim query (`LookInVain`) and its answer (`FindNothing`), so a stop
may come while its query is open, and a row that falls due meanwhile waits a tick. In
`PendingWorker`, `Take` is `lockDuePendingReference` (due, not locked by another,
first by next attempt and id), and a worker that has a row in its `hand` reschedules
it, settles it once it has the wallet, or fails when the lock timeout ends
(`LockTimesOut`), which leaves the row as it was and sends the loop into its error
delay (a worker is `Stuck` while the wallet it needs is held). `Hold` and `Release`
are the other transactions on the wallet. `wait` and `term` count down to
`nextAttemptAt` and `expiresAt`, so that no clock grows. `Pass` lets a unit of time go
by, only when nobody has anything to do at once: that makes a bound on `term` a
promise about response time and not only about order. `LeastTime` is the least time
that so many attempts take, from the delays and their jitter; it is a constant with
its defining equation as an assumption, because powers of two can be evaluated but not
reasoned about. Failures that are recorded as FAILED are in `Wagering`. `Die` frees the
row of a worker at once; in truth a session that waits for a lock keeps its row until
that wait ends, which is while the wallet is held, so its pending could not be settled
anyway.

### Boundary

`met` is the set of submissions of a behaviour, `wagers` and `inbox` their rows,
`verdicts` what each was told. A text is a record of what the checks look at: whether it
is blank, its length, whether it holds a control character or a comma, whether it is in
composed form, whether it is ASCII, and what it says once it is composed. Each
submission may come over HTTP or SQS, any number of times: it is refused by the parser
(`RefuseInput`), known to the inbox (`Redelivered`), refused by the submission
(`RefuseCommand`), recorded (`Record`) or answered from its record (`Replay`); the
answer may be lost after the commit (`GiveOrLose`). A key comes over HTTP only if it is
ASCII (`Carries`): the runtime reads the bytes of a header as Latin-1, so any other key
reaches `validation.ts:195` as a different string, which is not modelled. A wallet is
its id and whether it is written in capitals. The inbox hashes the data as it came and
its `occurredAt` (`InboxHash`); the payload hash is of the parsed command. The order of
the checks is that of the code, because the first one that fails gives the code.
`Storable` is what the columns and the CHECKs accept; a row that is not storable fails
in a way nobody classified. Transient failures before the commit change nothing and are
left out.

## 3. The runs

Two processes of a kind are enough for every pairwise race (a third one that holds
a lock delays, but enables nothing new), and each scenario is the smallest set of
commands in which the rule at stake can go wrong. Symmetry is used in safety
runs only, on processes, which the specifications treat alike.

| run | instance | states | shows |
|---|---|---|---|
| MCSubmission | 2 handlers, 3 wallets, balance limit 9; two creations for one owner, a credit over the limit, the wrong player and currency, one fact over HTTP and two deliveries, one key with two payloads, one external id under two keys, a reused message id | 612 k | `TypeOK`, `OneWalletPerOwner`, `OneEffectPerFact`, `InboxCommitsWithItsWager`, `LoserSeesTheOwner`, `AnswersAreDurable` |
| MCReversal | 2 handlers; a bet, two refunds, a rollback of it, a rollback of a refund | 74 k | `LedgerChains`, `OneStandingReversal`, `ReversalsMirrorTheirReference`, `HistoryIsImmutable` |
| MCPending | 1 handler, 2 resolvers that may fail; a rollback of a refund of a bet, no retry left | 21 k | `EventsMatchState`, `SchemaNeverRefuses`, `GivesUpOnlyWithoutReference`, `TransactionsEnd` (deadlock included) |
| MCSerial | 2 handlers, 1 resolver, 2 wallets, a reference in the other wallet, one retry | 32 k | `ImplementsSerialWagering`, `PendingSettles` |
| MCOutbox | 2 publishers, 2 events of a wallet, 2 attempts | 95 k | `TypeOK`, `GroupsArriveInOrder`, `PublishedHasArrived`, `SettledForGood`, `EveryEventSettles` |
| MCConsumer | 2 consumers, 2 messages of a wallet (the first poisonous), batches of 2, 2 deliveries | 157 k | `TypeOK`, `NothingIsLost`, `OvertakenOnlyAfterRetry`, `OnlyPoisonIsDeadLetteredEarly`, `EveryMessageLeaves` |
| MCLedgerReads | 1 client, pages of 1 or 2, 5 entries (2 debits, 1 of them forged and perhaps a microsecond late), 2 instants | 4.0 M | `TypeOK`, `NothingIsListedTwice`, `WalksAreComplete`, `ReportsAreExact` |
| MCPendingWorker | 2 workers, 2 pendings, the older with a wallet held for up to 3 ticks, 1 stop or crash | 3.8 M | `TypeOK`, `AnsweredAfterItsTerm`, `ContentionKeepsNoOneElse`, `StopWaitsForTheStepAlone`, `TermEndsBeforeAttempts` |
| MCBoundary | every 3 of 10 submissions that may meet, each of them with a bet in two normalisations whose key only SQS carries, and each of some 30 kinds of defect with a bet and a refund | 243 k | `DefectsAreNotOutages`, `VerdictsAgree`, `OneRowPerIdentity`, `ConflictsAreReal`, `TakenIsRecorded` |

Bounds. `MaxAttempts` is 600 for events and 100 for pendings in the code:
0, 1 or 2 attempts reach the first failure, a retry and the end (0 in MCPending,
where every resolution is the last one and races with the reference; MCSerial has
the retry, with one worker, since a row is retried by one worker at a time). `MaxBalance`
stands for the largest amount of `numeric(20,2)`: small where the limit is at stake
(9 in MCSubmission), otherwise out of the way. A wager is written once and retried
`MaxAttempts` times, so no other bound is needed in `Wagering`; `MaxReceive` bounds
deliveries in `WagerConsumer` as the redrive policy does. Deadlock is checked
everywhere but in MCOutbox, MCPendingWorker and MCBoundary, where everything may be
settled and nothing remains to come. MCOutbox gives each publisher its own INSTANCE_ID; that
the order, the delivery and the finality survive a shared one is what the theorems
of `OutboxProofs` add, which assume nothing about the instances.

Two kinds of readers do not disturb each other (they take no lock and write
nothing), so MCLedgerReads has one; five entries and pages of two give a first, a
middle and a last page and an entry on either side of a cursor; one microsecond is
enough for an instant that its own cursor precedes. In MCPendingWorker a
unit is a tick (5 s) and the code's numbers (error delay 5 s, first retry 5 s,
delays up to 300 s, lock timeout 20 s, term 6 h, 100 attempts) are scaled down in
the same order: a tick and a first delay of 1, a cap of 2, a lock timeout of 2, a
term of 5, 3 attempts. That the code's own numbers let the term end before the
attempts do is the assumption `CodeTermEndsBeforeAttempts` of `MCPendingWorker`, an
arithmetic fact that TLC evaluates. `MaxHeld` bounds how long wallets are held:
`AnsweredAfterItsTerm` grows with it, as it must. `MaxExits` bounds stops and
crashes to one, with a restart. In MCBoundary three submissions are enough for two
that conflict and one that both depend on: another payload, another key, another
provider, another message id, another spelling, another `occurredAt`. Lengths are the
limit and one past it.

### Fairness

- `Wagering!LiveSpec`: weak fairness of every statement, strong fairness of the
  statements that wait (PostgreSQL queues waiters and wakes them in turn) and of the
  claim of each due row (the poll runs for ever; that it reaches every due row is
  shown by `PendingWorker`), weak fairness of the clock and of the abort of a
  transaction in a deadlock (`deadlock_timeout`). From some point on only deadlocks
  kill transactions. Nothing is assumed about what callers submit.
- `Outbox!LiveSpec`: ticks end, claimable events are claimed again and again (the
  claim query takes any eligible group), leases and delays pass, and from some point
  on no tick is killed. No send is assumed to succeed.
- `WagerConsumer!LiveSpec`: loops go on and consumers are restarted (the container's
  restart policy), timers fire, a message that is deliverable again and again is
  delivered. Nothing is assumed of how handling ends, and consumers may die for ever.
- `LedgerReads`, `PendingWorker` and `Boundary` state safety only: in `PendingWorker`
  time passes only when no worker can move, which makes a response within a bound a
  safety property.

### Disagreements with the documentation

Each of these runs expects TLC to refute one documented statement.

| run | the document says | the code does |
|---|---|---|
| MCSecondKind | `README.md:61`: BET, REFUND, ROLLBACK of the bet is accepted and credits twice | any active reversal fills the slot: the second is rejected with REFERENCE_ALREADY_REVERSED |
| MCLockOrder | `ARCHITECTURE.md:257-261`: a wager's row is locked only while pending, and the reference without a lock | `recordFailure` locks a settled row and waits for the wallet, whose holder waits for that row through the foreign key: a deadlock, which PostgreSQL breaks (`MCPending` shows that both end) |
| MCConsumerRetry | `ARCHITECTURE.md:391`: a message in retry blocks its wallet | the rest of its batch goes ahead |

Seen while reading, and not given a run:

- `ARCHITECTURE.md:443,462`: no confirmed event is abandoned for its attempts. The
  publisher parks it after 600 (`publish-outbox-message.ts:60`, `Abandon`).
- `ARCHITECTURE.md:393`: a batch that was not started has its visibility returned at
  shutdown. Not when the grace ends first: only the message in hand is released
  (`wager-consumer.worker.ts:93`, `ReleaseInFlight`).
- `ARCHITECTURE.md:636` (section 13.4) promises an answer after six hours. It may take
  more: one capped delay with its jitter (360 s), one sleep of a worker, the time others
  have held wallets, one sleep for each lock timeout (20 s) that fits into that time,
  and one for each worker that was stopped or killed. This is the bound of
  `AnsweredAfterItsTerm`.
- The ledger is listed by (created_at, id), where created_at precedes the lock of
  the wallet, so the balances of neighbouring items need not chain.
- `validation.ts:28` makes one identity of an identifier in two normalisations, and
  `OneRowPerIdentity` holds past the parsers. Nothing below them does so:
  `test/integration/wager-edge-cases.spec.ts:448` gives the use case one external id in
  NFC and in NFD and expects two rows and two debits.
- A key beyond ASCII is read as Latin-1 over HTTP: its normalisations are not made one
  there, and it is not the key the same provider sends over SQS.
- A cursor of the ledger has milliseconds (`ledger-query.ts:15`), the column microseconds.
  The application writes milliseconds only; after an entry written past it, as
  `ledger-and-reconciliation.spec.ts:212` does with `now()`, a page may skip later
  entries of that millisecond. `Hides` is this exception of `WalksAreComplete`; entries
  that were inserted while the walk went on are not promised anyway.
- A wallet id in capitals is the same wallet (the format ignores case, the column is
  a uuid) and another payload hash: the same fact sent so conflicts with itself. A
  message sent again with one text spelled otherwise, or with another `occurredAt`, is an
  INBOX_PAYLOAD_CONFLICT (`envelope.ts:42-46`). `ConflictsAreReal` names both.
- A comma in an idempotency key is refused over HTTP and accepted over SQS.
- `ARCHITECTURE.md:312` says that a REJECTED wager keeps the balance when the wallet
  exists. `WalletFailure` keeps none for another player's wallet, as the code does and
  its comment intends.

## 4. The proofs

tlapm checks every theorem and lemma; nothing is assumed but the named
assumptions on the constants, which TLC evaluates in the runs.

**`WageringProofs`**: `LedgerIsUnbroken` (`Spec => []LedgerChains`) and
`TypeCorrectness` (`Spec => []TypeOK`, which bounds every balance), for any number
of handlers, workers, wallets, commands and deliveries. `LedgerChains` is not
inductive: a commit appends the entry that was computed from what the transaction
had read, so one must know that it still holds the lock and that the wallet has not
changed since. The inductive invariant `IInv` adds

- `MoneyInv`: from the lock of the wallet to the commit, what a process read is
  the committed row, and the entry in its plan starts there (`HoldsWallet`);
- `HandlerInv`, `ResolverInv`: which key, row and lock a process has in hand at each
  statement;
- `DistinctReservations`, `DistinctCreations`: no two open transactions hold one
  identity or create one wallet, so a commit overwrites no row of another;
- `RowsAreKeyed`, `UnopenedIsEmpty`.

Each decision of `WagerRules` is covered by a lemma (`...Follows`): it keeps the wager
it decides, and its entry starts at the balance of the wallet it was given. Each
action has a step lemma. Those that publish nothing go through `LocalStep` (the other
processes keep what they have); the three that publish (`Commit`, `CommitCreation`,
`Reschedule`) through `OthersSurvive` (no other process relied on the row or wallet
that changes). The assumptions are that handlers and workers are distinct processes;
that a command has its fields, a wallet and an amount within the limit; that what is
submitted is positive, a reversal with a reference and a BET or LOSS without one
(`WagerTransaction.create`, `validation.ts`); that opening commands have keys and
external ids of their own, one pair for each wallet (`openingIdentity` makes both of
the wallet's id); that the wallets there are at the start have different owners
(`wallet_player_currency_uq`); that deliveries carry commands; and that None is no
row.

**`DecisionProofs`**: why a decision is still right when it commits. `DecisionsHold`
(`Spec => [](IInv /\ DInv)`) says of every statement of every transaction what it may
rely on. Most of what a transaction reads it reads without a lock; `DInv` states why
that is enough. `Decided(p)`: the plan of a transaction about to commit is the outcome
of the rules of `WagerRules` on what the tables hold now. The reason is one of three:
what was read is settled for good (`Settled`), or it is locked (`HoldsWallet`), or only
a transaction that needs the lock of the same wallet could change it. What is left over
is named: `Unordered` holds of a reference of another wallet, which no lock orders, and
there the decision rests on the older view. `RowInv` ties the columns of a committed row
to the rule that decided it; `ExtsAreUnique` and `DistinctExts` are the second unique
index. From this follow `SchemaIsOnlyASafetyNet` (`SchemaNeverRefuses`: no trigger or
CHECK ever fires), (with `CInv`: a pending wager was put aside under a wallet of its
currency), `HistoryStands` (`HistoryIsImmutable`, an action property) and
`NothingIsGivenUpInVain` (`GivesUpOnlyWithoutReference`, an action property).

**`EffectProofs`**: what the transactions leave behind, on top of `DInv`. Each property
has an invariant of its own:

- `AInv` for `DeliveriesCommitWhole`, `LosersSeeTheOwner`, `AnswersStayTrue`: what a
  loser is about to look up is committed, and a result that was told is on record;
- `OInv` for `PlayersHaveOneWallet`: an open creation and the wallets there are have
  different owners;
- `MInv` for `FactsMoveMoneyOnce`, `ReversalsStandAlone`, `ReversalsMirror`: every entry is
  the trace of one processed wager of its wallet, and of two reversals of one wager one has
  been rolled back;
- `VInv` and `WInv` for `EventsAreExact`: the events of a wager and of a wallet's versions,
  and the one of a wager that has waited. The outbox is a set, so this tells that an event
  is there, not that its row is written once.

`LedgersAddUp` says that a balance is the sum of its ledger. It follows from `LedgerChains`
by induction on the length, and the library's induction theorems cannot be cited; so the
least length at which the sum and the chain could differ is shown not to exist
(`LeastException`).

`CoreIsSerial` (`Spec => ImplementsSerialWagering`) is the refinement: with the
identity mapping on the committed tables the commit of a handler is a `Submit`, that
of a resolver a `Settle`, `GiveUp` or `Break`, and every other statement a stutter.
`Decided(p)` is exactly what the steps of the serial specification ask for.

**`OutboxProofs`**: `AggregatesArriveInOrder`, `NoEventIsLost` and `SettledIsFinal`
for any number of publishers and events, whether or not they share an INSTANCE_ID:
the order within a wallet rests on the claim query alone. The invariant says that a
settled row carries no claim, that a tick marks only what has arrived, and that
whatever an event was behind at its claim was already settled (`BehindIsSettled`).
`TypeCorrectness`, with the limit on attempts, needs instances of their own: a
publisher that shares its token may count its failure on a row another one has
rescheduled since.

**`ConsumerProofs`**: `NoMessageIsLost`, `OrderWithinAWallet`,
`DeadLettersAreDeserved` and `TypeCorrectness` for any number of consumers,
messages, wallets, sizes of a batch and deliveries. The invariant adds `HandInv` (a
consumer about to delete has applied or parked the message, one about to park holds
poison, one that has gone holds nothing) and `BatchInOrder`: a delivery that may
still be applied is behind nothing but settled messages and the ones before it in
its batch. That a consumer told to stop applies only the message in its hand
(`MayApply`) is what makes giving the others back harmless.

**`LedgerReadsProofs`**: `PagesNeverRepeat`, `PagesNeverSkip`, `ReportsTellTheTruth` and
`TypesHold`, for any clients, entries, clocks and limits. `NothingIsListedTwice` and
`WalksAreComplete` are not inductive: one has to know what a walk still owes its client.
`Owed(r)` is what was committed when the walk began and has not been received; `LInv` says
that it lies behind the cursor the client holds, that every snapshot a page is read from
holds it, and that a page on its way has it on it or behind the cursor it ends with. An
entry that is inserted meanwhile is owed to nobody, wherever it lands, and one that a
listed entry `Hides` is owed no more. The sort of the
query is an operator whose correctness is proved (`FirstInOrder`): the rank of a row among
a finite set of rows is an injection into an interval of the same size, so every rank up
to the limit is taken, and what is left out comes after what is shown. For the report, a
balance is the sum of its entries but for the forged ones (`Balances`), in the tables and
so in every snapshot.

**`PendingWorkerProofs`**: `TypesHold`, `StopsArePrompt`, `GivenUpAtTheEnd` (an action
property), `AnswersComeInTime` and `SkipLockedIsFair`, for any number of pendings and
workers and any delays. `QueueIsConsistent` is the invariant:

- `TInv`: a worker has a row in its hand only in its step (in an empty one, none), no
  two have the same, and a loop that was told to stop has no timer left;
- `TermInv`: what is left of a term lies between what is left of the wait, less one capped
  delay, and the term less the least time the attempts so far have taken;
- `LateInv`: how long a row can have been due. `Allowance` is what the sleeps of the
  workers can add up to; a sleep after a lock timeout is paid for by the time over which
  the wallet was held (`lockLeft`), a sleep after a stop or a death by `exits`;
- `HeedInv`: time passes over a due row that is free only while the workers sleep, and
  for no longer than a tick.

`LeastTimeAssumption` gives the least time the attempts take by its recurrence and says
that it reaches the term; TLC checks it for the instance, and for the code's own numbers
(`CodeTermEndsBeforeAttempts`), as `ARCHITECTURE.md` 13.4 claims. `BackoffAssumption` says
that the powers in `backoff` are positive, for which tlapm has no axiom.

**`BoundaryProofs`**: `DefectsAreRefused`, `TransportsAgree`, `SpellingsAreOneIdentity`,
`ConflictsHaveTwoSides` and `NothingTakenIsLost`, for any set of submissions. `BInv` adds
what each verdict was given on: a command that was recorded stays recorded, one that was
refuted (`Refuted`) stays so, and none is both. `AdmittedIsStorable` (what the parsers let
through, the columns take) and `InputsAgree` (both parsers let the same submissions through)
are facts about the operators. Every inbox row is that of a submission whose wager is
recorded, which is the other side of a conflict of message ids. `SpellingAssumption` is
what `normalize('NFC')` does: two spellings that say the same compose to one text, and
ASCII is composed.

The proofs have changed the models where they were wrong or could not be reasoned
about. Arms of a CASE that overlap have no order in TLA+: the checks of `Boundary`,
whose order gives the code, are IF .. ELSE now. The bound of `AnsweredAfterItsTerm`
left out sleeps after lock timeouts that follow one another, and the one of
`ContentionKeepsNoOneElse` a worker that dies with the row in hand; both held on the
small instance only. Pages of `LedgerReads` are ordered by rank and sums are recursive
functions, because the folds and sorts of the library have no theorems.

**Only model-checked**: liveness (`PendingSettles`, `TransactionsEnd`,
`EveryEventSettles`, `EveryMessageLeaves`), which needs fairness and ENABLED. Every
other property of every passing run is a theorem.

## 5. Not modelled

- The lookups of a wallet and of a transaction over HTTP: each reads one committed
  row. The role guard, the correlation headers and request logging decide nothing
  about a wager.
- Health probes, metrics and their collector: they only read.
- Configuration and wiring, but for the default INSTANCE_ID (`InstanceOf` of
  `Outbox`) and the order of the delays of the workers (`PendingWorker`).
- Grants, indexes that only serve speed, and `down()` of the migrations.
- The load and scenario scripts.
- In `Wagering` all commands come from one provider, because every unique index is
  scoped by it; several providers, among them the reserved one, are in `Boundary`.
- The text of money and the digest of a payload are replaced by integers and by
  equality of what is hashed; which spellings and normalisations are the same amount or
  identifier is in `Boundary`.

## 6. Plan

Done: the modules of section 2, their runs, and a theorem for every property the
passing runs check but the four of liveness. Next, in order of weight:

1. A composition of `WagerConsumer`, `Wagering` and `Outbox`: from a message in the
   input queue to its events at the broker, with the interface each pair relies on
   (a message applied is an inbox row committed, an event enqueued is one committed)
   as lemmas.
2. The loop of `PendingWorker` as the scheduler that `Wagering!LiveSpec` assumes: that a
   due row is taken within a bounded time (proved) is what justifies the strong fairness
   of `LockDue`.
3. A stop of `WagerConsumer` that comes between a failed receive and the backoff
   (`wager-consumer.worker.ts:148`), the one hazard without a property.

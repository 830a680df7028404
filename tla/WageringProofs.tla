--------------------------- MODULE WageringProofs ---------------------------
(***************************************************************************)
(* What the wagering core guarantees for any number of transactions,       *)
(* wallets, commands and deliveries: every table and open transaction has  *)
(* its type, no balance leaves 0 .. MaxBalance, and the ledger of every    *)
(* wallet is an unbroken chain that ends in its balance.                   *)
(***************************************************************************)
EXTENDS Wagering, TLAPS

-----------------------------------------------------------------------------
(* The commands. *)

LEMMA CommandFacts ==
    /\ Commands \subseteq AllCommands
    /\ \A w \in Wallets : OpeningOf[w] \in AllCommands /\ OpeningOf[w].wallet = w
    /\ \A v, w \in Wallets : OpeningOf[v].key = OpeningOf[w].key => v = w
    /\ \A c \in Commands, w \in Wallets : c.key # OpeningOf[w].key
    /\ \A c \in AllCommands : /\ c.key \in Keys /\ c.key # None
                              /\ c.wallet \in Wallets /\ c.amount \in Amount
    /\ None \notin Keys
<1>1. \A c \in AllCommands : /\ c.key \in Keys /\ c.key # None
                             /\ c.wallet \in Wallets /\ c.amount \in Amount
    BY CommandsAssumption DEF Keys, Amount
<1> QED BY <1>1, OpeningAssumption, SubmittedAssumption DEF AllCommands, Keys

LEMMA RowFacts ==
    ASSUME NEW r \in Row
    PROVE  /\ r # None /\ r.cmd \in AllCommands
           /\ r.status \in Statuses /\ r.code \in Codes
           /\ r.balance \in Amount \cup {NoBalance}
           /\ r.ref \in Keys \cup {None} /\ r.attempts \in 0 .. MaxAttempts
           /\ ResultOf(r) \in Result
<1>1. r \in Row /\ r # None
    BY NoneAssumption
<1> QED BY <1>1 DEF Row, ResultOf, Result

LEMMA ReservedIsRow ==
    ASSUME NEW c \in AllCommands PROVE Reserved(c) \in Row /\ Reserved(c).cmd = c
BY MaxAttemptsAssumption DEF Reserved, Row, Statuses, Codes

-----------------------------------------------------------------------------
(* The decisions.  Whatever is decided about row r with wallet w locked, the *)
(* wager stays the one that was submitted, and an entry, if there is one,  *)
(* starts at the balance of w.                                             *)

Follows(o, r, w) ==
    /\ o \in Plan
    /\ o.row.cmd = r.cmd
    /\ o.entry # None => /\ o.entry.before = w.balance
                         /\ o.entry.after = o.entry.before + Signed(o.entry)

LEMMA IdleFollows ==
    ASSUME NEW r \in Row, NEW w, NEW s \in Statuses, NEW c \in Codes,
           NEW b \in Amount \cup {NoBalance}
    PROVE  /\ Follows(Outcome([r EXCEPT !.status = s, !.code = c, !.balance = b], None), r, w)
           /\ Follows(Outcome([r EXCEPT !.status = s, !.balance = b], None), r, w)
<1>1. /\ [r EXCEPT !.status = s, !.code = c, !.balance = b] \in Row
      /\ [r EXCEPT !.status = s, !.code = c, !.balance = b].cmd = r.cmd
      /\ [r EXCEPT !.status = s, !.balance = b] \in Row
      /\ [r EXCEPT !.status = s, !.balance = b].cmd = r.cmd
    BY DEF Row
<1>2. ASSUME NEW x \in Row, x.cmd = r.cmd PROVE Follows(Outcome(x, None), r, w)
    BY <1>2 DEF Follows, Outcome, Plan
<1> QED BY <1>1, <1>2

LEMMA RejectFollows ==
    ASSUME NEW r \in Row, NEW w, NEW c \in Codes, NEW b \in Amount \cup {NoBalance}
    PROVE  Follows(Reject(r, c, b), r, w)
BY IdleFollows DEF Reject, Statuses, Terminal

LEMMA KeptFollows ==
    ASSUME NEW r \in Row, NEW w \in WalletRow
    PROVE  /\ Follows(Defer(r, w), r, w)
           /\ Follows(Fail(r, w), r, w)
           /\ Follows(ProcessIdle(r, w), r, w)
<1>1. w.balance \in Amount \cup {NoBalance}
    BY DEF WalletRow
<1>2. "INFRASTRUCTURE_FAILURE" \in Codes
    BY DEF Codes
<1> QED BY <1>1, <1>2, IdleFollows DEF Defer, Fail, ProcessIdle, Statuses, Terminal

LEMMA EntryFacts ==
    ASSUME NEW r \in Row, NEW w \in WalletRow, NEW d \in {"DEBIT", "CREDIT"},
           MovementFailure(w, r, d) = NoCode
    PROVE  LET e == Entry(w, r, d)
           IN  /\ e \in LedgerEntry
               /\ e.before = w.balance /\ e.after = e.before + Signed(e)
<1>1. /\ r.cmd.key \in Keys /\ r.cmd.amount \in Amount
      /\ w.balance \in Amount
    BY RowFacts, CommandFacts DEF WalletRow
<1>2. CASE d = "DEBIT"
    <2>1. w.balance >= r.cmd.amount
        BY <1>1, <1>2 DEF MovementFailure, NoCode, Amount
    <2>2. w.balance - r.cmd.amount \in Amount
        BY <1>1, <2>1, MaxBalanceAssumption DEF Amount
    <2> QED BY <1>1, <1>2, <2>2 DEF Entry, LedgerEntry, Signed, Amount
<1>3. CASE d = "CREDIT"
    <2>1. w.balance + r.cmd.amount <= MaxBalance
        BY <1>1, <1>3, MaxBalanceAssumption DEF MovementFailure, NoCode, Amount
    <2>2. w.balance + r.cmd.amount \in Amount
        BY <1>1, <2>1, MaxBalanceAssumption DEF Amount
    <2> QED BY <1>1, <1>3, <2>2 DEF Entry, LedgerEntry, Signed, Amount
<1> QED BY <1>2, <1>3

LEMMA ApplyFollows ==
    ASSUME NEW r \in Row, NEW w \in WalletRow, NEW d \in {"DEBIT", "CREDIT"},
           NEW k \in Keys \cup {None}
    PROVE  Follows(Apply(r, w, d, k), r, w)
<1> DEFINE failure == MovementFailure(w, r, d)
           e == Entry(w, r, d)
<1>1. CASE failure # NoCode
    <2>1. failure \in Codes
        BY DEF MovementFailure, Codes
    <2>2. w.balance \in Amount \cup {NoBalance}
        BY DEF WalletRow
    <2> QED BY <1>1, <2>1, <2>2, RejectFollows DEF Apply
<1>2. CASE failure = NoCode
    <2>1. /\ e \in LedgerEntry /\ e.before = w.balance
          /\ e.after = e.before + Signed(e)
        BY <1>2, EntryFacts
    <2>2. e.after \in Amount
        BY <2>1 DEF LedgerEntry
    <2> HIDE DEF e
    <2>3. /\ [r EXCEPT !.status = "PROCESSED", !.balance = e.after, !.ref = k] \in Row
          /\ [r EXCEPT !.status = "PROCESSED", !.balance = e.after, !.ref = k].cmd = r.cmd
        BY <2>2 DEF Row, Statuses, Terminal
    <2>4. ASSUME NEW x \in Row, x.cmd = r.cmd PROVE Follows(Outcome(x, e), r, w)
        BY <2>1, <2>4 DEF Follows, Outcome, Plan
    <2>5. Apply(r, w, d, k) =
              Outcome([r EXCEPT !.status = "PROCESSED", !.balance = e.after, !.ref = k], e)
        BY <1>2 DEF Apply, e
    <2> QED BY <2>3, <2>4, <2>5
<1> QED BY <1>1, <1>2

LEMMA FailureCodes ==
    ASSUME NEW r, NEW reference
    PROVE  ReversalFailure(r, reference) \in Codes /\ WinReferenceFailure(r, reference) \in Codes
BY DEF ReversalFailure, WinReferenceFailure, BindingFailure, Codes

LEMMA ApplyReversalFollows ==
    ASSUME NEW r \in Row, NEW reference \in Row, NEW active, NEW w \in WalletRow
    PROVE  Follows(ApplyReversal(r, reference, active, w), r, w)
<1>1. w.balance \in Amount \cup {NoBalance} /\ reference.cmd.key \in Keys
    BY RowFacts, CommandFacts DEF WalletRow
<1>2. ReversalFailure(r, reference) \in Codes /\ "REFERENCE_ALREADY_REVERSED" \in Codes
    BY FailureCodes DEF Codes
<1>3. Direction(r, reference) \in {"DEBIT", "CREDIT"}
    BY DEF Direction, PlainDirection
<1> QED BY <1>1, <1>2, <1>3, RejectFollows, ApplyFollows DEF ApplyReversal

LEMMA ApplyPlainFollows ==
    ASSUME NEW r \in Row, NEW reference \in Row \cup {None}, NEW w \in WalletRow
    PROVE  Follows(ApplyPlain(r, reference, w), r, w)
<1>1. w.balance \in Amount \cup {NoBalance}
    BY DEF WalletRow
<1>2. PlainDirection(r.cmd.kind) \in {"DEBIT", "CREDIT"}
    BY DEF PlainDirection
<1>3. CASE reference = None
    BY <1>2, <1>3, ApplyFollows DEF ApplyPlain
<1>4. CASE reference # None
    <2>1. reference.cmd.key \in Keys
        BY <1>4, RowFacts, CommandFacts
    <2> QED BY <1>1, <1>2, <1>4, <2>1, FailureCodes, RejectFollows, ApplyFollows DEF ApplyPlain
<1> QED BY <1>3, <1>4

(* The events of an outcome are events of its wager. *)
LEMMA EventsAreTyped ==
    ASSUME NEW o \in Plan, NEW v \in Nat PROVE Events(o, v) \subseteq Event
<1>1. o.row.cmd.key \in Keys
    BY RowFacts, CommandFacts DEF Plan
<1> QED BY <1>1 DEF Events, Event

-----------------------------------------------------------------------------
(* The invariant.                                                          *)

HandlerLabels == {"idle", "inbox", "inboxRead", "reserve", "byKey", "byExternal", "lock",
                  "reference", "slot", "commit", "reply", "create"}
ResolverLabels == {"idle", "peek", "peekLast", "settleLock", "reread", "slot", "commit",
                   "failRow", "failWallet"}
Reserving == {"lock", "reference", "slot", "commit"}
HoldingRow == ResolverLabels \ {"idle", "failRow"}

(* A handler works on a submitted command; until it commits nobody else has *)
(* recorded its key, or created the wallet that it is creating.            *)
HandlerInv(p) ==
    /\ pc[p] \in HandlerLabels
    /\ pc[p] \notin {"idle", "reply", "create"} => work[p].cmd \in Commands
    /\ pc[p] \in Reserving => wager[work[p].cmd.key] = None
    /\ pc[p] = "create" =>
          \E w \in Wallets : work[p].cmd = OpeningOf[w] /\ wallet[w] = None

(* A worker works on a recorded wager and holds its row, except after its   *)
(* first transaction failed; it reschedules only what has attempts left.   *)
ResolverInv(p) ==
    /\ pc[p] \in ResolverLabels
    /\ work[p].msg = None
    /\ pc[p] # "idle" => /\ work[p].cmd \in AllCommands
                         /\ wager[work[p].cmd.key] # None
                         /\ wager[work[p].cmd.key].cmd = work[p].cmd
    /\ pc[p] \in HoldingRow => rowLock[work[p].cmd.key] = p
    /\ pc[p] = "peek" => wager[work[p].cmd.key].attempts < MaxAttempts

(* p holds the lock of its wallet, and what it read there is still true. *)
HoldsWallet(p) ==
    /\ walletLock[work[p].cmd.wallet] = p
    /\ snap[p] = wallet[work[p].cmd.wallet]
    /\ snap[p] # None

(* Money is decided, and moved, under the lock of the wallet only. *)
MoneyInv(p) ==
    /\ pc[p] \in {"reference", "slot", "reread"} => HoldsWallet(p)
    /\ pc[p] = "slot" => found[p] # None
    /\ pc[p] = "commit" =>
          /\ plan[p] # None
          /\ plan[p].row.cmd = work[p].cmd
          /\ plan[p].entry # None =>
                /\ HoldsWallet(p)
                /\ plan[p].entry.before = snap[p].balance
                /\ plan[p].entry.after = plan[p].entry.before + Signed(plan[p].entry)

ProcInv(p) ==
    /\ p \in Handlers => HandlerInv(p)
    /\ p \in Resolvers => ResolverInv(p)
    /\ MoneyInv(p)

(* No two open transactions reserve one key, or create one wallet. *)
DistinctReservations ==
    \A p, q \in Handlers :
        (p # q /\ pc[p] \in Reserving /\ pc[q] \in Reserving) =>
            work[p].cmd.key # work[q].cmd.key
DistinctCreations ==
    \A p, q \in Handlers :
        (p # q /\ pc[p] = "create" /\ pc[q] = "create") =>
            work[p].cmd.wallet # work[q].cmd.wallet

RowsAreKeyed == \A k \in Keys : wager[k] # None => wager[k].cmd.key = k
UnopenedIsEmpty ==
    \A w \in Wallets : wallet[w] = None => ledger[w] = <<>> /\ wager[OpeningOf[w].key] = None

IInv ==
    /\ TypeOK
    /\ \A p \in Procs : ProcInv(p)
    /\ DistinctReservations /\ DistinctCreations
    /\ RowsAreKeyed /\ UnopenedIsEmpty
    /\ LedgerChains

-----------------------------------------------------------------------------
LEMMA OpeningFacts ==
    ASSUME NEW w \in Wallets
    PROVE  LET o == OpeningOutcome(w)
               c == OpeningOf[w]
           IN  /\ OpenWallet(w, c.amount) \in WalletRow
               /\ OpenWallet(w, c.amount).balance = c.amount
               /\ o \in Plan /\ o.row.cmd = c
               /\ o.entry \in LedgerEntry
               /\ o.entry.before = 0 /\ o.entry.after = c.amount
               /\ o.entry.after = o.entry.before + Signed(o.entry)
<1> DEFINE r == Reserved(OpeningOf[w])
           empty == OpenWallet(w, 0)
           o == OpeningOutcome(w)
<1>1. /\ OpeningOf[w] \in AllCommands /\ OpeningOf[w].amount \in Amount
      /\ r \in Row /\ r.cmd = OpeningOf[w]
    BY CommandFacts, ReservedIsRow
<1>2. /\ OpenWallet(w, OpeningOf[w].amount) \in WalletRow
      /\ OpenWallet(w, OpeningOf[w].amount).balance = OpeningOf[w].amount
      /\ empty \in WalletRow /\ empty.balance = 0
    BY <1>1, MaxBalanceAssumption DEF OpenWallet, WalletRow, Amount
<1>3. Follows(o, r, empty)
    BY <1>1, <1>2, ApplyFollows DEF OpeningOutcome
<1>4. o.entry = Entry(empty, r, "CREDIT")
    <2>1. MovementFailure(empty, r, "CREDIT") = NoCode
        BY <1>1, <1>2, MaxBalanceAssumption DEF MovementFailure, Amount
    <2> QED BY <2>1 DEF OpeningOutcome, Apply, Outcome
<1>5. o.entry \in LedgerEntry /\ o.entry.before = 0
    BY <1>1, <1>2, <1>4, EntryFacts, MaxBalanceAssumption DEF MovementFailure, Amount
<1>6. o.entry.after = OpeningOf[w].amount
    BY <1>1, <1>2, <1>4, MaxBalanceAssumption DEF Entry, Amount
<1>7. o.entry # None
    BY <1>5, NoneAssumption
<1> QED BY <1>1, <1>2, <1>3, <1>5, <1>6, <1>7 DEF Follows

LEMMA InitIInv == Init => IInv
<1> SUFFICES ASSUME Init PROVE IInv
    OBVIOUS
<1> DEFINE O(w) == OpeningOutcome(w)
<1>1. \A w \in Existing : w \in Wallets
    BY ExistingAssumption
<1>2. \A k \in Keys :
          \/ wager[k] = None /\ ~ \E w \in Existing : OpeningOf[w].key = k /\ OpeningOf[w].amount > 0
          \/ \E w \in Existing : /\ OpeningOf[w].key = k /\ OpeningOf[w].amount > 0
                                 /\ wager[k] = O(w).row
    BY DEF Init
<1>3. \A k \in Keys : wager[k] # None => wager[k] \in Row /\ wager[k].cmd.key = k
    <2> SUFFICES ASSUME NEW k \in Keys, wager[k] # None
                 PROVE  wager[k] \in Row /\ wager[k].cmd.key = k
        OBVIOUS
    <2>1. PICK w \in Existing : OpeningOf[w].key = k /\ wager[k] = O(w).row
        BY <1>2
    <2>2. O(w) \in Plan /\ O(w).row.cmd = OpeningOf[w]
        BY <1>1, OpeningFacts
    <2> QED BY <2>1, <2>2 DEF Plan
<1>4. ASSUME NEW w \in Wallets
      PROVE  /\ wallet[w] = IF w \in Existing THEN OpenWallet(w, OpeningOf[w].amount) ELSE None
             /\ \/ ledger[w] = <<>> /\ ~ (w \in Existing /\ OpeningOf[w].amount > 0)
                \/ /\ w \in Existing
                   /\ \E e \in LedgerEntry : /\ ledger[w] = <<e>>
                                             /\ e.before = 0 /\ e.after = OpeningOf[w].amount
                                             /\ e.after = e.before + Signed(e)
    <2>1. /\ wallet[w] = IF w \in Existing THEN OpenWallet(w, OpeningOf[w].amount) ELSE None
          /\ ledger[w] = IF w \in Existing /\ OpeningOf[w].amount > 0 THEN <<O(w).entry>> ELSE <<>>
        BY DEF Init
    <2>2. /\ O(w).entry \in LedgerEntry
          /\ O(w).entry.before = 0 /\ O(w).entry.after = OpeningOf[w].amount
          /\ O(w).entry.after = O(w).entry.before + Signed(O(w).entry)
        BY OpeningFacts
    <2> DEFINE e == O(w).entry
    <2> HIDE DEF e
    <2>3. CASE w \in Existing /\ OpeningOf[w].amount > 0
        <3>1. ledger[w] = <<e>>
            BY <2>1, <2>3 DEF e
        <3>2. /\ e \in LedgerEntry /\ e.before = 0 /\ e.after = OpeningOf[w].amount
              /\ e.after = e.before + Signed(e)
            BY <2>2 DEF e
        <3> QED BY <2>1, <2>3, <3>1, <3>2
    <2>4. CASE ~ (w \in Existing /\ OpeningOf[w].amount > 0)
        <3>1. ledger[w] = <<>>
            BY <2>1, <2>4
        <3> QED BY <2>1, <2>4, <3>1
    <2> QED BY <2>3, <2>4
<1>5. wallet \in [Wallets -> WalletRow \cup {None}]
    BY <1>1, OpeningFacts DEF Init
<1>6. ledger \in [Wallets -> Seq(LedgerEntry)]
    <2>1. ASSUME NEW w \in Wallets PROVE ledger[w] \in Seq(LedgerEntry)
        <3>1. CASE ledger[w] = <<>>
            BY <3>1
        <3>2. CASE \E e \in LedgerEntry : ledger[w] = <<e>>
            BY <3>2
        <3> QED BY <1>4, <3>1, <3>2
    <2> QED BY <2>1 DEF Init
<1>7. wager \in [Keys -> Row \cup {None}]
    BY <1>3 DEF Init
<1>8. outbox \subseteq Event
    <2>1. \A w \in Wallets : Events(O(w), 1) \subseteq Event
        BY OpeningFacts, EventsAreTyped
    <2> QED BY <1>1, <2>1 DEF Init
<1>9. TypeOK
    <2>1. NoWork \in [cmd : AllCommands \cup {None}, msg : MessageIds \cup {None}]
        BY DEF NoWork
    <2> QED BY <1>5, <1>6, <1>7, <1>8, <2>1 DEF Init, TypeOK, Labels
<1>10. \A p \in Procs : ProcInv(p)
    <2>1. \A p \in Procs : pc[p] = "idle" /\ work[p].msg = None
        BY DEF Init, NoWork
    <2> QED BY <2>1 DEF ProcInv, HandlerInv, ResolverInv, MoneyInv, HandlerLabels,
                        ResolverLabels, Reserving, HoldingRow, Procs
<1>11. DistinctReservations /\ DistinctCreations
    BY DEF Init, DistinctReservations, DistinctCreations, Reserving, Procs
<1>12. UnopenedIsEmpty
    <2> SUFFICES ASSUME NEW w \in Wallets, wallet[w] = None
                 PROVE  ledger[w] = <<>> /\ wager[OpeningOf[w].key] = None
        BY DEF UnopenedIsEmpty
    <2>1. w \notin Existing
        BY <1>4, OpeningFacts, NoneAssumption
    <2>2. OpeningOf[w].key \in Keys /\ ledger[w] = <<>>
        BY <1>4, <2>1, CommandFacts
    <2>3. ~ \E v \in Existing : OpeningOf[v].key = OpeningOf[w].key
        BY <1>1, <2>1, CommandFacts
    <2> QED BY <1>2, <2>2, <2>3
<1>13. LedgerChains
    <2> SUFFICES ASSUME NEW w \in Wallets
                 PROVE  /\ \A i \in 1 .. Len(ledger[w]) :
                              /\ ledger[w][i].after = ledger[w][i].before + Signed(ledger[w][i])
                              /\ ledger[w][i].before = IF i = 1 THEN 0 ELSE ledger[w][i - 1].after
                        /\ wallet[w] # None =>
                              wallet[w].balance = IF ledger[w] = <<>> THEN 0
                                                  ELSE ledger[w][Len(ledger[w])].after
        BY DEF LedgerChains
    <2>1. CASE ledger[w] = <<>>
        <3>1. wallet[w] # None => wallet[w].balance = 0
            <4> SUFFICES ASSUME wallet[w] # None PROVE wallet[w].balance = 0
                OBVIOUS
            <4>1. w \in Existing /\ wallet[w].balance = OpeningOf[w].amount
                BY <1>4, OpeningFacts
            <4>2. OpeningOf[w].amount \in Nat
                BY CommandFacts, MaxBalanceAssumption DEF Amount
            <4>3. ~ (OpeningOf[w].amount > 0)
                <5>1. \A e : ledger[w] # <<e>>
                    BY <2>1
                <5> QED BY <1>4, <4>1, <5>1
            <4> QED BY <4>1, <4>2, <4>3
        <3> QED BY <2>1, <3>1
    <2>2. CASE ledger[w] # <<>>
        <3>1. PICK e \in LedgerEntry : /\ w \in Existing /\ ledger[w] = <<e>>
                                       /\ e.before = 0 /\ e.after = OpeningOf[w].amount
                                       /\ e.after = e.before + Signed(e)
            BY <1>4, <2>2
        <3>2. wallet[w].balance = OpeningOf[w].amount
            BY <1>4, <3>1, OpeningFacts
        <3>3. Len(ledger[w]) = 1 /\ ledger[w][1] = e
            BY <3>1
        <3>4. \A i \in 1 .. Len(ledger[w]) : i = 1
            BY <3>3
        <3>5. wallet[w].balance = ledger[w][Len(ledger[w])].after
            BY <3>1, <3>2, <3>3
        <3>6. \A i \in 1 .. Len(ledger[w]) :
                  /\ ledger[w][i].after = ledger[w][i].before + Signed(ledger[w][i])
                  /\ ledger[w][i].before = IF i = 1 THEN 0 ELSE ledger[w][i - 1].after
            BY <3>1, <3>3, <3>4
        <3> QED BY <2>2, <3>5, <3>6
    <2> QED BY <2>1, <2>2
<1> QED BY <1>3, <1>9, <1>10, <1>11, <1>12, <1>13 DEF IInv, RowsAreKeyed

-----------------------------------------------------------------------------
(* What an open transaction works on. *)

Busy(p) == pc[p] \notin {"idle", "reply", "create"}

LEMMA OwnFacts ==
    ASSUME IInv, NEW p \in Procs, Busy(p)
    PROVE  /\ work[p].cmd \in AllCommands
           /\ work[p].cmd.key \in Keys /\ work[p].cmd.wallet \in Wallets
           /\ Own(p) \in Row /\ Own(p).cmd = work[p].cmd
<1>1. CASE p \in Handlers
    <2>1. work[p].cmd \in Commands
        BY <1>1 DEF IInv, ProcInv, HandlerInv, Busy
    <2> QED BY <1>1, <2>1, CommandFacts, ReservedIsRow DEF Own
<1>2. CASE p \in Resolvers
    <2>1. p \notin Handlers
        BY <1>2, ProcsAssumption
    <2>2. /\ work[p].cmd \in AllCommands
          /\ wager[work[p].cmd.key] # None
          /\ wager[work[p].cmd.key].cmd = work[p].cmd
        BY <1>2 DEF IInv, ProcInv, ResolverInv, Busy
    <2>3. work[p].cmd.key \in Keys /\ work[p].cmd.wallet \in Wallets
        BY <2>2, CommandFacts
    <2> QED BY <2>1, <2>2, <2>3 DEF Own, IInv, TypeOK
<1> QED BY <1>1, <1>2 DEF Procs

LEMMA LookupFacts ==
    ASSUME IInv, NEW p \in Procs, Busy(p), NEW x
    PROVE  Lookup(p, x) \in Row \cup {None}
<1>1. Rows \subseteq Row
    BY DEF Rows, IInv, TypeOK
<1>2. Own(p) \in Row
    BY OwnFacts
<1> QED BY <1>1, <1>2 DEF Lookup

-----------------------------------------------------------------------------
(* A step of one transaction that publishes nothing about wagers or money   *)
(* keeps the invariant if the others keep what they have and hold, and     *)
(* what the transaction itself now claims is true.                         *)

KeepsWhatItHas(q) ==
    /\ pc'[q] = pc[q] /\ work'[q] = work[q] /\ snap'[q] = snap[q]
    /\ found'[q] = found[q] /\ plan'[q] = plan[q]
    /\ \A w \in Wallets : walletLock[w] = q => walletLock'[w] = q
    /\ \A k \in Keys : rowLock[k] = q => rowLock'[k] = q
OthersKeep(p) == \A q \in Procs \ {p} : KeepsWhatItHas(q)

Distinct(p) ==
    \A q \in Handlers \ {p} :
        /\ (pc'[p] \in Reserving /\ pc[q] \in Reserving) => work'[p].cmd.key # work[q].cmd.key
        /\ (pc'[p] = "create" /\ pc[q] = "create") => work'[p].cmd.wallet # work[q].cmd.wallet

LEMMA PairsStayDistinct ==
    ASSUME IInv, NEW p \in Procs, OthersKeep(p), p \in Handlers => Distinct(p)
    PROVE  DistinctReservations' /\ DistinctCreations'
<1>1. \A q \in Handlers \ {p} : pc'[q] = pc[q] /\ work'[q] = work[q]
    BY DEF OthersKeep, KeepsWhatItHas, Procs
<1>2. ASSUME NEW q \in Handlers, NEW r \in Handlers, q # r
      PROVE  /\ (pc'[q] \in Reserving /\ pc'[r] \in Reserving) =>
                    work'[q].cmd.key # work'[r].cmd.key
             /\ (pc'[q] = "create" /\ pc'[r] = "create") =>
                    work'[q].cmd.wallet # work'[r].cmd.wallet
    <2>1. CASE q = p
        BY <1>1, <1>2, <2>1 DEF Distinct
    <2>2. CASE r = p
        BY <1>1, <1>2, <2>2 DEF Distinct
    <2>3. CASE q # p /\ r # p
        BY <1>1, <1>2, <2>3 DEF IInv, DistinctReservations, DistinctCreations
    <2> QED BY <2>1, <2>2, <2>3
<1> QED BY <1>2 DEF DistinctReservations, DistinctCreations

LEMMA LocalStep ==
    ASSUME IInv, TypeOK', NEW p \in Procs, UNCHANGED <<wager, wallet, ledger>>,
           OthersKeep(p), p \in Handlers => Distinct(p), ProcInv(p)'
    PROVE  IInv'
<1>1. ASSUME NEW q \in Procs \ {p} PROVE ProcInv(q)'
    <2>1. KeepsWhatItHas(q) /\ ProcInv(q)
        BY DEF OthersKeep, IInv
    <2>2. /\ Busy(q) => work[q].cmd.key \in Keys /\ work[q].cmd.wallet \in Wallets
        BY OwnFacts
    <2>3. HandlerInv(q) => HandlerInv(q)'
        BY <2>1 DEF KeepsWhatItHas, HandlerInv
    <2>4. ResolverInv(q) => ResolverInv(q)'
        BY <2>1, <2>2 DEF KeepsWhatItHas, ResolverInv, HoldingRow, ResolverLabels, Busy
    <2>5. Busy(q) /\ HoldsWallet(q) => HoldsWallet(q)'
        BY <2>1, <2>2 DEF KeepsWhatItHas, HoldsWallet
    <2>6. MoneyInv(q)'
        BY <2>1, <2>5 DEF KeepsWhatItHas, ProcInv, MoneyInv, Busy
    <2> QED BY <2>1, <2>3, <2>4, <2>6 DEF ProcInv
<1>2. DistinctReservations' /\ DistinctCreations'
    BY PairsStayDistinct
<1>3. RowsAreKeyed' /\ UnopenedIsEmpty'
    BY DEF IInv, RowsAreKeyed, UnopenedIsEmpty
<1>4. LedgerChains'
    BY DEF IInv, LedgerChains
<1> QED BY <1>1, <1>2, <1>3, <1>4 DEF IInv

-----------------------------------------------------------------------------
(* Submissions, up to the lock of the wallet. *)

LEMMA HandlerMoves ==
    ASSUME IInv, TypeOK', NEW p \in Handlers,
           UNCHANGED <<wager, wallet, ledger, walletLock, rowLock, snap, found, plan>>,
           NEW l \in HandlerLabels \ (Reserving \cup {"create"}), pc' = [pc EXCEPT ![p] = l],
           \A q \in Procs \ {p} : work'[q] = work[q],
           l \notin {"idle", "reply"} => work'[p].cmd \in Commands
    PROVE  IInv'
<1>1. p \in Procs /\ p \notin Resolvers
    BY ProcsAssumption DEF Procs
<1>2. pc'[p] = l /\ \A q \in Procs \ {p} : pc'[q] = pc[q]
    BY <1>1 DEF IInv, TypeOK
<1>3. OthersKeep(p)
    BY <1>2 DEF OthersKeep, KeepsWhatItHas
<1>4. ProcInv(p)'
    BY <1>1, <1>2 DEF ProcInv, HandlerInv, MoneyInv, HandlerLabels, Reserving
<1>5. Distinct(p)
    BY <1>2 DEF Distinct
<1> QED BY <1>1, <1>3, <1>4, <1>5, LocalStep

LEMMA BeginStep ==
    ASSUME IInv, NEW p \in Handlers,
           (\E c \in Commands : BeginHttp(p, c)) \/ (\E d \in Deliveries : BeginDelivery(p, d))
    PROVE  IInv'
<1>1. PICK c \in Commands, m \in MessageIds \cup {None}, l \in {"reserve", "inbox"} :
          /\ work' = [work EXCEPT ![p] = [cmd |-> c, msg |-> m]]
          /\ pc' = [pc EXCEPT ![p] = l]
          /\ UNCHANGED <<committed, lapsed, locks, snap, found, plan, answer>>
    <2>1. ASSUME NEW d \in Deliveries PROVE d.cmd \in Commands /\ d.id \in MessageIds
        BY DeliveriesAssumption DEF MessageIds
    <2> QED BY <2>1 DEF BeginHttp, BeginDelivery, Goto
<1>2. c \in AllCommands /\ p \in Procs
    BY CommandFacts DEF Procs
<1>3. TypeOK'
    BY <1>1, <1>2 DEF IInv, TypeOK, committed, locks, Labels
<1>4. work'[p].cmd = c /\ \A q \in Procs \ {p} : work'[q] = work[q]
    BY <1>1, <1>2 DEF IInv, TypeOK
<1>5. l \in HandlerLabels \ (Reserving \cup {"create"})
    BY DEF HandlerLabels, Reserving
<1> QED BY <1>1, <1>3, <1>4, <1>5, HandlerMoves DEF committed, locks

LEMMA ErrorFacts == ASSUME NEW e \in Errors PROVE ErrorOf(e) \in Result
BY DEF ErrorOf, Result

LEMMA InboxStep ==
    ASSUME IInv, NEW p \in Handlers, ReserveInbox(p) \/ ClassifyRedelivery(p)
    PROVE  IInv'
<1>1. PICK l \in {"reserve", "inboxRead", "reply"} :
          /\ pc' = [pc EXCEPT ![p] = l]
          /\ answer' = answer \/ \E e \in Errors : answer' = [answer EXCEPT ![p] = ErrorOf(e)]
          /\ UNCHANGED <<committed, lapsed, locks, memory>>
    BY DEF ReserveInbox, ClassifyRedelivery, Goto, Finish, Errors
<1>2. p \in Procs /\ work[p].cmd \in Commands
    BY DEF Procs, IInv, ProcInv, HandlerInv, ReserveInbox, ClassifyRedelivery
<1>3. TypeOK'
    BY <1>1, <1>2, ErrorFacts DEF IInv, TypeOK, committed, locks, memory, Labels
<1>4. l \in HandlerLabels \ (Reserving \cup {"create"})
    BY DEF HandlerLabels, Reserving
<1> QED BY <1>1, <1>2, <1>3, <1>4, HandlerMoves DEF committed, locks, memory

LEMMA InboxFacts ==
    ASSUME IInv, NEW p \in Handlers, Busy(p), MarkInboxProcessed(p)
    PROVE  inbox' \in [MessageIds -> [cmd : Commands, processed : BOOLEAN] \cup {None}]
<1>1. p \in Procs /\ work[p].cmd \in Commands
    BY DEF Procs, IInv, ProcInv, HandlerInv, Busy
<1> QED BY <1>1 DEF MarkInboxProcessed, IInv, TypeOK

LEMMA LoserStep ==
    ASSUME IInv, NEW p \in Handlers, FindByKey(p) \/ FindByExternal(p)
    PROVE  IInv'
<1>1. /\ p \in Procs /\ Busy(p) /\ work[p].cmd \in Commands
      /\ work[p].cmd.key \in Keys
    BY CommandFacts DEF Procs, Busy, IInv, ProcInv, HandlerInv, FindByKey, FindByExternal
<1>2. PICK l \in {"byExternal", "reply"} :
          /\ pc' = [pc EXCEPT ![p] = l]
          /\ \/ answer' = answer
             \/ \E e \in Errors : answer' = [answer EXCEPT ![p] = ErrorOf(e)]
             \/ /\ wager[work[p].cmd.key] # None
                /\ answer' = [answer EXCEPT ![p] = ResultOf(wager[work[p].cmd.key])]
          /\ inbox' = inbox \/ MarkInboxProcessed(p)
          /\ UNCHANGED <<wager, wallet, ledger, outbox, lapsed, locks, memory>>
    BY DEF FindByKey, FindByExternal, Goto, Finish, Errors, committed
<1>3. wager[work[p].cmd.key] # None => ResultOf(wager[work[p].cmd.key]) \in Result
    BY <1>1, RowFacts DEF IInv, TypeOK
<1>4. answer' \in [Procs -> Result \cup {None}]
    BY <1>1, <1>2, <1>3, ErrorFacts DEF IInv, TypeOK
<1>5. inbox' \in [MessageIds -> [cmd : Commands, processed : BOOLEAN] \cup {None}]
    BY <1>1, <1>2, InboxFacts DEF IInv, TypeOK
<1>6. TypeOK'
    BY <1>1, <1>2, <1>4, <1>5 DEF IInv, TypeOK, locks, memory, Labels
<1>7. l \in HandlerLabels \ (Reserving \cup {"create"})
    BY DEF HandlerLabels, Reserving
<1> QED BY <1>1, <1>2, <1>6, <1>7, HandlerMoves DEF locks, memory

LEMMA ReplyStep == ASSUME IInv, NEW p \in Handlers, Reply(p) PROVE IInv'
<1>1. p \in Procs /\ NoWork \in [cmd : AllCommands \cup {None}, msg : MessageIds \cup {None}]
    BY DEF Procs, NoWork
<1>2. TypeOK'
    BY <1>1 DEF Reply, Goto, IInv, TypeOK, committed, locks, Labels
<1>3. \A q \in Procs \ {p} : work'[q] = work[q]
    BY <1>1 DEF Reply, IInv, TypeOK
<1>4. "idle" \in HandlerLabels \ (Reserving \cup {"create"})
    BY DEF HandlerLabels, Reserving
<1> QED BY <1>2, <1>3, <1>4, HandlerMoves DEF Reply, Goto, committed, locks

(* The winner of a reservation is the only one that holds its key. *)
LEMMA ReserveWagerStep == ASSUME IInv, NEW p \in Handlers, ReserveWager(p) PROVE IInv'
<1>1. /\ p \in Procs /\ p \notin Resolvers /\ work[p].cmd \in Commands
      /\ work[p].cmd.key \in Keys /\ pc[p] = "reserve"
    BY CommandFacts, ProcsAssumption DEF Procs, IInv, ProcInv, HandlerInv, ReserveWager
<1>2. UNCHANGED <<committed, lapsed, locks, memory, answer>>
    BY DEF ReserveWager
<1>3. CASE pc' = [pc EXCEPT ![p] = "byKey"]
    <2>1. TypeOK'
        BY <1>1, <1>2, <1>3 DEF IInv, TypeOK, committed, locks, memory, Labels
    <2>2. "byKey" \in HandlerLabels \ (Reserving \cup {"create"})
        BY DEF HandlerLabels, Reserving
    <2> QED BY <1>1, <1>2, <1>3, <2>1, <2>2, HandlerMoves DEF committed, locks, memory
<1>4. CASE /\ pc' = [pc EXCEPT ![p] = "lock"]
           /\ ~ \E r \in Rows : r.cmd.key = work[p].cmd.key \/ r.cmd.ext = work[p].cmd.ext
    <2>1. TypeOK'
        BY <1>1, <1>2, <1>4 DEF IInv, TypeOK, committed, locks, memory, Labels
    <2>2. pc'[p] = "lock" /\ \A q \in Procs \ {p} : pc'[q] = pc[q]
        BY <1>1, <1>4 DEF IInv, TypeOK
    <2>3. OthersKeep(p)
        BY <1>2, <2>2 DEF OthersKeep, KeepsWhatItHas, locks, memory
    <2>4. wager[work[p].cmd.key] = None
        BY <1>1, <1>4 DEF Rows, IInv, RowsAreKeyed
    <2>5. ProcInv(p)'
        BY <1>1, <1>2, <2>2, <2>4
           DEF ProcInv, HandlerInv, MoneyInv, HandlerLabels, Reserving, committed, memory
    <2>6. Distinct(p)
        <3>1. \A q \in Handlers \ {p} : ~ HoldsIdentity(q, work[p].cmd)
            BY DEF ReserveWager
        <3> QED BY <1>2, <2>2, <3>1 DEF Distinct, HoldsIdentity, Reserving, memory
    <2> QED BY <1>1, <1>2, <2>1, <2>3, <2>5, <2>6, LocalStep DEF committed
<1> QED BY <1>3, <1>4 DEF ReserveWager, Goto

(* So is the creator of a wallet. *)
LEMMA InsertWalletStep ==
    ASSUME IInv, NEW p \in Handlers, NEW w \in Wallets, InsertWallet(p, w)
    PROVE  IInv'
<1>1. /\ p \in Procs /\ p \notin Resolvers
      /\ OpeningOf[w] \in AllCommands /\ OpeningOf[w].wallet = w
    BY CommandFacts, ProcsAssumption DEF Procs
<1>2. /\ wallet[w] = None
      /\ \A q \in Handlers \ {p} : ~ HoldsOwner(q, w)
      /\ work' = [work EXCEPT ![p] = [cmd |-> OpeningOf[w], msg |-> None]]
      /\ UNCHANGED <<committed, lapsed, locks, snap, found, plan>>
    BY DEF InsertWallet
<1>3. work'[p].cmd = OpeningOf[w] /\ \A q \in Procs \ {p} : work'[q] = work[q]
    BY <1>1, <1>2 DEF IInv, TypeOK
<1>4. CASE /\ pc' = [pc EXCEPT ![p] = "reply"]
           /\ answer' = [answer EXCEPT ![p] = ErrorOf("WALLET_ALREADY_EXISTS")]
    <2>1. TypeOK'
        BY <1>1, <1>2, <1>4, ErrorFacts DEF IInv, TypeOK, committed, locks, Labels, Errors
    <2>2. "reply" \in HandlerLabels \ (Reserving \cup {"create"})
        BY DEF HandlerLabels, Reserving
    <2> QED BY <1>2, <1>3, <1>4, <2>1, <2>2, HandlerMoves DEF committed, locks
<1>5. CASE pc' = [pc EXCEPT ![p] = "create"] /\ UNCHANGED answer
    <2>1. TypeOK'
        BY <1>1, <1>2, <1>5 DEF IInv, TypeOK, committed, locks, Labels
    <2>2. pc'[p] = "create" /\ \A q \in Procs \ {p} : pc'[q] = pc[q]
        BY <1>1, <1>5 DEF IInv, TypeOK
    <2>3. OthersKeep(p)
        BY <1>2, <1>3, <2>2 DEF OthersKeep, KeepsWhatItHas, locks
    <2>4. ProcInv(p)'
        BY <1>1, <1>2, <1>3, <2>2
           DEF ProcInv, HandlerInv, MoneyInv, HandlerLabels, Reserving, committed
    <2>5. Distinct(p)
        <3> SUFFICES ASSUME NEW q \in Handlers \ {p}, pc[q] = "create"
                     PROVE  work'[p].cmd.wallet # work[q].cmd.wallet
            BY <2>2 DEF Distinct, Reserving
        <3>1. PICK v \in Wallets : work[q].cmd = OpeningOf[v]
            BY DEF IInv, ProcInv, HandlerInv, Procs
        <3>2. v # w
            BY <1>2, <3>1 DEF HoldsOwner
        <3> QED BY <1>1, <1>3, <3>1, <3>2, CommandFacts
    <2> QED BY <1>1, <1>2, <2>1, <2>3, <2>4, <2>5, LocalStep DEF committed
<1> QED BY <1>4, <1>5 DEF InsertWallet, Finish, Goto

-----------------------------------------------------------------------------
(* The middle of a transaction: it reads, locks and decides. *)

OthersMemory(p) ==
    \A q \in Procs \ {p} : /\ snap'[q] = snap[q] /\ found'[q] = found[q] /\ plan'[q] = plan[q]
                           /\ \A w \in Wallets : walletLock[w] = q => walletLock'[w] = q
                           /\ \A k \in Keys : rowLock[k] = q => rowLock'[k] = q

MemoryOK ==
    /\ walletLock \in [Wallets -> Procs \cup {None}]
    /\ rowLock \in [Keys -> Procs \cup {None}]
    /\ snap \in [Procs -> WalletRow \cup {None}]
    /\ found \in [Procs -> Row \cup {None}]
    /\ plan \in [Procs -> Plan \cup {None}]

LEMMA StepOn ==
    ASSUME IInv, NEW p \in Procs, Busy(p), NEW l \in Labels, pc' = [pc EXCEPT ![p] = l],
           UNCHANGED <<committed, lapsed, work, answer>>, MemoryOK', OthersMemory(p),
           p \in Handlers => pc[p] \in Reserving /\ l \in Reserving,
           p \in Resolvers => /\ l \in ResolverLabels \ {"idle", "peek"}
                              /\ l \in HoldingRow => rowLock'[work[p].cmd.key] = p,
           MoneyInv(p)'
    PROVE  IInv'
<1>1. pc'[p] = l /\ \A q \in Procs \ {p} : pc'[q] = pc[q]
    BY DEF IInv, TypeOK
<1>2. TypeOK'
    BY DEF IInv, TypeOK, MemoryOK, committed
<1>3. OthersKeep(p)
    BY <1>1 DEF OthersKeep, KeepsWhatItHas, OthersMemory
<1>4. p \in Handlers => HandlerInv(p)'
    BY <1>1 DEF IInv, ProcInv, HandlerInv, HandlerLabels, Reserving, committed
<1>5. p \in Resolvers => ResolverInv(p)'
    BY <1>1 DEF IInv, ProcInv, ResolverInv, Busy, committed
<1>6. p \in Handlers => Distinct(p)
    BY <1>1 DEF IInv, DistinctReservations, Distinct, Reserving
<1> QED BY <1>2, <1>3, <1>4, <1>5, <1>6, LocalStep DEF ProcInv, committed

(* Whatever is decided under the lock of the wallet may be committed. *)
LEMMA DecideStep ==
    ASSUME IInv, NEW p \in Procs, Busy(p), NEW o, Decide(p, o),
           UNCHANGED <<committed, lapsed, rowLock, work, found, answer>>,
           MemoryOK', OthersMemory(p),
           p \in Handlers => pc[p] \in Reserving,
           p \in Resolvers => pc[p] \in HoldingRow,
           Follows(o, Own(p), snap'[p]), o.entry # None => HoldsWallet(p)'
    PROVE  IInv'
<1>1. plan'[p] = o /\ o # None /\ o.row.cmd = work[p].cmd
    BY OwnFacts, NoneAssumption DEF Decide, Follows, IInv, TypeOK
<1>2. pc'[p] = "commit"
    BY DEF Decide, Goto, IInv, TypeOK
<1>3. MoneyInv(p)'
    BY <1>1, <1>2 DEF MoneyInv, Follows
<1>4. p \in Resolvers => rowLock'[work[p].cmd.key] = p
    BY DEF IInv, ProcInv, ResolverInv
<1> QED BY <1>3, <1>4, StepOn DEF Decide, Goto, Labels, Reserving, ResolverLabels, HoldingRow

LEMMA MemoryFacts == IInv => MemoryOK
BY DEF IInv, TypeOK, MemoryOK

(* Taking the lock of a wallet: the balance read is the committed one. *)
LEMMA TakeFacts ==
    ASSUME IInv, NEW p \in Procs, NEW w \in Wallets, TakeWallet(p, w)
    PROVE  /\ walletLock' \in [Wallets -> Procs \cup {None}]
           /\ snap' \in [Procs -> WalletRow \cup {None}]
           /\ wallet[w] \in WalletRow
           /\ walletLock'[w] = p /\ snap'[p] = wallet[w]
           /\ \A q \in Procs \ {p} :
                 /\ snap'[q] = snap[q]
                 /\ \A v \in Wallets : walletLock[v] = q => walletLock'[v] = q
<1>1. None \notin Procs
    BY ProcsAssumption
<1> QED BY <1>1 DEF TakeWallet, IInv, TypeOK

LEMMA MissWalletStep == ASSUME IInv, NEW p \in Handlers, MissWallet(p) PROVE IInv'
<1> DEFINE o == Reject(Own(p), "WALLET_NOT_FOUND", NoBalance)
<1>1. p \in Procs /\ p \notin Resolvers /\ Busy(p) /\ pc[p] \in Reserving
    BY ProcsAssumption DEF Procs, Busy, Reserving, MissWallet
<1>2. Follows(o, Own(p), snap'[p])
    BY <1>1, OwnFacts, RejectFollows DEF Codes
<1>3. o.entry = None
    BY DEF Reject, Outcome
<1> HIDE DEF o
<1>4. plan' = [plan EXCEPT ![p] = o]
    BY DEF MissWallet, Decide, o
<1>5. MemoryOK' /\ OthersMemory(p)
    BY <1>1, <1>2, <1>4, MemoryFacts DEF MissWallet, locks, MemoryOK, OthersMemory, Follows
<1> QED BY <1>1, <1>2, <1>3, <1>5, DecideStep DEF MissWallet, o, locks

LEMMA LockWalletStep == ASSUME IInv, NEW p \in Handlers, LockWallet(p) PROVE IInv'
<1> DEFINE own == Own(p)
           w == wallet[own.cmd.wallet]
           failure == WalletFailure(own, w)
<1>1. /\ p \in Procs /\ p \notin Resolvers /\ Busy(p) /\ pc[p] \in Reserving
      /\ own \in Row /\ own.cmd = work[p].cmd /\ own.cmd.wallet \in Wallets
      /\ TakeWallet(p, own.cmd.wallet)
      /\ UNCHANGED <<committed, lapsed, rowLock, work, found, answer>>
    BY ProcsAssumption, OwnFacts DEF Procs, Busy, Reserving, LockWallet
<1>2. /\ walletLock' \in [Wallets -> Procs \cup {None}]
      /\ snap' \in [Procs -> WalletRow \cup {None}]
      /\ w \in WalletRow
      /\ walletLock'[own.cmd.wallet] = p /\ snap'[p] = w
      /\ \A q \in Procs \ {p} :
            /\ snap'[q] = snap[q]
            /\ \A v \in Wallets : walletLock[v] = q => walletLock'[v] = q
    BY <1>1, TakeFacts
<1>3. HoldsWallet(p)'
    BY <1>1, <1>2, NoneAssumption DEF HoldsWallet, committed
<1>4. \/ \E c \in Codes : Decide(p, Reject(own, c, DisclosedBalance(c, w)))
      \/ Decide(p, ProcessIdle(own, w))
      \/ Decide(p, ApplyPlain(own, None, w))
      \/ Goto(p, "reference") /\ UNCHANGED plan
    <2>1. failure \in Codes
        BY DEF WalletFailure, Codes
    <2> QED BY <2>1 DEF LockWallet
<1> HIDE DEF own, w
<1>5. ASSUME NEW o, Decide(p, o), Follows(o, own, w) PROVE IInv'
    <2>1. MemoryOK' /\ OthersMemory(p)
        <3>1. plan' = [plan EXCEPT ![p] = o] /\ o \in Plan
            BY <1>5 DEF Decide, Follows
        <3> QED BY <1>1, <1>2, <3>1, MemoryFacts DEF MemoryOK, OthersMemory
    <2> QED BY <1>1, <1>2, <1>3, <1>5, <2>1, DecideStep DEF own
<1>6. ASSUME NEW c \in Codes PROVE Follows(Reject(own, c, DisclosedBalance(c, w)), own, w)
    <2>1. DisclosedBalance(c, w) \in Amount \cup {NoBalance}
        BY <1>2 DEF DisclosedBalance, WalletRow
    <2> QED BY <1>1, <2>1, RejectFollows
<1>7. Follows(ProcessIdle(own, w), own, w) /\ Follows(ApplyPlain(own, None, w), own, w)
    BY <1>1, <1>2, KeptFollows, ApplyPlainFollows
<1>8. CASE Goto(p, "reference") /\ UNCHANGED plan
    <2>1. MemoryOK' /\ OthersMemory(p)
        BY <1>1, <1>2, <1>8, MemoryFacts DEF MemoryOK, OthersMemory
    <2>2. pc' = [pc EXCEPT ![p] = "reference"] /\ pc'[p] = "reference"
        BY <1>1, <1>8 DEF Goto, IInv, TypeOK
    <2>3. MoneyInv(p)'
        BY <1>3, <2>2 DEF MoneyInv
    <2> QED BY <1>1, <2>1, <2>2, <2>3, StepOn DEF Labels, Reserving
<1> QED BY <1>4, <1>5, <1>6, <1>7, <1>8

(* A decision on what the transaction has read so far, its locks unchanged. *)
LEMMA DecideOnRead ==
    ASSUME IInv, NEW p \in Procs, pc[p] \in {"reference", "slot", "reread"}, NEW o,
           Decide(p, o), Follows(o, Own(p), snap[p]),
           p \in Resolvers => pc[p] \in HoldingRow,
           UNCHANGED <<committed, lapsed, locks, work, snap, found, answer>>
    PROVE  IInv'
<1>1. HoldsWallet(p)' /\ Busy(p)
    BY DEF IInv, ProcInv, MoneyInv, HoldsWallet, committed, locks, Busy
<1>2. plan' = [plan EXCEPT ![p] = o] /\ o \in Plan
    BY DEF Decide, Follows
<1>3. MemoryOK' /\ OthersMemory(p)
    BY <1>2, MemoryFacts DEF MemoryOK, OthersMemory, locks
<1>4. p \in Handlers => pc[p] \in Reserving
    BY DEF IInv, ProcInv, HandlerInv, HandlerLabels, Reserving
<1> QED BY <1>1, <1>3, <1>4, DecideStep DEF locks

(* The reference is known: the next statement asks who reversed it. *)
LEMMA GoToSlot ==
    ASSUME IInv, NEW p \in Procs, pc[p] \in {"reference", "reread"}, NEW reference \in Row,
           found' = [found EXCEPT ![p] = reference], Goto(p, "slot"),
           p \in Resolvers => pc[p] \in HoldingRow,
           UNCHANGED <<committed, lapsed, locks, work, snap, plan, answer>>
    PROVE  IInv'
<1>1. HoldsWallet(p)' /\ Busy(p)
    BY DEF IInv, ProcInv, MoneyInv, HoldsWallet, committed, locks, Busy
<1>2. MemoryOK' /\ OthersMemory(p)
    BY MemoryFacts DEF MemoryOK, OthersMemory, locks
<1>3. /\ pc' = [pc EXCEPT ![p] = "slot"] /\ pc'[p] = "slot"
      /\ found'[p] = reference /\ reference # None
    BY NoneAssumption DEF Goto, IInv, TypeOK
<1>4. MoneyInv(p)'
    BY <1>1, <1>3 DEF MoneyInv
<1>5. p \in Handlers => pc[p] \in Reserving
    BY DEF IInv, ProcInv, HandlerInv, HandlerLabels, Reserving
<1>6. p \in Resolvers => rowLock'[work[p].cmd.key] = p
    BY DEF IInv, ProcInv, ResolverInv, locks
<1> QED BY <1>1, <1>2, <1>3, <1>4, <1>5, <1>6, StepOn
        DEF Labels, Reserving, ResolverLabels, locks

(* What a transaction that has locked its wallet works with. *)
LEMMA ReadFacts ==
    ASSUME IInv, NEW p \in Procs, pc[p] \in {"reference", "slot", "reread"}
    PROVE  /\ Busy(p) /\ Own(p) \in Row /\ snap[p] \in WalletRow
           /\ \A x : Lookup(p, x) \in Row \cup {None}
           /\ snap[p].balance \in Amount \cup {NoBalance}
<1>1. Busy(p)
    BY DEF Busy
<1>2. snap[p] \in WalletRow
    BY DEF IInv, TypeOK, ProcInv, MoneyInv, HoldsWallet
<1> QED BY <1>1, <1>2, OwnFacts, LookupFacts DEF WalletRow

LEMMA ReadReferenceStep == ASSUME IInv, NEW p \in Handlers, ReadReference(p) PROVE IInv'
<1> DEFINE own == Own(p)
           reference == Lookup(p, own.cmd.ref)
<1>1. p \in Procs /\ p \notin Resolvers /\ pc[p] = "reference"
    BY ProcsAssumption DEF Procs, ReadReference
<1>2. own \in Row /\ reference \in Row \cup {None} /\ snap[p] \in WalletRow
    BY <1>1, ReadFacts
<1>3. UNCHANGED <<committed, lapsed, locks, work, snap, answer>>
    BY DEF ReadReference
<1>4. \/ /\ \/ \E r \in {reference, None} : Decide(p, ApplyPlain(own, r, snap[p]))
            \/ Decide(p, Defer(own, snap[p]))
            \/ reference # None /\ Decide(p, ApplyReversal(own, reference, FALSE, snap[p]))
         /\ UNCHANGED found
      \/ /\ reference # None
         /\ found' = [found EXCEPT ![p] = reference]
         /\ Goto(p, "slot") /\ UNCHANGED plan
    BY DEF ReadReference
<1> HIDE DEF own, reference
<1>5. /\ \A r \in {reference, None} : Follows(ApplyPlain(own, r, snap[p]), own, snap[p])
      /\ Follows(Defer(own, snap[p]), own, snap[p])
      /\ reference # None => Follows(ApplyReversal(own, reference, FALSE, snap[p]), own, snap[p])
    BY <1>2, ApplyPlainFollows, KeptFollows, ApplyReversalFollows
<1>6. ASSUME NEW o, Decide(p, o), Follows(o, own, snap[p]), UNCHANGED found PROVE IInv'
    BY <1>1, <1>3, <1>6, DecideOnRead DEF own
<1>7. CASE /\ reference # None
           /\ found' = [found EXCEPT ![p] = reference]
           /\ Goto(p, "slot") /\ UNCHANGED plan
    BY <1>1, <1>2, <1>3, <1>7, GoToSlot
<1> QED BY <1>4, <1>5, <1>6, <1>7

LEMMA ReadSlotStep == ASSUME IInv, NEW p \in Procs, ReadSlot(p) PROVE IInv'
<1>1. /\ pc[p] = "slot" /\ found[p] \in Row
      /\ UNCHANGED <<committed, lapsed, locks, work, snap, found, answer>>
    BY DEF ReadSlot, IInv, TypeOK, ProcInv, MoneyInv
<1>2. Own(p) \in Row /\ snap[p] \in WalletRow
    BY <1>1, ReadFacts
<1>3. p \in Resolvers => pc[p] \in HoldingRow
    BY <1>1 DEF HoldingRow, ResolverLabels
<1> QED BY <1>1, <1>2, <1>3, ApplyReversalFollows, DecideOnRead DEF ReadSlot

LEMMA RereadStep == ASSUME IInv, NEW p \in Resolvers, Reread(p) PROVE IInv'
<1> DEFINE own == Own(p)
           reference == Lookup(p, own.cmd.ref)
<1>1. p \in Procs /\ pc[p] = "reread" /\ pc[p] \in HoldingRow
    BY DEF Procs, Reread, HoldingRow, ResolverLabels
<1>2. /\ own \in Row /\ reference \in Row \cup {None} /\ snap[p] \in WalletRow
      /\ snap[p].balance \in Amount \cup {NoBalance}
    BY <1>1, ReadFacts
<1>3. UNCHANGED <<committed, lapsed, locks, work, snap, answer>>
    BY DEF Reread
<1>4. \/ /\ \/ \E c \in Codes : Decide(p, Reject(own, c, snap[p].balance))
            \/ reference # None /\ Decide(p, ApplyReversal(own, reference, FALSE, snap[p]))
         /\ UNCHANGED found
      \/ /\ reference # None
         /\ found' = [found EXCEPT ![p] = reference]
         /\ Goto(p, "slot") /\ UNCHANGED plan
    BY DEF Reread, IsResolvable, Codes
<1> HIDE DEF own, reference
<1>5. /\ \A c \in Codes : Follows(Reject(own, c, snap[p].balance), own, snap[p])
      /\ reference # None => Follows(ApplyReversal(own, reference, FALSE, snap[p]), own, snap[p])
    BY <1>2, RejectFollows, ApplyReversalFollows
<1>6. ASSUME NEW o, Decide(p, o), Follows(o, own, snap[p]), UNCHANGED found PROVE IInv'
    BY <1>1, <1>3, <1>6, DecideOnRead DEF own
<1>7. CASE /\ reference # None
           /\ found' = [found EXCEPT ![p] = reference]
           /\ Goto(p, "slot") /\ UNCHANGED plan
    BY <1>1, <1>2, <1>3, <1>7, GoToSlot
<1> QED BY <1>4, <1>5, <1>6, <1>7

-----------------------------------------------------------------------------
(* The worker. *)

LEMMA LockDueStep ==
    ASSUME IInv, NEW p \in Resolvers, NEW k \in Keys, LockDue(p, k) PROVE IInv'
<1>1. p \in Procs /\ p \notin Handlers
    BY ProcsAssumption DEF Procs
<1>2. /\ wager[k] \in Row /\ wager[k] # None
      /\ wager[k].cmd \in AllCommands /\ wager[k].cmd.key = k
    BY RowFacts DEF LockDue, IInv, TypeOK, RowsAreKeyed
<1>3. PICK l \in {"peek", "peekLast"} :
          /\ pc' = [pc EXCEPT ![p] = l]
          /\ l = "peek" => ~ IsExhausted(k)
    BY DEF LockDue, Goto
<1>4. /\ pc[p] = "idle" /\ rowLock[k] = None
      /\ rowLock' = [rowLock EXCEPT ![k] = p]
      /\ work' = [work EXCEPT ![p] = [cmd |-> wager[k].cmd, msg |-> None]]
      /\ UNCHANGED <<committed, lapsed, walletLock, snap, found, plan, answer>>
    BY DEF LockDue
<1>5. TypeOK'
    BY <1>1, <1>2, <1>3, <1>4 DEF IInv, TypeOK, committed, Labels
<1>6. /\ pc'[p] = l /\ work'[p].cmd = wager[k].cmd /\ work'[p].msg = None
      /\ \A q \in Procs \ {p} : pc'[q] = pc[q] /\ work'[q] = work[q]
    BY <1>1, <1>3, <1>4 DEF IInv, TypeOK
<1>7. OthersKeep(p)
    <2>1. None \notin Procs
        BY ProcsAssumption
    <2> QED BY <1>4, <1>6, <2>1 DEF OthersKeep, KeepsWhatItHas, IInv, TypeOK
<1>8. l = "peek" => wager[k].attempts < MaxAttempts
    BY <1>2, <1>3, RowFacts, MaxAttemptsAssumption DEF IsExhausted
<1>9. ProcInv(p)'
    <2>1. wager' = wager /\ rowLock'[k] = p
        BY <1>4 DEF committed, IInv, TypeOK
    <2>2. ResolverInv(p)'
        BY <1>2, <1>6, <1>8, <2>1 DEF ResolverInv, ResolverLabels, HoldingRow
    <2> QED BY <1>1, <1>6, <2>2 DEF ProcInv, MoneyInv
<1> QED BY <1>1, <1>4, <1>5, <1>7, <1>9, LocalStep DEF committed

LEMMA ReleaseFacts ==
    ASSUME IInv, NEW p \in Procs, ReleaseLocks(p)
    PROVE  /\ walletLock' \in [Wallets -> Procs \cup {None}]
           /\ rowLock' \in [Keys -> Procs \cup {None}]
           /\ \A q \in Procs \ {p} :
                 /\ \A w \in Wallets : walletLock[w] = q => walletLock'[w] = q
                 /\ \A k \in Keys : rowLock[k] = q => rowLock'[k] = q
BY DEF ReleaseLocks, IInv, TypeOK

(* A transaction that ends without publishing anything: its process is free *)
(* and holds nothing.                                                      *)
LEMMA GiveUpStep ==
    ASSUME IInv, NEW p \in Procs, ReleaseLocks(p), Forget(p), Goto(p, "idle"),
           work' = [work EXCEPT ![p] = NoWork], UNCHANGED <<committed, lapsed, answer>>
    PROVE  IInv'
<1>1. NoWork \in [cmd : AllCommands \cup {None}, msg : MessageIds \cup {None}]
    BY DEF NoWork
<1>2. TypeOK'
    BY <1>1, ReleaseFacts DEF IInv, TypeOK, Forget, Goto, committed, Labels
<1>3. OthersKeep(p)
    BY ReleaseFacts DEF OthersKeep, KeepsWhatItHas, Forget, Goto, IInv, TypeOK
<1>4. pc'[p] = "idle" /\ work'[p] = NoWork
    BY DEF Goto, IInv, TypeOK
<1>5. ProcInv(p)'
    BY <1>4 DEF ProcInv, HandlerInv, ResolverInv, MoneyInv, HandlerLabels, ResolverLabels,
                Reserving, HoldingRow, NoWork
<1>6. Distinct(p)
    BY <1>4 DEF Distinct, Reserving
<1> QED BY <1>2, <1>3, <1>5, <1>6, LocalStep DEF committed

LEMMA PeekStep == ASSUME IInv, NEW p \in Resolvers, Peek(p) \/ SettleLock(p) PROVE IInv'
<1>1. p \in Procs /\ p \notin Handlers /\ Busy(p)
    BY ProcsAssumption DEF Procs, Busy, Peek, SettleLock
<1>2. rowLock[work[p].cmd.key] = p /\ work[p].cmd.wallet \in Wallets
    BY <1>1, OwnFacts DEF IInv, ProcInv, ResolverInv, Peek, SettleLock, HoldingRow, ResolverLabels
<1>3. CASE Peek(p)
    <2>1. pc' = [pc EXCEPT ![p] = "settleLock"] /\ pc'[p] = "settleLock"
        BY <1>1, <1>3 DEF Peek, Goto, IInv, TypeOK
    <2>2. MoneyInv(p)'
        BY <2>1 DEF MoneyInv
    <2>3. MemoryOK' /\ OthersMemory(p)
        BY <1>3, MemoryFacts DEF Peek, MemoryOK, OthersMemory, locks, memory
    <2> QED BY <1>1, <1>2, <1>3, <2>1, <2>2, <2>3, StepOn
            DEF Peek, Labels, ResolverLabels, locks, memory
<1>4. CASE SettleLock(p)
    <2>1. pc' = [pc EXCEPT ![p] = "reread"] /\ pc'[p] = "reread"
        BY <1>1, <1>4 DEF SettleLock, Goto, IInv, TypeOK
    <2>2. /\ walletLock' \in [Wallets -> Procs \cup {None}]
          /\ snap' \in [Procs -> WalletRow \cup {None}]
          /\ wallet[work[p].cmd.wallet] \in WalletRow
          /\ walletLock'[work[p].cmd.wallet] = p /\ snap'[p] = wallet[work[p].cmd.wallet]
          /\ \A q \in Procs \ {p} :
                /\ snap'[q] = snap[q]
                /\ \A v \in Wallets : walletLock[v] = q => walletLock'[v] = q
        BY <1>1, <1>2, <1>4, TakeFacts DEF SettleLock
    <2>3. MoneyInv(p)'
        BY <1>4, <2>1, <2>2, NoneAssumption DEF MoneyInv, HoldsWallet, SettleLock, committed
    <2>4. MemoryOK' /\ OthersMemory(p)
        BY <1>4, <2>2, MemoryFacts DEF SettleLock, MemoryOK, OthersMemory
    <2> QED BY <1>1, <1>2, <1>4, <2>1, <2>3, <2>4, StepOn DEF SettleLock, Labels, ResolverLabels
<1> QED BY <1>3, <1>4

LEMMA DefectStep == ASSUME IInv, NEW p \in Resolvers, Defect(p) PROVE IInv'
<1>1. p \in Procs /\ p \notin Handlers /\ Busy(p)
    BY ProcsAssumption DEF Procs, Busy, Defect
<1>2. pc' = [pc EXCEPT ![p] = "failRow"] /\ pc'[p] = "failRow"
    BY <1>1 DEF Defect, Goto, IInv, TypeOK
<1>3. MoneyInv(p)'
    BY <1>2 DEF MoneyInv
<1>4. MemoryOK' /\ OthersMemory(p)
    BY <1>1, MemoryFacts, ReleaseFacts DEF Defect, Forget, MemoryOK, OthersMemory
<1> QED BY <1>1, <1>2, <1>3, <1>4, StepOn DEF Defect, Labels, ResolverLabels, HoldingRow

LEMMA LockFailedRowStep == ASSUME IInv, NEW p \in Resolvers, LockFailedRow(p) PROVE IInv'
<1>1. p \in Procs /\ p \notin Handlers /\ Busy(p)
    BY ProcsAssumption DEF Procs, Busy, LockFailedRow
<1>2. work[p].cmd.key \in Keys
    BY <1>1, OwnFacts
<1>3. pc' = [pc EXCEPT ![p] = "failWallet"] /\ pc'[p] = "failWallet"
    BY <1>1 DEF LockFailedRow, Goto, IInv, TypeOK
<1>4. MoneyInv(p)'
    BY <1>3 DEF MoneyInv
<1>5. rowLock'[work[p].cmd.key] = p
    BY <1>2 DEF LockFailedRow, IInv, TypeOK
<1>6. MemoryOK' /\ OthersMemory(p)
    <2>1. None \notin Procs
        BY ProcsAssumption
    <2> QED BY <1>1, <2>1, MemoryFacts DEF LockFailedRow, MemoryOK, OthersMemory, memory
<1> QED BY <1>1, <1>3, <1>4, <1>5, <1>6, StepOn DEF LockFailedRow, Labels, ResolverLabels, memory

LEMMA RecordFailureStep == ASSUME IInv, NEW p \in Resolvers, RecordFailure(p) PROVE IInv'
<1> DEFINE own == Own(p)
           o == Fail(own, wallet[own.cmd.wallet])
<1>1. /\ p \in Procs /\ p \notin Handlers /\ Busy(p) /\ pc[p] \in HoldingRow
    BY ProcsAssumption DEF Procs, Busy, RecordFailure, HoldingRow, ResolverLabels
<1>2. own \in Row /\ own.cmd = work[p].cmd /\ own.cmd.wallet \in Wallets
    BY <1>1, OwnFacts
<1>3. CASE /\ TakeWallet(p, own.cmd.wallet) /\ Decide(p, o)
           /\ UNCHANGED <<rowLock, work, found, committed, lapsed, answer>>
    <2>1. /\ walletLock' \in [Wallets -> Procs \cup {None}]
          /\ snap' \in [Procs -> WalletRow \cup {None}]
          /\ wallet[own.cmd.wallet] \in WalletRow
          /\ snap'[p] = wallet[own.cmd.wallet]
          /\ \A q \in Procs \ {p} :
                /\ snap'[q] = snap[q]
                /\ \A v \in Wallets : walletLock[v] = q => walletLock'[v] = q
        BY <1>1, <1>2, <1>3, TakeFacts
    <2>2. Follows(o, own, snap'[p])
        BY <1>2, <2>1, KeptFollows
    <2>3. o.entry = None
        BY DEF Fail, Outcome
    <2> HIDE DEF o
    <2>4. MemoryOK' /\ OthersMemory(p)
        BY <1>1, <1>3, <2>1, <2>2, MemoryFacts DEF Decide, MemoryOK, OthersMemory, Follows
    <2> QED BY <1>1, <1>3, <2>2, <2>3, <2>4, DecideStep
<1>4. CASE /\ ReleaseLocks(p) /\ Forget(p) /\ Goto(p, "idle")
           /\ work' = [work EXCEPT ![p] = NoWork] /\ UNCHANGED <<committed, lapsed, answer>>
    BY <1>1, <1>4, GiveUpStep
<1> QED BY <1>3, <1>4 DEF RecordFailure

LEMMA AbortStep == ASSUME IInv, NEW p \in Procs, Abort(p) PROVE IInv'
BY GiveUpStep DEF Abort

LEMMA LapseStep == ASSUME IInv, NEW k \in Keys, Lapse(k) PROVE IInv'
BY DEF Lapse, IInv, TypeOK, ProcInv, HandlerInv, ResolverInv, MoneyInv, HoldsWallet,
       DistinctReservations, DistinctCreations, RowsAreKeyed, UnopenedIsEmpty, LedgerChains,
       committed, locks, memory

-----------------------------------------------------------------------------
(* The steps that publish.  At most one row and one wallet change; what the *)
(* other transactions rely on survives, because the row was nobody else's  *)
(* and the wallet was locked, or not there.                                *)

LEMMA OthersSurvive ==
    ASSUME IInv, NEW p \in Procs, NEW q \in Procs \ {p}, KeepsWhatItHas(q),
           NEW k \in Keys, \A j \in Keys \ {k} : wager'[j] = wager[j],
           \/ wager'[k] = wager[k]
           \/ /\ wager[k] = None /\ wager'[k] # None
              /\ (q \in Handlers /\ pc[q] \in Reserving) => work[q].cmd.key # k
           \/ /\ wager[k] # None /\ wager'[k] # None
              /\ wager'[k].cmd = wager[k].cmd /\ rowLock[k] = p,
           NEW w \in Wallets, \A v \in Wallets \ {w} : wallet'[v] = wallet[v],
           \/ wallet'[w] = wallet[w]
           \/ wallet[w] # None /\ walletLock[w] = p
           \/ wallet[w] = None /\ (pc[q] = "create" => work[q].cmd.wallet # w)
    PROVE  ProcInv(q)'
<1>1. ProcInv(q)
    BY DEF IInv
<1>2. Busy(q) => work[q].cmd.key \in Keys /\ work[q].cmd.wallet \in Wallets
    BY OwnFacts
<1>3. ASSUME q \in Handlers PROVE HandlerInv(q)'
    <2>1. HandlerInv(q)
        BY <1>1, <1>3 DEF ProcInv
    <2>2. ASSUME pc[q] \in Reserving PROVE wager'[work[q].cmd.key] = None
        <3>1. work[q].cmd.key \in Keys /\ wager[work[q].cmd.key] = None
            BY <1>2, <2>1, <2>2 DEF HandlerInv, Busy, Reserving
        <3> QED BY <1>3, <2>2, <3>1
    <2>3. ASSUME pc[q] = "create"
          PROVE  \E v \in Wallets : work[q].cmd = OpeningOf[v] /\ wallet'[v] = None
        <3>1. PICK v \in Wallets : work[q].cmd = OpeningOf[v] /\ wallet[v] = None
            BY <2>1, <2>3 DEF HandlerInv
        <3>2. work[q].cmd.wallet = v
            BY <3>1, CommandFacts
        <3> QED BY <2>3, <3>1, <3>2
    <2> QED BY <2>1, <2>2, <2>3 DEF HandlerInv, KeepsWhatItHas
<1>4. ASSUME q \in Resolvers PROVE ResolverInv(q)'
    <2>1. ResolverInv(q)
        BY <1>1, <1>4 DEF ProcInv
    <2>2. ASSUME pc[q] # "idle"
          PROVE  /\ wager'[work[q].cmd.key] # None
                 /\ wager'[work[q].cmd.key].cmd = work[q].cmd
                 /\ pc[q] \in HoldingRow => /\ rowLock'[work[q].cmd.key] = q
                                            /\ wager'[work[q].cmd.key] = wager[work[q].cmd.key]
        <3>1. /\ work[q].cmd.key \in Keys
              /\ wager[work[q].cmd.key] # None /\ wager[work[q].cmd.key].cmd = work[q].cmd
            BY <1>2, <2>1, <2>2 DEF ResolverInv, Busy, ResolverLabels
        <3>2. pc[q] \in HoldingRow => rowLock[work[q].cmd.key] = q
            BY <2>1 DEF ResolverInv
        <3> QED BY <3>1, <3>2 DEF KeepsWhatItHas
    <2> QED BY <2>1, <2>2 DEF ResolverInv, KeepsWhatItHas, HoldingRow, ResolverLabels
<1>5. MoneyInv(q)'
    <2>1. ASSUME Busy(q), HoldsWallet(q) PROVE HoldsWallet(q)'
        BY <1>2, <2>1 DEF HoldsWallet, KeepsWhatItHas
    <2> QED BY <1>1, <2>1 DEF ProcInv, MoneyInv, KeepsWhatItHas, Busy
<1> QED BY <1>3, <1>4, <1>5 DEF ProcInv

LEMMA RescheduleStep == ASSUME IInv, NEW p \in Resolvers, Reschedule(p) PROVE IInv'
<1> DEFINE k == work[p].cmd.key
<1>1. /\ p \in Procs /\ p \notin Handlers /\ Busy(p)
    BY ProcsAssumption DEF Procs, Busy, Reschedule
<1>2. /\ k \in Keys /\ wager[k] \in Row /\ wager[k] # None /\ wager[k].cmd.key = k
      /\ wager[k].attempts < MaxAttempts /\ rowLock[k] = p /\ Own(p).cmd.key = k
    BY <1>1, OwnFacts DEF Reschedule, IInv, TypeOK, ProcInv, ResolverInv, RowsAreKeyed,
                          HoldingRow, ResolverLabels
<1>3. /\ wager' = [wager EXCEPT ![k].attempts = @ + 1]
      /\ ReleaseLocks(p)
      /\ pc' = [pc EXCEPT ![p] = "idle"]
      /\ work' = [work EXCEPT ![p] = NoWork]
      /\ UNCHANGED <<wallet, ledger, inbox, outbox, lapsed, snap, found, plan, answer>>
    BY <1>2 DEF Reschedule, Goto
<1> HIDE DEF k
<1>4. /\ wager'[k] \in Row /\ wager'[k] # None /\ wager'[k].cmd = wager[k].cmd
      /\ \A j \in Keys \ {k} : wager'[j] = wager[j]
    <2>1. wager[k].attempts + 1 \in 0 .. MaxAttempts
        BY <1>2, RowFacts, MaxAttemptsAssumption
    <2>2. ASSUME NEW r \in Row, NEW n \in 0 .. MaxAttempts
          PROVE  [r EXCEPT !.attempts = n] \in Row /\ [r EXCEPT !.attempts = n].cmd = r.cmd
        BY DEF Row
    <2>3. wager'[k] = [wager[k] EXCEPT !.attempts = wager[k].attempts + 1]
        BY <1>2, <1>3 DEF IInv, TypeOK
    <2>4. \A j \in Keys \ {k} : wager'[j] = wager[j]
        BY <1>2, <1>3 DEF IInv, TypeOK
    <2> QED BY <1>2, <2>1, <2>2, <2>3, <2>4, NoneAssumption
<1>5. TypeOK'
    <2>1. NoWork \in [cmd : AllCommands \cup {None}, msg : MessageIds \cup {None}]
        BY DEF NoWork
    <2>2. wager' \in [Keys -> Row \cup {None}]
        BY <1>2, <1>3, <1>4 DEF IInv, TypeOK
    <2> QED BY <1>1, <1>3, <2>1, <2>2, ReleaseFacts DEF IInv, TypeOK, Labels
<1>6. OthersKeep(p)
    BY <1>1, <1>3, ReleaseFacts DEF OthersKeep, KeepsWhatItHas, IInv, TypeOK
<1>7. pc'[p] = "idle" /\ work'[p] = NoWork
    BY <1>1, <1>3 DEF IInv, TypeOK
<1>8. ProcInv(p)'
    BY <1>1, <1>7 DEF ProcInv, ResolverInv, MoneyInv, ResolverLabels, HoldingRow, NoWork
<1>9. ASSUME NEW q \in Procs \ {p} PROVE ProcInv(q)'
    <2>1. work[p].cmd.wallet \in Wallets
        BY <1>1, OwnFacts
    <2> QED BY <1>1, <1>2, <1>3, <1>4, <1>6, <2>1, OthersSurvive DEF OthersKeep
<1>10. DistinctReservations' /\ DistinctCreations'
    BY <1>1, <1>6, PairsStayDistinct
<1>11. RowsAreKeyed' /\ UnopenedIsEmpty' /\ LedgerChains'
    <2>1. RowsAreKeyed'
        BY <1>2, <1>4 DEF IInv, RowsAreKeyed
    <2>2. UnopenedIsEmpty'
        BY <1>2, <1>3, <1>4, CommandFacts DEF IInv, UnopenedIsEmpty
    <2>3. LedgerChains'
        BY <1>3 DEF IInv, LedgerChains
    <2> QED BY <2>1, <2>2, <2>3
<1> QED BY <1>5, <1>8, <1>9, <1>10, <1>11 DEF IInv

LEMMA CommitCreationStep == ASSUME IInv, NEW p \in Handlers, CommitCreation(p) PROVE IInv'
<1>1. p \in Procs /\ p \notin Resolvers /\ pc[p] = "create"
    BY ProcsAssumption DEF Procs, CommitCreation
<1>2. PICK w \in Wallets : work[p].cmd = OpeningOf[w] /\ wallet[w] = None
    BY <1>1 DEF IInv, ProcInv, HandlerInv
<1> DEFINE c == OpeningOf[w]
           k == c.key
           o == OpeningOutcome(w)
           opened == OpenWallet(w, c.amount)
<1>3. /\ c \in AllCommands /\ c.wallet = w /\ k \in Keys /\ c.amount \in Amount
      /\ ledger[w] = <<>> /\ wager[k] = None
    BY <1>2, CommandFacts DEF IInv, UnopenedIsEmpty
<1>4. /\ opened \in WalletRow /\ opened # None /\ opened.balance = c.amount
      /\ o \in Plan /\ o.row \in Row /\ o.row # None /\ o.row.cmd = c
      /\ o.entry \in LedgerEntry /\ o.entry.before = 0 /\ o.entry.after = c.amount
      /\ o.entry.after = o.entry.before + Signed(o.entry)
    BY OpeningFacts, NoneAssumption DEF Plan
<1>5. /\ wallet' = [wallet EXCEPT ![w] = opened]
      /\ \/ c.amount = 0 /\ UNCHANGED <<wager, ledger, outbox>>
         \/ /\ wager' = [wager EXCEPT ![k] = o.row]
            /\ ledger' = [ledger EXCEPT ![w] = <<o.entry>>]
            /\ outbox' = outbox \cup Events(o, 1)
      /\ pc' = [pc EXCEPT ![p] = "reply"]
      /\ answer' = [answer EXCEPT ![p] =
                       [status |-> "CREATED", code |-> NoCode, balance |-> c.amount]]
      /\ UNCHANGED <<inbox, lapsed, locks, memory>>
    BY <1>2, <1>3 DEF CommitCreation, Finish, Goto
<1>6. [status |-> "CREATED", code |-> NoCode, balance |-> c.amount] \in Result
    BY <1>3 DEF Result, Codes
<1>7. Events(o, 1) \subseteq Event
    BY <1>4, EventsAreTyped
<1> DEFINE e == o.entry
           row == o.row
           told == [status |-> "CREATED", code |-> NoCode, balance |-> c.amount]
<1>8. /\ row \in Row /\ row # None /\ row.cmd.key = k
      /\ e \in LedgerEntry /\ e.before = 0 /\ e.after = opened.balance
      /\ e.after = e.before + Signed(e)
    BY <1>4
<1>9. /\ \A v \in Wallets \ {w} : wallet'[v] = wallet[v] /\ ledger'[v] = ledger[v]
      /\ wallet'[w] = opened
      /\ \/ opened.balance = 0 /\ ledger'[w] = <<>> /\ wager' = wager
         \/ ledger'[w] = <<e>> /\ wager'[k] = row
      /\ \A j \in Keys \ {k} : wager'[j] = wager[j]
    BY <1>3, <1>4, <1>5 DEF IInv, TypeOK
<1>10. TypeOK'
    <2>1. wager' \in [Keys -> Row \cup {None}] /\ outbox' \subseteq Event
        BY <1>3, <1>4, <1>5, <1>7 DEF IInv, TypeOK
    <2>2. ledger' \in [Wallets -> Seq(LedgerEntry)]
        <3> HIDE DEF e
        <3>1. <<e>> \in Seq(LedgerEntry)
            BY <1>8
        <3>2. ledger' = ledger \/ ledger' = [ledger EXCEPT ![w] = <<e>>]
            BY <1>5 DEF e
        <3> QED BY <3>1, <3>2 DEF IInv, TypeOK
    <2>3. wallet' \in [Wallets -> WalletRow \cup {None}]
        BY <1>4, <1>5 DEF IInv, TypeOK
    <2> HIDE DEF told
    <2>4. told \in Result /\ answer' = [answer EXCEPT ![p] = told]
        BY <1>5, <1>6 DEF told
    <2> QED BY <1>1, <1>5, <2>1, <2>2, <2>3, <2>4 DEF IInv, TypeOK, locks, memory, Labels
<1> HIDE DEF e, row, opened, told, k
<1>11. pc'[p] = "reply" /\ \A q \in Procs \ {p} : pc'[q] = pc[q]
    BY <1>1, <1>5 DEF IInv, TypeOK
<1>12. OthersKeep(p)
    BY <1>5, <1>11 DEF OthersKeep, KeepsWhatItHas, locks, memory
<1>13. ProcInv(p)'
    BY <1>1, <1>11 DEF ProcInv, HandlerInv, MoneyInv, HandlerLabels, Reserving
<1>14. ASSUME NEW q \in Procs \ {p} PROVE ProcInv(q)'
    <2>1. (q \in Handlers /\ pc[q] \in Reserving) => work[q].cmd.key # k
        <3>1. (q \in Handlers /\ pc[q] \in Reserving) => work[q].cmd \in Commands
            BY DEF IInv, ProcInv, HandlerInv, Reserving
        <3> QED BY <3>1, CommandFacts DEF k
    <2>2. pc[q] = "create" => work[q].cmd.wallet # w
        <3>1. pc[q] = "create" => q \in Handlers
            BY DEF IInv, ProcInv, ResolverInv, ResolverLabels, Procs
        <3> QED BY <1>1, <1>2, <1>3, <3>1 DEF IInv, DistinctCreations
    <2>3. KeepsWhatItHas(q)
        BY <1>12 DEF OthersKeep
    <2>4. \/ wager'[k] = wager[k]
          \/ wager[k] = None /\ wager'[k] # None
        BY <1>3, <1>8, <1>9 DEF k
    <2>5. k \in Keys
        BY <1>3 DEF k
    <2> QED BY <1>1, <1>2, <1>9, <2>1, <2>2, <2>3, <2>4, <2>5, OthersSurvive
<1>15. DistinctReservations' /\ DistinctCreations'
    BY <1>1, <1>11, <1>12, PairsStayDistinct DEF Distinct, Reserving
<1>16. RowsAreKeyed'
    BY <1>8, <1>9 DEF IInv, RowsAreKeyed
<1>17. UnopenedIsEmpty'
    <2> SUFFICES ASSUME NEW v \in Wallets, wallet'[v] = None
                 PROVE  ledger'[v] = <<>> /\ wager'[OpeningOf[v].key] = None
        BY DEF UnopenedIsEmpty
    <2>1. v # w
        BY <1>4, <1>9 DEF opened
    <2>2. OpeningOf[v].key \in Keys \ {k}
        BY <2>1, CommandFacts DEF k
    <2> QED BY <1>9, <2>1, <2>2 DEF IInv, UnopenedIsEmpty
<1>18. LedgerChains'
    <2> SUFFICES ASSUME NEW v \in Wallets
                 PROVE  /\ \A i \in 1 .. Len(ledger'[v]) :
                              /\ ledger'[v][i].after = ledger'[v][i].before + Signed(ledger'[v][i])
                              /\ ledger'[v][i].before = IF i = 1 THEN 0 ELSE ledger'[v][i - 1].after
                        /\ wallet'[v] # None =>
                              wallet'[v].balance = IF ledger'[v] = <<>> THEN 0
                                                   ELSE ledger'[v][Len(ledger'[v])].after
        BY DEF LedgerChains, Signed
    <2>1. CASE v # w
        BY <1>9, <2>1 DEF IInv, LedgerChains
    <2>2. CASE v = w /\ ledger'[w] = <<>> /\ opened.balance = 0
        BY <1>9, <2>2
    <2>3. CASE v = w /\ ledger'[w] = <<e>>
        <3>1. Len(ledger'[w]) = 1 /\ ledger'[w][1] = e /\ ledger'[w] # <<>>
            BY <2>3
        <3>2. \A i \in 1 .. Len(ledger'[w]) : i = 1
            BY <3>1
        <3> QED BY <1>8, <1>9, <2>3, <3>1, <3>2
    <2> QED BY <1>9, <2>1, <2>2, <2>3
<1> QED BY <1>10, <1>13, <1>14, <1>15, <1>16, <1>17, <1>18 DEF IInv


(* Appending an entry that starts at the balance keeps a chain a chain. *)
LEMMA AppendChains ==
    ASSUME NEW s \in Seq(LedgerEntry), NEW e \in LedgerEntry,
           \A i \in 1 .. Len(s) : /\ s[i].after = s[i].before + Signed(s[i])
                                  /\ s[i].before = IF i = 1 THEN 0 ELSE s[i - 1].after,
           e.after = e.before + Signed(e),
           e.before = IF s = <<>> THEN 0 ELSE s[Len(s)].after
    PROVE  LET t == Append(s, e)
           IN  /\ t \in Seq(LedgerEntry) /\ t # <<>> /\ t[Len(t)] = e
               /\ \A i \in 1 .. Len(t) : /\ t[i].after = t[i].before + Signed(t[i])
                                         /\ t[i].before = IF i = 1 THEN 0 ELSE t[i - 1].after
<1> DEFINE t == Append(s, e)
<1>1. /\ t \in Seq(LedgerEntry) /\ Len(t) = Len(s) + 1 /\ t # <<>>
      /\ t[Len(t)] = e /\ \A i \in 1 .. Len(s) : t[i] = s[i]
    <2>1. t \in Seq(LedgerEntry) /\ Len(t) = Len(s) + 1
        OBVIOUS
    <2>2. t[Len(s) + 1] = e
        OBVIOUS
    <2>3. \A i \in 1 .. Len(s) : t[i] = s[i]
        OBVIOUS
    <2>4. t # <<>>
        <3>1. \A u \in Seq(LedgerEntry) : u = <<>> => Len(u) = 0
            OBVIOUS
        <3>2. Len(s) \in Nat
            OBVIOUS
        <3> HIDE DEF t
        <3> QED BY <2>1, <3>1, <3>2
    <2> QED BY <2>1, <2>2, <2>3, <2>4
<1>2. Len(s) \in Nat /\ (s = <<>> <=> Len(s) = 0)
    OBVIOUS
<1> HIDE DEF t
<1>3. ASSUME NEW i \in 1 .. Len(t)
      PROVE  /\ t[i].after = t[i].before + Signed(t[i])
             /\ t[i].before = IF i = 1 THEN 0 ELSE t[i - 1].after
    <2>1. CASE i = Len(t) /\ Len(s) = 0
        BY <1>1, <1>2, <2>1
    <2>2. CASE i = Len(t) /\ Len(s) # 0
        <3>1. i # 1 /\ t[i - 1] = s[Len(s)] /\ t[i] = e
            BY <1>1, <1>2, <2>2
        <3> QED BY <1>2, <2>2, <3>1
    <2>3. CASE i # Len(t)
        <3>1. i \in 1 .. Len(s) /\ t[i] = s[i] /\ (i # 1 => t[i - 1] = s[i - 1])
            BY <1>1, <1>2, <2>3
        <3> QED BY <3>1
    <2> QED BY <2>1, <2>2, <2>3
<1> QED BY <1>1, <1>3 DEF t

(* What a transaction is about to publish. *)
LEMMA PlanFacts ==
    ASSUME IInv, NEW p \in Procs, pc[p] = "commit"
    PROVE  LET o == plan[p]
               k == work[p].cmd.key
               w == work[p].cmd.wallet
           IN  /\ o \in Plan /\ o.row \in Row /\ o.row # None /\ o.row.cmd = work[p].cmd
               /\ work[p].cmd \in AllCommands /\ k \in Keys /\ w \in Wallets
               /\ p \in Handlers => wager[k] = None
               /\ p \in Resolvers => /\ wager[k] # None /\ wager[k].cmd = work[p].cmd
                                     /\ rowLock[k] = p /\ work[p].msg = None
               /\ o.entry # None => /\ o.entry \in LedgerEntry /\ HoldsWallet(p)
                                    /\ wallet[w] \in WalletRow /\ wallet[w] # None
                                    /\ snap[p] = wallet[w] /\ walletLock[w] = p
                                    /\ o.entry.before = wallet[w].balance
                                    /\ o.entry.after = o.entry.before + Signed(o.entry)
<1>1. /\ Busy(p) /\ work[p].cmd \in AllCommands
      /\ work[p].cmd.key \in Keys /\ work[p].cmd.wallet \in Wallets
    BY OwnFacts DEF Busy
<1>2. plan[p] \in Plan /\ plan[p].row.cmd = work[p].cmd
    BY DEF IInv, TypeOK, ProcInv, MoneyInv
<1>3. plan[p].row \in Row /\ plan[p].row # None /\ plan[p].entry \in LedgerEntry \cup {None}
    BY <1>2, NoneAssumption DEF Plan
<1>4. p \in Handlers => wager[work[p].cmd.key] = None
    BY DEF IInv, ProcInv, HandlerInv, Reserving
<1>5. p \in Resolvers => /\ wager[work[p].cmd.key] # None
                         /\ wager[work[p].cmd.key].cmd = work[p].cmd
                         /\ rowLock[work[p].cmd.key] = p /\ work[p].msg = None
    BY DEF IInv, ProcInv, ResolverInv, HoldingRow, ResolverLabels
<1>6. ASSUME plan[p].entry # None
      PROVE  /\ HoldsWallet(p) /\ plan[p].entry.before = snap[p].balance
             /\ plan[p].entry.after = plan[p].entry.before + Signed(plan[p].entry)
    BY <1>6 DEF IInv, ProcInv, MoneyInv
<1>7. HoldsWallet(p) => /\ snap[p] = wallet[work[p].cmd.wallet] /\ snap[p] # None
                        /\ walletLock[work[p].cmd.wallet] = p
                        /\ wallet[work[p].cmd.wallet] \in WalletRow
    BY <1>1 DEF HoldsWallet, IInv, TypeOK
<1> QED BY <1>1, <1>2, <1>3, <1>4, <1>5, <1>6, <1>7

LEMMA CommitStep == ASSUME IInv, NEW p \in Procs, Commit(p) PROVE IInv'
<1> DEFINE o == plan[p]
           c == work[p].cmd
           k == c.key
           w == c.wallet
           v == IF o.entry = None THEN 0 ELSE snap[p].version + 1
           moved == [snap[p] EXCEPT !.balance = o.entry.after, !.version = v]
<1>1. pc[p] = "commit" /\ Busy(p) /\ pc[p] \in Reserving
    BY DEF Commit, Busy, Reserving
<1>2. /\ o \in Plan /\ o.row \in Row /\ o.row # None /\ o.row.cmd = c
      /\ c \in AllCommands /\ k \in Keys /\ w \in Wallets
      /\ p \in Handlers => wager[k] = None
      /\ p \in Resolvers => /\ wager[k] # None /\ wager[k].cmd = c
                            /\ rowLock[k] = p /\ work[p].msg = None
      /\ o.entry # None => /\ o.entry \in LedgerEntry /\ HoldsWallet(p)
                           /\ wallet[w] \in WalletRow /\ wallet[w] # None
                           /\ snap[p] = wallet[w] /\ walletLock[w] = p
                           /\ o.entry.before = wallet[w].balance
                           /\ o.entry.after = o.entry.before + Signed(o.entry)
    BY <1>1, PlanFacts
<1>3. /\ wager' = [wager EXCEPT ![k] = o.row]
      /\ outbox' = outbox \cup Events(o, v)
      /\ IF o.entry = None THEN UNCHANGED <<ledger, wallet>>
         ELSE /\ ledger' = [ledger EXCEPT ![w] = Append(ledger[w], o.entry)]
              /\ wallet' = [wallet EXCEPT ![w] = moved]
      /\ MarkInboxProcessed(p) /\ ReleaseLocks(p) /\ Forget(p) /\ UNCHANGED lapsed
      /\ \/ /\ p \in Handlers /\ pc' = [pc EXCEPT ![p] = "reply"]
            /\ answer' = [answer EXCEPT ![p] = ResultOf(o.row)] /\ UNCHANGED work
         \/ /\ p \notin Handlers /\ pc' = [pc EXCEPT ![p] = "idle"]
            /\ work' = [work EXCEPT ![p] = NoWork] /\ UNCHANGED answer
    BY <1>2 DEF Commit, Finish, Goto
<1>4. o.entry # None => /\ v \in Nat /\ moved \in WalletRow /\ moved # None
                        /\ moved.balance = o.entry.after
    <2> DEFINE M(r, b, n) == [r EXCEPT !.balance = b, !.version = n]
    <2>1. ASSUME NEW r \in WalletRow, NEW b \in Amount, NEW n \in Nat
          PROVE  M(r, b, n) \in WalletRow /\ M(r, b, n).balance = b
        BY DEF WalletRow
    <2>2. o.entry # None => snap[p] \in WalletRow /\ snap[p].version + 1 \in Nat
        BY <1>2 DEF WalletRow
    <2>3. o.entry # None => o.entry.after \in Amount
        BY <1>2 DEF LedgerEntry
    <2>4. moved = M(snap[p], o.entry.after, v)
        OBVIOUS
    <2> HIDE DEF M, moved
    <2> QED BY <2>1, <2>2, <2>3, <2>4, NoneAssumption
<1>5. Events(o, v) \subseteq Event
    <2>1. v \in Nat
        BY <1>4
    <2> QED BY <1>2, <2>1, EventsAreTyped
<1> DEFINE row == o.row
           e == o.entry
<1>6. /\ row \in Row /\ row # None /\ row.cmd.key = k /\ row.cmd = c
      /\ wager'[k] = row /\ \A j \in Keys \ {k} : wager'[j] = wager[j]
    BY <1>2, <1>3 DEF IInv, TypeOK
<1>7. /\ \A x \in Wallets \ {w} : wallet'[x] = wallet[x] /\ ledger'[x] = ledger[x]
      /\ \/ e = None /\ UNCHANGED <<wallet, ledger>>
         \/ /\ e \in LedgerEntry /\ wallet[w] # None /\ walletLock[w] = p
            /\ e.before = wallet[w].balance /\ e.after = e.before + Signed(e)
            /\ wallet'[w] = moved /\ moved # None /\ moved.balance = e.after
            /\ ledger'[w] = Append(ledger[w], e)
    <2>1. CASE e = None
        BY <1>3, <2>1
    <2>2. CASE e # None
        <3> HIDE DEF moved, v
        <3> QED BY <1>2, <1>3, <1>4, <2>2 DEF IInv, TypeOK
    <2> QED BY <2>1, <2>2
<1>8. TypeOK'
    <2>1. NoWork \in [cmd : AllCommands \cup {None}, msg : MessageIds \cup {None}]
        BY DEF NoWork
    <2>2. wager' \in [Keys -> Row \cup {None}] /\ outbox' \subseteq Event
        BY <1>2, <1>3, <1>5 DEF IInv, TypeOK
    <2>3. /\ wallet' \in [Wallets -> WalletRow \cup {None}]
          /\ ledger' \in [Wallets -> Seq(LedgerEntry)]
        <3>1. CASE e = None
            BY <1>3, <3>1 DEF IInv, TypeOK
        <3>2. CASE e # None
            <4> HIDE DEF moved, v
            <4>1. wallet' \in [Wallets -> WalletRow \cup {None}]
                BY <1>2, <1>3, <1>4, <3>2 DEF IInv, TypeOK
            <4>2. ledger[w] \in Seq(LedgerEntry)
                BY <1>2 DEF IInv, TypeOK
            <4>3. Append(ledger[w], o.entry) \in Seq(LedgerEntry)
                BY <1>2, <3>2, <4>2
            <4>4. ledger' = [ledger EXCEPT ![w] = Append(ledger[w], o.entry)]
                BY <1>3, <3>2
            <4> QED BY <4>1, <4>3, <4>4 DEF IInv, TypeOK
        <3> QED BY <3>1, <3>2
    <2>4. inbox' \in [MessageIds -> [cmd : Commands, processed : BOOLEAN] \cup {None}]
        <3>1. CASE p \in Handlers
            BY <1>1, <1>3, <3>1, InboxFacts
        <3>2. CASE p \in Resolvers
            BY <1>2, <1>3, <3>2 DEF MarkInboxProcessed, IInv, TypeOK
        <3> QED BY <3>1, <3>2 DEF Procs
    <2>5. answer' \in [Procs -> Result \cup {None}]
        <3>1. ResultOf(o.row) \in Result
            BY <1>2, RowFacts
        <3> QED BY <1>3, <3>1 DEF IInv, TypeOK
    <2>6. /\ pc' \in [Procs -> Labels]
          /\ work' \in [Procs -> [cmd : AllCommands \cup {None}, msg : MessageIds \cup {None}]]
        <3>1. "reply" \in Labels /\ "idle" \in Labels
            BY DEF Labels
        <3>2. /\ pc' = [pc EXCEPT ![p] = "reply"] \/ pc' = [pc EXCEPT ![p] = "idle"]
              /\ work' = work \/ work' = [work EXCEPT ![p] = NoWork]
            BY <1>3
        <3> QED BY <2>1, <3>1, <3>2 DEF IInv, TypeOK
    <2>7. /\ snap' \in [Procs -> WalletRow \cup {None}] /\ found' \in [Procs -> Row \cup {None}]
          /\ plan' \in [Procs -> Plan \cup {None}] /\ lapsed' \subseteq Keys
        BY <1>3 DEF Forget, IInv, TypeOK
    <2> QED BY <1>3, <2>2, <2>3, <2>4, <2>5, <2>6, <2>7, ReleaseFacts DEF TypeOK
<1>9. OthersKeep(p)
    <2> SUFFICES ASSUME NEW q \in Procs \ {p} PROVE KeepsWhatItHas(q)
        BY DEF OthersKeep
    <2>1. pc'[q] = pc[q] /\ work'[q] = work[q]
        BY <1>3 DEF IInv, TypeOK
    <2>2. snap'[q] = snap[q] /\ found'[q] = found[q] /\ plan'[q] = plan[q]
        BY <1>3 DEF Forget, IInv, TypeOK
    <2> QED BY <1>3, <2>1, <2>2, ReleaseFacts DEF KeepsWhatItHas
<1>10. pc'[p] \in {"reply", "idle"} /\ (p \in Resolvers => pc'[p] = "idle" /\ work'[p] = NoWork)
    BY <1>3, ProcsAssumption DEF IInv, TypeOK
<1> HIDE DEF row, e, moved, v, o
<1>11. ProcInv(p)'
    BY <1>10 DEF ProcInv, HandlerInv, ResolverInv, MoneyInv, HandlerLabels, ResolverLabels,
                 Reserving, HoldingRow, NoWork
<1>12. ASSUME NEW q \in Procs \ {p} PROVE ProcInv(q)'
    <2>1. KeepsWhatItHas(q)
        BY <1>9 DEF OthersKeep
    <2>2. \/ /\ wager[k] = None /\ wager'[k] # None
             /\ (q \in Handlers /\ pc[q] \in Reserving) => work[q].cmd.key # k
          \/ /\ wager[k] # None /\ wager'[k] # None
             /\ wager'[k].cmd = wager[k].cmd /\ rowLock[k] = p
        <3>1. CASE p \in Handlers
            <4>1. (q \in Handlers /\ pc[q] \in Reserving) => work[q].cmd.key # k
                BY <1>1, <3>1 DEF IInv, DistinctReservations
            <4> QED BY <1>2, <1>6, <3>1, <4>1
        <3>2. CASE p \in Resolvers
            BY <1>2, <1>6, <3>2
        <3> QED BY <3>1, <3>2 DEF Procs
    <2>3. \/ wallet'[w] = wallet[w]
          \/ wallet[w] # None /\ walletLock[w] = p
        BY <1>7
    <2> QED BY <1>2, <1>6, <1>7, <2>1, <2>2, <2>3, OthersSurvive
<1>13. DistinctReservations' /\ DistinctCreations'
    BY <1>9, <1>10, PairsStayDistinct DEF Distinct, Reserving
<1>14. RowsAreKeyed'
    BY <1>6 DEF IInv, RowsAreKeyed
<1>15. UnopenedIsEmpty'
    <2> SUFFICES ASSUME NEW x \in Wallets, wallet'[x] = None
                 PROVE  ledger'[x] = <<>> /\ wager'[OpeningOf[x].key] = None
        BY DEF UnopenedIsEmpty
    <2>1. wallet[x] = None /\ ledger'[x] = ledger[x]
        BY <1>2, <1>7
    <2>2. ledger[x] = <<>> /\ wager[OpeningOf[x].key] = None /\ OpeningOf[x].key \in Keys
        BY <2>1, CommandFacts DEF IInv, UnopenedIsEmpty
    <2>3. OpeningOf[x].key # k
        <3>1. CASE p \in Handlers
            <4>1. c \in Commands
                BY <1>1, <3>1 DEF IInv, ProcInv, HandlerInv
            <4> QED BY <4>1, CommandFacts
        <3>2. CASE p \in Resolvers
            BY <1>2, <2>2, <3>2
        <3> QED BY <3>1, <3>2 DEF Procs
    <2> QED BY <1>6, <2>1, <2>2, <2>3
<1>16. LedgerChains'
    <2> SUFFICES ASSUME NEW x \in Wallets
                 PROVE  /\ \A i \in 1 .. Len(ledger'[x]) :
                              /\ ledger'[x][i].after = ledger'[x][i].before + Signed(ledger'[x][i])
                              /\ ledger'[x][i].before = IF i = 1 THEN 0 ELSE ledger'[x][i - 1].after
                        /\ wallet'[x] # None =>
                              wallet'[x].balance = IF ledger'[x] = <<>> THEN 0
                                                   ELSE ledger'[x][Len(ledger'[x])].after
        BY DEF LedgerChains, Signed
    <2>1. CASE x # w \/ e = None
        BY <1>7, <2>1, NoneAssumption DEF IInv, LedgerChains
    <2>2. CASE x = w /\ e # None
        <3>1. /\ e \in LedgerEntry /\ e.after = e.before + Signed(e)
              /\ e.before = wallet[w].balance /\ wallet[w] # None
              /\ ledger'[w] = Append(ledger[w], e)
              /\ wallet'[w] = moved /\ moved.balance = e.after
            BY <1>7, <2>2
        <3>2. ledger[w] \in Seq(LedgerEntry)
            BY <1>2 DEF IInv, TypeOK
        <3>3. /\ \A i \in 1 .. Len(ledger[w]) :
                    /\ ledger[w][i].after = ledger[w][i].before + Signed(ledger[w][i])
                    /\ ledger[w][i].before = IF i = 1 THEN 0 ELSE ledger[w][i - 1].after
              /\ e.before = IF ledger[w] = <<>> THEN 0 ELSE ledger[w][Len(ledger[w])].after
            BY <1>2, <3>1 DEF IInv, LedgerChains
        <3> DEFINE t == Append(ledger[w], e)
        <3>4. /\ t # <<>> /\ t[Len(t)] = e
              /\ \A i \in 1 .. Len(t) : /\ t[i].after = t[i].before + Signed(t[i])
                                        /\ t[i].before = IF i = 1 THEN 0 ELSE t[i - 1].after
            BY <3>1, <3>2, <3>3, AppendChains
        <3> HIDE DEF t
        <3> QED BY <2>2, <3>1, <3>4 DEF t
    <2> QED BY <2>1, <2>2
<1> QED BY <1>8, <1>11, <1>12, <1>13, <1>14, <1>15, <1>16 DEF IInv

-----------------------------------------------------------------------------
LEMMA NextIInv == IInv /\ [Next]_vars => IInv'
<1> SUFFICES ASSUME IInv, [Next]_vars PROVE IInv'
    OBVIOUS
<1>1. ASSUME NEW p \in Handlers, HandlerStep(p) PROVE IInv'
    BY <1>1, InboxStep, ReserveWagerStep, LoserStep, MissWalletStep, LockWalletStep,
       ReadReferenceStep, CommitCreationStep, ReplyStep DEF HandlerStep
<1>2. ASSUME NEW p \in Resolvers, ResolverStep(p) PROVE IInv'
    BY <1>2, RescheduleStep, PeekStep, RereadStep, LockFailedRowStep, RecordFailureStep
       DEF ResolverStep
<1>3. ASSUME NEW p \in Handlers,
             \/ \E c \in Commands : BeginHttp(p, c)
             \/ \E d \in Deliveries : BeginDelivery(p, d)
             \/ \E w \in Wallets : InsertWallet(p, w)
      PROVE  IInv'
    BY <1>3, BeginStep, InsertWalletStep
<1>4. ASSUME NEW p \in Resolvers, (\E k \in Keys : LockDue(p, k)) \/ Defect(p) PROVE IInv'
    BY <1>4, LockDueStep, DefectStep
<1>5. ASSUME NEW p \in Procs, ReadSlot(p) \/ Commit(p) \/ Abort(p) PROVE IInv'
    BY <1>5, ReadSlotStep, CommitStep, AbortStep
<1>6. CASE UNCHANGED vars
    BY <1>6 DEF vars, IInv, TypeOK, ProcInv, HandlerInv, ResolverInv, MoneyInv, HoldsWallet,
                DistinctReservations, DistinctCreations, RowsAreKeyed, UnopenedIsEmpty,
                LedgerChains
<1> QED BY <1>1, <1>2, <1>3, <1>4, <1>5, <1>6, LapseStep DEF Next

(* Every reachable state satisfies the inductive invariant. *)
THEOREM Invariance == Spec => []IInv
BY InitIInv, NextIInv, PTL DEF Spec

(* Every table and transaction has its type: no interleaving of commits,   *)
(* crashes and retries takes a balance below 0 or above what the column    *)
(* holds, or an attempt counter over its limit.                            *)
THEOREM TypeCorrectness == Spec => []TypeOK
<1>1. IInv => TypeOK
    BY DEF IInv
<1> QED BY <1>1, Invariance, PTL

(* No update is lost, whatever transactions run side by side: the ledger of *)
(* a wallet is an unbroken chain of movements that ends in its balance.    *)
THEOREM LedgerIsUnbroken == Spec => []LedgerChains
<1>1. IInv => LedgerChains
    BY DEF IInv
<1> QED BY <1>1, Invariance, PTL

=============================================================================

---------------------------- MODULE LedgerReads -----------------------------
(***************************************************************************)
(* Reading a wallet while it is being written: the pages of its ledger and *)
(* its reconciliation.  A read is one REPEATABLE READ, READ ONLY           *)
(* transaction: its first statement (findById) fixes the snapshot that the *)
(* second one (the page, or the sum of the entries) reads too.  A client   *)
(* walks the ledger by sending back the cursor of the last page it has     *)
(* received; a page may be lost on its way and asked for again.            *)
(*                                                                         *)
(* The writers are what Wagering models: a commit changes the balance and  *)
(* adds the entry at once.  The instant of an entry is read from the clock *)
(* of some instance before the wait for the wallet lock, so it bears no    *)
(* relation to the order of the commits.  It is a Date, a whole number of  *)
(* milliseconds; the column keeps microseconds, which a cursor loses.  An   *)
(* id stands for its rank among the UUIDs.                                 *)
(***************************************************************************)
EXTENDS Integers, Sequences, FiniteSets

CONSTANTS
    Readers,      \* the clients
    Movements,    \* the ids of the entries that may be written
    DirectionOf,  \* entry id -> "CREDIT" or "DEBIT"
    AmountOf,     \* entry id -> its amount
    Forged,       \* the entries written past the application, with no balance
    Instants,     \* what a clock may read, in milliseconds
    Micros,       \* what now() may add to one, in microseconds
    MaxLimit,     \* LEDGER_MAX_LIMIT
    None

ASSUME MovementsAssumption == Movements \subseteq Nat /\ Forged \subseteq Movements
ASSUME DirectionAssumption == DirectionOf \in [Movements -> {"CREDIT", "DEBIT"}]
ASSUME AmountAssumption == AmountOf \in [Movements -> Nat \ {0}]
ASSUME InstantsAssumption == Instants \subseteq Nat /\ Micros \subseteq Nat /\ 0 \in Micros
ASSUME LimitAssumption == MaxLimit \in Nat \ {0}

(* Only what is written past the application has its instant from now(). *)
Entries ==
    {e \in [id : Movements, at : Instants, us : Micros] : e.us = 0 \/ e.id \in Forged}
ASSUME NoneIsNoEntry == None \notin Entries /\ None \notin Int

VARIABLES
    wallet,  \* the balance of the wallet, or None before it is created
    ledger,  \* its entries in the order they were committed
    pc,      \* reader -> "idle", "page", "sum" or "answered"
    snap,    \* reader -> the snapshot of its transaction
    limit,   \* reader -> the limit of the page it asks for
    reply,   \* reader -> the answer on its way
    cursor,  \* reader -> the cursor it holds, None at the start of a walk
    listed,  \* reader -> the entries it has received, in that order
    over,    \* reader -> whether its last page announced no other
    began    \* history: the entries committed when the walk began

vars == <<wallet, ledger, pc, snap, limit, reply, cursor, listed, over, began>>
tables == <<wallet, ledger>>
walk == <<cursor, listed, over>>

Book(entries) == {entries[i] : i \in 1 .. Len(entries)}
Written == {e.id : e \in Book(ledger)}
Signed == [e \in Movements |-> IF DirectionOf[e] = "CREDIT" THEN AmountOf[e] ELSE 0 - AmountOf[e]]

Init ==
    /\ wallet = None
    /\ ledger = <<>>
    /\ pc = [r \in Readers |-> "idle"]
    /\ snap = [r \in Readers |-> None]
    /\ limit = [r \in Readers |-> 1]
    /\ reply = [r \in Readers |-> None]
    /\ cursor = [r \in Readers |-> None]
    /\ listed = [r \in Readers |-> <<>>]
    /\ over = [r \in Readers |-> FALSE]
    /\ began = [r \in Readers |-> {}]

-----------------------------------------------------------------------------
(* The writers.                                                            *)

(* A wallet is opened empty, or with an opening credit.                    *)
Open ==
    /\ wallet = None
    /\ \/ wallet' = 0 /\ UNCHANGED ledger
       \/ \E e \in Movements \ Forged, t \in Instants :
            /\ DirectionOf[e] = "CREDIT"
            /\ wallet' = AmountOf[e]
            /\ ledger' = <<[id |-> e, at |-> t, us |-> 0]>>
    /\ UNCHANGED <<pc, snap, limit, reply, walk, began>>

Move(e) ==
    /\ wallet # None
    /\ e \notin Forged \cup Written
    /\ wallet + Signed[e] >= 0
    /\ wallet' = wallet + Signed[e]
    /\ \E t \in Instants : ledger' = Append(ledger, [id |-> e, at |-> t, us |-> 0])
    /\ UNCHANGED <<pc, snap, limit, reply, walk, began>>

(* An entry written past the application, as the reconciliation test does. *)
Forge(e) ==
    /\ wallet # None
    /\ e \in Forged \ Written
    /\ \E t \in Instants, u \in Micros :
         ledger' = Append(ledger, [id |-> e, at |-> t, us |-> u])
    /\ UNCHANGED <<wallet, pc, snap, limit, reply, walk, began>>

-----------------------------------------------------------------------------
(* What the two queries compute.                                           *)

(* What parseLimit lets through. *)
Limits == 1 .. MaxLimit

(* Descending by (created_at, id).                                         *)
Precedes(a, b) ==
    \/ a.at > b.at
    \/ a.at = b.at /\ (a.us > b.us \/ (a.us = b.us /\ a.id > b.id))

(* Mutant: the cursor is an instant alone. *)
BehindInstant(mark, e) == IF mark = None THEN TRUE ELSE mark.at > e.at
Behind(mark, e) == IF mark = None THEN TRUE ELSE Precedes(mark, e)

(* ORDER BY and LIMIT: the i-th row is the one that i - 1 others precede.    *)
InOrder(rows, n) ==
    [i \in 1 .. (IF Cardinality(rows) < n THEN Cardinality(rows) ELSE n) |->
        CHOOSE e \in rows : Cardinality({f \in rows : Precedes(f, e)}) = i - 1]
FirstRows(r, n) == InOrder({e \in Book(snap[r].ledger) : Behind(cursor[r], e)}, n)

(* Mutant: OFFSET, the number of entries already received. *)
PageByOffset(r) ==
    LET skip == Len(listed[r])
        rows == InOrder(Book(snap[r].ledger), skip + limit[r] + 1)
        last == IF Len(rows) < skip + limit[r] THEN Len(rows) ELSE skip + limit[r]
    IN  [entries |-> SubSeq(rows, skip + 1, last), hasMore |-> Len(rows) > last]
(* Mutant: the row read ahead is handed out. *)
PageWithLookAhead(r) ==
    LET rows == FirstRows(r, limit[r] + 1)
    IN  [entries |-> rows, hasMore |-> Len(rows) > limit[r]]
Page(r) ==
    LET rows == FirstRows(r, limit[r] + 1)
        shown == IF Len(rows) > limit[r] THEN limit[r] ELSE Len(rows)
    IN  [entries |-> SubSeq(rows, 1, shown), hasMore |-> Len(rows) > limit[r]]

(* toISOString() writes milliseconds. *)
Mark(e) == [e EXCEPT !.us = 0]
(* The cursor is the (created_at, id) of the last entry of the page.       *)
NextCursor(page) ==
    IF page.hasMore /\ page.entries # <<>> THEN Mark(page.entries[Len(page.entries)]) ELSE None

Total(entries, worth) ==
    LET upTo[i \in 0 .. Len(entries)] ==
            IF i = 0 THEN 0 ELSE upTo[i - 1] + worth[entries[i].id]
    IN  upTo[Len(entries)]

(* Mutant: READ COMMITTED, the sum sees what is committed by now. *)
ReconstructNow(r) == [balance |-> Total(ledger, Signed), entries |-> Len(ledger)]
Reconstruct(r) == [balance |-> Total(snap[r].ledger, Signed), entries |-> Len(snap[r].ledger)]

-----------------------------------------------------------------------------
(* A request.                                                              *)

(* findById: the first statement of either transaction.                    *)
FindWallet(r, next) ==
    /\ pc[r] = "idle"
    /\ wallet # None
    /\ snap' = [snap EXCEPT ![r] = [wallet |-> wallet, ledger |-> ledger]]
    /\ pc' = [pc EXCEPT ![r] = next]
    /\ UNCHANGED <<tables, reply, walk>>

AskForPage(r) ==
    /\ ~ over[r]
    /\ FindWallet(r, "page")
    /\ \E n \in Limits : limit' = [limit EXCEPT ![r] = n]
    /\ began' = IF cursor[r] = None THEN [began EXCEPT ![r] = Written] ELSE began

AskForReconciliation(r) ==
    /\ FindWallet(r, "sum")
    /\ UNCHANGED <<limit, began>>

FindNoWallet(r) ==
    /\ pc[r] = "idle"
    /\ wallet = None
    /\ reply' = [reply EXCEPT ![r] = [kind |-> "RESOURCE_NOT_FOUND"]]
    /\ pc' = [pc EXCEPT ![r] = "answered"]
    /\ UNCHANGED <<tables, snap, limit, walk, began>>

ReadPage(r) ==
    /\ pc[r] = "page"
    /\ LET page == Page(r)
       IN  reply' = [reply EXCEPT ![r] = [kind |-> "page", items |-> page.entries,
                                          nextCursor |-> NextCursor(page)]]
    /\ pc' = [pc EXCEPT ![r] = "answered"]
    /\ UNCHANGED <<tables, snap, limit, walk, began>>

Reconcile(r) ==
    /\ pc[r] = "sum"
    /\ LET sum == Reconstruct(r)
           difference == snap[r].wallet - sum.balance
       IN  reply' = [reply EXCEPT ![r] =
                        [kind |-> "report", difference |-> difference,
                         consistent |-> difference = 0, checkedEntries |-> sum.entries]]
    /\ pc' = [pc EXCEPT ![r] = "answered"]
    /\ UNCHANGED <<tables, snap, limit, walk, began>>

Finish(r) ==
    /\ reply' = [reply EXCEPT ![r] = None]
    /\ snap' = [snap EXCEPT ![r] = None]
    /\ pc' = [pc EXCEPT ![r] = "idle"]
    /\ UNCHANGED <<tables, limit, began>>

(* The client keeps the page and its cursor; a walk ends without a cursor. *)
ReceivePage(r) ==
    /\ pc[r] = "answered"
    /\ reply[r].kind = "page"
    /\ listed' = [listed EXCEPT ![r] = @ \o reply[r].items]
    /\ cursor' = [cursor EXCEPT ![r] = reply[r].nextCursor]
    /\ over' = [over EXCEPT ![r] = reply[r].nextCursor = None]
    /\ Finish(r)

(* The other answers leave the walk as it is, and so does an answer that is *)
(* lost: the client will ask again with the cursor it holds.               *)
Drop(r) ==
    /\ pc[r] # "idle"
    /\ Finish(r)
    /\ UNCHANGED walk

Next ==
    \/ Open
    \/ \E e \in Movements : Move(e) \/ Forge(e)
    \/ \E r \in Readers : \/ AskForPage(r) \/ ReadPage(r) \/ ReceivePage(r)
                          \/ AskForReconciliation(r) \/ Reconcile(r)
                          \/ FindNoWallet(r) \/ Drop(r)

Spec == Init /\ [][Next]_vars

-----------------------------------------------------------------------------
(* No page is longer than its limit, and no cursor outlives its walk.      *)
TypeOK ==
    /\ wallet \in Nat \cup {None}
    /\ ledger \in Seq(Entries)
    /\ pc \in [Readers -> {"idle", "page", "sum", "answered"}]
    /\ limit \in [Readers -> Limits]
    /\ cursor \in [Readers -> Entries \cup {None}]
    /\ listed \in [Readers -> Seq(Entries)]
    /\ began \in [Readers -> SUBSET Movements]
    /\ \A r \in Readers :
         /\ over[r] => cursor[r] = None
         /\ pc[r] = "answered" /\ reply[r].kind = "page" => Len(reply[r].items) <= limit[r]

(* README.md: the keyset neither skips nor repeats an entry while others    *)
(* are inserted.  Nothing is received twice, across pages, lost answers     *)
(* and entries that land on either side of the cursor.                     *)
NothingIsListedTwice ==
    \A r \in Readers : \A i, j \in 1 .. Len(listed[r]) :
        i < j => Precedes(listed[r][i], listed[r][j])

(* f ends a page and its cursor loses the microseconds that put it before e. *)
Hides(f, e) == f.us > 0 /\ f.at = e.at /\ Precedes(f, e)

(* ... and nothing that was committed when the walk began is skipped, with  *)
(* one exception: an entry written past the application with microseconds   *)
(* in its instant may hide later ones of the same millisecond.  So of a     *)
(* ledger that only the application wrote nothing is skipped, and what a    *)
(* walk may miss are entries committed while it was under way.             *)
WalksAreComplete ==
    \A r \in Readers : over[r] =>
        \A e \in {f \in Book(ledger) : f.id \in began[r]} :
            \E i \in 1 .. Len(listed[r]) : listed[r][i] = e \/ Hides(listed[r][i], e)

ForgedWorth == [e \in Movements |-> IF e \in Forged THEN Signed[e] ELSE 0]

(* A report speaks of one instant: its difference is what was forged by     *)
(* then, to the cent and with its sign, although money moves between its   *)
(* two reads; so it never accuses a wallet that is intact.                 *)
ReportsAreExact ==
    \A r \in Readers :
        (pc[r] = "answered" /\ reply[r].kind = "report") =>
            LET forged == Total(snap[r].ledger, ForgedWorth)
            IN  /\ reply[r].difference = 0 - forged
                /\ reply[r].consistent <=> forged = 0
                /\ reply[r].checkedEntries = Len(snap[r].ledger)
=============================================================================

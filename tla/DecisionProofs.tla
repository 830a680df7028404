--------------------------- MODULE DecisionProofs ---------------------------
(***************************************************************************)
(* Why a decision is still right when it commits.  Under READ COMMITTED a  *)
(* transaction decides on rows it read earlier, most of them without a     *)
(* lock.  The invariant DInv says what makes that sound: every plan is the *)
(* outcome of the rules on what the tables hold now, because what was read *)
(* is settled for good, or locked, or can only be changed by a transaction *)
(* that needs the lock of the same wallet.  CInv adds that what is pending  *)
(* is in the currency of its wallet.  What follows from them ends the       *)
(* module: the schema is never asked to refuse a row, recorded history     *)
(* does not change, and nothing is given up while its reference is there.  *)
(***************************************************************************)
EXTENDS WageringProofs

-----------------------------------------------------------------------------
(* The invariant of the decisions: what a transaction has read and decided  *)
(* still holds of the tables when it commits.                              *)

(* A committed row that nothing changes any more. *)
Settled(x) == x \in Row /\ wager[x.cmd.key] = x /\ IsTerminal(x)

(* What is committed was decided, by rules its columns still show. *)
RowInv(k) ==
    wager[k] # None =>
        LET r == wager[k]
        IN  /\ r.status # "PENDING"
            /\ ChecksPass(r)
            /\ r.ref # None => /\ r.status = "PROCESSED" /\ wager[r.ref] # None
                               /\ wager[r.ref].status = "PROCESSED"
            /\ (r.status = "PROCESSED" /\ RequiresReference(r)) =>
                  ReversalFailure(r, wager[r.ref]) = NoCode

(* A fact is recorded once, under one key and one external id. *)
ExtsAreUnique ==
    \A j, k \in Keys : (wager[j] # None /\ wager[k] # None /\ wager[j].cmd.ext = wager[k].cmd.ext)
                           => j = k
ReservedExtIsFree(p) ==
    pc[p] \in Reserving => \A k \in Keys : wager[k] # None => wager[k].cmd.ext # work[p].cmd.ext
DistinctExts ==
    \A p, q \in Handlers :
        (p # q /\ pc[p] \in Reserving /\ pc[q] \in Reserving) =>
            work[p].cmd.ext # work[q].cmd.ext

(* A row that p cannot rely on having seen: its own lock does not order it. *)
Unordered(p, x) == x.cmd.wallet # work[p].cmd.wallet \/ work[p].cmd.wallet \notin Existing

IsReference(p, x) == x.cmd.ext = work[p].cmd.ref
(* No row, or no settled one, that p should have seen is its reference. *)
NoneSeen(p, k) ==
    (wager[k] # None /\ IsReference(p, wager[k])) =>
        /\ Unordered(p, wager[k])
        /\ wager[k].status = "PROCESSED" => wager[k].cmd.wallet # work[p].cmd.wallet
Missing(p) == \A k \in Keys : NoneSeen(p, k)
Unsettled(p) == \A k \in Keys : (wager[k] # None /\ IsTerminal(wager[k])) => NoneSeen(p, k)
SomeUnsettled(p) ==
    /\ Unsettled(p)
    /\ \E k \in Keys : /\ wager[k] # None /\ IsReference(p, wager[k])
                       /\ IsTerminal(wager[k]) => Unordered(p, wager[k])

(* The row a decision was taken against. *)
Against(p, x) == IsReference(p, x) /\ (Settled(x) \/ (p \in Handlers /\ x = Own(p)))

Accepted(p) == p \in Handlers /\ WalletFailure(Own(p), snap[p]) = NoCode

DecidedMissing(p) ==
    /\ p \in Handlers /\ work[p].cmd.wallet \notin Existing
    /\ plan[p] = Reject(Own(p), "WALLET_NOT_FOUND", NoBalance)
DecidedByWallet(p) ==
    LET failure == WalletFailure(Own(p), snap[p])
    IN  /\ p \in Handlers /\ HoldsWallet(p) /\ failure # NoCode
        /\ plan[p] = Reject(Own(p), failure, DisclosedBalance(failure, snap[p]))
DecidedIdle(p) ==
    /\ HoldsWallet(p) /\ Accepted(p) /\ work[p].cmd.kind = "LOSS"
    /\ plan[p] = ProcessIdle(Own(p), snap[p])
DecidedPlain(p) ==
    /\ HoldsWallet(p) /\ Accepted(p) /\ work[p].cmd.kind \in {"BET", "WIN"}
    /\ \/ /\ plan[p] = ApplyPlain(Own(p), None, snap[p])
          /\ work[p].cmd.ref = None \/ (Unsettled(p) /\ work[p].cmd.ext # work[p].cmd.ref)
       \/ \E x \in Row : /\ work[p].cmd.ref # None /\ Against(p, x)
                         /\ plan[p] = ApplyPlain(Own(p), x, snap[p])
DecidedDefer(p) ==
    /\ HoldsWallet(p) /\ Accepted(p) /\ RequiresReference(Own(p)) /\ Unsettled(p)
    /\ work[p].cmd.ext # work[p].cmd.ref
    /\ plan[p] = Defer(Own(p), snap[p])
DecidedReversal(p) ==
    /\ HoldsWallet(p) /\ RequiresReference(Own(p))
    /\ p \in Handlers => Accepted(p)
    /\ \E x \in Row :
          /\ Against(p, x)
          /\ plan[p] = ApplyReversal(Own(p), x, HasActiveReversal(Rows, x.cmd.key), snap[p])
DecidedGiveUp(p) ==
    /\ p \in Resolvers /\ HoldsWallet(p) /\ IsExhausted(work[p].cmd.key)
    /\ \/ Missing(p) /\ plan[p] = Reject(Own(p), "REFERENCE_NOT_FOUND", snap[p].balance)
       \/ SomeUnsettled(p) /\ plan[p] = Reject(Own(p), "REFERENCE_NOT_PROCESSED", snap[p].balance)
DecidedFailure(p) ==
    /\ p \in Resolvers /\ HoldsWallet(p) /\ plan[p] = Fail(Own(p), snap[p])

Decided(p) ==
    \/ DecidedMissing(p) \/ DecidedByWallet(p) \/ DecidedIdle(p) \/ DecidedPlain(p)
    \/ DecidedDefer(p) \/ DecidedReversal(p) \/ DecidedGiveUp(p) \/ DecidedFailure(p)

DecisionInv(p) ==
    /\ (p \in Resolvers /\ pc[p] \in {"peek", "peekLast", "settleLock", "reread", "slot", "commit"}) =>
          wager[work[p].cmd.key].status = "PENDING_REFERENCE"
    /\ (p \in Resolvers /\ pc[p] \in {"peekLast", "settleLock", "reread"}) =>
          \/ IsExhausted(work[p].cmd.key)
          \/ \E k \in Keys : wager[k] # None /\ IsReference(p, wager[k]) /\ IsTerminal(wager[k])
    /\ pc[p] = "reference" =>
          Accepted(p) /\ work[p].cmd.kind # "LOSS" /\ work[p].cmd.ref # None
    /\ pc[p] = "slot" => /\ RequiresReference(Own(p))
                         /\ p \in Handlers => Accepted(p)
                         /\ Settled(found[p]) /\ IsReference(p, found[p])
                         /\ ReversalFailure(Own(p), found[p]) = NoCode
    /\ pc[p] = "commit" => Decided(p)

DInv ==
    /\ \A k \in Keys : RowInv(k)
    /\ ExtsAreUnique /\ DistinctExts
    /\ \A p \in Handlers : ReservedExtIsFree(p)
    /\ \A w \in Existing : wallet[w] # None
    /\ \A p \in Procs : DecisionInv(p)

-----------------------------------------------------------------------------
(* What a decision about an undecided wager writes: a row the columns allow, *)
(* and an entry exactly when the row says that money moved.                *)

Undecided(r) == r \in Row /\ r.code = NoCode /\ r.ref = None

Sound(o) ==
    /\ o.row.status # "PENDING"
    /\ ChecksPass(o.row)
    /\ o.entry # None <=> MovesMoney(o.row)
    /\ o.entry # None => /\ o.entry.tx = o.row.cmd.key
                         /\ o.entry.amount = o.row.cmd.amount
                         /\ o.entry.after = o.row.balance
    /\ o.row.ref # None => o.row.status = "PROCESSED"

RejectCodes == Codes \ {NoCode, "INFRASTRUCTURE_FAILURE"}
Undisclosed == {"WALLET_NOT_FOUND", "WALLET_PLAYER_MISMATCH"}

LEMMA NoBalanceFacts == NoBalance \notin Amount
BY MaxBalanceAssumption DEF NoBalance, Amount

(* A row that is decided without moving money. *)
LEMMA IdleShape ==
    ASSUME NEW r \in Row, Undecided(r), NEW s \in Statuses, NEW c \in Codes,
           NEW b \in Amount \cup {NoBalance}
    PROVE  LET x == [r EXCEPT !.status = s, !.code = c, !.balance = b]
               y == [r EXCEPT !.status = s, !.balance = b]
           IN  /\ x.status = s /\ x.code = c /\ x.balance = b
               /\ x.cmd = r.cmd /\ x.ref = None
               /\ y.status = s /\ y.code = NoCode /\ y.balance = b
               /\ y.cmd = r.cmd /\ y.ref = None
BY DEF Row, Undecided

LEMMA RejectSound ==
    ASSUME NEW r \in Row, Undecided(r), NEW c \in RejectCodes, NEW b \in Amount \cup {NoBalance},
           b = NoBalance <=> c \in Undisclosed
    PROVE  LET o == Reject(r, c, b)
           IN  /\ Sound(o) /\ o.entry = None /\ o.row.cmd = r.cmd /\ o.row.ref = None
               /\ o.row.status = "REJECTED" /\ o.row.code = c /\ o.row.balance = b
<1> DEFINE x == [r EXCEPT !.status = "REJECTED", !.code = c, !.balance = b]
<1>1. "REJECTED" \in Statuses /\ c \in Codes /\ c # NoCode /\ c # "INFRASTRUCTURE_FAILURE"
    BY DEF Statuses, Terminal, RejectCodes
<1>2. /\ x.status = "REJECTED" /\ x.code = c /\ x.balance = b
      /\ x.cmd = r.cmd /\ x.ref = None
    BY <1>1, IdleShape
<1>3. Reject(r, c, b).row = x /\ Reject(r, c, b).entry = None
    BY DEF Reject, Outcome
<1> HIDE DEF x
<1>4. r.cmd.key # None
    BY RowFacts, CommandFacts
<1> QED BY <1>1, <1>2, <1>3, <1>4
        DEF Sound, ChecksPass, MovesMoney, RequiresReference, Undisclosed

LEMMA KeptSound ==
    ASSUME NEW r \in Row, Undecided(r), NEW w \in WalletRow
    PROVE  /\ RequiresReference(r) =>
                 LET o == Defer(r, w)
                 IN  /\ Sound(o) /\ o.entry = None /\ o.row.cmd = r.cmd /\ o.row.ref = None
                     /\ o.row.status = "PENDING_REFERENCE" /\ o.row.code = NoCode
           /\ LET o == Fail(r, w)
              IN  /\ Sound(o) /\ o.entry = None /\ o.row.cmd = r.cmd /\ o.row.ref = None
                  /\ o.row.status = "FAILED" /\ o.row.code = "INFRASTRUCTURE_FAILURE"
           /\ r.cmd.kind = "LOSS" =>
                 LET o == ProcessIdle(r, w)
                 IN  /\ Sound(o) /\ o.entry = None /\ o.row.cmd = r.cmd /\ o.row.ref = None
                     /\ o.row.status = "PROCESSED" /\ o.row.code = NoCode
<1>1. w.balance \in Amount /\ w.balance # NoBalance
    BY NoBalanceFacts DEF WalletRow
<1>2. r.cmd.key # None
    BY RowFacts, CommandFacts
<1>3. /\ "PENDING_REFERENCE" \in Statuses /\ "FAILED" \in Statuses /\ "PROCESSED" \in Statuses
      /\ "INFRASTRUCTURE_FAILURE" \in Codes /\ NoCode \in Codes
    BY DEF Statuses, Terminal, Codes
<1>4. ASSUME RequiresReference(r)
      PROVE  LET o == Defer(r, w)
             IN  /\ Sound(o) /\ o.entry = None /\ o.row.cmd = r.cmd /\ o.row.ref = None
                 /\ o.row.status = "PENDING_REFERENCE" /\ o.row.code = NoCode
    <2> DEFINE x == [r EXCEPT !.status = "PENDING_REFERENCE", !.balance = w.balance]
    <2>1. /\ x.status = "PENDING_REFERENCE" /\ x.code = NoCode /\ x.balance = w.balance
          /\ x.cmd = r.cmd /\ x.ref = None
        BY <1>1, <1>3, IdleShape
    <2>2. Defer(r, w).row = x /\ Defer(r, w).entry = None
        BY DEF Defer, Outcome
    <2> HIDE DEF x
    <2> QED BY <1>1, <1>2, <1>4, <2>1, <2>2
            DEF Sound, ChecksPass, MovesMoney, RequiresReference, NoCode
<1>5. LET o == Fail(r, w)
      IN  /\ Sound(o) /\ o.entry = None /\ o.row.cmd = r.cmd /\ o.row.ref = None
          /\ o.row.status = "FAILED" /\ o.row.code = "INFRASTRUCTURE_FAILURE"
    <2> DEFINE x == [r EXCEPT !.status = "FAILED", !.code = "INFRASTRUCTURE_FAILURE",
                              !.balance = w.balance]
    <2>1. /\ x.status = "FAILED" /\ x.code = "INFRASTRUCTURE_FAILURE" /\ x.balance = w.balance
          /\ x.cmd = r.cmd /\ x.ref = None
        BY <1>1, <1>3, IdleShape
    <2>2. Fail(r, w).row = x /\ Fail(r, w).entry = None
        BY DEF Fail, Outcome
    <2> HIDE DEF x
    <2> QED BY <1>1, <1>2, <2>1, <2>2
            DEF Sound, ChecksPass, MovesMoney, RequiresReference, NoCode
<1>6. ASSUME r.cmd.kind = "LOSS"
      PROVE  LET o == ProcessIdle(r, w)
             IN  /\ Sound(o) /\ o.entry = None /\ o.row.cmd = r.cmd /\ o.row.ref = None
                 /\ o.row.status = "PROCESSED" /\ o.row.code = NoCode
    <2> DEFINE x == [r EXCEPT !.status = "PROCESSED", !.balance = w.balance]
    <2>1. /\ x.status = "PROCESSED" /\ x.code = NoCode /\ x.balance = w.balance
          /\ x.cmd = r.cmd /\ x.ref = None
        BY <1>1, <1>3, IdleShape
    <2>2. ProcessIdle(r, w).row = x /\ ProcessIdle(r, w).entry = None
        BY DEF ProcessIdle, Outcome
    <2> HIDE DEF x
    <2> QED BY <1>1, <1>2, <1>6, <2>1, <2>2
            DEF Sound, ChecksPass, MovesMoney, RequiresReference, NoCode, ReversalKinds
<1> QED BY <1>4, <1>5, <1>6

(* Money moves in the direction asked for, or the wager is rejected. *)
LEMMA ApplySound ==
    ASSUME NEW r \in Row, Undecided(r), NEW w \in WalletRow, NEW d \in {"DEBIT", "CREDIT"},
           NEW k \in Keys \cup {None}, r.cmd.kind # "LOSS", k # r.cmd.key,
           RequiresReference(r) => k # None
    PROVE  LET o == Apply(r, w, d, k)
           IN  /\ Sound(o) /\ o.row.cmd = r.cmd
               /\ \/ /\ o.row.status = "REJECTED" /\ o.row.ref = None /\ o.entry = None
                     /\ o.row.code \notin {"REFERENCE_NOT_FOUND", "REFERENCE_NOT_PROCESSED"}
                  \/ /\ o.row.status = "PROCESSED" /\ o.row.ref = k
                     /\ o.entry # None /\ o.entry.direction = d
                     /\ o.row.code = NoCode
<1> DEFINE failure == MovementFailure(w, r, d)
           e == Entry(w, r, d)
<1>1. CASE failure # NoCode
    <2>1. /\ failure \in RejectCodes /\ failure \notin Undisclosed
          /\ failure \notin {"REFERENCE_NOT_FOUND", "REFERENCE_NOT_PROCESSED"}
        BY <1>1 DEF MovementFailure, RejectCodes, Codes, Undisclosed, NoCode
    <2>2. w.balance \in Amount \cup {NoBalance} /\ w.balance # NoBalance
        BY NoBalanceFacts DEF WalletRow
    <2>3. Apply(r, w, d, k) = Reject(r, failure, w.balance)
        BY <1>1 DEF Apply
    <2> HIDE DEF failure
    <2> QED BY <2>1, <2>2, <2>3, RejectSound
<1>2. CASE failure = NoCode
    <2>1. /\ e \in LedgerEntry /\ e # None /\ e.after \in Amount
        BY <1>2, EntryFacts, NoneAssumption DEF LedgerEntry
    <2>2. e.tx = r.cmd.key /\ e.amount = r.cmd.amount /\ e.direction = d
        BY DEF Entry
    <2>3. Apply(r, w, d, k) =
              Outcome([r EXCEPT !.status = "PROCESSED", !.balance = e.after, !.ref = k], e)
        BY <1>2 DEF Apply
    <2> HIDE DEF e
    <2> DEFINE x == [r EXCEPT !.status = "PROCESSED", !.balance = e.after, !.ref = k]
    <2>4. /\ x.status = "PROCESSED" /\ x.code = NoCode /\ x.balance = e.after
          /\ x.cmd = r.cmd /\ x.ref = k
        BY DEF Row, Undecided
    <2>5. Apply(r, w, d, k).row = x /\ Apply(r, w, d, k).entry = e
        BY <2>3 DEF Outcome
    <2> HIDE DEF x
    <2>6. x.balance # NoBalance
        BY <2>1, <2>4, NoBalanceFacts
    <2>7. ChecksPass(x) /\ MovesMoney(x)
        BY <2>4, <2>6 DEF ChecksPass, MovesMoney, RequiresReference, NoCode
    <2> QED BY <2>1, <2>2, <2>4, <2>5, <2>7 DEF Sound
<1> QED BY <1>1, <1>2

LEMMA ReferenceCodes ==
    ASSUME NEW r, NEW x
    PROVE  /\ ReversalFailure(r, x) # NoCode =>
                 /\ ReversalFailure(r, x) \in RejectCodes \ Undisclosed
                 /\ ReversalFailure(r, x) # "REFERENCE_NOT_FOUND"
                 /\ ReversalFailure(r, x) = "REFERENCE_NOT_PROCESSED" => x.status # "PROCESSED"
           /\ ReversalFailure(r, x) = NoCode =>
                 /\ x.status = "PROCESSED" /\ SameBinding(r, x)
                 /\ x.cmd.amount = r.cmd.amount /\ x.cmd.kind \in ReversibleKinds(r.cmd.kind)
           /\ WinReferenceFailure(r, x) # NoCode =>
                 WinReferenceFailure(r, x) \in RejectCodes \ Undisclosed
           /\ WinReferenceFailure(r, x) = NoCode =>
                 x.status = "PROCESSED" /\ x.cmd.kind = "BET"
<1>1. /\ BindingFailure(r, x) = NoCode => x.status = "PROCESSED" /\ SameBinding(r, x)
      /\ BindingFailure(r, x) # NoCode =>
            /\ BindingFailure(r, x) \in RejectCodes \ Undisclosed
            /\ BindingFailure(r, x) # "REFERENCE_NOT_FOUND"
            /\ BindingFailure(r, x) = "REFERENCE_NOT_PROCESSED" => x.status # "PROCESSED"
    BY DEF BindingFailure, RejectCodes, Codes, Undisclosed, NoCode
<1> QED BY <1>1 DEF ReversalFailure, WinReferenceFailure, RejectCodes, Codes, Undisclosed, NoCode

LEMMA ApplyPlainSound ==
    ASSUME NEW r \in Row, Undecided(r), NEW w \in WalletRow, NEW x \in Row \cup {None},
           r.cmd.kind \in {"BET", "WIN"},
           (x # None /\ x.status = "PROCESSED" /\ x.cmd.kind = "BET" /\ r.cmd.kind = "WIN") =>
               x.cmd.key # r.cmd.key,
           r.cmd.kind = "BET" => x = None
    PROVE  LET o == ApplyPlain(r, x, w)
           IN  /\ Sound(o) /\ o.row.cmd = r.cmd
               /\ o.row.status \in {"PROCESSED", "REJECTED"}
               /\ o.row.ref # None => /\ x # None /\ o.row.ref = x.cmd.key
                                      /\ x.status = "PROCESSED"
               /\ o.entry # None => o.entry.direction = PlainDirection(r.cmd.kind)
<1> DEFINE d == PlainDirection(r.cmd.kind)
<1>1. d \in {"DEBIT", "CREDIT"} /\ ~ RequiresReference(r) /\ r.cmd.key # None
    BY RowFacts, CommandFacts DEF PlainDirection, RequiresReference, ReversalKinds
<1>2. CASE x = None
    BY <1>1, <1>2, ApplySound DEF ApplyPlain
<1>3. CASE x # None /\ WinReferenceFailure(r, x) # NoCode
    <2>1. w.balance \in Amount \cup {NoBalance} /\ w.balance # NoBalance
        BY NoBalanceFacts DEF WalletRow
    <2>2. /\ WinReferenceFailure(r, x) \in RejectCodes
          /\ WinReferenceFailure(r, x) \notin Undisclosed
        BY <1>3, ReferenceCodes
    <2>3. ApplyPlain(r, x, w) = Reject(r, WinReferenceFailure(r, x), w.balance)
        BY <1>3 DEF ApplyPlain
    <2> QED BY <2>1, <2>2, <2>3, RejectSound
<1>4. CASE x # None /\ WinReferenceFailure(r, x) = NoCode
    <2>1. x.status = "PROCESSED" /\ x.cmd.key # r.cmd.key /\ x.cmd.key \in Keys
        BY <1>4, ReferenceCodes, RowFacts, CommandFacts
    <2>2. ApplyPlain(r, x, w) = Apply(r, w, d, x.cmd.key)
        BY <1>4 DEF ApplyPlain
    <2> HIDE DEF d
    <2>3. r.cmd.kind # "LOSS"
        OBVIOUS
    <2> QED BY <1>1, <1>4, <2>1, <2>2, <2>3, ApplySound DEF d
<1> QED BY <1>2, <1>3, <1>4

LEMMA ApplyReversalSound ==
    ASSUME NEW r \in Row, Undecided(r), NEW w \in WalletRow, NEW x \in Row, NEW active \in BOOLEAN,
           RequiresReference(r), ReversalFailure(r, x) = NoCode => x.cmd.key # r.cmd.key
    PROVE  LET o == ApplyReversal(r, x, active, w)
           IN  /\ Sound(o) /\ o.row.cmd = r.cmd
               /\ o.row.status \in {"PROCESSED", "REJECTED"}
               /\ o.row.ref # None => o.row.ref = x.cmd.key
               /\ o.row.status = "PROCESSED" =>
                     /\ o.row.ref = x.cmd.key /\ ReversalFailure(r, x) = NoCode /\ ~ active
                     /\ o.entry.direction = Direction(r, x)
               /\ o.row.code # "REFERENCE_NOT_FOUND"
               /\ o.row.code = "REFERENCE_NOT_PROCESSED" => x.status # "PROCESSED"
<1>1. w.balance \in Amount \cup {NoBalance} /\ w.balance # NoBalance
    BY NoBalanceFacts DEF WalletRow
<1>2. CASE ReversalFailure(r, x) # NoCode
    <2>1. /\ ReversalFailure(r, x) \in RejectCodes
          /\ ReversalFailure(r, x) \notin Undisclosed
          /\ ReversalFailure(r, x) # "REFERENCE_NOT_FOUND"
          /\ ReversalFailure(r, x) = "REFERENCE_NOT_PROCESSED" => x.status # "PROCESSED"
        BY <1>2, ReferenceCodes
    <2>2. ApplyReversal(r, x, active, w) = Reject(r, ReversalFailure(r, x), w.balance)
        BY <1>2 DEF ApplyReversal
    <2> QED BY <1>1, <2>1, <2>2, RejectSound
<1>3. CASE ReversalFailure(r, x) = NoCode /\ active
    <2>1. /\ "REFERENCE_ALREADY_REVERSED" \in RejectCodes
          /\ "REFERENCE_ALREADY_REVERSED" \notin Undisclosed
        BY DEF RejectCodes, Codes, Undisclosed, NoCode
    <2>2. ApplyReversal(r, x, active, w) = Reject(r, "REFERENCE_ALREADY_REVERSED", w.balance)
        BY <1>3 DEF ApplyReversal
    <2> QED BY <1>1, <2>1, <2>2, RejectSound
<1>4. CASE ReversalFailure(r, x) = NoCode /\ ~ active
    <2> DEFINE d == Direction(r, x)
    <2>1. d \in {"DEBIT", "CREDIT"} /\ x.cmd.key \in Keys /\ x.cmd.key # r.cmd.key
        BY <1>4, RowFacts, CommandFacts DEF Direction, PlainDirection
    <2>2. ApplyReversal(r, x, active, w) = Apply(r, w, d, x.cmd.key)
        BY <1>4 DEF ApplyReversal
    <2>3. r.cmd.kind # "LOSS" /\ x.cmd.key # None
        BY <2>1, CommandFacts DEF RequiresReference, ReversalKinds
    <2> HIDE DEF d
    <2>4. LET o == Apply(r, w, d, x.cmd.key)
          IN  /\ Sound(o) /\ o.row.cmd = r.cmd
              /\ \/ /\ o.row.status = "REJECTED" /\ o.row.ref = None /\ o.entry = None
                    /\ o.row.code \notin {"REFERENCE_NOT_FOUND", "REFERENCE_NOT_PROCESSED"}
                 \/ /\ o.row.status = "PROCESSED" /\ o.row.ref = x.cmd.key
                    /\ o.entry # None /\ o.entry.direction = d
                    /\ o.row.code = NoCode
        BY <2>1, <2>3, ApplySound
    <2> QED BY <1>4, <2>2, <2>3, <2>4 DEF d, NoCode
<1> QED BY <1>2, <1>3, <1>4

-----------------------------------------------------------------------------
(* What the invariant says of a transaction that is about to commit. *)

LEMMA RowsFacts ==
    ASSUME IInv
    PROVE  /\ Rows \subseteq Row
           /\ \A k \in Keys : wager[k] # None =>
                 wager[k] \in Row /\ wager[k] \in Rows /\ wager[k].cmd.key = k
           /\ \A r \in Rows : r.cmd.key \in Keys /\ wager[r.cmd.key] = r /\ r # None
BY DEF Rows, IInv, TypeOK, RowsAreKeyed

LEMMA SettledFacts ==
    ASSUME IInv, NEW x, Settled(x)
    PROVE  /\ x \in Row /\ x \in Rows /\ x.cmd.key \in Keys
           /\ wager[x.cmd.key] # None /\ wager[x.cmd.key] = x
BY RowFacts, CommandFacts, RowsFacts DEF Settled

(* The kinds alone keep a wager from reversing, or referring to, itself. *)
LEMMA NoSelfReference ==
    ASSUME NEW r, NEW x, x.cmd.kind = r.cmd.kind
    PROVE  /\ ReversalFailure(r, x) # NoCode
           /\ r.cmd.kind # "BET" => WinReferenceFailure(r, x) # NoCode
<1>1. r.cmd.kind \notin ReversibleKinds(r.cmd.kind)
    BY DEF ReversibleKinds
<1> QED BY <1>1 DEF ReversalFailure, WinReferenceFailure, NoCode

LEMMA PendingFacts ==
    ASSUME IInv, DInv, NEW k \in Keys, wager[k] # None, ~ IsTerminal(wager[k])
    PROVE  /\ Undecided(wager[k]) /\ wager[k].status = "PENDING_REFERENCE"
           /\ RequiresReference(wager[k])
<1>1. wager[k] \in Row /\ wager[k].status \in Statuses
    BY RowsFacts, RowFacts
<1>2. wager[k].status # "PENDING" /\ ChecksPass(wager[k])
    BY DEF DInv, RowInv
<1>3. wager[k].status = "PENDING_REFERENCE"
    BY <1>1, <1>2 DEF Statuses, IsTerminal
<1> QED BY <1>1, <1>2, <1>3 DEF Undecided, ChecksPass

(* The wager of an open transaction is still undecided, and no other row    *)
(* has its key.                                                            *)
DecidingLabels == {"lock", "reference", "slot", "commit", "peek", "peekLast", "settleLock", "reread"}

LEMMA OwnUndecided ==
    ASSUME IInv, DInv, NEW p \in Procs, pc[p] \in DecidingLabels
    PROVE  /\ Busy(p) /\ Undecided(Own(p)) /\ Own(p).cmd = work[p].cmd
           /\ work[p].cmd.key \in Keys /\ work[p].cmd.wallet \in Wallets
           /\ p \in Handlers => wager[work[p].cmd.key] = None /\ work[p].cmd \in Commands
           /\ p \in Resolvers => /\ Own(p) = wager[work[p].cmd.key]
                                 /\ wager[work[p].cmd.key] # None
                                 /\ ~ IsTerminal(wager[work[p].cmd.key])
                                 /\ RequiresReference(Own(p))
           /\ \A x : Settled(x) => x.cmd.key # work[p].cmd.key
<1> DEFINE k == work[p].cmd.key
<1>1. /\ Busy(p) /\ Own(p) \in Row /\ Own(p).cmd = work[p].cmd
      /\ work[p].cmd.key \in Keys /\ work[p].cmd.wallet \in Wallets
    BY OwnFacts DEF Busy, DecidingLabels
<1>2. CASE p \in Handlers
    <2>1. wager[k] = None /\ work[p].cmd \in Commands
        BY <1>2 DEF IInv, ProcInv, HandlerInv, HandlerLabels, Reserving, DecidingLabels
    <2>2. Undecided(Own(p))
        BY <1>1, <1>2 DEF Undecided, Own, Reserved
    <2>3. \A x : Settled(x) => x.cmd.key # k
        BY <2>1, SettledFacts
    <2> QED BY <1>1, <1>2, <2>1, <2>2, <2>3, ProcsAssumption
<1>3. CASE p \in Resolvers
    <2>1. p \notin Handlers
        BY <1>3, ProcsAssumption
    <2>2. wager[k] # None /\ wager[k].status = "PENDING_REFERENCE" /\ Own(p) = wager[k]
        BY <1>3, <2>1 DEF IInv, ProcInv, ResolverInv, ResolverLabels, DecidingLabels,
                          DInv, DecisionInv, Own
    <2>3. ~ IsTerminal(wager[k])
        BY <2>2 DEF IsTerminal, Terminal
    <2>4. Undecided(wager[k]) /\ RequiresReference(wager[k])
        BY <1>1, <2>2, <2>3, PendingFacts
    <2>5. \A x : Settled(x) => x.cmd.key # k
        BY <2>3 DEF Settled
    <2> QED BY <1>1, <2>1, <2>2, <2>3, <2>4, <2>5
<1> QED BY <1>2, <1>3 DEF Procs

(* What a plan is, whichever rule decided it. *)
PlanShape(p) ==
    LET o == plan[p]
        r == o.row
    IN  /\ Sound(o) /\ r.cmd = work[p].cmd
        /\ r.ref # None => /\ wager[r.ref] # None /\ r.ref \in Keys
                           /\ wager[r.ref].status = "PROCESSED"
        /\ (r.status = "PROCESSED" /\ RequiresReference(r)) =>
              /\ r.ref # None /\ ReversalFailure(r, wager[r.ref]) = NoCode
              /\ ~ HasActiveReversal(Rows, r.ref)
        /\ o.entry # None => o.entry.direction = Direction(r, wager[r.ref])
        /\ r.status # "REJECTED" \/ p \in Resolvers => HoldsWallet(p)
        /\ ~ HoldsWallet(p) => work[p].cmd.wallet \notin Existing
        /\ p \in Resolvers => /\ IsTerminal(r)
                              /\ r.code = "REFERENCE_NOT_FOUND" =>
                                    IsExhausted(work[p].cmd.key) /\ Missing(p)

LEMMA PlainShape ==
    ASSUME IInv, DInv, NEW p \in Procs, pc[p] = "commit", DecidedPlain(p)
    PROVE  PlanShape(p)
<1> DEFINE own == Own(p)
           w == snap[p]
<1>1. pc[p] \in DecidingLabels
    BY DEF DecidingLabels
<1>2. /\ Undecided(own) /\ own \in Row /\ own.cmd = work[p].cmd
      /\ p \in Handlers /\ p \notin Resolvers
      /\ \A x : Settled(x) => x.cmd.key # own.cmd.key
    BY <1>1, OwnUndecided, ProcsAssumption DEF DecidedPlain, Accepted, Undecided
<1>3. w \in WalletRow
    BY DEF DecidedPlain, HoldsWallet, IInv, TypeOK
<1>4. own.cmd.kind \in {"BET", "WIN"} /\ HoldsWallet(p)
    BY <1>2 DEF DecidedPlain
<1>5. PICK x \in Row \cup {None} :
          /\ plan[p] = ApplyPlain(own, x, w)
          /\ x # None => Settled(x) \/ x = own
          /\ own.cmd.kind = "BET" => x = None
    <2>1. own.cmd \in Commands
        BY <1>1, <1>2, OwnUndecided
    <2>2. own.cmd.kind = "BET" => own.cmd.ref = None
        BY <2>1, SubmittedAssumption
    <2>3. CASE plan[p] = ApplyPlain(own, None, w)
        BY <2>3
    <2>4. CASE \E x \in Row : /\ work[p].cmd.ref # None /\ Against(p, x)
                              /\ plan[p] = ApplyPlain(own, x, w)
        BY <1>2, <2>2, <2>4 DEF Against
    <2> QED BY <2>3, <2>4 DEF DecidedPlain
<1>6. x # None => x.cmd.key \in Keys
    BY <1>5, RowFacts, CommandFacts
<1>7. (x # None /\ x.status = "PROCESSED" /\ x.cmd.kind = "BET" /\ own.cmd.kind = "WIN") =>
          x.cmd.key # own.cmd.key /\ Settled(x)
    BY <1>2, <1>5
<1> HIDE DEF own, w
<1>8. LET o == ApplyPlain(own, x, w)
      IN  /\ Sound(o) /\ o.row.cmd = own.cmd
          /\ o.row.status \in {"PROCESSED", "REJECTED"}
          /\ o.row.ref # None => /\ x # None /\ o.row.ref = x.cmd.key
                                 /\ x.status = "PROCESSED"
          /\ o.entry # None => o.entry.direction = PlainDirection(own.cmd.kind)
    BY <1>2, <1>3, <1>4, <1>5, <1>7, ApplyPlainSound
<1>9. plan[p].row.ref # None => Settled(x) /\ wager[plan[p].row.ref] = x
    <2>1. (x = own) => x.status # "PROCESSED"
        BY <1>2 DEF own, Own, Reserved
    <2> QED BY <1>5, <1>8, <2>1 DEF Settled
<1>10. ~ RequiresReference(plan[p].row) /\ plan[p].row.cmd.kind # "ROLLBACK"
    BY <1>4, <1>5, <1>8 DEF RequiresReference, ReversalKinds
<1> QED BY <1>2, <1>4, <1>5, <1>6, <1>8, <1>9, <1>10, NoneAssumption DEF PlanShape, Direction

LEMMA ReversalShape ==
    ASSUME IInv, DInv, NEW p \in Procs, pc[p] = "commit", DecidedReversal(p)
    PROVE  PlanShape(p)
<1> DEFINE own == Own(p)
           w == snap[p]
<1>1. pc[p] \in DecidingLabels
    BY DEF DecidingLabels
<1>2. /\ Undecided(own) /\ own \in Row /\ own.cmd = work[p].cmd
      /\ \A x : Settled(x) => x.cmd.key # own.cmd.key
    BY <1>1, OwnUndecided DEF Undecided
<1>3. w \in WalletRow /\ HoldsWallet(p) /\ RequiresReference(own)
    <2>1. HoldsWallet(p) /\ RequiresReference(own)
        BY DEF DecidedReversal
    <2> QED BY <2>1 DEF HoldsWallet, IInv, TypeOK
<1>4. PICK x \in Row :
          /\ Against(p, x)
          /\ plan[p] = ApplyReversal(own, x, HasActiveReversal(Rows, x.cmd.key), w)
    BY DEF DecidedReversal
<1> DEFINE active == HasActiveReversal(Rows, x.cmd.key)
<1>5. active \in BOOLEAN
    BY DEF HasActiveReversal
<1>6. ReversalFailure(own, x) = NoCode => Settled(x) /\ x.cmd.key # own.cmd.key
    BY <1>2, <1>4, NoSelfReference DEF Against
<1>7. x.cmd.key \in Keys /\ x.cmd.key # None
    BY RowFacts, CommandFacts
<1>8. own.cmd.kind # "LOSS"
    BY <1>3 DEF RequiresReference, ReversalKinds
<1> HIDE DEF own, w, active
<1>9. LET o == ApplyReversal(own, x, active, w)
      IN  /\ Sound(o) /\ o.row.cmd = own.cmd
          /\ o.row.status \in {"PROCESSED", "REJECTED"}
          /\ o.row.ref # None => o.row.ref = x.cmd.key
          /\ o.row.status = "PROCESSED" =>
                /\ o.row.ref = x.cmd.key /\ ReversalFailure(own, x) = NoCode /\ ~ active
                /\ o.entry.direction = Direction(own, x)
          /\ o.row.code # "REFERENCE_NOT_FOUND"
          /\ o.row.code = "REFERENCE_NOT_PROCESSED" => x.status # "PROCESSED"
    BY <1>2, <1>3, <1>5, <1>6, ApplyReversalSound
<1>10. plan[p] = ApplyReversal(own, x, active, w)
    BY <1>4 DEF active, own, w
<1>11. plan[p].row.status = "PROCESSED" => /\ Settled(x) /\ wager[plan[p].row.ref] = x
                                           /\ x.status = "PROCESSED"
    BY <1>6, <1>9, <1>10, ReferenceCodes DEF Settled
<1>12. /\ plan[p].entry # None => plan[p].row.status = "PROCESSED"
       /\ plan[p].row.ref # None => plan[p].row.status = "PROCESSED"
    BY <1>9, <1>10 DEF Sound, MovesMoney
<1>13. \A y : /\ ReversalFailure(plan[p].row, y) = ReversalFailure(own, y)
              /\ Direction(plan[p].row, y) = Direction(own, y)
    BY <1>9, <1>10 DEF ReversalFailure, BindingFailure, SameBinding, Direction
<1>14. x # None
    BY NoneAssumption
<1>15. /\ plan[p].row.ref # None => /\ wager[plan[p].row.ref] # None /\ plan[p].row.ref \in Keys
                                    /\ wager[plan[p].row.ref].status = "PROCESSED"
       /\ (plan[p].row.status = "PROCESSED" /\ RequiresReference(plan[p].row)) =>
              /\ plan[p].row.ref # None
              /\ ReversalFailure(plan[p].row, wager[plan[p].row.ref]) = NoCode
              /\ ~ HasActiveReversal(Rows, plan[p].row.ref)
       /\ plan[p].entry # None =>
             plan[p].entry.direction = Direction(plan[p].row, wager[plan[p].row.ref])
    BY <1>7, <1>9, <1>10, <1>11, <1>12, <1>13, <1>14 DEF active
<1>16. /\ Sound(plan[p]) /\ plan[p].row.cmd = work[p].cmd
       /\ IsTerminal(plan[p].row) /\ plan[p].row.code # "REFERENCE_NOT_FOUND"
    BY <1>2, <1>9, <1>10 DEF IsTerminal, Terminal
<1> QED BY <1>3, <1>15, <1>16 DEF PlanShape

LEMMA PlanIsSound ==
    ASSUME IInv, DInv, NEW p \in Procs, pc[p] = "commit"
    PROVE  PlanShape(p)
<1> DEFINE own == Own(p)
           w == snap[p]
           o == plan[p]
<1>1. pc[p] \in DecidingLabels
    BY DEF DecidingLabels
<1>2. Undecided(own) /\ own \in Row /\ own.cmd = work[p].cmd
    BY <1>1, OwnUndecided DEF Undecided
<1>3. HoldsWallet(p) => w \in WalletRow
    BY DEF HoldsWallet, IInv, TypeOK
<1>4. w \in WalletRow => w.balance \in Amount \cup {NoBalance} /\ w.balance # NoBalance
    BY NoBalanceFacts DEF WalletRow
<1>5. Decided(p)
    BY DEF DInv, DecisionInv
<1>6. p \in Handlers => p \notin Resolvers
    BY ProcsAssumption
(* Without an entry and without a reference little is left to show. *)
<1>7. ASSUME Sound(o), o.entry = None, o.row.cmd = own.cmd, o.row.ref = None,
             o.row.status = "PROCESSED" => ~ RequiresReference(own),
             o.row.status # "REJECTED" \/ p \in Resolvers => HoldsWallet(p),
             ~ HoldsWallet(p) => work[p].cmd.wallet \notin Existing,
             p \in Resolvers => IsTerminal(o.row),
             p \in Resolvers /\ o.row.code = "REFERENCE_NOT_FOUND" =>
                 IsExhausted(work[p].cmd.key) /\ Missing(p)
      PROVE  PlanShape(p)
    BY <1>2, <1>7 DEF PlanShape, RequiresReference
<1>8. CASE DecidedMissing(p)
    <2>1. /\ "WALLET_NOT_FOUND" \in RejectCodes /\ "WALLET_NOT_FOUND" \in Undisclosed
          /\ NoBalance \in Amount \cup {NoBalance}
        BY DEF RejectCodes, Codes, Undisclosed, NoCode
    <2>2. /\ Sound(o) /\ o.entry = None /\ o.row.cmd = own.cmd /\ o.row.ref = None
          /\ o.row.status = "REJECTED"
        BY <1>2, <1>8, <2>1, RejectSound DEF DecidedMissing
    <2> QED BY <1>6, <1>7, <1>8, <2>2 DEF DecidedMissing
<1>9. CASE DecidedByWallet(p)
    <2> DEFINE failure == WalletFailure(own, w)
    <2>1. /\ failure \in RejectCodes /\ w # None
          /\ DisclosedBalance(failure, w) \in Amount \cup {NoBalance}
          /\ DisclosedBalance(failure, w) = NoBalance <=> failure \in Undisclosed
        BY <1>3, <1>4, <1>9 DEF DecidedByWallet, WalletFailure, RejectCodes, Codes, Undisclosed,
                                NoCode, DisclosedBalance, HoldsWallet
    <2>2. o = Reject(own, failure, DisclosedBalance(failure, w))
        BY <1>9 DEF DecidedByWallet
    <2> HIDE DEF failure
    <2>3. /\ Sound(o) /\ o.entry = None /\ o.row.cmd = own.cmd /\ o.row.ref = None
          /\ o.row.status = "REJECTED"
        BY <1>2, <2>1, <2>2, RejectSound
    <2> QED BY <1>6, <1>7, <1>9, <2>3 DEF DecidedByWallet
<1>10. CASE DecidedIdle(p)
    <2>1. /\ Sound(o) /\ o.entry = None /\ o.row.cmd = own.cmd /\ o.row.ref = None
          /\ own.cmd.kind = "LOSS"
        BY <1>2, <1>3, <1>10, KeptSound DEF DecidedIdle
    <2> QED BY <1>6, <1>7, <1>10, <2>1
            DEF DecidedIdle, Accepted, RequiresReference, ReversalKinds
<1>11. CASE DecidedDefer(p)
    <2>1. /\ Sound(o) /\ o.entry = None /\ o.row.cmd = own.cmd /\ o.row.ref = None
          /\ o.row.status = "PENDING_REFERENCE"
        BY <1>2, <1>3, <1>11, KeptSound DEF DecidedDefer
    <2> QED BY <1>6, <1>7, <1>11, <2>1 DEF DecidedDefer, Accepted
<1>12. CASE DecidedGiveUp(p)
    <2>1. PICK c \in {"REFERENCE_NOT_FOUND", "REFERENCE_NOT_PROCESSED"} :
              /\ o = Reject(own, c, w.balance)
              /\ c = "REFERENCE_NOT_FOUND" => Missing(p)
        BY <1>12 DEF DecidedGiveUp
    <2>2. c \in RejectCodes /\ c \notin Undisclosed
        BY DEF RejectCodes, Codes, Undisclosed, NoCode
    <2>3. HoldsWallet(p) /\ w \in WalletRow /\ p \in Resolvers /\ IsExhausted(work[p].cmd.key)
        BY <1>3, <1>12 DEF DecidedGiveUp
    <2>4. /\ Sound(o) /\ o.entry = None /\ o.row.cmd = own.cmd /\ o.row.ref = None
          /\ o.row.status = "REJECTED" /\ o.row.code = c
        BY <1>2, <1>4, <2>1, <2>2, <2>3, RejectSound
    <2> QED BY <1>7, <2>1, <2>3, <2>4 DEF IsTerminal, Terminal
<1>13. CASE DecidedFailure(p)
    <2>1. /\ Sound(o) /\ o.entry = None /\ o.row.cmd = own.cmd /\ o.row.ref = None
          /\ o.row.status = "FAILED" /\ o.row.code = "INFRASTRUCTURE_FAILURE"
          /\ HoldsWallet(p)
        BY <1>2, <1>3, <1>13, KeptSound DEF DecidedFailure
    <2> QED BY <1>7, <2>1 DEF IsTerminal, Terminal
<1> QED BY <1>5, <1>8, <1>9, <1>10, <1>11, <1>12, <1>13, PlainShape, ReversalShape DEF Decided

(* A pending wager was put aside under its wallet, in its currency. *)
CInv ==
    \A k \in Keys : (wager[k] # None /\ wager[k].status = "PENDING_REFERENCE") =>
        LET w == wager[k].cmd.wallet
        IN  wallet[w] # None /\ wallet[w].currency = wager[k].cmd.currency

(* A plan that shows a balance has the wallet, and its currency. *)
LEMMA PlanInCurrency ==
    ASSUME IInv, DInv, CInv, NEW p \in Procs, pc[p] = "commit", plan[p].row.balance # NoBalance
    PROVE  HoldsWallet(p) /\ ResultInCurrency(p, plan[p].row)
<1> DEFINE own == Own(p)
           w == snap[p]
<1>1. pc[p] \in DecidingLabels
    BY DEF DecidingLabels
<1>2. /\ own.cmd = work[p].cmd /\ plan[p].row.cmd = work[p].cmd
      /\ work[p].cmd.key \in Keys
      /\ p \in Resolvers => /\ wager[work[p].cmd.key] # None
                            /\ wager[work[p].cmd.key].cmd = work[p].cmd
    BY <1>1, OwnUndecided, PlanFacts
<1>3. Decided(p)
    BY DEF DInv, DecisionInv
<1>4. Accepted(p) => w.currency = work[p].cmd.currency
    BY <1>2 DEF Accepted, WalletFailure, NoCode
<1>5. (p \in Resolvers /\ HoldsWallet(p)) => w.currency = work[p].cmd.currency
    <2>1. p \in Resolvers => wager[work[p].cmd.key].status = "PENDING_REFERENCE"
        BY DEF DInv, DecisionInv
    <2> QED BY <1>2, <2>1 DEF CInv, HoldsWallet
<1>6. Undecided(own) /\ own \in Row
    BY <1>1, OwnUndecided DEF Undecided
<1>7. CASE DecidedMissing(p)
    <2>1. "WALLET_NOT_FOUND" \in RejectCodes /\ "WALLET_NOT_FOUND" \in Undisclosed
        BY DEF RejectCodes, Codes, Undisclosed, NoCode
    <2>2. plan[p].row.balance = NoBalance
        BY <1>6, <1>7, <2>1, RejectSound DEF DecidedMissing
    <2> QED BY <2>2
<1>8. CASE DecidedByWallet(p)
    <2> DEFINE failure == WalletFailure(own, w)
    <2>1. w.balance \in Amount /\ w.balance # NoBalance
        BY <1>8, NoBalanceFacts DEF DecidedByWallet, HoldsWallet, IInv, TypeOK, WalletRow
    <2>2. /\ plan[p].row.code = failure
          /\ plan[p].row.balance = DisclosedBalance(failure, w)
        <3>1. /\ failure \in RejectCodes
              /\ DisclosedBalance(failure, w) \in Amount \cup {NoBalance}
              /\ DisclosedBalance(failure, w) = NoBalance <=> failure \in Undisclosed
            BY <1>8, <2>1 DEF DecidedByWallet, WalletFailure, RejectCodes, Codes, Undisclosed,
                              NoCode, DisclosedBalance, HoldsWallet
        <3>2. plan[p] = Reject(own, failure, DisclosedBalance(failure, w))
            BY <1>8 DEF DecidedByWallet
        <3> HIDE DEF failure
        <3> QED BY <1>6, <3>1, <3>2, RejectSound
    <2>3. failure # NoCode /\ HoldsWallet(p)
        BY <1>8 DEF DecidedByWallet
    <2>4. failure = "CURRENCY_MISMATCH"
        BY <2>2, <2>3 DEF WalletFailure, DisclosedBalance
    <2> QED BY <2>2, <2>3, <2>4 DEF ResultInCurrency
<1>9. CASE DecidedIdle(p) \/ DecidedPlain(p) \/ DecidedDefer(p)
    BY <1>2, <1>4, <1>9 DEF DecidedIdle, DecidedPlain, DecidedDefer, ResultInCurrency
<1>10. CASE DecidedReversal(p) \/ DecidedGiveUp(p) \/ DecidedFailure(p)
    BY <1>2, <1>4, <1>5, <1>10
       DEF DecidedReversal, DecidedGiveUp, DecidedFailure, ResultInCurrency, Procs
<1> QED BY <1>3, <1>7, <1>8, <1>9, <1>10 DEF Decided

(* The schema accepts whatever is planned. *)
LEMMA PlanIsAccepted ==
    ASSUME IInv, DInv, CInv, NEW p \in Procs, pc[p] = "commit"
    PROVE  ~ SchemaRefuses(p, plan[p].row)
<1> DEFINE r == plan[p].row
           k == work[p].cmd.key
           others == {x \in Rows : x.cmd.key # r.cmd.key}
<1>1. PlanShape(p) /\ r.cmd = work[p].cmd
    BY PlanIsSound DEF PlanShape
<1>2. ChecksPass(r)
    BY <1>1 DEF PlanShape, Sound
<1>3. pc[p] \in DecidingLabels
    BY DEF DecidingLabels
<1>4. p \in Resolvers => ~ IsTerminal(wager[r.cmd.key])
    BY <1>1, <1>3, OwnUndecided
<1>5. ASSUME r.status = "PROCESSED", r.cmd.kind \in ReversalKinds
      PROVE  ~ HasActiveReversal(others, r.ref)
    <2>1. ~ HasActiveReversal(Rows, r.ref)
        BY <1>1, <1>5 DEF PlanShape, RequiresReference
    <2> SUFFICES ASSUME NEW a \in others, a.ref = r.ref, a.status = "PROCESSED",
                        a.cmd.kind \in ReversalKinds,
                        ~ \E u \in others : /\ u.ref = a.cmd.key /\ u.status = "PROCESSED"
                                            /\ u.cmd.kind = "ROLLBACK"
                 PROVE  FALSE
        BY DEF HasActiveReversal
    <2>2. PICK u \in Rows : /\ u.ref = a.cmd.key /\ u.status = "PROCESSED"
                            /\ u.cmd.kind = "ROLLBACK"
        BY <2>1 DEF HasActiveReversal
    <2>3. u.cmd.key # r.cmd.key
        <3>1. Settled(u)
            BY <2>2, RowsFacts DEF Settled, IsTerminal, Terminal
        <3> QED BY <1>1, <1>3, <3>1, OwnUndecided
    <2> QED BY <2>2, <2>3
<1>6. ResultInCurrency(p, r)
    BY PlanInCurrency DEF ResultInCurrency
<1> QED BY <1>2, <1>4, <1>5, <1>6 DEF SchemaRefuses

-----------------------------------------------------------------------------
(* How the tables may change under a transaction that is not the one that   *)
(* changes them: its decision survives, because the rows it read were       *)
(* settled, the row it decides is locked, and every wager that could matter *)
(* to it needs the wallet it holds.                                        *)

RowsMove ==
    \A k \in Keys :
        \/ wager'[k] = wager[k]
        \/ /\ wager'[k] # None
           /\ wager[k] # None => wager'[k].cmd = wager[k].cmd /\ ~ IsTerminal(wager[k])

Undisturbed(q) ==
    \A k \in Keys :
        wager'[k] # wager[k] =>
            /\ wager[k] # None => rowLock[k] # q
            /\ (HoldsWallet(q) /\ wager'[k].cmd.wallet = work[q].cmd.wallet) =>
                  /\ wager'[k].status # "PROCESSED"
                  /\ \/ work[q].cmd.wallet \notin Existing
                     \/ wager[k] # None /\ ~ IsTerminal(wager'[k])

LEMMA SettledStays ==
    ASSUME IInv, RowsMove, NEW x, Settled(x)
    PROVE  Settled(x)'
BY SettledFacts DEF RowsMove, Settled

LEMMA ReversalIgnoresActive ==
    ASSUME NEW r, NEW x, NEW w, NEW a, NEW b, ReversalFailure(r, x) # NoCode
    PROVE  ApplyReversal(r, x, a, w) = ApplyReversal(r, x, b, w)
BY DEF ApplyReversal

(* Nobody gives a wager back, or takes such a reversal back, while another  *)
(* transaction holds the wallet of that wager.                             *)
LEMMA SlotStays ==
    ASSUME IInv, IInv', DInv, NEW q \in Procs, HoldsWallet(q), RowsMove, Undisturbed(q),
           \A k \in Keys : RowInv(k)',
           NEW x, Settled(x), x.cmd.wallet = work[q].cmd.wallet
    PROVE  HasActiveReversal(Rows, x.cmd.key)' <=> HasActiveReversal(Rows, x.cmd.key)
<1> DEFINE w == work[q].cmd.wallet
           Gives(r, k) == r.ref = k /\ r.status = "PROCESSED" /\ r.cmd.kind \in ReversalKinds
<1>1. /\ \A k \in Keys : wager'[k] # None => wager'[k] \in Rows' /\ wager'[k].cmd.key = k
      /\ \A r \in Rows' : r.cmd.key \in Keys /\ wager'[r.cmd.key] = r /\ r # None
    BY DEF Rows, IInv, TypeOK, RowsAreKeyed
<1>2. ASSUME NEW r \in Rows, r.status = "PROCESSED" PROVE r \in Rows'
    <2>1. r.cmd.key \in Keys /\ wager[r.cmd.key] = r /\ r # None
        BY RowsFacts
    <2>2. wager'[r.cmd.key] = r
        BY <1>2, <2>1 DEF RowsMove, IsTerminal, Terminal
    <2> QED BY <1>1, <2>1, <2>2
<1>3. ASSUME NEW r \in Rows', NEW y, Gives(r, y.cmd.key), Settled(y), y.cmd.wallet = w
      PROVE  r \in Rows
    <2> DEFINE k == r.cmd.key
    <2>1. k \in Keys /\ wager'[k] = r /\ r # None
        BY <1>1
    <2>2. ReversalFailure(r, wager'[r.ref]) = NoCode
        BY <1>3, <2>1 DEF RowInv, RequiresReference
    <2>3. wager'[r.ref] = y
        BY <1>3, SettledStays DEF Settled
    <2>4. r.cmd.wallet = w
        BY <1>3, <2>2, <2>3, ReferenceCodes DEF SameBinding
    <2>5. wager[k] = r
        BY <1>3, <2>1, <2>4 DEF Undisturbed
    <2> QED BY <2>1, <2>5, RowsFacts
<1>4. ASSUME NEW r \in Rows, NEW y, Gives(r, y.cmd.key), Settled(y), y.cmd.wallet = w
      PROVE  Settled(r) /\ r.cmd.wallet = w
    <2>1. r.cmd.key \in Keys /\ wager[r.cmd.key] = r /\ r # None /\ r \in Row
        BY RowsFacts
    <2>2. ReversalFailure(r, wager[r.ref]) = NoCode
        BY <1>4, <2>1 DEF DInv, RowInv, RequiresReference
    <2>3. wager[r.ref] = y
        BY <1>4 DEF Settled
    <2> QED BY <1>4, <2>1, <2>2, <2>3, ReferenceCodes DEF SameBinding, Settled, IsTerminal, Terminal
<1>5. ASSUME NEW a \in Rows, Gives(a, x.cmd.key)
      PROVE  (\E u \in Rows' : u.ref = a.cmd.key /\ u.status = "PROCESSED" /\ u.cmd.kind = "ROLLBACK")
                 <=> \E u \in Rows : /\ u.ref = a.cmd.key /\ u.status = "PROCESSED"
                                     /\ u.cmd.kind = "ROLLBACK"
    <2>1. Settled(a) /\ a.cmd.wallet = w
        BY <1>4, <1>5
    <2>2. ASSUME NEW u, u.ref = a.cmd.key, u.status = "PROCESSED", u.cmd.kind = "ROLLBACK"
          PROVE  u \in Rows' <=> u \in Rows
        <3>1. Gives(u, a.cmd.key)
            BY <2>2 DEF ReversalKinds
        <3> QED BY <1>2, <1>3, <2>1, <2>2, <3>1
    <2> QED BY <2>2
<1>6. ASSUME NEW a, Gives(a, x.cmd.key) PROVE a \in Rows' <=> a \in Rows
    BY <1>2, <1>3, <1>6
<1> DEFINE Undone(S, a) == \E u \in S : /\ u.ref = a.cmd.key /\ u.status = "PROCESSED"
                                        /\ u.cmd.kind = "ROLLBACK"
<1>7. HasActiveReversal(Rows, x.cmd.key) <=>
          \E a \in Rows : Gives(a, x.cmd.key) /\ ~ Undone(Rows, a)
    BY DEF HasActiveReversal
<1>8. HasActiveReversal(Rows, x.cmd.key)' <=>
          \E a \in Rows' : Gives(a, x.cmd.key) /\ ~ Undone(Rows', a)
    BY DEF HasActiveReversal
<1>9. \A a \in Rows : Gives(a, x.cmd.key) => (Undone(Rows', a) <=> Undone(Rows, a))
    BY <1>5
<1> HIDE DEF Gives, Undone
<1> QED BY <1>6, <1>7, <1>8, <1>9

LEMMA ReadingsStay ==
    ASSUME IInv, DInv, NEW q \in Procs, Busy(q), KeepsWhatItHas(q), RowsMove, Undisturbed(q),
           HoldsWallet(q) => HoldsWallet(q)', lapsed \subseteq lapsed'
    PROVE  /\ q \in Handlers \/ rowLock[work[q].cmd.key] = q => Own(q)' = Own(q)
           /\ \A x : Settled(x) => Settled(x)'
           /\ (q \in Resolvers /\ rowLock[work[q].cmd.key] = q /\ IsExhausted(work[q].cmd.key)) =>
                 IsExhausted(work[q].cmd.key)'
           /\ (HoldsWallet(q) /\ Missing(q)) => Missing(q)'
           /\ (HoldsWallet(q) /\ Unsettled(q)) => Unsettled(q)'
           /\ (HoldsWallet(q) /\ SomeUnsettled(q)) => SomeUnsettled(q)'
<1> DEFINE c == work[q].cmd
<1>1. work'[q] = work[q] /\ c.key \in Keys
    BY OwnFacts DEF KeepsWhatItHas
<1>2. \A x : Settled(x) => Settled(x)'
    BY SettledStays
<1>3. (q \in Resolvers /\ rowLock[c.key] = q) => wager'[c.key] = wager[c.key]
    BY <1>1 DEF Undisturbed, IInv, ProcInv, ResolverInv, Busy
<1>4. q \in Handlers \/ rowLock[c.key] = q => Own(q)' = Own(q)
    BY <1>1, <1>3, ProcsAssumption DEF Own, Procs
<1>5. (q \in Resolvers /\ rowLock[c.key] = q /\ IsExhausted(c.key)) => IsExhausted(c.key)'
    BY <1>1, <1>3 DEF IsExhausted
<1>6. ASSUME HoldsWallet(q), Missing(q) PROVE Missing(q)'
    <2> SUFFICES ASSUME NEW k \in Keys, (wager[k] # None)', IsReference(q, wager[k])'
                 PROVE  NoneSeen(q, k)'
        BY DEF Missing, NoneSeen
    <2>1. NoneSeen(q, k)
        BY <1>6 DEF Missing
    <2>2. CASE wager[k] = None \/ wager'[k] = wager[k]
        BY <1>1, <1>6, <2>1, <2>2 DEF NoneSeen, Unordered, IsReference, Undisturbed
    <2>3. CASE wager[k] # None /\ wager'[k] # wager[k]
        <3>1. wager'[k].cmd = wager[k].cmd
            BY <2>3 DEF RowsMove
        <3>2. wager'[k].cmd.wallet = c.wallet => wager'[k].status # "PROCESSED"
            BY <1>6, <2>3 DEF Undisturbed
        <3> QED BY <1>1, <2>1, <2>3, <3>1, <3>2 DEF NoneSeen, Unordered, IsReference
    <2> QED BY <2>2, <2>3
<1>7. ASSUME HoldsWallet(q), Unsettled(q) PROVE Unsettled(q)'
    <2> SUFFICES ASSUME NEW k \in Keys, wager'[k] # None, IsTerminal(wager'[k])
                 PROVE  NoneSeen(q, k)'
        BY DEF Unsettled
    <2>1. CASE wager'[k] = wager[k]
        BY <1>1, <1>7, <2>1 DEF Unsettled, NoneSeen, Unordered, IsReference
    <2>2. CASE wager'[k] # wager[k]
        BY <1>1, <1>7, <2>2 DEF NoneSeen, Unordered, Undisturbed
    <2> QED BY <2>1, <2>2
<1>8. ASSUME HoldsWallet(q), SomeUnsettled(q) PROVE SomeUnsettled(q)'
    <2>1. PICK k \in Keys : /\ wager[k] # None /\ IsReference(q, wager[k])
                            /\ IsTerminal(wager[k]) => Unordered(q, wager[k])
        BY <1>8 DEF SomeUnsettled
    <2>2. wager'[k] # None /\ wager'[k].cmd = wager[k].cmd
        BY <2>1 DEF RowsMove
    <2>3. (IsTerminal(wager[k]) => Unordered(q, wager[k]))'
        BY <1>1, <1>8, <2>1, <2>2 DEF Unordered, Undisturbed
    <2>4. IsReference(q, wager[k])'
        BY <1>1, <2>1, <2>2 DEF IsReference
    <2> QED BY <1>7, <1>8, <2>2, <2>3, <2>4 DEF SomeUnsettled
<1> QED BY <1>2, <1>4, <1>5, <1>6, <1>7, <1>8

LEMMA DecidedStays ==
    ASSUME IInv, IInv', DInv, NEW q \in Procs, pc[q] = "commit", KeepsWhatItHas(q),
           RowsMove, Undisturbed(q), HoldsWallet(q) => HoldsWallet(q)', lapsed \subseteq lapsed',
           \A k \in Keys : RowInv(k)'
    PROVE  Decided(q)'
<1>1. /\ work'[q] = work[q] /\ snap'[q] = snap[q] /\ plan'[q] = plan[q]
      /\ pc[q] \in DecidingLabels /\ Busy(q)
    BY DEF KeepsWhatItHas, DecidingLabels, Busy
<1>2. q \in Handlers \/ rowLock[work[q].cmd.key] = q
    BY DEF IInv, ProcInv, ResolverInv, HoldingRow, ResolverLabels, Procs
<1>3. /\ Own(q)' = Own(q)
      /\ \A x : Settled(x) => Settled(x)'
      /\ q \in Resolvers /\ IsExhausted(work[q].cmd.key) => IsExhausted(work[q].cmd.key)'
      /\ (HoldsWallet(q) /\ Missing(q)) => Missing(q)'
      /\ (HoldsWallet(q) /\ Unsettled(q)) => Unsettled(q)'
      /\ (HoldsWallet(q) /\ SomeUnsettled(q)) => SomeUnsettled(q)'
    BY <1>1, <1>2, ReadingsStay, ProcsAssumption
<1>4. \A x : Against(q, x) => Against(q, x)'
    BY <1>1, <1>3 DEF Against, IsReference
<1>5. Accepted(q) => Accepted(q)'
    BY <1>1, <1>3 DEF Accepted
<1>6. Own(q).cmd = work[q].cmd
    BY <1>1, OwnUndecided
<1>7. CASE DecidedMissing(q)
    BY <1>1, <1>3, <1>7 DEF DecidedMissing, Decided
<1>8. CASE DecidedByWallet(q)
    <2>1. DecidedByWallet(q)'
        BY <1>1, <1>3, <1>8 DEF DecidedByWallet
    <2> QED BY <2>1 DEF Decided
<1>9. CASE DecidedIdle(q)
    <2>1. DecidedIdle(q)'
        BY <1>1, <1>3, <1>5, <1>9 DEF DecidedIdle
    <2> QED BY <2>1 DEF Decided
<1>10. CASE DecidedPlain(q)
    <2>1. DecidedPlain(q)'
        BY <1>1, <1>3, <1>4, <1>5, <1>10 DEF DecidedPlain
    <2> QED BY <2>1 DEF Decided
<1>11. CASE DecidedDefer(q)
    <2>1. DecidedDefer(q)'
        BY <1>1, <1>3, <1>5, <1>11 DEF DecidedDefer
    <2> QED BY <2>1 DEF Decided
<1>12. CASE DecidedReversal(q)
    <2>1. PICK x \in Row :
              /\ Against(q, x)
              /\ plan[q] = ApplyReversal(Own(q), x, HasActiveReversal(Rows, x.cmd.key), snap[q])
        BY <1>12 DEF DecidedReversal
    <2>2. HoldsWallet(q) /\ RequiresReference(Own(q)) /\ (q \in Handlers => Accepted(q))
        BY <1>12 DEF DecidedReversal
    <2>3. plan'[q] = ApplyReversal(Own(q), x, HasActiveReversal(Rows, x.cmd.key)', snap[q])
        <3>1. CASE ReversalFailure(Own(q), x) # NoCode
            BY <1>1, <2>1, <3>1, ReversalIgnoresActive
        <3>2. CASE ReversalFailure(Own(q), x) = NoCode
            <4>1. Settled(x) /\ x.cmd.wallet = work[q].cmd.wallet
                BY <1>6, <2>1, <3>2, NoSelfReference, ReferenceCodes DEF Against, SameBinding
            <4>2. HasActiveReversal(Rows, x.cmd.key)' <=> HasActiveReversal(Rows, x.cmd.key)
                BY <2>2, <4>1, SlotStays
            <4>3. /\ HasActiveReversal(Rows, x.cmd.key)' \in BOOLEAN
                  /\ HasActiveReversal(Rows, x.cmd.key) \in BOOLEAN
                BY DEF HasActiveReversal
            <4>4. HasActiveReversal(Rows, x.cmd.key)' = HasActiveReversal(Rows, x.cmd.key)
                BY <4>2, <4>3
            <4> QED BY <1>1, <2>1, <4>4
        <3> QED BY <3>1, <3>2
    <2>4. DecidedReversal(q)'
        BY <1>1, <1>3, <1>4, <1>5, <2>1, <2>2, <2>3 DEF DecidedReversal
    <2> QED BY <2>4 DEF Decided
<1>13. CASE DecidedGiveUp(q)
    <2>1. DecidedGiveUp(q)'
        BY <1>1, <1>3, <1>13 DEF DecidedGiveUp
    <2> QED BY <2>1 DEF Decided
<1>14. CASE DecidedFailure(q)
    <2>1. DecidedFailure(q)'
        BY <1>1, <1>3, <1>14 DEF DecidedFailure
    <2> QED BY <2>1 DEF Decided
<1>15. Decided(q)
    BY DEF DInv, DecisionInv
<1> QED BY <1>7, <1>8, <1>9, <1>10, <1>11, <1>12, <1>13, <1>14, <1>15 DEF Decided

LEMMA OthersDecide ==
    ASSUME IInv, IInv', DInv, NEW q \in Procs, KeepsWhatItHas(q), RowsMove, Undisturbed(q),
           (Busy(q) /\ HoldsWallet(q)) => HoldsWallet(q)', lapsed \subseteq lapsed',
           \A k \in Keys : RowInv(k)'
    PROVE  DecisionInv(q)'
<1> DEFINE k == work[q].cmd.key
<1>1. /\ pc'[q] = pc[q] /\ work'[q] = work[q] /\ snap'[q] = snap[q] /\ found'[q] = found[q]
      /\ DecisionInv(q)
    BY DEF KeepsWhatItHas, DInv
<1>2. ASSUME q \in Resolvers, pc[q] \in HoldingRow
      PROVE  rowLock[k] = q /\ wager'[k] = wager[k] /\ k \in Keys /\ Busy(q)
    <2>1. Busy(q)
        BY <1>2 DEF Busy, HoldingRow, ResolverLabels
    <2> QED BY <1>2, <2>1, OwnFacts DEF IInv, ProcInv, ResolverInv, Undisturbed, Busy
<1>3. Busy(q) =>
          /\ q \in Handlers \/ rowLock[k] = q => Own(q)' = Own(q)
          /\ \A x : Settled(x) => Settled(x)'
          /\ (q \in Resolvers /\ rowLock[k] = q /\ IsExhausted(k)) => IsExhausted(work[q].cmd.key)'
    BY ReadingsStay
<1>4. ASSUME q \in Resolvers,
             pc[q] \in {"peek", "peekLast", "settleLock", "reread", "slot", "commit"}
      PROVE  (wager[work[q].cmd.key].status = "PENDING_REFERENCE")'
    BY <1>1, <1>2, <1>4 DEF DecisionInv, HoldingRow, ResolverLabels
<1>5. ASSUME q \in Resolvers, pc[q] \in {"peekLast", "settleLock", "reread"}
      PROVE  (\/ IsExhausted(work[q].cmd.key)
              \/ \E j \in Keys : /\ wager[j] # None /\ IsReference(q, wager[j])
                                 /\ IsTerminal(wager[j]))'
    <2>1. CASE IsExhausted(k)
        BY <1>2, <1>3, <1>5, <2>1 DEF HoldingRow, ResolverLabels
    <2>2. CASE \E j \in Keys : /\ wager[j] # None /\ IsReference(q, wager[j])
                               /\ IsTerminal(wager[j])
        BY <1>1, <2>2 DEF RowsMove, IsReference
    <2> QED BY <1>1, <1>5, <2>1, <2>2 DEF DecisionInv
<1>6. ASSUME pc[q] = "reference"
      PROVE  Accepted(q)' /\ work[q].cmd.kind # "LOSS" /\ work[q].cmd.ref # None
    BY <1>1, <1>3, <1>6 DEF DecisionInv, Accepted, Busy
<1>7. ASSUME pc[q] = "slot"
      PROVE  /\ RequiresReference(Own(q))'
             /\ q \in Handlers => Accepted(q)'
             /\ Settled(found[q])' /\ IsReference(q, found[q])'
             /\ (ReversalFailure(Own(q), found[q]) = NoCode)'
    <2>1. Busy(q) /\ (q \in Handlers \/ rowLock[k] = q)
        BY <1>2, <1>7 DEF Busy, HoldingRow, ResolverLabels, Procs
    <2>2. Own(q)' = Own(q)
        BY <1>3, <2>1
    <2>3. /\ RequiresReference(Own(q)) /\ (q \in Handlers => Accepted(q))
          /\ Settled(found[q]) /\ IsReference(q, found[q])
          /\ ReversalFailure(Own(q), found[q]) = NoCode
        BY <1>1, <1>7 DEF DecisionInv
    <2>4. Settled(found[q])'
        BY <1>1, <1>3, <2>1, <2>3 DEF Settled
    <2> QED BY <1>1, <2>2, <2>3, <2>4 DEF Accepted, IsReference
<1>8. ASSUME pc[q] = "commit" PROVE Decided(q)'
    BY <1>8, DecidedStays DEF Busy
<1> QED BY <1>1, <1>4, <1>5, <1>6, <1>7, <1>8 DEF DecisionInv

-----------------------------------------------------------------------------
(* The steps, by the transaction that takes them. *)

HandlerOnly(p) ==
    \/ \E c \in Commands : BeginHttp(p, c)
    \/ \E d \in Deliveries : BeginDelivery(p, d)
    \/ \E w \in Wallets : InsertWallet(p, w)
    \/ HandlerStep(p)
ResolverOnly(p) == (\E k \in Keys : LockDue(p, k)) \/ ResolverStep(p) \/ Defect(p)
StepOf(p) ==
    \/ p \in Handlers /\ HandlerOnly(p)
    \/ p \in Resolvers /\ ResolverOnly(p)
    \/ ReadSlot(p) \/ Commit(p) \/ Abort(p)

LEMMA NextIsSteps == Next => (\E p \in Procs : StepOf(p)) \/ (\E k \in Keys : Lapse(k))
BY DEF Next, StepOf, HandlerOnly, ResolverOnly, Procs

(* Only three kinds of step publish wagers or money. *)
Publishes(p) ==
    \/ Commit(p)
    \/ p \in Handlers /\ CommitCreation(p)
    \/ p \in Resolvers /\ Reschedule(p)

OthersUntouched(p) ==
    /\ OthersKeep(p)
    /\ \A q \in Procs \ {p} : answer'[q] = answer[q]
    /\ lapsed' = lapsed

LEMMA HandlerFootprint ==
    ASSUME IInv, NEW p \in Handlers, HandlerOnly(p)
    PROVE  /\ OthersUntouched(p)
           /\ Publishes(p) \/ UNCHANGED <<wager, wallet, ledger, outbox>>
<1>1. p \in Procs
    BY DEF Procs
<1> DEFINE Quiet == UNCHANGED <<wager, wallet, ledger, outbox>>
           Local == /\ \A q \in Procs \ {p} :
                          /\ pc'[q] = pc[q] /\ work'[q] = work[q] /\ snap'[q] = snap[q]
                          /\ found'[q] = found[q] /\ plan'[q] = plan[q]
                          /\ answer'[q] = answer[q]
                    /\ lapsed' = lapsed
<1>2. ASSUME Local, UNCHANGED locks PROVE OthersUntouched(p)
    BY <1>2 DEF OthersUntouched, OthersKeep, KeepsWhatItHas, locks
<1>3. CASE (\E c \in Commands : BeginHttp(p, c)) \/ (\E d \in Deliveries : BeginDelivery(p, d))
    <2>1. Local /\ Quiet /\ UNCHANGED locks
        BY <1>1, <1>3 DEF BeginHttp, BeginDelivery, Goto, committed, IInv, TypeOK
    <2> QED BY <1>2, <2>1
<1>4. CASE \E w \in Wallets : InsertWallet(p, w)
    <2>1. Local /\ Quiet /\ UNCHANGED locks
        BY <1>1, <1>4 DEF InsertWallet, Finish, Goto, committed, IInv, TypeOK
    <2> QED BY <1>2, <2>1
<1>5. CASE ReserveInbox(p) \/ ClassifyRedelivery(p) \/ ReserveWager(p)
    <2>1. Local /\ Quiet /\ UNCHANGED locks
        BY <1>1, <1>5 DEF ReserveInbox, ClassifyRedelivery, ReserveWager, Finish, Goto,
                          committed, memory, IInv, TypeOK
    <2> QED BY <1>2, <2>1
<1>6. CASE FindByKey(p) \/ FindByExternal(p) \/ Reply(p)
    <2>1. Local /\ Quiet /\ UNCHANGED locks
        BY <1>1, <1>6 DEF FindByKey, FindByExternal, Reply, Finish, Goto,
                          committed, memory, IInv, TypeOK
    <2> QED BY <1>2, <2>1
<1>7. CASE MissWallet(p) \/ ReadReference(p)
    <2>1. Local /\ Quiet /\ UNCHANGED locks
        BY <1>1, <1>7 DEF MissWallet, ReadReference, Decide, Goto, committed, IInv, TypeOK
    <2> QED BY <1>2, <2>1
<1>8. CASE CommitCreation(p)
    <2>1. Local /\ UNCHANGED locks
        BY <1>1, <1>8 DEF CommitCreation, Finish, Goto, memory, IInv, TypeOK
    <2> QED BY <1>2, <1>8, <2>1 DEF Publishes
<1>9. CASE LockWallet(p)
    <2>1. work[p].cmd.wallet \in Wallets /\ Own(p).cmd = work[p].cmd
        BY <1>1, <1>9, OwnFacts DEF Busy, LockWallet
    <2>2. \A q \in Procs \ {p} : /\ snap'[q] = snap[q]
                                 /\ \A v \in Wallets : walletLock[v] = q => walletLock'[v] = q
        BY <1>1, <1>9, <2>1, TakeFacts DEF LockWallet
    <2>3. Local /\ Quiet /\ rowLock' = rowLock
        BY <1>1, <1>9, <2>2 DEF LockWallet, Decide, Goto, committed, IInv, TypeOK
    <2> QED BY <2>2, <2>3 DEF OthersUntouched, OthersKeep, KeepsWhatItHas
<1> QED BY <1>3, <1>4, <1>5, <1>6, <1>7, <1>8, <1>9 DEF HandlerOnly, HandlerStep

LEMMA WorkerFootprint ==
    ASSUME IInv, NEW p \in Procs,
           \/ p \in Resolvers /\ ResolverOnly(p)
           \/ ReadSlot(p) \/ Commit(p) \/ Abort(p)
    PROVE  /\ OthersUntouched(p)
           /\ Publishes(p) \/ UNCHANGED <<wager, wallet, ledger, outbox>>
<1> DEFINE Quiet == UNCHANGED <<wager, wallet, ledger, outbox>>
           Local == /\ \A q \in Procs \ {p} :
                          /\ pc'[q] = pc[q] /\ work'[q] = work[q] /\ snap'[q] = snap[q]
                          /\ found'[q] = found[q] /\ plan'[q] = plan[q]
                          /\ answer'[q] = answer[q]
                    /\ lapsed' = lapsed
           Locks == \A q \in Procs \ {p} :
                          /\ \A w \in Wallets : walletLock[w] = q => walletLock'[w] = q
                          /\ \A k \in Keys : rowLock[k] = q => rowLock'[k] = q
<1>1. ASSUME Local, Locks PROVE OthersUntouched(p)
    BY <1>1 DEF OthersUntouched, OthersKeep, KeepsWhatItHas
<1>2. None \notin Procs
    BY ProcsAssumption
<1>3. CASE ReadSlot(p)
    <2>1. Local /\ Quiet /\ Locks
        BY <1>3 DEF ReadSlot, Decide, Goto, committed, locks, IInv, TypeOK
    <2> QED BY <1>1, <2>1
<1>4. CASE Abort(p)
    <2>1. Locks
        BY <1>4, ReleaseFacts DEF Abort
    <2>2. Local /\ Quiet
        BY <1>4 DEF Abort, Forget, Goto, committed, IInv, TypeOK
    <2> QED BY <1>1, <2>1, <2>2
<1>5. CASE Commit(p)
    <2>1. Locks
        BY <1>5, ReleaseFacts DEF Commit
    <2>2. Local
        BY <1>5 DEF Commit, Finish, Forget, Goto, IInv, TypeOK
    <2> QED BY <1>1, <1>5, <2>1, <2>2 DEF Publishes
<1>6. CASE p \in Resolvers /\ \E k \in Keys : LockDue(p, k)
    <2>1. Local /\ Quiet /\ Locks
        BY <1>2, <1>6 DEF LockDue, Goto, committed, IInv, TypeOK
    <2> QED BY <1>1, <2>1
<1>7. CASE p \in Resolvers /\ Defect(p)
    <2>1. Locks
        BY <1>7, ReleaseFacts DEF Defect
    <2>2. Local /\ Quiet
        BY <1>7 DEF Defect, Forget, Goto, committed, IInv, TypeOK
    <2> QED BY <1>1, <2>1, <2>2
<1>8. CASE p \in Resolvers /\ Reschedule(p)
    <2>1. Locks
        BY <1>8, ReleaseFacts DEF Reschedule
    <2>2. Local
        BY <1>8 DEF Reschedule, Goto, IInv, TypeOK
    <2> QED BY <1>1, <1>8, <2>1, <2>2 DEF Publishes
<1>9. CASE p \in Resolvers /\ (Peek(p) \/ Reread(p))
    <2>1. Local /\ Quiet /\ Locks
        BY <1>9 DEF Peek, Reread, Decide, Goto, committed, memory, locks, IInv, TypeOK
    <2> QED BY <1>1, <2>1
<1>10. CASE p \in Resolvers /\ SettleLock(p)
    <2>1. work[p].cmd.wallet \in Wallets
        BY <1>10, OwnFacts DEF Busy, SettleLock
    <2>2. \A q \in Procs \ {p} : /\ snap'[q] = snap[q]
                                 /\ \A v \in Wallets : walletLock[v] = q => walletLock'[v] = q
        BY <1>10, <2>1, TakeFacts DEF SettleLock
    <2>3. Local /\ Quiet /\ rowLock' = rowLock
        BY <1>10, <2>2 DEF SettleLock, Goto, committed, IInv, TypeOK
    <2> QED BY <1>1, <2>2, <2>3
<1>11. CASE p \in Resolvers /\ LockFailedRow(p)
    <2>1. Local /\ Quiet /\ Locks
        BY <1>2, <1>11 DEF LockFailedRow, Goto, committed, memory, IInv, TypeOK
    <2> QED BY <1>1, <2>1
<1>12. CASE p \in Resolvers /\ RecordFailure(p)
    <2>1. work[p].cmd.wallet \in Wallets /\ Own(p).cmd = work[p].cmd
        BY <1>12, OwnFacts DEF Busy, RecordFailure
    <2>2. CASE /\ TakeWallet(p, Own(p).cmd.wallet)
               /\ Decide(p, Fail(Own(p), wallet[Own(p).cmd.wallet]))
               /\ UNCHANGED <<rowLock, work, found>>
        <3>1. \A q \in Procs \ {p} : /\ snap'[q] = snap[q]
                                     /\ \A v \in Wallets : walletLock[v] = q => walletLock'[v] = q
            BY <2>1, <2>2, TakeFacts
        <3>2. Local /\ Quiet /\ rowLock' = rowLock
            BY <1>12, <2>2, <3>1 DEF RecordFailure, Decide, Goto, committed, IInv, TypeOK
        <3> QED BY <1>1, <3>1, <3>2
    <2>3. CASE /\ ReleaseLocks(p) /\ Forget(p) /\ Goto(p, "idle")
               /\ work' = [work EXCEPT ![p] = NoWork]
        <3>1. Locks
            BY <2>3, ReleaseFacts
        <3>2. Local /\ Quiet
            BY <1>12, <2>3 DEF RecordFailure, Forget, Goto, committed, IInv, TypeOK
        <3> QED BY <1>1, <3>1, <3>2
    <2> QED BY <1>12, <2>2, <2>3 DEF RecordFailure
<1> QED BY <1>3, <1>4, <1>5, <1>6, <1>7, <1>8, <1>9, <1>10, <1>11, <1>12
        DEF ResolverOnly, ResolverStep

LEMMA Footprint ==
    ASSUME IInv, NEW p \in Procs, StepOf(p)
    PROVE  /\ OthersUntouched(p)
           /\ Publishes(p) \/ UNCHANGED <<wager, wallet, ledger, outbox>>
BY HandlerFootprint, WorkerFootprint DEF StepOf

-----------------------------------------------------------------------------
(* The steps that publish nothing: what the transaction itself reads and    *)
(* decides is true when it does.                                           *)

LEMMA SameReadings ==
    ASSUME NEW p \in Procs, UNCHANGED <<wager, wallet, lapsed>>, work'[p] = work[p]
    PROVE  /\ Own(p)' = Own(p) /\ Rows' = Rows
           /\ \A x : Settled(x)' <=> Settled(x)
           /\ \A x : Against(p, x) => Against(p, x)'
           /\ \A x : HasActiveReversal(Rows, x.cmd.key)' = HasActiveReversal(Rows, x.cmd.key)
           /\ IsExhausted(work[p].cmd.key) => IsExhausted(work[p].cmd.key)'
           /\ Missing(p) => Missing(p)'
           /\ Unsettled(p) => Unsettled(p)'
           /\ SomeUnsettled(p) => SomeUnsettled(p)'
<1>1. Own(p)' = Own(p)
    BY DEF Own
<1>2. Rows' = Rows
    BY DEF Rows
<1>3. \A x : Settled(x)' <=> Settled(x)
    BY DEF Settled
<1>4. \A x : Against(p, x) => Against(p, x)'
    BY <1>1, <1>3 DEF Against, IsReference
<1>5. \A x : HasActiveReversal(Rows, x.cmd.key)' = HasActiveReversal(Rows, x.cmd.key)
    BY <1>2
<1>6. IsExhausted(work[p].cmd.key) => IsExhausted(work[p].cmd.key)'
    BY DEF IsExhausted
<1>7. \A k \in Keys : NoneSeen(p, k)' <=> NoneSeen(p, k)
    BY DEF NoneSeen, Unordered, IsReference
<1>8. Missing(p) => Missing(p)'
    BY <1>7 DEF Missing
<1>9. Unsettled(p) => Unsettled(p)'
    BY <1>7 DEF Unsettled
<1>10. SomeUnsettled(p) => SomeUnsettled(p)'
    BY <1>9 DEF SomeUnsettled, Unordered, IsReference
<1> QED BY <1>1, <1>2, <1>3, <1>4, <1>5, <1>6, <1>8, <1>9, <1>10

OwnExtStaysFree(p) ==
    pc'[p] \in Reserving =>
        /\ \A k \in Keys : wager[k] # None => wager[k].cmd.ext # work'[p].cmd.ext
        /\ \A q \in Handlers \ {p} : pc[q] \in Reserving => work'[p].cmd.ext # work[q].cmd.ext

LEMMA SameExt ==
    ASSUME DInv, NEW p \in Handlers,
           pc'[p] \in Reserving => pc[p] \in Reserving /\ work'[p] = work[p]
    PROVE  OwnExtStaysFree(p)
BY DEF OwnExtStaysFree, DInv, ReservedExtIsFree, DistinctExts

LEMMA PrivateStep ==
    ASSUME IInv, IInv', DInv, NEW p \in Procs, OthersUntouched(p),
           UNCHANGED <<wager, wallet, ledger, outbox>>, DecisionInv(p)',
           p \in Handlers => OwnExtStaysFree(p)
    PROVE  DInv'
<1>1. \A q \in Procs \ {p} : pc'[q] = pc[q] /\ work'[q] = work[q]
    BY DEF OthersUntouched, OthersKeep, KeepsWhatItHas
<1>2. \A k \in Keys : RowInv(k)'
    BY DEF DInv, RowInv
<1>3. ASSUME NEW q \in Procs \ {p} PROVE DecisionInv(q)'
    <2>1. KeepsWhatItHas(q) /\ lapsed \subseteq lapsed'
        BY DEF OthersUntouched, OthersKeep
    <2>2. RowsMove /\ Undisturbed(q)
        BY DEF RowsMove, Undisturbed
    <2>3. (Busy(q) /\ HoldsWallet(q)) => HoldsWallet(q)'
        BY <1>1, <2>1, OwnFacts DEF HoldsWallet, KeepsWhatItHas
    <2> QED BY <1>2, <2>1, <2>2, <2>3, OthersDecide
<1>4. ExtsAreUnique' /\ \A w \in Existing : wallet'[w] # None
    BY DEF DInv, ExtsAreUnique
<1>5. ASSUME NEW q \in Handlers PROVE ReservedExtIsFree(q)'
    BY <1>1 DEF DInv, ReservedExtIsFree, OwnExtStaysFree, Procs
<1>6. DistinctExts'
    <2> SUFFICES ASSUME NEW q \in Handlers, NEW r \in Handlers, q # r,
                        pc'[q] \in Reserving, pc'[r] \in Reserving
                 PROVE  work'[q].cmd.ext # work'[r].cmd.ext
        BY DEF DistinctExts
    <2>1. CASE q = p \/ r = p
        BY <1>1, <2>1 DEF OwnExtStaysFree, Procs
    <2>2. CASE q # p /\ r # p
        BY <1>1, <2>2 DEF DInv, DistinctExts, Procs
    <2> QED BY <2>1, <2>2
<1> QED BY <1>2, <1>3, <1>4, <1>5, <1>6 DEF DInv

(* A transaction that is not near a decision claims nothing. *)
LEMMA NothingClaimed ==
    ASSUME NEW p \in Procs, pc'[p] \notin {"reference", "slot", "commit"},
           p \in Resolvers => pc'[p] \in {"idle", "reply", "failRow", "failWallet"}
    PROVE  DecisionInv(p)'
BY DEF DecisionInv

LEMMA FirstStatements ==
    ASSUME IInv, IInv', DInv, NEW p \in Handlers, HandlerOnly(p),
           ~ (MissWallet(p) \/ LockWallet(p) \/ ReadReference(p) \/ CommitCreation(p))
    PROVE  DInv'
<1>1. p \in Procs /\ p \notin Resolvers
    BY ProcsAssumption DEF Procs
<1>2. ~ Publishes(p)
    <2>1. pc[p] # "commit"
        BY DEF HandlerOnly, HandlerStep, BeginHttp, BeginDelivery, InsertWallet, ReserveInbox,
               ClassifyRedelivery, ReserveWager, FindByKey, FindByExternal, Reply
    <2> QED BY <1>1, <2>1 DEF Publishes, Commit
<1>3. OthersUntouched(p) /\ UNCHANGED <<wager, wallet, ledger, outbox>>
    BY <1>1, <1>2, HandlerFootprint
<1>4. \/ pc'[p] \notin Reserving
      \/ ReserveWager(p) /\ pc'[p] = "lock"
    BY <1>1 DEF HandlerOnly, HandlerStep, BeginHttp, BeginDelivery, InsertWallet, ReserveInbox,
           ClassifyRedelivery, ReserveWager, FindByKey, FindByExternal, Reply, Goto, Finish,
           Reserving, IInv, TypeOK
<1>5. OwnExtStaysFree(p)
    <2>1. CASE pc'[p] \notin Reserving
        BY <2>1 DEF OwnExtStaysFree
    <2>2. CASE ReserveWager(p) /\ pc'[p] = "lock"
        <3> DEFINE c == work[p].cmd
        <3>1. work' = work /\ \A q \in Handlers \ {p} : ~ HoldsIdentity(q, c)
            BY <2>2 DEF ReserveWager, memory
        <3>2. ~ \E r \in Rows : r.cmd.key = c.key \/ r.cmd.ext = c.ext
            BY <1>1, <2>2 DEF ReserveWager, Goto, IInv, TypeOK
        <3> QED BY <3>1, <3>2, RowsFacts DEF OwnExtStaysFree, HoldsIdentity, Reserving
    <2> QED BY <1>4, <2>1, <2>2
<1>6. DecisionInv(p)'
    BY <1>1, <1>4, NothingClaimed DEF Reserving
<1> QED BY <1>1, <1>3, <1>5, <1>6, PrivateStep

(* What findByExternalId tells a transaction about the reference. *)
LEMMA LookupSees ==
    ASSUME IInv, DInv, NEW p \in Procs, pc[p] \in DecidingLabels,
           NEW x, x = Lookup(p, work[p].cmd.ref)
    PROVE  /\ x = None =>
                 /\ \A k \in Keys : wager[k] # None => ~ IsReference(p, wager[k])
                 /\ p \in Handlers => work[p].cmd.ext # work[p].cmd.ref
           /\ x # None => IsReference(p, x) /\ (x \in Rows \/ (p \in Handlers /\ x = Own(p)))
           /\ x \in Rows =>
                 /\ \A k \in Keys : (wager[k] # None /\ IsReference(p, wager[k])) => wager[k] = x
                 /\ p \in Handlers => work[p].cmd.ext # work[p].cmd.ref
<1> DEFINE c == work[p].cmd
           visible == Rows \cup (IF p \in Handlers THEN {Own(p)} ELSE {})
           hits == {r \in visible : r.cmd.ext = c.ref}
<1>1. Own(p).cmd = c /\ (p \in Handlers => pc[p] \in Reserving)
    BY OwnUndecided DEF DecidingLabels, Reserving, IInv, ProcInv, HandlerInv, HandlerLabels
<1>2. x = IF hits = {} THEN None ELSE CHOOSE r \in hits : TRUE
    BY DEF Lookup
<1>3. None \notin visible
    BY OwnUndecided, RowsFacts, NoneAssumption DEF Undecided
<1>4. hits # {} => x \in hits
    BY <1>2
<1>5. \A k \in Keys : wager[k] # None => wager[k] \in Rows
    BY RowsFacts
<1>6. x = None => hits = {}
    BY <1>3, <1>4
<1>7. ASSUME x \in Rows
      PROVE  /\ x.cmd.ext = c.ref
             /\ \A k \in Keys : (wager[k] # None /\ wager[k].cmd.ext = c.ref) => wager[k] = x
             /\ p \in Handlers => c.ext # c.ref
    <2>1. x # None /\ x.cmd.key \in Keys /\ wager[x.cmd.key] = x
        BY <1>7, RowsFacts
    <2>2. x.cmd.ext = c.ref
        BY <1>2, <1>4, <2>1
    <2>3. \A k \in Keys : (wager[k] # None /\ wager[k].cmd.ext = c.ref) => k = x.cmd.key
        BY <2>1, <2>2 DEF DInv, ExtsAreUnique
    <2>4. p \in Handlers => x.cmd.ext # c.ext
        BY <1>1, <2>1 DEF DInv, ReservedExtIsFree
    <2> QED BY <2>1, <2>2, <2>3, <2>4
<1>8. x = None => /\ \A k \in Keys : wager[k] # None => wager[k].cmd.ext # c.ref
                  /\ p \in Handlers => c.ext # c.ref
    BY <1>1, <1>5, <1>6
<1>9. x # None => x.cmd.ext = c.ref /\ (x \in Rows \/ (p \in Handlers /\ x = Own(p)))
    BY <1>2, <1>4
<1> QED BY <1>7, <1>8, <1>9 DEF IsReference

(* A transaction that reads and decides; its reservation stays as it was. *)
LEMMA InsideStep ==
    ASSUME IInv, IInv', DInv, NEW p \in Procs, StepOf(p), UNCHANGED <<committed, work>>,
           p \in Handlers => pc[p] \in Reserving, DecisionInv(p)'
    PROVE  DInv'
<1>1. OthersUntouched(p) /\ UNCHANGED <<wager, wallet, ledger, outbox>>
    BY Footprint DEF committed
<1>2. p \in Handlers => OwnExtStaysFree(p)
    BY SameExt
<1> QED BY <1>1, <1>2, PrivateStep

LEMMA DecidesNow ==
    ASSUME IInv, IInv', DInv, NEW p \in Procs, StepOf(p), UNCHANGED <<committed, work>>,
           pc[p] \in DecidingLabels, pc'[p] = "commit", Decided(p)'
    PROVE  DInv'
<1>1. p \in Handlers => pc[p] \in Reserving
    BY DEF IInv, ProcInv, HandlerInv, HandlerLabels, Reserving, DecidingLabels
<1>2. ASSUME p \in Resolvers PROVE (wager[work[p].cmd.key].status = "PENDING_REFERENCE")'
    <2>1. wager[work[p].cmd.key].status = "PENDING_REFERENCE"
        BY <1>2, OwnUndecided, PendingFacts
    <2> QED BY <2>1 DEF committed
<1>3. DecisionInv(p)'
    BY <1>2 DEF DecisionInv
<1> QED BY <1>1, <1>3, InsideStep

LEMMA MissWalletDecides ==
    ASSUME IInv, IInv', DInv, NEW p \in Handlers, MissWallet(p)
    PROVE  DInv'
<1>1. /\ p \in Procs /\ StepOf(p) /\ pc[p] \in DecidingLabels
      /\ wallet[work[p].cmd.wallet] = None
      /\ UNCHANGED <<committed, lapsed, work>>
    BY DEF Procs, StepOf, HandlerOnly, HandlerStep, MissWallet, DecidingLabels
<1>2. pc'[p] = "commit" /\ plan'[p] = Reject(Own(p), "WALLET_NOT_FOUND", NoBalance)
    BY <1>1 DEF MissWallet, Decide, Goto, IInv, TypeOK
<1>3. work[p].cmd.wallet \notin Existing
    BY <1>1 DEF DInv
<1>4. Own(p)' = Own(p) /\ work'[p] = work[p]
    BY <1>1, SameReadings DEF committed
<1>5. DecidedMissing(p)'
    BY <1>2, <1>3, <1>4 DEF DecidedMissing
<1>6. Decided(p)'
    BY <1>5 DEF Decided
<1> QED BY <1>1, <1>2, <1>6, DecidesNow

LEMMA LockWalletDecides ==
    ASSUME IInv, IInv', DInv, NEW p \in Handlers, LockWallet(p)
    PROVE  DInv'
<1> DEFINE own == Own(p)
           w == wallet[own.cmd.wallet]
           failure == WalletFailure(own, w)
<1>1. /\ p \in Procs /\ StepOf(p) /\ pc[p] = "lock" /\ pc[p] \in DecidingLabels
      /\ TakeWallet(p, own.cmd.wallet)
      /\ UNCHANGED <<committed, lapsed, rowLock, work, found, answer>>
    BY DEF Procs, StepOf, HandlerOnly, HandlerStep, LockWallet, DecidingLabels
<1>2. /\ own.cmd = work[p].cmd /\ own.cmd \in Commands /\ own.cmd.wallet \in Wallets
      /\ p \notin Resolvers
    BY <1>1, OwnUndecided, ProcsAssumption
<1>3. w \in WalletRow /\ walletLock'[own.cmd.wallet] = p /\ snap'[p] = w
    BY <1>1, <1>2, TakeFacts
<1>4. Own(p)' = own /\ work'[p] = work[p] /\ HoldsWallet(p)'
    BY <1>1, <1>2, <1>3, SameReadings, NoneAssumption DEF HoldsWallet, committed
<1>5. ASSUME NEW o, Decide(p, o) PROVE pc'[p] = "commit" /\ plan'[p] = o
    BY <1>1, <1>5 DEF Decide, Goto, IInv, TypeOK
<1>6. failure = NoCode => Accepted(p)'
    BY <1>3, <1>4 DEF Accepted
<1>7. \/ failure # NoCode /\ Decide(p, Reject(own, failure, DisclosedBalance(failure, w)))
      \/ failure = NoCode /\ own.cmd.kind = "LOSS" /\ Decide(p, ProcessIdle(own, w))
      \/ /\ failure = NoCode /\ own.cmd.kind # "LOSS" /\ own.cmd.ref = None
         /\ Decide(p, ApplyPlain(own, None, w))
      \/ /\ failure = NoCode /\ own.cmd.kind # "LOSS" /\ own.cmd.ref # None
         /\ Goto(p, "reference")
    BY DEF LockWallet
<1> HIDE DEF own, w
<1>8. CASE failure # NoCode /\ Decide(p, Reject(own, failure, DisclosedBalance(failure, w)))
    <2>1. DecidedByWallet(p)'
        BY <1>3, <1>4, <1>5, <1>8 DEF DecidedByWallet
    <2>2. Decided(p)'
        BY <2>1 DEF Decided
    <2> QED BY <1>1, <1>5, <1>8, <2>2, DecidesNow
<1>9. CASE failure = NoCode /\ own.cmd.kind = "LOSS" /\ Decide(p, ProcessIdle(own, w))
    <2>1. DecidedIdle(p)'
        BY <1>2, <1>3, <1>4, <1>5, <1>6, <1>9 DEF DecidedIdle
    <2>2. Decided(p)'
        BY <2>1 DEF Decided
    <2> QED BY <1>1, <1>5, <1>9, <2>2, DecidesNow
<1>10. CASE /\ failure = NoCode /\ own.cmd.kind # "LOSS" /\ own.cmd.ref = None
            /\ Decide(p, ApplyPlain(own, None, w))
    <2>1. own.cmd.kind \in {"BET", "WIN"}
        BY <1>2, <1>10, SubmittedAssumption DEF ReversalKinds
    <2>2. DecidedPlain(p)'
        BY <1>2, <1>3, <1>4, <1>5, <1>6, <1>10, <2>1 DEF DecidedPlain
    <2>3. Decided(p)'
        BY <2>2 DEF Decided
    <2> QED BY <1>1, <1>5, <1>10, <2>3, DecidesNow
<1>11. CASE /\ failure = NoCode /\ own.cmd.kind # "LOSS" /\ own.cmd.ref # None
            /\ Goto(p, "reference")
    <2>1. pc'[p] = "reference"
        BY <1>1, <1>11 DEF Goto, IInv, TypeOK
    <2>2. DecisionInv(p)'
        BY <1>2, <1>4, <1>6, <1>11, <2>1 DEF DecisionInv
    <2> QED BY <1>1, <2>2, InsideStep DEF Reserving
<1> QED BY <1>7, <1>8, <1>9, <1>10, <1>11

(* What a submission concludes from the look-up of its reference. *)
LEMMA HandlerSees ==
    ASSUME IInv, DInv, NEW p \in Handlers, pc[p] \in DecidingLabels,
           NEW x, x = Lookup(p, work[p].cmd.ref)
    PROVE  /\ (IF x = None THEN FALSE ELSE IsDecidable(Own(p), x)) =>
                 x \in Row /\ x # None /\ Against(p, x)
           /\ ~ (IF x = None THEN FALSE ELSE IsDecidable(Own(p), x)) =>
                 Unsettled(p) /\ work[p].cmd.ext # work[p].cmd.ref
<1>1. p \in Procs /\ Own(p) \in Row /\ Own(p).cmd = work[p].cmd
      /\ wager[work[p].cmd.key] = None
    BY OwnUndecided DEF Procs, Undecided
<1>2. /\ x = None =>
            /\ \A k \in Keys : wager[k] # None => ~ IsReference(p, wager[k])
            /\ work[p].cmd.ext # work[p].cmd.ref
      /\ x # None => IsReference(p, x) /\ (x \in Rows \/ x = Own(p))
      /\ x \in Rows =>
            /\ \A k \in Keys : (wager[k] # None /\ IsReference(p, wager[k])) => wager[k] = x
            /\ work[p].cmd.ext # work[p].cmd.ref
    BY <1>1, LookupSees
<1>3. x \in Rows => x.cmd.key # Own(p).cmd.key /\ x \in Row
                    /\ (IsTerminal(x) => Settled(x))
    BY <1>1, RowsFacts DEF Settled
<1>4. CASE x = None
    BY <1>2, <1>4 DEF Unsettled, NoneSeen
<1>5. CASE x # None /\ x \in Rows
    <2>1. IsDecidable(Own(p), x) <=> IsTerminal(x)
        BY <1>3, <1>5 DEF IsDecidable
    <2> QED BY <1>2, <1>3, <1>5, <2>1 DEF Unsettled, NoneSeen, Against
<1>6. CASE x # None /\ x = Own(p)
    <2>1. IsDecidable(Own(p), x)
        BY <1>6 DEF IsDecidable
    <2> QED BY <1>1, <1>2, <1>6, <2>1 DEF Against
<1> QED BY <1>2, <1>4, <1>5, <1>6

LEMMA ReadReferenceDecides ==
    ASSUME IInv, IInv', DInv, NEW p \in Handlers, ReadReference(p)
    PROVE  DInv'
<1> DEFINE own == Own(p)
<1>0. PICK x : x = Lookup(p, own.cmd.ref)
    OBVIOUS
<1> DEFINE decidable == IF x = None THEN FALSE ELSE IsDecidable(own, x)
<1>1. /\ p \in Procs /\ StepOf(p) /\ pc[p] = "reference" /\ pc[p] \in DecidingLabels
      /\ UNCHANGED <<committed, lapsed, locks, work, snap, answer>>
    BY DEF Procs, StepOf, HandlerOnly, HandlerStep, ReadReference, DecidingLabels
<1>2. /\ own.cmd = work[p].cmd /\ own.cmd \in Commands /\ p \notin Resolvers
    BY <1>1, OwnUndecided, ProcsAssumption
<1>3. Accepted(p) /\ own.cmd.kind # "LOSS" /\ own.cmd.ref # None /\ HoldsWallet(p)
    BY <1>1, <1>2 DEF DInv, DecisionInv, IInv, ProcInv, MoneyInv
<1>4. /\ decidable => x \in Row /\ x # None /\ Against(p, x)
      /\ ~ decidable => Unsettled(p) /\ work[p].cmd.ext # work[p].cmd.ref
    BY <1>0, <1>1, <1>2, HandlerSees
<1>5. \/ /\ ~ RequiresReference(own)
         /\ Decide(p, ApplyPlain(own, IF decidable THEN x ELSE None, snap[p]))
      \/ RequiresReference(own) /\ ~ decidable /\ Decide(p, Defer(own, snap[p]))
      \/ /\ RequiresReference(own) /\ decidable /\ ReversalFailure(own, x) # NoCode
         /\ Decide(p, ApplyReversal(own, x, FALSE, snap[p]))
      \/ /\ RequiresReference(own) /\ decidable /\ ReversalFailure(own, x) = NoCode
         /\ found' = [found EXCEPT ![p] = x] /\ Goto(p, "slot")
    BY <1>0 DEF ReadReference
<1>6. own.cmd.kind \in {"BET", "WIN"} \/ RequiresReference(own)
    BY <1>2, <1>3, SubmittedAssumption DEF RequiresReference, ReversalKinds
<1>7. /\ Own(p)' = own /\ work'[p] = work[p] /\ snap'[p] = snap[p]
      /\ UNCHANGED <<wager, wallet, lapsed>>
      /\ \A y : Settled(y)' <=> Settled(y)
      /\ \A y : Against(p, y) => Against(p, y)'
      /\ \A y : HasActiveReversal(Rows, y.cmd.key)' = HasActiveReversal(Rows, y.cmd.key)
      /\ Unsettled(p) => Unsettled(p)'
    <2>1. /\ UNCHANGED <<wager, wallet, lapsed>>
          /\ work'[p] = work[p] /\ snap'[p] = snap[p]
        BY <1>1 DEF committed
    <2>2. /\ Own(p)' = Own(p)
          /\ \A y : Settled(y)' <=> Settled(y)
          /\ \A y : Against(p, y) => Against(p, y)'
          /\ Unsettled(p) => Unsettled(p)'
        BY <1>1, <2>1, SameReadings
    <2>3. \A y : HasActiveReversal(Rows, y.cmd.key)' = HasActiveReversal(Rows, y.cmd.key)
        BY <1>1, <2>1, SameReadings
    <2> QED BY <2>1, <2>2, <2>3
<1> HIDE DEF own, decidable
<1>8. HoldsWallet(p)' /\ Accepted(p)'
    BY <1>1, <1>3, <1>7 DEF HoldsWallet, Accepted, own, committed, locks
<1>9. ASSUME NEW o, Decide(p, o) PROVE pc'[p] = "commit" /\ plan'[p] = o
    BY <1>1, <1>9 DEF Decide, Goto, IInv, TypeOK
<1>10. CASE /\ ~ RequiresReference(own)
            /\ Decide(p, ApplyPlain(own, IF decidable THEN x ELSE None, snap[p]))
    <2>1. DecidedPlain(p)'
        BY <1>2, <1>3, <1>4, <1>6, <1>7, <1>8, <1>9, <1>10 DEF DecidedPlain
    <2>2. Decided(p)'
        BY <2>1 DEF Decided
    <2> QED BY <1>1, <1>9, <1>10, <2>2, DecidesNow
<1>11. CASE RequiresReference(own) /\ ~ decidable /\ Decide(p, Defer(own, snap[p]))
    <2>1. DecidedDefer(p)'
        BY <1>2, <1>4, <1>7, <1>8, <1>9, <1>11 DEF DecidedDefer
    <2>2. Decided(p)'
        BY <2>1 DEF Decided
    <2> QED BY <1>1, <1>9, <1>11, <2>2, DecidesNow
<1>12. CASE /\ RequiresReference(own) /\ decidable /\ ReversalFailure(own, x) # NoCode
            /\ Decide(p, ApplyReversal(own, x, FALSE, snap[p]))
    <2>1. plan'[p] = ApplyReversal(own, x, HasActiveReversal(Rows, x.cmd.key)', snap[p])
        BY <1>9, <1>12, ReversalIgnoresActive
    <2>2. DecidedReversal(p)'
        BY <1>4, <1>7, <1>8, <1>12, <2>1 DEF DecidedReversal
    <2>3. Decided(p)'
        BY <2>2 DEF Decided
    <2> QED BY <1>1, <1>9, <1>12, <2>3, DecidesNow
<1>13. CASE /\ RequiresReference(own) /\ decidable /\ ReversalFailure(own, x) = NoCode
            /\ found' = [found EXCEPT ![p] = x] /\ Goto(p, "slot")
    <2>1. pc'[p] = "slot" /\ found'[p] = x
        BY <1>1, <1>13 DEF Goto, IInv, TypeOK
    <2>2. Settled(x)
        BY <1>4, <1>13, NoSelfReference DEF Against, own
    <2>3. Settled(x)' /\ IsReference(p, x)'
        BY <1>4, <1>7, <1>13, <2>2 DEF Against, IsReference
    <2>4. Settled(found[p])' /\ IsReference(p, found[p])'
        BY <2>1, <2>3 DEF Settled, IsReference
    <2>5. DecisionInv(p)'
        BY <1>2, <1>7, <1>8, <1>13, <2>1, <2>4 DEF DecisionInv
    <2> QED BY <1>1, <2>5, InsideStep DEF Reserving
<1> QED BY <1>5, <1>10, <1>11, <1>12, <1>13

LEMMA ReadSlotDecides ==
    ASSUME IInv, IInv', DInv, NEW p \in Procs, ReadSlot(p)
    PROVE  DInv'
<1>1. /\ StepOf(p) /\ pc[p] = "slot" /\ pc[p] \in DecidingLabels
      /\ UNCHANGED <<committed, lapsed, locks, work, snap, found, answer>>
    BY DEF StepOf, ReadSlot, DecidingLabels
<1>2. /\ RequiresReference(Own(p)) /\ (p \in Handlers => Accepted(p))
      /\ Settled(found[p]) /\ IsReference(p, found[p]) /\ HoldsWallet(p)
    BY <1>1 DEF DInv, DecisionInv, IInv, ProcInv, MoneyInv
<1>3. PICK x \in Row : x = found[p] /\ Against(p, x)
    BY <1>2, SettledFacts DEF Against
<1>4. pc'[p] = "commit" /\
      plan'[p] = ApplyReversal(Own(p), x, HasActiveReversal(Rows, x.cmd.key), snap[p])
    BY <1>1, <1>3 DEF ReadSlot, Decide, Goto, IInv, TypeOK
<1>5. UNCHANGED <<wager, wallet, lapsed>> /\ work'[p] = work[p] /\ snap'[p] = snap[p]
    BY <1>1 DEF committed
<1>6. Own(p)' = Own(p) /\ Against(p, x)'
    BY <1>3, <1>5, SameReadings
<1>7. HasActiveReversal(Rows, x.cmd.key)' = HasActiveReversal(Rows, x.cmd.key)
    BY <1>5, SameReadings
<1>8. HoldsWallet(p)' /\ (p \in Handlers => Accepted(p)')
    BY <1>1, <1>2, <1>6 DEF HoldsWallet, Accepted, committed, locks
<1>9. DecidedReversal(p)'
    BY <1>2, <1>4, <1>5, <1>6, <1>7, <1>8 DEF DecidedReversal
<1>10. Decided(p)'
    BY <1>9 DEF Decided
<1> QED BY <1>1, <1>4, <1>10, DecidesNow

(* A worker looks for the reference among the committed rows only. *)
LEMMA WorkerSees ==
    ASSUME IInv, DInv, NEW p \in Resolvers, pc[p] \in DecidingLabels,
           NEW x, x = Lookup(p, work[p].cmd.ref)
    PROVE  /\ x = None => Missing(p)
           /\ (x # None /\ ~ IsTerminal(x)) => SomeUnsettled(p)
           /\ (x # None /\ IsTerminal(x)) => x \in Row /\ Settled(x) /\ Against(p, x)
           /\ (\E k \in Keys : wager[k] # None /\ IsReference(p, wager[k]) /\ IsTerminal(wager[k]))
                 <=> IsResolvable(x)
<1>1. p \in Procs /\ p \notin Handlers
    BY ProcsAssumption DEF Procs
<1>2. /\ x = None => \A k \in Keys : wager[k] # None => ~ IsReference(p, wager[k])
      /\ x # None => IsReference(p, x) /\ x \in Rows
      /\ x \in Rows => \A k \in Keys : (wager[k] # None /\ IsReference(p, wager[k])) => wager[k] = x
    BY <1>1, LookupSees
<1>3. x \in Rows => x \in Row /\ x.cmd.key \in Keys /\ wager[x.cmd.key] = x /\ x # None
    BY RowsFacts
<1>4. CASE x = None
    BY <1>2, <1>4 DEF Missing, NoneSeen, IsResolvable
<1>5. CASE x # None
    <2>1. /\ x \in Row /\ IsReference(p, x) /\ x.cmd.key \in Keys /\ wager[x.cmd.key] = x
          /\ \A k \in Keys : (wager[k] # None /\ IsReference(p, wager[k])) => wager[k] = x
        BY <1>2, <1>3, <1>5
    <2>2. ~ IsTerminal(x) => SomeUnsettled(p)
        <3>1. ~ IsTerminal(x) => Unsettled(p)
            BY <2>1 DEF Unsettled, NoneSeen
        <3> QED BY <1>5, <2>1, <3>1 DEF SomeUnsettled
    <2>3. IsTerminal(x) => Settled(x) /\ Against(p, x)
        BY <2>1 DEF Settled, Against
    <2> QED BY <1>5, <2>1, <2>2, <2>3 DEF IsResolvable
<1> QED BY <1>4, <1>5

LEMMA RereadDecides ==
    ASSUME IInv, IInv', DInv, NEW p \in Resolvers, Reread(p)
    PROVE  DInv'
<1> DEFINE own == Own(p)
<1>0. PICK x : x = Lookup(p, own.cmd.ref)
    OBVIOUS
<1>1. /\ p \in Procs /\ StepOf(p) /\ pc[p] = "reread" /\ pc[p] \in DecidingLabels
      /\ p \notin Handlers
      /\ UNCHANGED <<committed, lapsed, locks, work, snap, answer>>
    BY ProcsAssumption DEF Procs, StepOf, ResolverOnly, ResolverStep, Reread, DecidingLabels
<1>2. own.cmd = work[p].cmd /\ RequiresReference(own) /\ HoldsWallet(p)
    BY <1>1, OwnUndecided DEF IInv, ProcInv, MoneyInv
<1>3. /\ x = None => Missing(p)
      /\ (x # None /\ ~ IsTerminal(x)) => SomeUnsettled(p)
      /\ (x # None /\ IsTerminal(x)) => x \in Row /\ Settled(x) /\ Against(p, x)
      /\ ~ IsResolvable(x) => IsExhausted(work[p].cmd.key)
    <2>1. \/ IsExhausted(work[p].cmd.key)
          \/ \E k \in Keys : wager[k] # None /\ IsReference(p, wager[k]) /\ IsTerminal(wager[k])
        BY <1>1 DEF DInv, DecisionInv
    <2> QED BY <1>0, <1>1, <1>2, <2>1, WorkerSees
<1>4. \/ ~ IsResolvable(x) /\ x = None /\ Decide(p, Reject(own, "REFERENCE_NOT_FOUND", snap[p].balance))
      \/ ~ IsResolvable(x) /\ x # None
         /\ Decide(p, Reject(own, "REFERENCE_NOT_PROCESSED", snap[p].balance))
      \/ /\ IsResolvable(x) /\ ReversalFailure(own, x) # NoCode
         /\ Decide(p, ApplyReversal(own, x, FALSE, snap[p]))
      \/ /\ IsResolvable(x) /\ ReversalFailure(own, x) = NoCode
         /\ found' = [found EXCEPT ![p] = x] /\ Goto(p, "slot")
    BY <1>0 DEF Reread
<1>5. IsResolvable(x) <=> x # None /\ IsTerminal(x)
    BY DEF IsResolvable
<1>6. UNCHANGED <<wager, wallet, lapsed>> /\ work'[p] = work[p] /\ snap'[p] = snap[p]
    BY <1>1 DEF committed
<1>7. /\ Own(p)' = own
      /\ Settled(x)' <=> Settled(x)
      /\ Against(p, x) => Against(p, x)'
      /\ IsExhausted(work[p].cmd.key) => IsExhausted(work[p].cmd.key)'
      /\ Missing(p) => Missing(p)'
      /\ SomeUnsettled(p) => SomeUnsettled(p)'
    BY <1>1, <1>6, SameReadings
<1>8. HoldsWallet(p)'
    BY <1>1, <1>2 DEF HoldsWallet, committed, locks
<1> HIDE DEF own
<1>9. ASSUME NEW o, Decide(p, o) PROVE pc'[p] = "commit" /\ plan'[p] = o
    BY <1>1, <1>9 DEF Decide, Goto, IInv, TypeOK
<1>10. ASSUME Decided(p)', pc'[p] = "commit" PROVE DInv'
    BY <1>1, <1>10, DecidesNow
<1>11. CASE ~ IsResolvable(x) /\ x = None /\ Decide(p, Reject(own, "REFERENCE_NOT_FOUND", snap[p].balance))
    <2>1. DecidedGiveUp(p)'
        BY <1>3, <1>6, <1>7, <1>8, <1>9, <1>11 DEF DecidedGiveUp
    <2>2. Decided(p)'
        BY <2>1 DEF Decided
    <2> QED BY <1>9, <1>10, <1>11, <2>2
<1>12. CASE ~ IsResolvable(x) /\ x # None
            /\ Decide(p, Reject(own, "REFERENCE_NOT_PROCESSED", snap[p].balance))
    <2>1. DecidedGiveUp(p)'
        BY <1>3, <1>5, <1>6, <1>7, <1>8, <1>9, <1>12 DEF DecidedGiveUp
    <2>2. Decided(p)'
        BY <2>1 DEF Decided
    <2> QED BY <1>9, <1>10, <1>12, <2>2
<1>13. CASE /\ IsResolvable(x) /\ ReversalFailure(own, x) # NoCode
            /\ Decide(p, ApplyReversal(own, x, FALSE, snap[p]))
    <2>1. plan'[p] = ApplyReversal(own, x, HasActiveReversal(Rows, x.cmd.key)', snap[p])
        BY <1>9, <1>13, ReversalIgnoresActive
    <2>2. DecidedReversal(p)'
        BY <1>1, <1>2, <1>3, <1>5, <1>6, <1>7, <1>8, <1>13, <2>1 DEF DecidedReversal
    <2>3. Decided(p)'
        BY <2>2 DEF Decided
    <2> QED BY <1>9, <1>10, <1>13, <2>3
<1>14. CASE /\ IsResolvable(x) /\ ReversalFailure(own, x) = NoCode
            /\ found' = [found EXCEPT ![p] = x] /\ Goto(p, "slot")
    <2>1. pc'[p] = "slot" /\ found'[p] = x
        BY <1>1, <1>14 DEF Goto, IInv, TypeOK
    <2>2. Settled(x)' /\ IsReference(p, x)'
        BY <1>3, <1>5, <1>6, <1>7, <1>14 DEF Against, IsReference
    <2>3. Settled(found[p])' /\ IsReference(p, found[p])'
        BY <2>1, <2>2 DEF Settled, IsReference
    <2>4. wager'[work'[p].cmd.key].status = "PENDING_REFERENCE"
        BY <1>1, <1>6 DEF DInv, DecisionInv
    <2>5. DecisionInv(p)'
        BY <1>1, <1>2, <1>7, <1>8, <1>14, <2>1, <2>3, <2>4 DEF DecisionInv
    <2> QED BY <1>1, <2>5, InsideStep
<1> QED BY <1>4, <1>11, <1>12, <1>13, <1>14

LEMMA LooksDecide ==
    ASSUME IInv, IInv', DInv, NEW p \in Resolvers, Peek(p) \/ SettleLock(p)
    PROVE  DInv'
<1>1. /\ p \in Procs /\ StepOf(p) /\ p \notin Handlers
      /\ pc[p] \in {"peek", "peekLast", "settleLock"} /\ pc[p] \in DecidingLabels
      /\ UNCHANGED <<committed, work, lapsed>>
    BY ProcsAssumption DEF Procs, StepOf, ResolverOnly, ResolverStep, Peek, SettleLock,
                           DecidingLabels, memory
<1>2. pc'[p] \in {"settleLock", "reread"}
    BY <1>1 DEF Peek, SettleLock, Goto, IInv, TypeOK
<1>3. Own(p).cmd = work[p].cmd
    BY <1>1, OwnUndecided
<1>4. \/ IsExhausted(work[p].cmd.key)
      \/ \E k \in Keys : wager[k] # None /\ IsReference(p, wager[k]) /\ IsTerminal(wager[k])
    <2>1. CASE pc[p] = "peek"
        <3>1. IsResolvable(Lookup(p, work[p].cmd.ref))
            BY <1>3, <2>1 DEF Peek, SettleLock
        <3> QED BY <1>1, <3>1, WorkerSees
    <2>2. CASE pc[p] # "peek"
        BY <1>1, <2>2 DEF DInv, DecisionInv
    <2> QED BY <2>1, <2>2
<1>5. wager[work[p].cmd.key].status = "PENDING_REFERENCE"
    BY <1>1 DEF DInv, DecisionInv
<1>6. DecisionInv(p)'
    BY <1>1, <1>2, <1>4, <1>5 DEF DecisionInv, IsExhausted, IsReference, committed
<1> QED BY <1>1, <1>6, InsideStep

LEMMA LockDueDecides ==
    ASSUME IInv, IInv', DInv, NEW p \in Resolvers, NEW k \in Keys, LockDue(p, k)
    PROVE  DInv'
<1>1. /\ p \in Procs /\ StepOf(p) /\ p \notin Handlers
      /\ wager[k] # None /\ wager[k].status = "PENDING_REFERENCE"
      /\ UNCHANGED <<committed, lapsed>>
    BY ProcsAssumption DEF Procs, StepOf, ResolverOnly, LockDue
<1>2. /\ pc'[p] = IF IsExhausted(k) THEN "peekLast" ELSE "peek"
      /\ work'[p].cmd = wager[k].cmd /\ wager[k].cmd.key = k
    BY <1>1, RowsFacts DEF LockDue, Goto, IInv, TypeOK
<1>3. DecisionInv(p)'
    BY <1>1, <1>2 DEF DecisionInv, IsExhausted, committed
<1>4. OthersUntouched(p) /\ UNCHANGED <<wager, wallet, ledger, outbox>>
    BY <1>1, Footprint DEF committed
<1> QED BY <1>1, <1>3, <1>4, PrivateStep

LEMMA RecordFailureDecides ==
    ASSUME IInv, IInv', DInv, NEW p \in Resolvers, RecordFailure(p)
    PROVE  DInv'
<1> DEFINE own == Own(p)
           k == work[p].cmd.key
<1>1. /\ p \in Procs /\ StepOf(p) /\ p \notin Handlers /\ pc[p] = "failWallet" /\ Busy(p)
      /\ UNCHANGED <<committed, lapsed, answer>>
    BY ProcsAssumption DEF Procs, StepOf, ResolverOnly, ResolverStep, RecordFailure, Busy
<1>2. OthersUntouched(p) /\ UNCHANGED <<wager, wallet, ledger, outbox>>
    BY <1>1, Footprint DEF committed
<1>3. /\ own = wager[k] /\ own.cmd = work[p].cmd /\ k \in Keys /\ own \in Row
      /\ own.cmd.wallet \in Wallets /\ wager[k] # None
    BY <1>1, OwnFacts, NoneAssumption DEF Own
<1>4. CASE /\ StillPending(own) /\ TakeWallet(p, own.cmd.wallet)
           /\ Decide(p, Fail(own, wallet[own.cmd.wallet])) /\ work' = work
    <2>1. wager[k].status = "PENDING_REFERENCE"
        BY <1>3, <1>4, PendingFacts DEF StillPending
    <2>2. /\ wallet[own.cmd.wallet] \in WalletRow
          /\ walletLock'[own.cmd.wallet] = p /\ snap'[p] = wallet[own.cmd.wallet]
        BY <1>1, <1>3, <1>4, TakeFacts
    <2>3. Own(p)' = own
        BY <1>1, <1>4, SameReadings DEF committed
    <2>4. HoldsWallet(p)'
        BY <1>1, <1>3, <1>4, <2>2, NoneAssumption DEF HoldsWallet, committed
    <2> HIDE DEF own
    <2>5. pc'[p] = "commit" /\ plan'[p] = Fail(own, wallet[own.cmd.wallet])
        BY <1>1, <1>4 DEF Decide, Goto, IInv, TypeOK
    <2>6. DecidedFailure(p)'
        BY <2>2, <2>3, <2>4, <2>5 DEF DecidedFailure
    <2>7. DecisionInv(p)'
        BY <1>1, <1>4, <2>1, <2>5, <2>6 DEF DecisionInv, Decided, committed
    <2> QED BY <1>1, <1>2, <2>7, PrivateStep
<1>5. CASE Goto(p, "idle")
    <2>1. pc'[p] = "idle"
        BY <1>1, <1>5 DEF Goto, IInv, TypeOK
    <2>2. DecisionInv(p)'
        BY <1>1, <2>1, NothingClaimed
    <2> QED BY <1>1, <1>2, <2>2, PrivateStep
<1> QED BY <1>4, <1>5 DEF RecordFailure

(* A transaction that is rolled back claims nothing any more. *)
LEMMA RolledBackDecides ==
    ASSUME IInv, IInv', DInv, NEW p \in Procs,
           Abort(p) \/ (p \in Resolvers /\ (Defect(p) \/ LockFailedRow(p)))
    PROVE  DInv'
<1>1. /\ StepOf(p) /\ UNCHANGED <<committed, lapsed>>
    BY DEF StepOf, ResolverOnly, ResolverStep, Abort, Defect, LockFailedRow
<1>2. OthersUntouched(p) /\ UNCHANGED <<wager, wallet, ledger, outbox>>
    BY <1>1, Footprint DEF committed
<1>3. pc'[p] \in {"idle", "failRow", "failWallet"} /\ (p \in Handlers => pc'[p] = "idle")
    BY ProcsAssumption DEF Abort, Defect, LockFailedRow, Goto, IInv, TypeOK
<1>4. DecisionInv(p)'
    BY <1>3, NothingClaimed
<1>5. p \in Handlers => OwnExtStaysFree(p)
    BY <1>3 DEF OwnExtStaysFree, Reserving
<1> QED BY <1>2, <1>4, <1>5, PrivateStep

-----------------------------------------------------------------------------
(* The steps that publish: at most one row changes, it was nobody else's to *)
(* change, and nobody else holds the wallet it moves.                      *)

LEMMA PublishStep ==
    ASSUME IInv, IInv', DInv, NEW p \in Procs, OthersUntouched(p), pc'[p] \in {"idle", "reply"},
           NEW k \in Keys, \A j \in Keys \ {k} : wager'[j] = wager[j],
           wager'[k] # wager[k] =>
               /\ wager'[k] # None
               /\ wager[k] # None => wager'[k].cmd = wager[k].cmd /\ ~ IsTerminal(wager[k])
               /\ wager[k] = None =>
                     /\ \A j \in Keys : wager[j] # None => wager[j].cmd.ext # wager'[k].cmd.ext
                     /\ \A q \in Handlers \ {p} :
                           pc[q] \in Reserving => work[q].cmd.ext # wager'[k].cmd.ext,
           RowInv(k)',
           \A q \in Procs \ {p} : /\ Undisturbed(q)
                                  /\ (Busy(q) /\ HoldsWallet(q)) => HoldsWallet(q)',
           \A w \in Existing : wallet'[w] # None
    PROVE  DInv'
<1>1. \A q \in Procs \ {p} : pc'[q] = pc[q] /\ work'[q] = work[q]
    BY DEF OthersUntouched, OthersKeep, KeepsWhatItHas
<1>2. RowsMove
    BY DEF RowsMove
<1>3. ASSUME NEW j \in Keys \ {k} PROVE RowInv(j)'
    <2> SUFFICES ASSUME wager'[j] # None PROVE RowInv(j)'
        BY DEF RowInv
    <2>1. wager'[j] = wager[j] /\ wager[j] \in Row /\ RowInv(j)
        BY RowsFacts DEF DInv
    <2>2. wager[j].ref # None => wager[j].ref \in Keys /\ wager'[wager[j].ref] = wager[wager[j].ref]
        <3>1. wager[j].ref # None => /\ wager[j].ref \in Keys /\ wager[wager[j].ref] # None
                                     /\ wager[wager[j].ref].status = "PROCESSED"
            BY <2>1, RowFacts DEF RowInv
        <3> QED BY <1>2, <3>1 DEF RowsMove, IsTerminal, Terminal
    <2>3. (wager[j].status = "PROCESSED" /\ RequiresReference(wager[j])) => wager[j].ref # None
        BY <2>1 DEF RowInv, ChecksPass
    <2> QED BY <2>1, <2>2, <2>3 DEF RowInv
<1>4. \A j \in Keys : RowInv(j)'
    BY <1>3
<1>5. ASSUME NEW q \in Procs PROVE DecisionInv(q)'
    <2>1. CASE q = p
        BY <2>1, NothingClaimed
    <2>2. CASE q # p
        <3>1. KeepsWhatItHas(q) /\ lapsed \subseteq lapsed'
            BY <2>2 DEF OthersUntouched, OthersKeep
        <3>2. Undisturbed(q) /\ ((Busy(q) /\ HoldsWallet(q)) => HoldsWallet(q)')
            BY <2>2
        <3>3. q \in Procs /\ \A j \in Keys : RowInv(j)'
            BY <1>4
        <3> QED BY <1>2, <3>1, <3>2, <3>3, OthersDecide
    <2> QED BY <2>1, <2>2
<1>6. ASSUME NEW i \in Keys, NEW j \in Keys, wager'[i] # None, wager'[j] # None,
             wager'[i].cmd.ext = wager'[j].cmd.ext
      PROVE  i = j
    <2>1. CASE wager[i] # None /\ wager[j] # None
        BY <1>2, <1>6, <2>1 DEF RowsMove, DInv, ExtsAreUnique
    <2>2. CASE wager[i] = None \/ wager[j] = None
        BY <1>2, <1>6, <2>2 DEF RowsMove
    <2> QED BY <2>1, <2>2
<1>7. ASSUME NEW q \in Handlers PROVE ReservedExtIsFree(q)'
    <2> SUFFICES ASSUME pc'[q] \in Reserving, NEW j \in Keys, wager'[j] # None
                 PROVE  wager'[j].cmd.ext # work'[q].cmd.ext
        BY DEF ReservedExtIsFree
    <2>1. q # p /\ q \in Procs /\ pc[q] \in Reserving /\ work'[q] = work[q]
        BY <1>1 DEF Reserving, Procs
    <2>2. wager[j] # None => wager[j].cmd.ext # work[q].cmd.ext
        BY <2>1 DEF DInv, ReservedExtIsFree
    <2> QED BY <1>2, <2>1, <2>2 DEF RowsMove
<1>8. DistinctExts'
    <2> SUFFICES ASSUME NEW q \in Handlers, NEW r \in Handlers, q # r,
                        pc'[q] \in Reserving, pc'[r] \in Reserving
                 PROVE  work'[q].cmd.ext # work'[r].cmd.ext
        BY DEF DistinctExts
    <2>1. q # p /\ r # p
        BY DEF Reserving
    <2> QED BY <1>1, <2>1 DEF DInv, DistinctExts, Procs
<1> QED BY <1>4, <1>5, <1>6, <1>7, <1>8 DEF DInv, ExtsAreUnique

(* The wallet as the movement that p is about to commit leaves it. *)
Moved(p) == [snap[p] EXCEPT !.balance = plan[p].entry.after, !.version = snap[p].version + 1]

LEMMA MovedFacts ==
    ASSUME IInv, NEW p \in Procs, pc[p] = "commit", plan[p].entry # None
    PROVE  /\ snap[p] \in WalletRow /\ Moved(p) \in WalletRow
           /\ Moved(p).balance = plan[p].entry.after /\ Moved(p).version = snap[p].version + 1
           /\ Moved(p).player = snap[p].player /\ Moved(p).currency = snap[p].currency
<1>1. snap[p] \in WalletRow /\ plan[p].entry \in LedgerEntry
    BY PlanFacts DEF HoldsWallet, IInv, TypeOK
<1>2. plan[p].entry.after \in Amount /\ snap[p].version + 1 \in Nat
    BY <1>1 DEF LedgerEntry, WalletRow
<1> DEFINE M(r, b, n) == [r EXCEPT !.balance = b, !.version = n]
<1>3. ASSUME NEW r \in WalletRow, NEW b \in Amount, NEW n \in Nat
      PROVE  /\ M(r, b, n) \in WalletRow /\ M(r, b, n).balance = b /\ M(r, b, n).version = n
             /\ M(r, b, n).player = r.player /\ M(r, b, n).currency = r.currency
    BY DEF WalletRow
<1>4. Moved(p) = M(snap[p], plan[p].entry.after, snap[p].version + 1)
    BY DEF Moved
<1> HIDE DEF M
<1> QED BY <1>1, <1>2, <1>3, <1>4

LEMMA CommitDecides ==
    ASSUME IInv, IInv', DInv, NEW p \in Procs, Commit(p)
    PROVE  DInv'
<1> DEFINE o == plan[p]
           c == work[p].cmd
           w == c.wallet
<1>0. PICK k : k = c.key
    OBVIOUS
<1>1. pc[p] = "commit" /\ pc[p] \in DecidingLabels /\ StepOf(p)
    BY DEF Commit, DecidingLabels, StepOf
<1>2. PlanShape(p) /\ OthersUntouched(p)
    BY <1>1, PlanIsSound, Footprint
<1>3. /\ o.row.cmd = c /\ k \in Keys /\ w \in Wallets /\ o.row # None
      /\ p \in Handlers => wager[k] = None
      /\ p \in Resolvers => /\ wager[k] # None /\ wager[k].cmd = c /\ rowLock[k] = p
                            /\ ~ IsTerminal(wager[k])
      /\ o.entry # None => HoldsWallet(p) /\ wallet[w] \in WalletRow /\ wallet[w] # None
    BY <1>0, <1>1, PlanFacts, OwnUndecided
<1>4. /\ wager' = [wager EXCEPT ![k] = o.row]
      /\ IF o.entry = None THEN wallet' = wallet
         ELSE \E x : wallet' = [wallet EXCEPT ![w] = x]
      /\ pc'[p] \in {"idle", "reply"}
    BY <1>0, <1>3 DEF Commit, Finish, Goto, IInv, TypeOK
<1>5. wager'[k] = o.row /\ \A j \in Keys \ {k} : wager'[j] = wager[j]
    BY <1>3, <1>4 DEF IInv, TypeOK
<1>6. wallet' = wallet \/ (HoldsWallet(p) /\ \A v \in Wallets \ {w} : wallet'[v] = wallet[v])
    BY <1>3, <1>4 DEF IInv, TypeOK
<1> DEFINE row == o.row
<1> HIDE DEF o, row
<1>7. wager[k] = None =>
          /\ \A j \in Keys : wager[j] # None => wager[j].cmd.ext # row.cmd.ext
          /\ \A q \in Handlers \ {p} : pc[q] \in Reserving => work[q].cmd.ext # row.cmd.ext
    <2>1. wager[k] = None => p \in Handlers
        BY <1>3 DEF Procs
    <2>2. pc[p] \in Reserving
        BY <1>1 DEF Reserving
    <2> QED BY <1>3, <2>1, <2>2 DEF DInv, ReservedExtIsFree, DistinctExts, row
<1>8. RowInv(k)'
    <2>1. /\ row.status # "PENDING" /\ ChecksPass(row)
          /\ row.ref # None => row.status = "PROCESSED"
          /\ row.ref # None => /\ wager[row.ref] # None /\ row.ref \in Keys
                               /\ wager[row.ref].status = "PROCESSED"
          /\ (row.status = "PROCESSED" /\ RequiresReference(row)) =>
                 row.ref # None /\ ReversalFailure(row, wager[row.ref]) = NoCode
        BY <1>2 DEF PlanShape, Sound, row, o
    <2>2. row.ref # None => row.ref # k
        BY <1>3, <2>1 DEF IsTerminal, Terminal, Procs
    <2>3. row.ref # None => wager'[row.ref] = wager[row.ref]
        BY <1>5, <2>1, <2>2
    <2> QED BY <1>5, <2>1, <2>3 DEF RowInv, row
<1>9. ASSUME NEW q \in Procs \ {p}
      PROVE  /\ Undisturbed(q)
             /\ (Busy(q) /\ HoldsWallet(q)) => HoldsWallet(q)'
    <2>1. KeepsWhatItHas(q)
        BY <1>2 DEF OthersUntouched, OthersKeep
    <2>2. wager[k] # None => rowLock[k] # q
        BY <1>3 DEF Procs
    <2>3. ASSUME HoldsWallet(q), w = work[q].cmd.wallet
          PROVE  /\ row.status # "PROCESSED" /\ w \notin Existing
        <3>1. ~ HoldsWallet(p)
            BY <2>3 DEF HoldsWallet
        <3> QED BY <1>2, <3>1 DEF PlanShape, row, o
    <2>4. Undisturbed(q)
        BY <1>3, <1>5, <2>2, <2>3 DEF Undisturbed, row
    <2>5. ASSUME Busy(q), HoldsWallet(q) PROVE HoldsWallet(q)'
        <3>1. work[q].cmd.wallet \in Wallets
            BY <2>5, OwnFacts
        <3>2. wallet'[work[q].cmd.wallet] = wallet[work[q].cmd.wallet]
            BY <1>6, <2>5, <3>1 DEF HoldsWallet
        <3> QED BY <2>1, <2>5, <3>1, <3>2 DEF HoldsWallet, KeepsWhatItHas
    <2> QED BY <2>4, <2>5
<1>10. ASSUME NEW v \in Existing PROVE wallet'[v] # None
    <2>1. v \in Wallets /\ wallet[v] # None
        BY ExistingAssumption DEF DInv
    <2>2. CASE v # w \/ wallet' = wallet
        BY <1>6, <2>1, <2>2
    <2>3. CASE v = w /\ wallet' # wallet
        <3>1. o.entry # None /\ wallet'[w] = Moved(p)
            BY <1>3, <2>3 DEF Commit, Moved, IInv, TypeOK, o
        <3> QED BY <1>1, <2>3, <3>1, MovedFacts, NoneAssumption DEF o
    <2> QED BY <2>2, <2>3
<1>11. wager'[k] # wager[k] =>
           /\ wager'[k] # None
           /\ wager[k] # None => wager'[k].cmd = wager[k].cmd /\ ~ IsTerminal(wager[k])
           /\ wager[k] = None =>
                 /\ \A j \in Keys : wager[j] # None => wager[j].cmd.ext # wager'[k].cmd.ext
                 /\ \A q \in Handlers \ {p} :
                       pc[q] \in Reserving => work[q].cmd.ext # wager'[k].cmd.ext
    BY <1>3, <1>5, <1>7 DEF row, Procs
<1> QED BY <1>2, <1>3, <1>4, <1>5, <1>8, <1>9, <1>10, <1>11, PublishStep

(* The first row and entry of a wallet, when it opens with money. *)
LEMMA OpeningSound ==
    ASSUME NEW w \in Wallets
    PROVE  LET r == OpeningOutcome(w).row
           IN  /\ Sound(OpeningOutcome(w)) /\ r \in Row /\ r # None /\ r.cmd = OpeningOf[w]
               /\ r.status = "PROCESSED" /\ r.ref = None /\ ~ RequiresReference(r)
               /\ OpeningOutcome(w).entry.direction = "CREDIT"
<1> DEFINE r == Reserved(OpeningOf[w])
           empty == OpenWallet(w, 0)
           o == OpeningOutcome(w)
<1>1. /\ o \in Plan /\ o.entry \in LedgerEntry /\ o.row.cmd = OpeningOf[w]
      /\ OpeningOf[w] \in AllCommands /\ r \in Row /\ r.cmd = OpeningOf[w]
      /\ OpeningOf[w].kind = "OPENING" /\ OpeningOf[w].key # None
    BY OpeningFacts, CommandFacts, ReservedIsRow, OpeningAssumption
<1>2. empty \in WalletRow
    BY MaxBalanceAssumption DEF OpenWallet, WalletRow, Amount
<1>3. Undecided(r) /\ ~ RequiresReference(r) /\ r.cmd.kind # "LOSS"
    BY <1>1 DEF Undecided, Reserved, RequiresReference, ReversalKinds
<1>4. o = Apply(r, empty, "CREDIT", None)
    BY DEF OpeningOutcome
<1> HIDE DEF r, empty, o
<1>5. /\ Sound(o) /\ o.row.cmd = r.cmd
      /\ \/ o.row.status = "REJECTED" /\ o.entry = None
         \/ o.row.status = "PROCESSED" /\ o.row.ref = None /\ o.entry.direction = "CREDIT"
    BY <1>1, <1>2, <1>3, <1>4, ApplySound
<1>6. o.row \in Row /\ o.row # None /\ o.entry # None
    BY <1>1, NoneAssumption DEF Plan
<1> QED BY <1>1, <1>3, <1>5, <1>6 DEF o, RequiresReference

LEMMA CreationDecides ==
    ASSUME IInv, IInv', DInv, NEW p \in Handlers, CommitCreation(p)
    PROVE  DInv'
<1>1. p \in Procs /\ pc[p] = "create" /\ StepOf(p)
    BY DEF Procs, CommitCreation, StepOf, HandlerOnly, HandlerStep
<1>2. PICK w \in Wallets : work[p].cmd = OpeningOf[w] /\ wallet[w] = None
    BY <1>1 DEF IInv, ProcInv, HandlerInv
<1>3. PICK k \in Keys, row \in Row :
          /\ k = OpeningOf[w].key /\ row = OpeningOutcome(w).row
          /\ row # None /\ row.cmd = OpeningOf[w] /\ row.status = "PROCESSED" /\ row.ref = None
          /\ ~ RequiresReference(row) /\ ChecksPass(row)
    BY OpeningSound, CommandFacts DEF Sound
<1>4. OpeningOf[w].wallet = w /\ wager[k] = None /\ OpeningOf[w].amount \in Amount
    BY <1>2, <1>3, CommandFacts DEF IInv, UnopenedIsEmpty
<1>5. /\ wallet' = [wallet EXCEPT ![w] = OpenWallet(w, OpeningOf[w].amount)]
      /\ wager' = wager \/ wager' = [wager EXCEPT ![k] = row]
      /\ pc'[p] = "reply"
    BY <1>1, <1>2, <1>3, <1>4 DEF CommitCreation, Finish, Goto, IInv, TypeOK
<1>6. /\ wager'[k] \in {None, row} /\ \A j \in Keys \ {k} : wager'[j] = wager[j]
      /\ \A v \in Wallets \ {w} : wallet'[v] = wallet[v]
      /\ wallet'[w] # None
    BY <1>4, <1>5, OpeningFacts, NoneAssumption DEF IInv, TypeOK
<1>7. OthersUntouched(p)
    BY <1>1, Footprint
<1>8. RowInv(k)'
    BY <1>3, <1>6 DEF RowInv
<1>9. ASSUME wager'[k] # wager[k]
      PROVE  /\ wager'[k] = row /\ wager'[k] # None
             /\ \A j \in Keys : wager[j] # None => wager[j].cmd.ext # row.cmd.ext
             /\ \A q \in Handlers \ {p} : pc[q] \in Reserving => work[q].cmd.ext # row.cmd.ext
    <2>1. \A c \in Commands : c.ext # OpeningOf[w].ext
        BY SubmittedAssumption
    <2>2. ASSUME NEW j \in Keys, wager[j] # None, wager[j].cmd.ext = row.cmd.ext
          PROVE  FALSE
        <3>1. wager[j].cmd \in AllCommands /\ wager[j].cmd.key = j
            BY <2>2, RowsFacts, RowFacts
        <3>2. PICK v \in Wallets : wager[j].cmd = OpeningOf[v]
            BY <1>3, <2>1, <2>2, <3>1 DEF AllCommands
        <3>3. v = w
            BY <1>3, <2>2, <3>2, OpeningAssumption
        <3> QED BY <1>3, <1>4, <2>2, <3>1, <3>2, <3>3
    <2>3. \A q \in Handlers : pc[q] \in Reserving => work[q].cmd \in Commands
        BY DEF IInv, ProcInv, HandlerInv, Reserving, Procs
    <2> QED BY <1>3, <1>4, <1>6, <1>9, <2>1, <2>2, <2>3
<1>10. ASSUME NEW q \in Procs \ {p}
       PROVE  /\ Undisturbed(q)
              /\ (Busy(q) /\ HoldsWallet(q)) => HoldsWallet(q)'
    <2>1. KeepsWhatItHas(q)
        BY <1>7 DEF OthersUntouched, OthersKeep
    <2>2. HoldsWallet(q) => work[q].cmd.wallet # w
        BY <1>2 DEF HoldsWallet
    <2>3. Undisturbed(q)
        BY <1>3, <1>4, <1>6, <1>9, <2>2 DEF Undisturbed
    <2>4. (Busy(q) /\ HoldsWallet(q)) => HoldsWallet(q)'
        BY <1>6, <2>1, <2>2, OwnFacts DEF HoldsWallet, KeepsWhatItHas
    <2> QED BY <2>3, <2>4
<1>11. \A v \in Existing : wallet'[v] # None
    BY <1>6, ExistingAssumption DEF DInv
<1>12. wager'[k] # wager[k] =>
           /\ wager'[k] # None
           /\ wager[k] # None => wager'[k].cmd = wager[k].cmd /\ ~ IsTerminal(wager[k])
           /\ wager[k] = None =>
                 /\ \A j \in Keys : wager[j] # None => wager[j].cmd.ext # wager'[k].cmd.ext
                 /\ \A q \in Handlers \ {p} :
                       pc[q] \in Reserving => work[q].cmd.ext # wager'[k].cmd.ext
    BY <1>4, <1>9
<1> QED BY <1>1, <1>5, <1>6, <1>7, <1>8, <1>10, <1>11, <1>12, PublishStep

(* What a worker that gives its pending back changes. *)
LEMMA RescheduleFacts ==
    ASSUME IInv, DInv, NEW p \in Resolvers, Reschedule(p)
    PROVE  LET k == work[p].cmd.key
           IN  /\ k \in Keys /\ wager[k] # None /\ ~ IsTerminal(wager[k])
               /\ wager[k].status = "PENDING_REFERENCE"
               /\ rowLock[k] = p /\ wager[k].attempts < MaxAttempts
               /\ wager'[k] = [wager[k] EXCEPT !.attempts = wager[k].attempts + 1]
               /\ wager' = [wager EXCEPT ![k] = wager'[k]]
               /\ wager'[k] # None /\ wager'[k].cmd = wager[k].cmd
               /\ wager'[k].status = "PENDING_REFERENCE"
               /\ wager'[k].code = wager[k].code /\ wager'[k].balance = wager[k].balance
               /\ wager'[k].ref = wager[k].ref
               /\ \A j \in Keys \ {k} : wager'[j] = wager[j]
               /\ UNCHANGED <<wallet, ledger, outbox, inbox, lapsed>>
<1> DEFINE k == work[p].cmd.key
<1>1. /\ p \in Procs /\ pc[p] = "peek" /\ pc[p] \in DecidingLabels
    BY DEF Procs, Reschedule, DecidingLabels
<1>2. /\ k \in Keys /\ wager[k] # None /\ ~ IsTerminal(wager[k]) /\ Own(p).cmd.key = k
      /\ wager[k].status = "PENDING_REFERENCE" /\ rowLock[k] = p /\ wager[k] \in Row
      /\ wager[k].attempts < MaxAttempts
    BY <1>1, OwnUndecided, PendingFacts, RowsFacts
       DEF IInv, ProcInv, ResolverInv, HoldingRow, ResolverLabels
<1>3. wager' = [wager EXCEPT ![k].attempts = @ + 1]
    BY <1>2 DEF Reschedule
<1> HIDE DEF k
<1>4. /\ wager'[k] = [wager[k] EXCEPT !.attempts = wager[k].attempts + 1]
      /\ wager' = [wager EXCEPT ![k] = wager'[k]]
      /\ \A j \in Keys \ {k} : wager'[j] = wager[j]
    BY <1>2, <1>3 DEF IInv, TypeOK
<1> DEFINE X(r, n) == [r EXCEPT !.attempts = n]
<1>5. ASSUME NEW r \in Row, NEW n \in 0 .. MaxAttempts
      PROVE  /\ X(r, n) \in Row /\ X(r, n) # None
             /\ X(r, n).cmd = r.cmd /\ X(r, n).status = r.status /\ X(r, n).code = r.code
             /\ X(r, n).balance = r.balance /\ X(r, n).ref = r.ref
    BY NoneAssumption DEF Row
<1>6. wager[k].attempts + 1 \in 0 .. MaxAttempts
    BY <1>2, RowFacts, MaxAttemptsAssumption
<1>7. wager'[k] = X(wager[k], wager[k].attempts + 1)
    BY <1>4
<1> HIDE DEF X
<1>8. /\ wager'[k] # None /\ wager'[k].cmd = wager[k].cmd
      /\ wager'[k].status = wager[k].status /\ wager'[k].code = wager[k].code
      /\ wager'[k].balance = wager[k].balance /\ wager'[k].ref = wager[k].ref
    BY <1>2, <1>5, <1>6, <1>7
<1> QED BY <1>2, <1>4, <1>8 DEF k, Reschedule

LEMMA RescheduleDecides ==
    ASSUME IInv, IInv', DInv, NEW p \in Resolvers, Reschedule(p)
    PROVE  DInv'
<1>1. p \in Procs /\ StepOf(p) /\ pc'[p] = "idle"
    BY DEF Procs, StepOf, ResolverOnly, ResolverStep, Reschedule, Goto, IInv, TypeOK
<1>2. OthersUntouched(p)
    BY <1>1, Footprint
<1>3. PICK k \in Keys :
          /\ wager[k] # None /\ ~ IsTerminal(wager[k])
          /\ wager[k].status = "PENDING_REFERENCE" /\ rowLock[k] = p
          /\ wager'[k] # None /\ wager'[k].cmd = wager[k].cmd
          /\ wager'[k].status = "PENDING_REFERENCE"
          /\ wager'[k].code = wager[k].code /\ wager'[k].balance = wager[k].balance
          /\ wager'[k].ref = wager[k].ref
          /\ \A j \in Keys \ {k} : wager'[j] = wager[j]
          /\ UNCHANGED <<wallet, ledger, outbox, inbox, lapsed>>
    BY RescheduleFacts
<1>4. RowInv(k)'
    <2>1. /\ wager[k].ref = None /\ ChecksPass(wager[k])
        BY <1>3, PendingFacts DEF Undecided, DInv, RowInv
    <2>2. ChecksPass(wager'[k])
        BY <1>3, <2>1 DEF ChecksPass, RequiresReference
    <2> QED BY <1>3, <2>1, <2>2 DEF RowInv
<1>5. ASSUME NEW q \in Procs \ {p}
      PROVE  /\ Undisturbed(q)
             /\ (Busy(q) /\ HoldsWallet(q)) => HoldsWallet(q)'
    <2>1. KeepsWhatItHas(q)
        BY <1>2 DEF OthersUntouched, OthersKeep
    <2>2. ~ IsTerminal(wager'[k])
        BY <1>3 DEF IsTerminal, Terminal
    <2>3. Undisturbed(q)
        BY <1>3, <2>2 DEF Undisturbed
    <2>4. (Busy(q) /\ HoldsWallet(q)) => HoldsWallet(q)'
        BY <1>3, <2>1, OwnFacts DEF HoldsWallet, KeepsWhatItHas
    <2> QED BY <2>3, <2>4
<1>6. \A v \in Existing : wallet'[v] # None
    BY <1>3 DEF DInv
<1> QED BY <1>1, <1>2, <1>3, <1>4, <1>5, <1>6, PublishStep

LEMMA LapseDecides ==
    ASSUME IInv, IInv', DInv, NEW k \in Keys, Lapse(k)
    PROVE  DInv'
<1>1. /\ UNCHANGED <<committed, locks, pc, work, snap, found, plan, answer>>
      /\ lapsed \subseteq lapsed'
    BY DEF Lapse, memory
<1>2. \A j \in Keys : RowInv(j)'
    BY <1>1 DEF DInv, RowInv, committed
<1>3. ASSUME NEW q \in Procs PROVE DecisionInv(q)'
    <2>1. KeepsWhatItHas(q)
        BY <1>1 DEF KeepsWhatItHas, locks
    <2>2. RowsMove /\ Undisturbed(q)
        BY <1>1 DEF RowsMove, Undisturbed, committed
    <2>3. (Busy(q) /\ HoldsWallet(q)) => HoldsWallet(q)'
        BY <1>1 DEF HoldsWallet, committed, locks
    <2> QED BY <1>1, <1>2, <2>1, <2>2, <2>3, OthersDecide
<1> QED BY <1>1, <1>2, <1>3
        DEF DInv, ExtsAreUnique, DistinctExts, ReservedExtIsFree, committed

LEMMA StutterDecides == ASSUME IInv, IInv', DInv, UNCHANGED vars PROVE DInv'
<1>1. \A j \in Keys : RowInv(j)'
    BY DEF DInv, RowInv, vars
<1>2. ASSUME NEW q \in Procs PROVE DecisionInv(q)'
    <2>1. /\ KeepsWhatItHas(q) /\ RowsMove /\ Undisturbed(q)
          /\ lapsed \subseteq lapsed'
        BY DEF KeepsWhatItHas, RowsMove, Undisturbed, vars
    <2>2. (Busy(q) /\ HoldsWallet(q)) => HoldsWallet(q)'
        BY DEF HoldsWallet, vars
    <2> QED BY <1>1, <2>1, <2>2, OthersDecide
<1> QED BY <1>1, <1>2 DEF DInv, ExtsAreUnique, DistinctExts, ReservedExtIsFree, vars

LEMMA InitRows ==
    ASSUME Init, NEW k \in Keys, wager[k] # None
    PROVE  \E w \in Existing : /\ w \in Wallets /\ OpeningOf[w].key = k
                              /\ wager[k] = OpeningOutcome(w).row
                              /\ wager[k].cmd = OpeningOf[w] /\ OpeningOf[w].amount > 0
<1>1. PICK w \in Existing : OpeningOf[w].key = k /\ OpeningOf[w].amount > 0
    BY DEF Init
<1>2. /\ (CHOOSE v \in Existing : OpeningOf[v].key = k) \in Existing
      /\ OpeningOf[CHOOSE v \in Existing : OpeningOf[v].key = k].key = k
    BY <1>1
<1>3. (CHOOSE v \in Existing : OpeningOf[v].key = k) = w
    BY <1>1, <1>2, ExistingAssumption, CommandFacts
<1>4. wager[k] = OpeningOutcome(w).row
    BY <1>1, <1>3 DEF Init
<1> QED BY <1>1, <1>4, OpeningSound, ExistingAssumption

LEMMA InitDInv == Init => DInv
<1> SUFFICES ASSUME Init PROVE DInv
    OBVIOUS
<1>1. ASSUME NEW k \in Keys PROVE RowInv(k)
    <2> SUFFICES ASSUME wager[k] # None PROVE RowInv(k)
        BY DEF RowInv
    <2>1. PICK w \in Wallets : wager[k] = OpeningOutcome(w).row
        BY InitRows
    <2> QED BY <2>1, OpeningSound DEF RowInv, Sound
<1>2. ExtsAreUnique
    <2> SUFFICES ASSUME NEW j \in Keys, NEW k \in Keys, wager[j] # None, wager[k] # None,
                        wager[j].cmd.ext = wager[k].cmd.ext
                 PROVE  j = k
        BY DEF ExtsAreUnique
    <2>1. PICK v \in Wallets : OpeningOf[v].key = j /\ wager[j].cmd = OpeningOf[v]
        BY InitRows
    <2>2. PICK w \in Wallets : OpeningOf[w].key = k /\ wager[k].cmd = OpeningOf[w]
        BY InitRows
    <2> QED BY <2>1, <2>2, OpeningAssumption
<1>3. \A p \in Procs : pc[p] = "idle"
    BY DEF Init
<1>4. DistinctExts /\ \A p \in Handlers : ReservedExtIsFree(p)
    BY <1>3 DEF DistinctExts, ReservedExtIsFree, Reserving, Procs
<1>5. \A w \in Existing : wallet[w] # None
    BY ExistingAssumption, OpeningFacts, NoneAssumption DEF Init
<1>6. \A p \in Procs : DecisionInv(p)
    BY <1>3 DEF DecisionInv
<1> QED BY <1>1, <1>2, <1>4, <1>5, <1>6 DEF DInv

LEMMA NextDInv == IInv /\ DInv /\ [Next]_vars => DInv'
<1> SUFFICES ASSUME IInv, DInv, [Next]_vars PROVE DInv'
    OBVIOUS
<1>1. IInv'
    BY NextIInv
<1>2. CASE UNCHANGED vars
    BY <1>1, <1>2, StutterDecides
<1>3. CASE \E k \in Keys : Lapse(k)
    BY <1>1, <1>3, LapseDecides
<1>4. ASSUME NEW p \in Procs, StepOf(p) PROVE DInv'
    <2>1. CASE p \in Handlers /\ HandlerOnly(p)
        BY <1>1, <2>1, FirstStatements, MissWalletDecides, LockWalletDecides,
           ReadReferenceDecides, CreationDecides
    <2>2. CASE p \in Resolvers /\ ResolverOnly(p)
        BY <1>1, <1>4, <2>2, LockDueDecides, RescheduleDecides, LooksDecide, RereadDecides,
           RecordFailureDecides, RolledBackDecides DEF ResolverOnly, ResolverStep
    <2>3. CASE ReadSlot(p) \/ Commit(p) \/ Abort(p)
        BY <1>1, <1>4, <2>3, ReadSlotDecides, CommitDecides, RolledBackDecides
    <2> QED BY <1>4, <2>1, <2>2, <2>3 DEF StepOf
<1> QED BY <1>2, <1>3, <1>4, NextIsSteps

(* Every decision rests on what is still true: whatever else has committed  *)
(* since a transaction read, the rule it applied still gives its outcome.  *)
THEOREM DecisionsHold == Spec => [](IInv /\ DInv)
<1>1. Init => IInv /\ DInv
    BY InitIInv, InitDInv
<1>2. IInv /\ DInv /\ [Next]_vars => (IInv /\ DInv)'
    BY NextIInv, NextDInv
<1> QED BY <1>1, <1>2, PTL DEF Spec

-----------------------------------------------------------------------------
(* What the steps that publish leave in the tables. *)

LEMMA CommitFacts ==
    ASSUME IInv, DInv, NEW p \in Procs, Commit(p)
    PROVE  LET o == plan[p]
               k == work[p].cmd.key
               w == work[p].cmd.wallet
           IN  /\ pc[p] = "commit" /\ PlanShape(p)
               /\ k \in Keys /\ w \in Wallets /\ o \in Plan
               /\ o.row \in Row /\ o.row # None /\ o.row.cmd = work[p].cmd
               /\ p \in Handlers => wager[k] = None
               /\ p \in Resolvers => /\ wager[k] # None /\ ~ IsTerminal(wager[k])
                                     /\ wager[k].cmd = work[p].cmd
               /\ wager' = [wager EXCEPT ![k] = o.row]
               /\ wager'[k] = o.row
               /\ \A j \in Keys \ {k} : wager'[j] = wager[j]
               /\ o.entry = None => UNCHANGED <<wallet, ledger>>
               /\ o.entry # None => /\ HoldsWallet(p) /\ o.entry \in LedgerEntry
                                    /\ wallet[w] # None /\ wallet[w] \in WalletRow
                                    /\ wallet' = [wallet EXCEPT ![w] = Moved(p)]
                                    /\ ledger' = [ledger EXCEPT ![w] = Append(ledger[w], o.entry)]
               /\ outbox' = outbox \cup
                      Events(o, IF o.entry = None THEN 0 ELSE snap[p].version + 1)
               /\ lapsed' = lapsed
<1>0. PICK o, c : o = plan[p] /\ c = work[p].cmd
    OBVIOUS
<1>1. pc[p] = "commit" /\ pc[p] \in DecidingLabels
    BY DEF Commit, DecidingLabels
<1>2. PlanShape(p)
    BY <1>1, PlanIsSound
<1>3. /\ c.key \in Keys /\ c.wallet \in Wallets /\ o \in Plan
      /\ o.row \in Row /\ o.row # None /\ o.row.cmd = c
      /\ p \in Handlers => wager[c.key] = None
      /\ p \in Resolvers => wager[c.key] # None /\ wager[c.key].cmd = c
      /\ o.entry # None => HoldsWallet(p) /\ o.entry \in LedgerEntry
                           /\ wallet[c.wallet] # None /\ wallet[c.wallet] \in WalletRow
    BY <1>0, <1>1, PlanFacts
<1>4. p \in Resolvers => ~ IsTerminal(wager[c.key])
    BY <1>0, <1>1, OwnUndecided
<1>5. /\ wager' = [wager EXCEPT ![c.key] = o.row]
      /\ o.entry = None => UNCHANGED <<wallet, ledger>>
      /\ o.entry # None =>
            /\ wallet' = [wallet EXCEPT ![c.wallet] = Moved(p)]
            /\ ledger' = [ledger EXCEPT ![c.wallet] = Append(ledger[c.wallet], o.entry)]
      /\ outbox' = outbox \cup Events(o, IF o.entry = None THEN 0 ELSE snap[p].version + 1)
      /\ lapsed' = lapsed
    BY <1>0, <1>3 DEF Commit, Moved
<1>6. wager'[c.key] = o.row /\ \A j \in Keys \ {c.key} : wager'[j] = wager[j]
    BY <1>3, <1>5 DEF IInv, TypeOK
<1> QED BY <1>0, <1>1, <1>2, <1>3, <1>4, <1>5, <1>6

LEMMA CreationFacts ==
    ASSUME IInv, NEW p \in Handlers, CommitCreation(p)
    PROVE  \E w \in Wallets :
               /\ work[p].cmd = OpeningOf[w] /\ pc[p] = "create"
               /\ wallet[w] = None /\ ledger[w] = <<>> /\ wager[OpeningOf[w].key] = None
               /\ OpeningOf[w].key \in Keys /\ OpeningOf[w].wallet = w
               /\ wallet' = [wallet EXCEPT ![w] = OpenWallet(w, OpeningOf[w].amount)]
               /\ OpeningOf[w].amount = 0 => UNCHANGED <<wager, ledger, outbox>>
               /\ OpeningOf[w].amount # 0 =>
                     /\ wager' = [wager EXCEPT ![OpeningOf[w].key] = OpeningOutcome(w).row]
                     /\ ledger' = [ledger EXCEPT ![w] = <<OpeningOutcome(w).entry>>]
                     /\ outbox' = outbox \cup Events(OpeningOutcome(w), 1)
               /\ UNCHANGED <<inbox, lapsed>>
<1>1. p \in Procs /\ pc[p] = "create"
    BY DEF Procs, CommitCreation
<1>2. PICK w \in Wallets : work[p].cmd = OpeningOf[w] /\ wallet[w] = None
    BY <1>1 DEF IInv, ProcInv, HandlerInv
<1>3. OpeningOf[w].wallet = w /\ OpeningOf[w].key \in Keys
    BY CommandFacts
<1>4. ledger[w] = <<>> /\ wager[OpeningOf[w].key] = None
    BY <1>2 DEF IInv, UnopenedIsEmpty
<1> QED BY <1>1, <1>2, <1>3, <1>4 DEF CommitCreation

(* Every step publishes nothing, or is one of the three that publish. *)
LEMMA PublishingSteps ==
    ASSUME IInv, [Next]_vars
    PROVE  \/ UNCHANGED <<wager, wallet, ledger, outbox>>
           \/ \E p \in Procs : Commit(p)
           \/ \E p \in Handlers : CommitCreation(p)
           \/ \E p \in Resolvers : Reschedule(p)
<1>1. CASE UNCHANGED vars
    BY <1>1 DEF vars
<1>2. CASE \E k \in Keys : Lapse(k)
    BY <1>2 DEF Lapse, committed
<1>3. ASSUME NEW p \in Procs, StepOf(p)
      PROVE  UNCHANGED <<wager, wallet, ledger, outbox>> \/ Publishes(p)
    BY <1>3, Footprint
<1> QED BY <1>1, <1>2, <1>3, NextIsSteps DEF Publishes

LEMMA InitCInv == Init => CInv
<1> SUFFICES ASSUME Init, NEW k \in Keys, wager[k] # None PROVE wager[k].status = "PROCESSED"
    BY DEF CInv
<1> QED BY InitRows, OpeningSound

(* No wallet changes its currency, and whoever puts a wager aside holds its *)
(* wallet.                                                                 *)
LEMMA NextCInv == IInv /\ DInv /\ CInv /\ [Next]_vars => CInv'
<1> SUFFICES ASSUME IInv, DInv, CInv, [Next]_vars PROVE CInv'
    OBVIOUS
<1>1. CASE UNCHANGED <<wager, wallet, ledger, outbox>>
    BY <1>1 DEF CInv
<1>2. ASSUME NEW p \in Procs, Commit(p) PROVE CInv'
    <2>1. PICK k, w, row :
              /\ k = work[p].cmd.key /\ w = work[p].cmd.wallet /\ row = plan[p].row
              /\ k \in Keys /\ w \in Wallets /\ row.cmd = work[p].cmd
              /\ pc[p] = "commit" /\ Sound(plan[p])
              /\ wager'[k] = row /\ \A j \in Keys \ {k} : wager'[j] = wager[j]
        BY <1>2, CommitFacts DEF PlanShape
    <2>2. ASSUME NEW v \in Wallets, wallet[v] # None
          PROVE  wallet'[v] # None /\ wallet'[v].currency = wallet[v].currency
        <3>1. CASE plan[p].entry = None
            BY <1>2, <2>2, <3>1, CommitFacts
        <3>2. CASE plan[p].entry # None
            <4>1. /\ HoldsWallet(p) /\ wallet' = [wallet EXCEPT ![w] = Moved(p)]
                BY <1>2, <2>1, <3>2, CommitFacts
            <4>2. Moved(p) # None /\ Moved(p).currency = snap[p].currency
                BY <2>1, <3>2, MovedFacts, NoneAssumption
            <4> QED BY <2>1, <2>2, <4>1, <4>2 DEF HoldsWallet, IInv, TypeOK
        <3> QED BY <3>1, <3>2
    <2>3. ASSUME row.status = "PENDING_REFERENCE"
          PROVE  wallet[w] # None /\ wallet[w].currency = row.cmd.currency
        <3>1. row.balance # NoBalance /\ row.code = NoCode
            BY <2>1, <2>3 DEF Sound, ChecksPass, NoCode
        <3>2. HoldsWallet(p) /\ ResultInCurrency(p, row)
            BY <2>1, <3>1, PlanInCurrency
        <3> QED BY <2>1, <3>1, <3>2 DEF HoldsWallet, ResultInCurrency, NoCode
    <2> SUFFICES ASSUME NEW j \in Keys, wager'[j] # None,
                        wager'[j].status = "PENDING_REFERENCE"
                 PROVE  LET v == wager'[j].cmd.wallet
                        IN  wallet'[v] # None /\ wallet'[v].currency = wager'[j].cmd.currency
        BY DEF CInv
    <2>4. CASE j = k
        BY <2>1, <2>2, <2>3, <2>4
    <2>5. CASE j # k
        <3>1. wager'[j] = wager[j] /\ wager[j].cmd.wallet \in Wallets
            BY <2>1, <2>5, RowsFacts, RowFacts, CommandFacts
        <3> QED BY <2>2, <3>1 DEF CInv
    <2> QED BY <2>4, <2>5
<1>3. ASSUME NEW p \in Handlers, CommitCreation(p) PROVE CInv'
    <2>1. PICK w \in Wallets :
              /\ wallet[w] = None
              /\ OpeningOf[w].key \in Keys
              /\ wallet' = [wallet EXCEPT ![w] = OpenWallet(w, OpeningOf[w].amount)]
              /\ \/ wager' = wager
                 \/ wager' = [wager EXCEPT ![OpeningOf[w].key] = OpeningOutcome(w).row]
        BY <1>3, CreationFacts
    <2>2. OpeningOutcome(w).row.status = "PROCESSED"
        BY OpeningSound
    <2> SUFFICES ASSUME NEW j \in Keys, wager'[j] # None,
                        wager'[j].status = "PENDING_REFERENCE"
                 PROVE  LET v == wager'[j].cmd.wallet
                        IN  wallet'[v] # None /\ wallet'[v].currency = wager'[j].cmd.currency
        BY DEF CInv
    <2>3. wager'[j] = wager[j]
        BY <2>1, <2>2 DEF IInv, TypeOK
    <2>4. wager[j].cmd.wallet \in Wallets /\ wager[j].cmd.wallet # w
        BY <2>1, <2>3, RowsFacts, RowFacts, CommandFacts DEF CInv
    <2>5. wallet'[wager[j].cmd.wallet] = wallet[wager[j].cmd.wallet]
        BY <2>1, <2>4 DEF IInv, TypeOK
    <2>6. /\ wallet[wager[j].cmd.wallet] # None
          /\ wallet[wager[j].cmd.wallet].currency = wager[j].cmd.currency
        BY <2>3 DEF CInv
    <2> QED BY <2>3, <2>5, <2>6
<1>4. ASSUME NEW p \in Resolvers, Reschedule(p) PROVE CInv'
    <2>1. PICK k \in Keys :
              /\ wager[k] # None /\ wager[k].status = "PENDING_REFERENCE"
              /\ wager'[k].cmd = wager[k].cmd
              /\ \A j \in Keys \ {k} : wager'[j] = wager[j]
              /\ wallet' = wallet
        BY <1>4, RescheduleFacts
    <2> SUFFICES ASSUME NEW j \in Keys, wager'[j] # None,
                        wager'[j].status = "PENDING_REFERENCE"
                 PROVE  LET v == wager'[j].cmd.wallet
                        IN  wallet'[v] # None /\ wallet'[v].currency = wager'[j].cmd.currency
        BY DEF CInv
    <2>2. /\ wager[j] # None /\ wager[j].status = "PENDING_REFERENCE"
          /\ wager'[j].cmd = wager[j].cmd
        BY <2>1
    <2>3. /\ wallet[wager[j].cmd.wallet] # None
          /\ wallet[wager[j].cmd.wallet].currency = wager[j].cmd.currency
        BY <2>2 DEF CInv
    <2> QED BY <2>1, <2>2, <2>3
<1> QED BY <1>1, <1>2, <1>3, <1>4, PublishingSteps

-----------------------------------------------------------------------------
(* What follows. *)

(* The constraints of the schema are only a safety net: no transaction that *)
(* reaches its commit writes a second standing reversal, a change of a      *)
(* terminal wager or a row that breaks a CHECK, whatever committed before. *)
THEOREM SchemaIsOnlyASafetyNet == Spec => []SchemaNeverRefuses
<1>1. Init => CInv
    BY InitCInv
<1>2. IInv /\ DInv /\ CInv /\ [Next]_vars => CInv'
    BY NextCInv
<1>3. IInv /\ DInv /\ CInv => SchemaNeverRefuses
    BY PlanIsAccepted DEF SchemaNeverRefuses
<1> QED BY <1>1, <1>2, <1>3, DecisionsHold, PTL DEF Spec

LEMMA RowsOnlySettle ==
    ASSUME IInv, DInv, [Next]_vars, NEW k \in Keys, wager[k] # None
    PROVE  /\ wager'[k] # None /\ wager'[k].cmd = wager[k].cmd
           /\ IsTerminal(wager[k]) => wager'[k] = wager[k]
           /\ wager'[k].status # "PENDING"
<1>1. wager[k].status # "PENDING"
    BY DEF DInv, RowInv
<1>2. CASE \E p \in Procs : Commit(p)
    <2>1. PICK p \in Procs : Commit(p)
        BY <1>2
    <2>2. PICK j, row :
              /\ j \in Keys /\ j = work[p].cmd.key /\ row = plan[p].row /\ row # None
              /\ row.cmd = work[p].cmd /\ row.status # "PENDING"
              /\ p \in Handlers => wager[j] = None
              /\ p \in Resolvers => ~ IsTerminal(wager[j]) /\ wager[j].cmd = work[p].cmd
              /\ wager'[j] = row /\ \A i \in Keys \ {j} : wager'[i] = wager[i]
        BY <2>1, CommitFacts DEF PlanShape, Sound
    <2> QED BY <1>1, <2>2 DEF Procs
<1>3. CASE \E p \in Handlers : CommitCreation(p)
    <2>1. PICK w \in Wallets : /\ wager[OpeningOf[w].key] = None
                              /\ \/ wager' = wager
                                 \/ wager' = [wager EXCEPT ![OpeningOf[w].key] = OpeningOutcome(w).row]
        BY <1>3, CreationFacts
    <2>2. wager'[k] = wager[k]
        BY <2>1 DEF IInv, TypeOK
    <2> QED BY <1>1, <2>2
<1>4. CASE \E p \in Resolvers : Reschedule(p)
    <2>1. PICK p \in Resolvers : Reschedule(p)
        BY <1>4
    <2>2. PICK j \in Keys : /\ wager[j] # None /\ ~ IsTerminal(wager[j])
                            /\ wager'[j] # None /\ wager'[j].cmd = wager[j].cmd
                            /\ wager'[j].status = "PENDING_REFERENCE"
                            /\ \A i \in Keys \ {j} : wager'[i] = wager[i]
        BY <2>1, RescheduleFacts
    <2> QED BY <1>1, <2>2
<1>5. CASE UNCHANGED wager
    BY <1>1, <1>5
<1> QED BY <1>2, <1>3, <1>4, <1>5, PublishingSteps

LEMMA LedgersOnlyGrow ==
    ASSUME IInv, DInv, [Next]_vars, NEW w \in Wallets, NEW i \in DOMAIN ledger[w]
    PROVE  i \in DOMAIN ledger'[w] /\ ledger'[w][i] = ledger[w][i]
<1>1. ledger[w] \in Seq(LedgerEntry) /\ ledger \in [Wallets -> Seq(LedgerEntry)]
    BY DEF IInv, TypeOK
<1>2. CASE \E p \in Procs : Commit(p)
    <2>1. PICK p \in Procs : Commit(p)
        BY <1>2
    <2>2. PICK v, e :
              /\ v \in Wallets
              /\ \/ ledger' = ledger
                 \/ e \in LedgerEntry /\ ledger' = [ledger EXCEPT ![v] = Append(ledger[v], e)]
        <3>1. PICK v, e : v = work[p].cmd.wallet /\ e = plan[p].entry
            OBVIOUS
        <3>2. /\ v \in Wallets
              /\ e = None => ledger' = ledger
              /\ e # None => /\ e \in LedgerEntry
                            /\ ledger' = [ledger EXCEPT ![v] = Append(ledger[v], e)]
            BY <2>1, <3>1, CommitFacts
        <3> QED BY <3>2
    <2>3. CASE ledger' = ledger
        BY <2>3
    <2>4. CASE e \in LedgerEntry /\ ledger' = [ledger EXCEPT ![v] = Append(ledger[v], e)]
        <3>1. ledger'[w] = IF w = v THEN Append(ledger[w], e) ELSE ledger[w]
            BY <1>1, <2>4
        <3> QED BY <1>1, <2>4, <3>1
    <2> QED BY <2>2, <2>3, <2>4
<1>3. CASE \E p \in Handlers : CommitCreation(p)
    <2>1. PICK v \in Wallets : /\ ledger[v] = <<>>
                              /\ \/ ledger' = ledger
                                 \/ ledger' = [ledger EXCEPT ![v] = <<OpeningOutcome(v).entry>>]
        BY <1>3, CreationFacts
    <2>2. v # w
        BY <1>1, <2>1
    <2> QED BY <1>1, <2>1, <2>2
<1>4. CASE UNCHANGED ledger
    BY <1>4
<1>5. ASSUME NEW p \in Resolvers, Reschedule(p) PROVE UNCHANGED ledger
    BY <1>5 DEF Reschedule
<1> QED BY <1>2, <1>3, <1>4, <1>5, PublishingSteps

(* Recorded history does not change: a committed wager keeps its key and    *)
(* payload for ever and, once terminal, every column; a pending one never   *)
(* goes back to PENDING; and a ledger entry is never edited or removed.    *)
THEOREM HistoryStands == Spec => HistoryIsImmutable
<1>1. IInv /\ DInv /\ [Next]_vars =>
          [/\ \A k \in Keys : wager[k] # None =>
                  /\ wager'[k] # None
                  /\ wager'[k].cmd = wager[k].cmd
                  /\ IsTerminal(wager[k]) => wager'[k] = wager[k]
                  /\ ~ IsTerminal(wager[k]) => wager'[k].status # "PENDING"
           /\ \A w \in Wallets : \A i \in DOMAIN ledger[w] :
                  i \in DOMAIN ledger'[w] /\ ledger'[w][i] = ledger[w][i]]_<<wager, ledger>>
    BY RowsOnlySettle, LedgersOnlyGrow
<1> QED BY <1>1, DecisionsHold, PTL DEF Spec, HistoryIsImmutable

LEMMA GivenUp ==
    ASSUME IInv, DInv, [Next]_vars, NEW k \in Keys, wager[k] # None,
           wager[k].status = "PENDING_REFERENCE",
           wager'[k].code \in {"REFERENCE_NOT_FOUND", "REFERENCE_NOT_PROCESSED"}
    PROVE  /\ wager'[k].code = "REFERENCE_NOT_FOUND" => IsExhausted(k)
           /\ ~ \E r \in Rows : /\ r.cmd.ext = wager[k].cmd.ref
                                /\ r.cmd.wallet = wager[k].cmd.wallet
                                /\ r.status = "PROCESSED"
<1>1. wager'[k].code # wager[k].code
    <2>1. wager[k].code = NoCode
        BY PendingFacts DEF IsTerminal, Terminal, Undecided
    <2> QED BY <2>1 DEF NoCode
<1>2. PICK p \in Procs : Commit(p)
    <2>1. ASSUME NEW p \in Resolvers, Reschedule(p) PROVE FALSE
        <3>1. PICK j \in Keys : /\ wager'[j].code = wager[j].code
                                /\ \A i \in Keys \ {j} : wager'[i] = wager[i]
            BY <2>1, RescheduleFacts
        <3> QED BY <1>1, <3>1
    <2>2. ASSUME NEW p \in Handlers, CommitCreation(p) PROVE FALSE
        <3>1. PICK w \in Wallets :
                  /\ wager[OpeningOf[w].key] = None
                  /\ \/ wager' = wager
                     \/ wager' = [wager EXCEPT ![OpeningOf[w].key] = OpeningOutcome(w).row]
            BY <2>2, CreationFacts
        <3> QED BY <1>1, <3>1 DEF IInv, TypeOK
    <2> QED BY <1>1, <2>1, <2>2, PublishingSteps
<1>3. /\ pc[p] = "commit" /\ PlanShape(p) /\ k = work[p].cmd.key /\ p \in Resolvers
      /\ wager[k].cmd = work[p].cmd /\ wager'[k] = plan[p].row
    BY <1>1, <1>2, CommitFacts DEF Procs
<1>4. p \notin Handlers /\ pc[p] \in DecidingLabels /\ Decided(p)
    BY <1>3, ProcsAssumption DEF DecidingLabels, DInv, DecisionInv
<1>5. Undecided(Own(p)) /\ Own(p).cmd = work[p].cmd
    BY <1>4, OwnUndecided
<1>6. ASSUME NEW j \in Keys, wager[j] # None, wager[j].status = "PROCESSED",
             IsReference(p, wager[j]), wager[j].cmd.wallet = work[p].cmd.wallet
      PROVE  FALSE
    <2>1. IsTerminal(wager[j])
        BY <1>6 DEF IsTerminal, Terminal
    <2>2. ~ Missing(p) /\ ~ SomeUnsettled(p)
        BY <1>6, <2>1 DEF Missing, SomeUnsettled, Unsettled, NoneSeen
    <2>3. CASE DecidedReversal(p)
        <3>1. PICK x \in Row :
                  /\ Against(p, x)
                  /\ plan[p] = ApplyReversal(Own(p), x, HasActiveReversal(Rows, x.cmd.key), snap[p])
                  /\ RequiresReference(Own(p)) /\ HoldsWallet(p)
            BY <2>3 DEF DecidedReversal
        <3>2. Settled(x) /\ IsReference(p, x)
            BY <1>4, <3>1 DEF Against
        <3>3. x = wager[j]
            BY <1>6, <3>2, SettledFacts DEF IsReference, DInv, ExtsAreUnique
        <3> DEFINE active == HasActiveReversal(Rows, x.cmd.key)
        <3>4. active \in BOOLEAN /\ snap[p] \in WalletRow
            BY <3>1 DEF HasActiveReversal, HoldsWallet, IInv, TypeOK
        <3>5. ReversalFailure(Own(p), x) = NoCode => x.cmd.key # Own(p).cmd.key
            BY <1>4, <3>2, OwnUndecided
        <3> HIDE DEF active
        <3>6. LET o == ApplyReversal(Own(p), x, active, snap[p])
              IN  /\ o.row.code # "REFERENCE_NOT_FOUND"
                  /\ o.row.code = "REFERENCE_NOT_PROCESSED" => x.status # "PROCESSED"
            BY <1>5, <3>1, <3>4, <3>5, ApplyReversalSound DEF Undecided
        <3> QED BY <1>3, <1>6, <3>1, <3>3, <3>6 DEF active
    <2>4. CASE DecidedFailure(p)
        <3>1. snap[p] \in WalletRow
            BY <2>4 DEF DecidedFailure, HoldsWallet, IInv, TypeOK
        <3>2. Fail(Own(p), snap[p]).row.code = "INFRASTRUCTURE_FAILURE"
            BY <1>5, <3>1, KeptSound DEF Undecided
        <3> QED BY <1>3, <2>4, <3>2 DEF DecidedFailure
    <2> QED BY <1>4, <2>2, <2>3, <2>4
            DEF Decided, DecidedMissing, DecidedByWallet, DecidedIdle, DecidedPlain,
                DecidedDefer, DecidedGiveUp, Accepted
<1>7. wager'[k].code = "REFERENCE_NOT_FOUND" => IsExhausted(k)
    BY <1>3 DEF PlanShape
<1> QED BY <1>3, <1>6, <1>7, RowsFacts DEF IsReference

(* A pending reversal is rejected for want of its reference only when its   *)
(* attempts or its time are used up, and never while a processed reference  *)
(* stands in its wallet: the second look, under the lock, sees it.         *)
THEOREM NothingIsGivenUpInVain == Spec => GivesUpOnlyWithoutReference
<1>1. IInv /\ DInv /\ [Next]_vars =>
          [\A k \in Keys :
              (/\ wager[k] # None /\ wager[k].status = "PENDING_REFERENCE"
               /\ wager'[k].code \in {"REFERENCE_NOT_FOUND", "REFERENCE_NOT_PROCESSED"}) =>
                  /\ wager'[k].code = "REFERENCE_NOT_FOUND" =>
                         wager[k].attempts >= MaxAttempts \/ k \in lapsed
                  /\ ~ \E r \in Rows : /\ r.cmd.ext = wager[k].cmd.ref
                                       /\ r.cmd.wallet = wager[k].cmd.wallet
                                       /\ r.status = "PROCESSED"]_wager
    BY GivenUp DEF IsExhausted
<1> QED BY <1>1, DecisionsHold, PTL DEF Spec, GivesUpOnlyWithoutReference
=============================================================================

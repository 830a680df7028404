--------------------------- MODULE PendingWorker ----------------------------
(***************************************************************************)
(* The queue of the wagers that wait for their reference, in time: when a  *)
(* row falls due, which one a worker takes, how long a wallet that others  *)
(* hold keeps it busy, how delays grow and when a row is given up.         *)
(* Wagering models what a resolution reads, decides and writes; here it is *)
(* an outcome.  The workers are the loops of PollingLoop.                  *)
(*                                                                         *)
(* Time is relative, so that no clock grows: `wait` is what is left until  *)
(* nextAttemptAt and `term` until expiresAt, negative once they are past.  *)
(* A unit is the tick of the loop (5 s); durations are rounded up.         *)
(***************************************************************************)
EXTENDS PollingLoop, FiniteSets

CONSTANTS
    Pendings,      \* the pending wagers, as their rank by id
    Contended,     \* those whose wallet other transactions may hold
    FirstDelay,    \* FIRST_RETRY_DELAY_MS
    BaseDelay,     \* BASE_DELAY_MS
    MaxDelay,      \* MAX_DELAY_MS
    Ttl,           \* PENDING_REFERENCE_TTL_MS
    MaxAttempts,   \* MAX_ATTEMPTS
    LockTimeout,   \* WALLET_LOCK_TIMEOUT_MS
    MaxHeld,       \* bound: for how long wallets may be held, all together
    MaxExits,      \* bound: how many times a worker may be stopped or killed
    LeastTime,     \* attempts -> the least time they take, all delays together
    None

ASSUME PendingsAssumption == Pendings \subseteq Nat /\ Contended \subseteq Pendings
ASSUME TimesAssumption ==
    /\ FirstDelay \in 1 .. MaxDelay /\ BaseDelay \in Nat \ {0} /\ MaxDelay \in Nat \ {0}
    /\ Ttl \in Nat /\ LockTimeout \in Nat \ {0}
    /\ MaxHeld \in Nat /\ MaxExits \in Nat
ASSUME LimitAssumption == MaxAttempts \in Nat \ {0}
ASSUME NonePending == None \notin Pendings

VARIABLES
    status,    \* "absent", "pending", "settled" or "givenUp"
    attempts, wait, term,  \* not read once a wager is answered: back to 0
    landed,    \* the pendings whose reference has been settled
    holders,   \* the pendings whose wallet another transaction holds
    heldFor,   \* for how long wallets have been held so far
    exits,     \* how many times a worker has been stopped or killed so far
    hand,      \* worker -> the row it has locked
    lockLeft,  \* worker -> what is left of its wait for a wallet
    ignored    \* history: the units that have passed over a pending since it
               \* fell due while it was not locked and a worker was free

rows == <<status, attempts, wait, term>>
others == <<landed, holders, heldFor, exits>>
hands == <<hand, lockLeft>>
vars == <<loopVars, rows, others, hands, ignored>>

Init ==
    /\ LoopInit
    /\ status = [p \in Pendings |-> "absent"]
    /\ attempts = [p \in Pendings |-> 0]
    /\ wait = [p \in Pendings |-> 0]
    /\ term = [p \in Pendings |-> 0]
    /\ landed = {}
    /\ holders = {}
    /\ heldFor = 0
    /\ exits = 0
    /\ hand = [l \in Loops |-> None]
    /\ lockLeft = [l \in Loops |-> 0]
    /\ ignored = [p \in Pendings |-> 0]

-----------------------------------------------------------------------------
(* The submissions and the other transactions.                             *)

Submit(p) ==
    /\ status[p] = "absent"
    /\ status' = [status EXCEPT ![p] = "pending"]
    /\ wait' = [wait EXCEPT ![p] = FirstDelay]
    /\ term' = [term EXCEPT ![p] = Ttl]
    /\ UNCHANGED <<loopVars, attempts, others, hands, ignored>>

Land(p) ==
    /\ p \notin landed /\ status[p] \in {"absent", "pending"}
    /\ landed' = landed \cup {p}
    /\ UNCHANGED <<loopVars, rows, holders, heldFor, exits, hands, ignored>>

(* Those who wait for a wallet are served before those who come later.     *)
Hold(p) ==
    /\ p \in Contended \ holders /\ status[p] = "pending"
    /\ heldFor < MaxHeld
    /\ \A l \in Loops : hand[l] # p
    /\ holders' = holders \cup {p}
    /\ UNCHANGED <<loopVars, rows, landed, heldFor, exits, hands, ignored>>

Release(p) ==
    /\ p \in holders
    /\ holders' = holders \ {p}
    /\ UNCHANGED <<loopVars, rows, landed, heldFor, exits, hands, ignored>>

-----------------------------------------------------------------------------
(* The queue.                                                              *)

Locked(p) == \E l \in Loops : hand[l] = p
Due(p) == status[p] = "pending" /\ wait[p] <= 0
(* By (nextAttemptAt, id). *)
Before(p, q) == wait[p] < wait[q] \/ (wait[p] = wait[q] /\ p <= q)

(* Mutant: a worker looks at the head of the queue alone. *)
IsNextWaiting(p) == Due(p) /\ ~ Locked(p) /\ \A q \in Pendings : Due(q) => Before(p, q)
(* FOR UPDATE SKIP LOCKED, ORDER BY nextAttemptAt, id, LIMIT 1. *)
IsNext(p) ==
    /\ Due(p) /\ ~ Locked(p)
    /\ \A q \in Pendings : Due(q) /\ ~ Locked(q) => Before(p, q)

AtMost(a, b) == IF a < b THEN a ELSE b
TenthsUp(n) == (n + 9) \div 10

(* Mutant: the delay is not capped. *)
BackoffUncapped(n) == BaseDelay * 2 ^ (n - 1)
Backoff(n) == AtMost(MaxDelay, BaseDelay * 2 ^ (n - 1))

(* Mutant: the jitter may take the whole delay away. *)
DelaysFullJitter(n) == 1 .. TenthsUp(12 * Backoff(n))
(* The jitter, from 0.8 to 1.2. *)
Delays(n) == TenthsUp(8 * Backoff(n)) .. TenthsUp(12 * Backoff(n))

(* 2 ^ n is positive. *)
ASSUME BackoffAssumption == \A n \in 1 .. MaxAttempts : Backoff(n) > 0

(* ARCHITECTURE.md 13.4: the attempts outlast the term, whatever the jitter. *)
ASSUME LeastTimeAssumption ==
    /\ LeastTime \in [0 .. MaxAttempts -> Nat]
    /\ LeastTime[0] = FirstDelay
    /\ \A n \in 1 .. MaxAttempts : LeastTime[n] = LeastTime[n - 1] + TenthsUp(8 * Backoff(n))
    /\ LeastTime[MaxAttempts] >= Ttl

IsExhausted(p) == attempts[p] >= MaxAttempts \/ term[p] <= 0

-----------------------------------------------------------------------------
(* One step of a worker.                                                   *)

Take(l, p) ==
    /\ IsNext(p)
    /\ BeginStep(l)
    /\ hand' = [hand EXCEPT ![l] = p]
    /\ lockLeft' = [lockLeft EXCEPT ![l] = LockTimeout]
    /\ UNCHANGED <<rows, others, ignored>>

(* The claim finds no row: until its answer is there the step is under way *)
(* with nothing in hand, and stop() or another worker may come between.    *)
LookInVain(l) ==
    /\ ~ \E p \in Pendings : IsNext(p)
    /\ BeginStep(l)
    /\ UNCHANGED <<rows, others, hands, ignored>>

InVain(l) == at[l] = "step" /\ hand[l] = None

FindNothing(l) ==
    /\ InVain(l)
    /\ Rest(l)
    /\ UNCHANGED <<rows, others, hands, ignored>>

LetGo(l) ==
    /\ hand' = [hand EXCEPT ![l] = None]
    /\ lockLeft' = [lockLeft EXCEPT ![l] = 0]

(* The reference is not there yet: no wallet is locked. *)
Reschedule(l) ==
    /\ hand[l] # None
    /\ hand[l] \notin landed
    /\ ~ IsExhausted(hand[l])
    /\ attempts' = [attempts EXCEPT ![hand[l]] = @ + 1]
    /\ \E d \in Delays(attempts[hand[l]] + 1) : wait' = [wait EXCEPT ![hand[l]] = d]
    /\ ignored' = [ignored EXCEPT ![hand[l]] = 0]
    /\ LetGo(l)
    /\ GoOn(l)
    /\ UNCHANGED <<status, term, others>>

NeedsWallet(l) == hand[l] # None /\ (hand[l] \in landed \/ IsExhausted(hand[l]))

(* Under the lock of the wallet the reference is looked up once more.      *)
Settle(l) ==
    /\ NeedsWallet(l)
    /\ hand[l] \notin holders
    /\ status' = [status EXCEPT ![hand[l]] =
                     IF hand[l] \in landed THEN "settled" ELSE "givenUp"]
    /\ attempts' = [attempts EXCEPT ![hand[l]] = 0]
    /\ wait' = [wait EXCEPT ![hand[l]] = 0]
    /\ term' = [term EXCEPT ![hand[l]] = 0]
    /\ ignored' = [ignored EXCEPT ![hand[l]] = 0]
    /\ LetGo(l)
    /\ GoOn(l)
    /\ UNCHANGED others

(* Mutant: a failed transaction keeps its row. *)
LockTimesOutKept(l) ==
    /\ NeedsWallet(l)
    /\ hand[l] \in holders
    /\ lockLeft[l] = 0
    /\ Recover(l)
    /\ UNCHANGED <<rows, others, hands, ignored>>
(* A transient failure: the row is left as it was, due at once.            *)
LockTimesOut(l) ==
    /\ NeedsWallet(l)
    /\ hand[l] \in holders
    /\ lockLeft[l] = 0
    /\ LetGo(l)
    /\ Recover(l)
    /\ UNCHANGED <<rows, others, ignored>>

(* An instance is told to stop, or killed: the row it had locked is free.  *)
ToldToStop(l) ==
    /\ exits < MaxExits
    /\ exits' = exits + 1
    /\ Stop(l)
    /\ UNCHANGED <<rows, landed, holders, heldFor, hands, ignored>>

Die(l) ==
    /\ exits < MaxExits
    /\ exits' = exits + 1
    /\ Kill(l)
    /\ LetGo(l)
    /\ UNCHANGED <<rows, landed, holders, heldFor, ignored>>

-----------------------------------------------------------------------------
(* Time passes when nobody has anything to do at once.  It is counted only  *)
(* while some worker runs, and while the wallets are held it is bounded.   *)
Stuck(l) == NeedsWallet(l) /\ hand[l] \in holders
Quiet(l) ==
    /\ LoopIsQuiet(l)
    /\ at[l] = "step" => Stuck(l) /\ lockLeft[l] > 0

Free(l) == running[l] /\ ~ Stuck(l) /\ at[l] # "error"

Pass ==
    /\ \A l \in Loops : Quiet(l)
    /\ \E l \in Loops : running[l]
    /\ \E p \in Pendings : status[p] = "pending"
    /\ holders # {} => heldFor < MaxHeld
    /\ heldFor' = IF holders # {} THEN heldFor + 1 ELSE heldFor
    /\ wait' = [p \in Pendings |-> IF status[p] = "pending" THEN wait[p] - 1 ELSE wait[p]]
    /\ term' = [p \in Pendings |-> IF status[p] = "pending" THEN term[p] - 1 ELSE term[p]]
    /\ lockLeft' = [l \in Loops |-> IF lockLeft[l] > 0 THEN lockLeft[l] - 1 ELSE 0]
    /\ ignored' = [p \in Pendings |->
                      IF Due(p) /\ ~ Locked(p) /\ \E l \in Loops : Free(l)
                      THEN ignored[p] + 1 ELSE ignored[p]]
    /\ TimersRunDown
    /\ UNCHANGED <<status, attempts, landed, holders, exits, hand>>

(* What a loop does by itself. *)
LoopStep(l) == TimerFires(l) \/ EndLoop(l) \/ StopReturns(l)
Work(l) ==
    \/ \E p \in Pendings : Take(l, p)
    \/ LookInVain(l) \/ FindNothing(l) \/ Reschedule(l) \/ Settle(l) \/ LockTimesOut(l)

Next ==
    \/ \E p \in Pendings : Submit(p) \/ Land(p) \/ Hold(p) \/ Release(p)
    \/ \E l \in Loops : \/ Work(l)
                        \/ (LoopStep(l) \/ Start(l)) /\ UNCHANGED <<rows, others, hands, ignored>>
                        \/ ToldToStop(l) \/ Die(l)
    \/ Pass

Spec == Init /\ [][Next]_vars

-----------------------------------------------------------------------------
MaxWait == TenthsUp(12 * MaxDelay)

TypeOK ==
    /\ LoopTypeOK
    /\ status \in [Pendings -> {"absent", "pending", "settled", "givenUp"}]
    /\ attempts \in [Pendings -> 0 .. MaxAttempts]
    /\ wait \in [Pendings -> Int]
    /\ \A p \in Pendings : wait[p] <= MaxWait
    /\ term \in [Pendings -> Int]
    /\ landed \subseteq Pendings
    /\ holders \subseteq Contended
    /\ heldFor \in 0 .. MaxHeld
    /\ exits \in 0 .. MaxExits
    /\ hand \in [Loops -> Pendings \cup {None}]
    /\ lockLeft \in [Loops -> 0 .. LockTimeout]
    /\ ignored \in [Pendings -> Nat]
    /\ \A l \in Loops : hand[l] # None => at[l] = "step"

(* ARCHITECTURE.md 13.4: the term ends before the attempts do, whatever     *)
(* the jitter, so a pending that is given up has had its full term.        *)
TermEndsBeforeAttempts ==
    [][\A p \in Pendings : status[p] # "givenUp" /\ status'[p] = "givenUp" => term[p] <= 0]_vars

(* A pending is answered when its term ends, but for one capped delay, one  *)
(* sleep of a worker, the time others have held wallets, and one sleep     *)
(* more for each lock timeout they may have caused in that time and for     *)
(* each worker that was stopped or killed.                                 *)
LongestSleep == IF IdleDelay > ErrorDelay THEN IdleDelay ELSE ErrorDelay
Lateness == heldFor + LongestSleep * (1 + exits) + (LongestSleep * heldFor) \div LockTimeout
AnsweredAfterItsTerm ==
    \A p \in Pendings : status[p] = "pending" => term[p] > 0 - (MaxWait + Lateness)

(* The wallet of one pending keeps no other one waiting while a worker is   *)
(* free: less than one tick passes over a due pending whose own wallet      *)
(* nobody holds, and one more for each worker that was stopped or killed,  *)
(* perhaps with the pending in hand, unless every worker that runs waits    *)
(* for the wallet of another one or has just failed to get it.             *)
ContentionKeepsNoOneElse ==
    \A p \in Pendings \ Contended : ignored[p] < (exits + 1) * IdleDelay
=============================================================================

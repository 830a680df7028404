------------------------ MODULE PendingWorkerProofs -------------------------
(***************************************************************************)
(* The queue of the pending wagers, for any number of wagers and workers,   *)
(* any delays and any term.                                                *)
(*                                                                         *)
(*   TInv     types, and what is in a worker's hand: a row that is due,    *)
(*            and in no other hand                                         *)
(*   TermInv  what is left of a term lies between what is left of the      *)
(*            wait, less the longest wait there is, and the term the       *)
(*            attempts made so far leave of it                             *)
(*   LateInv  how late a due row can be: what the sleeps of the workers    *)
(*            may still add to it is bounded by what they have added, and  *)
(*            time over which a wallet was held pays for it                *)
(*   HeedInv  over which rows time passes while a worker is free           *)
(***************************************************************************)
EXTENDS PendingWorker, WellFoundedInduction, TLAPS

LEMMA Constants ==
    /\ IdleDelay \in Nat \ {0} /\ ErrorDelay \in Nat \ {0}
    /\ Pendings \subseteq Nat /\ Contended \subseteq Pendings /\ None \notin Pendings
    /\ FirstDelay \in 1 .. MaxDelay /\ BaseDelay \in Nat \ {0} /\ MaxDelay \in Nat \ {0}
    /\ Ttl \in Nat /\ LockTimeout \in Nat \ {0}
    /\ MaxHeld \in Nat /\ MaxExits \in Nat /\ MaxAttempts \in Nat \ {0}
    /\ LongestSleep \in Nat \ {0} /\ IdleDelay <= LongestSleep /\ ErrorDelay <= LongestSleep
BY DelaysAssumption, PendingsAssumption, TimesAssumption, LimitAssumption, NonePending
   DEF LongestSleep

-----------------------------------------------------------------------------
(* Delays.                                                                 *)

LEMMA RoundingUp ==
    ASSUME NEW a \in Int, NEW b \in Int, a <= b
    PROVE  TenthsUp(a) \in Int /\ TenthsUp(b) \in Int /\ TenthsUp(a) <= TenthsUp(b)
BY DEF TenthsUp

LEMMA DelayBounds ==
    ASSUME NEW n \in 1 .. MaxAttempts, NEW d \in Delays(n)
    PROVE  /\ d \in Int /\ d > 0 /\ d <= MaxWait
           /\ TenthsUp(8 * Backoff(n)) <= d
<1>1. Backoff(n) \in Int /\ Backoff(n) > 0 /\ Backoff(n) <= MaxDelay
  <2>1. n - 1 \in Nat /\ 2 ^ (n - 1) \in Int
    BY Constants
  <2>2. BaseDelay * 2 ^ (n - 1) \in Int
    BY <2>1, Constants
  <2> QED
    BY <2>2, Constants, BackoffAssumption DEF Backoff, AtMost
<1>2. /\ TenthsUp(8 * Backoff(n)) \in Int /\ TenthsUp(12 * Backoff(n)) \in Int
      /\ TenthsUp(12 * Backoff(n)) <= MaxWait /\ MaxWait \in Int
      /\ TenthsUp(8 * Backoff(n)) >= 1
  <2>1. 8 * Backoff(n) \in Int /\ 12 * Backoff(n) \in Int /\ 12 * MaxDelay \in Int
        /\ 12 * Backoff(n) <= 12 * MaxDelay /\ 8 <= 8 * Backoff(n)
    BY <1>1, Constants
  <2>2. TenthsUp(8) = 1
    BY DEF TenthsUp
  <2> QED
    BY <2>1, <2>2, RoundingUp DEF MaxWait
<1> QED
  BY <1>2 DEF Delays

LEMMA FirstDelayFits == MaxWait \in Nat /\ FirstDelay \in Nat \ {0} /\ FirstDelay < MaxWait
<1>1. MaxDelay \in Nat \ {0} /\ FirstDelay \in 1 .. MaxDelay
  BY Constants
<1>2. TenthsUp(12 * MaxDelay) \in Nat /\ TenthsUp(12 * MaxDelay) > MaxDelay
  BY <1>1 DEF TenthsUp
<1> QED
  BY <1>1, <1>2 DEF MaxWait

-----------------------------------------------------------------------------
(* The loops.                                                              *)

LoopInv == LoopTypeOK /\ StopWaitsForTheStepAlone

LEMMA LoopSteps ==
    ASSUME LoopInv, NEW l \in Loops
    PROVE  /\ Start(l) => LoopInv'
           /\ BeginStep(l) => LoopInv'
           /\ at[l] = "step" /\ GoOn(l) => LoopInv'
           /\ at[l] \in {"check", "step"} /\ (Rest(l) \/ Recover(l)) => LoopInv'
           /\ TimerFires(l) => LoopInv'
           /\ EndLoop(l) => LoopInv'
           /\ Stop(l) => LoopInv'
           /\ StopReturns(l) => LoopInv'
           /\ Kill(l) => LoopInv'
<1> USE DEF LoopInv, LoopTypeOK, StopWaitsForTheStepAlone, Asleep
<1>0. IdleDelay \in Nat \ {0} /\ ErrorDelay \in Nat \ {0}
  BY DelaysAssumption
<1>1. ASSUME Start(l) PROVE LoopInv'
  BY <1>1 DEF Start
<1>2. ASSUME BeginStep(l) PROVE LoopInv'
  BY <1>2 DEF BeginStep
<1>3. ASSUME at[l] = "step", GoOn(l) PROVE LoopInv'
  BY <1>3 DEF GoOn
<1>4. ASSUME at[l] \in {"check", "step"}, Rest(l) \/ Recover(l) PROVE LoopInv'
  <2>1. CASE Rest(l)
    BY <1>0, <1>4, <2>1 DEF Rest, Sleep
  <2>2. CASE Recover(l)
    BY <1>0, <1>4, <2>2 DEF Recover, Sleep
  <2> QED
    BY <1>4, <2>1, <2>2
<1>5. ASSUME TimerFires(l) PROVE LoopInv'
  BY <1>5 DEF TimerFires, GoOn
<1>6. ASSUME EndLoop(l) PROVE LoopInv'
  BY <1>6 DEF EndLoop
<1>7. ASSUME Stop(l) PROVE LoopInv'
  BY <1>0, <1>7 DEF Stop
<1>8. ASSUME StopReturns(l) PROVE LoopInv'
  BY <1>8 DEF StopReturns
<1>9. ASSUME Kill(l) PROVE LoopInv'
  BY <1>0, <1>9 DEF Kill
<1> QED
  BY <1>1, <1>2, <1>3, <1>4, <1>5, <1>6, <1>7, <1>8, <1>9

LEMMA TimersStep ==
    ASSUME LoopInv, TimersRunDown
    PROVE  LoopInv'
BY DelaysAssumption DEF LoopInv, LoopTypeOK, StopWaitsForTheStepAlone, Asleep, TimersRunDown

-----------------------------------------------------------------------------
(* Types, and what is in a worker's hand: a row that waits and is due, and  *)
(* is in no other hand.                                                    *)

RowsTypeOK ==
    /\ status \in [Pendings -> {"absent", "pending", "settled", "givenUp"}]
    /\ attempts \in [Pendings -> 0 .. MaxAttempts]
    /\ wait \in [Pendings -> Int]
    /\ \A p \in Pendings : wait[p] <= MaxWait
    /\ term \in [Pendings -> Int]
    /\ ignored \in [Pendings -> Nat]
OthersTypeOK ==
    /\ landed \subseteq Pendings
    /\ holders \subseteq Contended
    /\ heldFor \in 0 .. MaxHeld
    /\ exits \in 0 .. MaxExits
HandsOK ==
    /\ hand \in [Loops -> Pendings \cup {None}]
    /\ lockLeft \in [Loops -> 0 .. LockTimeout]
    /\ \A l \in Loops : hand[l] # None => at[l] = "step"
    /\ \A l \in Loops : hand[l] # None => Due(hand[l])
    /\ \A k, l \in Loops : hand[k] = hand[l] /\ hand[k] # None => k = l

TInv == LoopInv /\ RowsTypeOK /\ OthersTypeOK /\ HandsOK

LEMMA TypesFollow == TInv => TypeOK /\ StopWaitsForTheStepAlone
BY DEF TInv, TypeOK, LoopInv, RowsTypeOK, OthersTypeOK, HandsOK

LEMMA TInit == Init => TInv
BY Constants, FirstDelayFits
   DEF Init, LoopInit, TInv, LoopInv, LoopTypeOK, StopWaitsForTheStepAlone, Asleep, RowsTypeOK,
       OthersTypeOK, HandsOK

LEMMA LandedAndHeldStep ==
    ASSUME TInv, NEW p \in Pendings, Land(p) \/ Hold(p) \/ Release(p)
    PROVE  TInv'
<1>1. UNCHANGED <<loopVars, rows, hands, ignored>> /\ UNCHANGED <<heldFor, exits>>
  BY DEF Land, Hold, Release
<1>2. LoopInv' /\ RowsTypeOK' /\ HandsOK'
  BY <1>1 DEF TInv, LoopInv, LoopTypeOK, StopWaitsForTheStepAlone, Asleep, RowsTypeOK, HandsOK,
              Due, loopVars, rows, hands
<1>3. OthersTypeOK'
  BY <1>1 DEF TInv, OthersTypeOK, Land, Hold, Release
<1> QED
  BY <1>2, <1>3 DEF TInv

LEMMA SubmitStep ==
    ASSUME TInv, NEW p \in Pendings, Submit(p)
    PROVE  TInv'
<1>1. LoopInv' /\ OthersTypeOK'
  BY DEF Submit, TInv, LoopInv, LoopTypeOK, StopWaitsForTheStepAlone, Asleep, OthersTypeOK,
         loopVars, others
<1>2. RowsTypeOK'
  BY Constants, FirstDelayFits DEF Submit, TInv, RowsTypeOK
<1>3. HandsOK'
  BY DEF Submit, TInv, HandsOK, RowsTypeOK, Due, loopVars, hands
<1> QED
  BY <1>1, <1>2, <1>3 DEF TInv

(* A worker that lets go of its row, at a step's end. *)
LEMMA LettingGo ==
    ASSUME TInv, NEW l \in Loops, hand[l] # None, LetGo(l),
           \A k \in Loops \ {l} : at'[k] = at[k],
           \A k \in Loops \ {l} : hand[k] # None => Due(hand[k])'
    PROVE  HandsOK'
<1>1. \A k \in Loops \ {l} : hand'[k] = hand[k]
  BY DEF LetGo, TInv, HandsOK
<1>2. hand'[l] = None
  BY DEF LetGo, TInv, HandsOK
<1>3. hand' \in [Loops -> Pendings \cup {None}] /\ lockLeft' \in [Loops -> 0 .. LockTimeout]
  BY Constants DEF LetGo, TInv, HandsOK
<1>4. \A k \in Loops : hand'[k] # None => at'[k] = "step"
  BY <1>1, <1>2 DEF TInv, HandsOK
<1>5. \A k \in Loops : hand'[k] # None => Due(hand[k])' /\ hand'[k] = hand[k]
  BY <1>1, <1>2
<1>6. \A j, k \in Loops : hand'[j] = hand'[k] /\ hand'[j] # None => j = k
  BY <1>1, <1>2 DEF TInv, HandsOK
<1> QED
  BY <1>3, <1>4, <1>5, <1>6 DEF HandsOK, Due

LEMMA TakeStep ==
    ASSUME TInv, NEW l \in Loops, NEW p \in Pendings, Take(l, p)
    PROVE  TInv'
<1>1. /\ Due(p) /\ ~ Locked(p) /\ BeginStep(l)
      /\ hand' = [hand EXCEPT ![l] = p]
      /\ lockLeft' = [lockLeft EXCEPT ![l] = LockTimeout]
      /\ UNCHANGED <<rows, others, ignored>>
  BY DEF Take, IsNext
<1>2. LoopInv'
  BY <1>1, LoopSteps DEF TInv
<1>3. RowsTypeOK' /\ OthersTypeOK'
  BY <1>1 DEF TInv, RowsTypeOK, OthersTypeOK, rows, others
<1>4. HandsOK'
  <2>1. at \in [Loops -> {"off", "check", "step", "idle", "error"}]
    BY DEF TInv, LoopInv, LoopTypeOK
  <2>2. at' = [at EXCEPT ![l] = "step"] /\ at[l] # "step"
    BY <1>1 DEF BeginStep
  <2>3. p # None /\ \A k \in Loops : hand[k] # p
    BY <1>1, Constants DEF Locked
  <2>4. hand' \in [Loops -> Pendings \cup {None}] /\ lockLeft' \in [Loops -> 0 .. LockTimeout]
    BY <1>1, Constants DEF TInv, HandsOK
  <2>5. \A k \in Loops : hand'[k] # None => at'[k] = "step"
    BY <1>1, <2>1, <2>2, <2>3 DEF TInv, HandsOK
  <2>6. \A k \in Loops : hand'[k] # None => Due(hand[k])'
    BY <1>1 DEF TInv, HandsOK, Due, rows
  <2>7. \A j, k \in Loops : hand'[j] = hand'[k] /\ hand'[j] # None => j = k
    BY <1>1, <2>3 DEF TInv, HandsOK
  <2> QED
    BY <2>4, <2>5, <2>6, <2>7 DEF HandsOK, Due
<1> QED
  BY <1>2, <1>3, <1>4 DEF TInv

LEMMA LookInVainStep ==
    ASSUME TInv, NEW l \in Loops, LookInVain(l)
    PROVE  TInv'
<1>1. BeginStep(l) /\ UNCHANGED <<rows, others, hands, ignored>>
  BY DEF LookInVain
<1>2. LoopInv'
  BY <1>1, LoopSteps DEF TInv
<1>3. RowsTypeOK' /\ OthersTypeOK'
  BY <1>1 DEF TInv, RowsTypeOK, OthersTypeOK, rows, others
<1>4. \A k \in Loops : at[k] = "step" => at'[k] = "step"
  BY <1>1 DEF BeginStep, TInv, LoopInv, LoopTypeOK
<1>5. HandsOK'
  BY <1>1, <1>4 DEF TInv, HandsOK, Due, rows, hands
<1> QED
  BY <1>2, <1>3, <1>5 DEF TInv

LEMMA FindNothingStep ==
    ASSUME TInv, NEW l \in Loops, FindNothing(l)
    PROVE  TInv'
<1>1. /\ at[l] = "step" /\ hand[l] = None /\ Rest(l)
      /\ UNCHANGED <<rows, others, hands, ignored>>
  BY DEF FindNothing, InVain
<1>2. LoopInv'
  BY <1>1, LoopSteps DEF TInv
<1>3. RowsTypeOK' /\ OthersTypeOK'
  BY <1>1 DEF TInv, RowsTypeOK, OthersTypeOK, rows, others
<1>4. \A k \in Loops \ {l} : at'[k] = at[k]
  BY <1>1 DEF Rest, Sleep, TInv, LoopInv, LoopTypeOK
<1>5. HandsOK'
  BY <1>1, <1>4 DEF TInv, HandsOK, Due, rows, hands
<1> QED
  BY <1>2, <1>3, <1>5 DEF TInv

LEMMA RescheduleStep ==
    ASSUME TInv, NEW l \in Loops, Reschedule(l)
    PROVE  TInv'
<1> DEFINE p == hand[l]
<1>1. /\ p # None /\ ~ IsExhausted(p) /\ LetGo(l) /\ GoOn(l)
      /\ attempts' = [attempts EXCEPT ![p] = attempts[p] + 1]
      /\ ignored' = [ignored EXCEPT ![p] = 0]
      /\ UNCHANGED <<status, term, others>>
  BY DEF Reschedule
<1>2. PICK d \in Delays(attempts[p] + 1) : wait' = [wait EXCEPT ![p] = d]
  BY DEF Reschedule
<1>3. p \in Pendings /\ at[l] = "step" /\ Due(p)
  BY <1>1 DEF TInv, HandsOK
<1>4. attempts[p] + 1 \in 1 .. MaxAttempts
  BY <1>1, <1>3, Constants DEF TInv, RowsTypeOK, IsExhausted
<1>5. d \in Int /\ d <= MaxWait
  BY <1>2, <1>4, DelayBounds
<1>6. LoopInv'
  BY <1>1, <1>3, LoopSteps DEF TInv
<1>7. OthersTypeOK'
  BY <1>1 DEF TInv, OthersTypeOK, others
<1>8. RowsTypeOK'
  BY <1>1, <1>2, <1>3, <1>4, <1>5 DEF TInv, RowsTypeOK
<1>9. at'[l] = "check" /\ \A k \in Loops \ {l} : at'[k] = at[k]
  BY <1>1 DEF GoOn, TInv, LoopInv, LoopTypeOK
<1>10. \A k \in Loops \ {l} : hand[k] # None => hand[k] # p /\ hand[k] \in Pendings /\ hand'[k] = hand[k]
  BY <1>1 DEF TInv, HandsOK, LetGo
<1>11. \A k \in Loops \ {l} : hand[k] # None => Due(hand[k])'
  BY <1>1, <1>2, <1>10 DEF TInv, HandsOK, RowsTypeOK, Due
<1>12. HandsOK'
  BY <1>1, <1>9, <1>11, LettingGo
<1> QED
  BY <1>6, <1>7, <1>8, <1>12 DEF TInv

LEMMA SettleStep ==
    ASSUME TInv, NEW l \in Loops, Settle(l)
    PROVE  TInv'
<1> DEFINE p == hand[l]
<1>1. /\ p # None /\ LetGo(l) /\ GoOn(l) /\ UNCHANGED others
      /\ status' = [status EXCEPT ![p] = IF p \in landed THEN "settled" ELSE "givenUp"]
      /\ attempts' = [attempts EXCEPT ![p] = 0] /\ wait' = [wait EXCEPT ![p] = 0]
      /\ term' = [term EXCEPT ![p] = 0] /\ ignored' = [ignored EXCEPT ![p] = 0]
  BY DEF Settle, NeedsWallet
<1>2. p \in Pendings /\ at[l] = "step"
  BY <1>1 DEF TInv, HandsOK
<1>3. LoopInv'
  BY <1>1, <1>2, LoopSteps DEF TInv
<1>4. OthersTypeOK'
  BY <1>1 DEF TInv, OthersTypeOK, others
<1>5. RowsTypeOK'
  BY <1>1, <1>2, Constants, FirstDelayFits DEF TInv, RowsTypeOK
<1>6. at'[l] = "check" /\ \A k \in Loops \ {l} : at'[k] = at[k]
  BY <1>1 DEF GoOn, TInv, LoopInv, LoopTypeOK
<1>7. \A k \in Loops \ {l} : hand[k] # None => hand[k] # p /\ hand[k] \in Pendings /\ hand'[k] = hand[k]
  BY <1>1 DEF TInv, HandsOK, LetGo
<1>8. \A k \in Loops \ {l} : hand[k] # None => Due(hand[k])'
  BY <1>1, <1>7 DEF TInv, HandsOK, RowsTypeOK, Due
<1>9. HandsOK'
  BY <1>1, <1>6, <1>8, LettingGo
<1> QED
  BY <1>3, <1>4, <1>5, <1>9 DEF TInv

LEMMA LockTimesOutStep ==
    ASSUME TInv, NEW l \in Loops, LockTimesOut(l)
    PROVE  TInv'
<1>1. hand[l] # None /\ LetGo(l) /\ Recover(l) /\ UNCHANGED <<rows, others, ignored>>
  BY DEF LockTimesOut, NeedsWallet
<1>2. at[l] = "step"
  BY <1>1 DEF TInv, HandsOK
<1>3. LoopInv'
  BY <1>1, <1>2, LoopSteps DEF TInv
<1>4. RowsTypeOK' /\ OthersTypeOK'
  BY <1>1 DEF TInv, RowsTypeOK, OthersTypeOK, rows, others
<1>5. at'[l] # "step" /\ \A k \in Loops \ {l} : at'[k] = at[k]
  BY <1>1 DEF Recover, Sleep, TInv, LoopInv, LoopTypeOK
<1>6. \A k \in Loops \ {l} : hand[k] # None => hand'[k] = hand[k]
  BY <1>1 DEF TInv, HandsOK, LetGo
<1>7. \A k \in Loops \ {l} : hand[k] # None => Due(hand[k])'
  BY <1>1, <1>6 DEF TInv, HandsOK, Due, rows
<1>8. HandsOK'
  BY <1>1, <1>5, <1>7, LettingGo
<1> QED
  BY <1>3, <1>4, <1>8 DEF TInv

(* What leaves every row alone, and every hand.                            *)
LEMMA LoopAloneStep ==
    ASSUME TInv, NEW l \in Loops,
           LoopStep(l) \/ Start(l) \/ Stop(l), UNCHANGED <<rows, landed, holders, heldFor, hands, ignored>>,
           exits' \in 0 .. MaxExits
    PROVE  TInv'
<1>1. LoopInv'
  BY LoopSteps DEF TInv, LoopStep
<1>2. RowsTypeOK' /\ OthersTypeOK'
  BY DEF TInv, RowsTypeOK, OthersTypeOK, rows
<1>3. \A k \in Loops : at'[k] = "step" <=> at[k] = "step"
  BY DEF LoopStep, TimerFires, GoOn, EndLoop, StopReturns, Start, Stop, Asleep, TInv, LoopInv,
         LoopTypeOK
<1>4. HandsOK'
  BY <1>3 DEF TInv, HandsOK, Due, rows, hands
<1> QED
  BY <1>1, <1>2, <1>4 DEF TInv

LEMMA ToldToStopStep ==
    ASSUME TInv, NEW l \in Loops, ToldToStop(l)
    PROVE  TInv'
<1>1. exits' \in 0 .. MaxExits
  BY Constants DEF ToldToStop, TInv, OthersTypeOK
<1> QED
  BY <1>1, LoopAloneStep DEF ToldToStop

LEMMA DieStep ==
    ASSUME TInv, NEW l \in Loops, Die(l)
    PROVE  TInv'
<1>1. /\ exits < MaxExits /\ exits' = exits + 1 /\ Kill(l) /\ LetGo(l)
      /\ UNCHANGED <<rows, landed, holders, heldFor, ignored>>
  BY DEF Die
<1>2. LoopInv'
  BY <1>1, LoopSteps DEF TInv
<1>3. RowsTypeOK' /\ OthersTypeOK'
  BY <1>1, Constants DEF TInv, RowsTypeOK, OthersTypeOK, rows
<1>4. at'[l] = "off" /\ \A k \in Loops \ {l} : at'[k] = at[k]
  BY <1>1 DEF Kill, TInv, LoopInv, LoopTypeOK
<1>5. \A k \in Loops \ {l} : hand'[k] = hand[k]
  BY <1>1 DEF TInv, HandsOK, LetGo
<1>6. HandsOK'
  <2>1. CASE hand[l] # None
    <3>1. \A k \in Loops \ {l} : hand[k] # None => Due(hand[k])'
      BY <1>1, <1>5 DEF TInv, HandsOK, Due, rows
    <3> QED
      BY <1>1, <1>4, <2>1, <3>1, LettingGo
  <2>2. CASE hand[l] = None
    <3>1. hand' = hand /\ lockLeft' \in [Loops -> 0 .. LockTimeout]
      BY <1>1, <2>2, Constants DEF LetGo, TInv, HandsOK
    <3>2. \A k \in Loops : hand[k] # None => at'[k] = "step"
      BY <1>4, <2>2 DEF TInv, HandsOK
    <3> QED
      BY <1>1, <3>1, <3>2 DEF TInv, HandsOK, Due, rows
  <2> QED
    BY <2>1, <2>2
<1> QED
  BY <1>2, <1>3, <1>6 DEF TInv

LEMMA PassStep ==
    ASSUME TInv, Pass
    PROVE  TInv'
<1>1. LoopInv'
  BY TimersStep DEF Pass, TInv
<1>2. RowsTypeOK'
  BY FirstDelayFits DEF Pass, TInv, RowsTypeOK
<1>3. OthersTypeOK'
  BY Constants DEF Pass, TInv, OthersTypeOK
<1>4. HandsOK'
  <2>1. UNCHANGED <<status, hand, at>>
    BY DEF Pass, TimersRunDown
  <2>2. lockLeft' \in [Loops -> 0 .. LockTimeout]
    BY Constants DEF Pass, TInv, HandsOK
  <2>3. \A p \in Pendings : Due(p) => Due(p)'
    BY <2>1 DEF Pass, TInv, RowsTypeOK, Due
  <2> QED
    BY <2>1, <2>2, <2>3 DEF TInv, HandsOK, Due
<1> QED
  BY <1>1, <1>2, <1>3, <1>4 DEF TInv

LEMMA TInductive == TInv /\ [Next]_vars => TInv'
<1> SUFFICES ASSUME TInv, [Next]_vars PROVE TInv'
  OBVIOUS
<1>1. CASE UNCHANGED vars
  BY <1>1 DEF vars, rows, others, hands, loopVars, TInv, LoopInv, LoopTypeOK,
              StopWaitsForTheStepAlone, Asleep, RowsTypeOK, OthersTypeOK, HandsOK, Due
<1>2. ASSUME NEW p \in Pendings, Submit(p) \/ Land(p) \/ Hold(p) \/ Release(p) PROVE TInv'
  BY <1>2, SubmitStep, LandedAndHeldStep
<1>3. ASSUME NEW l \in Loops, Work(l) PROVE TInv'
  BY <1>3, TakeStep, LookInVainStep, FindNothingStep, RescheduleStep, SettleStep,
     LockTimesOutStep DEF Work
<1>4. ASSUME NEW l \in Loops, LoopStep(l) \/ Start(l), UNCHANGED <<rows, others, hands, ignored>>
      PROVE  TInv'
  <2>1. exits' \in 0 .. MaxExits /\ UNCHANGED <<rows, landed, holders, heldFor, hands, ignored>>
    BY <1>4 DEF TInv, OthersTypeOK, others
  <2> QED
    BY <1>4, <2>1, LoopAloneStep
<1>5. ASSUME NEW l \in Loops, ToldToStop(l) \/ Die(l) PROVE TInv'
  BY <1>5, ToldToStopStep, DieStep
<1>6. CASE Pass
  BY <1>6, PassStep
<1> QED
  BY <1>1, <1>2, <1>3, <1>4, <1>5, <1>6 DEF Next

-----------------------------------------------------------------------------
(* What is left of a term, against the wait and the attempts made.         *)

TermInv ==
    \A p \in Pendings :
        /\ status[p] = "absent" => attempts[p] = 0
        /\ status[p] = "pending" => /\ wait[p] - MaxWait < term[p]
                                    /\ term[p] <= Ttl - LeastTime[attempts[p]] + wait[p]

LEMMA LeastTimes ==
    /\ \A n \in 0 .. MaxAttempts : LeastTime[n] \in Nat
    /\ LeastTime[0] = FirstDelay /\ LeastTime[MaxAttempts] >= Ttl
    /\ \A n \in 0 .. MaxAttempts : n < MaxAttempts =>
           LeastTime[n + 1] = LeastTime[n] + TenthsUp(8 * Backoff(n + 1))
<1>1. /\ LeastTime \in [0 .. MaxAttempts -> Nat]
      /\ LeastTime[0] = FirstDelay
      /\ \A n \in 1 .. MaxAttempts : LeastTime[n] = LeastTime[n - 1] + TenthsUp(8 * Backoff(n))
      /\ LeastTime[MaxAttempts] >= Ttl
  BY LeastTimeAssumption
<1>2. ASSUME NEW n \in 0 .. MaxAttempts, n < MaxAttempts
      PROVE  LeastTime[n + 1] = LeastTime[n] + TenthsUp(8 * Backoff(n + 1))
  <2>1. n + 1 \in 1 .. MaxAttempts /\ (n + 1) - 1 = n
    BY <1>2, Constants
  <2> QED
    BY <1>1, <2>1
<1> QED
  BY <1>1, <1>2

LEMMA TermRows ==
    ASSUME TInv, TermInv, UNCHANGED rows
    PROVE  TermInv'
BY DEF TermInv, rows

LEMMA TermSubmit ==
    ASSUME TInv, TermInv, NEW p \in Pendings, Submit(p)
    PROVE  TermInv'
<1>1. /\ status' = [status EXCEPT ![p] = "pending"] /\ status[p] = "absent"
      /\ wait' = [wait EXCEPT ![p] = FirstDelay] /\ term' = [term EXCEPT ![p] = Ttl]
      /\ attempts' = attempts
  BY DEF Submit
<1>2. RowsTypeOK
  BY DEF TInv
<1>3. /\ attempts[p] = 0
      /\ FirstDelay - MaxWait < Ttl /\ Ttl <= Ttl - LeastTime[0] + FirstDelay
  BY <1>1, LeastTimes, FirstDelayFits, Constants DEF TermInv
<1> QED
  BY <1>1, <1>2, <1>3 DEF TermInv, RowsTypeOK

LEMMA TermReschedule ==
    ASSUME TInv, TermInv, NEW l \in Loops, Reschedule(l)
    PROVE  TermInv'
<1> DEFINE p == hand[l]
<1>1. /\ p # None /\ ~ IsExhausted(p)
      /\ attempts' = [attempts EXCEPT ![p] = attempts[p] + 1]
      /\ UNCHANGED <<status, term>>
  BY DEF Reschedule
<1>2. PICK d \in Delays(attempts[p] + 1) : wait' = [wait EXCEPT ![p] = d]
  BY DEF Reschedule
<1>3. p \in Pendings /\ status[p] = "pending" /\ wait[p] <= 0
  BY <1>1 DEF TInv, HandsOK, Due
<1>4. RowsTypeOK
  BY DEF TInv
<1>5. /\ attempts[p] \in 0 .. MaxAttempts /\ attempts[p] < MaxAttempts /\ term[p] > 0
      /\ term[p] \in Int /\ wait[p] \in Int
  <2>1. attempts[p] \in 0 .. MaxAttempts /\ term[p] \in Int /\ wait[p] \in Int
    BY <1>3, <1>4 DEF RowsTypeOK
  <2>2. ~ (attempts[p] >= MaxAttempts) /\ ~ (term[p] <= 0)
    BY <1>1 DEF IsExhausted
  <2> QED
    BY <2>1, <2>2, Constants
<1>6. d \in Int /\ d <= MaxWait /\ TenthsUp(8 * Backoff(attempts[p] + 1)) <= d
  BY <1>2, <1>5, Constants, DelayBounds
<1>7. LeastTime[attempts[p] + 1] = LeastTime[attempts[p]] + TenthsUp(8 * Backoff(attempts[p] + 1))
      /\ LeastTime[attempts[p]] \in Nat /\ LeastTime[attempts[p] + 1] \in Nat
  BY <1>5, LeastTimes, Constants
<1>8. TenthsUp(8 * Backoff(attempts[p] + 1)) \in Int
  <2>1. Backoff(attempts[p] + 1) \in Int
    <3>1. attempts[p] \in Nat
      BY <1>5
    <3>2. (attempts[p] + 1) - 1 \in Nat
      BY <3>1
    <3>3. 2 ^ ((attempts[p] + 1) - 1) \in Int
      BY <3>2
    <3> QED
      BY <3>3, Constants DEF Backoff, AtMost
  <2> QED
    BY <2>1 DEF TenthsUp
<1>9. d - MaxWait < term[p] /\ term[p] <= Ttl - LeastTime[attempts[p] + 1] + d
  <2>1. term[p] <= Ttl - LeastTime[attempts[p]] + wait[p]
    BY <1>3 DEF TermInv
  <2> QED
    BY <1>3, <1>5, <1>6, <1>7, <1>8, <2>1, Constants, FirstDelayFits
<1> HIDE DEF p
<1> QED
  BY <1>1, <1>2, <1>3, <1>4, <1>9 DEF TermInv, RowsTypeOK

LEMMA TermSettle ==
    ASSUME TInv, TermInv, NEW l \in Loops, Settle(l)
    PROVE  TermInv'
<1>1. hand[l] \in Pendings
  BY DEF Settle, NeedsWallet, TInv, HandsOK
<1>2. RowsTypeOK
  BY DEF TInv
<1>3. /\ status' = [status EXCEPT ![hand[l]] =
                       IF hand[l] \in landed THEN "settled" ELSE "givenUp"]
      /\ attempts' = [attempts EXCEPT ![hand[l]] = 0] /\ wait' = [wait EXCEPT ![hand[l]] = 0]
      /\ term' = [term EXCEPT ![hand[l]] = 0]
  BY DEF Settle
<1> QED
  BY <1>1, <1>2, <1>3 DEF TermInv, RowsTypeOK

LEMMA TermPass ==
    ASSUME TInv, TermInv, Pass
    PROVE  TermInv'
<1>1. /\ wait' = [p \in Pendings |-> IF status[p] = "pending" THEN wait[p] - 1 ELSE wait[p]]
      /\ term' = [p \in Pendings |-> IF status[p] = "pending" THEN term[p] - 1 ELSE term[p]]
      /\ UNCHANGED <<status, attempts>>
  BY DEF Pass
<1>2. ASSUME NEW p \in Pendings
      PROVE  wait[p] \in Int /\ term[p] \in Int /\ LeastTime[attempts[p]] \in Nat
  BY LeastTimes DEF TInv, RowsTypeOK
<1> QED
  BY <1>1, <1>2, FirstDelayFits, Constants DEF TermInv

LEMMA TermInductive == TInv /\ TermInv /\ [Next]_vars => TermInv'
<1> SUFFICES ASSUME TInv, TermInv, [Next]_vars PROVE TermInv'
  OBVIOUS
<1>1. CASE UNCHANGED vars
  BY <1>1, TermRows DEF vars
<1>2. ASSUME NEW p \in Pendings, Submit(p) \/ Land(p) \/ Hold(p) \/ Release(p) PROVE TermInv'
  BY <1>2, TermSubmit, TermRows DEF Land, Hold, Release
<1>3. ASSUME NEW l \in Loops, Work(l) PROVE TermInv'
  BY <1>3, TermReschedule, TermSettle, TermRows DEF Work, Take, LookInVain, FindNothing,
     LockTimesOut
<1>4. ASSUME NEW l \in Loops, ToldToStop(l) \/ Die(l) PROVE TermInv'
  BY <1>4, TermRows DEF ToldToStop, Die
<1>5. CASE Pass
  BY <1>5, TermPass
<1> QED
  BY <1>1, <1>2, <1>3, <1>4, <1>5, TermRows DEF Next

LEMMA TermInit == Init => TermInv
BY DEF Init, TermInv

(* A row is given up by its worker alone, and its attempts only run out     *)
(* once its term has.                                                      *)
LEMMA GivingUp ==
    ASSUME TInv, TermInv, [Next]_vars, NEW p \in Pendings,
           status[p] # "givenUp", status'[p] = "givenUp"
    PROVE  term[p] <= 0
<1>1. status' # status
  OBVIOUS
<1>2. \E l \in Loops : Settle(l) /\ hand[l] = p /\ p \notin landed
  <2>1. ASSUME NEW q \in Pendings, Submit(q) PROVE status'[p] # "givenUp"
    BY <2>1 DEF Submit, TInv, RowsTypeOK
  <2>2. ASSUME NEW l \in Loops, Settle(l) PROVE hand[l] = p /\ p \notin landed
    <3>1. hand[l] \in Pendings
      BY <2>2 DEF Settle, NeedsWallet, TInv, HandsOK
    <3>2. status' = [status EXCEPT ![hand[l]] =
                        IF hand[l] \in landed THEN "settled" ELSE "givenUp"]
      BY <2>2 DEF Settle
    <3> QED
      BY <3>1, <3>2 DEF TInv, RowsTypeOK
  <2>3. \/ \E q \in Pendings : Submit(q)
        \/ \E l \in Loops : Settle(l)
    BY <1>1 DEF Next, vars, rows, Land, Hold, Release, Work, Take, LookInVain, FindNothing,
                Reschedule, LockTimesOut, ToldToStop, Die, Pass
  <2> QED
    BY <2>1, <2>2, <2>3
<1>3. PICK l \in Loops : Settle(l) /\ hand[l] = p /\ p \notin landed
  BY <1>2
<1>4. status[p] = "pending" /\ wait[p] <= 0 /\ IsExhausted(p)
  BY <1>3 DEF Settle, NeedsWallet, TInv, HandsOK, Due
<1>5. attempts[p] \in 0 .. MaxAttempts /\ wait[p] \in Int /\ term[p] \in Int
  BY DEF TInv, RowsTypeOK
<1>6. CASE attempts[p] >= MaxAttempts
  <2>1. attempts[p] = MaxAttempts
    BY <1>5, <1>6, Constants
  <2>2. term[p] <= Ttl - LeastTime[MaxAttempts] + wait[p]
    BY <1>4, <2>1 DEF TermInv
  <2>3. LeastTime[MaxAttempts] \in Nat /\ LeastTime[MaxAttempts] >= Ttl
    BY LeastTimes, Constants
  <2> QED
    BY <1>4, <1>5, <2>2, <2>3, Constants
<1> QED
  BY <1>4, <1>6 DEF IsExhausted

-----------------------------------------------------------------------------
(* How late a due row can be.                                              *)
(*                                                                         *)
(* Behind(p) is the time that has passed over p since it fell due, less     *)
(* the time wallets have been held.  It grows only while every worker that *)
(* runs is asleep.  A worker falls asleep while p is due after a lock       *)
(* timeout, which took LockTimeout units of heldFor, or because p was in a  *)
(* hand when it looked; p is then free again, and due, only after a lock    *)
(* timeout or the death of the worker that had it, be it before the worker *)
(* that looked in vain is asleep or after.  Allowance is what all those     *)
(* sleeps may come to, times LockTimeout.                                  *)

Scaled(n) == LockTimeout * n
Sleeps(n) == LongestSleep * n
Allowance == Scaled(LongestSleep) + Scaled(LongestSleep) * exits + Sleeps(heldFor)
Behind(p) == 0 - wait[p] - heldFor

LateFor(p) ==
    /\ Scaled(Behind(p)) < Allowance
    /\ ~ Locked(p) =>
           \A l \in Loops : Asleep(l) => Scaled(Behind(p)) + Scaled(timer[l]) < Allowance
    /\ ~ Locked(p) =>
           \A l \in Loops : InVain(l) => Scaled(Behind(p)) + Scaled(LongestSleep) < Allowance
    /\ \A l \in Loops : hand[l] # None =>
           Scaled(Behind(p)) + Scaled(LongestSleep) < Allowance + Sleeps(lockLeft[l])
LateInv == \A p \in Pendings : Due(p) => LateFor(p)

(* Arithmetic, so that what follows is linear. *)
LEMMA ScaledTypes ==
    /\ LongestSleep \in Nat \ {0} /\ LockTimeout \in Nat \ {0}
    /\ \A n \in Int : Scaled(n) \in Int /\ Sleeps(n) \in Int
    /\ \A n \in Nat : Scaled(n) \in Nat /\ Sleeps(n) \in Nat
<1>1. LongestSleep \in Nat \ {0} /\ LockTimeout \in Nat \ {0}
  BY Constants
<1> QED
  BY <1>1 DEF Scaled, Sleeps

LEMMA ScaledMore ==
    \A n \in Int : /\ Scaled(n + 1) = Scaled(n) + LockTimeout
                   /\ Scaled(n - 1) = Scaled(n) - LockTimeout
                   /\ Sleeps(n + 1) = Sleeps(n) + LongestSleep
                   /\ Sleeps(n - 1) = Sleeps(n) - LongestSleep
BY ScaledTypes DEF Scaled, Sleeps

LEMMA ScaledMono == \A m, n \in Int : m <= n => Scaled(m) <= Scaled(n)
<1> SUFFICES ASSUME NEW m \in Int, NEW n \in Int, m <= n PROVE Scaled(m) <= Scaled(n)
  OBVIOUS
<1>1. LockTimeout \in Nat
  BY ScaledTypes
<1> QED
  BY <1>1 DEF Scaled

LEMMA ScaledUnits ==
    /\ Sleeps(0) = 0 /\ Scaled(0) = 0 /\ Sleeps(LockTimeout) = Scaled(LongestSleep)
    /\ Scaled(LongestSleep) \in Nat \ {0} /\ Scaled(LongestSleep - 1) < Scaled(LongestSleep)
<1>1. LongestSleep \in Nat \ {0} /\ LockTimeout \in Nat \ {0}
  BY ScaledTypes
<1>2. LockTimeout * LongestSleep = LongestSleep * LockTimeout
  BY <1>1
<1>3. LockTimeout * LongestSleep \in Nat \ {0}
  BY <1>1
<1>4. Scaled(LongestSleep - 1) = Scaled(LongestSleep) - LockTimeout
  BY <1>1, ScaledMore
<1>5. Sleeps(0) = 0 /\ Scaled(0) = 0
  BY <1>1 DEF Scaled, Sleeps
<1>6. Scaled(LongestSleep) = LockTimeout * LongestSleep /\ Sleeps(LockTimeout) = LongestSleep * LockTimeout
  BY DEF Scaled, Sleeps
<1> QED
  BY <1>1, <1>2, <1>3, <1>4, <1>5, <1>6

LEMMA ScaledIsMore == \A n \in Nat : Scaled(n) >= n
<1>1. LockTimeout \in Nat \ {0}
  BY ScaledTypes
<1> QED
  BY <1>1 DEF Scaled

LEMMA LateTypes ==
    ASSUME TInv
    PROVE  /\ heldFor \in Nat /\ exits \in Nat /\ Scaled(LongestSleep) * exits \in Nat
           /\ Allowance \in Nat /\ Allowance >= Scaled(LongestSleep)
           /\ \A p \in Pendings : Behind(p) \in Int /\ Scaled(Behind(p)) \in Int
           /\ \A l \in Loops : /\ timer[l] \in 0 .. LongestSleep /\ Scaled(timer[l]) \in Nat
                               /\ Scaled(timer[l]) <= Scaled(LongestSleep)
                               /\ lockLeft[l] \in 0 .. LockTimeout /\ Sleeps(lockLeft[l]) \in Nat
<1>1. heldFor \in Nat /\ exits \in Nat
  BY Constants DEF TInv, OthersTypeOK
<1>2. Scaled(LongestSleep) \in Nat /\ Sleeps(heldFor) \in Nat
  BY <1>1, ScaledTypes
<1>3. Scaled(LongestSleep) * exits \in Nat
  BY <1>1, <1>2
<1>4. Allowance \in Nat /\ Allowance >= Scaled(LongestSleep)
  BY <1>2, <1>3 DEF Allowance
<1>5. \A p \in Pendings : Behind(p) \in Int
  BY <1>1 DEF TInv, RowsTypeOK, Behind
<1>6. \A p \in Pendings : Scaled(Behind(p)) \in Int
  BY <1>5, ScaledTypes
<1>7. \A l \in Loops : timer[l] \in 0 .. LongestSleep /\ lockLeft[l] \in 0 .. LockTimeout
  BY DEF TInv, LoopInv, LoopTypeOK, HandsOK, LongestSleep
<1>8. ASSUME NEW l \in Loops
      PROVE  /\ Scaled(timer[l]) \in Nat /\ Scaled(timer[l]) <= Scaled(LongestSleep)
             /\ Sleeps(lockLeft[l]) \in Nat
  <2>1. timer[l] \in Nat /\ timer[l] <= LongestSleep /\ lockLeft[l] \in Nat
        /\ LongestSleep \in Int /\ timer[l] \in Int
    BY <1>7, ScaledTypes
  <2>2. Scaled(timer[l]) <= Scaled(LongestSleep)
    BY <2>1, ScaledMono
  <2> QED
    BY <2>1, <2>2, ScaledTypes
<1> QED
  BY <1>1, <1>3, <1>4, <1>5, <1>6, <1>7, <1>8

(* A set of naturals has a least element, and the queue a head. *)
LEMMA Least ==
    ASSUME NEW T, T \subseteq Nat, T # {}
    PROVE  \E x \in T : \A y \in T : x <= y
<1> DEFINE R == {p \in Nat \X Nat : p[1] < p[2]}
<1>1. R = OpToRel(<, Nat)
  BY DEF OpToRel
<1>2. IsWellFoundedOn(R, Nat)
  BY <1>1, NatLessThanWellFounded
<1>3. PICK x \in T : \A y \in T : ~ (<<y, x>> \in R)
  BY <1>2, WFMin
<1>4. \A y \in T : <<y, x>> \in R <=> y < x
  BY <1>3
<1> HIDE DEF R
<1>5. \A y \in T : ~ (y < x)
  BY <1>3, <1>4
<1> QED
  BY <1>5

LEMMA QueueHead ==
    ASSUME TInv, LateInv, NEW p \in Pendings, Due(p), ~ Locked(p)
    PROVE  \E q \in Pendings : IsNext(q)
<1> DEFINE D == {q \in Pendings : Due(q) /\ ~ Locked(q)}
           N == Allowance + heldFor
           W == {wait[q] + N : q \in D}
<1>1. N \in Nat /\ \A q \in D : wait[q] \in Int /\ wait[q] + N \in Nat
  <2>1. Allowance \in Nat /\ heldFor \in Nat
    BY LateTypes
  <2>2. ASSUME NEW q \in D PROVE wait[q] \in Int /\ wait[q] + N \in Nat
    <3>1. Behind(q) \in Int /\ wait[q] \in Int /\ Scaled(Behind(q)) < Allowance
          /\ Scaled(Behind(q)) \in Int
      BY LateTypes DEF LateInv, LateFor, TInv, RowsTypeOK
    <3>2. Behind(q) <= Allowance
      <4>1. Behind(q) \in Nat => Scaled(Behind(q)) >= Behind(q)
        BY ScaledIsMore
      <4> QED
        BY <2>1, <3>1, <4>1
    <3> QED
      BY <2>1, <3>1, <3>2 DEF Behind
  <2> QED
    BY <2>1, <2>2
<1>2. PICK w \in W : \A v \in W : w <= v
  <2>1. W \subseteq Nat /\ W # {}
    BY <1>1
  <2> HIDE DEF W
  <2> QED
    BY <2>1, Least
<1> DEFINE E == {q \in D : wait[q] + N = w}
<1>3. PICK q \in E : \A r \in E : q <= r
  <2>1. E \subseteq Nat /\ E # {}
    BY <1>2, Constants
  <2> HIDE DEF E
  <2> QED
    BY <2>1, Least
<1>4. ASSUME NEW r \in D PROVE Before(q, r)
  <2>1. wait[q] + N <= wait[r] + N /\ (wait[r] + N = wait[q] + N => q <= r)
    BY <1>2, <1>3
  <2>2. wait[q] <= wait[r] /\ (wait[r] = wait[q] => q <= r)
    BY <1>1, <1>3, <2>1
  <2> QED
    BY <1>1, <1>3, <2>2 DEF Before
<1>5. q \in Pendings
  BY <1>3
<1>6. IsNext(q)
  BY <1>3, <1>4 DEF IsNext
<1> HIDE DEF E, W, D, N
<1> QED
  BY <1>5, <1>6

LEMMA LateInit == Init => LateInv
BY DEF Init, LateInv, Due

(* What moves no row, and unlocks none: nobody falls asleep, and the        *)
(* allowance only grows.                                                   *)
LEMMA LateCalm ==
    ASSUME TInv, LateInv, UNCHANGED <<status, wait, heldFor, hand, lockLeft>>,
           exits' \in {exits, exits + 1},
           \A l \in Loops : Asleep(l)' => Asleep(l) /\ timer'[l] = timer[l],
           \A l \in Loops : InVain(l)' => InVain(l)
    PROVE  LateInv'
<1> SUFFICES ASSUME NEW p \in Pendings, Due(p)' PROVE LateFor(p)'
  BY DEF LateInv
<1>1. Due(p) /\ LateFor(p) /\ Behind(p)' = Behind(p) /\ (Locked(p)' <=> Locked(p))
  BY DEF LateInv, Due, Behind, Locked
<1>2. Scaled(Behind(p))' = Scaled(Behind(p))
  BY <1>1 DEF Scaled
<1>3. Allowance' >= Allowance
  <2>1. Scaled(LongestSleep) \in Nat /\ exits \in Nat /\ Sleeps(heldFor) \in Nat
    BY LateTypes, ScaledTypes
  <2>2. Scaled(LongestSleep) * (exits + 1) >= Scaled(LongestSleep) * exits
    BY <2>1
  <2> QED
    BY <2>1, <2>2 DEF Allowance, Sleeps, Scaled
<1>4. Allowance \in Nat /\ Allowance' \in Int
  <2>1. exits' \in Nat /\ heldFor' \in Nat
    BY LateTypes
  <2>2. Scaled(LongestSleep) * exits' \in Nat /\ Scaled(LongestSleep) \in Nat /\ Sleeps(heldFor') \in Nat
    BY <2>1, ScaledTypes
  <2>3. Allowance' = Scaled(LongestSleep) + Scaled(LongestSleep) * exits' + Sleeps(heldFor')
    BY DEF Allowance, Scaled, Sleeps
  <2> QED
    BY <2>2, <2>3, LateTypes
<1>5. /\ Scaled(Behind(p)) \in Int /\ Scaled(LongestSleep) \in Int
      /\ \A l \in Loops : Scaled(timer[l]) \in Int /\ Sleeps(lockLeft[l]) \in Int
  BY LateTypes, ScaledUnits
<1>6. Scaled(Behind(p)) < Allowance'
  BY <1>1, <1>3, <1>4, <1>5 DEF LateFor
<1>7. ASSUME ~ Locked(p), NEW l \in Loops, Asleep(l)'
      PROVE  Scaled(Behind(p)) + Scaled(timer'[l]) < Allowance'
  <2>1. Scaled(Behind(p)) + Scaled(timer[l]) < Allowance
    BY <1>1, <1>7 DEF LateFor
  <2> QED
    BY <1>3, <1>4, <1>5, <1>7, <2>1
<1>8. ASSUME NEW l \in Loops, hand[l] # None
      PROVE  Scaled(Behind(p)) + Scaled(LongestSleep) < Allowance' + Sleeps(lockLeft[l])
  <2>1. Scaled(Behind(p)) + Scaled(LongestSleep) < Allowance + Sleeps(lockLeft[l])
    BY <1>1, <1>8 DEF LateFor
  <2> QED
    BY <1>3, <1>4, <1>5, <2>1
<1>9. ASSUME ~ Locked(p), NEW l \in Loops, InVain(l)'
      PROVE  Scaled(Behind(p)) + Scaled(LongestSleep) < Allowance'
  <2>1. Scaled(Behind(p)) + Scaled(LongestSleep) < Allowance
    BY <1>1, <1>9 DEF LateFor
  <2> QED
    BY <1>3, <1>4, <1>5, <2>1
<1> QED
  BY <1>1, <1>2, <1>6, <1>7, <1>8, <1>9 DEF LateFor, Scaled, Sleeps

LEMMA LateTake ==
    ASSUME TInv, LateInv, NEW l \in Loops, NEW q \in Pendings, Take(l, q)
    PROVE  LateInv'
<1> SUFFICES ASSUME NEW p \in Pendings, Due(p)' PROVE LateFor(p)'
  BY DEF LateInv
<1>1. /\ BeginStep(l) /\ hand' = [hand EXCEPT ![l] = q] /\ ~ Locked(q)
      /\ lockLeft' = [lockLeft EXCEPT ![l] = LockTimeout]
      /\ UNCHANGED <<rows, others>>
  BY DEF Take, IsNext
<1>2. /\ Due(p) /\ LateFor(p)
      /\ Scaled(Behind(p))' = Scaled(Behind(p)) /\ Allowance' = Allowance
  BY <1>1 DEF LateInv, Due, Behind, Allowance, Scaled, Sleeps, rows, others
<1>3. /\ hand'[l] = q /\ lockLeft'[l] = LockTimeout
      /\ \A k \in Loops \ {l} : hand'[k] = hand[k] /\ lockLeft'[k] = lockLeft[k]
      /\ \A k \in Loops : Asleep(k)' => Asleep(k) /\ timer'[k] = timer[k]
      /\ \A k \in Loops : InVain(k)' => InVain(k)
  BY <1>1, Constants DEF BeginStep, Asleep, InVain, TInv, HandsOK, LoopInv, LoopTypeOK
<1>4. hand[l] = None
  BY <1>1 DEF BeginStep, TInv, HandsOK
<1>5. ~ Locked(p)' => ~ Locked(p)
  BY <1>3, <1>4, Constants DEF Locked
<1>6. Scaled(Behind(p)) + Scaled(LongestSleep) < Allowance + Sleeps(LockTimeout)
  <2>1. Scaled(Behind(p)) < Allowance
    BY <1>2 DEF LateFor
  <2>2. Scaled(Behind(p)) \in Int /\ Allowance \in Int
    BY LateTypes
  <2> QED
    BY <2>1, <2>2, ScaledUnits
<1>7. \A k \in Loops : hand'[k] # None =>
          Scaled(Behind(p)) + Scaled(LongestSleep) < Allowance + Sleeps(lockLeft'[k])
  BY <1>2, <1>3, <1>6 DEF LateFor
<1> QED
  BY <1>2, <1>3, <1>5, <1>7 DEF LateFor, Scaled, Sleeps

(* A worker that looks in vain looks while every due row is in a hand.     *)
LEMMA LateLookInVain ==
    ASSUME TInv, LateInv, NEW l \in Loops, LookInVain(l)
    PROVE  LateInv'
<1> SUFFICES ASSUME NEW p \in Pendings, Due(p)' PROVE LateFor(p)'
  BY DEF LateInv
<1>1. UNCHANGED <<rows, others, hands>>
  BY DEF LookInVain
<1>2. /\ Due(p) /\ LateFor(p)
      /\ Scaled(Behind(p))' = Scaled(Behind(p)) /\ Allowance' = Allowance
  BY <1>1 DEF LateInv, Due, Behind, Allowance, Scaled, Sleeps, rows, others
<1>3. Locked(p)
  BY <1>2, QueueHead DEF LookInVain
<1> QED
  BY <1>1, <1>2, <1>3 DEF LateFor, Locked, Scaled, Sleeps, hands

(* It then sleeps no longer than it was allowed to while it looked.         *)
LEMMA LateFindNothing ==
    ASSUME TInv, LateInv, TInv', NEW l \in Loops, FindNothing(l)
    PROVE  LateInv'
<1> SUFFICES ASSUME NEW p \in Pendings, Due(p)' PROVE LateFor(p)'
  BY DEF LateInv
<1>1. InVain(l) /\ Rest(l) /\ UNCHANGED <<rows, others, hands>>
  BY DEF FindNothing
<1>2. /\ Due(p) /\ LateFor(p) /\ (Locked(p)' <=> Locked(p))
      /\ Scaled(Behind(p))' = Scaled(Behind(p)) /\ Allowance' = Allowance
  BY <1>1 DEF LateInv, Due, Locked, Behind, Allowance, Scaled, Sleeps, rows, others, hands
<1>3. /\ \A k \in Loops \ {l} : Asleep(k)' => Asleep(k) /\ timer'[k] = timer[k]
      /\ \A k \in Loops \ {l} : InVain(k)' => InVain(k)
      /\ ~ InVain(l)'
  BY <1>1 DEF Rest, Sleep, Asleep, InVain, TInv, LoopInv, LoopTypeOK, hands
<1>4. ASSUME ~ Locked(p) PROVE Scaled(Behind(p)) + Scaled(timer'[l]) < Allowance
  <2>1. Scaled(Behind(p)) + Scaled(LongestSleep) < Allowance
    BY <1>1, <1>2, <1>4 DEF LateFor
  <2>2. timer'[l] \in 0 .. LongestSleep
    BY DEF TInv, LoopInv, LoopTypeOK, LongestSleep
  <2>3. timer'[l] \in Int /\ timer'[l] <= LongestSleep /\ LongestSleep \in Int
    BY <2>2, ScaledTypes
  <2>4. /\ Scaled(timer'[l]) \in Int /\ Scaled(LongestSleep) \in Int
        /\ Scaled(timer'[l]) <= Scaled(LongestSleep)
    BY <2>3, ScaledTypes, ScaledMono
  <2>5. Scaled(Behind(p)) \in Int /\ Allowance \in Int
    BY LateTypes
  <2> QED
    BY <2>1, <2>4, <2>5
<1>5. ASSUME ~ Locked(p), NEW k \in Loops, Asleep(k)'
      PROVE  Scaled(Behind(p)) + Scaled(timer'[k]) < Allowance
  BY <1>2, <1>3, <1>4, <1>5 DEF LateFor
<1>6. ASSUME ~ Locked(p), NEW k \in Loops, InVain(k)'
      PROVE  Scaled(Behind(p)) + Scaled(LongestSleep) < Allowance
  BY <1>2, <1>3, <1>6 DEF LateFor
<1> QED
  BY <1>1, <1>2, <1>5, <1>6 DEF LateFor, Scaled, Sleeps, hands

(* A row that is answered or rescheduled is due no more, and the others are *)
(* where they were.                                                        *)
LEMMA LateLeave ==
    ASSUME TInv, LateInv, NEW l \in Loops, NEW q \in Pendings, hand[l] = q, LetGo(l), GoOn(l),
           UNCHANGED others, ~ Due(q)',
           \A p \in Pendings \ {q} : status'[p] = status[p] /\ wait'[p] = wait[p]
    PROVE  LateInv'
<1> SUFFICES ASSUME NEW p \in Pendings, Due(p)' PROVE LateFor(p)'
  BY DEF LateInv
<1>1. p # q
  OBVIOUS
<1>2. /\ Due(p) /\ LateFor(p)
      /\ Scaled(Behind(p))' = Scaled(Behind(p)) /\ Allowance' = Allowance
  BY <1>1 DEF LateInv, Due, Behind, Allowance, Scaled, Sleeps, others
<1>3. /\ hand'[l] = None
      /\ \A k \in Loops \ {l} : hand'[k] = hand[k] /\ lockLeft'[k] = lockLeft[k]
      /\ \A k \in Loops : Asleep(k)' => Asleep(k) /\ timer'[k] = timer[k]
      /\ \A k \in Loops : InVain(k)' => InVain(k)
  BY DEF LetGo, GoOn, Asleep, InVain, TInv, HandsOK, LoopInv, LoopTypeOK
<1>4. ~ Locked(p)' => ~ Locked(p)
  BY <1>1, <1>3 DEF Locked
<1> QED
  BY <1>2, <1>3, <1>4 DEF LateFor, Scaled, Sleeps

LEMMA LateReschedule ==
    ASSUME TInv, LateInv, NEW l \in Loops, Reschedule(l)
    PROVE  LateInv'
<1>1. PICK q \in Pendings : q = hand[l]
  BY DEF TInv, HandsOK, Reschedule
<1>2. /\ ~ IsExhausted(q) /\ LetGo(l) /\ GoOn(l) /\ UNCHANGED <<status, others>>
  BY <1>1 DEF Reschedule
<1>3. PICK d \in Delays(attempts[q] + 1) : wait' = [wait EXCEPT ![q] = d]
  BY <1>1 DEF Reschedule
<1>4. attempts[q] \in 0 .. MaxAttempts /\ ~ (attempts[q] >= MaxAttempts)
  BY <1>2 DEF TInv, RowsTypeOK, IsExhausted
<1>5. d \in Int /\ d > 0
  <2>1. attempts[q] + 1 \in 1 .. MaxAttempts
    BY <1>4, Constants
  <2> QED
    BY <1>3, <2>1, DelayBounds
<1>6. wait'[q] = d /\ \A p \in Pendings \ {q} : wait'[p] = wait[p]
  BY <1>3 DEF TInv, RowsTypeOK
<1>7. ~ Due(q)'
  BY <1>5, <1>6 DEF Due
<1> QED
  BY <1>1, <1>2, <1>6, <1>7, LateLeave

LEMMA LateSettle ==
    ASSUME TInv, LateInv, NEW l \in Loops, Settle(l)
    PROVE  LateInv'
<1>1. PICK q \in Pendings : q = hand[l]
  BY DEF TInv, HandsOK, Settle, NeedsWallet
<1>2. /\ LetGo(l) /\ GoOn(l) /\ UNCHANGED others
      /\ status' = [status EXCEPT ![q] = IF q \in landed THEN "settled" ELSE "givenUp"]
      /\ wait' = [wait EXCEPT ![q] = 0]
  BY <1>1 DEF Settle
<1>3. status'[q] # "pending"
      /\ \A p \in Pendings \ {q} : status'[p] = status[p] /\ wait'[p] = wait[p]
  BY <1>2 DEF TInv, RowsTypeOK
<1>4. ~ Due(q)'
  BY <1>3 DEF Due
<1> QED
  BY <1>1, <1>2, <1>3, <1>4, LateLeave

LEMMA LateLockTimesOut ==
    ASSUME TInv, LateInv, TInv', NEW l \in Loops, LockTimesOut(l)
    PROVE  LateInv'
<1> SUFFICES ASSUME NEW p \in Pendings, Due(p)' PROVE LateFor(p)'
  BY DEF LateInv
<1>1. hand[l] # None /\ lockLeft[l] = 0 /\ LetGo(l) /\ Recover(l) /\ UNCHANGED <<rows, others>>
  BY DEF LockTimesOut, NeedsWallet
<1>2. /\ Due(p) /\ LateFor(p)
      /\ Scaled(Behind(p))' = Scaled(Behind(p)) /\ Allowance' = Allowance
  BY <1>1 DEF LateInv, Due, Behind, Allowance, Scaled, Sleeps, rows, others
<1>3. /\ hand'[l] = None
      /\ \A k \in Loops \ {l} : hand'[k] = hand[k] /\ lockLeft'[k] = lockLeft[k]
  BY <1>1 DEF LetGo, TInv, HandsOK
<1>4. /\ Scaled(Behind(p)) \in Int /\ Allowance \in Int /\ Scaled(LongestSleep) \in Int
  BY LateTypes, ScaledUnits
<1>5. Scaled(Behind(p)) + Scaled(LongestSleep) < Allowance
  <2>1. Scaled(Behind(p)) + Scaled(LongestSleep) < Allowance + Sleeps(lockLeft[l])
    BY <1>1, <1>2 DEF LateFor
  <2>2. Sleeps(lockLeft[l]) = 0
    BY <1>1, ScaledUnits
  <2> QED
    BY <1>4, <2>1, <2>2
<1>6. \A k \in Loops : Scaled(Behind(p)) + Scaled(timer'[k]) < Allowance
  <2>1. \A k \in Loops : Scaled(timer'[k]) \in Int /\ Scaled(timer'[k]) <= Scaled(LongestSleep)
    <3>1. \A k \in Loops : timer'[k] \in 0 .. LongestSleep
      BY DEF TInv, LoopInv, LoopTypeOK, LongestSleep
    <3>2. \A k \in Loops : timer'[k] \in Int /\ timer'[k] <= LongestSleep /\ LongestSleep \in Int
      BY <3>1, ScaledTypes
    <3> QED
      BY <3>2, ScaledTypes, ScaledMono
  <2> QED
    BY <1>4, <1>5, <2>1
<1> QED
  BY <1>2, <1>3, <1>5, <1>6 DEF LateFor, Scaled, Sleeps

LEMMA LateDie ==
    ASSUME TInv, LateInv, TInv', NEW l \in Loops, Die(l)
    PROVE  LateInv'
<1> SUFFICES ASSUME NEW p \in Pendings, Due(p)' PROVE LateFor(p)'
  BY DEF LateInv
<1>1. /\ exits' = exits + 1 /\ LetGo(l) /\ Kill(l) /\ UNCHANGED <<rows, heldFor>>
  BY DEF Die
<1>2. Due(p) /\ LateFor(p) /\ Scaled(Behind(p))' = Scaled(Behind(p))
  BY <1>1 DEF LateInv, Due, Behind, Scaled, rows
<1>3. /\ hand'[l] = None
      /\ \A k \in Loops \ {l} : hand'[k] = hand[k] /\ lockLeft'[k] = lockLeft[k]
  BY <1>1 DEF LetGo, TInv, HandsOK
<1>4. /\ Scaled(Behind(p)) \in Int /\ Allowance \in Int /\ Scaled(LongestSleep) \in Nat
      /\ \A k \in Loops : Sleeps(lockLeft[k]) \in Int
  BY LateTypes, ScaledUnits
<1>5. Allowance' = Allowance + Scaled(LongestSleep)
  <2>1. Scaled(LongestSleep) \in Int /\ exits \in Int /\ Sleeps(heldFor) \in Int
    BY LateTypes, ScaledTypes
  <2>2. Scaled(LongestSleep) * (exits + 1) = Scaled(LongestSleep) * exits + Scaled(LongestSleep)
        /\ Scaled(LongestSleep) * exits \in Int
    BY <2>1
  <2>3. Allowance' = Scaled(LongestSleep) + Scaled(LongestSleep) * (exits + 1) + Sleeps(heldFor)
    BY <1>1 DEF Allowance, Scaled, Sleeps
  <2> QED
    BY <2>1, <2>2, <2>3 DEF Allowance
<1>6. Scaled(Behind(p)) < Allowance
  BY <1>2 DEF LateFor
<1>7. \A k \in Loops : Scaled(Behind(p)) + Scaled(timer'[k]) < Allowance'
  <2>1. \A k \in Loops : Scaled(timer'[k]) \in Int /\ Scaled(timer'[k]) <= Scaled(LongestSleep)
    <3>1. \A k \in Loops : timer'[k] \in 0 .. LongestSleep
      BY DEF TInv, LoopInv, LoopTypeOK, LongestSleep
    <3>2. \A k \in Loops : timer'[k] \in Int /\ timer'[k] <= LongestSleep /\ LongestSleep \in Int
      BY <3>1, ScaledTypes
    <3> QED
      BY <3>2, ScaledTypes, ScaledMono
  <2> QED
    BY <1>4, <1>5, <1>6, <2>1
<1>8. ASSUME NEW k \in Loops, hand'[k] # None
      PROVE  Scaled(Behind(p)) + Scaled(LongestSleep) < Allowance' + Sleeps(lockLeft'[k])
  <2>1. k # l /\ hand[k] # None /\ lockLeft'[k] = lockLeft[k]
    BY <1>3, <1>8
  <2>2. Scaled(Behind(p)) + Scaled(LongestSleep) < Allowance + Sleeps(lockLeft[k])
    BY <1>2, <2>1 DEF LateFor
  <2> QED
    BY <1>4, <1>5, <2>1, <2>2
<1>9. Scaled(Behind(p)) < Allowance' /\ Scaled(Behind(p)) + Scaled(LongestSleep) < Allowance'
  BY <1>4, <1>5, <1>6
<1> QED
  BY <1>2, <1>7, <1>8, <1>9 DEF LateFor, Scaled, Sleeps

LEMMA LateSubmit ==
    ASSUME TInv, LateInv, NEW q \in Pendings, Submit(q)
    PROVE  LateInv'
<1> SUFFICES ASSUME NEW p \in Pendings, Due(p)' PROVE LateFor(p)'
  BY DEF LateInv
<1>1. /\ status' = [status EXCEPT ![q] = "pending"] /\ wait' = [wait EXCEPT ![q] = FirstDelay]
      /\ UNCHANGED <<loopVars, others, hands>>
  BY DEF Submit
<1>2. p # q /\ status'[p] = status[p] /\ wait'[p] = wait[p]
  BY <1>1, FirstDelayFits DEF Due, TInv, RowsTypeOK
<1>3. /\ Due(p) /\ LateFor(p)
      /\ Scaled(Behind(p))' = Scaled(Behind(p)) /\ Allowance' = Allowance
  BY <1>1, <1>2 DEF LateInv, Due, Behind, Allowance, Scaled, Sleeps, others
<1> QED
  BY <1>1, <1>3 DEF LateFor, Locked, Asleep, InVain, Scaled, Sleeps, hands, loopVars

(* While a wallet is held, what passes is heldFor.                          *)
LEMMA LatePassHeld ==
    ASSUME TInv, LateInv, Pass, holders # {}, NEW p \in Pendings, Due(p)
    PROVE  LateFor(p)'
<1>1. /\ heldFor' = heldFor + 1 /\ wait'[p] = wait[p] - 1
      /\ UNCHANGED <<hand, exits>>
      /\ \A l \in Loops : /\ Quiet(l) /\ at'[l] = at[l]
                          /\ timer'[l] = IF timer[l] > 0 THEN timer[l] - 1 ELSE 0
                          /\ lockLeft'[l] = IF lockLeft[l] > 0 THEN lockLeft[l] - 1 ELSE 0
  BY DEF Pass, Due, TimersRunDown
<1>2. LateFor(p) /\ wait[p] \in Int /\ heldFor \in Nat /\ exits \in Nat
  BY LateTypes DEF LateInv, TInv, RowsTypeOK
<1>3. Scaled(Behind(p))' = Scaled(Behind(p))
  <2>1. 0 - (wait[p] - 1) - (heldFor + 1) = 0 - wait[p] - heldFor
    BY <1>2
  <2> QED
    BY <1>1, <2>1 DEF Scaled, Behind
<1>4. Allowance' = Allowance + LongestSleep
  <2>1. Sleeps(heldFor + 1) = Sleeps(heldFor) + LongestSleep
    BY <1>2, ScaledMore
  <2>2. Allowance' = Scaled(LongestSleep) + Scaled(LongestSleep) * exits + Sleeps(heldFor + 1)
    BY <1>1 DEF Allowance, Scaled, Sleeps
  <2>3. Scaled(LongestSleep) \in Int /\ Scaled(LongestSleep) * exits \in Int
        /\ Sleeps(heldFor) \in Int /\ LongestSleep \in Int
    BY <1>2, LateTypes, ScaledTypes
  <2> QED
    BY <2>1, <2>2, <2>3 DEF Allowance
<1>5. /\ Scaled(Behind(p)) \in Int /\ Allowance \in Int /\ Scaled(LongestSleep) \in Nat
      /\ LongestSleep \in Nat
      /\ \A l \in Loops : Sleeps(lockLeft[l]) \in Int /\ Scaled(timer[l]) \in Int
  BY LateTypes, ScaledTypes
<1>6. \A l \in Loops : Scaled(timer'[l]) \in Int /\ Scaled(timer'[l]) <= Scaled(timer[l])
  <2>1. \A l \in Loops : timer[l] \in Int /\ timer'[l] \in Int /\ timer'[l] <= timer[l]
    BY <1>1, LateTypes, ScaledTypes
  <2> QED
    BY <2>1, ScaledTypes, ScaledMono
<1>7. Scaled(Behind(p)) < Allowance'
  BY <1>2, <1>4, <1>5 DEF LateFor
<1>8. ASSUME ~ Locked(p), NEW l \in Loops, Asleep(l)
      PROVE  Scaled(Behind(p)) + Scaled(timer'[l]) < Allowance'
  <2>1. Scaled(Behind(p)) + Scaled(timer[l]) < Allowance
    BY <1>2, <1>8 DEF LateFor
  <2> QED
    BY <1>4, <1>5, <1>6, <2>1
<1>9. ASSUME NEW l \in Loops, hand[l] # None
      PROVE  Scaled(Behind(p)) + Scaled(LongestSleep) < Allowance' + Sleeps(lockLeft'[l])
  <2>1. Scaled(Behind(p)) + Scaled(LongestSleep) < Allowance + Sleeps(lockLeft[l])
    BY <1>2, <1>9 DEF LateFor
  <2>2. lockLeft[l] > 0
    BY <1>1, <1>9 DEF Quiet, TInv, HandsOK
  <2>3. Sleeps(lockLeft'[l]) = Sleeps(lockLeft[l]) - LongestSleep
    <3>1. lockLeft'[l] = lockLeft[l] - 1 /\ lockLeft[l] \in Int
      BY <1>1, <2>2, LateTypes
    <3> QED
      BY <3>1, ScaledMore
  <2> QED
    BY <1>4, <1>5, <2>1, <2>3
<1>10. /\ Locked(p)' <=> Locked(p)
       /\ \A l \in Loops : (Asleep(l)' <=> Asleep(l)) /\ ~ InVain(l)'
  BY <1>1 DEF Locked, Asleep, InVain, Quiet, Stuck, NeedsWallet
<1> QED
  BY <1>1, <1>3, <1>7, <1>8, <1>9, <1>10 DEF LateFor, Scaled, Sleeps

(* While none is held nobody has a row in hand, and every worker that runs  *)
(* sleeps out what is left of its delay.                                   *)
LEMMA LatePassFree ==
    ASSUME TInv, LateInv, Pass, holders = {}, NEW p \in Pendings, Due(p)
    PROVE  LateFor(p)'
<1>1. /\ heldFor' = heldFor /\ wait'[p] = wait[p] - 1
      /\ UNCHANGED <<hand, exits>>
      /\ \A l \in Loops : /\ Quiet(l) /\ at'[l] = at[l]
                          /\ timer'[l] = IF timer[l] > 0 THEN timer[l] - 1 ELSE 0
  BY DEF Pass, Due, TimersRunDown
<1>2. LateFor(p) /\ wait[p] \in Int /\ heldFor \in Nat /\ exits \in Nat
      /\ \A l \in Loops : timer[l] \in Nat
  BY LateTypes, ScaledTypes DEF LateInv, TInv, RowsTypeOK
<1>3. \A l \in Loops : hand[l] = None /\ at[l] # "step"
  BY <1>1 DEF Quiet, Stuck, NeedsWallet, TInv, HandsOK
<1>4. ~ Locked(p)
  BY <1>3, Constants DEF Locked
<1>5. Scaled(Behind(p))' = Scaled(Behind(p)) + LockTimeout
  <2>1. 0 - (wait[p] - 1) - heldFor = (0 - wait[p] - heldFor) + 1 /\ 0 - wait[p] - heldFor \in Int
    BY <1>2
  <2>2. Scaled((0 - wait[p] - heldFor) + 1) = Scaled(0 - wait[p] - heldFor) + LockTimeout
    BY <2>1, ScaledMore
  <2>3. Scaled(Behind(p))' = Scaled(0 - (wait[p] - 1) - heldFor)
    BY <1>1 DEF Scaled, Behind
  <2> QED
    BY <2>1, <2>2, <2>3 DEF Behind
<1>6. Allowance' = Allowance
  BY <1>1 DEF Allowance, Scaled, Sleeps
<1>7. Scaled(Behind(p)) \in Int /\ Allowance \in Int /\ LockTimeout \in Nat \ {0}
  BY LateTypes, ScaledTypes
<1>8. ASSUME NEW l \in Loops, Asleep(l)
      PROVE  /\ Scaled(timer'[l]) \in Nat
             /\ Scaled(Behind(p)) + LockTimeout + Scaled(timer'[l]) < Allowance
  <2>1. timer[l] > 0
    BY <1>1, <1>8 DEF Quiet, LoopIsQuiet
  <2>2. timer'[l] = timer[l] - 1 /\ timer[l] - 1 \in Nat /\ timer[l] \in Int
    BY <1>1, <1>2, <2>1
  <2>3. Scaled(timer'[l]) = Scaled(timer[l]) - LockTimeout /\ Scaled(timer[l]) \in Int
        /\ Scaled(timer'[l]) \in Nat
    BY <2>2, ScaledMore, ScaledTypes
  <2>4. Scaled(Behind(p)) + Scaled(timer[l]) < Allowance
    BY <1>2, <1>4, <1>8 DEF LateFor
  <2> QED
    BY <1>7, <2>3, <2>4
<1>9. Scaled(Behind(p)) + LockTimeout < Allowance
  <2>1. PICK l \in Loops : running[l]
    BY DEF Pass
  <2>2. Asleep(l)
    BY <1>1, <1>3, <2>1 DEF Quiet, LoopIsQuiet, Asleep, TInv, LoopInv, LoopTypeOK
  <2> QED
    BY <1>7, <1>8, <2>2
<1>10. \A l \in Loops : (Asleep(l)' <=> Asleep(l)) /\ ~ InVain(l)'
  BY <1>1, <1>3 DEF Asleep, InVain
<1> QED
  BY <1>1, <1>3, <1>5, <1>6, <1>8, <1>9, <1>10 DEF LateFor, Scaled, Sleeps

(* A row that falls due now has nothing behind it.                          *)
LEMMA LatePassNew ==
    ASSUME TInv, TInv', LateInv, Pass, NEW p \in Pendings, ~ Due(p), Due(p)'
    PROVE  LateFor(p)'
<1>1. /\ heldFor' = IF holders # {} THEN heldFor + 1 ELSE heldFor
      /\ status' = status /\ status[p] = "pending" /\ wait'[p] = wait[p] - 1
      /\ UNCHANGED <<hand, exits>>
      /\ \A l \in Loops : /\ Quiet(l) /\ at'[l] = at[l]
                          /\ timer'[l] = IF timer[l] > 0 THEN timer[l] - 1 ELSE 0
  BY DEF Pass, Due, TimersRunDown
<1>2. wait[p] \in Int /\ heldFor \in Nat /\ exits \in Nat
  BY LateTypes DEF TInv, RowsTypeOK
<1>3. wait'[p] = 0
  BY <1>1, <1>2 DEF Due
<1>4. heldFor' \in Nat /\ Behind(p)' = 0 - heldFor' /\ Behind(p)' \in Int
  BY <1>1, <1>2, <1>3 DEF Behind
<1>5. Scaled(Behind(p)') \in Int /\ Scaled(Behind(p)') <= 0
  BY <1>4, ScaledTypes, ScaledMono, ScaledUnits
<1>6. Allowance' \in Nat /\ Allowance' >= Scaled(LongestSleep)
  <2>1. Scaled(LongestSleep) \in Nat /\ Scaled(LongestSleep) * exits \in Nat
        /\ Sleeps(heldFor') \in Nat
    BY <1>4, LateTypes, ScaledTypes
  <2>2. Allowance' = Scaled(LongestSleep) + Scaled(LongestSleep) * exits + Sleeps(heldFor')
    BY <1>1 DEF Allowance, Scaled, Sleeps
  <2> QED
    BY <2>1, <2>2
<1>7. Scaled(LongestSleep) \in Nat \ {0} /\ Scaled(LongestSleep - 1) < Scaled(LongestSleep)
      /\ Scaled(LongestSleep - 1) \in Int /\ LongestSleep \in Nat \ {0}
  BY ScaledUnits, ScaledTypes
<1>8. \A l \in Loops : Scaled(timer'[l]) \in Int /\ Scaled(timer'[l]) < Scaled(LongestSleep)
  <2>1. \A l \in Loops : timer'[l] \in Int /\ timer'[l] <= LongestSleep - 1
    BY <1>1, <1>7, LateTypes
  <2>2. LongestSleep - 1 \in Int
    BY <1>7
  <2> QED
    BY <1>7, <2>1, <2>2, ScaledTypes, ScaledMono
<1>9. \A l \in Loops : Scaled(Behind(p)') + Scaled(timer'[l]) < Allowance'
  BY <1>5, <1>6, <1>7, <1>8
<1>10. ASSUME NEW l \in Loops, hand[l] # None
       PROVE  Scaled(Behind(p)') + Scaled(LongestSleep) < Allowance' + Sleeps(lockLeft'[l])
  <2>1. Sleeps(lockLeft'[l]) \in Nat
    <3>1. lockLeft'[l] \in 0 .. LockTimeout
      BY DEF TInv, HandsOK
    <3>2. lockLeft'[l] \in Nat
      BY <3>1, ScaledTypes
    <3> QED
      BY <3>2, ScaledTypes
  <2>2. holders # {}
    BY <1>1, <1>10 DEF Quiet, Stuck, TInv, HandsOK
  <2>3. Behind(p)' <= 0 - 1
    BY <1>1, <1>2, <1>4, <2>2
  <2>4. Scaled(Behind(p)') <= 0 - LockTimeout
    <3>1. PICK n \in Int : n = 0 - 1
      OBVIOUS
    <3>2. Scaled(Behind(p)') <= Scaled(n)
      BY <1>4, <2>3, <3>1, ScaledMono
    <3>3. Scaled(n) = 0 - LockTimeout
      BY <3>1, ScaledTypes DEF Scaled
    <3> QED
      BY <3>2, <3>3
  <2>5. Scaled(Behind(p)') < 0
    BY <1>5, <2>4, ScaledUnits, ScaledTypes
  <2> QED
    BY <1>5, <1>6, <1>7, <2>1, <2>5
<1>11. Scaled(Behind(p)') < Allowance'
  BY <1>5, <1>6, <1>7
<1>12. Scaled(Behind(p))' = Scaled(Behind(p)')
  BY DEF Scaled
<1>13. \A l \in Loops : ~ InVain(l)'
  BY <1>1 DEF InVain, Quiet, Stuck, NeedsWallet
<1> QED
  BY <1>1, <1>9, <1>10, <1>11, <1>12, <1>13 DEF LateFor, Scaled, Sleeps

LEMMA LateStep == TInv /\ LateInv /\ [Next]_vars => LateInv'
<1> SUFFICES ASSUME TInv, LateInv, [Next]_vars PROVE LateInv'
  OBVIOUS
<1>0. TInv' /\ exits \in Nat
  BY TInductive, LateTypes
<1>1. CASE UNCHANGED vars
  <2>1. UNCHANGED <<status, wait, heldFor, exits, hand, lockLeft, at, timer>>
    BY <1>1 DEF vars, rows, others, hands, loopVars
  <2> QED
    BY <2>1, LateCalm DEF Asleep, InVain
<1>2. ASSUME NEW p \in Pendings, Submit(p) \/ Land(p) \/ Hold(p) \/ Release(p) PROVE LateInv'
  <2>1. CASE Submit(p)
    BY <2>1, LateSubmit
  <2>2. CASE Land(p) \/ Hold(p) \/ Release(p)
    <3>1. UNCHANGED <<status, wait, heldFor, exits, hand, lockLeft, at, timer>>
      BY <2>2 DEF Land, Hold, Release, rows, hands, loopVars
    <3> QED
      BY <3>1, LateCalm DEF Asleep, InVain
  <2> QED
    BY <1>2, <2>1, <2>2
<1>3. ASSUME NEW l \in Loops, Work(l) PROVE LateInv'
  BY <1>0, <1>3, LateTake, LateLookInVain, LateFindNothing, LateReschedule, LateSettle,
     LateLockTimesOut DEF Work
<1>4. ASSUME NEW l \in Loops, LoopStep(l) \/ Start(l) \/ Stop(l),
             UNCHANGED <<rows, heldFor, hands>>, exits' \in {exits, exits + 1}
      PROVE  LateInv'
  <2>1. \A k \in Loops : Asleep(k)' => Asleep(k) /\ timer'[k] = timer[k]
    BY <1>4 DEF LoopStep, TimerFires, GoOn, EndLoop, StopReturns, Start, Stop, Asleep, TInv, LoopInv,
                LoopTypeOK
  <2>2. \A k \in Loops : at'[k] = "step" => at[k] = "step"
    BY <1>4 DEF LoopStep, TimerFires, GoOn, EndLoop, StopReturns, Start, Stop, Asleep, TInv, LoopInv,
                LoopTypeOK
  <2> QED
    BY <1>4, <2>1, <2>2, LateCalm DEF InVain, rows, hands
<1>5. ASSUME NEW l \in Loops, ToldToStop(l) \/ Die(l) PROVE LateInv'
  BY <1>0, <1>4, <1>5, LateDie DEF ToldToStop
<1>6. CASE Pass
  <2> SUFFICES ASSUME NEW p \in Pendings, Due(p)' PROVE LateFor(p)'
    BY DEF LateInv
  <2> QED
    BY <1>0, <1>6, LatePassHeld, LatePassFree, LatePassNew
<1> QED
  BY <1>1, <1>2, <1>3, <1>4, <1>5, <1>6 DEF Next, others

(* What that comes to for the term of a row.                                *)
LEMMA LateTerms == TInv /\ TermInv /\ LateInv => AnsweredAfterItsTerm
<1> SUFFICES ASSUME TInv, TermInv, LateInv, NEW p \in Pendings, status[p] = "pending"
             PROVE  term[p] > 0 - (MaxWait + Lateness)
  BY DEF AnsweredAfterItsTerm
<1>1. wait[p] \in Int /\ term[p] \in Int /\ wait[p] - MaxWait < term[p] /\ MaxWait \in Nat
  BY FirstDelayFits DEF TInv, RowsTypeOK, TermInv
<1>2. heldFor \in Nat /\ exits \in Nat /\ LongestSleep \in Nat /\ LockTimeout \in Nat \ {0}
  BY LateTypes, ScaledTypes
<1>3. /\ LongestSleep * (1 + exits) \in Nat /\ LongestSleep * heldFor \in Nat
      /\ LongestSleep * (1 + exits) = LongestSleep + LongestSleep * exits
  BY <1>2
<1> DEFINE s == LongestSleep * (1 + exits)
           h == LongestSleep * heldFor
<1>4. h \div LockTimeout \in Nat
  BY <1>2, <1>3
<1>5. 0 - wait[p] <= Lateness /\ Lateness \in Int
  <2>1. CASE wait[p] > 0
    BY <1>1, <1>2, <1>3, <1>4, <2>1 DEF Lateness
  <2>2. CASE ~ (wait[p] > 0)
    <3>1. Scaled(Behind(p)) < Allowance
      BY <1>1, <2>2 DEF LateInv, LateFor, Due
    <3>2. PICK b \in Int : b = Behind(p)
      BY LateTypes
    <3>3. LockTimeout * b < LockTimeout * s + h
      <4>1. LockTimeout * LongestSleep * exits = LockTimeout * (LongestSleep * exits)
        BY <1>2
      <4>2. LongestSleep * exits \in Int
        BY <1>2
      <4>3. PICK x \in Int : x = LongestSleep * exits
        BY <4>2
      <4>4. LockTimeout * (LongestSleep + x) = LockTimeout * LongestSleep + LockTimeout * x
        BY <1>2
      <4>5. Allowance = LockTimeout * LongestSleep + LockTimeout * x + h
        BY <4>1, <4>3 DEF Allowance, Scaled, Sleeps
      <4> QED
        BY <1>3, <3>1, <3>2, <4>3, <4>4, <4>5 DEF Scaled
    <3>4. PICK x \in Int : x = b - s
      BY <1>3
    <3>5. LockTimeout * x < h
      <4>1. PICK t \in Int : t = s
        BY <1>3
      <4>2. LockTimeout * (b - t) = LockTimeout * b - LockTimeout * t
        BY <1>2
      <4>3. LockTimeout * b \in Int /\ LockTimeout * t \in Int /\ h \in Int
        BY <1>2, <1>3
      <4> QED
        BY <3>3, <3>4, <4>1, <4>2, <4>3
    <3>6. x <= h \div LockTimeout
      <4>1. PICK k \in Int : k = h
        BY <1>3
      <4>2. LockTimeout * x < k => x <= k \div LockTimeout
        BY <1>2
      <4> QED
        BY <3>5, <4>1, <4>2
    <3>7. Lateness = heldFor + s + h \div LockTimeout
      BY DEF Lateness
    <3> HIDE DEF s, h
    <3>8. b = 0 - wait[p] - heldFor
      BY <3>2 DEF Behind
    <3>9. s \in Int
      BY <1>3 DEF s
    <3> QED
      BY <1>1, <1>2, <1>4, <3>4, <3>6, <3>7, <3>8, <3>9
  <2> QED
    BY <2>1, <2>2
<1> QED
  BY <1>1, <1>5

-----------------------------------------------------------------------------
(* Whom contention keeps waiting.                                          *)
(*                                                                         *)
(* A pending whose own wallet nobody holds is passed over only while the    *)
(* workers that are free sleep after a step without work, and they fell    *)
(* asleep before it was there to be taken: it was not due, or in a hand.    *)
(* One that looked while it was in a hand may also fall asleep when it is   *)
(* free again, which only the death of a worker makes it.                  *)

Patience == (exits + 1) * IdleDelay
HeedFor(p) ==
    /\ ~ Due(p) => ignored[p] = 0
    /\ ignored[p] < Patience
    /\ Due(p) /\ ~ Locked(p) =>
           \A l \in Loops : at[l] = "idle" => ignored[p] + timer[l] < Patience
    /\ Due(p) /\ ~ Locked(p) =>
           \A l \in Loops : InVain(l) => ignored[p] + IdleDelay < Patience
HeedInv ==
    /\ \A l \in Loops : at[l] = "idle" => timer[l] <= IdleDelay
    /\ \A p \in Pendings \ Contended : HeedFor(p)

LEMMA HeedTypes ==
    ASSUME TInv
    PROVE  /\ IdleDelay \in Nat \ {0} /\ exits \in Nat /\ Patience \in Nat /\ Patience >= IdleDelay
           /\ \A p \in Pendings : ignored[p] \in Nat
           /\ \A l \in Loops : timer[l] \in Nat
<1>1. IdleDelay \in Nat \ {0} /\ exits \in Nat
  BY Constants DEF TInv, OthersTypeOK
<1>2. exits * IdleDelay \in Nat /\ (exits + 1) * IdleDelay = exits * IdleDelay + IdleDelay
  BY <1>1
<1>3. Patience \in Nat /\ Patience >= IdleDelay
  BY <1>1, <1>2 DEF Patience
<1>4. \A p \in Pendings : ignored[p] \in Nat
  BY DEF TInv, RowsTypeOK
<1>5. ASSUME NEW l \in Loops PROVE timer[l] \in Nat
  <2>1. timer[l] \in 0 .. LongestSleep
    BY LateTypes
  <2> QED
    BY <2>1, ScaledTypes
<1> QED
  BY <1>1, <1>3, <1>4, <1>5

LEMMA HeedInit == Init => HeedInv
<1> SUFFICES ASSUME Init PROVE HeedInv
  OBVIOUS
<1>1. IdleDelay \in Nat \ {0}
  BY Constants
<1>2. (0 + 1) * IdleDelay > 0
  BY <1>1
<1> QED
  BY <1>1, <1>2, Constants DEF Init, LoopInit, HeedInv, HeedFor, Patience, Due

LEMMA PatienceGrows ==
    ASSUME TInv, exits' \in {exits, exits + 1}
    PROVE  Patience' \in Nat /\ Patience' >= Patience /\ (exits' = exits + 1 => Patience' = Patience + IdleDelay)
<1>1. IdleDelay \in Nat /\ exits \in Nat /\ Patience \in Nat
  BY HeedTypes
<1>2. ((exits + 1) + 1) * IdleDelay = (exits + 1) * IdleDelay + IdleDelay
  BY <1>1
<1>3. Patience' = (exits' + 1) * IdleDelay
  BY DEF Patience
<1>4. CASE exits' = exits
  BY <1>1, <1>3, <1>4 DEF Patience
<1>5. CASE exits' = exits + 1
  BY <1>1, <1>2, <1>3, <1>5 DEF Patience
<1> QED
  BY <1>4, <1>5

(* What neither moves nor unlocks p, and puts nobody to sleep.              *)
LEMMA HeedCalm ==
    ASSUME TInv, HeedInv, NEW p \in Pendings \ Contended,
           Due(p)' <=> Due(p), Due(p) => (~ Locked(p)' => ~ Locked(p)), ignored'[p] = ignored[p],
           exits' \in {exits, exits + 1},
           \A l \in Loops : at'[l] = "idle" => at[l] = "idle" /\ timer'[l] = timer[l],
           \A l \in Loops : InVain(l)' => InVain(l)
    PROVE  HeedFor(p)'
<1>1. HeedFor(p)
  BY DEF HeedInv
<1>2. Patience' \in Nat /\ Patience' >= Patience /\ Patience \in Nat /\ ignored[p] \in Nat
      /\ \A l \in Loops : timer[l] \in Nat
  BY PatienceGrows, HeedTypes
<1>3. ignored'[p] < Patience'
  BY <1>1, <1>2 DEF HeedFor
<1>4. ASSUME Due(p), ~ Locked(p)', NEW l \in Loops, at'[l] = "idle"
      PROVE  ignored'[p] + timer'[l] < Patience'
  <2>1. ignored[p] + timer[l] < Patience
    BY <1>1, <1>4 DEF HeedFor
  <2> QED
    BY <1>2, <1>4, <2>1
<1>5. ASSUME Due(p), ~ Locked(p)', NEW l \in Loops, InVain(l)'
      PROVE  ignored'[p] + IdleDelay < Patience'
  <2>1. ignored[p] + IdleDelay < Patience /\ IdleDelay \in Nat
    BY <1>1, <1>5, HeedTypes DEF HeedFor
  <2> QED
    BY <1>2, <2>1
<1> QED
  BY <1>1, <1>3, <1>4, <1>5 DEF HeedFor

(* The row that leaves: it is no longer due, and its count starts anew.     *)
LEMMA HeedLeave ==
    ASSUME TInv, HeedInv, NEW l \in Loops, NEW q \in Pendings, hand[l] = q, LetGo(l), GoOn(l),
           UNCHANGED others, ~ Due(q)', ignored' = [ignored EXCEPT ![q] = 0],
           \A p \in Pendings \ {q} : status'[p] = status[p] /\ wait'[p] = wait[p]
    PROVE  HeedInv'
<1>1. /\ exits' = exits /\ timer' = timer
      /\ \A k \in Loops : (at'[k] = "idle" => at[k] = "idle") /\ (InVain(k)' => InVain(k))
  BY DEF others, LetGo, GoOn, InVain, TInv, LoopInv, LoopTypeOK, HandsOK
<1>2. ASSUME NEW p \in Pendings \ Contended PROVE HeedFor(p)'
  <2>1. CASE p = q
    <3>1. ignored'[q] = 0
      BY DEF TInv, RowsTypeOK
    <3>2. Patience' = Patience /\ Patience \in Nat /\ Patience > 0
      BY <1>1, HeedTypes DEF Patience
    <3> QED
      BY <2>1, <3>1, <3>2 DEF HeedFor
  <2>2. CASE p # q
    <3>1. ignored'[p] = ignored[p] /\ (Due(p)' <=> Due(p))
      BY <2>2 DEF TInv, RowsTypeOK, Due
    <3>2. ~ Locked(p)' => ~ Locked(p)
      BY <2>2 DEF Locked, LetGo, TInv, HandsOK
    <3> QED
      BY <1>1, <3>1, <3>2, HeedCalm
  <2> QED
    BY <2>1, <2>2
<1>3. \A k \in Loops : at'[k] = "idle" => timer'[k] <= IdleDelay
  BY <1>1 DEF HeedInv
<1> QED
  BY <1>2, <1>3 DEF HeedInv

LEMMA HeedReschedule ==
    ASSUME TInv, HeedInv, NEW l \in Loops, Reschedule(l)
    PROVE  HeedInv'
<1>1. PICK q \in Pendings : q = hand[l]
  BY DEF TInv, HandsOK, Reschedule
<1>2. /\ ~ IsExhausted(q) /\ LetGo(l) /\ GoOn(l) /\ UNCHANGED <<status, others>>
      /\ ignored' = [ignored EXCEPT ![q] = 0]
  BY <1>1 DEF Reschedule
<1>3. PICK d \in Delays(attempts[q] + 1) : wait' = [wait EXCEPT ![q] = d]
  BY <1>1 DEF Reschedule
<1>4. attempts[q] \in 0 .. MaxAttempts /\ ~ (attempts[q] >= MaxAttempts)
  BY <1>2 DEF TInv, RowsTypeOK, IsExhausted
<1>5. d \in Int /\ d > 0
  <2>1. attempts[q] + 1 \in 1 .. MaxAttempts
    BY <1>4, Constants
  <2> QED
    BY <1>3, <2>1, DelayBounds
<1>6. wait'[q] = d /\ \A p \in Pendings \ {q} : wait'[p] = wait[p]
  BY <1>3 DEF TInv, RowsTypeOK
<1>7. ~ Due(q)'
  BY <1>5, <1>6 DEF Due
<1> QED
  BY <1>1, <1>2, <1>6, <1>7, HeedLeave

LEMMA HeedSettle ==
    ASSUME TInv, HeedInv, NEW l \in Loops, Settle(l)
    PROVE  HeedInv'
<1>1. PICK q \in Pendings : q = hand[l]
  BY DEF TInv, HandsOK, Settle, NeedsWallet
<1>2. /\ LetGo(l) /\ GoOn(l) /\ UNCHANGED others
      /\ status' = [status EXCEPT ![q] = IF q \in landed THEN "settled" ELSE "givenUp"]
      /\ wait' = [wait EXCEPT ![q] = 0] /\ ignored' = [ignored EXCEPT ![q] = 0]
  BY <1>1 DEF Settle
<1>3. status'[q] # "pending"
      /\ \A p \in Pendings \ {q} : status'[p] = status[p] /\ wait'[p] = wait[p]
  BY <1>2 DEF TInv, RowsTypeOK
<1>4. ~ Due(q)'
  BY <1>3 DEF Due
<1> QED
  BY <1>1, <1>2, <1>3, <1>4, HeedLeave

LEMMA HeedTake ==
    ASSUME TInv, HeedInv, NEW l \in Loops, NEW q \in Pendings, Take(l, q)
    PROVE  HeedInv'
<1>1. /\ BeginStep(l) /\ hand' = [hand EXCEPT ![l] = q] /\ UNCHANGED <<rows, others, ignored>>
  BY DEF Take
<1>2. hand[l] = None
  BY <1>1 DEF BeginStep, TInv, HandsOK
<1>3. /\ \A k \in Loops : at'[k] = "idle" => at[k] = "idle" /\ timer'[k] = timer[k]
      /\ \A k \in Loops : InVain(k)' => InVain(k)
  BY <1>1, Constants DEF BeginStep, InVain, TInv, LoopInv, LoopTypeOK, HandsOK
<1>4. ASSUME NEW p \in Pendings \ Contended PROVE HeedFor(p)'
  <2>1. ~ Locked(p)' => ~ Locked(p)
    BY <1>1, <1>2, Constants DEF Locked, TInv, HandsOK
  <2>2. (Due(p)' <=> Due(p)) /\ ignored'[p] = ignored[p] /\ exits' = exits
    BY <1>1 DEF Due, rows, others
  <2> QED
    BY <1>3, <2>1, <2>2, HeedCalm
<1> QED
  BY <1>3, <1>4 DEF HeedInv

(* A worker looks in vain only when no row that is due is free.             *)
LEMMA HeedLookInVain ==
    ASSUME TInv, LateInv, HeedInv, NEW l \in Loops, LookInVain(l)
    PROVE  HeedInv'
<1>1. /\ BeginStep(l) /\ UNCHANGED <<rows, others, hands, ignored>>
      /\ ~ \E q \in Pendings : IsNext(q)
  BY DEF LookInVain
<1>2. \A k \in Loops : at'[k] = "idle" => at[k] = "idle" /\ timer'[k] = timer[k]
  BY <1>1 DEF BeginStep, TInv, LoopInv, LoopTypeOK
<1>3. ASSUME NEW p \in Pendings \ Contended PROVE HeedFor(p)'
  <2>1. HeedFor(p) /\ p \in Pendings
    BY <1>3 DEF HeedInv
  <2>2. ~ (Due(p) /\ ~ Locked(p))
    BY <1>1, <2>1, QueueHead
  <2>3. (Due(p)' <=> Due(p)) /\ ignored' = ignored /\ (Locked(p)' <=> Locked(p))
        /\ Patience' = Patience
    BY <1>1 DEF Due, Locked, Patience, rows, hands, others
  <2> QED
    BY <2>1, <2>2, <2>3 DEF HeedFor
<1> QED
  BY <1>2, <1>3 DEF HeedInv

LEMMA HeedFindNothing ==
    ASSUME TInv, HeedInv, NEW l \in Loops, FindNothing(l)
    PROVE  HeedInv'
<1>1. InVain(l) /\ Rest(l) /\ UNCHANGED <<rows, others, hands, ignored>>
  BY DEF FindNothing
<1>2. /\ \A k \in Loops \ {l} : at'[k] = at[k] /\ timer'[k] = timer[k] /\ hand'[k] = hand[k]
      /\ at'[l] # "step"
      /\ at'[l] = "idle" => timer'[l] = IdleDelay
  BY <1>1 DEF Rest, Sleep, TInv, LoopInv, LoopTypeOK, hands
<1>3. ASSUME NEW p \in Pendings \ Contended PROVE HeedFor(p)'
  <2>1. HeedFor(p)
    BY <1>3 DEF HeedInv
  <2>2. (Due(p)' <=> Due(p)) /\ ignored' = ignored /\ (Locked(p)' <=> Locked(p))
        /\ Patience' = Patience
    BY <1>1 DEF Due, Locked, Patience, rows, hands, others
  <2>3. ASSUME Due(p), ~ Locked(p), NEW k \in Loops
        PROVE  /\ at'[k] = "idle" => ignored'[p] + timer'[k] < Patience'
               /\ InVain(k)' => ignored'[p] + IdleDelay < Patience'
    BY <1>1, <1>2, <2>1, <2>2, <2>3 DEF HeedFor, InVain
  <2> QED
    BY <2>1, <2>2, <2>3 DEF HeedFor
<1>4. \A k \in Loops : at'[k] = "idle" => timer'[k] <= IdleDelay
  BY <1>2, HeedTypes DEF HeedInv
<1> QED
  BY <1>3, <1>4 DEF HeedInv

(* The row a lock timeout unlocks has a wallet that others may hold.        *)
LEMMA HeedLockTimesOut ==
    ASSUME TInv, HeedInv, NEW l \in Loops, LockTimesOut(l)
    PROVE  HeedInv'
<1>1. /\ hand[l] \in holders /\ LetGo(l) /\ Recover(l) /\ UNCHANGED <<rows, others, ignored>>
  BY DEF LockTimesOut
<1>2. /\ \A k \in Loops : at'[k] = "idle" => at[k] = "idle" /\ timer'[k] = timer[k]
      /\ \A k \in Loops : InVain(k)' => InVain(k)
  BY <1>1 DEF Recover, Sleep, InVain, LetGo, TInv, LoopInv, LoopTypeOK, HandsOK
<1>3. ASSUME NEW p \in Pendings \ Contended PROVE HeedFor(p)'
  <2>1. p # hand[l]
    BY <1>1 DEF TInv, OthersTypeOK
  <2>2. ~ Locked(p)' => ~ Locked(p)
    BY <1>1, <2>1 DEF Locked, LetGo, TInv, HandsOK
  <2>3. (Due(p)' <=> Due(p)) /\ ignored'[p] = ignored[p] /\ exits' = exits
    BY <1>1 DEF Due, rows, others
  <2> QED
    BY <1>2, <2>2, <2>3, HeedCalm
<1> QED
  BY <1>2, <1>3 DEF HeedInv

(* A worker that dies may have had the row in hand while others went to     *)
(* rest.                                                                   *)
LEMMA HeedDie ==
    ASSUME TInv, HeedInv, NEW l \in Loops, Die(l)
    PROVE  HeedInv'
<1>1. exits' = exits + 1 /\ LetGo(l) /\ Kill(l) /\ UNCHANGED <<rows, ignored>>
  BY DEF Die
<1>2. \A k \in Loops : at'[k] = "idle" => at[k] = "idle" /\ timer'[k] = timer[k]
  BY <1>1 DEF Kill, TInv, LoopInv, LoopTypeOK
<1>3. Patience' = Patience + IdleDelay /\ Patience \in Nat /\ IdleDelay \in Nat
      /\ \A k \in Loops : timer[k] \in Nat
  BY <1>1, PatienceGrows, HeedTypes
<1>4. ASSUME NEW p \in Pendings \ Contended PROVE HeedFor(p)'
  <2>1. HeedFor(p) /\ ignored[p] \in Nat
    BY <1>4, HeedTypes DEF HeedInv
  <2>2. (Due(p)' <=> Due(p)) /\ ignored'[p] = ignored[p]
    BY <1>1 DEF Due, rows
  <2>3. ignored'[p] < Patience'
    BY <1>3, <2>1, <2>2 DEF HeedFor
  <2>4. \A k \in Loops : /\ at'[k] = "idle" => ignored'[p] + timer'[k] < Patience'
                        /\ ignored'[p] + IdleDelay < Patience'
    <3>1. \A k \in Loops : at'[k] = "idle" => timer'[k] \in Nat /\ timer'[k] <= IdleDelay
      BY <1>2, <1>3 DEF HeedInv
    <3>2. ignored[p] < Patience
      BY <2>1 DEF HeedFor
    <3> QED
      BY <1>3, <2>1, <2>2, <3>1, <3>2
  <2> QED
    BY <2>1, <2>2, <2>3, <2>4 DEF HeedFor
<1> QED
  BY <1>2, <1>4 DEF HeedInv

LEMMA HeedSubmit ==
    ASSUME TInv, HeedInv, NEW q \in Pendings, Submit(q)
    PROVE  HeedInv'
<1>1. /\ status' = [status EXCEPT ![q] = "pending"] /\ wait' = [wait EXCEPT ![q] = FirstDelay]
      /\ status[q] = "absent" /\ UNCHANGED <<loopVars, others, hands, ignored>>
  BY DEF Submit
<1>2. ASSUME NEW p \in Pendings \ Contended PROVE HeedFor(p)'
  <2>1. Due(p)' <=> Due(p)
    BY <1>1, FirstDelayFits DEF Due, TInv, RowsTypeOK
  <2>2. (Locked(p)' <=> Locked(p)) /\ ignored'[p] = ignored[p] /\ exits' = exits
    BY <1>1 DEF Locked, others, hands
  <2>3. /\ \A k \in Loops : at'[k] = "idle" => at[k] = "idle" /\ timer'[k] = timer[k]
        /\ \A k \in Loops : InVain(k)' => InVain(k)
    BY <1>1 DEF InVain, loopVars, hands
  <2> QED
    BY <2>1, <2>2, <2>3, HeedCalm
<1> QED
  BY <1>1, <1>2 DEF HeedInv, loopVars

(* Time passes over a free row only while a worker that is free sleeps.     *)
LEMMA HeedPass ==
    ASSUME TInv, HeedInv, Pass
    PROVE  HeedInv'
<1>1. /\ UNCHANGED <<status, hand, exits>>
      /\ \A l \in Loops : /\ Quiet(l) /\ at'[l] = at[l]
                          /\ timer'[l] = IF timer[l] > 0 THEN timer[l] - 1 ELSE 0
  BY DEF Pass, TimersRunDown
<1>0. \A l \in Loops : ~ InVain(l)'
  BY <1>1 DEF InVain, Quiet, Stuck, NeedsWallet
<1>2. /\ Patience' = Patience /\ Patience \in Nat /\ IdleDelay \in Nat \ {0} /\ Patience >= IdleDelay
      /\ \A l \in Loops : timer[l] \in Nat
  BY <1>1, HeedTypes DEF Patience
<1>3. ASSUME NEW l \in Loops, at[l] = "idle"
      PROVE  /\ timer[l] > 0 /\ timer'[l] = timer[l] - 1 /\ timer[l] \in Nat
             /\ timer[l] <= IdleDelay
  BY <1>1, <1>2, <1>3 DEF Quiet, LoopIsQuiet, Asleep, HeedInv
<1>4. ASSUME NEW p \in Pendings \ Contended PROVE HeedFor(p)'
  <2> DEFINE Over == Due(p) /\ ~ Locked(p) /\ \E l \in Loops : Free(l)
  <2>1. HeedFor(p) /\ ignored[p] \in Nat
    BY <1>4, HeedTypes DEF HeedInv
  <2>2. ignored'[p] = IF Over THEN ignored[p] + 1 ELSE ignored[p]
    BY DEF Pass
  <2>3. Locked(p)' <=> Locked(p)
    BY <1>1 DEF Locked
  <2>4. CASE Over
    <3>1. PICK l \in Loops : Free(l)
      BY <2>4
    <3>2. at[l] = "idle"
      BY <1>1, <3>1 DEF Free, Quiet, LoopIsQuiet, TInv, LoopInv, LoopTypeOK
    <3>3. \A k \in Loops : at[k] = "idle" => ignored[p] + timer[k] < Patience
      BY <2>1, <2>4 DEF HeedFor
    <3>4. Due(p)'
      BY <1>1, <2>4 DEF Pass, Due, TInv, RowsTypeOK
    <3>5. ignored'[p] < Patience'
      BY <1>2, <1>3, <2>1, <2>2, <2>4, <3>2, <3>3
    <3>6. \A k \in Loops : at'[k] = "idle" => ignored'[p] + timer'[k] < Patience'
      BY <1>1, <1>2, <1>3, <2>1, <2>2, <2>4, <3>3
    <3> QED
      BY <1>0, <3>4, <3>5, <3>6 DEF HeedFor
  <2>5. CASE ~ Over
    <3>1. ignored'[p] = ignored[p]
      BY <2>2, <2>5
    <3>2. Due(p) => Due(p)'
      BY <1>1 DEF Pass, Due, TInv, RowsTypeOK
    <3>3. ignored'[p] < Patience'
      BY <1>2, <2>1, <3>1 DEF HeedFor
    <3>4. ASSUME Due(p), ~ Locked(p), NEW k \in Loops, at[k] = "idle"
          PROVE  ignored'[p] + timer'[k] < Patience'
      <4>1. ignored[p] + timer[k] < Patience
        BY <2>1, <3>4 DEF HeedFor
      <4> QED
        BY <1>2, <1>3, <2>1, <3>1, <3>4, <4>1
    <3>5. ASSUME ~ Due(p), NEW k \in Loops, at[k] = "idle"
          PROVE  ignored'[p] + timer'[k] < Patience'
      <4>1. ignored[p] = 0
        BY <2>1, <3>5 DEF HeedFor
      <4> QED
        BY <1>2, <1>3, <3>1, <3>5, <4>1
    <3> QED
      BY <1>0, <1>1, <2>1, <2>3, <3>1, <3>2, <3>3, <3>4, <3>5 DEF HeedFor
  <2> QED
    BY <2>4, <2>5
<1>5. \A l \in Loops : at'[l] = "idle" => timer'[l] <= IdleDelay
  BY <1>1, <1>2, <1>3
<1> QED
  BY <1>4, <1>5 DEF HeedInv

LEMMA HeedStep == TInv /\ LateInv /\ HeedInv /\ [Next]_vars => HeedInv'
<1> SUFFICES ASSUME TInv, LateInv, HeedInv, [Next]_vars PROVE HeedInv'
  OBVIOUS
<1>1. ASSUME UNCHANGED <<status, wait, hand, ignored>>, exits' \in {exits, exits + 1},
             \A l \in Loops : at'[l] = "idle" => at[l] = "idle" /\ timer'[l] = timer[l],
             \A l \in Loops : InVain(l)' => InVain(l)
      PROVE  HeedInv'
  <2>1. ASSUME NEW p \in Pendings \ Contended PROVE HeedFor(p)'
    <3>1. (Due(p)' <=> Due(p)) /\ (Locked(p)' <=> Locked(p)) /\ ignored'[p] = ignored[p]
      BY <1>1 DEF Due, Locked
    <3> QED
      BY <1>1, <3>1, HeedCalm
  <2> QED
    BY <1>1, <2>1 DEF HeedInv
<1>2. CASE UNCHANGED vars
  <2>1. UNCHANGED <<status, wait, exits, hand, at, timer, ignored>>
    BY <1>2 DEF vars, rows, others, hands, loopVars
  <2> QED
    BY <1>1, <2>1 DEF InVain
<1>3. ASSUME NEW p \in Pendings, Submit(p) \/ Land(p) \/ Hold(p) \/ Release(p) PROVE HeedInv'
  <2>1. CASE Submit(p)
    BY <2>1, HeedSubmit
  <2>2. CASE Land(p) \/ Hold(p) \/ Release(p)
    <3>1. UNCHANGED <<status, wait, exits, hand, at, timer, ignored>>
      BY <2>2 DEF Land, Hold, Release, rows, hands, loopVars
    <3> QED
      BY <1>1, <3>1 DEF InVain
  <2> QED
    BY <1>3, <2>1, <2>2
<1>4. ASSUME NEW l \in Loops, Work(l) PROVE HeedInv'
  BY <1>4, HeedTake, HeedLookInVain, HeedFindNothing, HeedReschedule, HeedSettle,
     HeedLockTimesOut DEF Work
<1>5. ASSUME NEW l \in Loops, LoopStep(l) \/ Start(l) \/ Stop(l),
             UNCHANGED <<rows, hands, ignored>>, exits' \in {exits, exits + 1}
      PROVE  HeedInv'
  <2>1. /\ \A k \in Loops : at'[k] = "idle" => at[k] = "idle" /\ timer'[k] = timer[k]
        /\ \A k \in Loops : at'[k] = "step" => at[k] = "step"
    BY <1>5 DEF LoopStep, TimerFires, GoOn, EndLoop, StopReturns, Start, Stop, Asleep, TInv, LoopInv,
                LoopTypeOK
  <2> QED
    BY <1>1, <1>5, <2>1 DEF InVain, rows, hands
<1>6. ASSUME NEW l \in Loops, ToldToStop(l) \/ Die(l) PROVE HeedInv'
  BY <1>5, <1>6, HeedDie DEF ToldToStop
<1>7. CASE Pass
  BY <1>7, HeedPass
<1> QED
  BY <1>2, <1>3, <1>4, <1>5, <1>6, <1>7 DEF Next, others

-----------------------------------------------------------------------------
(* The theorems.                                                           *)

AllInv == TInv /\ TermInv /\ LateInv /\ HeedInv

(* In every state what the module says of the queue and of its workers      *)
(* holds together.                                                         *)
THEOREM QueueIsConsistent == Spec => []AllInv
<1>1. Init => AllInv
  BY TInit, TermInit, LateInit, HeedInit DEF AllInv
<1>2. AllInv /\ [Next]_vars => AllInv'
  BY TInductive, TermInductive, LateStep, HeedStep DEF AllInv
<1> QED
  BY <1>1, <1>2, PTL DEF Spec

(* The columns, the timers and the locks keep their types and bounds: no    *)
(* row waits longer than one capped delay with its jitter.                 *)
THEOREM TypesHold == Spec => []TypeOK
<1>1. AllInv => TypeOK
  BY TypesFollow DEF AllInv
<1> QED
  BY <1>1, QueueIsConsistent, PTL

(* A loop that is told to stop never sleeps out a delay, and until it has   *)
(* ended its flag is up or somebody waits for it (polling-loop.ts).        *)
THEOREM StopsArePrompt == Spec => []StopWaitsForTheStepAlone
<1>1. AllInv => StopWaitsForTheStepAlone
  BY TypesFollow DEF AllInv
<1> QED
  BY <1>1, QueueIsConsistent, PTL

(* No pending is given up for its attempts before its term has ended,       *)
(* whatever the jitter takes from its delays (ARCHITECTURE.md 13.4).       *)
THEOREM GivenUpAtTheEnd == Spec => TermEndsBeforeAttempts
<1>1. AllInv /\ [Next]_vars =>
          [\A p \in Pendings : status[p] # "givenUp" /\ status'[p] = "givenUp" => term[p] <= 0]_vars
  BY GivingUp DEF AllInv
<1> QED
  BY <1>1, QueueIsConsistent, PTL DEF Spec, TermEndsBeforeAttempts

(* A pending is answered within one capped delay of its term, but for the   *)
(* time wallets are held and for the sleeps that lock timeouts and deaths   *)
(* of workers add: the queue starves nobody, however long it is.           *)
THEOREM AnswersComeInTime == Spec => []AnsweredAfterItsTerm
<1>1. AllInv => AnsweredAfterItsTerm
  BY LateTerms DEF AllInv
<1> QED
  BY <1>1, QueueIsConsistent, PTL

(* A wallet that is held keeps no pending of another wallet waiting while a *)
(* worker is free (FOR UPDATE SKIP LOCKED).                                *)
THEOREM SkipLockedIsFair == Spec => []ContentionKeepsNoOneElse
<1>1. AllInv => ContentionKeepsNoOneElse
  BY DEF AllInv, HeedInv, HeedFor, Patience, ContentionKeepsNoOneElse
<1> QED
  BY <1>1, QueueIsConsistent, PTL
=============================================================================

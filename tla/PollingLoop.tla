---------------------------- MODULE PollingLoop -----------------------------
(***************************************************************************)
(* The loop that drives a worker: it runs its step again and again, at     *)
(* once while there is work, after a delay when there is none and after    *)
(* another one when the step fails.  stop() clears the flag, wakes the     *)
(* loop if it sleeps and returns when the loop has ended.                  *)
(*                                                                         *)
(* One process has one thread, so what lies between two awaits is one      *)
(* action.  What a step does is left to the module that extends this one.  *)
(* Time is counted in whole units; timers run down in TimersRunDown.       *)
(***************************************************************************)
EXTENDS Integers

CONSTANTS Loops, IdleDelay, ErrorDelay

ASSUME DelaysAssumption == IdleDelay \in Nat \ {0} /\ ErrorDelay \in Nat \ {0}

VARIABLES
    running,   \* loop -> the flag that stop() clears
    stopping,  \* loop -> whether a call of stop() waits for its end
    at,        \* loop -> "off", "check" (the while test), "step", or where it
               \* sleeps: "idle" after a step without work, "error" after one
               \* that threw
    timer      \* loop -> what is left of its sleep

loopVars == <<running, stopping, at, timer>>

LoopInit ==
    /\ running = [l \in Loops |-> FALSE]
    /\ stopping = [l \in Loops |-> FALSE]
    /\ at = [l \in Loops |-> "off"]
    /\ timer = [l \in Loops |-> 0]

LoopTypeOK ==
    /\ running \in [Loops -> BOOLEAN]
    /\ stopping \in [Loops -> BOOLEAN]
    /\ at \in [Loops -> {"off", "check", "step", "idle", "error"}]
    /\ timer \in [Loops -> 0 .. (IF IdleDelay > ErrorDelay THEN IdleDelay ELSE ErrorDelay)]
    /\ \A l \in Loops : /\ timer[l] > 0 => at[l] \in {"idle", "error"}
                        /\ running[l] => at[l] # "off"

(* The process starts. *)
Start(l) ==
    /\ at[l] = "off" /\ ~ stopping[l]
    /\ running' = [running EXCEPT ![l] = TRUE]
    /\ at' = [at EXCEPT ![l] = "check"]
    /\ UNCHANGED <<stopping, timer>>

BeginStep(l) ==
    /\ at[l] = "check" /\ running[l]
    /\ at' = [at EXCEPT ![l] = "step"]
    /\ UNCHANGED <<running, stopping, timer>>

(* Mutant: the loop goes to sleep without a look at the flag. *)
SleepUnguarded(l, place, delay) ==
    /\ at' = [at EXCEPT ![l] = place]
    /\ timer' = [timer EXCEPT ![l] = delay]
    /\ UNCHANGED <<running, stopping>>
(* idle(delay): nothing happens between its guard and its timer. *)
Sleep(l, place, delay) ==
    /\ at' = [at EXCEPT ![l] = IF running[l] THEN place ELSE "check"]
    /\ timer' = [timer EXCEPT ![l] = IF running[l] THEN delay ELSE 0]
    /\ UNCHANGED <<running, stopping>>

(* A step that did work is followed by the next one. *)
GoOn(l) ==
    /\ at' = [at EXCEPT ![l] = "check"]
    /\ UNCHANGED <<running, stopping, timer>>
Rest(l) == Sleep(l, "idle", IdleDelay)
Recover(l) == Sleep(l, "error", ErrorDelay)

Asleep(l) == at[l] \in {"idle", "error"}

TimerFires(l) ==
    /\ Asleep(l) /\ timer[l] = 0
    /\ GoOn(l)

EndLoop(l) ==
    /\ at[l] = "check" /\ ~ running[l]
    /\ at' = [at EXCEPT ![l] = "off"]
    /\ UNCHANGED <<running, stopping, timer>>

(* stop(), up to its await: wake() clears the timer. *)
Stop(l) ==
    /\ running[l]
    /\ running' = [running EXCEPT ![l] = FALSE]
    /\ stopping' = [stopping EXCEPT ![l] = TRUE]
    /\ at' = [at EXCEPT ![l] = IF Asleep(l) THEN "check" ELSE @]
    /\ timer' = [timer EXCEPT ![l] = 0]

StopReturns(l) ==
    /\ stopping[l] /\ at[l] = "off"
    /\ stopping' = [stopping EXCEPT ![l] = FALSE]
    /\ UNCHANGED <<running, at, timer>>

(* The process dies. *)
Kill(l) ==
    /\ at[l] # "off"
    /\ running' = [running EXCEPT ![l] = FALSE]
    /\ stopping' = [stopping EXCEPT ![l] = FALSE]
    /\ at' = [at EXCEPT ![l] = "off"]
    /\ timer' = [timer EXCEPT ![l] = 0]

(* A loop that has something to do does it before time passes. *)
LoopIsQuiet(l) ==
    /\ Asleep(l) => timer[l] > 0
    /\ at[l] # "check"
    /\ at[l] = "off" => ~ stopping[l]
TimersRunDown ==
    /\ timer' = [l \in Loops |-> IF timer[l] > 0 THEN timer[l] - 1 ELSE 0]
    /\ UNCHANGED <<running, stopping, at>>

(* Whatever stop() comes between, it waits for the step that is under way,  *)
(* so that the process may exit without cutting a transaction short, and   *)
(* for nothing else: a loop told to stop never sleeps out a delay.         *)
StopWaitsForTheStepAlone ==
    \A l \in Loops : /\ Asleep(l) => running[l]
                     /\ ~ running[l] /\ ~ stopping[l] => at[l] = "off"
=============================================================================

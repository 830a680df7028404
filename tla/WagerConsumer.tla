---------------------------- MODULE WagerConsumer ----------------------------
(***************************************************************************)
(* The SQS consumers: a batch is received, each message is handled in turn  *)
(* inside one database transaction, and is deleted, sent to the dead-letter *)
(* queue or left for a later delivery.  Any call to SQS may fail, any       *)
(* consumer may die or be told to shut down, and the visibility of a       *)
(* message may run out while it is still being handled.                    *)
(*                                                                         *)
(* The transaction of ConsumeWagerMessageUseCase is one step here: Wagering *)
(* models what happens inside it.  Time is left out: a visibility timeout,  *)
(* however long the consumer asked for, may run out at any moment.          *)
(***************************************************************************)
EXTENDS Naturals, Sequences, FiniteSets

CONSTANTS
    Consumers,    \* the consuming processes
    Messages,     \* the messages, as their rank in the input queue
    GroupOf,      \* message -> its wallet, the FIFO group
    Poison,       \* the messages the contract refuses for good
    BatchSize,    \* the most messages one receive returns
    MaxReceive,   \* deliveries after which the queue parks a message in the DLQ
    BrokerFaults  \* whether calls to SQS may fail

ASSUME MessagesAssumption == Messages \subseteq Nat /\ DOMAIN GroupOf = Messages
ASSUME PoisonAssumption == Poison \subseteq Messages
ASSUME BoundsAssumption == BatchSize \in Nat \ {0} /\ MaxReceive \in Nat \ {0}
ASSUME FaultsAssumption == BrokerFaults \in BOOLEAN

VARIABLES
    queue,    \* message -> "ready", "hidden" or "deleted"
    receives, \* message -> how often it has been delivered
    dlq,      \* the messages in the dead-letter queue
    applied,  \* the messages whose transaction has committed, in that order
    retried,  \* history: the messages returned for a later retry
    mode, pc, \* consumer -> its life and where its loop stands
    batch     \* consumer -> the deliveries it still has to handle

vars == <<queue, receives, dlq, applied, retried, mode, pc, batch>>
broker == <<queue, receives, dlq>>

Handling == {"consume", "ack", "deadLetter", "retry"}

SameGroup(m, n) == GroupOf[m] = GroupOf[n]
IsApplied(m) == \E i \in 1 .. Len(applied) : applied[i] = m

(* A receipt handle names a delivery; it is good until its visibility ends. *)
Current(d) == queue[d.id] = "hidden" /\ receives[d.id] = d.receipt

Init ==
    /\ queue = [m \in Messages |-> "ready"]
    /\ receives = [m \in Messages |-> 0]
    /\ dlq = {}
    /\ applied = <<>>
    /\ retried = {}
    /\ mode = [c \in Consumers |-> "running"]
    /\ pc = [c \in Consumers |-> "poll"]
    /\ batch = [c \in Consumers |-> <<>>]

Goto(c, label) == pc' = [pc EXCEPT ![c] = label]

(* The message is done with: the loop turns to the rest of the batch, and   *)
(* polls again after the last one unless it was told to stop.              *)
Rest(c) ==
    /\ batch' = [batch EXCEPT ![c] = Tail(@)]
    /\ Goto(c, IF Len(batch[c]) > 1 THEN "turn"
               ELSE IF mode[c] = "running" THEN "poll" ELSE "ended")

(* Mutant: a failed call is swallowed and the batch goes on. *)
AbandonMessage(c) == Rest(c)
(* Mutant: a failed call ends the loop. *)
AbandonLoop(c) ==
    /\ batch' = [batch EXCEPT ![c] = <<>>]
    /\ Goto(c, "ended")
(* Mutant: the loop backs off and keeps its batch. *)
AbandonBatchKept(c) ==
    /\ Goto(c, IF mode[c] = "running" THEN "poll" ELSE "ended")
    /\ UNCHANGED batch
(* A call failed: the batch is forgotten and the loop backs off.           *)
AbandonBatch(c) ==
    /\ batch' = [batch EXCEPT ![c] = <<>>]
    /\ Goto(c, IF mode[c] = "running" THEN "poll" ELSE "ended")

-----------------------------------------------------------------------------
(* The queue.                                                              *)

(* What one receive may return: the oldest messages of groups none of       *)
(* whose messages is hidden, each group in order.                          *)
Deliverable(s) ==
    /\ \A i, j \in 1 .. Len(s) : s[i] = s[j] => i = j
    /\ \A i \in 1 .. Len(s) :
          /\ receives[s[i]] < MaxReceive
          /\ queue[s[i]] = "ready"
          /\ \A m \in Messages : SameGroup(m, s[i]) =>
                /\ queue[m] # "hidden"
                /\ m < s[i] => \/ queue[m] = "deleted"
                               \/ \E j \in 1 .. i - 1 : s[j] = m

Batches == UNION {[1 .. n -> Messages] : n \in 1 .. BatchSize}

VisibilityEnds(m) ==
    /\ queue[m] = "hidden"
    /\ queue' = [queue EXCEPT ![m] = "ready"]
    /\ UNCHANGED <<receives, dlq, applied, retried, mode, pc, batch>>

(* The redrive policy of the input queue. *)
Redrive(m) ==
    /\ queue[m] = "ready"
    /\ receives[m] = MaxReceive
    /\ queue' = [queue EXCEPT ![m] = "deleted"]
    /\ dlq' = dlq \cup {m}
    /\ UNCHANGED <<receives, applied, retried, mode, pc, batch>>

-----------------------------------------------------------------------------
(* The loop of a consumer.                                                 *)

(* A receive that was under way when the consumer was told to stop may      *)
(* still return messages.                                                  *)
Receive(c, s) ==
    /\ pc[c] = "poll"
    /\ Deliverable(s)
    /\ queue' = [m \in Messages |->
                    IF \E i \in 1 .. Len(s) : s[i] = m THEN "hidden" ELSE queue[m]]
    /\ receives' = [m \in Messages |->
                    receives[m] + IF \E i \in 1 .. Len(s) : s[i] = m THEN 1 ELSE 0]
    /\ batch' = [batch EXCEPT ![c] =
                    [i \in 1 .. Len(s) |-> [id |-> s[i], receipt |-> receives[s[i]] + 1]]]
    /\ Goto(c, "first")
    /\ UNCHANGED <<dlq, applied, retried, mode>>

ReceiveNothing(c) ==
    /\ pc[c] = "poll"
    /\ mode[c] # "running"
    /\ Goto(c, "ended")
    /\ UNCHANGED <<broker, applied, retried, mode, batch>>

(* Stopping: what has not started goes straight back to the queue.         *)
GiveBack(c) ==
    LET d == Head(batch[c])
    IN  /\ pc[c] \in {"first", "turn"}
        /\ mode[c] # "running"
        /\ IF Current(d)
           THEN queue' = [queue EXCEPT ![d.id] = "ready"] /\ Rest(c)
           ELSE AbandonBatch(c) /\ UNCHANGED queue
        /\ UNCHANGED <<receives, dlq, applied, retried, mode>>

(* Every message after the first renews its visibility before it starts.   *)
TakeUp(c) ==
    /\ pc[c] \in {"first", "turn"}
    /\ mode[c] = "running"
    /\ IF pc[c] = "first" \/ Current(Head(batch[c]))
       THEN Goto(c, "consume") /\ UNCHANGED batch
       ELSE AbandonBatch(c)
    /\ UNCHANGED <<broker, applied, retried, mode>>

(* Processed, or recognised by its inbox row as a duplicate.               *)
Consume(c) ==
    LET m == Head(batch[c]).id
    IN  /\ pc[c] = "consume"
        /\ m \notin Poison
        /\ applied' = IF IsApplied(m) THEN applied ELSE Append(applied, m)
        /\ Goto(c, "ack")
        /\ UNCHANGED <<broker, retried, mode, batch>>

ConsumePoison(c) ==
    /\ pc[c] = "consume"
    /\ Head(batch[c]).id \in Poison
    /\ Goto(c, "deadLetter")
    /\ UNCHANGED <<broker, applied, retried, mode, batch>>

(* Mutant: a transient failure is acknowledged. *)
ConsumeFailsAcked(c) ==
    /\ pc[c] = "consume"
    /\ Goto(c, "ack")
    /\ UNCHANGED <<broker, applied, retried, mode, batch>>
(* Mutant: an error nobody classified is taken for a permanent one. *)
ConsumeFailsParked(c) ==
    /\ pc[c] = "consume"
    /\ Goto(c, "deadLetter")
    /\ UNCHANGED <<broker, applied, retried, mode, batch>>
(* Transient: rolled back, or committed with its answer lost.              *)
ConsumeFails(c) ==
    LET m == Head(batch[c]).id
    IN  /\ pc[c] = "consume"
        /\ \/ UNCHANGED applied
           \/ m \notin Poison /\ ~ IsApplied(m) /\ applied' = Append(applied, m)
        /\ Goto(c, "retry")
        /\ UNCHANGED <<broker, retried, mode, batch>>

(* DeleteMessage; the queue refuses a handle that is no longer good.       *)
Ack(c) ==
    LET d == Head(batch[c])
    IN  /\ pc[c] = "ack"
        /\ IF Current(d)
           THEN queue' = [queue EXCEPT ![d.id] = "deleted"] /\ Rest(c)
           ELSE AbandonBatch(c) /\ UNCHANGED queue
        /\ UNCHANGED <<receives, dlq, applied, retried, mode>>

(* Sent to the DLQ first, deleted from the input queue after.              *)
DeadLetter(c) ==
    /\ pc[c] = "deadLetter"
    /\ dlq' = dlq \cup {Head(batch[c]).id}
    /\ Goto(c, "ack")
    /\ UNCHANGED <<queue, receives, applied, retried, mode, batch>>

(* The message stays hidden until its backoff ends; the batch goes on.     *)
ReturnForRetry(c) ==
    LET d == Head(batch[c])
    IN  /\ pc[c] = "retry"
        /\ IF Current(d)
           THEN retried' = retried \cup {d.id} /\ Rest(c)
           ELSE AbandonBatch(c) /\ UNCHANGED retried
        /\ UNCHANGED <<broker, applied, mode>>

(* A call to SQS throws.  What it asked for may have taken place.  A first  *)
(* message has a call of its own only when it is given back.               *)
CallThrows(c) ==
    LET d == Head(batch[c])
    IN  /\ BrokerFaults
        /\ \/ pc[c] \in {"turn", "ack", "deadLetter", "retry"}
           \/ pc[c] = "first" /\ mode[c] # "running"
        /\ \/ UNCHANGED <<queue, dlq>>
           \/ /\ pc[c] \in {"first", "turn"} /\ mode[c] # "running" /\ Current(d)
              /\ queue' = [queue EXCEPT ![d.id] = "ready"]
              /\ UNCHANGED dlq
           \/ /\ pc[c] = "ack" /\ Current(d)
              /\ queue' = [queue EXCEPT ![d.id] = "deleted"]
              /\ UNCHANGED dlq
           \/ /\ pc[c] = "deadLetter"
              /\ dlq' = dlq \cup {d.id}
              /\ UNCHANGED queue
        /\ AbandonBatch(c)
        /\ UNCHANGED <<receives, applied, retried, mode>>

-----------------------------------------------------------------------------
(* The life of a consumer.                                                 *)

Shutdown(c) ==
    /\ mode[c] = "running"
    /\ mode' = [mode EXCEPT ![c] = "stopping"]
    /\ UNCHANGED <<broker, applied, retried, pc, batch>>

(* The grace is over and the loop has not ended: the message being handled  *)
(* is made visible at once, while its handling still goes on.  A call that  *)
(* fails or is late leaves it hidden.                                      *)
ReleaseInFlight(c) ==
    /\ mode[c] = "stopping"
    /\ pc[c] # "ended"
    /\ mode' = [mode EXCEPT ![c] = "released"]
    /\ \/ /\ pc[c] \in Handling /\ Current(Head(batch[c]))
          /\ queue' = [queue EXCEPT ![Head(batch[c]).id] = "ready"]
       \/ /\ (pc[c] \in Handling /\ Current(Head(batch[c]))) => BrokerFaults
          /\ UNCHANGED queue
    /\ UNCHANGED <<receives, dlq, applied, retried, pc, batch>>

Exit(c) ==
    /\ \/ mode[c] = "released"
       \/ mode[c] = "stopping" /\ pc[c] = "ended"
    /\ mode' = [mode EXCEPT ![c] = "exited"]
    /\ Goto(c, "off")
    /\ batch' = [batch EXCEPT ![c] = <<>>]
    /\ UNCHANGED <<broker, applied, retried>>

Crash(c) ==
    /\ mode[c] \notin {"exited", "crashed"}
    /\ mode' = [mode EXCEPT ![c] = "crashed"]
    /\ Goto(c, "off")
    /\ batch' = [batch EXCEPT ![c] = <<>>]
    /\ UNCHANGED <<broker, applied, retried>>

Start(c) ==
    /\ mode[c] \in {"exited", "crashed"}
    /\ mode' = [mode EXCEPT ![c] = "running"]
    /\ Goto(c, "poll")
    /\ UNCHANGED <<broker, applied, retried, batch>>

Loop(c) ==
    \/ ReceiveNothing(c) \/ GiveBack(c) \/ TakeUp(c)
    \/ Consume(c) \/ ConsumePoison(c) \/ ConsumeFails(c)
    \/ Ack(c) \/ DeadLetter(c) \/ ReturnForRetry(c) \/ CallThrows(c)

Next ==
    \/ \E c \in Consumers :
          \/ \E s \in Batches : Receive(c, s)
          \/ Loop(c)
          \/ Shutdown(c) \/ ReleaseInFlight(c) \/ Exit(c) \/ Crash(c) \/ Start(c)
    \/ \E m \in Messages : VisibilityEnds(m) \/ Redrive(m)

Spec == Init /\ [][Next]_vars

(* Consumers are restarted, loops go on, timers fire, and a message that    *)
(* can be delivered time and again is delivered.  Nothing is assumed about  *)
(* how a message is handled, nor that consumers stop dying.                *)
LiveSpec ==
    /\ Spec
    /\ \A c \in Consumers : /\ WF_vars(Loop(c) \/ Start(c) \/ Exit(c))
                            /\ WF_vars(ReleaseInFlight(c))
    /\ \A m \in Messages :
          /\ SF_vars(\E c \in Consumers, s \in Batches :
                        Receive(c, s) /\ \E i \in 1 .. Len(s) : s[i] = m)
          /\ WF_vars(VisibilityEnds(m))
          /\ WF_vars(Redrive(m))

-----------------------------------------------------------------------------
TypeOK ==
    /\ queue \in [Messages -> {"ready", "hidden", "deleted"}]
    /\ receives \in [Messages -> 0 .. MaxReceive]
    /\ dlq \subseteq Messages
    /\ applied \in Seq(Messages)
    /\ retried \subseteq Messages
    /\ mode \in [Consumers -> {"running", "stopping", "released", "exited", "crashed"}]
    /\ pc \in [Consumers -> Handling \cup {"poll", "first", "turn", "ended", "off"}]
    /\ batch \in [Consumers -> Seq([id : Messages, receipt : 1 .. MaxReceive])]
    /\ \A c \in Consumers : pc[c] \in Handling \cup {"first", "turn"} <=> batch[c] # <<>>

(* No message is lost: one that has left the input queue was committed, or  *)
(* is in the dead-letter queue, whatever call failed and whoever died.     *)
NothingIsLost ==
    \A m \in Messages : queue[m] = "deleted" => IsApplied(m) \/ m \in dlq

(* A message is overtaken in its group only after it was returned for a     *)
(* retry or parked: a failed call, an expired visibility, a shutdown or a  *)
(* crash never lets the rest of a batch go ahead.                          *)
OvertakenOnlyAfterRetry ==
    \A i \in 1 .. Len(applied) :
        \A m \in Messages :
            (SameGroup(m, applied[i]) /\ m < applied[i]) =>
                \/ \E j \in 1 .. i : applied[j] = m
                \/ m \in retried \/ m \in dlq

(* A message the contract accepts reaches the DLQ only when it has used up  *)
(* its deliveries, and one it refuses is never applied.                    *)
OnlyPoisonIsDeadLetteredEarly ==
    \A m \in Messages :
        /\ m \in dlq => m \in Poison \/ receives[m] = MaxReceive
        /\ IsApplied(m) => m \notin Poison

(* Every message leaves the input queue: no failing message, lost handle or *)
(* restarting consumer blocks a wallet's group for ever.                   *)
EveryMessageLeaves == \A m \in Messages : <>(queue[m] = "deleted")

(* ARCHITECTURE.md 7.2: a message in retry blocks the others of its wallet. *)
(* In a batch the later ones go ahead.                                     *)
RetryBlocksItsGroup ==
    \A i \in 1 .. Len(applied) :
        \A m \in Messages :
            (SameGroup(m, applied[i]) /\ m < applied[i]) =>
                \/ \E j \in 1 .. i : applied[j] = m
                \/ m \in dlq
=============================================================================

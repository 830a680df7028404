--------------------------- MODULE ConsumerProofs ---------------------------
(***************************************************************************)
(* What the SQS consumers guarantee for any number of consumers, messages, *)
(* wallets and sizes of a batch: no message is lost, none is parked while  *)
(* it could still be tried, and a wallet's messages are applied in order   *)
(* except for those that were returned for a retry.                        *)
(***************************************************************************)
EXTENDS WagerConsumer, TLAPS

Delivery == [id : Messages, receipt : 1 .. MaxReceive]

(* What may be overtaken: it has been applied, returned or parked. *)
Settled(m) == IsApplied(m) \/ m \in retried \/ m \in dlq

(* The consumer deletes only what was applied or parked, and parks poison;  *)
(* one that has gone has nothing in hand.                                  *)
HandInv(c) ==
    /\ mode[c] \in {"exited", "crashed"} => pc[c] = "off"
    /\ pc[c] = "ack" => IsApplied(Head(batch[c]).id) \/ Head(batch[c]).id \in dlq
    /\ pc[c] = "deadLetter" => Head(batch[c]).id \in Poison

(* A delivery that may still be applied is behind nothing but the ones      *)
(* before it in its batch.  A consumer that stops applies only the one in  *)
(* its hand.                                                               *)
MayApply(c, i) == mode[c] = "running" \/ (i = 1 /\ pc[c] \in Handling)
BatchInOrder(c) ==
    \A i \in 1 .. Len(batch[c]) :
        MayApply(c, i) =>
            \A m \in Messages :
                (SameGroup(m, batch[c][i].id) /\ m < batch[c][i].id) =>
                    Settled(m) \/ \E j \in 1 .. i - 1 : batch[c][j].id = m

IInv ==
    /\ TypeOK
    /\ NothingIsLost
    /\ OvertakenOnlyAfterRetry
    /\ OnlyPoisonIsDeadLetteredEarly
    /\ \A c \in Consumers : HandInv(c) /\ BatchInOrder(c)

-----------------------------------------------------------------------------
(* The batch of a consumer. *)

InHand == Handling \cup {"first", "turn"}
Points == InHand \cup {"poll", "ended", "off"}

BatchOK(l, s) == l \in Points /\ s \in Seq(Delivery) /\ (l \in InHand <=> s # <<>>)

LEMMA TailFacts ==
    ASSUME NEW s \in Seq(Delivery), s # <<>>
    PROVE  /\ Len(s) \in Nat \ {0} /\ Head(s) = s[1] /\ Head(s) \in Delivery
           /\ Tail(s) \in Seq(Delivery) /\ Len(Tail(s)) = Len(s) - 1
           /\ \A i \in 1 .. Len(Tail(s)) : Tail(s)[i] = s[i + 1]
           /\ Tail(s) # <<>> <=> Len(s) > 1
<1>1. /\ Len(s) \in Nat \ {0} /\ Head(s) = s[1]
      /\ Tail(s) \in Seq(Delivery) /\ Len(Tail(s)) = Len(s) - 1
    OBVIOUS
<1>2. \A i \in 1 .. Len(Tail(s)) : Tail(s)[i] = s[i + 1]
    OBVIOUS
<1>3. s[1] \in Delivery
    BY <1>1
<1>4. \A t \in Seq(Delivery) : t = <<>> <=> Len(t) = 0
    OBVIOUS
<1>5. Tail(s) # <<>> <=> Len(s) > 1
    <2> DEFINE t == Tail(s)
    <2> HIDE DEF t
    <2>1. t \in Seq(Delivery) /\ Len(t) = Len(s) - 1
        BY <1>1 DEF t
    <2>2. t # <<>> <=> Len(s) > 1
        BY <1>1, <1>4, <2>1
    <2> QED BY <2>2 DEF t
<1> QED BY <1>1, <1>2, <1>3, <1>5

LEMMA BatchFacts ==
    ASSUME TypeOK, NEW c \in Consumers
    PROVE  /\ BatchOK(pc[c], batch[c])
           /\ pc[c] \in InHand => /\ Head(batch[c]) = batch[c][1]
                                  /\ Head(batch[c]).id \in Messages
                                  /\ Len(batch[c]) \in Nat \ {0}
<1>1. BatchOK(pc[c], batch[c])
    BY DEF TypeOK, BatchOK, Points, InHand, Delivery
<1>2. pc[c] \in InHand => Head(batch[c]) \in Delivery /\ Head(batch[c]) = batch[c][1]
                          /\ Len(batch[c]) \in Nat \ {0}
    BY <1>1, TailFacts DEF BatchOK
<1> QED BY <1>1, <1>2 DEF Delivery

(* A step of the loop of c leaves the loops of the others alone. *)
Same(q) == pc'[q] = pc[q] /\ mode'[q] = mode[q] /\ batch'[q] = batch[q]
LoopTypes ==
    /\ mode \in [Consumers -> {"running", "stopping", "released", "exited", "crashed"}]
    /\ pc \in [Consumers -> Handling \cup {"poll", "first", "turn", "ended", "off"}]
    /\ batch \in [Consumers -> Seq([id : Messages, receipt : 1 .. MaxReceive])]
    /\ \A c \in Consumers : pc[c] \in Handling \cup {"first", "turn"} <=> batch[c] # <<>>

LEMMA LoopFacts ==
    ASSUME TypeOK, NEW c \in Consumers, NEW l, NEW s, BatchOK(l, s),
           pc' = [pc EXCEPT ![c] = l], batch' = [batch EXCEPT ![c] = s],
           \/ mode' = mode
           \/ \E k \in {"running", "stopping", "released", "exited", "crashed"} :
                 mode' = [mode EXCEPT ![c] = k]
    PROVE  /\ LoopTypes'
           /\ \A q \in Consumers \ {c} : Same(q)
           /\ pc'[c] = l /\ batch'[c] = s
<1>1. /\ l \in Handling \cup {"poll", "first", "turn", "ended", "off"}
      /\ s \in Seq([id : Messages, receipt : 1 .. MaxReceive])
      /\ l \in Handling \cup {"first", "turn"} <=> s # <<>>
    BY DEF BatchOK, Points, InHand, Delivery
<1>2. pc'[c] = l /\ batch'[c] = s /\ \A q \in Consumers \ {c} : Same(q)
    BY DEF TypeOK, Same
<1>3. /\ mode' \in [Consumers -> {"running", "stopping", "released", "exited", "crashed"}]
      /\ pc' \in [Consumers -> Handling \cup {"poll", "first", "turn", "ended", "off"}]
      /\ batch' \in [Consumers -> Seq([id : Messages, receipt : 1 .. MaxReceive])]
    BY <1>1 DEF TypeOK
<1>4. \A q \in Consumers : pc'[q] \in Handling \cup {"first", "turn"} <=> batch'[q] # <<>>
    BY <1>1, <1>2 DEF TypeOK, Same
<1> QED BY <1>2, <1>3, <1>4 DEF LoopTypes

(* What has been settled stays settled. *)
Grows ==
    /\ \A m \in Messages : IsApplied(m) => IsApplied(m)'
    /\ retried \subseteq retried'
    /\ dlq \subseteq dlq'

LEMMA StillInOrder ==
    ASSUME IInv, NEW q \in Consumers, Grows, batch'[q] = batch[q],
           \A i \in 1 .. Len(batch[q]) : MayApply(q, i)' => MayApply(q, i)
    PROVE  BatchInOrder(q)'
<1> SUFFICES ASSUME NEW i \in 1 .. Len(batch[q]), MayApply(q, i)', NEW m \in Messages,
                    SameGroup(m, batch[q][i].id), m < batch[q][i].id
             PROVE  Settled(m)' \/ \E j \in 1 .. i - 1 : batch[q][j].id = m
    BY DEF BatchInOrder, SameGroup
<1>1. Settled(m) \/ \E j \in 1 .. i - 1 : batch[q][j].id = m
    BY DEF IInv, BatchInOrder
<1> QED BY <1>1 DEF Settled, Grows

LEMMA OthersKeep ==
    ASSUME IInv, NEW q \in Consumers, Same(q), Grows
    PROVE  HandInv(q)' /\ BatchInOrder(q)'
<1>1. BatchInOrder(q)'
    BY StillInOrder DEF Same, MayApply
<1>2. pc[q] \in InHand => Head(batch[q]).id \in Messages
    BY BatchFacts DEF IInv
<1>3. HandInv(q)
    BY DEF IInv
<1> QED BY <1>1, <1>2, <1>3 DEF HandInv, Same, Grows, InHand, Handling

LEMMA StepOf ==
    ASSUME IInv, TypeOK', NothingIsLost', OvertakenOnlyAfterRetry',
           OnlyPoisonIsDeadLetteredEarly', NEW c \in Consumers, Grows,
           \A q \in Consumers \ {c} : Same(q), HandInv(c)', BatchInOrder(c)'
    PROVE  IInv'
BY OthersKeep DEF IInv

(* The batch is forgotten, or was empty: nothing may be applied from it. *)
LEMMA EmptyFacts ==
    ASSUME NEW c \in Consumers, batch'[c] = <<>>, pc'[c] \notin InHand,
           mode'[c] \in {"exited", "crashed"} => pc'[c] = "off"
    PROVE  HandInv(c)' /\ BatchInOrder(c)'
BY DEF HandInv, BatchInOrder, InHand, Handling

LEMMA AbandonFacts ==
    ASSUME IInv, NEW c \in Consumers, pc[c] \in InHand, AbandonBatch(c), UNCHANGED mode
    PROVE  /\ LoopTypes' /\ \A q \in Consumers \ {c} : Same(q)
           /\ HandInv(c)' /\ BatchInOrder(c)'
<1>1. PICK l \in {"poll", "ended"} : pc' = [pc EXCEPT ![c] = l]
    BY DEF AbandonBatch, Goto
<1>2. BatchOK(l, <<>>) /\ l \notin InHand
    BY DEF BatchOK, Points, InHand, Handling
<1>3. /\ LoopTypes' /\ \A q \in Consumers \ {c} : Same(q)
      /\ pc'[c] = l /\ batch'[c] = <<>>
    BY <1>1, <1>2, LoopFacts DEF AbandonBatch, IInv
<1>4. mode'[c] \notin {"exited", "crashed"}
    BY DEF IInv, HandInv, InHand, Handling
<1> QED BY <1>2, <1>3, <1>4, EmptyFacts

(* The first delivery of the batch is done with, and settled if the rest    *)
(* may still be applied.                                                   *)
LEMMA RestFacts ==
    ASSUME IInv, NEW c \in Consumers, pc[c] \in InHand, Rest(c), UNCHANGED mode, Grows,
           NEW h, h = Head(batch[c]).id, mode[c] = "running" => Settled(h)'
    PROVE  /\ LoopTypes' /\ \A q \in Consumers \ {c} : Same(q)
           /\ HandInv(c)' /\ BatchInOrder(c)'
<1> DEFINE s == batch[c]
           t == Tail(batch[c])
           l == IF Len(batch[c]) > 1 THEN "turn"
                ELSE IF mode[c] = "running" THEN "poll" ELSE "ended"
<1>1. /\ s \in Seq(Delivery) /\ s # <<>>
      /\ Len(s) \in Nat \ {0} /\ Head(s) = s[1]
      /\ t \in Seq(Delivery) /\ Len(t) = Len(s) - 1
      /\ \A i \in 1 .. Len(t) : t[i] = s[i + 1]
      /\ t # <<>> <=> Len(s) > 1
    BY BatchFacts, TailFacts DEF BatchOK, IInv
<1>2. BatchOK(l, t) /\ l \notin Handling
    BY <1>1 DEF BatchOK, Points, InHand, Handling
<1>3. pc' = [pc EXCEPT ![c] = l] /\ batch' = [batch EXCEPT ![c] = t]
    BY DEF Rest, Goto
<1> HIDE DEF l, s, t
<1>4. /\ LoopTypes' /\ \A q \in Consumers \ {c} : Same(q)
      /\ pc'[c] = l /\ batch'[c] = t
    BY <1>2, <1>3, LoopFacts DEF IInv
<1>5. HandInv(c)'
    <2>1. mode'[c] \notin {"exited", "crashed"}
        BY DEF IInv, HandInv, InHand, Handling
    <2> QED BY <1>2, <1>4, <2>1 DEF HandInv, Handling
<1>6. BatchInOrder(c)'
    <2> SUFFICES ASSUME NEW i \in 1 .. Len(t), mode[c] = "running", NEW m \in Messages,
                        SameGroup(m, t[i].id), m < t[i].id
                 PROVE  Settled(m)' \/ \E j \in 1 .. i - 1 : t[j].id = m
        BY <1>2, <1>4 DEF BatchInOrder, MayApply, SameGroup
    <2>1. i + 1 \in 1 .. Len(s) /\ t[i] = s[i + 1]
        BY <1>1
    <2>2. Settled(m) \/ \E j \in 1 .. i : s[j].id = m
        <3>1. MayApply(c, i + 1)
            BY DEF MayApply
        <3>2. \A x \in 1 .. Len(s) : MayApply(c, x) =>
                 \A n \in Messages :
                    (SameGroup(n, s[x].id) /\ n < s[x].id) =>
                        Settled(n) \/ \E j \in 1 .. x - 1 : s[j].id = n
            BY DEF IInv, BatchInOrder, s
        <3>3. Settled(m) \/ \E j \in 1 .. (i + 1) - 1 : s[j].id = m
            BY <2>1, <3>1, <3>2
        <3> QED BY <3>3
    <2>3. CASE Settled(m)
        BY <2>3 DEF Settled, Grows
    <2>4. CASE s[1].id = m
        BY <1>1, <2>4 DEF s
    <2>5. ASSUME NEW j \in 1 .. i, j # 1, s[j].id = m
          PROVE  \E x \in 1 .. i - 1 : t[x].id = m
        <3>1. j - 1 \in 1 .. i - 1 /\ j - 1 \in 1 .. Len(t) /\ t[j - 1] = s[j]
            BY <1>1, <2>5
        <3> QED BY <2>5, <3>1
    <2> QED BY <2>2, <2>3, <2>4, <2>5
<1> QED BY <1>4, <1>5, <1>6

-----------------------------------------------------------------------------
(* What a step does to the tables and queues. *)

LEMMA Unapplied ==
    ASSUME IInv, applied' = applied, retried \subseteq retried', dlq \subseteq dlq'
    PROVE  Grows /\ OvertakenOnlyAfterRetry'
<1>1. \A m : IsApplied(m)' <=> IsApplied(m)
    BY DEF IsApplied
<1>2. OvertakenOnlyAfterRetry'
    BY DEF IInv, OvertakenOnlyAfterRetry, SameGroup
<1> QED BY <1>1, <1>2 DEF Grows

LEMMA ApplyFacts ==
    ASSUME IInv, NEW c \in Consumers, pc[c] = "consume", NEW m, m = Head(batch[c]).id,
           ~ IsApplied(m), applied' = Append(applied, m),
           retried' = retried, dlq' = dlq
    PROVE  /\ applied' \in Seq(Messages) /\ IsApplied(m)' /\ Grows
           /\ \A n \in Messages : IsApplied(n)' => IsApplied(n) \/ n = m
           /\ OvertakenOnlyAfterRetry'
<1>1. /\ m \in Messages /\ Len(batch[c]) \in Nat \ {0} /\ m = batch[c][1].id
    BY BatchFacts DEF IInv, InHand, Handling
<1>2. applied \in Seq(Messages) /\ Len(applied) \in Nat
    BY DEF IInv, TypeOK
<1>3. applied' \in Seq(Messages) /\ Len(applied') = Len(applied) + 1
    BY <1>1, <1>2
<1>4. applied'[Len(applied) + 1] = m
    BY <1>1, <1>2
<1>5. \A i \in 1 .. Len(applied) : applied'[i] = applied[i]
    BY <1>1, <1>2
<1>6. \A n : IsApplied(n) => IsApplied(n)'
    BY <1>2, <1>3, <1>5 DEF IsApplied
<1>7. IsApplied(m)'
    BY <1>2, <1>3, <1>4 DEF IsApplied
<1>8. \A n \in Messages : IsApplied(n)' => IsApplied(n) \/ n = m
    <2> SUFFICES ASSUME NEW n \in Messages, NEW i \in 1 .. Len(applied'), applied'[i] = n
                 PROVE  IsApplied(n) \/ n = m
        BY DEF IsApplied
    <2>1. CASE i = Len(applied) + 1
        BY <1>4, <2>1
    <2>2. CASE i # Len(applied) + 1
        <3>1. i \in 1 .. Len(applied)
            BY <1>2, <1>3, <2>2
        <3> QED BY <1>5, <3>1 DEF IsApplied
    <2> QED BY <2>1, <2>2
<1>9. OvertakenOnlyAfterRetry'
    <2> SUFFICES ASSUME NEW i \in 1 .. Len(applied'), NEW n \in Messages,
                        SameGroup(n, applied'[i]), n < applied'[i]
                 PROVE  \/ \E j \in 1 .. i : applied'[j] = n
                        \/ n \in retried \/ n \in dlq
        BY DEF OvertakenOnlyAfterRetry, SameGroup
    <2>1. CASE i \in 1 .. Len(applied)
        <3>1. \/ \E j \in 1 .. i : applied[j] = n
              \/ n \in retried \/ n \in dlq
            BY <1>5, <2>1 DEF IInv, OvertakenOnlyAfterRetry
        <3>2. \A j \in 1 .. i : applied'[j] = applied[j]
            BY <1>2, <1>5, <2>1
        <3> QED BY <3>1, <3>2
    <2>2. CASE i = Len(applied) + 1
        <3>1. SameGroup(n, m) /\ n < m
            BY <1>4, <2>2
        <3>2. Settled(n) \/ \E j \in 1 .. 1 - 1 : batch[c][j].id = n
            <4>1. MayApply(c, 1)
                BY DEF MayApply, Handling
            <4>2. BatchInOrder(c)
                BY DEF IInv
            <4> QED BY <1>1, <3>1, <4>1, <4>2 DEF BatchInOrder
        <3>3. Settled(n)
            BY <3>2
        <3>4. IsApplied(n) => \E j \in 1 .. i : applied'[j] = n
            BY <1>2, <1>5, <2>2 DEF IsApplied
        <3> QED BY <3>3, <3>4 DEF Settled
    <2> QED BY <1>2, <1>3, <2>1, <2>2
<1> QED BY <1>3, <1>6, <1>7, <1>8, <1>9 DEF Grows

LEMMA LostFacts ==
    ASSUME IInv, Grows,
           \A m \in Messages : queue'[m] = "deleted" =>
               queue[m] = "deleted" \/ IsApplied(m)' \/ m \in dlq'
    PROVE  NothingIsLost'
BY DEF IInv, NothingIsLost, Grows

LEMMA ParkedFacts ==
    ASSUME IInv, receives' = receives,
           \A m \in Messages : m \in dlq' =>
               m \in dlq \/ m \in Poison \/ receives[m] = MaxReceive,
           \A m \in Messages : IsApplied(m)' => IsApplied(m) \/ m \notin Poison
    PROVE  OnlyPoisonIsDeadLetteredEarly'
BY DEF IInv, OnlyPoisonIsDeadLetteredEarly

(* What the queue and the tables hold is typed. *)
StoreTypes ==
    /\ queue \in [Messages -> {"ready", "hidden", "deleted"}]
    /\ receives \in [Messages -> 0 .. MaxReceive]
    /\ dlq \subseteq Messages
    /\ applied \in Seq(Messages)
    /\ retried \subseteq Messages

LEMMA TypeSplit == TypeOK <=> StoreTypes /\ LoopTypes
BY DEF TypeOK, StoreTypes, LoopTypes

LEMMA TypeSplitNext == TypeOK' <=> StoreTypes' /\ LoopTypes'
BY DEF TypeOK, StoreTypes, LoopTypes

-----------------------------------------------------------------------------
(* The queue. *)

LEMMA QueueStep ==
    ASSUME IInv, NEW m \in Messages, VisibilityEnds(m) \/ Redrive(m) PROVE IInv'
<1>1. /\ UNCHANGED <<receives, applied, retried, mode, pc, batch>>
      /\ \/ queue' = [queue EXCEPT ![m] = "ready"] /\ dlq' = dlq
         \/ /\ queue' = [queue EXCEPT ![m] = "deleted"] /\ dlq' = dlq \cup {m}
            /\ receives[m] = MaxReceive
    BY DEF VisibilityEnds, Redrive
<1>2. TypeOK'
    BY <1>1 DEF IInv, TypeOK
<1>3. Grows /\ OvertakenOnlyAfterRetry'
    BY <1>1, Unapplied
<1>4. NothingIsLost'
    BY <1>1, <1>3, LostFacts DEF IInv, TypeOK
<1>5. OnlyPoisonIsDeadLetteredEarly'
    BY <1>1, ParkedFacts DEF IsApplied
<1>6. \A q \in Consumers : HandInv(q)' /\ BatchInOrder(q)'
    BY <1>1, <1>3, OthersKeep DEF Same
<1> QED BY <1>2, <1>3, <1>4, <1>5, <1>6 DEF IInv

(* A batch holds the oldest messages of its groups, in order. *)
LEMMA ReceiveStep ==
    ASSUME IInv, NEW c \in Consumers, NEW s \in Batches, Receive(c, s) PROVE IInv'
<1> DEFINE b == [i \in 1 .. Len(s) |-> [id |-> s[i], receipt |-> receives[s[i]] + 1]]
<1>1. s \in Seq(Messages) /\ Len(s) \in Nat \ {0} /\ \A i \in 1 .. Len(s) : s[i] \in Messages
    BY BoundsAssumption DEF Batches
<1>2. \A i \in 1 .. Len(s) : receives[s[i]] \in 0 .. MaxReceive /\ receives[s[i]] < MaxReceive
    BY <1>1 DEF Receive, Deliverable, IInv, TypeOK
<1>3. b \in Seq(Delivery) /\ Len(b) = Len(s) /\ \A i \in 1 .. Len(s) : b[i].id = s[i]
    <2>1. ASSUME NEW i \in 1 .. Len(s)
          PROVE  [id |-> s[i], receipt |-> receives[s[i]] + 1] \in Delivery
        <3>1. receives[s[i]] + 1 \in 1 .. MaxReceive
            BY <1>2, BoundsAssumption
        <3> QED BY <1>1, <3>1 DEF Delivery
    <2>2. b \in [1 .. Len(s) -> Delivery]
        BY <2>1
    <2>3. b \in Seq(Delivery)
        BY <1>1, <2>2
    <2>4. Len(b) = Len(s)
        BY <1>1
    <2> QED BY <2>3, <2>4
<1>4. b # <<>>
    <2>1. \A t \in Seq(Delivery) : t = <<>> => Len(t) = 0
        OBVIOUS
    <2> HIDE DEF b
    <2> QED BY <1>1, <1>3, <2>1
<1>5. /\ pc' = [pc EXCEPT ![c] = "first"] /\ batch' = [batch EXCEPT ![c] = b]
      /\ mode' = mode
    BY DEF Receive, Goto
<1> HIDE DEF b
<1>6. /\ LoopTypes' /\ \A q \in Consumers \ {c} : Same(q)
      /\ pc'[c] = "first" /\ batch'[c] = b
    <2>1. BatchOK("first", b)
        BY <1>3, <1>4 DEF BatchOK, InHand, Points
    <2> QED BY <1>5, <2>1, LoopFacts DEF IInv
<1>7. /\ UNCHANGED <<dlq, applied, retried>>
      /\ \A m \in Messages :
            \/ queue'[m] = queue[m] /\ receives'[m] = receives[m]
            \/ /\ queue'[m] = "hidden" /\ receives'[m] = receives[m] + 1
               /\ receives[m] < MaxReceive
      /\ DOMAIN queue' = Messages /\ DOMAIN receives' = Messages
      /\ queue' \in [Messages -> {"ready", "hidden", "deleted"}]
    <2>1. \A m \in Messages : receives[m] + 0 = receives[m]
        BY DEF IInv, TypeOK
    <2> QED BY <2>1 DEF Receive, Deliverable, IInv, TypeOK
<1>8. StoreTypes'
    <2>1. receives' = [m \in Messages |-> receives'[m]]
        BY DEF Receive
    <2>2. ASSUME NEW m \in Messages PROVE receives'[m] \in 0 .. MaxReceive
        <3>1. receives[m] \in 0 .. MaxReceive /\ MaxReceive \in Nat
            BY BoundsAssumption DEF IInv, TypeOK
        <3>2. \/ receives'[m] = receives[m]
              \/ receives'[m] = receives[m] + 1 /\ receives[m] < MaxReceive
            BY <1>7
        <3> QED BY <3>1, <3>2
    <2>3. receives' \in [Messages -> 0 .. MaxReceive]
        BY <2>1, <2>2
    <2> QED BY <1>7, <2>3 DEF StoreTypes, IInv, TypeOK
<1>9. Grows /\ OvertakenOnlyAfterRetry'
    BY <1>7, Unapplied
<1>10. NothingIsLost'
    BY <1>7, <1>9, LostFacts
<1>11. OnlyPoisonIsDeadLetteredEarly'
    <2>1. \A m \in Messages : IsApplied(m)' <=> IsApplied(m)
        BY <1>7 DEF IsApplied
    <2>2. \A m \in Messages : receives[m] = MaxReceive => receives'[m] = MaxReceive
        BY <1>7, BoundsAssumption
    <2> QED BY <1>7, <2>1, <2>2 DEF IInv, OnlyPoisonIsDeadLetteredEarly
<1>12. HandInv(c)'
    BY <1>5, <1>6 DEF HandInv, IInv, Receive
<1>13. BatchInOrder(c)'
    <2> SUFFICES ASSUME NEW i \in 1 .. Len(b), NEW m \in Messages,
                        SameGroup(m, b[i].id), m < b[i].id
                 PROVE  Settled(m)' \/ \E j \in 1 .. i - 1 : b[j].id = m
        BY <1>6 DEF BatchInOrder, SameGroup
    <2>1. SameGroup(m, s[i]) /\ m < s[i] /\ i \in 1 .. Len(s)
        BY <1>3
    <2>2. queue[m] = "deleted" \/ \E j \in 1 .. i - 1 : s[j] = m
        BY <2>1 DEF Receive, Deliverable
    <2>3. CASE queue[m] = "deleted"
        <3>1. Settled(m)
            BY <2>3 DEF Settled, IInv, NothingIsLost
        <3> QED BY <1>9, <3>1 DEF Settled, Grows
    <2>4. ASSUME NEW j \in 1 .. i - 1, s[j] = m PROVE \E x \in 1 .. i - 1 : b[x].id = m
        <3>1. j \in 1 .. Len(s)
            BY <1>1, <2>1
        <3> QED BY <1>3, <2>4, <3>1
    <2> QED BY <2>2, <2>3, <2>4
<1> QED BY <1>6, <1>8, <1>9, <1>10, <1>11, <1>12, <1>13, StepOf, TypeSplitNext

-----------------------------------------------------------------------------
(* The loop. *)

(* A step that touches nothing but the loop, or the handling of a message. *)
LEMMA MoveStep ==
    ASSUME IInv, NEW c \in Consumers, pc[c] \in InHand,
           NEW l \in Handling, pc' = [pc EXCEPT ![c] = l],
           mode[c] = "running" \/ pc[c] \in Handling,
           UNCHANGED <<queue, receives, retried, mode, batch>>,
           applied' \in Seq(Messages), dlq' \subseteq Messages, Grows,
           OvertakenOnlyAfterRetry', OnlyPoisonIsDeadLetteredEarly',
           NEW h, h = Head(batch[c]).id,
           l = "ack" => IsApplied(h)' \/ h \in dlq',
           l = "deadLetter" => h \in Poison
    PROVE  IInv'
<1>1. BatchOK(l, batch[c]) /\ batch' = [batch EXCEPT ![c] = batch[c]]
    BY BatchFacts DEF BatchOK, InHand, Points, IInv, TypeOK
<1>2. /\ LoopTypes' /\ \A q \in Consumers \ {c} : Same(q)
      /\ pc'[c] = l /\ batch'[c] = batch[c]
    BY <1>1, LoopFacts DEF IInv
<1>3. TypeOK'
    BY <1>2, TypeSplitNext DEF StoreTypes, IInv, TypeOK
<1>4. NothingIsLost'
    BY LostFacts
<1>5. HandInv(c)'
    BY <1>2 DEF HandInv, IInv, InHand, Handling
<1>6. BatchInOrder(c)'
    BY <1>2, StillInOrder DEF MayApply
<1> QED BY <1>2, <1>3, <1>4, <1>5, <1>6, StepOf

LEMMA HandlingStep ==
    ASSUME IInv, NEW c \in Consumers,
           Consume(c) \/ ConsumePoison(c) \/ ConsumeFails(c) \/ DeadLetter(c)
    PROVE  IInv'
<1>0. PICK h : h = Head(batch[c]).id
    OBVIOUS
<1>1. /\ pc[c] \in Handling /\ pc[c] \in InHand
      /\ UNCHANGED <<queue, receives, retried, mode, batch>>
    BY DEF Consume, ConsumePoison, ConsumeFails, DeadLetter, Handling, InHand, broker
<1>2. h \in Messages /\ applied \in Seq(Messages) /\ dlq \subseteq Messages
    BY <1>0, <1>1, BatchFacts DEF IInv, TypeOK
<1>3. PICK l \in {"ack", "deadLetter", "retry"} : pc' = [pc EXCEPT ![c] = l]
    BY DEF Consume, ConsumePoison, ConsumeFails, DeadLetter, Goto
<1>4. l = pc'[c] /\ l \in Handling
    BY <1>3 DEF IInv, TypeOK, Handling
<1>5. \/ /\ applied' = applied /\ dlq' = dlq
         /\ l = "ack" => IsApplied(h)
         /\ l = "deadLetter" => h \in Poison
      \/ /\ pc[c] = "consume" /\ h \notin Poison /\ ~ IsApplied(h)
         /\ applied' = Append(applied, h) /\ dlq' = dlq /\ l # "deadLetter"
      \/ /\ pc[c] = "deadLetter" /\ applied' = applied /\ dlq' = dlq \cup {h} /\ l = "ack"
    BY <1>0, <1>3, <1>4
       DEF Consume, ConsumePoison, ConsumeFails, DeadLetter, Goto, broker, IInv, TypeOK
<1>6. CASE /\ applied' = applied /\ dlq' = dlq
           /\ l = "ack" => IsApplied(h)
           /\ l = "deadLetter" => h \in Poison
    <2>1. Grows /\ OvertakenOnlyAfterRetry'
        BY <1>1, <1>6, Unapplied
    <2>2. \A m \in Messages : IsApplied(m)' <=> IsApplied(m)
        BY <1>6 DEF IsApplied
    <2>3. OnlyPoisonIsDeadLetteredEarly'
        BY <1>1, <1>6, <2>2, ParkedFacts
    <2> QED BY <1>0, <1>1, <1>2, <1>3, <1>4, <1>6, <2>1, <2>2, <2>3, MoveStep
<1>7. CASE /\ pc[c] = "consume" /\ h \notin Poison /\ ~ IsApplied(h)
           /\ applied' = Append(applied, h) /\ dlq' = dlq /\ l # "deadLetter"
    <2>1. /\ applied' \in Seq(Messages) /\ IsApplied(h)' /\ Grows
          /\ \A n \in Messages : IsApplied(n)' => IsApplied(n) \/ n = h
          /\ OvertakenOnlyAfterRetry'
        <3>1. retried' = retried
            BY <1>1
        <3> QED BY <1>0, <1>7, <3>1, ApplyFacts
    <2>2. OnlyPoisonIsDeadLetteredEarly'
        BY <1>1, <1>7, <2>1, ParkedFacts
    <2> QED BY <1>0, <1>1, <1>2, <1>3, <1>4, <1>7, <2>1, <2>2, MoveStep
<1>8. CASE pc[c] = "deadLetter" /\ applied' = applied /\ dlq' = dlq \cup {h} /\ l = "ack"
    <2>1. Grows /\ OvertakenOnlyAfterRetry'
        BY <1>1, <1>8, Unapplied
    <2>2. h \in Poison
        BY <1>0, <1>8 DEF IInv, HandInv
    <2>3. \A m \in Messages : IsApplied(m)' <=> IsApplied(m)
        BY <1>8 DEF IsApplied
    <2>4. OnlyPoisonIsDeadLetteredEarly'
        BY <1>1, <1>8, <2>2, <2>3, ParkedFacts
    <2> QED BY <1>0, <1>1, <1>2, <1>3, <1>4, <1>8, <2>1, <2>4, MoveStep
<1> QED BY <1>5, <1>6, <1>7, <1>8

(* A step that ends the handling of a message, or that forgets the batch. *)
LEMMA EndStep ==
    ASSUME IInv, NEW c \in Consumers, UNCHANGED <<receives, applied, mode>>,
           StoreTypes', Grows, NothingIsLost', OnlyPoisonIsDeadLetteredEarly',
           pc[c] \in InHand,
           \/ AbandonBatch(c)
           \/ Rest(c) /\ \E h : h = Head(batch[c]).id /\ (mode[c] = "running" => Settled(h)')
    PROVE  IInv'
<1>1. /\ LoopTypes' /\ \A q \in Consumers \ {c} : Same(q)
      /\ HandInv(c)' /\ BatchInOrder(c)'
    BY AbandonFacts, RestFacts
<1>2. OvertakenOnlyAfterRetry'
    BY Unapplied DEF Grows
<1> QED BY <1>1, <1>2, StepOf, TypeSplitNext

LEMMA GiveBackStep == ASSUME IInv, NEW c \in Consumers, GiveBack(c) PROVE IInv'
<1>1. /\ pc[c] \in InHand /\ mode[c] # "running"
      /\ UNCHANGED <<receives, dlq, applied, retried, mode>>
      /\ AbandonBatch(c) \/ Rest(c)
      /\ queue' = queue \/ queue' = [queue EXCEPT ![Head(batch[c]).id] = "ready"]
    BY DEF GiveBack, InHand
<1>2. Head(batch[c]).id \in Messages
    BY <1>1, BatchFacts DEF IInv
<1>3. StoreTypes'
    BY <1>1 DEF StoreTypes, IInv, TypeOK
<1>4. Grows
    BY <1>1, Unapplied
<1>5. NothingIsLost' /\ OnlyPoisonIsDeadLetteredEarly'
    <2>1. \A m \in Messages : queue'[m] = "deleted" => queue[m] = "deleted"
        BY <1>1, <1>2 DEF IInv, TypeOK
    <2>2. \A m \in Messages : IsApplied(m)' <=> IsApplied(m)
        BY <1>1 DEF IsApplied
    <2> QED BY <1>1, <1>4, <2>1, <2>2, LostFacts, ParkedFacts
<1> QED BY <1>1, <1>3, <1>4, <1>5, EndStep

LEMMA TakeUpStep == ASSUME IInv, NEW c \in Consumers, TakeUp(c) PROVE IInv'
<1>1. /\ pc[c] \in InHand /\ mode[c] = "running"
      /\ UNCHANGED <<broker, applied, retried, mode>>
      /\ \/ AbandonBatch(c)
         \/ pc' = [pc EXCEPT ![c] = "consume"] /\ UNCHANGED batch
    BY DEF TakeUp, InHand, Goto
<1>2. Grows /\ OvertakenOnlyAfterRetry' /\ StoreTypes'
    BY <1>1, Unapplied DEF StoreTypes, IInv, TypeOK, broker
<1>3. NothingIsLost' /\ OnlyPoisonIsDeadLetteredEarly'
    BY <1>1, <1>2, LostFacts, ParkedFacts DEF broker, IsApplied
<1>4. CASE AbandonBatch(c)
    BY <1>1, <1>2, <1>3, <1>4, EndStep DEF broker
<1>5. CASE pc' = [pc EXCEPT ![c] = "consume"] /\ UNCHANGED batch
    <2>1. applied' \in Seq(Messages) /\ dlq' \subseteq Messages
        BY <1>2 DEF StoreTypes
    <2> QED BY <1>1, <1>2, <1>3, <1>5, <2>1, MoveStep DEF broker, Handling
<1> QED BY <1>1, <1>4, <1>5

LEMMA AckStep == ASSUME IInv, NEW c \in Consumers, Ack(c) PROVE IInv'
<1>0. PICK h : h = Head(batch[c]).id
    OBVIOUS
<1>1. /\ pc[c] = "ack" /\ pc[c] \in InHand
      /\ UNCHANGED <<receives, dlq, applied, retried, mode>>
      /\ \/ queue' = [queue EXCEPT ![h] = "deleted"] /\ Rest(c)
         \/ queue' = queue /\ AbandonBatch(c)
    BY <1>0 DEF Ack, InHand, Handling
<1>2. h \in Messages /\ (IsApplied(h) \/ h \in dlq)
    BY <1>0, <1>1, BatchFacts DEF IInv, HandInv
<1>3. StoreTypes'
    BY <1>1, <1>2 DEF StoreTypes, IInv, TypeOK
<1>4. Grows
    BY <1>1, Unapplied
<1>5. NothingIsLost' /\ OnlyPoisonIsDeadLetteredEarly'
    <2>1. \A m \in Messages : queue'[m] = "deleted" => queue[m] = "deleted" \/ m = h
        BY <1>1, <1>2 DEF IInv, TypeOK
    <2>2. \A m \in Messages : IsApplied(m)' <=> IsApplied(m)
        BY <1>1 DEF IsApplied
    <2> QED BY <1>1, <1>2, <1>4, <2>1, <2>2, LostFacts, ParkedFacts
<1>6. Settled(h)'
    BY <1>2, <1>4 DEF Settled, Grows
<1> QED BY <1>0, <1>1, <1>3, <1>4, <1>5, <1>6, EndStep

LEMMA ReturnForRetryStep == ASSUME IInv, NEW c \in Consumers, ReturnForRetry(c) PROVE IInv'
<1>0. PICK h : h = Head(batch[c]).id
    OBVIOUS
<1>1. /\ pc[c] \in InHand
      /\ UNCHANGED <<broker, applied, mode>>
      /\ \/ retried' = retried \cup {h} /\ Rest(c)
         \/ retried' = retried /\ AbandonBatch(c)
    BY <1>0 DEF ReturnForRetry, InHand, Handling
<1>2. h \in Messages
    BY <1>0, <1>1, BatchFacts DEF IInv
<1>3. StoreTypes'
    BY <1>1, <1>2 DEF StoreTypes, IInv, TypeOK, broker
<1>4. Grows
    BY <1>1, Unapplied DEF broker
<1>5. NothingIsLost' /\ OnlyPoisonIsDeadLetteredEarly'
    BY <1>1, <1>4, LostFacts, ParkedFacts DEF broker, IsApplied
<1>6. h \in retried' => Settled(h)'
    BY DEF Settled
<1> QED BY <1>0, <1>1, <1>3, <1>4, <1>5, <1>6, EndStep DEF broker

LEMMA CallThrowsStep == ASSUME IInv, NEW c \in Consumers, CallThrows(c) PROVE IInv'
<1>0. PICK h : h = Head(batch[c]).id
    OBVIOUS
<1>1. /\ pc[c] \in InHand /\ AbandonBatch(c)
      /\ UNCHANGED <<receives, applied, retried, mode>>
      /\ \/ UNCHANGED <<queue, dlq>>
         \/ queue' = [queue EXCEPT ![h] = "ready"] /\ UNCHANGED dlq
         \/ pc[c] = "ack" /\ queue' = [queue EXCEPT ![h] = "deleted"] /\ UNCHANGED dlq
         \/ pc[c] = "deadLetter" /\ dlq' = dlq \cup {h} /\ UNCHANGED queue
    BY <1>0 DEF CallThrows, InHand, Handling
<1>2. /\ h \in Messages
      /\ pc[c] = "ack" => IsApplied(h) \/ h \in dlq
      /\ pc[c] = "deadLetter" => h \in Poison
    BY <1>0, <1>1, BatchFacts DEF IInv, HandInv
<1>3. StoreTypes'
    BY <1>1, <1>2 DEF StoreTypes, IInv, TypeOK
<1>4. Grows
    BY <1>1, Unapplied
<1>5. NothingIsLost' /\ OnlyPoisonIsDeadLetteredEarly'
    <2>1. \A m \in Messages : queue'[m] = "deleted" =>
              queue[m] = "deleted" \/ IsApplied(m) \/ m \in dlq
        BY <1>1, <1>2 DEF IInv, TypeOK
    <2>2. \A m \in Messages : IsApplied(m)' <=> IsApplied(m)
        BY <1>1 DEF IsApplied
    <2>3. \A m \in Messages : m \in dlq' => m \in dlq \/ m \in Poison
        BY <1>1, <1>2
    <2> QED BY <1>1, <1>4, <2>1, <2>2, <2>3, LostFacts, ParkedFacts DEF Grows
<1> QED BY <1>0, <1>1, <1>3, <1>4, <1>5, EndStep

-----------------------------------------------------------------------------
(* The life of a consumer. *)

LEMMA LifeStep ==
    ASSUME IInv, NEW c \in Consumers, UNCHANGED <<receives, dlq, applied, retried>>,
           queue' \in [Messages -> {"ready", "hidden", "deleted"}],
           \A m \in Messages : queue'[m] = "deleted" => queue[m] = "deleted",
           LoopTypes', \A q \in Consumers \ {c} : Same(q),
           HandInv(c)', BatchInOrder(c)'
    PROVE  IInv'
<1>1. StoreTypes'
    BY DEF StoreTypes, IInv, TypeOK
<1>2. Grows /\ OvertakenOnlyAfterRetry'
    BY Unapplied
<1>3. NothingIsLost' /\ OnlyPoisonIsDeadLetteredEarly'
    BY <1>2, LostFacts, ParkedFacts DEF IsApplied
<1> QED BY <1>1, <1>2, <1>3, StepOf, TypeSplitNext

(* The loop ends, the process exits, dies or starts again: its batch is empty. *)
LEMMA EmptyStep ==
    ASSUME IInv, NEW c \in Consumers, UNCHANGED <<broker, applied, retried>>,
           NEW l \in {"ended", "off", "poll"}, pc' = [pc EXCEPT ![c] = l],
           batch' = [batch EXCEPT ![c] = <<>>],
           \/ mode' = mode /\ mode[c] \notin {"exited", "crashed"}
           \/ \E k \in {"running", "exited", "crashed"} :
                 mode' = [mode EXCEPT ![c] = k] /\ (k = "running" \/ l = "off")
    PROVE  IInv'
<1>1. BatchOK(l, <<>>) /\ l \notin InHand
    BY DEF BatchOK, InHand, Points, Handling
<1>2. /\ LoopTypes' /\ \A q \in Consumers \ {c} : Same(q)
      /\ pc'[c] = l /\ batch'[c] = <<>>
    BY <1>1, LoopFacts DEF IInv
<1>3. mode'[c] \in {"exited", "crashed"} => l = "off"
    BY DEF IInv, TypeOK
<1>4. HandInv(c)' /\ BatchInOrder(c)'
    BY <1>1, <1>2, <1>3, EmptyFacts
<1> QED BY <1>2, <1>4, LifeStep DEF IInv, TypeOK, broker

LEMMA LifeEnds ==
    ASSUME IInv, NEW c \in Consumers,
           ReceiveNothing(c) \/ Exit(c) \/ Crash(c) \/ Start(c)
    PROVE  IInv'
<1>1. CASE Exit(c) \/ Crash(c)
    BY <1>1, EmptyStep DEF Exit, Crash, Goto
<1>2. CASE ReceiveNothing(c) \/ Start(c)
    <2>1. pc[c] \in {"poll", "off"} /\ pc[c] \notin InHand
        BY <1>2 DEF ReceiveNothing, Start, InHand, Handling, IInv, HandInv
    <2>2. batch' = [batch EXCEPT ![c] = <<>>]
        BY <1>2, <2>1 DEF ReceiveNothing, Start, IInv, TypeOK, InHand
    <2>3. ReceiveNothing(c) => mode[c] \notin {"exited", "crashed"}
        BY DEF ReceiveNothing, IInv, HandInv
    <2> QED BY <1>2, <2>2, <2>3, EmptyStep DEF ReceiveNothing, Start, Goto
<1> QED BY <1>1, <1>2

(* A stop takes nothing up any more; what is in hand stays in hand. *)
LEMMA StopStep ==
    ASSUME IInv, NEW c \in Consumers, Shutdown(c) \/ ReleaseInFlight(c) PROVE IInv'
<1>1. PICK k \in {"stopping", "released"} : mode' = [mode EXCEPT ![c] = k]
    BY DEF Shutdown, ReleaseInFlight
<1>2. /\ UNCHANGED <<receives, dlq, applied, retried, pc, batch>>
      /\ queue' = queue \/ queue' = [queue EXCEPT ![Head(batch[c]).id] = "ready"]
    BY DEF Shutdown, ReleaseInFlight, broker
<1>3. /\ queue' \in [Messages -> {"ready", "hidden", "deleted"}]
      /\ \A m \in Messages : queue'[m] = "deleted" => queue[m] = "deleted"
    BY <1>2 DEF IInv, TypeOK
<1>4. LoopTypes' /\ mode'[c] = k /\ \A q \in Consumers \ {c} : Same(q)
    BY <1>1, <1>2 DEF LoopTypes, Same, IInv, TypeOK
<1>5. Grows
    BY <1>2, Unapplied
<1>6. BatchInOrder(c)'
    BY <1>2, <1>4, <1>5, StillInOrder DEF MayApply
<1>7. HandInv(c)'
    BY <1>2, <1>4 DEF HandInv, IInv, IsApplied
<1> QED BY <1>2, <1>3, <1>4, <1>6, <1>7, LifeStep

-----------------------------------------------------------------------------
LEMMA InitIInv == Init => IInv
<1> SUFFICES ASSUME Init PROVE IInv
    OBVIOUS
<1>1. Len(applied) = 0 /\ \A c \in Consumers : batch[c] = <<>> /\ Len(batch[c]) = 0
    BY DEF Init
<1>2. TypeOK
    BY BoundsAssumption DEF Init, TypeOK, Handling
<1>3. \A m : ~ IsApplied(m)
    BY <1>1 DEF IsApplied
<1>4. NothingIsLost /\ OvertakenOnlyAfterRetry /\ OnlyPoisonIsDeadLetteredEarly
    BY <1>1, <1>3 DEF Init, NothingIsLost, OvertakenOnlyAfterRetry,
                      OnlyPoisonIsDeadLetteredEarly
<1>5. \A c \in Consumers : HandInv(c) /\ BatchInOrder(c)
    BY <1>1 DEF Init, HandInv, BatchInOrder
<1> QED BY <1>2, <1>4, <1>5 DEF IInv

LEMMA NextIInv == IInv /\ [Next]_vars => IInv'
<1> SUFFICES ASSUME IInv, [Next]_vars PROVE IInv'
    OBVIOUS
<1>1. ASSUME NEW c \in Consumers, Loop(c) PROVE IInv'
    BY <1>1, LifeEnds, GiveBackStep, TakeUpStep, HandlingStep, AckStep, ReturnForRetryStep,
       CallThrowsStep DEF Loop
<1>2. ASSUME NEW c \in Consumers,
             \/ \E s \in Batches : Receive(c, s)
             \/ Shutdown(c) \/ ReleaseInFlight(c) \/ Exit(c) \/ Crash(c) \/ Start(c)
      PROVE  IInv'
    BY <1>2, ReceiveStep, LifeEnds, StopStep
<1>3. CASE UNCHANGED vars
    <2>1. UNCHANGED <<queue, receives, dlq, applied, retried, mode, pc, batch>>
        BY <1>3 DEF vars
    <2>2. Grows /\ OvertakenOnlyAfterRetry'
        BY <2>1, Unapplied
    <2>3. NothingIsLost' /\ OnlyPoisonIsDeadLetteredEarly'
        BY <2>1, <2>2, LostFacts, ParkedFacts DEF IsApplied
    <2>4. TypeOK'
        BY <2>1 DEF IInv, TypeOK
    <2>5. \A q \in Consumers : HandInv(q)' /\ BatchInOrder(q)'
        BY <2>1, <2>2, OthersKeep DEF Same
    <2> QED BY <2>2, <2>3, <2>4, <2>5 DEF IInv
<1> QED BY <1>1, <1>2, <1>3, QueueStep DEF Next

(* The invariant the other results rest on. *)
THEOREM Invariance == Spec => []IInv
BY InitIInv, NextIInv, PTL DEF Spec

(* Type correctness: a loop has a batch exactly while it is handling one,   *)
(* and no message is delivered more often than the redrive policy allows.  *)
THEOREM TypeCorrectness == Spec => []TypeOK
<1>1. IInv => TypeOK
    BY DEF IInv
<1> QED BY <1>1, Invariance, PTL

(* A message leaves the input queue only when it was applied or parked,     *)
(* whatever call to SQS fails and whichever consumer dies or is stopped.   *)
THEOREM NoMessageIsLost == Spec => []NothingIsLost
<1>1. IInv => NothingIsLost
    BY DEF IInv
<1> QED BY <1>1, Invariance, PTL

(* Only a message returned for a retry, or parked, is overtaken by another  *)
(* one of its wallet: stale handles and shared batches do not break order. *)
THEOREM OrderWithinAWallet == Spec => []OvertakenOnlyAfterRetry
<1>1. IInv => OvertakenOnlyAfterRetry
    BY DEF IInv
<1> QED BY <1>1, Invariance, PTL

(* A message that could still be applied is not parked, and a poisonous one *)
(* is not applied.                                                         *)
THEOREM DeadLettersAreDeserved == Spec => []OnlyPoisonIsDeadLetteredEarly
<1>1. IInv => OnlyPoisonIsDeadLetteredEarly
    BY DEF IInv
<1> QED BY <1>1, Invariance, PTL

=============================================================================

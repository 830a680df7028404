---------------------------- MODULE OutboxProofs ----------------------------
(***************************************************************************)
(* What the outbox guarantees for any number of publishers and events,     *)
(* whether or not two publishers share an INSTANCE_ID.                     *)
(***************************************************************************)
EXTENDS Outbox, TLAPS

(* The part of TypeOK that holds even when instances are shared: the count  *)
(* of attempts may then pass its limit.                                    *)
Types ==
    /\ row \in [Messages -> Row \cup {None}]
    /\ arrived \in Seq(Messages)
    /\ transit \subseteq Messages
    /\ pc \in [Publishers -> {"idle", "send", "mark", "failed"}]
    /\ claim \in [Publishers -> ClaimRead \cup {None}]
    /\ behind \in [Messages -> SUBSET Messages]

Settled(m) == row[m] # None /\ row[m].state # "pending"

(* A settled row carries no claim, so no publisher owns it any more. *)
SettledIsUnclaimed == \A m \in Messages : Settled(m) => row[m].claimedBy = None

(* A tick under way works on a committed event. *)
TickHasClaim ==
    \A p \in Publishers : pc[p] # "idle" => claim[p] # None /\ row[claim[p].id] # None

(* A tick marks an event published only after the broker accepted it. *)
MarksWhatArrived == \A p \in Publishers : pc[p] = "mark" => Has(claim[p].id)

(* What an event was behind when it was claimed was settled by then. *)
BehindIsSettled == \A m \in Messages : \A n \in behind[m] : Settled(n)

IInv ==
    /\ Types
    /\ SettledIsUnclaimed
    /\ TickHasClaim
    /\ MarksWhatArrived
    /\ PublishedHasArrived
    /\ BehindIsSettled
    /\ GroupsArriveInOrder

-----------------------------------------------------------------------------
(* An event that has arrived keeps its place, and the only new one, if any, *)
(* comes last: what the queue does with a first and with a second copy.    *)
LEMMA ArriveAppends ==
    ASSUME arrived \in Seq(Messages), NEW m \in Messages, Arrive(m)
    PROVE  /\ arrived' \in Seq(Messages)
           /\ Has(m)'
           /\ \A n \in Messages : Has(n) => Has(n)'
           /\ Len(arrived') \in {Len(arrived), Len(arrived) + 1}
           /\ \A i \in 1 .. Len(arrived) : arrived'[i] = arrived[i]
           /\ Len(arrived') = Len(arrived) + 1 =>
                 ~ Has(m) /\ arrived'[Len(arrived) + 1] = m
<1>1. CASE Has(m)
    BY <1>1 DEF Arrive, Has
<1>2. CASE ~ Has(m)
    <2>1. arrived' = Append(arrived, m)
        BY <1>2 DEF Arrive
    <2>2. /\ arrived' \in Seq(Messages)
          /\ Len(arrived') = Len(arrived) + 1
          /\ \A i \in 1 .. Len(arrived) : arrived'[i] = arrived[i]
          /\ arrived'[Len(arrived) + 1] = m
          /\ Len(arrived) \in Nat
        BY <2>1
    <2>3. Has(m)'
        BY <2>2 DEF Has
    <2>4. \A n \in Messages : Has(n) => Has(n)'
        BY <2>2 DEF Has
    <2> QED BY <1>2, <2>2, <2>3, <2>4
<1> QED BY <1>1, <1>2

(* Arriving in any order that the claims allow: if everything m was behind  *)
(* is settled, its arrival leaves every group in order.                    *)
LEMMA ArriveKeepsOrder ==
    ASSUME Types, NEW m \in Messages, Arrive(m), UNCHANGED <<row, behind>>,
           PublishedHasArrived, BehindIsSettled, GroupsArriveInOrder
    PROVE  PublishedHasArrived' /\ GroupsArriveInOrder'
<1>1. /\ arrived' \in Seq(Messages)
      /\ \A n \in Messages : Has(n) => Has(n)'
      /\ Len(arrived') \in {Len(arrived), Len(arrived) + 1}
      /\ \A i \in 1 .. Len(arrived) : arrived'[i] = arrived[i]
      /\ Len(arrived') = Len(arrived) + 1 =>
            ~ Has(m) /\ arrived'[Len(arrived) + 1] = m
      /\ Len(arrived) \in Nat
    BY ArriveAppends DEF Types
<1>2. PublishedHasArrived'
    BY <1>1 DEF PublishedHasArrived
<1>3. GroupsArriveInOrder'
    <2> SUFFICES ASSUME NEW i \in 1 .. Len(arrived'), NEW n \in behind[arrived'[i]]
                 PROVE  \/ \E j \in 1 .. i : arrived'[j] = n
                        \/ row[n].state = "abandoned"
        BY DEF GroupsArriveInOrder
    <2>1. CASE i \in 1 .. Len(arrived)
        <3>1. \/ \E j \in 1 .. i : arrived[j] = n
              \/ row[n].state = "abandoned"
            BY <1>1, <2>1 DEF GroupsArriveInOrder
        <3>2. \A j \in 1 .. i : arrived'[j] = arrived[j]
            BY <1>1, <2>1
        <3> QED BY <3>1, <3>2
    <2>2. CASE i = Len(arrived) + 1
        <3>1. arrived'[i] = m
            BY <1>1, <2>2
        <3>2. n \in Messages /\ Settled(n)
            BY <3>1 DEF BehindIsSettled, Types
        <3>3. row[n].state \in {"published", "abandoned"}
            BY <3>2 DEF Settled, Types, Row
        <3>4. CASE row[n].state = "published"
            <4>1. PICK j \in 1 .. Len(arrived) : arrived[j] = n
                BY <3>2, <3>4 DEF PublishedHasArrived, Has, Settled
            <4>2. j \in 1 .. i /\ arrived'[j] = n
                BY <1>1, <2>2, <4>1
            <4> QED BY <4>2
        <3> QED BY <3>3, <3>4
    <2> QED BY <1>1, <2>1, <2>2
<1> QED BY <1>2, <1>3

(* No step touches a settled row: a publisher that lost its lease, or that  *)
(* wakes up after its event was settled, writes nothing.                   *)
LEMMA SettleSparesTheSettled ==
    ASSUME Types, SettledIsUnclaimed, NEW p \in Publishers, NEW settled,
           Settle(p, settled), NEW m \in Messages, Settled(m), claim[p] # None
    PROVE  row'[m] = row[m]
<1>1. claim[p].id \in Messages
    BY DEF Types, ClaimRead
<1>2. CASE Owns(p) /\ claim[p].id = m
    BY <1>2, InstanceAssumption DEF Owns, SettledIsUnclaimed
<1>3. CASE ~ (Owns(p) /\ claim[p].id = m)
    BY <1>1, <1>3 DEF Settle, Types
<1> QED BY <1>2, <1>3

-----------------------------------------------------------------------------
LEMMA InitIInv == Init => IInv
<1> SUFFICES ASSUME Init PROVE IInv
    OBVIOUS
<1>1. Types
    BY DEF Init, Types
<1>2. SettledIsUnclaimed /\ PublishedHasArrived
    BY DEF Init, SettledIsUnclaimed, Settled, PublishedHasArrived
<1>3. TickHasClaim /\ MarksWhatArrived
    BY DEF Init, TickHasClaim, MarksWhatArrived
<1>4. BehindIsSettled /\ GroupsArriveInOrder
    BY DEF Init, BehindIsSettled, GroupsArriveInOrder
<1> QED BY <1>1, <1>2, <1>3, <1>4 DEF IInv

(* A step that only writes rows and claims: nothing settled is touched, what *)
(* it settles carries no claim and is published only if it has arrived, and *)
(* an event is claimed behind settled events only.                         *)
LEMMA RowStep ==
    ASSUME IInv, UNCHANGED arrived,
           row' \in [Messages -> Row \cup {None}],
           behind' \in [Messages -> SUBSET Messages],
           \A n \in Messages : Settled(n) => row'[n] = row[n],
           \A n \in Messages : Settled(n)' =>
               \/ Settled(n)
               \/ /\ row'[n].claimedBy = None
                  /\ row'[n].state = "published" => Has(n),
           \A n \in Messages :
               \/ behind'[n] = behind[n]
               \/ ~ Has(n) /\ \A k \in behind'[n] : Settled(k)
    PROVE  SettledIsUnclaimed' /\ PublishedHasArrived' /\ BehindIsSettled' /\ GroupsArriveInOrder'
<1>1. SettledIsUnclaimed'
    BY DEF IInv, SettledIsUnclaimed, Settled
<1>2. PublishedHasArrived'
    BY DEF IInv, PublishedHasArrived, Has, Settled
<1>3. BehindIsSettled'
    BY DEF IInv, BehindIsSettled, Settled, Types
<1>4. GroupsArriveInOrder'
    <2> SUFFICES ASSUME NEW i \in 1 .. Len(arrived), NEW n \in behind'[arrived[i]]
                 PROVE  \/ \E j \in 1 .. i : arrived[j] = n
                        \/ row'[n].state = "abandoned"
        BY DEF GroupsArriveInOrder
    <2>1. arrived[i] \in Messages /\ Has(arrived[i])
        BY DEF IInv, Types, Has
    <2>2. n \in behind[arrived[i]]
        BY <2>1
    <2>3. n \in Messages /\ Settled(n)
        BY <2>1, <2>2 DEF IInv, Types, BehindIsSettled
    <2> QED BY <2>2, <2>3 DEF IInv, GroupsArriveInOrder
<1> QED BY <1>1, <1>2, <1>3, <1>4

(* The three ends of a tick.  They write a settled or a rescheduled row, and *)
(* only one that arrived is marked published.                              *)
LEMMA SettleStep ==
    ASSUME IInv, NEW p \in Publishers, pc[p] # "idle", NEW settled \in Row,
           Settle(p, settled), settled.state = "published" => Has(claim[p].id)
    PROVE  IInv'
<1> DEFINE m == claim[p].id
           new == [settled EXCEPT !.claimedBy = None, !.expired = FALSE]
<1>1. m \in Messages /\ claim[p] # None /\ row[m] # None
    BY DEF IInv, Types, TickHasClaim, ClaimRead
<1>2. /\ new \in Row /\ new # None
      /\ new.claimedBy = None
      /\ new.state = settled.state
    <2>1. new \in Row /\ new.claimedBy = None /\ new.state = settled.state
        BY DEF Row
    <2> QED BY <2>1, NoneAssumption
<1>3. /\ row' = IF Owns(p) THEN [row EXCEPT ![m] = new] ELSE row
      /\ pc' = [pc EXCEPT ![p] = "idle"]
      /\ claim' = [claim EXCEPT ![p] = None]
      /\ UNCHANGED <<arrived, transit, behind>>
    BY DEF Settle
<1>4. new.state = "published" => Has(m)
    BY <1>2
<1>5. \A n \in Messages : Settled(n) => row'[n] = row[n]
    BY <1>1, SettleSparesTheSettled DEF IInv
<1> HIDE DEF m, new
<1>6. Types'
    BY <1>1, <1>2, <1>3 DEF IInv, Types
<1>7. \A n \in Messages : row'[n] = row[n] \/ (n = m /\ row'[n] = new)
    BY <1>1, <1>3 DEF IInv, Types
<1>8. TickHasClaim'
    <2> SUFFICES ASSUME NEW q \in Publishers, pc'[q] # "idle"
                 PROVE  claim'[q] # None /\ row'[claim'[q].id] # None
        BY DEF TickHasClaim
    <2>1. q # p /\ claim'[q] = claim[q] /\ pc'[q] = pc[q]
        BY <1>3 DEF IInv, Types
    <2>2. claim[q] # None /\ row[claim[q].id] # None /\ claim[q].id \in Messages
        BY <2>1 DEF IInv, TickHasClaim, Types, ClaimRead
    <2> QED BY <1>2, <1>7, <2>1, <2>2
<1>9. MarksWhatArrived'
    BY <1>3 DEF IInv, MarksWhatArrived, Has, Types
<1>10. \A n \in Messages : Settled(n)' =>
          \/ Settled(n)
          \/ row'[n].claimedBy = None /\ (row'[n].state = "published" => Has(n))
    BY <1>2, <1>4, <1>7 DEF Settled
<1>11. SettledIsUnclaimed' /\ PublishedHasArrived' /\ BehindIsSettled' /\ GroupsArriveInOrder'
    <2>1. /\ row' \in [Messages -> Row \cup {None}]
          /\ behind' \in [Messages -> SUBSET Messages]
          /\ UNCHANGED arrived
          /\ \A n \in Messages : behind'[n] = behind[n]
        BY <1>3, <1>6 DEF Types
    <2> QED BY <1>5, <1>10, <2>1, RowStep
<1> QED BY <1>6, <1>8, <1>9, <1>11 DEF IInv

-----------------------------------------------------------------------------
(* The other steps that write rows. *)

LEMMA EnqueueStep == ASSUME IInv, NEW m \in Messages, Enqueue(m) PROVE IInv'
<1>1. /\ Enqueued \in Row /\ Enqueued # None
      /\ Enqueued.state = "pending"
    <2>1. Enqueued \in Row /\ Enqueued.state = "pending"
        BY DEF Enqueued, Row
    <2> QED BY <2>1, NoneAssumption
<1>2. /\ row[m] = None
      /\ row' = [row EXCEPT ![m] = Enqueued]
      /\ UNCHANGED <<arrived, transit, pc, claim, behind>>
    BY DEF Enqueue
<1>3. Types'
    BY <1>1, <1>2 DEF IInv, Types
<1>4. \A n \in Messages : n # m => row'[n] = row[n]
    BY <1>2 DEF IInv, Types
<1>5. row'[m] = Enqueued
    BY <1>2 DEF IInv, Types
<1>6. TickHasClaim'
    <2> SUFFICES ASSUME NEW q \in Publishers, pc[q] # "idle"
                 PROVE  claim[q] # None /\ row'[claim[q].id] # None
        BY <1>2 DEF TickHasClaim
    <2>1. claim[q] # None /\ row[claim[q].id] # None /\ claim[q].id \in Messages
        BY DEF IInv, TickHasClaim, Types, ClaimRead
    <2> QED BY <1>1, <1>4, <1>5, <2>1
<1>7. MarksWhatArrived'
    BY <1>2 DEF IInv, MarksWhatArrived, Has
<1>8. SettledIsUnclaimed' /\ PublishedHasArrived' /\ BehindIsSettled' /\ GroupsArriveInOrder'
    <2>1. /\ row' \in [Messages -> Row \cup {None}]
          /\ behind' \in [Messages -> SUBSET Messages]
          /\ UNCHANGED arrived
          /\ \A n \in Messages : behind'[n] = behind[n]
        BY <1>2, <1>3 DEF Types
    <2>2. \A n \in Messages : Settled(n) => row'[n] = row[n]
        BY <1>2, <1>4 DEF Settled
    <2>3. \A n \in Messages : Settled(n)' => Settled(n)
        BY <1>1, <1>4, <1>5 DEF Settled
    <2> QED BY <2>1, <2>2, <2>3, RowStep
<1> QED BY <1>3, <1>6, <1>7, <1>8 DEF IInv

(* A lease that runs out and a retry that falls due write a pending row. *)
LEMMA TimeStep ==
    ASSUME IInv, NEW m \in Messages, LeaseRunsOut(m) \/ FallsDue(m)
    PROVE  IInv'
<1>1. /\ Pending(m)
      /\ \/ row' = [row EXCEPT ![m].expired = TRUE]
         \/ row' = [row EXCEPT ![m].due = TRUE]
      /\ UNCHANGED <<arrived, transit, pc, claim, behind>>
    BY DEF LeaseRunsOut, FallsDue
<1>2. row[m] \in Row /\ row[m].state = "pending"
    BY <1>1 DEF IInv, Types, Pending
<1>3. row'[m] \in Row /\ row'[m].state = "pending"
    <2>1. \/ row'[m] = [row[m] EXCEPT !.expired = TRUE]
          \/ row'[m] = [row[m] EXCEPT !.due = TRUE]
        BY <1>1 DEF IInv, Types
    <2>2. /\ [row[m] EXCEPT !.expired = TRUE] \in Row
          /\ [row[m] EXCEPT !.expired = TRUE].state = "pending"
        BY <1>2 DEF Row
    <2>3. /\ [row[m] EXCEPT !.due = TRUE] \in Row
          /\ [row[m] EXCEPT !.due = TRUE].state = "pending"
        BY <1>2 DEF Row
    <2> QED BY <2>1, <2>2, <2>3
<1>4. \A n \in Messages : n # m => row'[n] = row[n]
    BY <1>1 DEF IInv, Types
<1>5. row' \in [Messages -> Row \cup {None}]
    BY <1>1, <1>3, <1>4 DEF IInv, Types
<1>6. Types'
    BY <1>1, <1>5 DEF IInv, Types
<1>7. TickHasClaim'
    <2> SUFFICES ASSUME NEW q \in Publishers, pc[q] # "idle"
                 PROVE  claim[q] # None /\ row'[claim[q].id] # None
        BY <1>1 DEF TickHasClaim
    <2>1. claim[q] # None /\ row[claim[q].id] # None /\ claim[q].id \in Messages
        BY DEF IInv, TickHasClaim, Types, ClaimRead
    <2> QED BY <1>3, <1>4, <2>1, NoneAssumption
<1>8. MarksWhatArrived'
    BY <1>1 DEF IInv, MarksWhatArrived, Has
<1>9. SettledIsUnclaimed' /\ PublishedHasArrived' /\ BehindIsSettled' /\ GroupsArriveInOrder'
    <2>1. /\ behind' \in [Messages -> SUBSET Messages]
          /\ UNCHANGED arrived
          /\ \A n \in Messages : behind'[n] = behind[n]
        BY <1>1, <1>6 DEF Types
    <2>2. \A n \in Messages : Settled(n) => row'[n] = row[n]
        BY <1>2, <1>4 DEF Settled
    <2>3. \A n \in Messages : Settled(n)' => Settled(n)
        BY <1>3, <1>4 DEF Settled
    <2> QED BY <1>5, <2>1, <2>2, <2>3, RowStep
<1> QED BY <1>6, <1>7, <1>8, <1>9 DEF IInv

(* A claim is taken only behind settled events of the group.               *)
LEMMA ClaimStep ==
    ASSUME IInv, NEW p \in Publishers, NEW m \in Messages, Claim(p, m)
    PROVE  IInv'
<1> DEFINE read == [id |-> m, attempts |-> row[m].attempts]
<1>1. /\ pc[p] = "idle"
      /\ row' = [row EXCEPT ![m].claimedBy = InstanceOf[p], ![m].expired = FALSE]
      /\ claim' = [claim EXCEPT ![p] = read]
      /\ behind' = IF Has(m) THEN behind ELSE [behind EXCEPT ![m] = Older(m)]
      /\ pc' = [pc EXCEPT ![p] = "send"]
      /\ UNCHANGED <<arrived, transit>>
    BY DEF Claim
<1>2. /\ row[m] \in Row /\ row[m].state = "pending"
      /\ \A n \in Older(m) : n \in Messages /\ Settled(n)
    BY DEF Claim, Claimable, IInv, Types, Pending, Settled, Older, Committed
<1>3. row'[m] \in Row /\ row'[m].state = "pending"
    BY <1>1, <1>2 DEF IInv, Types, Row
<1>4. \A n \in Messages : n # m => row'[n] = row[n]
    BY <1>1 DEF IInv, Types
<1>5. read \in ClaimRead /\ read # None /\ read.id = m
    <2>1. read \in ClaimRead /\ read.id = m
        BY <1>2 DEF Row, ClaimRead
    <2> QED BY <2>1, NoneAssumption
<1> HIDE DEF read
<1>6. row' \in [Messages -> Row \cup {None}]
    BY <1>1, <1>3, <1>4 DEF IInv, Types
<1>7. behind' \in [Messages -> SUBSET Messages]
    BY <1>1, <1>2 DEF IInv, Types
<1>8. Types'
    BY <1>1, <1>5, <1>6, <1>7 DEF IInv, Types
<1>9. \A q \in Publishers : q # p => claim'[q] = claim[q] /\ pc'[q] = pc[q]
    BY <1>1 DEF IInv, Types
<1>10. claim'[p] = read /\ pc'[p] = "send"
    BY <1>1 DEF IInv, Types
<1>11. TickHasClaim'
    <2> SUFFICES ASSUME NEW q \in Publishers, pc'[q] # "idle"
                 PROVE  claim'[q] # None /\ row'[claim'[q].id] # None
        BY DEF TickHasClaim
    <2>1. CASE q = p
        BY <1>3, <1>5, <1>10, <2>1, NoneAssumption
    <2>2. CASE q # p
        <3>1. claim[q] # None /\ row[claim[q].id] # None /\ claim[q].id \in Messages
            BY <1>9, <2>2 DEF IInv, TickHasClaim, Types, ClaimRead
        <3> QED BY <1>3, <1>4, <1>9, <2>2, <3>1, NoneAssumption
    <2> QED BY <2>1, <2>2
<1>12. MarksWhatArrived'
    BY <1>1, <1>9, <1>10 DEF IInv, MarksWhatArrived, Has
<1>13. SettledIsUnclaimed' /\ PublishedHasArrived' /\ BehindIsSettled' /\ GroupsArriveInOrder'
    <2>1. \A n \in Messages : Settled(n) => row'[n] = row[n]
        BY <1>2, <1>4 DEF Settled
    <2>2. \A n \in Messages : Settled(n)' => Settled(n)
        BY <1>3, <1>4 DEF Settled
    <2>3. \A n \in Messages :
              \/ behind'[n] = behind[n]
              \/ ~ Has(n) /\ \A k \in behind'[n] : Settled(k)
        BY <1>1, <1>2 DEF IInv, Types
    <2> QED BY <1>1, <1>6, <1>7, <2>1, <2>2, <2>3, RowStep
<1> QED BY <1>8, <1>11, <1>12, <1>13 DEF IInv

-----------------------------------------------------------------------------
(* The steps that leave the rows alone. *)

LEMMA ArriveStep ==
    ASSUME IInv, NEW m \in Messages, Arrive(m), UNCHANGED <<row, claim, behind>>,
           transit' \subseteq Messages,
           \/ UNCHANGED pc
           \/ \E p \in Publishers : /\ pc[p] = "send" /\ claim[p].id = m
                                    /\ pc' = [pc EXCEPT ![p] = "mark"]
    PROVE  IInv'
<1>1. /\ arrived' \in Seq(Messages)
      /\ Has(m)'
      /\ \A n \in Messages : Has(n) => Has(n)'
    BY ArriveAppends DEF IInv, Types
<1>2. Types'
    BY <1>1 DEF IInv, Types
<1>3. \A q \in Publishers :
          \/ pc'[q] = pc[q]
          \/ pc[q] = "send" /\ claim[q].id = m
    BY DEF IInv, Types
<1>4. TickHasClaim'
    BY <1>3 DEF IInv, TickHasClaim
<1>5. MarksWhatArrived'
    <2> SUFFICES ASSUME NEW q \in Publishers, pc'[q] = "mark" PROVE Has(claim[q].id)'
        BY DEF MarksWhatArrived
    <2>1. CASE pc[q] = "mark"
        <3>1. claim[q].id \in Messages /\ Has(claim[q].id)
            BY <2>1 DEF IInv, Types, TickHasClaim, ClaimRead, MarksWhatArrived
        <3> QED BY <1>1, <3>1
    <2>2. CASE pc[q] # "mark"
        BY <1>1, <1>3, <2>2
    <2> QED BY <2>1, <2>2
<1>6. SettledIsUnclaimed' /\ BehindIsSettled'
    BY DEF IInv, SettledIsUnclaimed, BehindIsSettled, Settled
<1>7. PublishedHasArrived' /\ GroupsArriveInOrder'
    BY ArriveKeepsOrder DEF IInv
<1> QED BY <1>2, <1>4, <1>5, <1>6, <1>7 DEF IInv

(* A send that fails and a crash only move a tick and what is in transit.   *)
LEMMA TickStep ==
    ASSUME IInv, NEW p \in Publishers, pc[p] # "idle", UNCHANGED <<row, arrived, behind>>,
           transit' \in {transit, transit \cup {claim[p].id}},
           \/ pc' = [pc EXCEPT ![p] = "failed"] /\ UNCHANGED claim
           \/ /\ pc' = [pc EXCEPT ![p] = "idle"]
              /\ claim' = [claim EXCEPT ![p] = None]
    PROVE  IInv'
<1>1. claim[p] # None /\ claim[p].id \in Messages
    BY DEF IInv, Types, TickHasClaim, ClaimRead
<1>2. Types'
    BY <1>1 DEF IInv, Types
<1>3. \A q \in Publishers :
          \/ pc'[q] = pc[q] /\ claim'[q] = claim[q]
          \/ pc[q] # "idle" /\ pc'[q] = "failed" /\ claim'[q] = claim[q]
          \/ pc'[q] = "idle"
    BY DEF IInv, Types
<1>4. TickHasClaim' /\ MarksWhatArrived'
    BY <1>3 DEF IInv, TickHasClaim, MarksWhatArrived, Has
<1>5. SettledIsUnclaimed' /\ PublishedHasArrived' /\ BehindIsSettled' /\ GroupsArriveInOrder'
    BY DEF IInv, SettledIsUnclaimed, PublishedHasArrived, BehindIsSettled,
           GroupsArriveInOrder, Settled, Has
<1> QED BY <1>2, <1>4, <1>5 DEF IInv

-----------------------------------------------------------------------------
LEMMA NextIInv == IInv /\ [Next]_vars => IInv'
<1> SUFFICES ASSUME IInv, [Next]_vars PROVE IInv'
    OBVIOUS
<1>1. ASSUME NEW m \in Messages, Enqueue(m) PROVE IInv'
    BY <1>1, EnqueueStep
<1>2. ASSUME NEW m \in Messages, ArriveLate(m) PROVE IInv'
    BY <1>2, ArriveStep DEF ArriveLate, IInv, Types
<1>3. ASSUME NEW m \in Messages, LeaseRunsOut(m) \/ FallsDue(m) PROVE IInv'
    BY <1>3, TimeStep
<1>4. ASSUME NEW p \in Publishers, NEW m \in Messages, Claim(p, m) PROVE IInv'
    BY <1>4, ClaimStep
<1>5. ASSUME NEW p \in Publishers, SendAccepted(p) PROVE IInv'
    <2>1. claim[p].id \in Messages
        BY <1>5 DEF SendAccepted, IInv, Types, TickHasClaim, ClaimRead
    <2> QED BY <1>5, <2>1, ArriveStep DEF SendAccepted, IInv, Types
<1>6. ASSUME NEW p \in Publishers, SendFails(p) PROVE IInv'
    BY <1>6, TickStep DEF SendFails
<1>7. ASSUME NEW p \in Publishers, Crash(p) PROVE IInv'
    BY <1>7, TickStep DEF Crash
<1>8. ASSUME NEW p \in Publishers, MarkPublished(p) \/ Abandon(p) \/ Reschedule(p)
      PROVE  IInv'
    <2>1. /\ pc[p] # "idle"
          /\ row[claim[p].id] \in Row
        BY <1>8 DEF MarkPublished, Abandon, Reschedule, IInv, Types, TickHasClaim, ClaimRead
    <2>2. CASE MarkPublished(p)
        <3>1. [row[claim[p].id] EXCEPT !.state = "published"] \in Row
            BY <2>1 DEF Row
        <3>2. Has(claim[p].id)
            BY <2>2 DEF MarkPublished, IInv, MarksWhatArrived
        <3> QED BY <2>1, <2>2, <3>1, <3>2, SettleStep DEF MarkPublished
    <2>3. CASE Abandon(p)
        <3>1. /\ [row[claim[p].id] EXCEPT !.state = "abandoned"] \in Row
              /\ [row[claim[p].id] EXCEPT !.state = "abandoned"].state # "published"
            BY <2>1 DEF Row
        <3> QED BY <2>1, <2>3, <3>1, SettleStep DEF Abandon
    <2>4. CASE Reschedule(p)
        <3> DEFINE again == [row[claim[p].id] EXCEPT !.attempts = @ + 1, !.due = FALSE]
        <3>1. again \in Row /\ again.state = row[claim[p].id].state
            <4>1. row[claim[p].id].attempts + 1 \in Nat
                BY <2>1 DEF Row
            <4>2. ASSUME NEW r \in Row, NEW k \in Nat
                  PROVE  /\ [r EXCEPT !.attempts = k, !.due = FALSE] \in Row
                         /\ [r EXCEPT !.attempts = k, !.due = FALSE].state = r.state
                BY DEF Row
            <4> QED BY <2>1, <4>1, <4>2
        <3>2. again.state = "published" => Has(claim[p].id)
            BY <2>1, <2>4, <3>1, NoneAssumption
            DEF Reschedule, IInv, PublishedHasArrived, Types, TickHasClaim, ClaimRead
        <3> QED BY <2>1, <2>4, <3>1, <3>2, SettleStep DEF Reschedule
    <2> QED BY <1>8, <2>2, <2>3, <2>4
<1>9. CASE UNCHANGED vars
    BY <1>9 DEF vars, IInv, Types, SettledIsUnclaimed, TickHasClaim, MarksWhatArrived,
                PublishedHasArrived, BehindIsSettled, GroupsArriveInOrder, Settled, Has
<1> QED BY <1>1, <1>2, <1>3, <1>4, <1>5, <1>6, <1>7, <1>8, <1>9 DEF Next, Tick

(* The invariant the other results rest on. *)
THEOREM Invariance == Spec => []IInv
BY InitIInv, NextIInv, PTL DEF Spec

(* No event is lost on its way: one that a publisher has marked published   *)
(* is at the broker, even when leases are lost and instances are shared.   *)
THEOREM NoEventIsLost == Spec => []PublishedHasArrived
BY Invariance, PTL DEF IInv

(* An event overtakes an older one of its aggregate only if the older one   *)
(* was committed after the claim or has been parked, for every number of   *)
(* publishers: the claim query alone keeps the order.                      *)
THEOREM AggregatesArriveInOrder == Spec => []GroupsArriveInOrder
BY Invariance, PTL DEF IInv

LEMMA SettledRowsStay ==
    ASSUME IInv, [Next]_vars, NEW m \in Messages, Settled(m)
    PROVE  row'[m] = row[m]
<1>1. ASSUME NEW n \in Messages, \/ Enqueue(n) \/ LeaseRunsOut(n) \/ FallsDue(n)
                                \/ \E p \in Publishers : Claim(p, n)
      PROVE  row'[m] = row[m]
    <2>1. n # m
        BY <1>1 DEF Enqueue, LeaseRunsOut, FallsDue, Claim, Claimable, Settled, Pending
    <2>2. CASE Enqueue(n)
        BY <2>1, <2>2 DEF Enqueue, IInv, Types
    <2>3. CASE LeaseRunsOut(n)
        BY <2>1, <2>3 DEF LeaseRunsOut, IInv, Types
    <2>4. CASE FallsDue(n)
        BY <2>1, <2>4 DEF FallsDue, IInv, Types
    <2>5. CASE \E p \in Publishers : Claim(p, n)
        BY <2>1, <2>5 DEF Claim, IInv, Types
    <2> QED BY <1>1, <2>2, <2>3, <2>4, <2>5
<1>2. ASSUME NEW p \in Publishers, MarkPublished(p) \/ Abandon(p) \/ Reschedule(p)
      PROVE  row'[m] = row[m]
    <2>1. claim[p] # None
        BY <1>2 DEF MarkPublished, Abandon, Reschedule, IInv, TickHasClaim
    <2>2. CASE MarkPublished(p)
        BY <2>1, <2>2, SettleSparesTheSettled DEF MarkPublished, IInv
    <2>3. CASE Abandon(p)
        BY <2>1, <2>3, SettleSparesTheSettled DEF Abandon, IInv
    <2>4. CASE Reschedule(p)
        BY <2>1, <2>4, SettleSparesTheSettled DEF Reschedule, IInv
    <2> QED BY <1>2, <2>2, <2>3, <2>4
<1>3. ASSUME \/ \E n \in Messages : ArriveLate(n)
             \/ \E p \in Publishers : SendAccepted(p) \/ SendFails(p) \/ Crash(p)
             \/ UNCHANGED vars
      PROVE  row'[m] = row[m]
    BY <1>3 DEF ArriveLate, SendAccepted, SendFails, Crash, vars
<1> QED BY <1>1, <1>2, <1>3 DEF Next, Tick

(* An event is settled once: a publisher that comes back after its lease    *)
(* was taken changes nothing that another one settled.                     *)
THEOREM SettledIsFinal == Spec => SettledForGood
<1>1. IInv /\ [Next]_vars =>
          [\A m \in Messages : (row[m] # None /\ row[m].state # "pending") => row'[m] = row[m]]_row
    BY SettledRowsStay DEF Settled
<1> QED BY <1>1, Invariance, PTL DEF Spec, SettledForGood

-----------------------------------------------------------------------------
(* Publishers that do not share an INSTANCE_ID, as the deployment intends. *)
OwnInstances == \A p, q \in Publishers : InstanceOf[p] = InstanceOf[q] => p = q

RowsWithinLimit == \A m \in Messages : row[m] # None => row[m].attempts < MaxAttempts

(* A publisher that still owns its claim has read the current count. *)
ClaimsAreFresh ==
    \A p \in Publishers :
        (pc[p] # "idle" /\ Owns(p)) => claim[p].attempts = row[claim[p].id].attempts

AttemptsInv == RowsWithinLimit /\ ClaimsAreFresh

LEMMA SettleAttempts ==
    ASSUME OwnInstances, IInv, IInv', AttemptsInv, NEW p \in Publishers, pc[p] # "idle",
           NEW settled, settled.attempts \in Nat, Owns(p) => settled.attempts < MaxAttempts,
           settled \in Row, Settle(p, settled)
    PROVE  AttemptsInv'
<1> DEFINE m == claim[p].id
           new == [settled EXCEPT !.claimedBy = None, !.expired = FALSE]
<1>1. m \in Messages /\ claim[p] # None /\ row[m] # None
    BY DEF IInv, Types, TickHasClaim, ClaimRead
<1>2. new.claimedBy = None /\ new.attempts = settled.attempts
    BY DEF Row
<1>3. /\ row' = IF Owns(p) THEN [row EXCEPT ![m] = new] ELSE row
      /\ pc' = [pc EXCEPT ![p] = "idle"]
      /\ claim' = [claim EXCEPT ![p] = None]
    BY DEF Settle
<1> HIDE DEF m, new
<1>4. \A n \in Messages : row'[n] = row[n] \/ (n = m /\ row'[n] = new /\ Owns(p))
    BY <1>1, <1>3 DEF IInv, Types
<1>5. RowsWithinLimit'
    BY <1>2, <1>4 DEF AttemptsInv, RowsWithinLimit, m
<1>6. ClaimsAreFresh'
    <2> SUFFICES ASSUME NEW q \in Publishers, pc'[q] # "idle", Owns(q)'
                 PROVE  claim'[q].attempts = row'[claim'[q].id].attempts
        BY DEF ClaimsAreFresh
    <2>1. q # p /\ claim'[q] = claim[q] /\ pc'[q] = pc[q]
        BY <1>3 DEF IInv, Types
    <2>2. claim[q].id \in Messages
        BY <2>1 DEF IInv, TickHasClaim, Types, ClaimRead
    <2>3. row'[claim[q].id].claimedBy # None
        BY <2>1, InstanceAssumption DEF Owns
    <2>4. row'[claim[q].id] = row[claim[q].id]
        BY <1>2, <1>4, <2>2, <2>3
    <2> QED BY <2>1, <2>4 DEF AttemptsInv, ClaimsAreFresh, Owns
<1> QED BY <1>5, <1>6 DEF AttemptsInv

LEMMA NextAttempts ==
    ASSUME OwnInstances, IInv, IInv', AttemptsInv, [Next]_vars
    PROVE  AttemptsInv'
<1>1. ASSUME NEW m \in Messages, Enqueue(m) PROVE AttemptsInv'
    <2>1. /\ row[m] = None /\ row'[m] = Enqueued /\ Enqueued.attempts = 0
          /\ \A n \in Messages : n # m => row'[n] = row[n]
          /\ UNCHANGED <<pc, claim>>
        BY <1>1 DEF Enqueue, Enqueued, IInv, Types
    <2>2. \A p \in Publishers : pc[p] # "idle" => claim[p].id \in Messages \ {m}
        BY <2>1 DEF IInv, TickHasClaim, Types, ClaimRead
    <2> QED BY <2>1, <2>2, AttemptsAssumption
            DEF AttemptsInv, RowsWithinLimit, ClaimsAreFresh, Owns
<1>2. ASSUME NEW m \in Messages, LeaseRunsOut(m) \/ FallsDue(m) PROVE AttemptsInv'
    <2>1. /\ row[m] # None
          /\ row'[m].attempts = row[m].attempts
          /\ row'[m].claimedBy = row[m].claimedBy
          /\ \A n \in Messages : n # m => row'[n] = row[n]
          /\ UNCHANGED <<pc, claim>>
        BY <1>2 DEF LeaseRunsOut, FallsDue, Pending, IInv, Types, Row
    <2>2. \A p \in Publishers : pc[p] # "idle" => claim[p].id \in Messages
        BY DEF IInv, TickHasClaim, Types, ClaimRead
    <2> QED BY <2>1, <2>2 DEF AttemptsInv, RowsWithinLimit, ClaimsAreFresh, Owns
<1>3. ASSUME NEW p \in Publishers, NEW m \in Messages, Claim(p, m) PROVE AttemptsInv'
    <2>1. /\ row[m] # None
          /\ row'[m].attempts = row[m].attempts
          /\ row'[m].claimedBy = InstanceOf[p]
          /\ \A n \in Messages : n # m => row'[n] = row[n]
        BY <1>3 DEF Claim, Claimable, Pending, IInv, Types, Row
    <2>2. /\ claim'[p].id = m /\ claim'[p].attempts = row[m].attempts
          /\ \A q \in Publishers : q # p => pc'[q] = pc[q] /\ claim'[q] = claim[q]
        BY <1>3 DEF Claim, IInv, Types
    <2>3. RowsWithinLimit'
        BY <2>1 DEF AttemptsInv, RowsWithinLimit
    <2>4. ClaimsAreFresh'
        <3> SUFFICES ASSUME NEW q \in Publishers, pc'[q] # "idle", Owns(q)'
                     PROVE  claim'[q].attempts = row'[claim'[q].id].attempts
            BY DEF ClaimsAreFresh
        <3>1. CASE q = p
            BY <2>1, <2>2, <3>1
        <3>2. CASE q # p
            <4>1. claim[q].id \in Messages
                BY <2>2, <3>2 DEF IInv, TickHasClaim, Types, ClaimRead
            <4>2. claim[q].id # m
                BY <2>1, <2>2, <3>2 DEF Owns, OwnInstances
            <4> QED BY <2>1, <2>2, <3>2, <4>1, <4>2 DEF AttemptsInv, ClaimsAreFresh, Owns
        <3> QED BY <3>1, <3>2
    <2> QED BY <2>3, <2>4 DEF AttemptsInv
<1>4. ASSUME NEW p \in Publishers, MarkPublished(p) \/ Abandon(p) \/ Reschedule(p)
      PROVE  AttemptsInv'
    <2> DEFINE r == row[claim[p].id]
    <2>1. /\ pc[p] # "idle" /\ claim[p] # None /\ claim[p].id \in Messages
          /\ r # None /\ r \in Row
        BY <1>4 DEF MarkPublished, Abandon, Reschedule, IInv, Types, TickHasClaim, ClaimRead
    <2>2. r.attempts \in Nat /\ r.attempts < MaxAttempts
        BY <2>1 DEF Row, AttemptsInv, RowsWithinLimit
    <2>3. Owns(p) => claim[p].attempts = r.attempts
        BY <2>1 DEF AttemptsInv, ClaimsAreFresh
    <2>4. CASE MarkPublished(p)
        <3>1. /\ [r EXCEPT !.state = "published"] \in Row
              /\ [r EXCEPT !.state = "published"].attempts = r.attempts
            BY <2>1 DEF Row
        <3> QED BY <2>1, <2>2, <2>4, <3>1, SettleAttempts DEF MarkPublished
    <2>5. CASE Abandon(p)
        <3>1. /\ [r EXCEPT !.state = "abandoned"] \in Row
              /\ [r EXCEPT !.state = "abandoned"].attempts = r.attempts
            BY <2>1 DEF Row
        <3> QED BY <2>1, <2>2, <2>5, <3>1, SettleAttempts DEF Abandon
    <2>6. CASE Reschedule(p)
        <3> DEFINE again == [r EXCEPT !.attempts = @ + 1, !.due = FALSE]
        <3>1. again \in Row /\ again.attempts = r.attempts + 1
            <4>1. ASSUME NEW s \in Row, NEW k \in Nat
                  PROVE  /\ [s EXCEPT !.attempts = k, !.due = FALSE] \in Row
                         /\ [s EXCEPT !.attempts = k, !.due = FALSE].attempts = k
                BY DEF Row
            <4>2. r.attempts + 1 \in Nat
                BY <2>2
            <4> HIDE DEF r
            <4> QED BY <2>1, <4>1, <4>2
        <3>2. Owns(p) => again.attempts < MaxAttempts
            BY <2>3, <2>6, <3>1 DEF Reschedule
        <3>3. again.attempts \in Nat /\ Settle(p, again)
            BY <2>2, <2>6, <3>1 DEF Reschedule
        <3> HIDE DEF again
        <3> QED BY <2>1, <3>1, <3>2, <3>3, SettleAttempts
    <2> QED BY <1>4, <2>4, <2>5, <2>6
<1>5. ASSUME NEW p \in Publishers, SendAccepted(p) \/ SendFails(p) \/ Crash(p)
      PROVE  AttemptsInv'
    <2>1. \A q \in Publishers :
              pc'[q] # "idle" => pc[q] # "idle" /\ claim'[q] = claim[q]
        BY <1>5 DEF SendAccepted, SendFails, Crash, IInv, Types
    <2> QED BY <1>5, <2>1 DEF SendAccepted, SendFails, Crash,
                              AttemptsInv, RowsWithinLimit, ClaimsAreFresh, Owns
<1>6. ASSUME UNCHANGED vars \/ \E m \in Messages : ArriveLate(m) PROVE AttemptsInv'
    BY <1>6 DEF vars, ArriveLate, AttemptsInv, RowsWithinLimit, ClaimsAreFresh, Owns
<1> QED BY <1>1, <1>2, <1>3, <1>4, <1>5, <1>6 DEF Next, Tick

(* Type correctness, with the limit on the attempts.  It needs instances of *)
(* their own: a publisher that shares an INSTANCE_ID may count a failure   *)
(* against a row that another one has rescheduled in the meantime.         *)
THEOREM TypeCorrectness == ASSUME OwnInstances PROVE Spec => []TypeOK
<1>1. Init => AttemptsInv
    BY DEF Init, AttemptsInv, RowsWithinLimit, ClaimsAreFresh
<1>2. IInv /\ IInv' /\ AttemptsInv /\ [Next]_vars => AttemptsInv'
    BY NextAttempts
<1>3. IInv /\ AttemptsInv => TypeOK
    BY DEF IInv, Types, SettledIsUnclaimed, Settled, AttemptsInv, RowsWithinLimit, TypeOK, Committed
<1> QED BY <1>1, <1>2, <1>3, Invariance, PTL DEF Spec
=============================================================================

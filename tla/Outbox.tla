------------------------------- MODULE Outbox -------------------------------
(***************************************************************************)
(* The outbox publishers: how the events that transactions have committed  *)
(* reach the broker.  A tick claims the oldest eligible event of a group   *)
(* in one transaction, sends it outside any transaction, and settles the   *)
(* row in another one, conditioned on the claim still being its own.       *)
(*                                                                         *)
(* Time is left out: a lease may run out and a retry may fall due whenever *)
(* they can, however long the publisher that holds the claim is paused.    *)
(* An event is a number, its rank in the order (occurred_at, id).  The     *)
(* instant of an event is sampled before its transaction waits for the     *)
(* wallet lock, so events may be committed in any order.                   *)
(***************************************************************************)
EXTENDS Naturals, Sequences

CONSTANTS
    Publishers,   \* the publishing processes
    InstanceOf,   \* publisher -> its INSTANCE_ID, the token of its claims
    Messages,     \* the events, as their rank by (occurred_at, id)
    GroupOf,      \* event -> its aggregate id, the FIFO group
    MaxAttempts,  \* attempts after which an event is parked
    None

ASSUME MessagesAssumption == Messages \subseteq Nat
ASSUME GroupAssumption == DOMAIN GroupOf = Messages
ASSUME InstanceAssumption ==
    DOMAIN InstanceOf = Publishers /\ \A p \in Publishers : InstanceOf[p] # None
ASSUME AttemptsAssumption == MaxAttempts \in Nat \ {0}

Row ==
    [state : {"pending", "published", "abandoned"}, attempts : Nat, due : BOOLEAN,
     claimedBy : {InstanceOf[p] : p \in Publishers} \cup {None}, expired : BOOLEAN]
ClaimRead == [id : Messages, attempts : Nat]

ASSUME NoneAssumption == None \notin Row /\ None \notin ClaimRead

VARIABLES
    row,      \* event -> its outbox_message row, or None before it commits
    arrived,  \* the events the broker has accepted, in order of first arrival
    transit,  \* sends whose client gave up and that may still arrive
    pc, claim, \* publisher -> where its tick stands and the claim it read
    behind    \* history: the older events of its group that were committed when
              \* an event was last claimed before it first arrived

vars == <<row, arrived, transit, pc, claim, behind>>

Enqueued ==
    [state |-> "pending", attempts |-> 0, due |-> TRUE, claimedBy |-> None, expired |-> FALSE]
Committed == {m \in Messages : row[m] # None}
Pending(m) == row[m] # None /\ row[m].state = "pending"
Older(m) == {n \in Committed : GroupOf[n] = GroupOf[m] /\ n < m}
Has(m) == \E i \in 1 .. Len(arrived) : arrived[i] = m

Init ==
    /\ row = [m \in Messages |-> None]
    /\ arrived = <<>>
    /\ transit = {}
    /\ pc = [p \in Publishers |-> "idle"]
    /\ claim = [p \in Publishers |-> None]
    /\ behind = [m \in Messages |-> {}]

(* The transaction that produced the event commits. *)
Enqueue(m) ==
    /\ row[m] = None
    /\ row' = [row EXCEPT ![m] = Enqueued]
    /\ UNCHANGED <<arrived, transit, pc, claim, behind>>

-----------------------------------------------------------------------------
(* One tick of a publisher.                                                *)

(* Mutant: the group is not held behind its oldest pending event. *)
ClaimableAlone(m) ==
    /\ Pending(m) /\ row[m].due
    /\ row[m].claimedBy = None \/ row[m].expired
(* Mutant: a lease never runs out. *)
ClaimableOnce(m) ==
    /\ Pending(m) /\ row[m].due
    /\ row[m].claimedBy = None
    /\ \A n \in Older(m) : ~ Pending(n)
Claimable(m) ==
    /\ Pending(m) /\ row[m].due
    /\ row[m].claimedBy = None \/ row[m].expired
    /\ \A n \in Older(m) : ~ Pending(n)

Claim(p, m) ==
    /\ pc[p] = "idle"
    /\ Claimable(m)
    /\ row' = [row EXCEPT ![m].claimedBy = InstanceOf[p], ![m].expired = FALSE]
    /\ claim' = [claim EXCEPT ![p] = [id |-> m, attempts |-> row[m].attempts]]
    /\ behind' = IF Has(m) THEN behind ELSE [behind EXCEPT ![m] = Older(m)]
    /\ pc' = [pc EXCEPT ![p] = "send"]
    /\ UNCHANGED <<arrived, transit>>

(* The FIFO queue drops a second copy of an event id.                      *)
Arrive(m) == arrived' = IF Has(m) THEN arrived ELSE Append(arrived, m)

SendAccepted(p) ==
    /\ pc[p] = "send"
    /\ Arrive(claim[p].id)
    /\ pc' = [pc EXCEPT ![p] = "mark"]
    /\ UNCHANGED <<row, transit, claim, behind>>

(* Refused or timed out: the broker may have accepted it, or do so later.  *)
SendFails(p) ==
    /\ pc[p] = "send"
    /\ \/ UNCHANGED <<arrived, transit>>
       \/ transit' = transit \cup {claim[p].id} /\ UNCHANGED arrived
    /\ pc' = [pc EXCEPT ![p] = "failed"]
    /\ UNCHANGED <<row, claim, behind>>

ArriveLate(m) ==
    /\ m \in transit
    /\ transit' = transit \ {m}
    /\ Arrive(m)
    /\ UNCHANGED <<row, pc, claim, behind>>

(* Mutant: the settling update is not conditioned on the claim. *)
OwnsAlways(p) == claim[p] # None
Owns(p) == row[claim[p].id].claimedBy = InstanceOf[p]

(* The end of a tick: the row changes only while the claim is p's own;     *)
(* otherwise the lease was lost and nothing is written.                    *)
Settle(p, settled) ==
    /\ row' = IF Owns(p)
              THEN [row EXCEPT ![claim[p].id] =
                        [settled EXCEPT !.claimedBy = None, !.expired = FALSE]]
              ELSE row
    /\ pc' = [pc EXCEPT ![p] = "idle"]
    /\ claim' = [claim EXCEPT ![p] = None]
    /\ UNCHANGED <<arrived, transit, behind>>

MarkPublished(p) ==
    /\ pc[p] = "mark"
    /\ Settle(p, [row[claim[p].id] EXCEPT !.state = "published"])

(* Mutant: an abandoned event is taken for a published one. *)
AbandonAsPublished(p) ==
    /\ pc[p] = "failed"
    /\ claim[p].attempts + 1 >= MaxAttempts
    /\ Settle(p, [row[claim[p].id] EXCEPT !.state = "published"])
Abandon(p) ==
    /\ pc[p] = "failed"
    /\ claim[p].attempts + 1 >= MaxAttempts
    /\ Settle(p, [row[claim[p].id] EXCEPT !.state = "abandoned"])

(* Mutant: the retry does not look at the limit. *)
RescheduleUnlimited(p) ==
    /\ pc[p] = "failed"
    /\ Settle(p, [row[claim[p].id] EXCEPT !.attempts = @ + 1, !.due = FALSE])
Reschedule(p) ==
    /\ pc[p] = "failed"
    /\ claim[p].attempts + 1 < MaxAttempts
    /\ Settle(p, [row[claim[p].id] EXCEPT !.attempts = @ + 1, !.due = FALSE])

-----------------------------------------------------------------------------
(* Time and failures.                                                      *)

(* The tick dies with its process or its connection; its claim stays.      *)
Crash(p) ==
    /\ pc[p] # "idle"
    /\ \/ UNCHANGED transit
       \/ pc[p] = "send" /\ transit' = transit \cup {claim[p].id}
    /\ pc' = [pc EXCEPT ![p] = "idle"]
    /\ claim' = [claim EXCEPT ![p] = None]
    /\ UNCHANGED <<row, arrived, behind>>

LeaseRunsOut(m) ==
    /\ Pending(m)
    /\ row[m].claimedBy # None
    /\ ~ row[m].expired
    /\ row' = [row EXCEPT ![m].expired = TRUE]
    /\ UNCHANGED <<arrived, transit, pc, claim, behind>>

FallsDue(m) ==
    /\ Pending(m)
    /\ ~ row[m].due
    /\ row' = [row EXCEPT ![m].due = TRUE]
    /\ UNCHANGED <<arrived, transit, pc, claim, behind>>

Tick(p) ==
    \/ SendAccepted(p) \/ SendFails(p)
    \/ MarkPublished(p) \/ Abandon(p) \/ Reschedule(p)

Next ==
    \/ \E m \in Messages : \/ Enqueue(m) \/ ArriveLate(m)
                           \/ LeaseRunsOut(m) \/ FallsDue(m)
    \/ \E p \in Publishers : \/ \E m \in Messages : Claim(p, m)
                             \/ Tick(p)
                             \/ Crash(p)

Spec == Init /\ [][Next]_vars

(* The loops keep polling and reach every claimable event, a tick that is   *)
(* not killed ends, time passes, and from some point on no tick is killed. *)
(* No send is assumed to succeed.                                          *)
LiveSpec ==
    /\ Spec
    /\ \A p \in Publishers : WF_vars(Tick(p))
    /\ \A m \in Messages : /\ SF_vars(\E p \in Publishers : Claim(p, m))
                           /\ WF_vars(LeaseRunsOut(m))
                           /\ WF_vars(FallsDue(m))
    /\ <>[][~ \E p \in Publishers : Crash(p)]_vars

-----------------------------------------------------------------------------
(* Every row satisfies the constraints of its table: a settled row carries  *)
(* no claim, and an event counts fewer failures than the limit.            *)
TypeOK ==
    /\ row \in [Messages -> Row \cup {None}]
    /\ arrived \in Seq(Messages)
    /\ transit \subseteq Messages
    /\ pc \in [Publishers -> {"idle", "send", "mark", "failed"}]
    /\ claim \in [Publishers -> ClaimRead \cup {None}]
    /\ behind \in [Messages -> SUBSET Messages]
    /\ \A m \in Committed : /\ row[m].attempts < MaxAttempts
                            /\ row[m].state # "pending" => row[m].claimedBy = None

(* No event is lost on its way: one that is marked published is at the      *)
(* broker, whichever publisher marked it and whatever leases ran out.      *)
PublishedHasArrived ==
    \A m \in Messages : (row[m] # None /\ row[m].state = "published") => Has(m)

(* A group reaches the broker in order: an event overtakes an older one of  *)
(* its group only if the older one was not committed when it was claimed,  *)
(* or has been parked.  Leases that run out, sends that arrive late and    *)
(* publishers that wake up after theirs was taken do not change this.      *)
GroupsArriveInOrder ==
    \A i \in 1 .. Len(arrived) :
        \A n \in behind[arrived[i]] :
            \/ \E j \in 1 .. i : arrived[j] = n
            \/ row[n].state = "abandoned"

(* An event is settled once: what is published or parked never changes      *)
(* again, though a publisher that lost its lease may still try.            *)
SettledForGood ==
    [][\A m \in Messages : (row[m] # None /\ row[m].state # "pending") => row'[m] = row[m]]_row

(* Every committed event is published or parked in the end: no crash, lost  *)
(* lease or blocked group leaves one behind.                               *)
EveryEventSettles ==
    \A m \in Messages : (row[m] # None) ~> (row[m] # None /\ row[m].state # "pending")
=============================================================================

---------------------------- MODULE EffectProofs ----------------------------
(***************************************************************************)
(* What the transactions of Wagering leave behind, proved for every set of *)
(* processes, wallets, commands and deliveries, on top of the decisions    *)
(* established in DecisionProofs.  Five inductive invariants, one per      *)
(* kind of effect:                                                         *)
(*                                                                         *)
(*   AInv  what callers and redeliveries are told, and the inbox;          *)
(*   OInv  whose the wallets are, and which creations may still commit;    *)
(*   MInv  the ledger entries, each the trace of one processed wager, and  *)
(*         the reversals that stand;                                       *)
(*   VInv  the verdicts and the balance versions of the outbox;            *)
(*   WInv  its announcements that a wager waits.                           *)
(*                                                                         *)
(* Only Commit, CommitCreation and Reschedule write the tables             *)
(* (PublishingSteps).  What each of them publishes is stated once, as      *)
(* Publication and Announces, and the invariants are proved against those. *)
(* With them Wagering is shown to implement SerialWagering (CoreIsSerial). *)
(***************************************************************************)
EXTENDS DecisionProofs, FiniteSetTheorems

-----------------------------------------------------------------------------
(* What a handler has been told, and what it may still find. *)

(* The answer is not an excuse, and a result is the one that is recorded. *)
Told(p) ==
    LET c == work[p].cmd
    IN  /\ answer[p].code \notin {"SERVICE_UNAVAILABLE", "TRANSIENT"}
        /\ answer[p].status \in Statuses =>
              /\ c.key \in Keys /\ wager[c.key] # None
              /\ SamePayload(wager[c.key].cmd, c)
              /\ answer[p].status \in Terminal => answer[p] = ResultOf(wager[c.key])

CallerInv(p) ==
    /\ pc[p] \in {"inbox", "inboxRead"} => work[p].msg \in MessageIds
    /\ pc[p] = "inboxRead" => inbox[work[p].msg] # None
    /\ pc[p] = "byKey" =>
          \E k \in Keys : /\ wager[k] # None
                          /\ k = work[p].cmd.key \/ wager[k].cmd.ext = work[p].cmd.ext
    /\ pc[p] = "byExternal" =>
          \E k \in Keys : wager[k] # None /\ wager[k].cmd.ext = work[p].cmd.ext
    /\ answer[p] # None => pc[p] = "reply" /\ Told(p)

AInv == InboxCommitsWithItsWager /\ \A p \in Procs : CallerInv(p)

LEMMA Words ==
    /\ \A c \in Codes : c \notin {"SERVICE_UNAVAILABLE", "TRANSIENT"}
    /\ "ERROR" \notin Statuses /\ "CREATED" \notin Statuses
    /\ \A s \in Statuses : s \in Terminal \/ s \in {"PENDING", "PENDING_REFERENCE"}
BY DEF Codes, NoCode, Statuses, Terminal

(* What somebody else commits takes nothing away from a caller. *)
LEMMA CallerStays ==
    ASSUME IInv, DInv, [Next]_vars, NEW q \in Procs, CallerInv(q),
           pc'[q] = pc[q], work'[q] = work[q], answer'[q] = answer[q],
           \A m \in MessageIds : inbox[m] # None => inbox'[m] # None
    PROVE  CallerInv(q)'
<1>1. \A k \in Keys : wager[k] # None =>
          /\ wager'[k] # None /\ wager'[k].cmd = wager[k].cmd
          /\ IsTerminal(wager[k]) => wager'[k] = wager[k]
    BY RowsOnlySettle
<1>2. ASSUME answer[q] # None PROVE Told(q)'
    <2>1. Told(q)
        BY <1>2 DEF CallerInv
    <2> DEFINE k == work[q].cmd.key
    <2>2. ASSUME answer[q].status \in Statuses
          PROVE  /\ k \in Keys /\ wager'[k] # None
                 /\ SamePayload(wager'[k].cmd, work[q].cmd)
                 /\ answer[q].status \in Terminal => answer[q] = ResultOf(wager'[k])
        <3>1. /\ k \in Keys /\ wager[k] # None /\ SamePayload(wager[k].cmd, work[q].cmd)
              /\ answer[q].status \in Terminal => answer[q] = ResultOf(wager[k])
            BY <2>1, <2>2 DEF Told
        <3>2. answer[q].status \in Terminal => IsTerminal(wager[k])
            BY <3>1 DEF ResultOf, IsTerminal
        <3> QED BY <1>1, <3>1, <3>2
    <2> QED BY <2>1, <2>2 DEF Told
<1>3. pc[q] = "byKey" =>
          \E k \in Keys : /\ wager'[k] # None
                          /\ k = work[q].cmd.key \/ wager'[k].cmd.ext = work[q].cmd.ext
    BY <1>1 DEF CallerInv
<1>4. pc[q] = "byExternal" =>
          \E k \in Keys : wager'[k] # None /\ wager'[k].cmd.ext = work[q].cmd.ext
    BY <1>1 DEF CallerInv
<1> QED BY <1>2, <1>3, <1>4 DEF CallerInv

(* A recorded delivery stays recorded with its wager. *)
LEMMA InboxStays ==
    ASSUME IInv, DInv, [Next]_vars, NEW m \in MessageIds, inbox'[m] = inbox[m],
           InboxCommitsWithItsWager
    PROVE  inbox'[m] # None =>
               /\ inbox'[m].processed
               /\ wager'[inbox'[m].cmd.key] # None
               /\ SamePayload(wager'[inbox'[m].cmd.key].cmd, inbox'[m].cmd)
<1> SUFFICES ASSUME inbox[m] # None
             PROVE  /\ inbox[m].processed
                    /\ wager'[inbox[m].cmd.key] # None
                    /\ SamePayload(wager'[inbox[m].cmd.key].cmd, inbox[m].cmd)
    OBVIOUS
<1>1. inbox[m].cmd \in Commands
    BY DEF IInv, TypeOK
<1>2. inbox[m].cmd.key \in Keys
    BY <1>1, CommandFacts
<1> QED BY <1>2, RowsOnlySettle DEF InboxCommitsWithItsWager

(* The step of one transaction. *)
LEMMA CallerStep ==
    ASSUME IInv, DInv, AInv, [Next]_vars, NEW p \in Procs, OthersUntouched(p),
           UNCHANGED inbox, CallerInv(p)'
    PROVE  AInv'
<1>1. ASSUME NEW q \in Procs \ {p} PROVE CallerInv(q)'
    <2>1. pc'[q] = pc[q] /\ work'[q] = work[q] /\ answer'[q] = answer[q]
        BY DEF OthersUntouched, OthersKeep, KeepsWhatItHas
    <2> QED BY <2>1, CallerStays DEF AInv
<1>2. InboxCommitsWithItsWager'
    BY InboxStays DEF AInv, InboxCommitsWithItsWager
<1> QED BY <1>1, <1>2 DEF AInv

LEMMA SilentStep ==
    ASSUME IInv, DInv, AInv, [Next]_vars, NEW p \in Procs, OthersUntouched(p), UNCHANGED inbox,
           answer'[p] = None \/ (pc[p] # "reply" /\ answer'[p] = answer[p]),
           pc'[p] \notin {"inbox", "inboxRead", "byKey", "byExternal"}
    PROVE  AInv'
<1>1. answer'[p] = None
    BY DEF AInv, CallerInv
<1>2. CallerInv(p)'
    BY <1>1 DEF CallerInv
<1> QED BY <1>2, CallerStep

(* The transaction that ends records its delivery with its wager. *)
LEMMA RecordingStep ==
    ASSUME IInv, DInv, AInv, [Next]_vars, NEW p \in Handlers, OthersUntouched(p),
           NEW k \in Keys, k = work[p].cmd.key, work[p].cmd \in Commands, work'[p] = work[p],
           MarkInboxProcessed(p), wager'[k] # None, SamePayload(wager'[k].cmd, work[p].cmd),
           wager'[k].code \in Codes, Finish(p, ResultOf(wager'[k]))
    PROVE  AInv'
<1> DEFINE c == work[p].cmd
           m == work[p].msg
           row == [cmd |-> c, processed |-> TRUE]
<1>1. p \in Procs /\ m \in MessageIds \cup {None} /\ None \notin MessageIds
    BY DeliveriesAssumption DEF Procs, IInv, TypeOK
<1>2. row # None
    <2>1. row \in [cmd : Commands, processed : BOOLEAN]
        BY work[p].cmd \in Commands
    <2>2. None \notin [cmd : Commands, processed : BOOLEAN]
        BY NoneAssumption
    <2> HIDE DEF row
    <2> QED BY <2>1, <2>2
<1>3. \A i \in MessageIds : inbox'[i] = inbox[i] \/ (i = m /\ inbox'[i] = row)
    BY <1>1 DEF MarkInboxProcessed, IInv, TypeOK
<1>4. ASSUME NEW i \in MessageIds, inbox'[i] # None
      PROVE  /\ inbox'[i].processed
             /\ wager'[inbox'[i].cmd.key] # None
             /\ SamePayload(wager'[inbox'[i].cmd.key].cmd, inbox'[i].cmd)
    <2>1. CASE inbox'[i] = inbox[i]
        BY <1>4, <2>1, InboxStays DEF AInv
    <2>2. CASE inbox'[i] = row
        BY <2>2
    <2> QED BY <1>3, <2>1, <2>2
<1>5. ASSUME NEW q \in Procs \ {p} PROVE CallerInv(q)'
    <2>1. pc'[q] = pc[q] /\ work'[q] = work[q] /\ answer'[q] = answer[q]
        BY DEF OthersUntouched, OthersKeep, KeepsWhatItHas
    <2>2. \A i \in MessageIds : inbox[i] # None => inbox'[i] # None
        BY <1>2, <1>3
    <2> QED BY <2>1, <2>2, CallerStays DEF AInv
<1>6. CallerInv(p)'
    <2>1. pc'[p] = "reply" /\ answer'[p] = ResultOf(wager'[k])
        BY <1>1 DEF Finish, Goto, IInv, TypeOK
    <2>2. answer'[p].code \notin {"SERVICE_UNAVAILABLE", "TRANSIENT"}
        BY <2>1, Words DEF ResultOf
    <2>3. Told(p)'
        BY <2>1, <2>2 DEF Told
    <2> QED BY <2>1, <2>3 DEF CallerInv
<1> QED BY <1>4, <1>5, <1>6 DEF AInv, InboxCommitsWithItsWager

LEMMA RefusedStep ==
    ASSUME IInv, DInv, AInv, [Next]_vars, NEW p \in Procs, OthersUntouched(p), UNCHANGED inbox,
           NEW a, Finish(p, a), a.status \notin Statuses,
           a.code \notin {"SERVICE_UNAVAILABLE", "TRANSIENT"}
    PROVE  AInv'
<1>1. pc'[p] = "reply" /\ answer'[p] = a
    BY DEF Finish, Goto, IInv, TypeOK
<1>2. CallerInv(p)'
    BY <1>1 DEF CallerInv, Told
<1> QED BY <1>2, CallerStep

LEMMA HandlerTells ==
    ASSUME IInv, DInv, AInv, Next, NEW p \in Handlers, HandlerOnly(p)
    PROVE  AInv'
<1>1. p \in Procs /\ p \notin Resolvers /\ StepOf(p) /\ CallerInv(p)
    BY ProcsAssumption DEF Procs, StepOf, AInv
<1>2. OthersUntouched(p)
    BY <1>1, Footprint
<1>3. \A e \in Errors : ErrorOf(e).status \notin Statuses /\ ErrorOf(e).code = e
    BY Words DEF ErrorOf
<1>4. CASE \/ \E c \in Commands : BeginHttp(p, c)
           \/ MissWallet(p) \/ LockWallet(p) \/ ReadReference(p) \/ Reply(p)
    <2>1. pc'[p] \notin {"inbox", "inboxRead", "byKey", "byExternal"}
        BY <1>1, <1>4 DEF BeginHttp, MissWallet, LockWallet, ReadReference, Reply, Decide, Goto,
                          IInv, TypeOK
    <2>2. UNCHANGED inbox
        BY <1>4 DEF BeginHttp, MissWallet, LockWallet, ReadReference, Reply, committed
    <2>3. answer'[p] = None \/ (pc[p] # "reply" /\ answer'[p] = answer[p])
        BY <1>1, <1>4 DEF BeginHttp, MissWallet, LockWallet, ReadReference, Reply, IInv, TypeOK
    <2> QED BY <1>1, <1>2, <2>1, <2>2, <2>3, SilentStep
<1>5. CASE \E d \in Deliveries : BeginDelivery(p, d)
    <2>1. PICK d \in Deliveries : BeginDelivery(p, d)
        BY <1>5
    <2>2. pc'[p] = "inbox" /\ work'[p].msg = d.id /\ answer'[p] = answer[p] /\ pc[p] = "idle"
        BY <1>1, <2>1 DEF BeginDelivery, Goto, IInv, TypeOK
    <2>3. CallerInv(p)'
        BY <1>1, <2>2 DEF CallerInv, MessageIds
    <2>4. UNCHANGED inbox
        BY <2>1 DEF BeginDelivery, committed
    <2> QED BY <1>1, <1>2, <2>3, <2>4, CallerStep
<1>6. CASE \E w \in Wallets : InsertWallet(p, w)
    <2>1. /\ UNCHANGED inbox /\ pc[p] = "idle"
          /\ \/ Finish(p, ErrorOf("WALLET_ALREADY_EXISTS"))
             \/ Goto(p, "create") /\ UNCHANGED answer
        BY <1>6 DEF InsertWallet, committed
    <2>2. CASE Finish(p, ErrorOf("WALLET_ALREADY_EXISTS"))
        BY <1>1, <1>2, <1>3, <2>1, <2>2, RefusedStep DEF Errors
    <2>3. CASE Goto(p, "create") /\ UNCHANGED answer
        <3>1. pc'[p] = "create"
            BY <1>1, <2>3 DEF Goto, IInv, TypeOK
        <3> QED BY <1>1, <1>2, <2>1, <2>3, <3>1, SilentStep
    <2> QED BY <2>1, <2>2, <2>3
<1>7. CASE ReserveInbox(p)
    <2>1. /\ pc[p] = "inbox"
          /\ pc'[p] = IF inbox[work[p].msg] = None THEN "reserve" ELSE "inboxRead"
          /\ UNCHANGED <<inbox, work, answer>>
        BY <1>1, <1>7 DEF ReserveInbox, Goto, IInv, TypeOK, committed, memory
    <2>2. CallerInv(p)'
        BY <1>1, <2>1 DEF CallerInv
    <2> QED BY <1>1, <1>2, <2>1, <2>2, CallerStep
<1>8. CASE ClassifyRedelivery(p)
    <2>1. /\ pc[p] = "inboxRead" /\ UNCHANGED inbox
          /\ inbox[work[p].msg] # None /\ work[p].msg \in MessageIds
        BY <1>1, <1>8 DEF ClassifyRedelivery, committed, CallerInv
    <2>2. inbox[work[p].msg].processed
        BY <2>1 DEF AInv, InboxCommitsWithItsWager
    <2>3. Finish(p, ErrorOf("MESSAGE_ID_REUSED")) \/ Finish(p, ErrorOf("DUPLICATE"))
        BY <1>8, <2>1, <2>2 DEF ClassifyRedelivery
    <2> QED BY <1>1, <1>2, <1>3, <2>1, <2>3, RefusedStep DEF Errors
<1>9. CASE ReserveWager(p)
    <2>1. /\ pc[p] = "reserve" /\ pc'[p] \in {"byKey", "lock"}
          /\ pc'[p] = "byKey" =>
                \E r \in Rows : r.cmd.key = work[p].cmd.key \/ r.cmd.ext = work[p].cmd.ext
          /\ UNCHANGED <<wager, inbox, work, answer>>
        BY <1>1, <1>9 DEF ReserveWager, Goto, IInv, TypeOK, committed, memory
    <2>2. CallerInv(p)'
        BY <1>1, <2>1, RowsFacts DEF CallerInv
    <2> QED BY <1>1, <1>2, <2>1, <2>2, CallerStep
<1>10. CASE FindByKey(p)
    <2>0. PICK c : c = work[p].cmd
        OBVIOUS
    <2>1. /\ pc[p] = "byKey" /\ c \in Commands /\ c.key \in Keys
          /\ UNCHANGED <<wager, work>>
          /\ \/ wager[c.key] = None /\ Goto(p, "byExternal") /\ UNCHANGED <<inbox, answer>>
             \/ /\ wager[c.key] # None /\ Replays(wager[c.key], c)
                /\ Finish(p, ResultOf(wager[c.key])) /\ MarkInboxProcessed(p)
             \/ Finish(p, ErrorOf("IDEMPOTENCY_KEY_CONFLICT")) /\ UNCHANGED inbox
        BY <1>1, <1>10, <2>0, CommandFacts
           DEF FindByKey, IInv, ProcInv, HandlerInv, memory
    <2>2. CASE wager[c.key] = None /\ Goto(p, "byExternal") /\ UNCHANGED <<inbox, answer>>
        <3>1. pc'[p] = "byExternal"
            BY <1>1, <2>2 DEF Goto, IInv, TypeOK
        <3>2. CallerInv(p)'
            BY <1>1, <2>0, <2>1, <2>2, <3>1 DEF CallerInv
        <3> QED BY <1>1, <1>2, <2>2, <3>2, CallerStep
    <2>3. CASE /\ wager[c.key] # None /\ Replays(wager[c.key], c)
               /\ Finish(p, ResultOf(wager[c.key])) /\ MarkInboxProcessed(p)
        <3>1. wager[c.key].code \in Codes
            BY <2>1, <2>3, RowsFacts, RowFacts
        <3>2. PICK k \in Keys : k = work[p].cmd.key
            BY <2>0, <2>1
        <3> QED BY <1>2, <2>0, <2>1, <2>3, <3>1, <3>2, RecordingStep DEF Replays
    <2>4. CASE Finish(p, ErrorOf("IDEMPOTENCY_KEY_CONFLICT")) /\ UNCHANGED inbox
        BY <1>1, <1>2, <1>3, <2>4, RefusedStep DEF Errors
    <2> QED BY <2>1, <2>2, <2>3, <2>4
<1>11. CASE FindByExternal(p)
    <2>1. \E r \in Rows : r.cmd.ext = work[p].cmd.ext
        BY <1>1, <1>11, RowsFacts DEF FindByExternal, CallerInv
    <2>2. Finish(p, ErrorOf("EXTERNAL_TRANSACTION_ID_REUSED")) /\ UNCHANGED inbox
        BY <1>11, <2>1 DEF FindByExternal, committed
    <2> QED BY <1>1, <1>2, <1>3, <2>2, RefusedStep DEF Errors
<1>12. CASE CommitCreation(p)
    <2>1. PICK a : /\ Finish(p, a) /\ a.status = "CREATED" /\ a.code = NoCode /\ UNCHANGED inbox
        BY <1>12 DEF CommitCreation
    <2> QED BY <1>1, <1>2, <2>1, Words, RefusedStep DEF NoCode
<1> QED BY <1>4, <1>5, <1>6, <1>7, <1>8, <1>9, <1>10, <1>11, <1>12 DEF HandlerOnly, HandlerStep

LEMMA WorkerTells ==
    ASSUME IInv, DInv, AInv, Next, NEW p \in Procs,
           (p \in Resolvers /\ ResolverOnly(p)) \/ ReadSlot(p) \/ Abort(p)
    PROVE  AInv'
<1>1. StepOf(p) /\ OthersUntouched(p)
    BY Footprint DEF StepOf
<1>2. UNCHANGED <<inbox, answer>>
    BY DEF ResolverOnly, ResolverStep, LockDue, Reschedule, Peek, SettleLock, Reread, Defect,
           LockFailedRow, RecordFailure, ReadSlot, Abort, committed
<1>3. /\ pc[p] # "reply"
      /\ pc'[p] \notin {"inbox", "inboxRead", "byKey", "byExternal"}
    BY DEF ResolverOnly, ResolverStep, LockDue, Reschedule, Peek, SettleLock, Reread, Defect,
           LockFailedRow, RecordFailure, ReadSlot, Abort, Decide, Goto, IInv, TypeOK
<1> QED BY <1>1, <1>2, <1>3, SilentStep

LEMMA CommitTells ==
    ASSUME IInv, DInv, AInv, Next, NEW p \in Procs, Commit(p)
    PROVE  AInv'
<1>1. OthersUntouched(p) /\ p \in Handlers \cup Resolvers /\ pc[p] = "commit"
    BY Footprint DEF StepOf, Procs, Commit
<1>2. PICK k \in Keys :
          /\ k = work[p].cmd.key /\ wager'[k] = plan[p].row /\ plan[p].row \in Row
          /\ plan[p].row # None /\ plan[p].row.cmd = work[p].cmd
    BY CommitFacts
<1>3. CASE p \in Handlers
    <2>1. /\ MarkInboxProcessed(p) /\ Finish(p, ResultOf(wager'[k])) /\ work'[p] = work[p]
          /\ work[p].cmd \in Commands
        BY <1>1, <1>2, <1>3 DEF Commit, IInv, ProcInv, HandlerInv
    <2>2. wager'[k].code \in Codes /\ wager'[k] # None
        BY <1>2, RowFacts
    <2>3. SamePayload(wager'[k].cmd, work[p].cmd)
        BY <1>2 DEF SamePayload
    <2> QED BY <1>1, <1>2, <1>3, <2>1, <2>2, <2>3, RecordingStep
<1>4. CASE p \notin Handlers
    <2>1. work[p].msg = None
        BY <1>1, <1>4 DEF IInv, ProcInv, ResolverInv
    <2>2. UNCHANGED <<inbox, answer>> /\ pc'[p] = "idle"
        BY <1>1, <1>4, <2>1 DEF Commit, MarkInboxProcessed, Goto, IInv, TypeOK
    <2> QED BY <1>1, <2>2, SilentStep
<1> QED BY <1>3, <1>4

LEMMA NextAInv == IInv /\ DInv /\ AInv /\ [Next]_vars => AInv'
<1> SUFFICES ASSUME IInv, DInv, AInv, [Next]_vars PROVE AInv'
    OBVIOUS
<1>1. ASSUME UNCHANGED <<pc, work, inbox, answer>> PROVE AInv'
    <2>1. InboxCommitsWithItsWager'
        BY <1>1, InboxStays DEF AInv, InboxCommitsWithItsWager
    <2>2. ASSUME NEW q \in Procs PROVE CallerInv(q)'
        BY <1>1, CallerStays DEF AInv
    <2> QED BY <2>1, <2>2 DEF AInv
<1>2. CASE UNCHANGED vars
    BY <1>1, <1>2 DEF vars
<1>3. CASE \E k \in Keys : Lapse(k)
    BY <1>1, <1>3 DEF Lapse, committed, memory
<1>4. ASSUME Next, NEW p \in Procs, StepOf(p) PROVE AInv'
    BY <1>4, HandlerTells, WorkerTells, CommitTells DEF StepOf
<1> QED BY <1>2, <1>3, <1>4, NextIsSteps

LEMMA InitAInv == Init => AInv
BY DEF Init, AInv, InboxCommitsWithItsWager, CallerInv

(* What a caller has been told is true of the tables, and every process that *)
(* lost a reservation has an owner to find.                                *)
THEOREM AnswersHold == Spec => []AInv
<1>1. IInv /\ DInv /\ AInv /\ [Next]_vars => AInv'
    BY NextAInv
<1> QED BY <1>1, InitAInv, DecisionsHold, PTL DEF Spec

(* No delivery is recorded without its fact: whatever crashes in between,   *)
(* an inbox row commits processed, and with the wager that it carried.     *)
THEOREM DeliveriesCommitWhole == Spec => []InboxCommitsWithItsWager
<1>1. AInv => InboxCommitsWithItsWager
    BY DEF AInv
<1> QED BY <1>1, AnswersHold, PTL

(* Whoever loses a race for an identity is shown the winner: the wait for   *)
(* its commit makes the row visible to the next statement.                 *)
THEOREM LosersSeeTheOwner == Spec => []LoserSeesTheOwner
<1>1. AInv => LoserSeesTheOwner
    BY DEF AInv, CallerInv, Told, LoserSeesTheOwner
<1> QED BY <1>1, AnswersHold, PTL

(* A terminal result that a caller was told is the stored result of the     *)
(* wager with its key and payload, for as long as the caller may ask.      *)
THEOREM AnswersStayTrue == Spec => []AnswersAreDurable
<1>1. AInv => AnswersAreDurable
    BY DEF AInv, CallerInv, Told, AnswersAreDurable, Procs
<1> QED BY <1>1, AnswersHold, PTL

-----------------------------------------------------------------------------
(* The owners of the wallets. *)

SameOwner(c, d) == c.player = d.player /\ c.currency = d.currency

(* A wallet row says whose it is, and nobody opens a second one of an owner. *)
OwnedByOpening(w) ==
    wallet[w] # None => SameOwner(wallet[w], OpeningOf[w]) /\ wallet[w].version >= 1
CreatesAnother(p) ==
    pc[p] = "create" =>
        /\ \A v \in Wallets : wallet[v] # None => ~ SameOwner(work[p].cmd, OpeningOf[v])
        /\ \A q \in Handlers \ {p} : pc[q] = "create" => ~ SameOwner(work[p].cmd, work[q].cmd)

OInv ==
    /\ OneWalletPerOwner
    /\ \A w \in Wallets : OwnedByOpening(w)
    /\ \A p \in Handlers : CreatesAnother(p)

LEMMA OpenWalletFacts ==
    ASSUME NEW w \in Wallets, NEW b
    PROVE  SameOwner(OpenWallet(w, b), OpeningOf[w]) /\ OpenWallet(w, b).version = 1
BY DEF OpenWallet, SameOwner

(* Nobody starts to create, and a wallet keeps its owner: nothing to show. *)
LEMMA OwnersStay ==
    ASSUME OInv,
           \A q \in Handlers : pc'[q] = "create" => pc[q] = "create" /\ work'[q] = work[q],
           \A w \in Wallets : /\ wallet'[w] # None => wallet[w] # None
                              /\ OwnedByOpening(w)'
    PROVE  OInv'
<1>1. OneWalletPerOwner'
    BY DEF OInv, OneWalletPerOwner
<1>2. \A p \in Handlers : CreatesAnother(p)'
    BY DEF OInv, CreatesAnother
<1> QED BY <1>1, <1>2 DEF OInv

LEMMA InsertWalletOwners ==
    ASSUME IInv, OInv, NEW p \in Handlers, NEW w \in Wallets, InsertWallet(p, w)
    PROVE  OInv'
<1>1. /\ p \in Procs /\ pc[p] = "idle" /\ UNCHANGED wallet
      /\ work'[p] = [cmd |-> OpeningOf[w], msg |-> None]
      /\ \A q \in Handlers \ {p} : pc'[q] = pc[q] /\ work'[q] = work[q]
    BY DEF Procs, InsertWallet, Finish, Goto, committed, IInv, TypeOK
<1>2. \A v \in Wallets : OwnedByOpening(v)'
    BY <1>1 DEF OInv, OwnedByOpening
<1>3. CASE pc'[p] = "create"
    <2>1. ASSUME NEW v \in Wallets, wallet[v] # None PROVE ~ SameOwner(OpeningOf[w], OpeningOf[v])
        <3>1. ~ (wallet[v].player = OpeningOf[w].player /\ wallet[v].currency = OpeningOf[w].currency)
            BY <1>1, <1>3, <2>1 DEF InsertWallet, Finish, Goto, IInv, TypeOK
        <3> QED BY <2>1, <3>1 DEF OInv, OwnedByOpening, SameOwner
    <2>2. ASSUME NEW q \in Handlers \ {p}, pc[q] = "create"
          PROVE  ~ SameOwner(OpeningOf[w], work[q].cmd)
        BY <2>2 DEF InsertWallet, HoldsOwner, SameOwner
    <2>3. ASSUME NEW q \in Handlers PROVE CreatesAnother(q)'
        <3>1. \A c, d : SameOwner(c, d) <=> SameOwner(d, c)
            BY DEF SameOwner
        <3> QED BY <1>1, <2>1, <2>2, <3>1 DEF OInv, CreatesAnother
    <2>4. OneWalletPerOwner'
        BY <1>1 DEF OInv, OneWalletPerOwner
    <2> QED BY <1>2, <2>3, <2>4 DEF OInv
<1>4. CASE pc'[p] # "create"
    BY <1>1, <1>2, <1>4, OwnersStay
<1> QED BY <1>3, <1>4

LEMMA CreationOwners ==
    ASSUME IInv, OInv, NEW p \in Handlers, CommitCreation(p)
    PROVE  OInv'
<1>1. PICK w \in Wallets :
          /\ work[p].cmd = OpeningOf[w] /\ pc[p] = "create" /\ wallet[w] = None
          /\ wallet' = [wallet EXCEPT ![w] = OpenWallet(w, OpeningOf[w].amount)]
    BY CreationFacts
<1>2. /\ \A v \in Wallets \ {w} : wallet'[v] = wallet[v]
      /\ wallet'[w] = OpenWallet(w, OpeningOf[w].amount)
    BY <1>1 DEF IInv, TypeOK
<1>3. /\ pc'[p] = "reply" /\ p \in Procs
      /\ \A q \in Handlers \ {p} : pc'[q] = pc[q] /\ work'[q] = work[q]
    BY DEF CommitCreation, Finish, Goto, memory, Procs, IInv, TypeOK
<1>4. \A v \in Wallets : OwnedByOpening(v)'
    BY <1>2, OpenWalletFacts DEF OInv, OwnedByOpening
<1>5. CreatesAnother(p)
    BY DEF OInv
<1>6. OneWalletPerOwner'
    BY <1>1, <1>2, <1>5 DEF OInv, OneWalletPerOwner, CreatesAnother, SameOwner
<1>7. ASSUME NEW q \in Handlers PROVE CreatesAnother(q)'
    <2>1. CreatesAnother(q)
        BY DEF OInv
    <2>2. (q # p /\ pc[q] = "create") => ~ SameOwner(work[q].cmd, OpeningOf[w])
        BY <1>1, <2>1 DEF CreatesAnother
    <2> QED BY <1>2, <1>3, <2>1, <2>2 DEF CreatesAnother
<1> QED BY <1>4, <1>6, <1>7 DEF OInv

LEMMA CommitOwners ==
    ASSUME IInv, DInv, OInv, NEW p \in Procs, Commit(p)
    PROVE  OInv'
<1>0. PICK w, o : w = work[p].cmd.wallet /\ o = plan[p]
    OBVIOUS
<1>1. /\ pc[p] = "commit" /\ w \in Wallets
      /\ o.entry = None => wallet' = wallet
      /\ o.entry # None => /\ HoldsWallet(p) /\ wallet[w] # None
                           /\ wallet' = [wallet EXCEPT ![w] = Moved(p)]
    BY <1>0, CommitFacts
<1>2. \A q \in Handlers : pc'[q] = "create" => pc[q] = "create" /\ work'[q] = work[q]
    BY <1>1 DEF Commit, Finish, Goto, Procs, IInv, TypeOK
<1>3. CASE o.entry = None
    BY <1>1, <1>2, <1>3, OwnersStay DEF OInv, OwnedByOpening
<1>4. CASE o.entry # None
    <2>1. /\ Moved(p).version = snap[p].version + 1 /\ snap[p] = wallet[w]
          /\ SameOwner(Moved(p), wallet[w]) /\ wallet[w].version \in Nat
        BY <1>0, <1>1, <1>4, MovedFacts DEF HoldsWallet, SameOwner, WalletRow
    <2>2. \A v \in Wallets : wallet'[v] = IF v = w THEN Moved(p) ELSE wallet[v]
        BY <1>1, <1>4 DEF IInv, TypeOK
    <2>3. SameOwner(Moved(p), OpeningOf[w]) /\ Moved(p).version >= 1
        BY <1>1, <1>4, <2>1 DEF OInv, OwnedByOpening, SameOwner
    <2>4. \A v \in Wallets : OwnedByOpening(v)'
        BY <2>2, <2>3 DEF OInv, OwnedByOpening
    <2> QED BY <1>1, <1>2, <1>4, <2>2, <2>4, OwnersStay
<1> QED BY <1>3, <1>4

LEMMA NextOInv == IInv /\ DInv /\ OInv /\ [Next]_vars => OInv'
<1> SUFFICES ASSUME IInv, DInv, OInv, [Next]_vars PROVE OInv'
    OBVIOUS
<1>1. ASSUME UNCHANGED wallet,
             \A q \in Handlers : pc'[q] = "create" => pc[q] = "create" /\ work'[q] = work[q]
      PROVE  OInv'
    BY <1>1, OwnersStay DEF OInv, OwnedByOpening
<1>2. CASE UNCHANGED vars
    BY <1>1, <1>2 DEF vars
<1>3. CASE \E k \in Keys : Lapse(k)
    BY <1>1, <1>3 DEF Lapse, committed, memory
<1>4. ASSUME NEW p \in Procs, StepOf(p) PROVE OInv'
    <2>1. CASE \/ p \in Handlers /\ HandlerOnly(p)
               \/ (p \in Resolvers /\ ResolverOnly(p)) \/ ReadSlot(p) \/ Abort(p)
        <3>1. CASE p \in Handlers /\ CommitCreation(p)
            BY <3>1, CreationOwners
        <3>2. CASE p \in Handlers /\ \E w \in Wallets : InsertWallet(p, w)
            BY <3>2, InsertWalletOwners
        <3>3. CASE ~ (p \in Handlers /\ CommitCreation(p))
                   /\ ~ (p \in Handlers /\ \E w \in Wallets : InsertWallet(p, w))
            <4>1. UNCHANGED wallet
                BY <2>1, <3>3
                   DEF HandlerOnly, HandlerStep, ResolverOnly, ResolverStep, BeginHttp,
                       BeginDelivery, ReserveInbox, ClassifyRedelivery, ReserveWager, FindByKey,
                       FindByExternal, MissWallet, LockWallet, ReadReference, Reply, LockDue,
                       Reschedule, Peek, SettleLock, Reread, Defect, LockFailedRow, RecordFailure,
                       ReadSlot, Abort, committed
            <4>2. pc'[p] # "create"
                BY <2>1, <3>3
                   DEF HandlerOnly, HandlerStep, ResolverOnly, ResolverStep, BeginHttp,
                       BeginDelivery, ReserveInbox, ClassifyRedelivery, ReserveWager, FindByKey,
                       FindByExternal, MissWallet, LockWallet, ReadReference, Reply, LockDue,
                       Reschedule, Peek, SettleLock, Reread, Defect, LockFailedRow, RecordFailure,
                       ReadSlot, Abort, Decide, Finish, Goto, IInv, TypeOK
            <4>3. OthersUntouched(p)
                BY <1>4, Footprint
            <4>4. \A q \in Handlers : pc'[q] = "create" => pc[q] = "create" /\ work'[q] = work[q]
                BY <4>2, <4>3 DEF OthersUntouched, OthersKeep, KeepsWhatItHas, Procs
            <4> QED BY <1>1, <4>1, <4>4
        <3> QED BY <3>1, <3>2, <3>3
    <2>2. CASE Commit(p)
        BY <2>2, CommitOwners
    <2> QED BY <1>4, <2>1, <2>2 DEF StepOf
<1> QED BY <1>2, <1>3, <1>4, NextIsSteps

LEMMA InitOInv == Init => OInv
<1> SUFFICES ASSUME Init PROVE OInv
    OBVIOUS
<1>1. \A w \in Wallets :
          wallet[w] = IF w \in Existing THEN OpenWallet(w, OpeningOf[w].amount) ELSE None
    BY DEF Init
<1>2. OneWalletPerOwner
    BY <1>1, ExistingAssumption DEF OneWalletPerOwner
<1>3. \A w \in Wallets : OwnedByOpening(w)
    BY <1>1, OpenWalletFacts DEF OwnedByOpening
<1>4. \A p \in Handlers : CreatesAnother(p)
    BY DEF Init, CreatesAnother, Procs
<1> QED BY <1>2, <1>3, <1>4 DEF OInv

(* A wallet belongs to the owner its id was made for, and no open creation   *)
(* can add a second wallet of an owner.                                    *)
THEOREM OwnersHold == Spec => []OInv
<1>1. IInv /\ DInv /\ OInv /\ [Next]_vars => OInv'
    BY NextOInv
<1> QED BY <1>1, InitOInv, DecisionsHold, PTL DEF Spec

(* Two creations for one player and currency never both commit: the second  *)
(* waits for the first and then finds its wallet.                          *)
THEOREM PlayersHaveOneWallet == Spec => []OneWalletPerOwner
<1>1. OInv => OneWalletPerOwner
    BY DEF OInv
<1> QED BY <1>1, OwnersHold, PTL

-----------------------------------------------------------------------------
(* The money that the wagers moved. *)

(* An entry is the trace of a processed wager of its wallet. *)
Traces(w, i) ==
    LET e == ledger[w][i]
        r == wager[e.tx]
    IN  /\ r # None /\ MovesMoney(r) /\ r.cmd.wallet = w
        /\ e.amount = r.cmd.amount /\ e.after = r.balance
        /\ e.direction = Direction(r, wager[r.ref])
IsTraced(k) ==
    (wager[k] # None /\ MovesMoney(wager[k])) =>
        \E i \in DOMAIN ledger[wager[k].cmd.wallet] : ledger[wager[k].cmd.wallet][i].tx = k
TracedOnce(w) ==
    \A i, j \in DOMAIN ledger[w] : ledger[w][i].tx = ledger[w][j].tx => i = j
StandsAlone(k) == \A a, b \in StandingReversals(k) : a = b

MInv ==
    /\ \A w \in Wallets : TracedOnce(w) /\ \A i \in DOMAIN ledger[w] : Traces(w, i)
    /\ \A k \in Keys : IsTraced(k) /\ StandsAlone(k)

(* What one transaction publishes about wager k. *)
Publication(k, row, w, entry) ==
    /\ wager[k] # None => ~ IsTerminal(wager[k]) /\ wager[k].cmd = row.cmd
    /\ row # None /\ row.cmd.key = k /\ row.cmd.wallet = w
    /\ wager'[k] = row
    /\ \A j \in Keys \ {k} : wager'[j] = wager[j]
    /\ row.ref # None => /\ row.ref \in Keys /\ wager[row.ref] # None
                         /\ wager[row.ref].status = "PROCESSED"
    /\ (row.status = "PROCESSED" /\ RequiresReference(row)) =>
           row.ref # None /\ ~ HasActiveReversal(Rows, row.ref)
    /\ entry # None <=> MovesMoney(row)
    /\ entry = None => ledger' = ledger
    /\ entry # None => /\ entry \in LedgerEntry /\ entry.tx = k
                       /\ entry.amount = row.cmd.amount /\ entry.after = row.balance
                       /\ entry.direction = Direction(row, wager[row.ref])
                       /\ ledger' = [ledger EXCEPT ![w] = Append(ledger[w], entry)]

LEMMA CommitPublishes ==
    ASSUME IInv, DInv, NEW p \in Procs, Commit(p)
    PROVE  /\ work[p].cmd.key \in Keys /\ work[p].cmd.wallet \in Wallets
           /\ Publication(work[p].cmd.key, plan[p].row, work[p].cmd.wallet, plan[p].entry)
<1>0. PICK k, w, o : k = work[p].cmd.key /\ w = work[p].cmd.wallet /\ o = plan[p]
    OBVIOUS
<1>1. /\ k \in Keys /\ w \in Wallets /\ PlanShape(p)
      /\ o.row # None /\ o.row.cmd = work[p].cmd
      /\ wager[k] # None => ~ IsTerminal(wager[k]) /\ wager[k].cmd = work[p].cmd
      /\ wager'[k] = o.row /\ \A j \in Keys \ {k} : wager'[j] = wager[j]
      /\ o.entry = None => ledger' = ledger
      /\ o.entry # None => /\ o.entry \in LedgerEntry
                           /\ ledger' = [ledger EXCEPT ![w] = Append(ledger[w], o.entry)]
    BY <1>0, CommitFacts DEF Procs
<1>2. /\ Sound(o)
      /\ o.row.ref # None => /\ o.row.ref \in Keys /\ wager[o.row.ref] # None
                             /\ wager[o.row.ref].status = "PROCESSED"
      /\ (o.row.status = "PROCESSED" /\ RequiresReference(o.row)) =>
             o.row.ref # None /\ ~ HasActiveReversal(Rows, o.row.ref)
      /\ o.entry # None => o.entry.direction = Direction(o.row, wager[o.row.ref])
    BY <1>0, <1>1 DEF PlanShape
<1>3. /\ o.entry # None <=> MovesMoney(o.row)
      /\ o.entry # None => /\ o.entry.tx = k /\ o.entry.amount = o.row.cmd.amount
                           /\ o.entry.after = o.row.balance
    BY <1>0, <1>1, <1>2 DEF Sound
<1> QED BY <1>0, <1>1, <1>2, <1>3 DEF Publication

LEMMA CreationPublishes ==
    ASSUME IInv, DInv, NEW p \in Handlers, CommitCreation(p)
    PROVE  \/ UNCHANGED <<wager, ledger>>
           \/ \E w \in Wallets : /\ OpeningOf[w].key \in Keys
                                 /\ Publication(OpeningOf[w].key, OpeningOutcome(w).row, w,
                                                OpeningOutcome(w).entry)
<1>1. PICK w \in Wallets :
          /\ wallet[w] = None /\ ledger[w] = <<>> /\ wager[OpeningOf[w].key] = None
          /\ OpeningOf[w].key \in Keys /\ OpeningOf[w].wallet = w
          /\ OpeningOf[w].amount = 0 => UNCHANGED <<wager, ledger, outbox>>
          /\ OpeningOf[w].amount # 0 =>
                /\ wager' = [wager EXCEPT ![OpeningOf[w].key] = OpeningOutcome(w).row]
                /\ ledger' = [ledger EXCEPT ![w] = <<OpeningOutcome(w).entry>>]
    BY CreationFacts
<1>2. CASE OpeningOf[w].amount # 0
    <2>0. PICK k, o : k = OpeningOf[w].key /\ o = OpeningOutcome(w)
        OBVIOUS
    <2>1. /\ Sound(o) /\ o.row # None /\ o.row.cmd = OpeningOf[w] /\ o.row.status = "PROCESSED"
          /\ o.row.ref = None /\ ~ RequiresReference(o.row) /\ o.entry.direction = "CREDIT"
          /\ o.entry \in LedgerEntry
        BY <2>0, OpeningSound, OpeningFacts
    <2>2. wager'[k] = o.row /\ \A j \in Keys \ {k} : wager'[j] = wager[j]
        BY <1>1, <1>2, <2>0 DEF IInv, TypeOK
    <2>3. ledger' = [ledger EXCEPT ![w] = Append(ledger[w], o.entry)]
        BY <1>1, <1>2, <2>0, <2>1
    <2>4. \A x : Direction(o.row, x) = "CREDIT"
        BY <2>1, OpeningAssumption DEF Direction, PlainDirection
    <2>5. /\ o.entry # None <=> MovesMoney(o.row)
          /\ o.entry # None => /\ o.entry.tx = k /\ o.entry.amount = o.row.cmd.amount
                               /\ o.entry.after = o.row.balance
        BY <2>0, <2>1 DEF Sound
    <2>6. o.entry # None
        BY <2>1, NoneAssumption
    <2>7. Publication(k, o.row, w, o.entry)
        BY <1>1, <2>0, <2>1, <2>2, <2>3, <2>4, <2>5, <2>6 DEF Publication
    <2> QED BY <1>1, <2>0, <2>7
<1> QED BY <1>1, <1>2

LEMMA ReschedulePublishes ==
    ASSUME IInv, DInv, NEW p \in Resolvers, Reschedule(p)
    PROVE  \E k \in Keys : /\ wager'[k] # None
                           /\ Publication(k, wager'[k], wager[k].cmd.wallet, None)
                           /\ wager[k].cmd.wallet \in Wallets
<1>1. PICK k \in Keys :
          /\ wager[k] # None /\ ~ IsTerminal(wager[k])
          /\ wager'[k] # None /\ wager'[k].cmd = wager[k].cmd
          /\ wager'[k].status = "PENDING_REFERENCE" /\ wager'[k].ref = wager[k].ref
          /\ \A j \in Keys \ {k} : wager'[j] = wager[j]
          /\ UNCHANGED <<wallet, ledger, outbox, inbox, lapsed>>
    BY RescheduleFacts
<1>2. wager[k].ref = None /\ wager[k].cmd.key = k /\ wager[k].cmd.wallet \in Wallets
    BY <1>1, PendingFacts, RowsFacts, RowFacts, CommandFacts DEF Undecided
<1>3. ~ MovesMoney(wager'[k])
    BY <1>1 DEF MovesMoney
<1> QED BY <1>1, <1>2, <1>3 DEF Publication

(* The direction that a processed wager took can still be read off its rows. *)
LEMMA DirectionStays ==
    ASSUME IInv, DInv, [Next]_vars, NEW k \in Keys, wager[k] # None,
           wager[k].status = "PROCESSED"
    PROVE  /\ wager'[k] = wager[k]
           /\ Direction(wager'[k], wager'[wager'[k].ref]) = Direction(wager[k], wager[wager[k].ref])
<1>1. wager'[k] = wager[k]
    BY RowsOnlySettle DEF IsTerminal, Terminal
<1>2. CASE wager[k].ref = None
    <2>1. ~ RequiresReference(wager[k])
        BY <1>2 DEF DInv, RowInv, ChecksPass
    <2>2. \A x : Direction(wager[k], x) = PlainDirection(wager[k].cmd.kind)
        BY <2>1 DEF RequiresReference, ReversalKinds, Direction
    <2> QED BY <1>1, <2>2
<1>3. CASE wager[k].ref # None
    <2>1. wager[k].ref \in Keys /\ wager[wager[k].ref] # None
          /\ wager[wager[k].ref].status = "PROCESSED"
        BY <1>3, RowsFacts, RowFacts DEF DInv, RowInv
    <2>2. wager'[wager[k].ref] = wager[wager[k].ref]
        BY <2>1, RowsOnlySettle DEF IsTerminal, Terminal
    <2> QED BY <1>1, <2>2
<1> QED BY <1>2, <1>3

LEMMA TracesStay ==
    ASSUME IInv, DInv, MInv, [Next]_vars, NEW w \in Wallets, NEW i \in DOMAIN ledger[w]
    PROVE  Traces(w, i)'
<1>0. PICK e : e = ledger[w][i]
    OBVIOUS
<1>1. Traces(w, i) /\ ledger'[w][i] = e
    BY <1>0, LedgersOnlyGrow DEF MInv
<1>2. e.tx \in Keys
    <2>1. ledger[w] \in Seq(LedgerEntry)
        BY DEF IInv, TypeOK
    <2>2. e \in LedgerEntry
        BY <1>0, <2>1
    <2> QED BY <2>2 DEF LedgerEntry
<1>3. /\ wager'[e.tx] = wager[e.tx]
      /\ Direction(wager'[e.tx], wager'[wager'[e.tx].ref])
             = Direction(wager[e.tx], wager[wager[e.tx].ref])
    BY <1>0, <1>1, <1>2, DirectionStays DEF Traces, MovesMoney
<1> QED BY <1>0, <1>1, <1>3 DEF Traces

(* An undo can only be added: a reversal that stands now stood before, or   *)
(* is the one that is published.                                           *)
LEMMA StandingStays ==
    ASSUME IInv, DInv, MInv, IInv', NEW k \in Keys, NEW row, NEW w, NEW entry,
           Publication(k, row, w, entry), NEW j \in Keys
    PROVE  StandsAlone(j)'
<1>1. /\ \A i \in Keys : wager'[i] # None => wager'[i] \in Rows' /\ wager'[i].cmd.key = i
      /\ \A r \in Rows' : r.cmd.key \in Keys /\ wager'[r.cmd.key] = r /\ r # None
    BY RowsFacts, IInv' DEF Rows, IInv, TypeOK, RowsAreKeyed
<1>2. \A r \in Rows : r.status = "PROCESSED" => r \in Rows'
    BY <1>1, RowsFacts DEF Publication, IsTerminal, Terminal
<1>3. \A r \in Rows' : r = row \/ r \in Rows
    BY <1>1, RowsFacts DEF Publication
<1> DEFINE Undone(S, a) == \E u \in S : /\ u.ref = a.cmd.key /\ u.status = "PROCESSED"
                                        /\ u.cmd.kind = "ROLLBACK"
           Stands(S, a) == /\ a \in S /\ a.ref = j /\ a.status = "PROCESSED"
                           /\ a.cmd.kind \in ReversalKinds /\ ~ Undone(S, a)
<1>4. /\ \A a : a \in StandingReversals(j) <=> Stands(Rows, a)
      /\ \A a : a \in StandingReversals(j)' <=> Stands(Rows', a)
    BY DEF StandingReversals
<1>5. \A a : Undone(Rows, a) => Undone(Rows', a)
    BY <1>2
<1>6. ASSUME NEW a, Stands(Rows', a) PROVE a = row \/ Stands(Rows, a)
    BY <1>3, <1>5, <1>6
<1>7. ASSUME Stands(Rows', row) PROVE \A a : ~ Stands(Rows, a)
    <2>1. row.ref = j /\ ~ HasActiveReversal(Rows, row.ref)
        BY <1>7 DEF Publication, RequiresReference
    <2> QED BY <2>1 DEF HasActiveReversal
<1> HIDE DEF Undone, Stands
<1>8. \A a, b : Stands(Rows, a) /\ Stands(Rows, b) => a = b
    BY <1>4 DEF MInv, StandsAlone
<1>9. \A a, b : Stands(Rows', a) /\ Stands(Rows', b) => a = b
    BY <1>6, <1>7, <1>8
<1> QED BY <1>4, <1>9 DEF StandsAlone

LEMMA PublicationKeepsTraces ==
    ASSUME IInv, DInv, MInv, [Next]_vars, NEW k \in Keys, NEW row, NEW w \in Wallets, NEW entry,
           Publication(k, row, w, entry)
    PROVE  MInv'
<1>1. IInv'
    BY NextIInv
<1>2. ledger \in [Wallets -> Seq(LedgerEntry)]
    BY DEF IInv, TypeOK
(* Nothing traces k before it is decided. *)
<1>3. \A v \in Wallets : \A i \in DOMAIN ledger[v] : ledger[v][i].tx # k
    <2>1. \A v \in Wallets : \A i \in DOMAIN ledger[v] : Traces(v, i)
        BY DEF MInv
    <2>2. ~ (wager[k] # None /\ MovesMoney(wager[k]))
        BY DEF Publication, MovesMoney, IsTerminal, Terminal
    <2> QED BY <2>1, <2>2 DEF Traces
<1>4. CASE entry = None
    <2>1. ledger' = ledger /\ ~ MovesMoney(row)
        BY <1>4 DEF Publication
    <2>2. \A v \in Wallets : TracedOnce(v)' /\ \A i \in DOMAIN ledger'[v] : Traces(v, i)'
        BY <2>1, TracesStay DEF MInv, TracedOnce
    <2>3. ASSUME NEW j \in Keys PROVE IsTraced(j)'
        <3>1. j # k => wager'[j] = wager[j]
            BY DEF Publication
        <3>2. wager'[k] = row
            BY DEF Publication
        <3> QED BY <2>1, <3>1, <3>2 DEF MInv, IsTraced
    <2> QED BY <1>1, <2>2, <2>3, StandingStays DEF MInv
<1>5. CASE entry # None
    <2>1. /\ entry \in LedgerEntry /\ entry.tx = k /\ MovesMoney(row)
          /\ ledger' = [ledger EXCEPT ![w] = Append(ledger[w], entry)]
          /\ wager'[k] = row /\ row # None /\ row.cmd.wallet = w
          /\ \A j \in Keys \ {k} : wager'[j] = wager[j]
        BY <1>5 DEF Publication
    <2>2. \A v \in Wallets \ {w} : ledger'[v] = ledger[v]
        BY <1>2, <2>1
    <2>0. PICK n : n = Len(ledger[w]) + 1
        OBVIOUS
    <2>3. /\ DOMAIN ledger'[w] = DOMAIN ledger[w] \cup {n} /\ ledger'[w][n] = entry
          /\ \A i \in DOMAIN ledger[w] : ledger'[w][i] = ledger[w][i]
          /\ n \notin DOMAIN ledger[w]
        BY <1>2, <2>1, <2>0
    <2>4. Traces(w, n)'
        <3>1. row.ref # None => row.ref # k
            BY <1>5 DEF Publication, IsTerminal, Terminal
        <3>2. Direction(row, wager'[row.ref]) = Direction(row, wager[row.ref])
            <4>1. CASE row.ref # None
                BY <2>1, <3>1, <4>1 DEF Publication
            <4>2. CASE row.ref = None
                <5>1. ~ RequiresReference(row)
                    BY <2>1, <4>2 DEF Publication, MovesMoney
                <5> QED BY <5>1 DEF Direction, RequiresReference, ReversalKinds
            <4> QED BY <4>1, <4>2
        <3> QED BY <1>5, <2>1, <2>3, <3>2 DEF Traces, Publication
    <2>5. ASSUME NEW v \in Wallets, NEW i \in DOMAIN ledger'[v] PROVE Traces(v, i)'
        BY <2>2, <2>3, <2>4, TracesStay
    <2>6. ASSUME NEW v \in Wallets PROVE TracedOnce(v)'
        <3>1. CASE v # w
            BY <2>2, <3>1 DEF MInv, TracedOnce
        <3>2. CASE v = w
            <4>1. TracedOnce(w)
                BY DEF MInv
            <4> QED BY <1>3, <2>1, <2>3, <3>2, <4>1 DEF TracedOnce
        <3> QED BY <3>1, <3>2
    <2>7. ASSUME NEW j \in Keys PROVE IsTraced(j)'
        <3>1. CASE j = k
            BY <2>1, <2>3, <3>1 DEF IsTraced
        <3>2. CASE j # k
            <4> SUFFICES ASSUME wager[j] # None, MovesMoney(wager[j])
                         PROVE  \E i \in DOMAIN ledger'[wager[j].cmd.wallet] :
                                    ledger'[wager[j].cmd.wallet][i].tx = j
                BY <2>1, <3>2 DEF IsTraced
            <4>1. wager[j].cmd.wallet \in Wallets
                BY RowsFacts, RowFacts, CommandFacts
            <4>2. PICK i \in DOMAIN ledger[wager[j].cmd.wallet] :
                      ledger[wager[j].cmd.wallet][i].tx = j
                BY DEF MInv, IsTraced
            <4> QED BY <4>1, <4>2, LedgersOnlyGrow
        <3> QED BY <3>1, <3>2
    <2> QED BY <1>1, <2>5, <2>6, <2>7, StandingStays DEF MInv
<1> QED BY <1>4, <1>5

LEMMA NextMInv == IInv /\ DInv /\ MInv /\ [Next]_vars => MInv'
<1> SUFFICES ASSUME IInv, DInv, MInv, [Next]_vars PROVE MInv'
    OBVIOUS
<1>1. ASSUME UNCHANGED <<wager, ledger>> PROVE MInv'
    <2>1. \A k \in Keys : IsTraced(k)' /\ StandsAlone(k)'
        BY <1>1 DEF MInv, IsTraced, StandsAlone, StandingReversals, Rows
    <2>2. \A w \in Wallets : TracedOnce(w)' /\ \A i \in DOMAIN ledger'[w] : Traces(w, i)'
        BY <1>1 DEF MInv, TracedOnce, Traces
    <2> QED BY <2>1, <2>2 DEF MInv
<1>2. ASSUME NEW p \in Procs, Commit(p) PROVE MInv'
    BY <1>2, CommitPublishes, PublicationKeepsTraces
<1>3. ASSUME NEW p \in Handlers, CommitCreation(p) PROVE MInv'
    BY <1>1, <1>3, CreationPublishes, PublicationKeepsTraces
<1>4. ASSUME NEW p \in Resolvers, Reschedule(p) PROVE MInv'
    BY <1>4, ReschedulePublishes, PublicationKeepsTraces
<1> QED BY <1>1, <1>2, <1>3, <1>4, PublishingSteps

LEMMA OpeningsAreRecorded ==
    ASSUME Init, NEW w \in Existing, OpeningOf[w].amount > 0
    PROVE  /\ w \in Wallets /\ ledger[w] = <<OpeningOutcome(w).entry>>
           /\ OpeningOf[w].key \in Keys
           /\ wager[OpeningOf[w].key] = OpeningOutcome(w).row
<1>1. w \in Wallets /\ OpeningOf[w].key \in Keys
    BY ExistingAssumption, CommandFacts
<1>2. wager[OpeningOf[w].key] # None
    <2>1. \E v \in Existing : OpeningOf[v].key = OpeningOf[w].key /\ OpeningOf[v].amount > 0
        OBVIOUS
    <2>2. /\ (CHOOSE v \in Existing : OpeningOf[v].key = OpeningOf[w].key) \in Existing
          /\ OpeningOf[CHOOSE v \in Existing : OpeningOf[v].key = OpeningOf[w].key].key
                 = OpeningOf[w].key
        OBVIOUS
    <2>3. (CHOOSE v \in Existing : OpeningOf[v].key = OpeningOf[w].key) = w
        BY <1>1, <2>2, ExistingAssumption, CommandFacts
    <2>4. wager[OpeningOf[w].key] = OpeningOutcome(w).row
        BY <1>1, <2>1, <2>3 DEF Init
    <2> QED BY <1>1, <2>4, OpeningSound
<1>3. PICK v \in Existing : /\ OpeningOf[v].key = OpeningOf[w].key
                            /\ wager[OpeningOf[w].key] = OpeningOutcome(v).row
    BY <1>1, <1>2, InitRows
<1>4. v = w
    BY <1>1, <1>3, ExistingAssumption, CommandFacts
<1> QED BY <1>1, <1>3, <1>4 DEF Init

LEMMA OpeningMovesMoney ==
    ASSUME NEW w \in Wallets
    PROVE  LET o == OpeningOutcome(w)
           IN  /\ o.entry # None /\ o.entry.tx = OpeningOf[w].key /\ MovesMoney(o.row)
               /\ o.row # None /\ o.row.cmd.wallet = w
               /\ o.entry.amount = o.row.cmd.amount /\ o.entry.after = o.row.balance
               /\ \A x : o.entry.direction = Direction(o.row, x)
               /\ o.row.cmd.kind \notin ReversalKinds
<1>0. PICK o : o = OpeningOutcome(w)
    OBVIOUS
<1>1. /\ Sound(o) /\ o.row # None /\ o.row.cmd = OpeningOf[w]
      /\ o.entry.direction = "CREDIT" /\ o.entry \in LedgerEntry
    BY <1>0, OpeningSound, OpeningFacts
<1>2. OpeningOf[w].kind = "OPENING" /\ OpeningOf[w].wallet = w
    BY OpeningAssumption
<1>3. o.entry # None
    BY <1>1, NoneAssumption
<1>4. \A x : Direction(o.row, x) = "CREDIT"
    BY <1>1, <1>2 DEF Direction, PlainDirection
<1> QED BY <1>0, <1>1, <1>2, <1>3, <1>4 DEF Sound, ReversalKinds

LEMMA InitMInv == Init => MInv
<1> SUFFICES ASSUME Init PROVE MInv
    OBVIOUS
<1>1. \A w \in Wallets :
          \/ ledger[w] = <<>>
          \/ /\ w \in Existing /\ OpeningOf[w].amount > 0
             /\ ledger[w] = <<OpeningOutcome(w).entry>>
    BY DEF Init
<1>2. ASSUME NEW w \in Wallets PROVE TracedOnce(w)
    BY <1>1 DEF TracedOnce
<1>3. ASSUME NEW w \in Wallets, NEW i \in DOMAIN ledger[w] PROVE Traces(w, i)
    <2>1. /\ w \in Existing /\ OpeningOf[w].amount > 0 /\ i = 1
          /\ ledger[w][i] = OpeningOutcome(w).entry
        BY <1>1
    <2>2. PICK o : o = OpeningOutcome(w)
        OBVIOUS
    <2>3. wager[o.entry.tx] = o.row /\ ledger[w][i] = o.entry
        BY <2>1, <2>2, OpeningsAreRecorded, OpeningMovesMoney
    <2> QED BY <2>2, <2>3, OpeningMovesMoney DEF Traces
<1>4. ASSUME NEW k \in Keys PROVE IsTraced(k)
    <2> SUFFICES ASSUME wager[k] # None
                 PROVE  \E i \in DOMAIN ledger[wager[k].cmd.wallet] :
                            ledger[wager[k].cmd.wallet][i].tx = k
        BY DEF IsTraced
    <2>1. PICK w \in Existing : /\ w \in Wallets /\ OpeningOf[w].key = k
                                /\ OpeningOf[w].amount > 0 /\ wager[k].cmd = OpeningOf[w]
        BY InitRows
    <2>2. wager[k].cmd.wallet = w
        BY <2>1, OpeningAssumption
    <2>3. ledger[w] = <<OpeningOutcome(w).entry>> /\ OpeningOutcome(w).entry.tx = k
        BY <2>1, OpeningsAreRecorded, OpeningMovesMoney
    <2> QED BY <2>2, <2>3
<1>5. ASSUME NEW k \in Keys PROVE StandsAlone(k)
    <2>1. ASSUME NEW a \in Rows PROVE a.cmd.kind \notin ReversalKinds
        <3>1. PICK j \in Keys : wager[j] # None /\ wager[j] = a
            BY DEF Rows
        <3>2. PICK w \in Wallets : a = OpeningOutcome(w).row
            BY <3>1, InitRows
        <3> QED BY <3>2, OpeningMovesMoney
    <2> QED BY <2>1 DEF StandsAlone, StandingReversals
<1> QED BY <1>2, <1>3, <1>4, <1>5 DEF MInv

(* Every ledger entry is the trace of one processed wager of its wallet, of  *)
(* its amount and direction, every such wager has one, and at most one     *)
(* reversal of a wager stands.                                             *)
THEOREM MoneyIsTraced == Spec => []MInv
<1>1. IInv /\ DInv /\ MInv /\ [Next]_vars => MInv'
    BY NextMInv
<1> QED BY <1>1, InitMInv, DecisionsHold, PTL DEF Spec

LEMMA EffectsAre ==
    ASSUME NEW k
    PROVE  /\ \A x \in Effects(k) : \E w \in Wallets : \E i \in DOMAIN ledger[w] :
                  ledger[w][i].tx = k /\ x = <<w, i>>
           /\ \A w \in Wallets : \A i \in DOMAIN ledger[w] :
                  ledger[w][i].tx = k => <<w, i>> \in Effects(k)
BY DEF Effects

LEMMA EffectIsUnique ==
    ASSUME IInv, MInv, NEW k \in Keys, wager[k] # None, MovesMoney(wager[k])
    PROVE  \E i \in DOMAIN ledger[wager[k].cmd.wallet] :
               /\ Effects(k) = {<<wager[k].cmd.wallet, i>>}
               /\ ledger[wager[k].cmd.wallet][i].tx = k
               /\ Traces(wager[k].cmd.wallet, i)
<1>0. PICK w : w = wager[k].cmd.wallet
    OBVIOUS
<1>1. w \in Wallets
    BY <1>0, RowsFacts, RowFacts, CommandFacts
<1>2. PICK i \in DOMAIN ledger[w] : ledger[w][i].tx = k
    BY <1>0 DEF MInv, IsTraced
<1>3. Traces(w, i)
    BY <1>1 DEF MInv
<1>4. <<w, i>> \in Effects(k)
    BY <1>1, <1>2, EffectsAre
<1>5. ASSUME NEW x \in Effects(k) PROVE x = <<w, i>>
    <2>1. PICK v \in Wallets : \E j \in DOMAIN ledger[v] : ledger[v][j].tx = k /\ x = <<v, j>>
        BY EffectsAre
    <2>2. PICK j \in DOMAIN ledger[v] : ledger[v][j].tx = k /\ x = <<v, j>>
        BY <2>1
    <2>3. Traces(v, j)
        BY DEF MInv
    <2>4. v = w
        BY <1>0, <2>2, <2>3 DEF Traces
    <2>5. j = i
        BY <1>1, <1>2, <2>2, <2>4 DEF MInv, TracedOnce
    <2> QED BY <2>2, <2>4, <2>5
<1> QED BY <1>0, <1>2, <1>3, <1>4, <1>5

(* One fact moves money exactly once: a processed wager that moves money    *)
(* has one ledger entry, in its wallet and for its amount, and every other  *)
(* wager has none, whatever mix of retries, redeliveries and workers came.  *)
THEOREM FactsMoveMoneyOnce == Spec => []OneEffectPerFact
<1>1. ASSUME IInv, MInv PROVE OneEffectPerFact
    <2>1. ASSUME NEW k \in Keys, wager[k] # None, MovesMoney(wager[k])
          PROVE  \E i \in DOMAIN ledger[wager[k].cmd.wallet] :
                     /\ Effects(k) = {<<wager[k].cmd.wallet, i>>}
                     /\ ledger[wager[k].cmd.wallet][i].amount = wager[k].cmd.amount
                     /\ ledger[wager[k].cmd.wallet][i].after = wager[k].balance
        <3>1. PICK w : w = wager[k].cmd.wallet
            OBVIOUS
        <3>2. PICK i \in DOMAIN ledger[w] :
                  Effects(k) = {<<w, i>>} /\ ledger[w][i].tx = k /\ Traces(w, i)
            BY <1>1, <2>1, <3>1, EffectIsUnique
        <3>3. ledger[w][i].amount = wager[k].cmd.amount /\ ledger[w][i].after = wager[k].balance
            BY <3>2 DEF Traces
        <3> QED BY <3>1, <3>2, <3>3
    <2>2. ASSUME NEW k \in Keys, ~ (wager[k] # None /\ MovesMoney(wager[k]))
          PROVE  Effects(k) = {}
        <3>1. ASSUME NEW x \in Effects(k) PROVE FALSE
            <4>1. PICK w \in Wallets : \E i \in DOMAIN ledger[w] : ledger[w][i].tx = k
                BY EffectsAre
            <4>2. PICK i \in DOMAIN ledger[w] : ledger[w][i].tx = k
                BY <4>1
            <4>3. Traces(w, i)
                BY <1>1 DEF MInv
            <4> QED BY <2>2, <4>2, <4>3 DEF Traces
        <3> QED BY <3>1
    <2> QED BY <2>1, <2>2 DEF OneEffectPerFact
<1> QED BY <1>1, DecisionsHold, MoneyIsTraced, PTL

(* A wager is never given back twice: of the processed reversals of it, at  *)
(* most one has not been rolled back itself.                               *)
THEOREM ReversalsStandAlone == Spec => []OneStandingReversal
<1>1. ASSUME MInv PROVE OneStandingReversal
    <2> SUFFICES ASSUME NEW k \in Keys PROVE Cardinality(StandingReversals(k)) <= 1
        BY DEF OneStandingReversal
    <2>0. PICK S : S = StandingReversals(k)
        OBVIOUS
    <2>1. \A a, b \in S : a = b
        BY <1>1, <2>0 DEF MInv, StandsAlone
    <2>2. CASE S = {}
        BY <2>0, <2>2, FS_EmptySet
    <2>3. CASE S # {}
        <3>1. PICK a : S = {a}
            BY <2>1, <2>3
        <3>2. Cardinality({a}) = 1
            BY FS_Singleton
        <3> QED BY <2>0, <3>1, <3>2
    <2> QED BY <2>2, <2>3
<1> QED BY <1>1, MoneyIsTraced, PTL

LEMMA EntryOfWager ==
    ASSUME IInv, MInv, NEW k \in Keys, NEW e,
           wager[k] # None, e \in {ledger[x[1]][x[2]] : x \in Effects(k)}
    PROVE  /\ e \in LedgerEntry /\ e.amount = wager[k].cmd.amount
           /\ e.direction = Direction(wager[k], wager[wager[k].ref])
<1>1. PICK x \in Effects(k) : e = ledger[x[1]][x[2]]
    OBVIOUS
<1>2. PICK w \in Wallets : \E i \in DOMAIN ledger[w] : ledger[w][i].tx = k /\ x = <<w, i>>
    BY EffectsAre
<1>3. PICK i \in DOMAIN ledger[w] : ledger[w][i].tx = k /\ x = <<w, i>>
    BY <1>2
<1>4. Traces(w, i) /\ e = ledger[w][i]
    BY <1>1, <1>3 DEF MInv
<1>5. e \in LedgerEntry
    <2>1. ledger[w] \in Seq(LedgerEntry)
        BY DEF IInv, TypeOK
    <2> QED BY <1>4, <2>1
<1> QED BY <1>3, <1>4, <1>5 DEF Traces

(* A reversal gives back all of a processed wager of its wallet and round,  *)
(* or nothing: its entry moves the reference's amount the other way.       *)
THEOREM ReversalsMirror == Spec => []ReversalsMirrorTheirReference
<1>1. ASSUME IInv, DInv, MInv PROVE ReversalsMirrorTheirReference
    <2> SUFFICES ASSUME NEW r \in Rows, r.status = "PROCESSED", r.cmd.kind \in ReversalKinds
                 PROVE  /\ wager[r.ref] # None /\ wager[r.ref].status = "PROCESSED"
                        /\ SameBinding(r, wager[r.ref])
                        /\ \A e \in EntriesOf(r), f \in EntriesOf(wager[r.ref]) :
                              Signed(e) = - Signed(f)
        BY DEF ReversalsMirrorTheirReference
    <2>1. /\ r.cmd.key \in Keys /\ wager[r.cmd.key] = r /\ r # None /\ r \in Row
        BY <1>1, RowsFacts
    <2>2. RowInv(r.cmd.key)
        BY <1>1, <2>1 DEF DInv
    <2>3. /\ r.ref # None /\ wager[r.ref] # None /\ wager[r.ref].status = "PROCESSED"
          /\ ReversalFailure(r, wager[r.ref]) = NoCode
        BY <2>1, <2>2 DEF RowInv, ChecksPass, RequiresReference
    <2>4. PICK x, k : k = r.ref /\ x = wager[k]
        OBVIOUS
    <2>5. k \in Keys /\ x # None /\ x.cmd.key = k
        BY <1>1, <2>1, <2>3, <2>4, RowFacts, RowsFacts
    <2>6. /\ SameBinding(r, x) /\ x.cmd.amount = r.cmd.amount
          /\ x.cmd.kind \in ReversibleKinds(r.cmd.kind)
        BY <2>3, <2>4, ReferenceCodes
    <2>7. ASSUME NEW e \in EntriesOf(r), NEW f \in EntriesOf(x) PROVE Signed(e) = - Signed(f)
        <3>1. /\ e \in LedgerEntry /\ e.amount = r.cmd.amount
              /\ e.direction = Direction(r, x)
            BY <1>1, <2>1, <2>4, EntryOfWager DEF EntriesOf
        <3>2. /\ f \in LedgerEntry /\ f.amount = x.cmd.amount
              /\ f.direction = Direction(x, wager[x.ref])
            BY <1>1, <2>4, <2>5, EntryOfWager DEF EntriesOf
        <3>3. \/ x.cmd.kind = "BET"
              \/ r.cmd.kind = "ROLLBACK" /\ x.cmd.kind \in {"WIN", "REFUND"}
            BY <2>6 DEF ReversibleKinds, ReversalKinds
        <3>4. \/ e.direction = "CREDIT" /\ f.direction = "DEBIT"
              \/ e.direction = "DEBIT" /\ f.direction = "CREDIT"
            BY <3>1, <3>2, <3>3 DEF Direction, PlainDirection, ReversalKinds
        <3>5. e.amount \in Int /\ f.amount = e.amount
            BY <2>6, <3>1, <3>2, MaxBalanceAssumption DEF LedgerEntry, Amount
        <3> QED BY <3>4, <3>5 DEF Signed
    <2> QED BY <2>3, <2>4, <2>6, <2>7
<1> QED BY <1>1, DecisionsHold, MoneyIsTraced, PTL

-----------------------------------------------------------------------------
(* The events of the outbox. *)

Announced(row) ==
    {IF row.status = "PROCESSED" THEN "Processed" ELSE "Rejected"}
        \cup (IF MovesMoney(row) THEN {"WalletBalanceChanged"} ELSE {})
FirstVersion(w) == IF OpeningOf[w].amount > 0 THEN 1 ELSE 2

(* f announces what has become of a wager, and a version its wallet had. *)
Justified(f) ==
    f.type # "PendingReference" =>
        LET r == wager[f.tx]
        IN  /\ r # None /\ IsTerminal(r) /\ f.type \in Announced(r)
            /\ f.type = "WalletBalanceChanged" =>
                  /\ wallet[r.cmd.wallet] # None
                  /\ f.version \in FirstVersion(r.cmd.wallet) .. wallet[r.cmd.wallet].version
IsAnnounced(k) ==
    (wager[k] # None /\ IsTerminal(wager[k])) =>
        \A t \in Announced(wager[k]) : \E f \in outbox : f.tx = k /\ f.type = t
VersionsAreAnnounced(w) ==
    wallet[w] # None =>
        \A n \in FirstVersion(w) .. wallet[w].version :
            \E f \in outbox : /\ f.type = "WalletBalanceChanged" /\ f.version = n
                              /\ wager[f.tx] # None /\ wager[f.tx].cmd.wallet = w

VInv ==
    /\ \A f \in outbox : Justified(f)
    /\ \A k \in Keys : IsAnnounced(k)
    /\ \A w \in Wallets : VersionsAreAnnounced(w)

Verdict(row) ==
    CASE row.status = "PROCESSED" -> "Processed"
      [] row.status = "PENDING_REFERENCE" -> "PendingReference"
      [] OTHER -> "Rejected"

LEMMA EventsAre ==
    ASSUME NEW o, NEW v
    PROVE  /\ \A f \in Events(o, v) :
                 /\ f.tx = o.row.cmd.key
                 /\ \/ f.type = Verdict(o.row)
                    \/ o.entry # None /\ f.version = v /\ f.type = "WalletBalanceChanged"
           /\ \E f \in Events(o, v) : f.tx = o.row.cmd.key /\ f.type = Verdict(o.row)
           /\ o.entry # None =>
                 \E f \in Events(o, v) :
                    f.tx = o.row.cmd.key /\ f.version = v /\ f.type = "WalletBalanceChanged"
<1> DEFINE a == [type |-> Verdict(o.row), tx |-> o.row.cmd.key, version |-> 0]
           b == [type |-> "WalletBalanceChanged", tx |-> o.row.cmd.key, version |-> v]
<1>1. Events(o, v) = {a} \cup IF o.entry = None THEN {} ELSE {b}
    BY DEF Events, Verdict
<1>2. /\ a.type = Verdict(o.row) /\ a.tx = o.row.cmd.key
      /\ b.type = "WalletBalanceChanged" /\ b.tx = o.row.cmd.key /\ b.version = v
    OBVIOUS
<1> HIDE DEF a, b
<1> QED BY <1>1, <1>2

(* A verdict is announced as such when the row is terminal. *)
LEMMA VerdictFacts ==
    ASSUME NEW r, r.status \in Statuses, r.status # "PENDING"
    PROVE  /\ IsTerminal(r) => Verdict(r) \in Announced(r)
           /\ ~ IsTerminal(r) => Verdict(r) = "PendingReference" /\ ~ MovesMoney(r)
           /\ Verdict(r) # "WalletBalanceChanged"
           /\ MovesMoney(r) => IsTerminal(r) /\ "WalletBalanceChanged" \in Announced(r)
           /\ \A t \in Announced(r) : IsTerminal(r) =>
                  t = Verdict(r) \/ (MovesMoney(r) /\ t = "WalletBalanceChanged")
BY DEF Verdict, Announced, IsTerminal, Terminal, Statuses, MovesMoney

(* What one transaction announces about wager k: its verdict and, when it    *)
(* moves money, version n of the wallet.                                   *)
Announces(k, row, w, n, new) ==
    /\ row # None /\ row.cmd.wallet = w
    /\ row.status \in Statuses /\ row.status # "PENDING"
    /\ wager'[k] = row
    /\ \A j \in Keys \ {k} : wager'[j] = wager[j]
    /\ outbox' = outbox \cup new
    /\ \A f \in new : /\ f.tx = k
                       /\ \/ f.type = Verdict(row)
                          \/ MovesMoney(row) /\ f.version = n /\ f.type = "WalletBalanceChanged"
    /\ \E f \in new : f.tx = k /\ f.type = Verdict(row)
    /\ ~ MovesMoney(row) => UNCHANGED wallet
    /\ MovesMoney(row) =>
          /\ \A v \in Wallets \ {w} : wallet'[v] = wallet[v]
          /\ wallet'[w] # None /\ wallet'[w].version = n
          /\ n \in Nat /\ n >= FirstVersion(w)
          /\ IF wallet[w] = None THEN n = FirstVersion(w) ELSE n = wallet[w].version + 1
          /\ \E f \in new : f.tx = k /\ f.version = n /\ f.type = "WalletBalanceChanged"

LEMMA CommitAnnounces ==
    ASSUME IInv, DInv, OInv, NEW p \in Procs, Commit(p)
    PROVE  \E n, new : /\ work[p].cmd.key \in Keys /\ work[p].cmd.wallet \in Wallets
                       /\ Announces(work[p].cmd.key, plan[p].row, work[p].cmd.wallet, n, new)
<1>0. PICK k, w, o, n, new :
          /\ k = work[p].cmd.key /\ w = work[p].cmd.wallet /\ o = plan[p]
          /\ n = (IF o.entry = None THEN 0 ELSE snap[p].version + 1)
          /\ new = Events(o, n)
    OBVIOUS
<1>1. /\ pc[p] = "commit" /\ k \in Keys /\ w \in Wallets /\ PlanShape(p)
      /\ o.row \in Row /\ o.row # None /\ o.row.cmd = work[p].cmd
      /\ wager'[k] = o.row /\ \A j \in Keys \ {k} : wager'[j] = wager[j]
      /\ o.entry = None => wallet' = wallet
      /\ o.entry # None => /\ HoldsWallet(p) /\ wallet[w] # None
                           /\ wallet' = [wallet EXCEPT ![w] = Moved(p)]
    BY <1>0, CommitFacts
<1>2. outbox' = outbox \cup new
    BY <1>0 DEF Commit
<1>3. Sound(o) /\ o.row.cmd.key = k /\ o.row.cmd.wallet = w /\ o.row.status \in Statuses
    BY <1>0, <1>1, RowFacts DEF PlanShape
<1>4. o.row.status # "PENDING" /\ (o.entry # None <=> MovesMoney(o.row))
    BY <1>3 DEF Sound
<1>5. /\ \A f \in new : /\ f.tx = k
                        /\ \/ f.type = Verdict(o.row)
                           \/ /\ MovesMoney(o.row) /\ f.version = n
                              /\ f.type = "WalletBalanceChanged"
      /\ \E f \in new : f.tx = k /\ f.type = Verdict(o.row)
      /\ MovesMoney(o.row) =>
             \E f \in new : f.tx = k /\ f.version = n /\ f.type = "WalletBalanceChanged"
    BY <1>0, <1>3, <1>4, EventsAre
<1>6. ASSUME o.entry # None
      PROVE  /\ \A v \in Wallets \ {w} : wallet'[v] = wallet[v]
             /\ wallet'[w] # None /\ wallet'[w].version = n
             /\ n \in Nat /\ n >= FirstVersion(w)
             /\ wallet[w] # None /\ n = wallet[w].version + 1
    <2>1. /\ Moved(p) \in WalletRow /\ Moved(p).version = n
          /\ snap[p] = wallet[w] /\ wallet[w] # None /\ n = wallet[w].version + 1
          /\ wallet[w] \in WalletRow
        BY <1>0, <1>1, <1>6, MovedFacts DEF HoldsWallet
    <2>2. wallet[w].version \in Nat /\ wallet[w].version >= 1
        BY <1>1, <2>1 DEF WalletRow, OInv, OwnedByOpening
    <2>3. FirstVersion(w) \in 1 .. 2
        BY DEF FirstVersion
    <2>4. \A v \in Wallets : wallet'[v] = IF v = w THEN Moved(p) ELSE wallet[v]
        BY <1>1, <1>6 DEF IInv, TypeOK
    <2>5. Moved(p) # None
        BY <2>1, NoneAssumption
    <2> QED BY <1>1, <2>1, <2>2, <2>3, <2>4, <2>5
<1>7. Announces(k, o.row, w, n, new)
    BY <1>1, <1>2, <1>3, <1>4, <1>5, <1>6 DEF Announces
<1> QED BY <1>0, <1>1, <1>7

LEMMA CreationAnnounces ==
    ASSUME IInv, NEW p \in Handlers, CommitCreation(p)
    PROVE  \E w \in Wallets :
               /\ wallet[w] = None
               /\ \/ /\ UNCHANGED <<wager, outbox>> /\ ~ (OpeningOf[w].amount > 0)
                     /\ wallet' = [wallet EXCEPT ![w] = OpenWallet(w, OpeningOf[w].amount)]
                  \/ \E new : /\ OpeningOf[w].key \in Keys
                              /\ Announces(OpeningOf[w].key, OpeningOutcome(w).row, w, 1, new)
<1>1. PICK w \in Wallets :
          /\ wallet[w] = None /\ wager[OpeningOf[w].key] = None
          /\ OpeningOf[w].key \in Keys /\ OpeningOf[w].wallet = w
          /\ wallet' = [wallet EXCEPT ![w] = OpenWallet(w, OpeningOf[w].amount)]
          /\ OpeningOf[w].amount = 0 => UNCHANGED <<wager, ledger, outbox>>
          /\ OpeningOf[w].amount # 0 =>
                /\ wager' = [wager EXCEPT ![OpeningOf[w].key] = OpeningOutcome(w).row]
                /\ outbox' = outbox \cup Events(OpeningOutcome(w), 1)
    BY CreationFacts
<1>2. CASE OpeningOf[w].amount # 0
    <2>0. PICK k, o, new : k = OpeningOf[w].key /\ o = OpeningOutcome(w) /\ new = Events(o, 1)
        OBVIOUS
    <2>1. /\ Sound(o) /\ o.row # None /\ o.row.cmd = OpeningOf[w] /\ o.row.status = "PROCESSED"
          /\ o.entry \in LedgerEntry /\ o.row.cmd.key = k /\ o.row.cmd.wallet = w
        BY <1>1, <2>0, OpeningSound, OpeningFacts
    <2>2. wager'[k] = o.row /\ \A j \in Keys \ {k} : wager'[j] = wager[j]
        BY <1>1, <1>2, <2>0 DEF IInv, TypeOK
    <2>3. o.entry # None /\ MovesMoney(o.row)
        BY <2>1, NoneAssumption DEF Sound
    <2>4. \A v \in Wallets : wallet'[v] = IF v = w THEN OpenWallet(w, OpeningOf[w].amount)
                                         ELSE wallet[v]
        BY <1>1 DEF IInv, TypeOK
    <2>5. /\ OpenWallet(w, OpeningOf[w].amount) # None
          /\ OpenWallet(w, OpeningOf[w].amount).version = 1
        BY OpeningFacts, OpenWalletFacts, NoneAssumption
    <2>6. FirstVersion(w) = 1
        <3>1. OpeningOf[w].amount \in Nat
            BY CommandFacts, MaxBalanceAssumption DEF Amount
        <3> QED BY <1>2, <3>1 DEF FirstVersion
    <2>7. /\ \A f \in new : /\ f.tx = k
                            /\ \/ f.type = Verdict(o.row)
                               \/ f.version = 1 /\ f.type = "WalletBalanceChanged"
          /\ \E f \in new : f.tx = k /\ f.type = Verdict(o.row)
          /\ \E f \in new : f.tx = k /\ f.version = 1 /\ f.type = "WalletBalanceChanged"
        BY <2>0, <2>1, <2>3, EventsAre
    <2>8. o.row.status \in Statuses /\ o.row.status # "PENDING"
        BY <2>1 DEF Statuses, Terminal
    <2>9. outbox' = outbox \cup new
        BY <1>1, <1>2, <2>0
    <2>10. Announces(k, o.row, w, 1, new)
        BY <1>1, <2>1, <2>2, <2>3, <2>4, <2>5, <2>6, <2>7, <2>8, <2>9 DEF Announces
    <2>11. OpeningOf[w].key \in Keys /\ Announces(OpeningOf[w].key, OpeningOutcome(w).row, w, 1, new)
        BY <1>1, <2>0, <2>10
    <2> QED BY <1>1, <2>11
<1>3. CASE OpeningOf[w].amount = 0
    <2>1. UNCHANGED <<wager, outbox>> /\ ~ (OpeningOf[w].amount > 0)
        BY <1>1, <1>3
    <2> QED BY <1>1, <2>1
<1> QED BY <1>2, <1>3

(* What was announced stays true: rows only settle and versions only grow. *)
LEMMA AnnouncedStays ==
    ASSUME IInv, DInv, VInv, [Next]_vars, outbox \subseteq outbox',
           \A v \in Wallets : wallet[v] # None =>
               /\ wallet'[v] # None
               /\ wallet'[v] = wallet[v] \/ wallet'[v].version = wallet[v].version + 1
    PROVE  /\ \A f \in outbox : Justified(f)'
           /\ \A k \in Keys : (wager[k] # None /\ IsTerminal(wager[k])) => IsAnnounced(k)'
           /\ \A v \in Wallets : (wallet[v] # None /\ wallet'[v] = wallet[v])
                                     => VersionsAreAnnounced(v)'
<1>1. outbox \subseteq Event /\ \A f \in outbox : f.tx \in Keys /\ f.version \in Nat
    BY DEF IInv, TypeOK, Event
<1>2. \A v \in Wallets : wallet[v] # None => wallet[v].version \in Nat
    BY DEF IInv, TypeOK, WalletRow
<1>3. \A v : FirstVersion(v) \in Nat
    BY DEF FirstVersion
<1>4. ASSUME NEW f \in outbox PROVE Justified(f)'
    <2> SUFFICES ASSUME f.type # "PendingReference"
                 PROVE  /\ wager'[f.tx] # None /\ IsTerminal(wager'[f.tx])
                        /\ f.type \in Announced(wager'[f.tx])
                        /\ f.type = "WalletBalanceChanged" =>
                              /\ wallet'[wager'[f.tx].cmd.wallet] # None
                              /\ f.version \in FirstVersion(wager'[f.tx].cmd.wallet)
                                                 .. wallet'[wager'[f.tx].cmd.wallet].version
        BY DEF Justified
    <2>1. PICK k, r : k = f.tx /\ r = wager[k]
        OBVIOUS
    <2>2. /\ r # None /\ IsTerminal(r) /\ f.type \in Announced(r) /\ k \in Keys
          /\ f.type = "WalletBalanceChanged" =>
                /\ wallet[r.cmd.wallet] # None
                /\ f.version \in FirstVersion(r.cmd.wallet) .. wallet[r.cmd.wallet].version
        BY <1>1, <2>1 DEF VInv, Justified
    <2>3. wager'[k] = r
        BY <2>1, <2>2, RowsOnlySettle
    <2>4. PICK w : w = r.cmd.wallet
        OBVIOUS
    <2>5. w \in Wallets
        BY <2>1, <2>2, <2>4, RowsFacts, RowFacts, CommandFacts
    <2>6. f.type = "WalletBalanceChanged" =>
              wallet'[w] # None /\ f.version \in FirstVersion(w) .. wallet'[w].version
        BY <1>1, <1>2, <1>3, <2>2, <2>4, <2>5
    <2> QED BY <2>1, <2>2, <2>3, <2>4, <2>6
<1>5. ASSUME NEW k \in Keys, wager[k] # None, IsTerminal(wager[k]) PROVE IsAnnounced(k)'
    <2>1. wager'[k] = wager[k]
        BY <1>5, RowsOnlySettle
    <2>2. \A t \in Announced(wager[k]) : \E f \in outbox : f.tx = k /\ f.type = t
        BY <1>5 DEF VInv, IsAnnounced
    <2>3. \A t \in Announced(wager'[k]) : \E f \in outbox' : f.tx = k /\ f.type = t
        BY <2>1, <2>2
    <2> QED BY <2>3 DEF IsAnnounced
<1>6. ASSUME NEW v \in Wallets, wallet[v] # None, wallet'[v] = wallet[v]
      PROVE  VersionsAreAnnounced(v)'
    <2> SUFFICES ASSUME NEW n \in FirstVersion(v) .. wallet[v].version
                 PROVE  \E f \in outbox' : /\ f.type = "WalletBalanceChanged" /\ f.version = n
                                           /\ wager'[f.tx] # None /\ wager'[f.tx].cmd.wallet = v
        BY <1>6 DEF VersionsAreAnnounced
    <2>1. PICK f \in outbox : /\ f.type = "WalletBalanceChanged" /\ f.version = n
                             /\ wager[f.tx] # None /\ wager[f.tx].cmd.wallet = v
        BY <1>6 DEF VInv, VersionsAreAnnounced
    <2>2. wager'[f.tx] # None /\ wager'[f.tx].cmd = wager[f.tx].cmd
        BY <1>1, <2>1, RowsOnlySettle
    <2> QED BY <2>1, <2>2
<1> QED BY <1>4, <1>5, <1>6

LEMMA AnnouncementIsComplete ==
    ASSUME IInv, DInv, VInv, [Next]_vars,
           NEW k \in Keys, NEW row, NEW w \in Wallets, NEW n, NEW new,
           Announces(k, row, w, n, new)
    PROVE  VInv'
<1>1. /\ row # None /\ row.cmd.wallet = w
      /\ row.status \in Statuses /\ row.status # "PENDING"
      /\ wager'[k] = row /\ \A j \in Keys \ {k} : wager'[j] = wager[j]
      /\ outbox' = outbox \cup new
      /\ \A f \in new : /\ f.tx = k
                        /\ \/ f.type = Verdict(row)
                           \/ MovesMoney(row) /\ f.version = n /\ f.type = "WalletBalanceChanged"
      /\ \E f \in new : f.tx = k /\ f.type = Verdict(row)
    BY DEF Announces
<1>2. MovesMoney(row) =>
          /\ \A v \in Wallets \ {w} : wallet'[v] = wallet[v]
          /\ wallet'[w] # None /\ wallet'[w].version = n
          /\ n \in Nat /\ n >= FirstVersion(w)
          /\ IF wallet[w] = None THEN n = FirstVersion(w) ELSE n = wallet[w].version + 1
          /\ \E f \in new : f.tx = k /\ f.version = n /\ f.type = "WalletBalanceChanged"
    BY DEF Announces
<1>3. ~ MovesMoney(row) => UNCHANGED wallet
    BY DEF Announces
<1>4. FirstVersion(w) \in Nat /\ (wallet[w] # None => wallet[w].version \in Nat)
    BY DEF FirstVersion, IInv, TypeOK, WalletRow
<1>5. \A v \in Wallets : wallet[v] # None =>
          /\ wallet'[v] # None
          /\ wallet'[v] = wallet[v] \/ wallet'[v].version = wallet[v].version + 1
    BY <1>2, <1>3
<1>6. /\ \A f \in outbox : Justified(f)'
      /\ \A j \in Keys : (wager[j] # None /\ IsTerminal(wager[j])) => IsAnnounced(j)'
      /\ \A v \in Wallets : (wallet[v] # None /\ wallet'[v] = wallet[v])
                                => VersionsAreAnnounced(v)'
    BY <1>1, <1>5, AnnouncedStays
<1>7. ASSUME NEW f \in new PROVE Justified(f)'
    <2> SUFFICES ASSUME f.type # "PendingReference"
                 PROVE  /\ wager'[f.tx] # None /\ IsTerminal(wager'[f.tx])
                        /\ f.type \in Announced(wager'[f.tx])
                        /\ f.type = "WalletBalanceChanged" =>
                              /\ wallet'[wager'[f.tx].cmd.wallet] # None
                              /\ f.version \in FirstVersion(wager'[f.tx].cmd.wallet)
                                                 .. wallet'[wager'[f.tx].cmd.wallet].version
        BY DEF Justified
    <2>1. f.tx = k /\ wager'[f.tx] = row /\ row # None
        BY <1>1
    <2>2. IsTerminal(row) /\ f.type \in Announced(row)
        BY <1>1, VerdictFacts
    <2>3. f.type = "WalletBalanceChanged" => MovesMoney(row) /\ f.version = n
        BY <1>1, VerdictFacts
    <2>4. f.type = "WalletBalanceChanged" =>
              wallet'[w] # None /\ f.version \in FirstVersion(w) .. wallet'[w].version
        BY <1>2, <1>4, <2>3
    <2> QED BY <1>1, <2>1, <2>2, <2>4
<1>8. ASSUME NEW j \in Keys PROVE IsAnnounced(j)'
    <2>1. CASE j # k
        <3>1. wager'[j] = wager[j]
            BY <1>1, <2>1
        <3> QED BY <1>6, <3>1 DEF IsAnnounced
    <2>2. CASE j = k
        <3>1. ASSUME IsTerminal(row), NEW t \in Announced(row)
              PROVE  \E f \in outbox' : f.tx = k /\ f.type = t
            BY <1>1, <1>2, <3>1, VerdictFacts
        <3> QED BY <1>1, <2>2, <3>1 DEF IsAnnounced
    <2> QED BY <2>1, <2>2
<1>9. ASSUME NEW v \in Wallets PROVE VersionsAreAnnounced(v)'
    <2>1. CASE wallet'[v] = wallet[v]
        BY <1>6, <2>1 DEF VersionsAreAnnounced
    <2>2. CASE v = w /\ MovesMoney(row)
        <3> SUFFICES ASSUME NEW m \in FirstVersion(w) .. n
                     PROVE  \E f \in outbox' :
                                /\ f.type = "WalletBalanceChanged" /\ f.version = m
                                /\ wager'[f.tx] # None /\ wager'[f.tx].cmd.wallet = w
            BY <1>2, <2>2 DEF VersionsAreAnnounced
        <3>1. CASE m = n
            BY <1>1, <1>2, <2>2, <3>1
        <3>2. CASE m # n
            <4>1. wallet[w] # None /\ m \in FirstVersion(w) .. wallet[w].version
                BY <1>2, <1>4, <2>2, <3>2
            <4>2. PICK f \in outbox : /\ f.type = "WalletBalanceChanged" /\ f.version = m
                                     /\ wager[f.tx] # None /\ wager[f.tx].cmd.wallet = w
                BY <4>1 DEF VInv, VersionsAreAnnounced
            <4>3. f.tx \in Keys
                BY DEF IInv, TypeOK, Event
            <4>4. wager'[f.tx] # None /\ wager'[f.tx].cmd = wager[f.tx].cmd
                BY <4>2, <4>3, RowsOnlySettle
            <4> QED BY <1>1, <4>2, <4>4
        <3> QED BY <3>1, <3>2
    <2> QED BY <1>2, <1>3, <2>1, <2>2
<1>10. \A f \in outbox' : Justified(f)'
    BY <1>1, <1>6, <1>7
<1> QED BY <1>8, <1>9, <1>10 DEF VInv

(* A wallet created empty announces nothing. *)
LEMMA EmptyCreation ==
    ASSUME IInv, DInv, VInv, [Next]_vars, NEW w \in Wallets,
           UNCHANGED <<wager, outbox>>, ~ (OpeningOf[w].amount > 0), wallet[w] = None,
           wallet' = [wallet EXCEPT ![w] = OpenWallet(w, OpeningOf[w].amount)]
    PROVE  VInv'
<1>1. /\ \A v \in Wallets \ {w} : wallet'[v] = wallet[v]
      /\ wallet'[w] = OpenWallet(w, OpeningOf[w].amount)
    BY DEF IInv, TypeOK
<1>2. wallet'[w].version = 1 /\ FirstVersion(w) = 2
    BY <1>1, OpenWalletFacts DEF FirstVersion
<1>3. /\ \A f \in outbox : Justified(f)'
      /\ \A v \in Wallets : (wallet[v] # None /\ wallet'[v] = wallet[v])
                                => VersionsAreAnnounced(v)'
    BY <1>1, AnnouncedStays
<1>4. \A k \in Keys : IsAnnounced(k)'
    BY DEF VInv, IsAnnounced
<1>5. \A v \in Wallets : VersionsAreAnnounced(v)'
    BY <1>1, <1>2, <1>3 DEF VersionsAreAnnounced
<1> QED BY <1>3, <1>4, <1>5 DEF VInv

LEMMA RescheduleIsSilent ==
    ASSUME IInv, DInv, VInv, [Next]_vars, NEW p \in Resolvers, Reschedule(p)
    PROVE  VInv'
<1>1. PICK k \in Keys :
          /\ wager'[k] # None /\ wager'[k].status = "PENDING_REFERENCE"
          /\ \A j \in Keys \ {k} : wager'[j] = wager[j]
          /\ UNCHANGED <<wallet, outbox>>
    BY RescheduleFacts
<1>2. /\ \A f \in outbox : Justified(f)'
      /\ \A j \in Keys : (wager[j] # None /\ IsTerminal(wager[j])) => IsAnnounced(j)'
      /\ \A v \in Wallets : (wallet[v] # None /\ wallet'[v] = wallet[v])
                                => VersionsAreAnnounced(v)'
    BY <1>1, AnnouncedStays
<1>3. \A j \in Keys : IsAnnounced(j)'
    BY <1>1, <1>2 DEF IsAnnounced, IsTerminal, Terminal
<1>4. \A v \in Wallets : VersionsAreAnnounced(v)'
    BY <1>1, <1>2 DEF VersionsAreAnnounced
<1> QED BY <1>1, <1>2, <1>3, <1>4 DEF VInv

LEMMA NextVInv == IInv /\ DInv /\ OInv /\ VInv /\ [Next]_vars => VInv'
<1> SUFFICES ASSUME IInv, DInv, OInv, VInv, [Next]_vars PROVE VInv'
    OBVIOUS
<1>1. CASE UNCHANGED <<wager, wallet, ledger, outbox>>
    BY <1>1 DEF VInv, Justified, IsAnnounced, VersionsAreAnnounced
<1>2. ASSUME NEW p \in Procs, Commit(p) PROVE VInv'
    BY <1>2, CommitAnnounces, AnnouncementIsComplete
<1>3. ASSUME NEW p \in Handlers, CommitCreation(p) PROVE VInv'
    BY <1>3, CreationAnnounces, AnnouncementIsComplete, EmptyCreation
<1>4. ASSUME NEW p \in Resolvers, Reschedule(p) PROVE VInv'
    BY <1>4, RescheduleIsSilent
<1> QED BY <1>1, <1>2, <1>3, <1>4, PublishingSteps

LEMMA InitVInv == Init => VInv
<1> SUFFICES ASSUME Init PROVE VInv
    OBVIOUS
<1>1. ASSUME NEW w \in Existing, OpeningOf[w].amount > 0, NEW f \in Events(OpeningOutcome(w), 1)
      PROVE  /\ f.tx = OpeningOf[w].key
             /\ f.type \in {"Processed", "WalletBalanceChanged"}
             /\ f.type = "WalletBalanceChanged" => f.version = 1
    <2>0. PICK o : o = OpeningOutcome(w)
        OBVIOUS
    <2>1. w \in Wallets
        BY ExistingAssumption
    <2>2. o.row.cmd.key = OpeningOf[w].key /\ Verdict(o.row) = "Processed"
        BY <2>0, <2>1, OpeningSound DEF Verdict
    <2> QED BY <1>1, <2>0, <2>2, EventsAre
<1>2. ASSUME NEW w \in Existing, OpeningOf[w].amount > 0, NEW t \in {"Processed", "WalletBalanceChanged"}
      PROVE  \E f \in outbox : /\ f.tx = OpeningOf[w].key /\ f.type = t
                               /\ t = "WalletBalanceChanged" => f.version = 1
    <2>0. PICK o : o = OpeningOutcome(w)
        OBVIOUS
    <2>1. w \in Wallets /\ Events(o, 1) \subseteq outbox
        BY <1>2, <2>0, ExistingAssumption DEF Init
    <2>2. o.row.cmd.key = OpeningOf[w].key /\ Verdict(o.row) = "Processed" /\ o.entry # None
        BY <2>0, <2>1, OpeningSound, OpeningMovesMoney DEF Verdict
    <2> QED BY <2>0, <2>1, <2>2, EventsAre
<1>3. ASSUME NEW w \in Wallets
      PROVE  /\ wallet[w] # None <=> w \in Existing
             /\ wallet[w] # None => wallet[w].version = 1
             /\ wager[OpeningOf[w].key] = OpeningOutcome(w).row =>
                   LET r == wager[OpeningOf[w].key]
                   IN  /\ r # None /\ IsTerminal(r) /\ r.cmd.wallet = w
                       /\ Announced(r) = {"Processed", "WalletBalanceChanged"}
    <2>1. wallet[w] = IF w \in Existing THEN OpenWallet(w, OpeningOf[w].amount) ELSE None
        BY DEF Init
    <2>2. OpenWallet(w, OpeningOf[w].amount) # None
        BY OpeningFacts, NoneAssumption
    <2>3. PICK r : r = OpeningOutcome(w).row
        OBVIOUS
    <2>4. r # None /\ r.status = "PROCESSED" /\ r.cmd.wallet = w /\ MovesMoney(r)
        BY <2>3, OpeningSound, OpeningMovesMoney
    <2>5. IsTerminal(r) /\ Announced(r) = {"Processed", "WalletBalanceChanged"}
        BY <2>4 DEF IsTerminal, Terminal, Announced
    <2> QED BY <2>1, <2>2, <2>3, <2>4, <2>5, OpenWalletFacts
<1>4. ASSUME NEW f \in outbox PROVE Justified(f)
    <2>1. PICK w \in Existing : OpeningOf[w].amount > 0 /\ f \in Events(OpeningOutcome(w), 1)
        BY DEF Init
    <2>2. /\ w \in Wallets /\ OpeningOf[w].key \in Keys
          /\ wager[OpeningOf[w].key] = OpeningOutcome(w).row
        BY <2>1, OpeningsAreRecorded
    <2>3. /\ f.tx = OpeningOf[w].key
          /\ f.type \in {"Processed", "WalletBalanceChanged"}
          /\ f.type = "WalletBalanceChanged" => f.version = 1
        BY <1>1, <2>1
    <2>4. FirstVersion(w) = 1
        BY <2>1 DEF FirstVersion
    <2>5. PICK r : r = wager[f.tx]
        OBVIOUS
    <2>6. /\ r # None /\ IsTerminal(r) /\ r.cmd.wallet = w
          /\ f.type \in Announced(r)
          /\ wallet[w] # None /\ wallet[w].version = 1
        BY <1>3, <2>2, <2>3, <2>5
    <2>7. f.type = "WalletBalanceChanged" => f.version \in FirstVersion(w) .. wallet[w].version
        BY <2>3, <2>4, <2>6
    <2> QED BY <2>5, <2>6, <2>7 DEF Justified
<1>5. ASSUME NEW k \in Keys PROVE IsAnnounced(k)
    <2> SUFFICES ASSUME wager[k] # None, NEW t \in Announced(wager[k])
                 PROVE  \E f \in outbox : f.tx = k /\ f.type = t
        BY DEF IsAnnounced
    <2>1. PICK w \in Existing : /\ w \in Wallets /\ OpeningOf[w].key = k
                               /\ wager[k] = OpeningOutcome(w).row /\ OpeningOf[w].amount > 0
        BY InitRows
    <2>2. t \in {"Processed", "WalletBalanceChanged"}
        BY <1>3, <2>1
    <2> QED BY <1>2, <2>1, <2>2
<1>6. ASSUME NEW w \in Wallets PROVE VersionsAreAnnounced(w)
    <2> SUFFICES ASSUME wallet[w] # None, NEW n \in FirstVersion(w) .. wallet[w].version
                 PROVE  \E f \in outbox : /\ f.type = "WalletBalanceChanged" /\ f.version = n
                                          /\ wager[f.tx] # None /\ wager[f.tx].cmd.wallet = w
        BY DEF VersionsAreAnnounced
    <2>1. w \in Existing /\ wallet[w].version = 1
        BY <1>3
    <2>2. OpeningOf[w].amount > 0 /\ n = 1
        BY <2>1 DEF FirstVersion
    <2>3. wager[OpeningOf[w].key] # None /\ wager[OpeningOf[w].key].cmd.wallet = w
        BY <1>3, <2>1, <2>2, OpeningsAreRecorded
    <2> QED BY <1>2, <2>1, <2>2, <2>3
<1> QED BY <1>4, <1>5, <1>6 DEF VInv

(* Every event of the outbox announces something that is committed, and      *)
(* everything committed that has to be announced is.                       *)
THEOREM AnnouncementsHold == Spec => []VInv
<1>1. IInv /\ DInv /\ OInv /\ VInv /\ [Next]_vars => VInv'
    BY NextVInv
<1> QED BY <1>1, InitVInv, DecisionsHold, OwnersHold, PTL DEF Spec

(* Nobody waits in silence, and only a reversal waits. *)
WInv ==
    /\ \A k \in Keys : (wager[k] # None /\ HasWaited(wager[k])) =>
                           \E f \in outbox : f.tx = k /\ f.type = "PendingReference"
    /\ \A f \in outbox : f.type = "PendingReference" =>
                             wager[f.tx] # None /\ RequiresReference(wager[f.tx])

(* No decision counts as an attempt, and only a worker's failure fails. *)
LEMMA DecidingIsNoAttempt ==
    ASSUME NEW r \in Row, NEW w
    PROVE  /\ \A c, b : /\ Reject(r, c, b).row.attempts = r.attempts
                        /\ Reject(r, c, b).row.status = "REJECTED"
           /\ \A x : /\ ApplyPlain(r, x, w).row.attempts = r.attempts
                     /\ ApplyPlain(r, x, w).row.status \in {"REJECTED", "PROCESSED"}
           /\ \A x, a : /\ ApplyReversal(r, x, a, w).row.attempts = r.attempts
                        /\ ApplyReversal(r, x, a, w).row.status \in {"REJECTED", "PROCESSED"}
           /\ \A d, k : Apply(r, w, d, k).row.attempts = r.attempts
           /\ ProcessIdle(r, w).row.attempts = r.attempts
           /\ ProcessIdle(r, w).row.status = "PROCESSED"
           /\ Defer(r, w).row.attempts = r.attempts
           /\ Defer(r, w).row.status = "PENDING_REFERENCE"
<1>1. \A s, c, b : /\ [r EXCEPT !.status = s, !.code = c, !.balance = b].attempts = r.attempts
                   /\ [r EXCEPT !.status = s, !.code = c, !.balance = b].status = s
    BY DEF Row
<1>2. \A s, b : /\ [r EXCEPT !.status = s, !.balance = b].attempts = r.attempts
                /\ [r EXCEPT !.status = s, !.balance = b].status = s
    BY DEF Row
<1>3. \A s, b, k : /\ [r EXCEPT !.status = s, !.balance = b, !.ref = k].attempts = r.attempts
                   /\ [r EXCEPT !.status = s, !.balance = b, !.ref = k].status = s
    BY DEF Row
<1>4. \A c, b : /\ Reject(r, c, b).row.attempts = r.attempts
                /\ Reject(r, c, b).row.status = "REJECTED"
    <2> TAKE c, b
    <2>1. PICK x : x = [r EXCEPT !.status = "REJECTED", !.code = c, !.balance = b]
        OBVIOUS
    <2>2. Reject(r, c, b).row = x
        BY <2>1 DEF Reject, Outcome
    <2> QED BY <1>1, <2>1, <2>2
<1>5. /\ ProcessIdle(r, w).row.attempts = r.attempts /\ ProcessIdle(r, w).row.status = "PROCESSED"
      /\ Defer(r, w).row.attempts = r.attempts /\ Defer(r, w).row.status = "PENDING_REFERENCE"
    BY <1>2 DEF ProcessIdle, Defer, Outcome
<1>6. \A d, k : /\ Apply(r, w, d, k).row.attempts = r.attempts
                /\ Apply(r, w, d, k).row.status \in {"REJECTED", "PROCESSED"}
    BY <1>3, <1>4 DEF Apply, Outcome
<1>7. \A x : /\ ApplyPlain(r, x, w).row.attempts = r.attempts
             /\ ApplyPlain(r, x, w).row.status \in {"REJECTED", "PROCESSED"}
    BY <1>4, <1>6 DEF ApplyPlain
<1>8. \A x, a : /\ ApplyReversal(r, x, a, w).row.attempts = r.attempts
                /\ ApplyReversal(r, x, a, w).row.status \in {"REJECTED", "PROCESSED"}
    BY <1>4, <1>6 DEF ApplyReversal
<1> QED BY <1>4, <1>5, <1>6, <1>7, <1>8

LEMMA OpeningsHaveNotWaited ==
    ASSUME NEW w \in Wallets
    PROVE  ~ HasWaited(OpeningOutcome(w).row)
<1>1. Reserved(OpeningOf[w]) \in Row /\ Reserved(OpeningOf[w]).attempts = 0
    BY OpeningFacts, ReservedIsRow, CommandFacts, OpeningAssumption DEF Reserved
<1>2. OpeningOutcome(w).row.attempts = 0
    BY <1>1, DecidingIsNoAttempt DEF OpeningOutcome
<1> QED BY <1>2, OpeningSound DEF HasWaited

(* What a submission writes has not waited, unless it says that it waits. *)
LEMMA SubmissionsHaveNotWaited ==
    ASSUME IInv, DInv, NEW p \in Handlers, pc[p] = "commit", HasWaited(plan[p].row)
    PROVE  plan[p].row.status = "PENDING_REFERENCE"
<1>1. p \in Procs /\ p \notin Resolvers /\ pc[p] \in DecidingLabels
    BY ProcsAssumption DEF Procs, DecidingLabels
<1>2. PICK own : own = Own(p)
    OBVIOUS
<1>3. own \in Row /\ own.attempts = 0
    BY <1>1, <1>2, OwnFacts, OwnUndecided DEF Undecided, Own, Reserved
<1>4. Decided(p)
    BY <1>1 DEF DInv, DecisionInv
<1>5. /\ plan[p].row.attempts = 0
      /\ plan[p].row.status \in {"REJECTED", "PROCESSED", "PENDING_REFERENCE"}
    <2>1. CASE DecidedMissing(p)
        BY <1>2, <1>3, <2>1, DecidingIsNoAttempt DEF DecidedMissing
    <2>2. CASE DecidedByWallet(p)
        BY <1>2, <1>3, <2>2, DecidingIsNoAttempt DEF DecidedByWallet
    <2>3. CASE DecidedIdle(p)
        BY <1>2, <1>3, <2>3, DecidingIsNoAttempt DEF DecidedIdle
    <2>4. CASE DecidedPlain(p)
        BY <1>2, <1>3, <2>4, DecidingIsNoAttempt DEF DecidedPlain
    <2>5. CASE DecidedDefer(p)
        BY <1>2, <1>3, <2>5, DecidingIsNoAttempt DEF DecidedDefer
    <2>6. CASE DecidedReversal(p)
        <3>1. PICK x, a : plan[p] = ApplyReversal(own, x, a, snap[p])
            BY <1>2, <2>6 DEF DecidedReversal
        <3> QED BY <1>3, <3>1, DecidingIsNoAttempt
    <2> QED BY <1>1, <1>4, <2>1, <2>2, <2>3, <2>4, <2>5, <2>6
            DEF Decided, DecidedGiveUp, DecidedFailure
<1> QED BY <1>5 DEF HasWaited

(* A row is written with its announcement, and the rest of the table stays. *)
LEMMA WaitingStaysAnnounced ==
    ASSUME IInv, DInv, WInv, [Next]_vars, NEW k \in Keys, NEW row, row # None,
           wager'[k] = row, \A j \in Keys \ {k} : wager'[j] = wager[j],
           NEW new, outbox' = outbox \cup new,
           HasWaited(row) => \/ wager[k] # None /\ HasWaited(wager[k])
                             \/ \E f \in new : f.tx = k /\ f.type = "PendingReference",
           \A f \in new : f.type = "PendingReference" => f.tx = k /\ RequiresReference(row)
    PROVE  WInv'
<1>1. ASSUME NEW j \in Keys, wager'[j] # None, HasWaited(wager'[j])
      PROVE  \E f \in outbox' : f.tx = j /\ f.type = "PendingReference"
    <2>1. CASE j = k
        BY <1>1, <2>1 DEF WInv
    <2>2. CASE j # k
        BY <1>1, <2>2 DEF WInv
    <2> QED BY <2>1, <2>2
<1>2. ASSUME NEW f \in outbox', f.type = "PendingReference"
      PROVE  wager'[f.tx] # None /\ RequiresReference(wager'[f.tx])
    <2>1. CASE f \in new
        BY <1>2, <2>1
    <2>2. CASE f \in outbox
        <3>1. f.tx \in Keys /\ wager[f.tx] # None /\ RequiresReference(wager[f.tx])
            BY <1>2, <2>2 DEF WInv, IInv, TypeOK, Event
        <3>2. wager'[f.tx] # None /\ wager'[f.tx].cmd = wager[f.tx].cmd
            BY <3>1, RowsOnlySettle
        <3> QED BY <3>1, <3>2 DEF RequiresReference
    <2> QED BY <1>2, <2>1, <2>2
<1> QED BY <1>1, <1>2 DEF WInv, HasWaited, RequiresReference

LEMMA CommitAnnouncesWaiting ==
    ASSUME IInv, DInv, WInv, [Next]_vars, NEW p \in Procs, Commit(p)
    PROVE  WInv'
<1>0. PICK k, o, new :
          /\ k = work[p].cmd.key /\ o = plan[p]
          /\ new = Events(o, IF o.entry = None THEN 0 ELSE snap[p].version + 1)
    OBVIOUS
<1>1. /\ pc[p] = "commit" /\ k \in Keys /\ Sound(o)
      /\ o.row \in Row /\ o.row # None /\ o.row.cmd.key = k
      /\ p \in Resolvers => wager[k] # None /\ ~ IsTerminal(wager[k])
      /\ wager'[k] = o.row /\ \A j \in Keys \ {k} : wager'[j] = wager[j]
      /\ outbox' = outbox \cup new
    BY <1>0, CommitFacts DEF PlanShape
<1>2. /\ \A f \in new : f.tx = k /\ f.type \in {Verdict(o.row), "WalletBalanceChanged"}
      /\ \E f \in new : f.tx = k /\ f.type = Verdict(o.row)
    BY <1>0, <1>1, EventsAre
<1>3. Verdict(o.row) = "PendingReference" <=> o.row.status = "PENDING_REFERENCE"
    BY DEF Verdict
<1>4. p \in Resolvers => HasWaited(wager[k])
    BY <1>1, PendingFacts DEF HasWaited
<1>5. (p \in Handlers /\ HasWaited(o.row)) => o.row.status = "PENDING_REFERENCE"
    BY <1>0, <1>1, SubmissionsHaveNotWaited
<1>6. o.row.status = "PENDING_REFERENCE" => RequiresReference(o.row)
    BY <1>1 DEF Sound, ChecksPass
<1>7. HasWaited(o.row) => \/ wager[k] # None /\ HasWaited(wager[k])
                          \/ \E f \in new : f.tx = k /\ f.type = "PendingReference"
    BY <1>1, <1>2, <1>3, <1>4, <1>5 DEF Procs
<1>8. \A f \in new : f.type = "PendingReference" => f.tx = k /\ RequiresReference(o.row)
    BY <1>2, <1>3, <1>6
<1> QED BY <1>1, <1>7, <1>8, WaitingStaysAnnounced

LEMMA CreationAnnouncesNoWaiting ==
    ASSUME IInv, DInv, WInv, [Next]_vars, NEW p \in Handlers, CommitCreation(p)
    PROVE  WInv'
<1>1. PICK w \in Wallets :
          /\ OpeningOf[w].key \in Keys
          /\ OpeningOf[w].amount = 0 => UNCHANGED <<wager, ledger, outbox>>
          /\ OpeningOf[w].amount # 0 =>
                /\ wager' = [wager EXCEPT ![OpeningOf[w].key] = OpeningOutcome(w).row]
                /\ outbox' = outbox \cup Events(OpeningOutcome(w), 1)
    BY CreationFacts
<1>2. CASE OpeningOf[w].amount = 0
    BY <1>1, <1>2 DEF WInv, HasWaited, RequiresReference
<1>3. CASE OpeningOf[w].amount # 0
    <2>0. PICK k, o, new : k = OpeningOf[w].key /\ o = OpeningOutcome(w) /\ new = Events(o, 1)
        OBVIOUS
    <2>1. o.row # None /\ ~ HasWaited(o.row) /\ o.row.cmd.key = k /\ Verdict(o.row) = "Processed"
        BY <2>0, OpeningSound, OpeningsHaveNotWaited DEF Verdict
    <2>2. /\ k \in Keys /\ wager'[k] = o.row /\ \A j \in Keys \ {k} : wager'[j] = wager[j]
          /\ outbox' = outbox \cup new
        BY <1>1, <1>3, <2>0 DEF IInv, TypeOK
    <2>3. \A f \in new : f.type # "PendingReference"
        BY <2>0, <2>1, EventsAre
    <2> QED BY <2>1, <2>2, <2>3, WaitingStaysAnnounced
<1> QED BY <1>2, <1>3

LEMMA NextWInv == IInv /\ DInv /\ WInv /\ [Next]_vars => WInv'
<1> SUFFICES ASSUME IInv, DInv, WInv, [Next]_vars PROVE WInv'
    OBVIOUS
<1>1. CASE UNCHANGED <<wager, wallet, ledger, outbox>>
    BY <1>1 DEF WInv, HasWaited, RequiresReference
<1>2. ASSUME NEW p \in Procs, Commit(p) PROVE WInv'
    BY <1>2, CommitAnnouncesWaiting
<1>3. ASSUME NEW p \in Handlers, CommitCreation(p) PROVE WInv'
    BY <1>3, CreationAnnouncesNoWaiting
<1>4. ASSUME NEW p \in Resolvers, Reschedule(p) PROVE WInv'
    <2>1. PICK k \in Keys :
              /\ wager[k] # None /\ wager[k].status = "PENDING_REFERENCE"
              /\ wager'[k] # None /\ \A j \in Keys \ {k} : wager'[j] = wager[j]
              /\ outbox' = outbox
        BY <1>4, RescheduleFacts
    <2>2. HasWaited(wager[k])
        BY <2>1 DEF HasWaited
    <2>3. PICK row : row = wager'[k] /\ row # None
        BY <2>1
    <2>4. PICK new : new = {} /\ outbox' = outbox \cup new
        <3>1. PICK new : new = {}
            OBVIOUS
        <3> QED BY <2>1, <3>1
    <2>5. \A f \in new : f.type = "PendingReference" => f.tx = k /\ RequiresReference(row)
        BY <2>4
    <2>6. HasWaited(row) => \/ wager[k] # None /\ HasWaited(wager[k])
                            \/ \E f \in new : f.tx = k /\ f.type = "PendingReference"
        BY <2>1, <2>2
    <2>7. wager'[k] = row /\ row # None /\ outbox' = outbox \cup new
        BY <2>3, <2>4
    <2> QED BY <2>1, <2>5, <2>6, <2>7, WaitingStaysAnnounced
<1> QED BY <1>1, <1>2, <1>3, <1>4, PublishingSteps

LEMMA InitWInv == Init => WInv
<1> SUFFICES ASSUME Init PROVE WInv
    OBVIOUS
<1>1. ASSUME NEW k \in Keys, wager[k] # None PROVE ~ HasWaited(wager[k])
    BY <1>1, InitRows, OpeningsHaveNotWaited
<1>2. ASSUME NEW f \in outbox PROVE f.type # "PendingReference"
    <2>1. PICK w \in Existing : f \in Events(OpeningOutcome(w), 1)
        BY DEF Init
    <2>2. Verdict(OpeningOutcome(w).row) = "Processed"
        BY <2>1, OpeningSound, ExistingAssumption DEF Verdict
    <2>3. \A o : f \in Events(o, 1) => f.type \in {Verdict(o.row), "WalletBalanceChanged"}
        BY EventsAre
    <2> QED BY <2>1, <2>2, <2>3
<1> QED BY <1>1, <1>2 DEF WInv

(* What is announced is what is committed: each wager has announced its      *)
(* verdict and no other, one that waits or was given up after waiting that  *)
(* it waits, and each wallet every version of its balance, once it has one, *)
(* and no other.                                                           *)
THEOREM EventsAreExact == Spec => []EventsMatchState
<1>1. ASSUME IInv, VInv, WInv PROVE EventsMatchState
    <2>1. ASSUME NEW k \in Keys, NEW t,
                 t \in {e.type : e \in {f \in outbox : f.tx = k /\ f.type # "PendingReference"}}
          PROVE  wager[k] # None /\ IsTerminal(wager[k]) /\ t \in Announced(wager[k])
        BY <1>1, <2>1 DEF VInv, Justified
    <2>2. ASSUME NEW k \in Keys, wager[k] # None, IsTerminal(wager[k]),
                 NEW t \in Announced(wager[k])
          PROVE  t \in {e.type : e \in {f \in outbox : f.tx = k /\ f.type # "PendingReference"}}
        <3>1. PICK f \in outbox : f.tx = k /\ f.type = t
            BY <1>1, <2>2 DEF VInv, IsAnnounced
        <3>2. t # "PendingReference"
            BY <2>2 DEF Announced
        <3> QED BY <3>1, <3>2
    <2>3. ASSUME NEW k \in Keys
          PROVE  {e.type : e \in {f \in outbox : f.tx = k /\ f.type # "PendingReference"}} =
                     IF wager[k] = None THEN {}
                     ELSE IF ~ IsTerminal(wager[k]) THEN {}
                     ELSE Announced(wager[k])
        BY <2>1, <2>2
    <2>4. ASSUME NEW w \in Wallets, NEW n,
                 n \in {e.version : e \in {f \in outbox : /\ f.type = "WalletBalanceChanged"
                                                       /\ wager[f.tx].cmd.wallet = w}}
          PROVE  wallet[w] # None /\ n \in FirstVersion(w) .. wallet[w].version
        <3>1. PICK f \in outbox : /\ f.type = "WalletBalanceChanged" /\ f.version = n
                                 /\ wager[f.tx].cmd.wallet = w
            BY <2>4
        <3> QED BY <1>1, <3>1 DEF VInv, Justified
    <2>5. ASSUME NEW w \in Wallets, wallet[w] # None,
                 NEW n \in FirstVersion(w) .. wallet[w].version
          PROVE  n \in {e.version : e \in {f \in outbox : /\ f.type = "WalletBalanceChanged"
                                                       /\ wager[f.tx].cmd.wallet = w}}
        <3>1. PICK f \in outbox : /\ f.type = "WalletBalanceChanged" /\ f.version = n
                                 /\ wager[f.tx].cmd.wallet = w
            BY <1>1, <2>5 DEF VInv, VersionsAreAnnounced
        <3> QED BY <3>1
    <2>6. ASSUME NEW w \in Wallets
          PROVE  {e.version : e \in {f \in outbox : /\ f.type = "WalletBalanceChanged"
                                                  /\ wager[f.tx].cmd.wallet = w}} =
                     IF wallet[w] = None THEN {} ELSE FirstVersion(w) .. wallet[w].version
        BY <2>4, <2>5
    <2>7. /\ \A k \in Keys :
                (wager[k] # None /\ HasWaited(wager[k])) =>
                    \E f \in outbox : f.tx = k /\ f.type = "PendingReference"
          /\ \A f \in outbox :
                f.type = "PendingReference" => wager[f.tx] # None /\ RequiresReference(wager[f.tx])
        BY <1>1 DEF WInv
    <2> QED BY <2>3, <2>6, <2>7 DEF EventsMatchState, Announced, FirstVersion
<1>2. IInv /\ DInv /\ WInv /\ [Next]_vars => WInv'
    BY NextWInv
<1> QED BY <1>1, <1>2, InitWInv, DecisionsHold, AnnouncementsHold, PTL DEF Spec

-----------------------------------------------------------------------------
(* The balance of a wallet is the sum of its ledger.  tlapm cannot cite the *)
(* library's induction theorems: instead, the least length at which two     *)
(* functions that satisfy one recurrence could differ is shown not to be.   *)

SumOf(entries) ==
    LET upTo[i \in 0 .. Len(entries)] == IF i = 0 THEN 0 ELSE upTo[i - 1] + Signed(entries[i])
    IN  upTo[Len(entries)]

(* What reconciliation rests on: the balance that is stored is the one the  *)
(* entries of the ledger add up to.                                        *)
BalancesAreSums == \A w \in Wallets : wallet[w] # None => wallet[w].balance = SumOf(ledger[w])

LEMMA LeastException ==
    ASSUME NEW T, T \subseteq Nat, T # {}
    PROVE  \E x \in T : \A y \in T : x <= y
<1> DEFINE R == {p \in Nat \X Nat : p[1] < p[2]}
<1>1. R = OpToRel(<, Nat)
    BY DEF OpToRel
<1>2. IsWellFoundedOn(R, Nat)
    BY <1>1, NatLessThanWellFounded
<1>3. PICK x \in T : \A y \in T : ~ (<<y, x>> \in R)
    BY <1>2, WFMin
<1>4. \A y \in T : <<y, x>> \in R <=> y < x
    BY <1>3
<1> HIDE DEF R
<1>5. \A y \in T : ~ (y < x)
    BY <1>3, <1>4
<1> QED BY <1>5

(* A chain of entries runs through its own partial sums.                    *)
LEMMA ChainsAddUp ==
    ASSUME NEW s \in Seq(LedgerEntry),
           \A i \in 1 .. Len(s) : /\ s[i].after = s[i].before + Signed(s[i])
                                  /\ s[i].before = IF i = 1 THEN 0 ELSE s[i - 1].after
    PROVE  SumOf(s) = IF s = <<>> THEN 0 ELSE s[Len(s)].after
<1> DEFINE n == Len(s)
           Sums(f) == f = [i \in 0 .. n |-> IF i = 0 THEN 0 ELSE f[i - 1] + Signed(s[i])]
           through == [i \in 0 .. n |-> IF i = 0 THEN 0 ELSE s[i].after]
           f == CHOOSE f : Sums(f)
           T == {i \in 0 .. n : f[i] # through[i]}
<1>1. n \in Nat /\ (s = <<>> <=> n = 0)
    OBVIOUS
<1>2. ASSUME NEW i \in 1 .. n PROVE i - 1 \in 0 .. n /\ through[i] = through[i - 1] + Signed(s[i])
    BY <1>1
<1>3. Sums(through)
    <2>1. \A i \in 0 .. n : through[i] = IF i = 0 THEN 0 ELSE through[i - 1] + Signed(s[i])
        <3> TAKE i \in 0 .. n
        <3>1. CASE i = 0
            BY <1>1, <3>1
        <3>2. CASE i # 0
            <4>1. i \in 1 .. n
                BY <1>1, <3>2
            <4> HIDE DEF through
            <4> QED BY <1>2, <3>2, <4>1
        <3> QED BY <3>1, <3>2
    <2>2. through = [i \in 0 .. n |-> through[i]]
        OBVIOUS
    <2> HIDE DEF through, n
    <2> QED BY <2>1, <2>2
<1>4. Sums(f)
    <2> HIDE DEF Sums, through
    <2> QED BY <1>3
<1>5. SumOf(s) = f[n]
    BY DEF SumOf
<1> HIDE DEF f
<1>6. \A i \in 0 .. n : f[i] = IF i = 0 THEN 0 ELSE f[i - 1] + Signed(s[i])
    BY <1>4
<1> HIDE DEF Sums, T
<1>7. T = {}
    <2> SUFFICES ASSUME T # {} PROVE FALSE
        OBVIOUS
    <2>1. T \subseteq Nat
        BY <1>1 DEF T
    <2>2. PICK i \in T : \A j \in T : i <= j
        BY <2>1, LeastException
    <2>3. i \in 0 .. n /\ f[i] # through[i]
        BY <2>2 DEF T
    <2>4. i # 0
        BY <1>1, <1>6, <2>3
    <2>5. i \in 1 .. n /\ i - 1 \in 0 .. n /\ i - 1 < i
        BY <1>1, <2>3, <2>4
    <2>6. ~ (i - 1 \in T)
        BY <1>1, <2>1, <2>2, <2>5
    <2> HIDE DEF through
    <2>7. f[i - 1] = through[i - 1]
        BY <2>5, <2>6 DEF T
    <2>8. f[i] = f[i - 1] + Signed(s[i])
        BY <1>6, <2>4, <2>5
    <2> QED BY <1>2, <2>3, <2>5, <2>7, <2>8
<1>8. f[n] = through[n]
    <2>1. n \in 0 .. n
        BY <1>1
    <2> HIDE DEF through, n
    <2> QED BY <1>7, <2>1 DEF T
<1> QED BY <1>1, <1>5, <1>8

(* No entry is missing from a ledger and none is in it twice or for another *)
(* amount: whatever ran side by side, the balance is what they add up to.  *)
THEOREM LedgersAddUp == Spec => []BalancesAreSums
<1>1. IInv => BalancesAreSums
    <2> SUFFICES ASSUME IInv, NEW w \in Wallets, wallet[w] # None
                 PROVE  wallet[w].balance = SumOf(ledger[w])
        BY DEF BalancesAreSums
    <2>1. LedgerChains /\ ledger[w] \in Seq(LedgerEntry)
        BY DEF IInv, TypeOK
    <2>2. \A i \in 1 .. Len(ledger[w]) :
              /\ ledger[w][i].after = ledger[w][i].before + Signed(ledger[w][i])
              /\ ledger[w][i].before = IF i = 1 THEN 0 ELSE ledger[w][i - 1].after
        BY <2>1 DEF LedgerChains
    <2>3. SumOf(ledger[w]) = IF ledger[w] = <<>> THEN 0 ELSE ledger[w][Len(ledger[w])].after
        BY <2>1, <2>2, ChainsAddUp
    <2> QED BY <2>1, <2>3 DEF LedgerChains
<1> QED BY <1>1, Invariance, PTL

-----------------------------------------------------------------------------
(* Wagering implements SerialWagering.  The mapping is the identity on the *)
(* committed tables, so what has to be shown is that a decision, taken     *)
(* over several statements, is still a decision of the serial              *)
(* specification at the instant of its commit:                             *)
(*                                                                         *)
(*   Commit of a handler    Submit of its command, the decision judged     *)
(*                          against the tables as they are (or one of the  *)
(*                          two older views Submit allows);                *)
(*   Commit of a resolver   Settle, GiveUp or Break of its pending row;    *)
(*   Reschedule             Retry;                                         *)
(*   CommitCreation         Create;                                        *)
(*   Lapse                  Lapse;                                         *)
(*   every other step       nothing.                                       *)
(*                                                                         *)
(* Serial is an instance, so its copies of the rules are first identified  *)
(* with the ones of WagerRules (SameRecords .. SameTables).                *)

(* The rules, as the serial specification has them. *)
LEMMA SameRecords ==
    /\ \A row, entry : Serial!Outcome(row, entry) = Outcome(row, entry)
    /\ \A r, code, b : Serial!Reject(r, code, b) = Reject(r, code, b)
    /\ \A r, w : Serial!Defer(r, w) = Defer(r, w)
    /\ \A r, w : Serial!Fail(r, w) = Fail(r, w)
    /\ \A r, w : Serial!ProcessIdle(r, w) = ProcessIdle(r, w)
    /\ \A c : Serial!Reserved(c) = Reserved(c)
    /\ \A w, r, d : Serial!Entry(w, r, d) = Entry(w, r, d)
    /\ Serial!NoCode = NoCode /\ Serial!ReversalKinds = ReversalKinds
    /\ \A r : Serial!IsTerminal(r) <=> IsTerminal(r)
    /\ \A r : Serial!RequiresReference(r) <=> RequiresReference(r)
    /\ \A r, x : Serial!IsDecidable(r, x) <=> IsDecidable(r, x)
    /\ \A o, v : Serial!Events(o, v) = Events(o, v)
BY DEF Serial!Outcome, Serial!Reject, Serial!Defer, Serial!Fail, Serial!ProcessIdle,
       Serial!Reserved, Serial!Entry, Serial!NoCode, Serial!NoBalance, Serial!ReversalKinds,
       Serial!IsTerminal, Serial!Terminal, Serial!RequiresReference, Serial!IsDecidable,
       Serial!Events,
       Outcome, Reject, Defer, Fail, ProcessIdle, Reserved, Entry, NoCode, NoBalance,
       ReversalKinds, IsTerminal, Terminal, RequiresReference, IsDecidable, Events

LEMMA SameFailures ==
    /\ \A r, x : Serial!ReversalFailure(r, x) = ReversalFailure(r, x)
    /\ \A r, x : Serial!WinReferenceFailure(r, x) = WinReferenceFailure(r, x)
    /\ \A w, r, d : Serial!MovementFailure(w, r, d) = MovementFailure(w, r, d)
    /\ \A r, w : Serial!WalletFailure(r, w) = WalletFailure(r, w)
    /\ \A code, w : Serial!DisclosedBalance(code, w) = DisclosedBalance(code, w)
    /\ \A kind : Serial!PlainDirection(kind) = PlainDirection(kind)
    /\ \A r, x : Serial!Direction(r, x) = Direction(r, x)
    /\ \A rows, k : Serial!HasActiveReversal(rows, k) <=> HasActiveReversal(rows, k)
<1>1. Serial!NoCode = NoCode /\ Serial!NoBalance = NoBalance
    BY DEF Serial!NoCode, NoCode, Serial!NoBalance, NoBalance
<1>2. \A kind : Serial!ReversibleKinds(kind) = ReversibleKinds(kind)
    BY DEF Serial!ReversibleKinds, ReversibleKinds
<1>3. \A r, x : Serial!SameBinding(r, x) <=> SameBinding(r, x)
    BY DEF Serial!SameBinding, SameBinding
<1>4. \A r, x : Serial!BindingFailure(r, x) = BindingFailure(r, x)
    BY <1>1, <1>3 DEF Serial!BindingFailure, BindingFailure
<1>5. \A r, x : Serial!ReversalFailure(r, x) = ReversalFailure(r, x)
    BY <1>1, <1>2, <1>4 DEF Serial!ReversalFailure, ReversalFailure
<1>6. \A r, x : Serial!WinReferenceFailure(r, x) = WinReferenceFailure(r, x)
    BY <1>4 DEF Serial!WinReferenceFailure, WinReferenceFailure
<1>7. \A kind : Serial!PlainDirection(kind) = PlainDirection(kind)
    BY DEF Serial!PlainDirection, PlainDirection
<1>8. \A r, x : Serial!Direction(r, x) = Direction(r, x)
    BY <1>7 DEF Serial!Direction, Direction
<1>9. \A w, r, d : Serial!MovementFailure(w, r, d) = MovementFailure(w, r, d)
    BY <1>1, SameRecords DEF Serial!MovementFailure, MovementFailure
<1>10. \A r, w : Serial!WalletFailure(r, w) = WalletFailure(r, w)
    BY <1>1 DEF Serial!WalletFailure, WalletFailure
<1>11. \A code, w : Serial!DisclosedBalance(code, w) = DisclosedBalance(code, w)
    BY <1>1 DEF Serial!DisclosedBalance, DisclosedBalance
<1>12. \A rows, k : Serial!HasActiveReversal(rows, k) <=> HasActiveReversal(rows, k)
    BY DEF Serial!HasActiveReversal, HasActiveReversal, Serial!ReversalKinds, ReversalKinds
<1> QED BY <1>5, <1>6, <1>7, <1>8, <1>9, <1>10, <1>11, <1>12

LEMMA SameDecisions ==
    /\ \A r, w, d, k : Serial!Apply(r, w, d, k) = Apply(r, w, d, k)
    /\ \A r, x, active, w : active \in BOOLEAN =>
          Serial!ApplyReversal(r, x, active, w) = ApplyReversal(r, x, active, w)
    /\ \A r, x, w : Serial!ApplyPlain(r, x, w) = ApplyPlain(r, x, w)
<1>1. ASSUME NEW r, NEW w, NEW d, NEW k PROVE Serial!Apply(r, w, d, k) = Apply(r, w, d, k)
    <2>1. /\ Serial!MovementFailure(w, r, d) = MovementFailure(w, r, d)
          /\ Serial!Entry(w, r, d) = Entry(w, r, d) /\ Serial!NoCode = NoCode
        BY SameRecords, SameFailures
    <2>2. /\ \A row, entry : Serial!Outcome(row, entry) = Outcome(row, entry)
          /\ \A code, b : Serial!Reject(r, code, b) = Reject(r, code, b)
        BY SameRecords
    <2>3. PICK f, e : f = MovementFailure(w, r, d) /\ e = Entry(w, r, d)
        OBVIOUS
    <2>4. Apply(r, w, d, k) =
              IF f # NoCode THEN Reject(r, f, w.balance)
              ELSE Outcome([r EXCEPT !.status = "PROCESSED", !.balance = e.after, !.ref = k], e)
        BY <2>3 DEF Apply
    <2>5. Serial!Apply(r, w, d, k) =
              IF f # NoCode THEN Reject(r, f, w.balance)
              ELSE Outcome([r EXCEPT !.status = "PROCESSED", !.balance = e.after, !.ref = k], e)
        BY <2>1, <2>2, <2>3 DEF Serial!Apply
    <2> QED BY <2>4, <2>5
<1>2. ASSUME NEW r, NEW x, NEW active \in BOOLEAN, NEW w
      PROVE  Serial!ApplyReversal(r, x, active, w) = ApplyReversal(r, x, active, w)
    <2>1. /\ Serial!ReversalFailure(r, x) = ReversalFailure(r, x) /\ Serial!NoCode = NoCode
          /\ Serial!Direction(r, x) = Direction(r, x)
          /\ \A code, b : Serial!Reject(r, code, b) = Reject(r, code, b)
        BY SameRecords, SameFailures
    <2> QED BY <1>1, <2>1 DEF Serial!ApplyReversal, ApplyReversal
<1>3. ASSUME NEW r, NEW x, NEW w PROVE Serial!ApplyPlain(r, x, w) = ApplyPlain(r, x, w)
    <2>1. /\ Serial!WinReferenceFailure(r, x) = WinReferenceFailure(r, x) /\ Serial!NoCode = NoCode
          /\ \A kind : Serial!PlainDirection(kind) = PlainDirection(kind)
          /\ \A code, b : Serial!Reject(r, code, b) = Reject(r, code, b)
        BY SameRecords, SameFailures
    <2> QED BY <1>1, <2>1 DEF Serial!ApplyPlain, ApplyPlain
<1> QED BY <1>1, <1>2, <1>3

LEMMA SameTables ==
    /\ Serial!Keys = Keys /\ Serial!Rows = Rows
    /\ \A w, b : Serial!OpenWallet(w, b) = OpenWallet(w, b)
    /\ \A w : Serial!Opening(w) = OpeningOutcome(w)
    /\ \A w : Serial!Funded(w) <=> OpeningOf[w].amount > 0
    /\ \A k : Serial!IsExhausted(k) <=> IsExhausted(k)
<1>1. Serial!Keys = Keys
    BY DEF Serial!Keys, Keys, AllCommands
<1>2. Serial!Rows = Rows
    BY <1>1 DEF Serial!Rows, Rows
<1>3. \A w, b : Serial!OpenWallet(w, b) = OpenWallet(w, b)
    BY DEF Serial!OpenWallet, OpenWallet
<1>4. \A w : Serial!Opening(w) = OpeningOutcome(w)
    BY <1>3, SameRecords, SameDecisions DEF Serial!Opening, OpeningOutcome
<1> QED BY <1>1, <1>2, <1>3, <1>4 DEF Serial!Funded, Serial!IsExhausted, IsExhausted

LEMMA InitRefines == Init => Serial!Init
<1> SUFFICES ASSUME Init PROVE Serial!Init
    OBVIOUS
<1>1. wallet = [w \in Wallets |->
                   IF w \in Existing THEN Serial!OpenWallet(w, OpeningOf[w].amount) ELSE None]
    BY SameTables DEF Init
<1>2. ledger = [w \in Wallets |->
                   IF w \in Existing /\ Serial!Funded(w) THEN <<Serial!Opening(w).entry>> ELSE <<>>]
    BY SameTables DEF Init
<1>3. wager = [k \in Serial!Keys |->
                  IF \E w \in Existing : OpeningOf[w].key = k /\ Serial!Funded(w)
                  THEN Serial!Opening(CHOOSE w \in Existing : OpeningOf[w].key = k).row
                  ELSE None]
    BY SameTables DEF Init
<1>4. outbox = UNION {Serial!Events(Serial!Opening(w), 1) :
                         w \in {v \in Existing : Serial!Funded(v)}}
    <2>1. \A w : Serial!Events(Serial!Opening(w), 1) = Events(OpeningOutcome(w), 1)
        BY SameTables, SameRecords
    <2>2. {v \in Existing : Serial!Funded(v)} = {v \in Existing : OpeningOf[v].amount > 0}
        BY SameTables
    <2> QED BY <2>1, <2>2 DEF Init
<1>5. lapsed = {}
    BY DEF Init
<1> QED BY <1>1, <1>2, <1>3, <1>4, <1>5 DEF Serial!Init

-----------------------------------------------------------------------------
(* The steps that publish nothing, and the ones that publish no decision.  *)

LEMMA LapsesAlone ==
    ASSUME [Next]_vars PROVE UNCHANGED lapsed \/ \E k \in Keys : Lapse(k)
<1>1. CASE UNCHANGED vars
    BY <1>1 DEF vars
<1>2. ASSUME NEW p \in Procs, StepOf(p) PROVE UNCHANGED lapsed
    BY <1>2 DEF StepOf, HandlerOnly, HandlerStep, ResolverOnly, ResolverStep, BeginHttp,
                BeginDelivery, ReserveInbox, ClassifyRedelivery, ReserveWager, FindByKey,
                FindByExternal, MissWallet, LockWallet, ReadReference, CommitCreation, Reply,
                InsertWallet, LockDue, Reschedule, Peek, SettleLock, Reread, Defect,
                LockFailedRow, RecordFailure, ReadSlot, Commit, Abort
<1> QED BY <1>1, <1>2, NextIsSteps

LEMMA LapseRefines ==
    ASSUME NEW k \in Keys, Lapse(k) PROVE Serial!Lapse(k)
BY DEF Lapse, Serial!Lapse, Serial!IsPending, committed

LEMMA RescheduleRefines ==
    ASSUME IInv, DInv, NEW p \in Resolvers, Reschedule(p)
    PROVE  \E k \in Keys : Serial!Retry(k)
<1>1. PICK k \in Keys :
          /\ wager[k] # None /\ wager[k].status = "PENDING_REFERENCE"
          /\ wager[k].attempts < MaxAttempts
          /\ wager'[k] = [wager[k] EXCEPT !.attempts = wager[k].attempts + 1]
          /\ wager' = [wager EXCEPT ![k] = wager'[k]]
          /\ UNCHANGED <<wallet, ledger, outbox, inbox, lapsed>>
    BY RescheduleFacts
<1>2. wager' = [wager EXCEPT ![k].attempts = @ + 1]
    BY <1>1
<1> QED BY <1>1, <1>2 DEF Serial!Retry, Serial!IsPending

LEMMA CreationRefines ==
    ASSUME IInv, OInv, NEW p \in Handlers, CommitCreation(p)
    PROVE  \E w \in Wallets : Serial!Create(w)
<1>1. PICK w \in Wallets :
          /\ work[p].cmd = OpeningOf[w] /\ pc[p] = "create" /\ wallet[w] = None
          /\ wallet' = [wallet EXCEPT ![w] = OpenWallet(w, OpeningOf[w].amount)]
          /\ OpeningOf[w].amount = 0 => UNCHANGED <<wager, ledger, outbox>>
          /\ OpeningOf[w].amount # 0 =>
                /\ wager' = [wager EXCEPT ![OpeningOf[w].key] = OpeningOutcome(w).row]
                /\ ledger' = [ledger EXCEPT ![w] = <<OpeningOutcome(w).entry>>]
                /\ outbox' = outbox \cup Events(OpeningOutcome(w), 1)
          /\ UNCHANGED lapsed
    BY CreationFacts
<1>2. \A v \in Wallets : wallet[v] # None =>
          OpeningOf[v].player # OpeningOf[w].player \/ OpeningOf[v].currency # OpeningOf[w].currency
    BY <1>1 DEF OInv, CreatesAnother, SameOwner
<1>3. OpeningOf[w].amount \in Nat
    BY CommandFacts, MaxBalanceAssumption DEF Amount
<1>4. wallet' = [wallet EXCEPT ![w] = Serial!OpenWallet(w, OpeningOf[w].amount)]
    BY <1>1, SameTables
<1>5. IF ~ Serial!Funded(w) THEN UNCHANGED <<wager, ledger, outbox>>
      ELSE /\ wager' = [wager EXCEPT ![OpeningOf[w].key] = Serial!Opening(w).row]
           /\ ledger' = [ledger EXCEPT ![w] = <<Serial!Opening(w).entry>>]
           /\ outbox' = outbox \cup Serial!Events(Serial!Opening(w), 1)
    BY <1>1, <1>3, SameTables, SameRecords
<1> QED BY <1>1, <1>2, <1>4, <1>5 DEF Serial!Create

-----------------------------------------------------------------------------
(* A commit publishes its plan as the serial specification does.           *)

LEMMA UpdateOfRow ==
    ASSUME NEW f, NEW w \in DOMAIN f, NEW b, NEW n
    PROVE  [f EXCEPT ![w].balance = b, ![w].version = n] =
               [f EXCEPT ![w] = [f[w] EXCEPT !.balance = b, !.version = n]]
OBVIOUS

LEMMA CommitPublishesSerially ==
    ASSUME IInv, DInv, NEW p \in Procs, Commit(p)
    PROVE  Serial!Publish(plan[p])
<1>0. PICK k, w, o, v :
          /\ k = work[p].cmd.key /\ w = work[p].cmd.wallet /\ o = plan[p]
          /\ v = (IF o.entry = None THEN 0 ELSE wallet[w].version + 1)
    OBVIOUS
<1>1. /\ k \in Keys /\ w \in Wallets /\ o.row.cmd = work[p].cmd
      /\ wager' = [wager EXCEPT ![k] = o.row]
      /\ o.entry = None => UNCHANGED <<wallet, ledger>>
      /\ o.entry # None => /\ HoldsWallet(p) /\ wallet[w] # None
                           /\ wallet' = [wallet EXCEPT ![w] = Moved(p)]
                           /\ ledger' = [ledger EXCEPT ![w] = Append(ledger[w], o.entry)]
      /\ outbox' = outbox \cup Events(o, IF o.entry = None THEN 0 ELSE snap[p].version + 1)
      /\ lapsed' = lapsed
    BY <1>0, CommitFacts
<1>2. o.row.cmd.key = k /\ o.row.cmd.wallet = w
    BY <1>0, <1>1
<1>3. outbox' = outbox \cup Serial!Events(o, v)
    BY <1>0, <1>1, SameRecords DEF HoldsWallet
<1>4. ASSUME o.entry # None
      PROVE  wallet' = [wallet EXCEPT ![w].balance = o.entry.after, ![w].version = v]
    <2>1. Moved(p) = [wallet[w] EXCEPT !.balance = o.entry.after, !.version = v]
        BY <1>0, <1>1, <1>4 DEF Moved, HoldsWallet
    <2>2. w \in DOMAIN wallet
        BY <1>1 DEF IInv, TypeOK
    <2>3. [wallet EXCEPT ![w].balance = o.entry.after, ![w].version = v] =
              [wallet EXCEPT ![w] = [wallet[w] EXCEPT !.balance = o.entry.after, !.version = v]]
        BY <2>2, UpdateOfRow
    <2> QED BY <1>1, <1>4, <2>1, <2>3
<1>5. ASSUME o.entry # None PROVE ledger' = [ledger EXCEPT ![w] = Append(@, o.entry)]
    BY <1>1, <1>5
<1>6. Serial!Publish(o)
    BY <1>0, <1>1, <1>2, <1>3, <1>4, <1>5 DEF Serial!Publish
<1> QED BY <1>0, <1>6

-----------------------------------------------------------------------------
(* Every decision is still the right one when it is published.             *)

(* The reference at the instant of the commit is what a lookup would find. *)
LEMMA ReferenceNow ==
    ASSUME IInv, DInv, NEW p \in Procs, pc[p] \in DecidingLabels
    PROVE  Serial!Reference(Own(p)) = Lookup(p, work[p].cmd.ref)
<1>1. /\ Own(p).cmd = work[p].cmd
      /\ p \in Resolvers => Own(p) = wager[work[p].cmd.key] /\ wager[work[p].cmd.key] # None
      /\ work[p].cmd.key \in Keys
    BY OwnUndecided
<1>2. Rows \cup {Own(p)} = Rows \cup (IF p \in Handlers THEN {Own(p)} ELSE {})
    BY <1>1, RowsFacts DEF Procs
<1> DEFINE L(V) == LET hits == {r \in V : r.cmd.ext = work[p].cmd.ref}
                   IN  IF hits = {} THEN None ELSE CHOOSE r \in hits : TRUE
<1>3. Serial!Reference(Own(p)) = L(Rows \cup {Own(p)})
    BY <1>1, SameTables DEF Serial!Reference
<1>4. Lookup(p, work[p].cmd.ref) = L(Rows \cup (IF p \in Handlers THEN {Own(p)} ELSE {}))
    BY DEF Lookup
<1> HIDE DEF L
<1> QED BY <1>2, <1>3, <1>4

LEMMA ReferenceFacts ==
    ASSUME IInv, DInv, NEW p \in Procs, pc[p] \in DecidingLabels,
           NEW x, x = Serial!Reference(Own(p))
    PROVE  /\ x = None =>
                 /\ \A k \in Keys : wager[k] # None => ~ IsReference(p, wager[k])
                 /\ p \in Handlers => work[p].cmd.ext # work[p].cmd.ref
           /\ x # None => IsReference(p, x) /\ (x \in Rows \/ (p \in Handlers /\ x = Own(p)))
           /\ \A y : Against(p, y) => x = y /\ Serial!IsDecidable(Own(p), x) /\ x # None
           /\ (x # None /\ (p \in Resolvers \/ work[p].cmd.ext # work[p].cmd.ref)) =>
                 x \in Rows /\ wager[x.cmd.key] = x /\ x.cmd.key \in Keys
           /\ \A k \in Keys : (wager[k] # None /\ IsReference(p, wager[k])
                                /\ (p \in Resolvers \/ work[p].cmd.ext # work[p].cmd.ref))
                                  => wager[k] = x
<1>1. x = Lookup(p, work[p].cmd.ref)
    BY ReferenceNow
<1>2. /\ x = None =>
            /\ \A k \in Keys : wager[k] # None => ~ IsReference(p, wager[k])
            /\ p \in Handlers => work[p].cmd.ext # work[p].cmd.ref
      /\ x # None => IsReference(p, x) /\ (x \in Rows \/ (p \in Handlers /\ x = Own(p)))
      /\ x \in Rows =>
            /\ \A k \in Keys : (wager[k] # None /\ IsReference(p, wager[k])) => wager[k] = x
            /\ p \in Handlers => work[p].cmd.ext # work[p].cmd.ref
    BY <1>1, LookupSees
<1>3. /\ Own(p).cmd = work[p].cmd
      /\ p \in Handlers => pc[p] \in Reserving
      /\ p \in Handlers => p \notin Resolvers
    BY OwnUndecided, ProcsAssumption
       DEF DecidingLabels, Reserving, IInv, ProcInv, HandlerInv, HandlerLabels
<1>4. p \in Handlers => \A k \in Keys : wager[k] # None => wager[k].cmd.ext # work[p].cmd.ext
    BY <1>3 DEF DInv, ReservedExtIsFree
<1>5. (x # None /\ (p \in Resolvers \/ work[p].cmd.ext # work[p].cmd.ref)) =>
          x \in Rows /\ wager[x.cmd.key] = x /\ x.cmd.key \in Keys
    BY <1>2, <1>3, RowsFacts DEF IsReference
<1>6. \A k \in Keys : (wager[k] # None /\ IsReference(p, wager[k])
                        /\ (p \in Resolvers \/ work[p].cmd.ext # work[p].cmd.ref))
                          => wager[k] = x
    BY <1>2, <1>5
<1>7. ASSUME NEW y, Against(p, y)
      PROVE  x = y /\ Serial!IsDecidable(Own(p), x) /\ x # None
    <2>1. CASE Settled(y)
        <3>1. /\ y \in Rows /\ y.cmd.key \in Keys /\ wager[y.cmd.key] # None
              /\ wager[y.cmd.key] = y /\ IsReference(p, y)
            BY <1>7, <2>1, SettledFacts DEF Against
        <3>2. x # None
            BY <1>2, <3>1
        <3>3. x \in Rows
            BY <1>2, <1>3, <1>4, <3>1, <3>2 DEF IsReference
        <3>4. x = y
            BY <1>2, <3>1, <3>3
        <3>5. IsTerminal(y)
            BY <2>1 DEF Settled
        <3> QED BY <3>2, <3>4, <3>5, SameRecords DEF IsDecidable
    <2>2. CASE p \in Handlers /\ y = Own(p)
        <3>1. work[p].cmd.ext = work[p].cmd.ref
            BY <1>3, <1>7, <2>2 DEF Against, IsReference
        <3>2. x = y /\ x # None
            BY <1>2, <2>2, <3>1
        <3> QED BY <2>2, <3>2, SameRecords DEF IsDecidable
    <2> QED BY <1>7, <2>1, <2>2 DEF Against
<1> QED BY <1>2, <1>5, <1>6, <1>7

(* What the serial specification decides, in the words of the core. *)
LEMMA Judgement ==
    ASSUME NEW own, NEW x, NEW w, NEW j, j = Serial!Judge(own, x, w),
           NEW decidable \in BOOLEAN, decidable <=> x # None /\ IsDecidable(own, x)
    PROVE  /\ WalletFailure(own, w) # NoCode =>
                 j = Reject(own, WalletFailure(own, w), DisclosedBalance(WalletFailure(own, w), w))
           /\ WalletFailure(own, w) = NoCode =>
                 /\ own.cmd.kind = "LOSS" => j = ProcessIdle(own, w)
                 /\ (own.cmd.kind # "LOSS" /\ ~ RequiresReference(own)) =>
                       IF own.cmd.ref # None /\ decidable THEN j = ApplyPlain(own, x, w)
                       ELSE j = ApplyPlain(own, None, w)
                 /\ (RequiresReference(own) /\ ~ decidable) => j = Defer(own, w)
                 /\ (RequiresReference(own) /\ decidable) =>
                       j = ApplyReversal(own, x, HasActiveReversal(Rows, x.cmd.key), w)
<1>1. /\ Serial!WalletFailure(own, w) = WalletFailure(own, w) /\ Serial!NoCode = NoCode
      /\ \A code : Serial!DisclosedBalance(code, w) = DisclosedBalance(code, w)
      /\ \A code, b : Serial!Reject(own, code, b) = Reject(own, code, b)
      /\ Serial!ProcessIdle(own, w) = ProcessIdle(own, w)
      /\ Serial!Defer(own, w) = Defer(own, w)
      /\ Serial!RequiresReference(own) <=> RequiresReference(own)
      /\ Serial!Rows = Rows
    BY SameRecords, SameFailures, SameTables
<1>2. (IF x = None THEN FALSE ELSE Serial!IsDecidable(own, x)) <=> decidable
    BY SameRecords
<1>3. \A y : Serial!ApplyPlain(own, y, w) = ApplyPlain(own, y, w)
    BY SameDecisions
<1>4. Serial!HasActiveReversal(Serial!Rows, x.cmd.key) <=> HasActiveReversal(Rows, x.cmd.key)
    BY <1>1, SameFailures
<1>5. /\ Serial!HasActiveReversal(Serial!Rows, x.cmd.key) \in BOOLEAN
      /\ HasActiveReversal(Rows, x.cmd.key) \in BOOLEAN
    BY DEF HasActiveReversal, Serial!HasActiveReversal
<1>6. Serial!ApplyReversal(own, x, Serial!HasActiveReversal(Serial!Rows, x.cmd.key), w)
          = ApplyReversal(own, x, HasActiveReversal(Rows, x.cmd.key), w)
    <2>1. Serial!HasActiveReversal(Serial!Rows, x.cmd.key) = HasActiveReversal(Rows, x.cmd.key)
        BY <1>4, <1>5
    <2> QED BY <1>5, <2>1, SameDecisions
<1>7. RequiresReference(own) => own.cmd.kind # "LOSS"
    BY DEF RequiresReference, ReversalKinds
<1>8. j = IF WalletFailure(own, w) # NoCode
          THEN Reject(own, WalletFailure(own, w), DisclosedBalance(WalletFailure(own, w), w))
          ELSE IF own.cmd.kind = "LOSS" THEN ProcessIdle(own, w)
          ELSE IF ~ RequiresReference(own)
          THEN ApplyPlain(own, IF own.cmd.ref # None /\ decidable THEN x ELSE None, w)
          ELSE IF ~ decidable THEN Defer(own, w)
          ELSE ApplyReversal(own, x, HasActiveReversal(Rows, x.cmd.key), w)
    BY <1>1, <1>2, <1>3, <1>6 DEF Serial!Judge
<1>9. PICK y : y = IF own.cmd.ref # None /\ decidable THEN x ELSE None
    OBVIOUS
<1> QED BY <1>7, <1>8, <1>9

(* A handler's plan is a verdict of this instant, given one of its views.   *)
LEMMA SubmissionIsJudged ==
    ASSUME IInv, DInv, NEW p \in Handlers, pc[p] = "commit"
    PROVE  \E x \in Serial!Views(Own(p)), w \in Serial!WalletViews(work[p].cmd.wallet) :
               plan[p] = Serial!Judge(Own(p), x, w)
<1>0. PICK own, c, x : own = Own(p) /\ c = work[p].cmd /\ x = Serial!Reference(Own(p))
    OBVIOUS
<1>1. /\ p \in Procs /\ pc[p] \in DecidingLabels /\ Decided(p) /\ p \notin Resolvers
      /\ own.cmd = c /\ c.wallet \in Wallets /\ wager[c.key] = None /\ c \in Commands
      /\ c.key \in Keys
    BY <1>0, OwnUndecided, ProcsAssumption DEF Procs, DecidingLabels, DInv, DecisionInv
<1>2. /\ x \in Serial!Views(own) /\ wallet[c.wallet] \in Serial!WalletViews(c.wallet)
      /\ c.wallet \notin Existing => None \in Serial!WalletViews(c.wallet)
      /\ Serial!Unordered(own, x) => None \in Serial!Views(own)
    BY <1>0 DEF Serial!Views, Serial!WalletViews
<1>3. /\ x # None => IsReference(p, x) /\ (x \in Rows \/ x = own)
      /\ \A y : Against(p, y) => x = y /\ Serial!IsDecidable(own, x) /\ x # None
      /\ (x # None /\ c.ext # c.ref) => x \in Rows /\ wager[x.cmd.key] = x /\ x.cmd.key \in Keys
    BY <1>0, <1>1, ReferenceFacts
<1>4. HoldsWallet(p) => snap[p] = wallet[c.wallet]
    BY <1>0 DEF HoldsWallet
(* A reference that decides nothing, or may be left out of the view. *)
<1>5. ASSUME Unsettled(p), c.ext # c.ref
      PROVE  \E y \in Serial!Views(own) : ~ (y # None /\ IsDecidable(own, y))
    <2>1. CASE x = None
        BY <1>2, <2>1
    <2>2. CASE x # None /\ IsTerminal(x)
        <3>1. Unordered(p, x)
            BY <1>3, <1>5, <2>2 DEF Unsettled, NoneSeen
        <3>2. Serial!Unordered(own, x)
            BY <1>0, <1>1, <2>2, <3>1 DEF Unordered, Serial!Unordered
        <3> QED BY <1>2, <3>2
    <2>3. CASE x # None /\ ~ IsTerminal(x)
        <3>1. x.cmd.key # own.cmd.key
            BY <1>1, <1>3, <1>5, <2>3
        <3> QED BY <1>2, <2>3, <3>1 DEF IsDecidable
    <2> QED BY <2>1, <2>2, <2>3
<1>6. \A y : Against(p, y) => y = x /\ x # None /\ IsDecidable(own, x)
    BY <1>3, SameRecords
<1>7. CASE DecidedMissing(p)
    <2>1. WalletFailure(own, None) = "WALLET_NOT_FOUND" /\ "WALLET_NOT_FOUND" # NoCode
        BY DEF WalletFailure, NoCode
    <2>2. DisclosedBalance("WALLET_NOT_FOUND", None) = NoBalance
        BY DEF DisclosedBalance
    <2>3. PICK d \in BOOLEAN : d <=> x # None /\ IsDecidable(own, x)
        OBVIOUS
    <2>4. Serial!Judge(own, x, None) = Reject(own, "WALLET_NOT_FOUND", NoBalance)
        BY <2>1, <2>2, <2>3, Judgement
    <2> QED BY <1>0, <1>2, <1>7, <2>4 DEF DecidedMissing
<1>8. CASE DecidedByWallet(p)
    <2>1. PICK d \in BOOLEAN : d <=> x # None /\ IsDecidable(own, x)
        OBVIOUS
    <2>2. Serial!Judge(own, x, snap[p]) = plan[p]
        BY <1>0, <1>8, <2>1, Judgement DEF DecidedByWallet
    <2> QED BY <1>0, <1>2, <1>4, <1>8, <2>2 DEF DecidedByWallet
<1>9. CASE DecidedIdle(p)
    <2>1. PICK d \in BOOLEAN : d <=> x # None /\ IsDecidable(own, x)
        OBVIOUS
    <2>2. Serial!Judge(own, x, snap[p]) = plan[p]
        BY <1>0, <1>1, <1>9, <2>1, Judgement DEF DecidedIdle, Accepted
    <2> QED BY <1>0, <1>2, <1>4, <1>9, <2>2 DEF DecidedIdle
<1>10. CASE DecidedPlain(p)
    <2>1. /\ HoldsWallet(p) /\ WalletFailure(own, snap[p]) = NoCode
          /\ own.cmd.kind # "LOSS" /\ ~ RequiresReference(own)
        BY <1>0, <1>1, <1>10 DEF DecidedPlain, Accepted, RequiresReference, ReversalKinds
    <2>2. CASE plan[p] = ApplyPlain(own, None, snap[p]) /\ c.ref = None
        <3>1. PICK d \in BOOLEAN : d <=> x # None /\ IsDecidable(own, x)
            OBVIOUS
        <3>2. Serial!Judge(own, x, snap[p]) = plan[p]
            BY <1>1, <2>1, <2>2, <3>1, Judgement
        <3> QED BY <1>0, <1>2, <1>4, <2>1, <3>2
    <2>3. CASE plan[p] = ApplyPlain(own, None, snap[p]) /\ Unsettled(p) /\ c.ext # c.ref
        <3>1. PICK y \in Serial!Views(own) : ~ (y # None /\ IsDecidable(own, y))
            BY <1>5, <2>3
        <3>2. PICK d \in BOOLEAN : ~ d
            OBVIOUS
        <3>3. Serial!Judge(own, y, snap[p]) = plan[p]
            BY <1>1, <2>1, <2>3, <3>1, <3>2, Judgement
        <3> QED BY <1>0, <1>2, <1>4, <2>1, <3>1, <3>3
    <2>4. ASSUME NEW y \in Row, c.ref # None, Against(p, y), plan[p] = ApplyPlain(own, y, snap[p])
          PROVE  Serial!Judge(own, x, snap[p]) = plan[p]
        <3>1. PICK d \in BOOLEAN : d
            OBVIOUS
        <3>2. y = x /\ x # None /\ IsDecidable(own, x)
            BY <1>6, <2>4
        <3> QED BY <1>1, <2>1, <2>4, <3>1, <3>2, Judgement
    <2> QED BY <1>0, <1>2, <1>4, <1>10, <2>1, <2>2, <2>3, <2>4 DEF DecidedPlain
<1>11. CASE DecidedDefer(p)
    <2>1. PICK y \in Serial!Views(own) : ~ (y # None /\ IsDecidable(own, y))
        BY <1>0, <1>5, <1>11 DEF DecidedDefer
    <2>2. Serial!Judge(own, y, snap[p]) = plan[p]
        BY <1>0, <1>11, <2>1, Judgement DEF DecidedDefer, Accepted
    <2> QED BY <1>0, <1>2, <1>4, <1>11, <2>1, <2>2 DEF DecidedDefer
<1>12. CASE DecidedReversal(p)
    <2>1. PICK y \in Row :
              /\ Against(p, y)
              /\ plan[p] = ApplyReversal(own, y, HasActiveReversal(Rows, y.cmd.key), snap[p])
        BY <1>0, <1>12 DEF DecidedReversal
    <2>2. y = x /\ x # None /\ IsDecidable(own, x)
        BY <1>6, <2>1
    <2>3. Serial!Judge(own, x, snap[p]) = plan[p]
        BY <1>0, <1>12, <2>1, <2>2, Judgement DEF DecidedReversal, Accepted
    <2> QED BY <1>0, <1>2, <1>4, <1>12, <2>3 DEF DecidedReversal
<1> QED BY <1>1, <1>7, <1>8, <1>9, <1>10, <1>11, <1>12 DEF Decided, DecidedGiveUp, DecidedFailure

LEMMA SubmissionRefines ==
    ASSUME IInv, DInv, NEW p \in Handlers, Commit(p)
    PROVE  \E c \in Commands : Serial!Submit(c)
<1>0. PICK c : c = work[p].cmd
    OBVIOUS
<1>1. p \in Procs /\ pc[p] = "commit" /\ pc[p] \in DecidingLabels /\ pc[p] \in Reserving
    BY DEF Procs, Commit, DecidingLabels, Reserving
<1>2. c \in Commands /\ wager[c.key] = None /\ Own(p) = Reserved(c)
    BY <1>0, <1>1, OwnUndecided DEF Own
<1>3. \A r \in Serial!Rows : r.cmd.key # c.key /\ r.cmd.ext # c.ext
    <2>1. \A k \in Keys : wager[k] # None => wager[k].cmd.ext # c.ext
        BY <1>0, <1>1 DEF DInv, ReservedExtIsFree
    <2>2. ASSUME NEW r \in Rows PROVE r.cmd.key # c.key /\ r.cmd.ext # c.ext
        BY <1>2, <2>1, RowsFacts
    <2> QED BY <2>2, SameTables
<1>4. \E x \in Serial!Views(Serial!Reserved(c)), w \in Serial!WalletViews(c.wallet) :
          plan[p] = Serial!Judge(Serial!Reserved(c), x, w)
    BY <1>0, <1>1, <1>2, SubmissionIsJudged, SameRecords
<1>5. Serial!Publish(plan[p])
    BY <1>1, CommitPublishesSerially
<1>6. Serial!Submit(c)
    BY <1>3, <1>4, <1>5 DEF Serial!Submit
<1> QED BY <1>2, <1>6

LEMMA SettlementRefines ==
    ASSUME IInv, DInv, NEW p \in Resolvers, Commit(p)
    PROVE  \E k \in Keys : Serial!Settle(k) \/ Serial!GiveUp(k) \/ Serial!Break(k)
<1>0. PICK k, own, x, w :
          /\ k = work[p].cmd.key /\ own = wager[k] /\ x = Serial!Reference(own)
          /\ w = own.cmd.wallet
    OBVIOUS
<1>1. /\ p \in Procs /\ pc[p] = "commit" /\ pc[p] \in DecidingLabels /\ p \notin Handlers
      /\ Decided(p)
    BY ProcsAssumption DEF Procs, Commit, DecidingLabels, DInv, DecisionInv
<1>2. /\ k \in Keys /\ own = Own(p) /\ own # None /\ own.status = "PENDING_REFERENCE"
      /\ own.cmd = work[p].cmd /\ w = work[p].cmd.wallet
    BY <1>0, <1>1, OwnUndecided, PendingFacts
<1>3. Serial!IsPending(k) /\ Serial!Publish(plan[p])
    BY <1>0, <1>1, <1>2, CommitPublishesSerially DEF Serial!IsPending
<1>4. /\ x = None => \A j \in Keys : wager[j] # None => ~ IsReference(p, wager[j])
      /\ \A y : Against(p, y) => x = y /\ Serial!IsDecidable(own, x) /\ x # None
      /\ x # None => IsReference(p, x) /\ wager[x.cmd.key] = x /\ x.cmd.key \in Keys
      /\ \A j \in Keys : (wager[j] # None /\ IsReference(p, wager[j])) => wager[j] = x
    BY <1>0, <1>1, <1>2, ReferenceFacts
<1>5. HoldsWallet(p) => snap[p] = wallet[w]
    BY <1>2 DEF HoldsWallet
<1>6. Serial!Unordered(own, x) <=> x # None /\ Unordered(p, x)
    BY <1>2 DEF Serial!Unordered, Unordered
<1>7. CASE DecidedReversal(p)
    <2>1. PICK y \in Row :
              /\ Against(p, y) /\ HoldsWallet(p)
              /\ plan[p] = ApplyReversal(own, y, HasActiveReversal(Rows, y.cmd.key), snap[p])
        BY <1>2, <1>7 DEF DecidedReversal
    <2>2. x = y /\ x # None /\ IsTerminal(x)
        BY <1>1, <1>4, <2>1 DEF Against, Settled
    <2>3. PICK active \in BOOLEAN : active = HasActiveReversal(Rows, x.cmd.key)
        BY DEF HasActiveReversal
    <2>4. Serial!HasActiveReversal(Serial!Rows, x.cmd.key) = active
        <3>1. Serial!HasActiveReversal(Serial!Rows, x.cmd.key) \in BOOLEAN
            BY DEF Serial!HasActiveReversal
        <3> QED BY <2>3, <3>1, SameFailures, SameTables
    <2>5. plan[p] = Serial!ApplyReversal(own, x, active, wallet[w])
        BY <1>5, <2>1, <2>2, <2>3, SameDecisions
    <2>6. Serial!IsTerminal(x)
        BY <2>2, SameRecords
    <2>7. Serial!Settle(k)
        BY <1>0, <1>3, <2>2, <2>4, <2>5, <2>6 DEF Serial!Settle
    <2> QED BY <1>2, <2>7
<1>8. CASE DecidedGiveUp(p)
    <2>1. Serial!IsExhausted(k) /\ HoldsWallet(p)
        BY <1>0, <1>8, SameTables DEF DecidedGiveUp
    <2>2. ASSUME NEW code \in {"REFERENCE_NOT_FOUND", "REFERENCE_NOT_PROCESSED"},
                 \/ Serial!Unordered(own, x)
                 \/ x = None /\ code = "REFERENCE_NOT_FOUND"
                 \/ x # None /\ ~ IsTerminal(x) /\ code = "REFERENCE_NOT_PROCESSED",
                 plan[p] = Reject(own, code, snap[p].balance)
          PROVE  Serial!GiveUp(k)
        <3>1. plan[p] = Serial!Reject(own, code, wallet[w].balance)
            BY <1>5, <2>1, <2>2, SameRecords
        <3>2. IsTerminal(x) <=> Serial!IsTerminal(x)
            BY SameRecords
        <3> QED BY <1>0, <1>3, <2>1, <2>2, <3>1, <3>2 DEF Serial!GiveUp
    <2>3. CASE Missing(p) /\ plan[p] = Reject(Own(p), "REFERENCE_NOT_FOUND", snap[p].balance)
        <3>1. x # None => Serial!Unordered(own, x)
            BY <1>4, <1>6, <2>3 DEF Missing, NoneSeen
        <3> QED BY <1>2, <2>2, <2>3, <3>1
    <2>4. CASE /\ SomeUnsettled(p)
               /\ plan[p] = Reject(Own(p), "REFERENCE_NOT_PROCESSED", snap[p].balance)
        <3>1. x # None /\ (IsTerminal(x) => Serial!Unordered(own, x))
            BY <1>4, <1>6, <2>4 DEF SomeUnsettled
        <3> QED BY <1>2, <2>2, <2>4, <3>1
    <2> QED BY <1>2, <1>8, <2>3, <2>4 DEF DecidedGiveUp
<1>9. CASE DecidedFailure(p)
    <2>1. plan[p] = Serial!Fail(wager[k], wallet[wager[k].cmd.wallet])
        BY <1>0, <1>2, <1>5, <1>9, SameRecords DEF DecidedFailure
    <2>2. Serial!Break(k)
        BY <1>3, <2>1 DEF Serial!Break
    <2> QED BY <1>2, <2>2
<1> QED BY <1>1, <1>7, <1>8, <1>9
        DEF Decided, DecidedMissing, DecidedByWallet, DecidedIdle, DecidedPlain, DecidedDefer,
            Accepted

LEMMA StepRefines ==
    ASSUME IInv, DInv, OInv, [Next]_vars
    PROVE  [Serial!Next]_(Serial!vars)
<1>1. CASE \E k \in Keys : Lapse(k)
    BY <1>1, LapseRefines, SameTables DEF Serial!Next
<1>2. CASE UNCHANGED <<wager, wallet, ledger, outbox>> /\ UNCHANGED lapsed
    BY <1>2 DEF Serial!vars
<1>3. ASSUME NEW p \in Procs, Commit(p) PROVE Serial!Next
    BY <1>3, SubmissionRefines, SettlementRefines, SameTables DEF Serial!Next, Procs
<1>4. ASSUME NEW p \in Handlers, CommitCreation(p) PROVE Serial!Next
    BY <1>4, CreationRefines DEF Serial!Next
<1>5. ASSUME NEW p \in Resolvers, Reschedule(p) PROVE Serial!Next
    BY <1>5, RescheduleRefines, SameTables DEF Serial!Next
<1> QED BY <1>1, <1>2, <1>3, <1>4, <1>5, PublishingSteps, LapsesAlone

(* The committed tables behave as if every submission, settlement and        *)
(* creation were one indivisible step: whatever a transaction read before   *)
(* it committed still decides the same when it does, up to a reference of   *)
(* another wallet or a wallet created meanwhile, which no lock orders.     *)
THEOREM CoreIsSerial == Spec => ImplementsSerialWagering
<1>1. Init => Serial!Init
    BY InitRefines
<1>2. IInv /\ DInv /\ OInv /\ [Next]_vars => [Serial!Next]_(Serial!vars)
    BY StepRefines
<1> QED BY <1>1, <1>2, DecisionsHold, OwnersHold, PTL DEF Spec, ImplementsSerialWagering, Serial!Spec
=============================================================================

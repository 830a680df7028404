------------------------------ MODULE Boundary ------------------------------
(***************************************************************************)
(* One submission seen from outside: what the HTTP interface and the queue *)
(* consumer let through, what the tables of identities make of it, and     *)
(* which verdict the provider is given: taken, refused for good, or to be  *)
(* tried again.  The same submission may come any number of times, over    *)
(* both transports.                                                        *)
(*                                                                         *)
(* What one transaction does is a single step here (Wagering is about its  *)
(* interleavings), and how a wager is decided is an outcome.  A text is    *)
(* the record of what the checks look at: what it says, whether it is in   *)
(* its composed form (NFC), whether it is all ASCII, its length, whether it *)
(* is blank or carries a control character or a comma.                     *)
(***************************************************************************)
EXTENDS Integers

CONSTANTS
    Encounters,  \* bound: the sets of submissions that meet, each as it was written
    Uuids,       \* the wallet ids that are UUIDs
    Currencies,  \* ISO 4217
    MaxAmount,   \* the largest amount of a Money
    Internal,    \* INTERNAL_PROVIDER_ID
    None

ASSUME AmountAssumption == MaxAmount \in Nat

Requests == UNION Encounters

(* The texts of a submission; one that is missing, or no text, is None.    *)
Plain == {"ext", "player", "round", "game"}
Fields == {"provider", "key", "ref"} \cup Plain
Text == [says : STRING, nfc : BOOLEAN, ascii : BOOLEAN, length : Nat,
         blank : BOOLEAN, control : BOOLEAN, comma : BOOLEAN]
Composed(text) == [text EXCEPT !.nfc = TRUE]

ASSUME TextsAssumption ==
    /\ None \notin Text /\ None \notin STRING
    /\ \A r \in Requests : /\ r.text \in [Fields -> Text \cup {None}]
                           /\ r.message \in Text \cup {None}

(* Two spellings say the same when normalize('NFC') makes one text of them. *)
(* It neither adds nor removes a blank, a control character or a comma, and *)
(* the length is the one of its result.  ASCII has one spelling.           *)
TextsOf(r) == {r.text[f] : f \in Fields} \cup {r.message}
ASSUME SpellingAssumption ==
    \A r, s \in Requests : \A t \in TextsOf(r) \ {None}, u \in TextsOf(s) \ {None} :
        /\ t.ascii => t.nfc
        /\ t.says = u.says => Composed(t) = Composed(u)

VARIABLES
    met,       \* the submissions of this behaviour
    wagers,    \* the rows of wager_transaction
    inbox,     \* the rows of inbox_message
    verdicts   \* history: submission -> the verdicts it was given

vars == <<met, wagers, inbox, verdicts>>

Vias == {"http", "sqs"}
NoError == "NONE"

-----------------------------------------------------------------------------
(* Texts and money.                                                        *)

IsText(text) == text # None /\ ~ text.blank
Fits(text, max) == IsText(text) /\ ~ text.control /\ text.length <= max

(* The limits of the parser. *)
Limit(field) == CASE field \in {"provider", "player"} -> 64
                  [] field = "key"                    -> 255
                  [] OTHER                            -> 128
(* The widths of the columns. *)
Width(field) == CASE field \in {"provider", "player"} -> 64
                  [] field = "key"                    -> 255
                  [] OTHER                            -> 128

Submittable == {"BET", "WIN", "LOSS", "REFUND", "ROLLBACK"}
Reversals == {"REFUND", "ROLLBACK"}
ReferenceBearing == Reversals \cup {"WIN"}

(* What Money.from accepts. *)
IsMoney(r) ==
    /\ r.amount.decimal
    /\ r.amount.value \in 0 .. MaxAmount
    /\ r.currency \in Currencies

-----------------------------------------------------------------------------
(* The parsers: the code of the first check that fails.                    *)

OptionalFits(text) == text = None \/ Fits(text, Limit("ref"))

(* Mutant: a reference is not looked at where none is required. *)
ReferenceFailureRequiredOnly(r) ==
    IF r.kind \in Reversals /\ r.text.ref = None THEN "REFERENCE_REQUIRED" ELSE NoError
ReferenceFailure(r) ==
    CASE r.kind \in Reversals /\ r.text.ref = None -> "REFERENCE_REQUIRED"
      [] r.text.ref # None /\ r.kind \notin ReferenceBearing -> "INVALID_PAYLOAD"
      [] OTHER -> NoError

BodyFailure(r) ==
    IF r.kind \notin Submittable \/ ~ Fits(r.text.provider, Limit("provider")) THEN "INVALID_PAYLOAD"
    ELSE IF Composed(r.text.provider) = Internal THEN "RESERVED_PROVIDER_ID"
    ELSE IF \/ \E f \in Plain : ~ Fits(r.text[f], Limit(f))
            \/ r.wallet.id \notin Uuids \/ ~ IsMoney(r) \/ ~ OptionalFits(r.text.ref)
         THEN "INVALID_PAYLOAD"
    ELSE ReferenceFailure(r)

KeyFailure(r) ==
    IF ~ IsText(r.text.key) THEN "MISSING_IDEMPOTENCY_KEY"
    ELSE IF r.headers > 1 \/ r.text.key.comma \/ ~ Fits(r.text.key, Limit("key")) THEN "INVALID_PAYLOAD"
    ELSE NoError

(* The body parser comes first, then the header, then the body. *)
HttpFailure(r) ==
    IF r.shape = "large" THEN "PAYLOAD_TOO_LARGE"
    ELSE IF r.shape = "charset" THEN "UNSUPPORTED_MEDIA_TYPE"
    ELSE IF r.shape = "broken" THEN "INVALID_PAYLOAD"
    ELSE IF KeyFailure(r) # NoError THEN KeyFailure(r)
    ELSE BodyFailure(r)

(* The envelope, then the key, then the same body. *)
SqsFailure(r) ==
    IF \/ r.shape = "broken" \/ ~ Fits(r.message, 128) \/ ~ r.envelope
       \/ ~ Fits(r.text.key, Limit("key")) THEN "INVALID_PAYLOAD"
    ELSE BodyFailure(r)

(* The bytes of a header are read one by one, as Latin-1: what becomes of   *)
(* any other key on that way is not modelled.                              *)
Carries(r, via) == (via = "http" /\ r.text.key # None) => r.text.key.ascii

InputFailure(r, via) == IF via = "http" THEN HttpFailure(r) ELSE SqsFailure(r)

-----------------------------------------------------------------------------
(* The command, its hash and its row.                                      *)

(* Mutant: a text is stored as it came. *)
CommandAsWritten(r) ==
    [text |-> r.text, wallet |-> r.wallet, kind |-> r.kind,
     amount |-> r.amount.value, currency |-> r.currency]
Command(r) ==
    [text |-> [f \in DOMAIN r.text |-> IF r.text[f] = None THEN None ELSE Composed(r.text[f])],
     wallet |-> r.wallet, kind |-> r.kind, amount |-> r.amount.value, currency |-> r.currency]

(* The business payload: everything but the key.  The amount is hashed      *)
(* from the Money, not from its spelling; the wallet's id as it is spelled. *)
PayloadHash(c) == [c EXCEPT !.text.key = None]

(* The data of the envelope is hashed as it came, key and all, and with it  *)
(* the instant of occurredAt.                                              *)
InboxHash(r) == [text |-> r.text, wallet |-> r.wallet, kind |-> r.kind, amount |-> r.amount,
                 currency |-> r.currency, occurred |-> r.occurred]

KeyOf(c) == <<c.text.provider, c.text.key>>
ExternalOf(c) == <<c.text.provider, c.text.ext>>
OwnersByKey(c) == {w \in wagers : KeyOf(w.cmd) = KeyOf(c)}
OwnersByExternal(c) == {w \in wagers : ExternalOf(w.cmd) = ExternalOf(c)}

(* What the columns and the CHECKs take when the row is reserved. *)
Storable(c) ==
    /\ \A f \in DOMAIN c.text \ {"ref"} : Fits(c.text[f], Width(f))
    /\ c.text.ref # None => Fits(c.text.ref, Width("ref"))
    /\ c.wallet.id \in Uuids
    /\ c.kind \in Submittable
    /\ c.amount \in 1 .. MaxAmount
    /\ c.kind \in Reversals => c.text.ref # None
    /\ c.text.ref # None => c.kind \in ReferenceBearing

(* The amount, then the reservation, which the database may refuse in a way *)
(* nobody classified, then who owns the identities it lost to.             *)
SubmissionFailure(c) ==
    IF c.amount <= 0 THEN "AMOUNT_NOT_POSITIVE"
    ELSE IF ~ Storable(c) THEN "INTERNAL_ERROR"
    ELSE IF \E w \in OwnersByKey(c) : PayloadHash(w.cmd) # PayloadHash(c) THEN "IDEMPOTENCY_KEY_CONFLICT"
    ELSE IF OwnersByKey(c) = {} /\ OwnersByExternal(c) # {} THEN "EXTERNAL_TRANSACTION_ID_REUSED"
    ELSE NoError

-----------------------------------------------------------------------------
(* The verdicts.                                                           *)

(* The status of an error over HTTP.  A failure nobody classified is        *)
(* INTERNAL_ERROR.                                                         *)
StatusOf(code) ==
    CASE code \in {"INVALID_PAYLOAD", "MISSING_IDEMPOTENCY_KEY", "AMOUNT_NOT_POSITIVE",
                   "REFERENCE_REQUIRED", "RESERVED_PROVIDER_ID"} -> 400
      [] code \in {"IDEMPOTENCY_KEY_CONFLICT", "EXTERNAL_TRANSACTION_ID_REUSED"} -> 409
      [] code = "PAYLOAD_TOO_LARGE" -> 413
      [] code = "UNSUPPORTED_MEDIA_TYPE" -> 415
      [] code = "SERVICE_UNAVAILABLE" -> 503
      [] OTHER -> 500

(* Mutant: a business rejection reads as a conflict. *)
StatusForConflict(row, replay) ==
    CASE row.status = "PROCESSED" -> IF replay THEN 200 ELSE 201
      [] row.status = "REJECTED" -> 409
      [] row.status = "PENDING_REFERENCE" -> 202
      [] OTHER -> 500
StatusFor(row, replay) ==
    CASE row.status = "PROCESSED" -> IF replay THEN 200 ELSE 201
      [] row.status = "REJECTED" -> 422
      [] row.status = "PENDING_REFERENCE" -> 202
      [] OTHER -> 500

(* What a provider reads in a status. *)
Reading(status) ==
    CASE status \in {200, 201, 202, 422} -> "taken"
      [] status \in {400, 409, 413, 415} -> "refused"
      [] status = 503 -> "again"
      [] OTHER -> "broken"

PermanentInputCodes == {"INVALID_PAYLOAD", "REFERENCE_REQUIRED", "RESERVED_PROVIDER_ID"}
PermanentCodes ==
    {"INVALID_PAYLOAD", "MISSING_IDEMPOTENCY_KEY", "IDEMPOTENCY_KEY_CONFLICT",
     "EXTERNAL_TRANSACTION_ID_REUSED", "REFERENCE_REQUIRED", "AMOUNT_NOT_POSITIVE",
     "RESERVED_PROVIDER_ID"}

Verdict(via, code, permanent) ==
    [code |-> code,
     says |-> IF via = "http" THEN Reading(StatusOf(code))
              ELSE IF code \in permanent THEN "refused" ELSE "again"]

Give(r, verdict) == verdicts' = [verdicts EXCEPT ![r] = @ \cup {verdict}]

(* An answer may be lost on its way: the connection, the process or the    *)
(* call that deletes the message fails after the commit.                   *)
GiveOrLose(r, verdict) == Give(r, verdict) \/ UNCHANGED verdicts

-----------------------------------------------------------------------------
(* The inbox: a message is known by its provider and its id.               *)

(* Mutant: the id alone, as before the provider joined the primary key. *)
InboxKeyById(r) == <<r.message>>
InboxKey(r) == <<Composed(r.text.provider), Composed(r.message)>>

Deliveries(r) == {d \in inbox : d.key = InboxKey(r)}
IsNew(r, via) == via = "sqs" => Deliveries(r) = {}
ReserveInbox(r, via) ==
    inbox' = IF via = "http" THEN inbox
             ELSE inbox \cup {[key |-> InboxKey(r), hash |-> InboxHash(r)]}

-----------------------------------------------------------------------------
(* One delivery.  A failure of the database or of the network before the    *)
(* commit changes nothing, so it is no action.                             *)

RefuseInput(r, via) ==
    /\ Carries(r, via) /\ InputFailure(r, via) # NoError
    /\ Give(r, Verdict(via, InputFailure(r, via), PermanentInputCodes))
    /\ UNCHANGED <<met, wagers, inbox>>

(* Mutant: a known message id is a redelivery, whatever it carries. *)
OfKnownById(r, d) == [code |-> "DUPLICATE", says |-> "taken"]
OfKnown(r, d) ==
    IF d.hash = InboxHash(r) THEN [code |-> "DUPLICATE", says |-> "taken"]
    ELSE [code |-> "INBOX_PAYLOAD_CONFLICT", says |-> "refused"]

(* An inbox row is committed with its wager, so it is never half done.     *)
Redelivered(r) ==
    /\ InputFailure(r, "sqs") = NoError
    /\ \E d \in Deliveries(r) : Give(r, OfKnown(r, d))
    /\ UNCHANGED <<met, wagers, inbox>>

Admitted(r, via) == Carries(r, via) /\ InputFailure(r, via) = NoError /\ IsNew(r, via)

(* The transaction rolls back, and the inbox row with it. *)
RefuseCommand(r, via) ==
    /\ Admitted(r, via)
    /\ SubmissionFailure(Command(r)) # NoError
    /\ Give(r, Verdict(via, SubmissionFailure(Command(r)), PermanentCodes))
    /\ UNCHANGED <<met, wagers, inbox>>

Answer(via, row, replay) ==
    IF via = "http" THEN [code |-> NoError, says |-> Reading(StatusFor(row, replay))]
    ELSE [code |-> NoError, says |-> "taken"]

Record(r, via) ==
    /\ Admitted(r, via)
    /\ SubmissionFailure(Command(r)) = NoError /\ OwnersByKey(Command(r)) = {}
    /\ \E status \in {"PROCESSED", "REJECTED"}
                     \cup (IF r.kind \in Reversals THEN {"PENDING_REFERENCE"} ELSE {}) :
         LET row == [cmd |-> Command(r), status |-> status]
         IN  /\ wagers' = wagers \cup {row}
             /\ GiveOrLose(r, Answer(via, row, FALSE))
    /\ ReserveInbox(r, via)
    /\ UNCHANGED met

Replay(r, via) ==
    /\ Admitted(r, via)
    /\ SubmissionFailure(Command(r)) = NoError
    /\ \E row \in OwnersByKey(Command(r)) : GiveOrLose(r, Answer(via, row, TRUE))
    /\ ReserveInbox(r, via)
    /\ UNCHANGED <<met, wagers>>

(* The pending-reference worker. *)
Settle(row) ==
    /\ row.status = "PENDING_REFERENCE"
    /\ \E status \in {"PROCESSED", "REJECTED", "FAILED"} :
         wagers' = (wagers \ {row}) \cup {[row EXCEPT !.status = status]}
    /\ UNCHANGED <<met, inbox, verdicts>>

Init ==
    /\ met \in Encounters
    /\ wagers = {}
    /\ inbox = {}
    /\ verdicts = [r \in met |-> {}]

Next ==
    \/ \E r \in met : \/ \E via \in Vias : \/ RefuseInput(r, via) \/ RefuseCommand(r, via)
                                           \/ Record(r, via) \/ Replay(r, via)
                      \/ Redelivered(r)
    \/ \E row \in wagers : Settle(row)

Spec == Init /\ [][Next]_vars

-----------------------------------------------------------------------------
Was(r, says) == \E v \in verdicts[r] : v.says = says

(* validation.ts:186 and error-filter.ts:99: a defect of a payload is        *)
(* refused, and never passes for an outage that a provider or the queue is *)
(* told to try again.  No submission is sent back, over either transport,  *)
(* unless the wager itself is recorded as FAILED.                          *)
DefectsAreNotOutages ==
    \A r \in met :
        Was(r, "again") \/ Was(r, "broken") =>
            \E w \in wagers : w.status = "FAILED" /\ KeyOf(w.cmd) = KeyOf(Command(r))

(* Over HTTP and over the queue, in whatever order and however often it     *)
(* comes, a submission is either taken or refused for good.  Excepted are  *)
(* what only one transport can carry (a header sent twice or holding a     *)
(* comma, a key beyond ASCII, an envelope, a body HTTP cannot read) and    *)
(* message ids used again.                                                 *)
SameOverBoth(r) ==
    /\ r.headers = 1 /\ r.shape \in {"object", "broken"}
    /\ r.envelope /\ Fits(r.message, 128)
    /\ IsText(r.text.key) => ~ r.text.key.comma
VerdictsAgree ==
    \A r \in met :
        SameOverBoth(r) =>
            ~ (/\ Was(r, "taken")
               /\ \E v \in verdicts[r] : v.says = "refused" /\ v.code # "INBOX_PAYLOAD_CONFLICT")

(* What a submission says, however it is spelled. *)
Says(text) == IF text = None THEN None ELSE text.says
Identity(x, field) == <<Says(x.text.provider), Says(x.text[field])>>
Meaning(x, value) ==
    <<[f \in DOMAIN x.text \ {"key"} |-> Says(x.text[f])], x.wallet.id, x.kind, value, x.currency>>

(* validation.ts:28: an identifier in two normalisations is one identity.   *)
(* No external id of a provider has two rows, in whatever spelling and over *)
(* whichever transport it comes, and no key has, in whatever spelling it   *)
(* comes over SQS (over HTTP it is ASCII, which has one).  This is the work *)
(* of the parsers alone: the use case below them keeps the spellings apart, *)
(* as wager-edge-cases.spec.ts:448 asserts of it.                          *)
OneRowPerIdentity ==
    \A w, x \in wagers :
        w # x => Identity(w.cmd, "key") # Identity(x.cmd, "key")
                 /\ Identity(w.cmd, "ext") # Identity(x.cmd, "ext")

(* The other side of each conflict.  The id of a wallet in capitals is the  *)
(* same wallet, and means the same, but not the same payload.              *)
KeyIsTaken(r) ==
    \E w \in wagers : /\ Identity(w.cmd, "key") = Identity(r, "key")
                      /\ \/ Meaning(w.cmd, w.cmd.amount) # Meaning(r, r.amount.value)
                         \/ w.cmd.wallet # r.wallet
ExternalIdIsTaken(r) ==
    \E w \in wagers : /\ Identity(w.cmd, "ext") = Identity(r, "ext")
                      /\ Identity(w.cmd, "key") # Identity(r, "key")
MessageIsTaken(r) ==
    \E s \in met : /\ Says(s.text.provider) = Says(r.text.provider)
                   /\ Says(s.message) = Says(r.message)
                   /\ InboxHash(s) # InboxHash(r)
                   /\ [key |-> InboxKey(s), hash |-> InboxHash(s)] \in inbox
                   /\ \E w \in wagers : w.cmd = Command(s)

(* Whoever is refused for a conflict can be shown what stands in its way,   *)
(* committed: a wager under its key that means something else or names the *)
(* wallet in other letters; a wager with its external id under another key; *)
(* the same provider's delivery under its message id, whose wager is       *)
(* recorded and whose envelope differs.  The normalisation of a text makes *)
(* no conflict of the first two kinds, nor does the spelling of an amount.  *)
(* For the third any difference of the envelope will do: a spelling, or    *)
(* another occurredAt (envelope.ts:45).                                    *)
ConflictsAreReal ==
    \A r \in met : \A v \in verdicts[r] :
        /\ v.code = "IDEMPOTENCY_KEY_CONFLICT" => KeyIsTaken(r)
        /\ v.code = "EXTERNAL_TRANSACTION_ID_REUSED" => ExternalIdIsTaken(r)
        /\ v.code = "INBOX_PAYLOAD_CONFLICT" => MessageIsTaken(r)

(* What a provider was told is taken, and what the consumer has deleted     *)
(* from the queue as done, is recorded under its key as it was meant.      *)
TakenIsRecorded ==
    \A r \in met :
        Was(r, "taken") =>
            \E w \in wagers : /\ Identity(w.cmd, "key") = Identity(r, "key")
                              /\ Meaning(w.cmd, w.cmd.amount) = Meaning(r, r.amount.value)
=============================================================================

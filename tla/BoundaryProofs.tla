--------------------------- MODULE BoundaryProofs ---------------------------
(***************************************************************************)
(* The invariants of Boundary, for every set of submissions.               *)
(*                                                                         *)
(* Three kinds of facts carry them: what two commands compare equal on     *)
(* (KeysMean, HashesMean, WholeCommand), what the parsers let through       *)
(* (Admission, AdmittedIsStorable, InputsAgree), and what the tables keep:  *)
(* a command once recorded stays recorded, one once refuted stays refuted, *)
(* and none is both.  BInv adds what each verdict was given on.            *)
(***************************************************************************)
EXTENDS Boundary, TLAPS

(* A text is known by what it says.                                        *)
Normal(text) == IF text = None THEN None ELSE Composed(text)

LEMMA SameText ==
    ASSUME NEW r \in Requests, NEW s \in Requests,
           NEW t \in TextsOf(r), NEW u \in TextsOf(s)
    PROVE  Normal(t) = Normal(u) <=> Says(t) = Says(u)
<1>1. /\ t \in Text \cup {None} /\ u \in Text \cup {None}
      /\ None \notin Text /\ None \notin STRING
  BY TextsAssumption DEF TextsOf
<1>2. ASSUME NEW x \in Text
      PROVE  Composed(x) \in Text /\ Composed(x).says = x.says /\ x.says \in STRING
  BY DEF Composed, Text
<1>3. CASE t # None /\ u # None
  <2>1. Composed(t) = Composed(u) => t.says = u.says
    BY <1>1, <1>2, <1>3
  <2>2. t.says = u.says => Composed(t) = Composed(u)
    BY <1>3, SpellingAssumption
  <2> QED
    BY <1>3, <2>1, <2>2 DEF Normal, Says
<1>4. CASE t = None \/ u = None
  BY <1>1, <1>2, <1>4 DEF Normal, Says
<1> QED
  BY <1>3, <1>4

LEMMA FieldsAreTexts ==
    ASSUME NEW r \in Requests
    PROVE  /\ DOMAIN r.text = Fields
           /\ \A f \in Fields : r.text[f] \in TextsOf(r) /\ r.text[f] \in Text \cup {None}
           /\ r.message \in TextsOf(r)
           /\ r.message \in Text \cup {None}
BY TextsAssumption DEF TextsOf

LEMMA CommandShape ==
    ASSUME NEW r \in Requests
    PROVE  /\ Command(r) = [text |-> Command(r).text, wallet |-> r.wallet, kind |-> r.kind,
                            amount |-> r.amount.value, currency |-> r.currency]
           /\ Command(r).text = [f \in Fields |-> Normal(r.text[f])]
           /\ Command(r).wallet = r.wallet /\ Command(r).kind = r.kind
           /\ Command(r).amount = r.amount.value /\ Command(r).currency = r.currency
           /\ \A f \in Fields : Says(Command(r).text[f]) = Says(r.text[f])
<1>1. DOMAIN r.text = Fields
  BY FieldsAreTexts
<1>2. Command(r).text = [f \in Fields |-> Normal(r.text[f])]
  BY <1>1 DEF Command, Normal
<1>3. \A f \in Fields : Says(Normal(r.text[f])) = Says(r.text[f])
  <2> TAKE f \in Fields
  <2>1. r.text[f] \in Text \cup {None} /\ None \notin Text
    BY FieldsAreTexts, TextsAssumption
  <2>2. CASE r.text[f] # None
    <3>1. Composed(r.text[f]) \in Text /\ Composed(r.text[f]).says = r.text[f].says
      BY <2>1, <2>2 DEF Composed, Text
    <3> QED
      BY <2>1, <2>2, <3>1 DEF Normal, Says
  <2>3. CASE r.text[f] = None
    BY <2>3 DEF Normal, Says
  <2> QED
    BY <2>2, <2>3
<1> QED
  BY <1>2, <1>3 DEF Command

LEMMA CommandMeans ==
    ASSUME NEW r \in Requests, NEW c, c = Command(r)
    PROVE  /\ Identity(c, "key") = Identity(r, "key")
           /\ Identity(c, "ext") = Identity(r, "ext")
           /\ Meaning(c, c.amount) = Meaning(r, r.amount.value)
<1>1. /\ c.text = [f \in Fields |-> Normal(r.text[f])]
      /\ c.wallet = r.wallet /\ c.kind = r.kind
      /\ c.amount = r.amount.value /\ c.currency = r.currency
      /\ \A f \in Fields : Says(c.text[f]) = Says(r.text[f])
  BY CommandShape
<1>2. DOMAIN c.text = Fields /\ DOMAIN r.text = Fields
  BY <1>1, FieldsAreTexts
<1>3. [f \in DOMAIN c.text \ {"key"} |-> Says(c.text[f])]
          = [f \in DOMAIN r.text \ {"key"} |-> Says(r.text[f])]
  BY <1>1, <1>2
<1>4. /\ Says(c.text["provider"]) = Says(r.text["provider"])
      /\ Says(c.text["key"]) = Says(r.text["key"])
      /\ Says(c.text["ext"]) = Says(r.text["ext"])
  BY <1>1 DEF Fields, Plain
<1> QED
  BY <1>1, <1>3, <1>4 DEF Identity, Meaning

(* The identities the tables compare are the ones the provider means.      *)
LEMMA KeysMean ==
    ASSUME NEW r \in Requests, NEW s \in Requests
    PROVE  /\ KeyOf(Command(r)) = KeyOf(Command(s)) <=> Identity(r, "key") = Identity(s, "key")
           /\ ExternalOf(Command(r)) = ExternalOf(Command(s))
                  <=> Identity(r, "ext") = Identity(s, "ext")
<1>1. {"provider", "key", "ext"} \subseteq Fields
  BY DEF Fields, Plain
<1>2. \A f \in Fields : Command(r).text[f] = Command(s).text[f] <=> Says(r.text[f]) = Says(s.text[f])
  <2> TAKE f \in Fields
  <2>1. /\ Command(r).text[f] = Normal(r.text[f])
        /\ Command(s).text[f] = Normal(s.text[f])
    BY CommandShape
  <2> QED
    BY <2>1, FieldsAreTexts, SameText
<1>3. /\ Command(r).text["key"] = Command(s).text["key"] <=> Says(r.text["key"]) = Says(s.text["key"])
      /\ Command(r).text["ext"] = Command(s).text["ext"] <=> Says(r.text["ext"]) = Says(s.text["ext"])
      /\ Command(r).text["provider"] = Command(s).text["provider"]
             <=> Says(r.text["provider"]) = Says(s.text["provider"])
  BY <1>1, <1>2
<1> QED
  BY <1>3 DEF KeyOf, ExternalOf, Identity

LEMMA HashesMean ==
    ASSUME NEW r \in Requests, NEW s \in Requests
    PROVE  PayloadHash(Command(r)) = PayloadHash(Command(s))
               <=> (/\ Meaning(r, r.amount.value) = Meaning(s, s.amount.value)
                    /\ r.wallet = s.wallet)
<1> DEFINE T(x) == Command(x).text
<1>1. /\ T(r) = [f \in Fields |-> Normal(r.text[f])]
      /\ T(s) = [f \in Fields |-> Normal(s.text[f])]
      /\ DOMAIN r.text = Fields /\ DOMAIN s.text = Fields
  BY CommandShape, FieldsAreTexts
<1>2. \A f \in Fields : T(r)[f] = T(s)[f] <=> Says(r.text[f]) = Says(s.text[f])
  <2> TAKE f \in Fields
  <2>1. T(r)[f] = Normal(r.text[f]) /\ T(s)[f] = Normal(s.text[f])
    BY <1>1
  <2> QED
    BY <2>1, FieldsAreTexts, SameText
<1>3. PayloadHash(Command(r)) = PayloadHash(Command(s))
          <=> /\ [T(r) EXCEPT !["key"] = None] = [T(s) EXCEPT !["key"] = None]
              /\ r.wallet = s.wallet /\ r.kind = s.kind
              /\ r.amount.value = s.amount.value /\ r.currency = s.currency
  <2> HIDE DEF T
  <2>1. ASSUME NEW x \in Requests
        PROVE  PayloadHash(Command(x)) =
                   [text |-> [T(x) EXCEPT !["key"] = None], wallet |-> x.wallet,
                    kind |-> x.kind, amount |-> x.amount.value, currency |-> x.currency]
    <3>1. Command(x) = [text |-> T(x), wallet |-> x.wallet, kind |-> x.kind,
                        amount |-> x.amount.value, currency |-> x.currency]
      BY CommandShape DEF T
    <3> QED
      BY <3>1 DEF PayloadHash
  <2> QED
    BY <2>1
<1>4. [T(r) EXCEPT !["key"] = None] = [T(s) EXCEPT !["key"] = None]
          <=> \A f \in Fields \ {"key"} : T(r)[f] = T(s)[f]
  BY <1>1
<1>5. [f \in DOMAIN r.text \ {"key"} |-> Says(r.text[f])]
          = [f \in DOMAIN s.text \ {"key"} |-> Says(s.text[f])]
      <=> \A f \in Fields \ {"key"} : Says(r.text[f]) = Says(s.text[f])
  BY <1>1
<1> HIDE DEF T
<1> QED
  BY <1>2, <1>3, <1>4, <1>5 DEF Meaning

(* A command is known by its key and its hash.                             *)
LEMMA WholeCommand ==
    ASSUME NEW r \in Requests, NEW s \in Requests,
           KeyOf(Command(r)) = KeyOf(Command(s)),
           PayloadHash(Command(r)) = PayloadHash(Command(s))
    PROVE  Command(r) = Command(s)
<1>1. /\ Command(r).text = [f \in Fields |-> Normal(r.text[f])]
      /\ Command(s).text = [f \in Fields |-> Normal(s.text[f])]
  BY CommandShape
<1>2. Command(r).text["key"] = Command(s).text["key"]
  BY DEF KeyOf
<1>3. PayloadHash(Command(r)).text = [Command(r).text EXCEPT !["key"] = None]
      /\ PayloadHash(Command(s)).text = [Command(s).text EXCEPT !["key"] = None]
  BY CommandShape DEF PayloadHash
<1>4. \A f \in Fields \ {"key"} : Command(r).text[f] = Command(s).text[f]
  BY <1>1, <1>3
<1>5. Command(r).text = Command(s).text
  BY <1>1, <1>2, <1>4
<1>6. /\ PayloadHash(Command(r)).wallet = r.wallet /\ PayloadHash(Command(s)).wallet = s.wallet
      /\ PayloadHash(Command(r)).kind = r.kind /\ PayloadHash(Command(s)).kind = s.kind
      /\ PayloadHash(Command(r)).amount = r.amount.value
      /\ PayloadHash(Command(s)).amount = s.amount.value
      /\ PayloadHash(Command(r)).currency = r.currency
      /\ PayloadHash(Command(s)).currency = s.currency
  BY CommandShape DEF PayloadHash
<1>7. /\ r.wallet = s.wallet /\ r.kind = s.kind
      /\ r.amount.value = s.amount.value /\ r.currency = s.currency
  BY <1>6
<1>8. /\ Command(r) = [text |-> Command(r).text, wallet |-> r.wallet, kind |-> r.kind,
                       amount |-> r.amount.value, currency |-> r.currency]
      /\ Command(s) = [text |-> Command(s).text, wallet |-> s.wallet, kind |-> s.kind,
                       amount |-> s.amount.value, currency |-> s.currency]
  BY CommandShape
<1> QED
  BY <1>5, <1>7, <1>8

-----------------------------------------------------------------------------
(* What the parsers let through.                                           *)

LEMMA Composing ==
    ASSUME NEW t \in Text \cup {None}, NEW n, Fits(t, n)
    PROVE  t # None /\ Fits(Normal(t), n) /\ Normal(t) # None
<1>1. t \in Text /\ t # None /\ None \notin Text
  BY TextsAssumption DEF Fits, IsText
<1>2. /\ Composed(t) \in Text /\ Composed(t).length = t.length
      /\ Composed(t).blank = t.blank /\ Composed(t).control = t.control
  BY <1>1 DEF Composed, Text
<1>3. Composed(t) # None
  BY <1>1, <1>2
<1> QED
  BY <1>1, <1>2, <1>3 DEF Fits, IsText, Normal

LEMMA References ==
    ASSUME NEW r, ReferenceFailure(r) = NoError
    PROVE  /\ r.kind \in Reversals => r.text.ref # None
           /\ r.text.ref # None => r.kind \in ReferenceBearing
BY DEF ReferenceFailure, NoError

LEMMA ReferenceCodes ==
    ASSUME NEW r
    PROVE  ReferenceFailure(r) \in {NoError, "INVALID_PAYLOAD", "REFERENCE_REQUIRED"}
BY DEF ReferenceFailure

LEMMA Bodies ==
    ASSUME NEW r, BodyFailure(r) = NoError
    PROVE  /\ r.kind \in Submittable
           /\ Fits(r.text.provider, Limit("provider"))
           /\ \A f \in Plain : Fits(r.text[f], Limit(f))
           /\ r.wallet.id \in Uuids /\ IsMoney(r) /\ OptionalFits(r.text.ref)
           /\ r.kind \in Reversals => r.text.ref # None
           /\ r.text.ref # None => r.kind \in ReferenceBearing
<1>1. ReferenceFailure(r) = NoError
  BY DEF BodyFailure, NoError
<1> QED
  BY <1>1, References DEF BodyFailure, NoError

LEMMA BodyCodes ==
    ASSUME NEW r
    PROVE  BodyFailure(r) \in {NoError, "INVALID_PAYLOAD", "RESERVED_PROVIDER_ID",
                               "REFERENCE_REQUIRED"}
BY ReferenceCodes DEF BodyFailure

LEMMA KeyCodes ==
    ASSUME NEW r
    PROVE  KeyFailure(r) \in {NoError, "MISSING_IDEMPOTENCY_KEY", "INVALID_PAYLOAD"}
BY DEF KeyFailure

LEMMA HttpCodes ==
    ASSUME NEW r
    PROVE  HttpFailure(r) \in {NoError, "PAYLOAD_TOO_LARGE", "UNSUPPORTED_MEDIA_TYPE",
                               "INVALID_PAYLOAD", "MISSING_IDEMPOTENCY_KEY",
                               "RESERVED_PROVIDER_ID", "REFERENCE_REQUIRED"}
BY BodyCodes, KeyCodes DEF HttpFailure

LEMMA SqsCodes ==
    ASSUME NEW r
    PROVE  SqsFailure(r) \in {NoError} \cup PermanentInputCodes
BY BodyCodes DEF SqsFailure, PermanentInputCodes

LEMMA Keys ==
    ASSUME NEW r, KeyFailure(r) = NoError
    PROVE  Fits(r.text.key, Limit("key"))
BY DEF KeyFailure, NoError

LEMMA Http ==
    ASSUME NEW r
    PROVE  HttpFailure(r) = NoError
               <=> /\ r.shape \notin {"large", "charset", "broken"}
                   /\ KeyFailure(r) = NoError /\ BodyFailure(r) = NoError
BY DEF HttpFailure, NoError

LEMMA Sqs ==
    ASSUME NEW r
    PROVE  SqsFailure(r) = NoError
               <=> /\ r.shape # "broken" /\ Fits(r.message, 128) /\ r.envelope
                   /\ Fits(r.text.key, Limit("key")) /\ BodyFailure(r) = NoError
BY DEF SqsFailure, NoError

LEMMA Admission ==
    ASSUME NEW r, NEW via \in Vias, InputFailure(r, via) = NoError
    PROVE  Fits(r.text.key, Limit("key")) /\ BodyFailure(r) = NoError
BY Http, Sqs, Keys DEF InputFailure, Vias

(* What the parsers let through, the columns take.                         *)
LEMMA AdmittedIsStorable ==
    ASSUME NEW r \in Requests, NEW via \in Vias, InputFailure(r, via) = NoError
    PROVE  /\ r.amount.value \in 0 .. MaxAmount
           /\ r.amount.value > 0 => Storable(Command(r))
<1>1. Fits(r.text.key, Limit("key")) /\ BodyFailure(r) = NoError
  BY Admission
<1>2. /\ r.kind \in Submittable
      /\ Fits(r.text.provider, Limit("provider"))
      /\ \A f \in Plain : Fits(r.text[f], Limit(f))
      /\ r.wallet.id \in Uuids /\ IsMoney(r) /\ OptionalFits(r.text.ref)
      /\ r.kind \in Reversals => r.text.ref # None
      /\ r.text.ref # None => r.kind \in ReferenceBearing
  BY <1>1, Bodies
<1>3. \A f \in Fields \ {"ref"} : Fits(r.text[f], Limit(f))
  BY <1>1, <1>2 DEF Fields
<1>4. ASSUME r.amount.value > 0
      PROVE  Storable(Command(r))
  <2> DEFINE c == Command(r)
  <2>1. /\ DOMAIN c.text = Fields /\ c.text = [f \in Fields |-> Normal(r.text[f])]
        /\ c.wallet = r.wallet /\ c.kind = r.kind /\ c.amount = r.amount.value
    BY CommandShape
  <2> HIDE DEF c
  <2>2. \A f \in Fields : Limit(f) = Width(f)
    BY DEF Limit, Width
  <2>3. \A f \in Fields \ {"ref"} : Fits(c.text[f], Width(f))
    <3> TAKE f \in Fields \ {"ref"}
    <3>1. r.text[f] \in Text \cup {None} /\ Fits(r.text[f], Limit(f))
      BY <1>3, FieldsAreTexts
    <3>2. Fits(Normal(r.text[f]), Limit(f))
      BY <3>1, Composing
    <3> QED
      BY <2>1, <2>2, <3>2
  <2>4. "ref" \in Fields /\ c.text.ref = Normal(r.text.ref)
    BY <2>1 DEF Fields
  <2>5. c.text.ref # None => r.text.ref # None /\ Fits(c.text.ref, Width("ref"))
    <3> SUFFICES ASSUME c.text.ref # None
                 PROVE  r.text.ref # None /\ Fits(c.text.ref, Width("ref"))
      OBVIOUS
    <3>1. r.text.ref # None
      BY <2>4 DEF Normal
    <3>2. Fits(r.text.ref, Limit("ref")) /\ r.text.ref \in Text \cup {None}
      BY <1>2, <2>4, <3>1, FieldsAreTexts DEF OptionalFits
    <3>3. Fits(Normal(r.text.ref), Limit("ref"))
      BY <3>2, Composing
    <3> QED
      BY <2>2, <2>4, <3>1, <3>3
  <2>6. r.text.ref # None => c.text.ref # None
    <3> SUFFICES ASSUME r.text.ref # None PROVE c.text.ref # None
      OBVIOUS
    <3>1. Fits(r.text.ref, Limit("ref")) /\ r.text.ref \in Text \cup {None}
      BY <1>2, <2>4, FieldsAreTexts DEF OptionalFits
    <3> QED
      BY <2>4, <3>1, Composing
  <2>7. c.amount \in 1 .. MaxAmount
    BY <1>2, <1>4, <2>1, AmountAssumption DEF IsMoney
  <2>8. Storable(c)
    BY <1>2, <2>1, <2>3, <2>5, <2>6, <2>7 DEF Storable
  <2> QED
    BY <2>8 DEF c
<1> QED
  BY <1>2, <1>4 DEF IsMoney

(* What both transports can carry, they let through or refuse alike.       *)
LEMMA InputsAgree ==
    ASSUME NEW r, SameOverBoth(r)
    PROVE  HttpFailure(r) = NoError <=> SqsFailure(r) = NoError
<1>1. /\ r.headers = 1 /\ r.shape \in {"object", "broken"}
      /\ r.envelope /\ Fits(r.message, 128)
      /\ IsText(r.text.key) => ~ r.text.key.comma
  BY DEF SameOverBoth
<1>2. KeyFailure(r) = NoError <=> Fits(r.text.key, Limit("key"))
  <2>1. ~ (r.headers > 1)
    BY <1>1
  <2> QED
    BY <1>1, <2>1 DEF KeyFailure, NoError, Fits
<1> QED
  BY <1>1, <1>2, Http, Sqs

-----------------------------------------------------------------------------
(* The invariant.  What a command was once found to be, it stays: the one   *)
(* recorded under its identities, or refuted by another row that holds one *)
(* of them.  Rows change their status and nothing else.                    *)

Shares(c, e) == KeyOf(c) = KeyOf(e) \/ ExternalOf(c) = ExternalOf(e)
Recorded(c) == \E w \in wagers : w.cmd = c
Refuted(c) == c.amount <= 0 \/ \E w \in wagers : Shares(w.cmd, c) /\ w.cmd # c

Statuses == {"PROCESSED", "REJECTED", "PENDING_REFERENCE", "FAILED"}

RowsAreCommands ==
    \A w \in wagers : /\ w.cmd.amount > 0
                      /\ \E r \in met, s \in Statuses : w = [cmd |-> Command(r), status |-> s]
IdentitiesAreUnique == \A w, x \in wagers : Shares(w.cmd, x.cmd) => w = x
InboxIsOfRecorded ==
    \A d \in inbox : \E r \in met : /\ d = [key |-> InboxKey(r), hash |-> InboxHash(r)]
                                    /\ SqsFailure(r) = NoError
                                    /\ Recorded(Command(r))

(* What each verdict rests on. *)
Sound(r, v) ==
    /\ v.says = "taken" => /\ \E via \in Vias : InputFailure(r, via) = NoError
                           /\ Recorded(Command(r))
    /\ v.says = "refused" /\ v.code # "INBOX_PAYLOAD_CONFLICT" =>
           (\E via \in Vias : InputFailure(r, via) # NoError) \/ Refuted(Command(r))
    /\ v.says \in {"again", "broken"} =>
           \E w \in wagers : w.status = "FAILED" /\ KeyOf(w.cmd) = KeyOf(Command(r))
    /\ v.code = "IDEMPOTENCY_KEY_CONFLICT" => KeyIsTaken(r)
    /\ v.code = "EXTERNAL_TRANSACTION_ID_REUSED" => ExternalIdIsTaken(r)
    /\ v.code = "INBOX_PAYLOAD_CONFLICT" => MessageIsTaken(r)
VerdictsAreSound == \A r \in met : \A v \in verdicts[r] : Sound(r, v)

BInv ==
    /\ met \in Encounters /\ DOMAIN verdicts = met
    /\ RowsAreCommands
    /\ IdentitiesAreUnique
    /\ InboxIsOfRecorded
    /\ VerdictsAreSound

LEMMA MetAreRequests ==
    ASSUME BInv
    PROVE  met \subseteq Requests
BY DEF BInv, Requests

(* What the reservation of an admitted submission answers.                 *)
LEMMA Submissions ==
    ASSUME BInv, NEW r \in met, NEW via \in Vias, InputFailure(r, via) = NoError
    PROVE  LET c == Command(r)
               code == SubmissionFailure(c)
           IN  /\ code = NoError => /\ c.amount > 0 /\ ~ Refuted(c)
                                    /\ \A w \in OwnersByKey(c) : w.cmd = c
               /\ code # NoError => Refuted(c)
               /\ code \in {NoError, "AMOUNT_NOT_POSITIVE", "IDEMPOTENCY_KEY_CONFLICT",
                            "EXTERNAL_TRANSACTION_ID_REUSED"}
               /\ code = "IDEMPOTENCY_KEY_CONFLICT" =>
                      \E w \in OwnersByKey(c) : PayloadHash(w.cmd) # PayloadHash(c)
               /\ code = "EXTERNAL_TRANSACTION_ID_REUSED" =>
                      OwnersByKey(c) = {} /\ OwnersByExternal(c) # {}
<1> DEFINE c == Command(r)
<1>0. r \in Requests
  BY MetAreRequests
<1>1. /\ c.amount \in Int
      /\ c.amount > 0 => Storable(c)
  <2>1. r.amount.value \in 0 .. MaxAmount /\ (r.amount.value > 0 => Storable(Command(r)))
    BY <1>0, AdmittedIsStorable
  <2>2. Command(r).amount = r.amount.value
    BY <1>0, CommandShape
  <2> QED
    BY <2>1, <2>2, AmountAssumption
<1>2. \A w \in wagers : /\ w.cmd.amount > 0
                        /\ \E s \in Requests : w.cmd = Command(s)
  <2> TAKE w \in wagers
  <2>1. PICK s \in met : \E t \in Statuses : w = [cmd |-> Command(s), status |-> t]
    BY DEF BInv, RowsAreCommands
  <2> QED
    BY <2>1, MetAreRequests DEF BInv, RowsAreCommands
<1>3. \A w \in OwnersByKey(c) : w \in wagers /\ (PayloadHash(w.cmd) = PayloadHash(c) <=> w.cmd = c)
  <2> TAKE w \in OwnersByKey(c)
  <2>1. w \in wagers /\ KeyOf(w.cmd) = KeyOf(c)
    BY DEF OwnersByKey
  <2>2. PICK s \in Requests : w.cmd = Command(s)
    BY <1>2, <2>1
  <2>3. PayloadHash(Command(s)) = PayloadHash(Command(r)) => Command(s) = Command(r)
    BY <1>0, <2>1, <2>2, WholeCommand
  <2> QED
    BY <2>1, <2>2, <2>3
<1> HIDE DEF c
<1>4. ASSUME SubmissionFailure(c) = NoError
      PROVE  /\ c.amount > 0 /\ ~ Refuted(c)
             /\ \A w \in OwnersByKey(c) : w.cmd = c
  <2>1. /\ c.amount > 0 /\ \A w \in OwnersByKey(c) : PayloadHash(w.cmd) = PayloadHash(c)
        /\ OwnersByKey(c) # {} \/ OwnersByExternal(c) = {}
    BY <1>1, <1>4 DEF SubmissionFailure, NoError
  <2>2. \A w \in OwnersByKey(c) : w.cmd = c
    BY <1>3, <2>1
  <2>3. ASSUME NEW w \in wagers, Shares(w.cmd, c) PROVE w.cmd = c
    <3>1. CASE KeyOf(w.cmd) = KeyOf(c)
      BY <2>2, <3>1 DEF OwnersByKey
    <3>2. CASE ExternalOf(w.cmd) = ExternalOf(c)
      <4>1. PICK x \in wagers : KeyOf(x.cmd) = KeyOf(c)
        BY <2>1, <3>2 DEF OwnersByKey, OwnersByExternal
      <4>2. x.cmd = c
        BY <2>2, <4>1 DEF OwnersByKey
      <4> QED
        BY <3>2, <4>2 DEF BInv, IdentitiesAreUnique, Shares
    <3> QED
      BY <2>3, <3>1, <3>2 DEF Shares
  <2> QED
    BY <1>1, <2>1, <2>2, <2>3 DEF Refuted
<1>5. ASSUME SubmissionFailure(c) # NoError
      PROVE  Refuted(c)
  <2>1. \/ c.amount <= 0
        \/ \E w \in OwnersByKey(c) : PayloadHash(w.cmd) # PayloadHash(c)
        \/ OwnersByKey(c) = {} /\ OwnersByExternal(c) # {}
    BY <1>1, <1>5 DEF SubmissionFailure
  <2>2. CASE \E w \in OwnersByKey(c) : PayloadHash(w.cmd) # PayloadHash(c)
    BY <1>3, <2>2 DEF Refuted, Shares, OwnersByKey
  <2>3. CASE OwnersByKey(c) = {} /\ OwnersByExternal(c) # {}
    <3>1. PICK w \in wagers : ExternalOf(w.cmd) = ExternalOf(c)
      BY <2>3 DEF OwnersByExternal
    <3>2. KeyOf(w.cmd) # KeyOf(c)
      BY <2>3 DEF OwnersByKey
    <3> QED
      BY <3>1, <3>2 DEF Refuted, Shares
  <2> QED
    BY <2>1, <2>2, <2>3 DEF Refuted
<1>6. SubmissionFailure(c) \in {NoError, "AMOUNT_NOT_POSITIVE", "IDEMPOTENCY_KEY_CONFLICT",
                                "EXTERNAL_TRANSACTION_ID_REUSED"}
  <2>1. CASE c.amount <= 0
    <3>1. SubmissionFailure(c) = "AMOUNT_NOT_POSITIVE"
      BY <1>1, <2>1 DEF SubmissionFailure
    <3> QED
      BY <3>1
  <2>2. CASE ~ (c.amount <= 0)
    <3>1. Storable(c)
      BY <1>1, <2>2
    <3> QED
      BY <2>2, <3>1 DEF SubmissionFailure
  <2> QED
    BY <2>1, <2>2
<1>7. /\ SubmissionFailure(c) = "IDEMPOTENCY_KEY_CONFLICT" =>
             \E w \in OwnersByKey(c) : PayloadHash(w.cmd) # PayloadHash(c)
      /\ SubmissionFailure(c) = "EXTERNAL_TRANSACTION_ID_REUSED" =>
             OwnersByKey(c) = {} /\ OwnersByExternal(c) # {}
  BY DEF SubmissionFailure, NoError
<1> QED
  BY <1>4, <1>5, <1>6, <1>7 DEF c

-----------------------------------------------------------------------------
(* What a step leaves standing.                                            *)

RowsAreKept == \A w \in wagers : \E x \in wagers' : /\ x.cmd = w.cmd
                                                    /\ w.status = "FAILED" => x.status = "FAILED"
Kept == RowsAreKept /\ inbox \subseteq inbox'

LEMMA SoundnessStands ==
    ASSUME BInv, Kept, met' = met, NEW r \in met, NEW v, Sound(r, v)
    PROVE  Sound(r, v)'
<1>0. RowsAreKept /\ inbox \subseteq inbox'
  BY DEF Kept
<1>1. ASSUME NEW c, Recorded(c) PROVE Recorded(c)'
  BY <1>0, <1>1 DEF RowsAreKept, Recorded
<1>2. ASSUME NEW c, Refuted(c) PROVE Refuted(c)'
  BY <1>0, <1>2 DEF RowsAreKept, Refuted
<1>3. (v.says = "taken" => /\ \E via \in Vias : InputFailure(r, via) = NoError
                           /\ Recorded(Command(r)))'
  BY <1>1 DEF Sound
<1>4. (v.says = "refused" /\ v.code # "INBOX_PAYLOAD_CONFLICT" =>
           (\E via \in Vias : InputFailure(r, via) # NoError) \/ Refuted(Command(r)))'
  BY <1>2 DEF Sound
<1>5. (v.says \in {"again", "broken"} =>
           \E w \in wagers : w.status = "FAILED" /\ KeyOf(w.cmd) = KeyOf(Command(r)))'
  BY <1>0 DEF Sound, RowsAreKept
<1>6. (v.code = "IDEMPOTENCY_KEY_CONFLICT" => KeyIsTaken(r))'
  BY <1>0 DEF Sound, RowsAreKept, KeyIsTaken
<1>7. (v.code = "EXTERNAL_TRANSACTION_ID_REUSED" => ExternalIdIsTaken(r))'
  BY <1>0 DEF Sound, RowsAreKept, ExternalIdIsTaken
<1>8. (v.code = "INBOX_PAYLOAD_CONFLICT" => MessageIsTaken(r))'
  <2> SUFFICES ASSUME MessageIsTaken(r) PROVE MessageIsTaken(r)'
    BY DEF Sound
  <2>1. PICK s \in met : /\ Says(s.text.provider) = Says(r.text.provider)
                         /\ Says(s.message) = Says(r.message)
                         /\ InboxHash(s) # InboxHash(r)
                         /\ [key |-> InboxKey(s), hash |-> InboxHash(s)] \in inbox
                         /\ \E w \in wagers : w.cmd = Command(s)
    BY DEF MessageIsTaken
  <2>2. \E w \in wagers' : w.cmd = Command(s)
    BY <1>0, <2>1 DEF RowsAreKept
  <2>3. [key |-> InboxKey(s), hash |-> InboxHash(s)] \in inbox'
    BY <1>0, <2>1
  <2> QED
    BY <2>1, <2>2, <2>3 DEF MessageIsTaken
<1> QED
  BY <1>3, <1>4, <1>5, <1>6, <1>7, <1>8 DEF Sound

LEMMA InboxStands ==
    ASSUME BInv, Kept, met' = met, NEW d \in inbox
    PROVE  (\E r \in met : /\ d = [key |-> InboxKey(r), hash |-> InboxHash(r)]
                           /\ SqsFailure(r) = NoError
                           /\ Recorded(Command(r)))'
<1>1. ASSUME NEW c, Recorded(c) PROVE Recorded(c)'
  BY <1>1 DEF Kept, RowsAreKept, Recorded
<1> QED
  BY <1>1 DEF BInv, InboxIsOfRecorded

(* A verdict is added, or lost. *)
LEMMA VerdictsStand ==
    ASSUME BInv, Kept, met' = met, NEW r \in met, NEW v,
           Give(r, v) \/ UNCHANGED verdicts,
           Give(r, v) => Sound(r, v)'
    PROVE  DOMAIN verdicts' = met /\ VerdictsAreSound'
<1>1. \A s \in met : \A x \in verdicts[s] : Sound(s, x)'
  BY SoundnessStands DEF BInv, VerdictsAreSound
<1>2. CASE UNCHANGED verdicts
  BY <1>1, <1>2 DEF BInv, VerdictsAreSound
<1>3. CASE Give(r, v)
  <2>1. /\ DOMAIN verdicts' = met
        /\ \A s \in met : verdicts'[s] = IF s = r THEN verdicts[s] \cup {v} ELSE verdicts[s]
    BY <1>3 DEF Give, BInv
  <2>2. Sound(r, v)'
    BY <1>3
  <2>3. \A s \in met : \A x \in verdicts'[s] : Sound(s, x)'
    BY <1>1, <2>1, <2>2
  <2> QED
    BY <2>1, <2>3 DEF VerdictsAreSound
<1> QED
  BY <1>2, <1>3

(* A row keeps its command, and the inbox its rows. *)
LEMMA TablesStand ==
    ASSUME BInv, UNCHANGED <<met, wagers>>, inbox \subseteq inbox'
    PROVE  Kept /\ RowsAreCommands' /\ IdentitiesAreUnique'
<1>1. RowsAreCommands /\ IdentitiesAreUnique
  BY DEF BInv
<1> QED
  BY <1>1 DEF RowsAreCommands, IdentitiesAreUnique, Kept, RowsAreKept

-----------------------------------------------------------------------------
(* Each step.                                                              *)

LEMMA RefuseInputStep ==
    ASSUME BInv, NEW r \in met, NEW via \in Vias, RefuseInput(r, via)
    PROVE  BInv'
<1> DEFINE v == Verdict(via, InputFailure(r, via), PermanentInputCodes)
<1>1. /\ InputFailure(r, via) # NoError /\ Give(r, v) /\ UNCHANGED <<met, wagers, inbox>>
  BY DEF RefuseInput
<1>2. Kept /\ RowsAreCommands' /\ IdentitiesAreUnique'
  BY <1>1, TablesStand
<1>3. InboxIsOfRecorded'
  BY <1>1, <1>2, InboxStands DEF InboxIsOfRecorded
<1>4. /\ v.says = "refused"
      /\ v.code \notin {"IDEMPOTENCY_KEY_CONFLICT", "EXTERNAL_TRANSACTION_ID_REUSED",
                        "INBOX_PAYLOAD_CONFLICT"}
  <2>1. CASE via = "http"
    <3>1. InputFailure(r, via) \in {"PAYLOAD_TOO_LARGE", "UNSUPPORTED_MEDIA_TYPE",
              "INVALID_PAYLOAD", "MISSING_IDEMPOTENCY_KEY",
              "RESERVED_PROVIDER_ID", "REFERENCE_REQUIRED"}
      BY <1>1, <2>1, HttpCodes DEF InputFailure
    <3>2. Reading(StatusOf(InputFailure(r, via))) = "refused"
      <4>1. StatusOf(InputFailure(r, via)) \in {400, 413, 415}
        BY <3>1 DEF StatusOf
      <4> QED
        BY <4>1 DEF Reading
    <3> QED
      BY <2>1, <3>1, <3>2 DEF Verdict
  <2>2. CASE via = "sqs"
    <3>1. InputFailure(r, via) \in PermanentInputCodes
      BY <1>1, <2>2, SqsCodes DEF InputFailure
    <3> QED
      BY <2>2, <3>1 DEF Verdict, PermanentInputCodes
  <2> QED
    BY <2>1, <2>2 DEF Vias
<1>5. Sound(r, v)'
  BY <1>1, <1>4 DEF Sound
<1> HIDE DEF v
<1>6. DOMAIN verdicts' = met /\ VerdictsAreSound'
  BY <1>1, <1>2, <1>5, VerdictsStand
<1> QED
  BY <1>1, <1>2, <1>3, <1>6 DEF BInv

LEMMA RefuseCommandStep ==
    ASSUME BInv, NEW r \in met, NEW via \in Vias, RefuseCommand(r, via)
    PROVE  BInv'
<1> DEFINE c == Command(r)
<1>0. PICK code : code = SubmissionFailure(c)
  OBVIOUS
<1> DEFINE v == Verdict(via, code, PermanentCodes)
<1>1. /\ InputFailure(r, via) = NoError /\ code # NoError
      /\ Give(r, v) /\ UNCHANGED <<met, wagers, inbox>>
  BY <1>0 DEF RefuseCommand, Admitted
<1>2. Kept /\ RowsAreCommands' /\ IdentitiesAreUnique'
  BY <1>1, TablesStand
<1>3. InboxIsOfRecorded'
  BY <1>1, <1>2, InboxStands DEF InboxIsOfRecorded
<1>4. /\ Refuted(c)
      /\ code \in {"AMOUNT_NOT_POSITIVE", "IDEMPOTENCY_KEY_CONFLICT",
                   "EXTERNAL_TRANSACTION_ID_REUSED"}
      /\ code = "IDEMPOTENCY_KEY_CONFLICT" =>
             \E w \in OwnersByKey(c) : PayloadHash(w.cmd) # PayloadHash(c)
      /\ code = "EXTERNAL_TRANSACTION_ID_REUSED" =>
             OwnersByKey(c) = {} /\ OwnersByExternal(c) # {}
  BY <1>0, <1>1, Submissions
<1>5. v.says = "refused" /\ v.code = code
  <2>1. StatusOf(code) \in {400, 409}
    BY <1>4 DEF StatusOf
  <2>2. Reading(StatusOf(code)) = "refused"
    BY <2>1 DEF Reading
  <2>3. code \in PermanentCodes
    BY <1>4 DEF PermanentCodes
  <2> QED
    BY <2>2, <2>3 DEF Verdict
<1>6. \A w \in wagers : \E s \in met : w.cmd = Command(s)
  BY DEF BInv, RowsAreCommands
<1>7. met \subseteq Requests
  BY MetAreRequests
<1>8. ASSUME code = "IDEMPOTENCY_KEY_CONFLICT"
      PROVE  KeyIsTaken(r)
  <2>1. PICK w \in wagers : KeyOf(w.cmd) = KeyOf(c) /\ PayloadHash(w.cmd) # PayloadHash(c)
    BY <1>4, <1>8 DEF OwnersByKey
  <2>2. PICK s \in met : w.cmd = Command(s)
    BY <1>6
  <2>3. r \in Requests /\ s \in Requests
    BY <1>7
  <2>4. /\ Identity(s, "key") = Identity(r, "key")
        /\ \/ Meaning(s, s.amount.value) # Meaning(r, r.amount.value)
           \/ s.wallet # r.wallet
    BY <2>1, <2>2, <2>3, KeysMean, HashesMean
  <2>5. /\ Identity(w.cmd, "key") = Identity(s, "key")
        /\ Meaning(w.cmd, w.cmd.amount) = Meaning(s, s.amount.value)
        /\ w.cmd.wallet = s.wallet
    BY <2>2, <2>3, CommandMeans, CommandShape
  <2> QED
    BY <2>4, <2>5 DEF KeyIsTaken
<1>9. ASSUME code = "EXTERNAL_TRANSACTION_ID_REUSED"
      PROVE  ExternalIdIsTaken(r)
  <2>1. PICK w \in wagers : ExternalOf(w.cmd) = ExternalOf(c) /\ KeyOf(w.cmd) # KeyOf(c)
    BY <1>4, <1>9 DEF OwnersByKey, OwnersByExternal
  <2>2. PICK s \in met : w.cmd = Command(s)
    BY <1>6
  <2>3. r \in Requests /\ s \in Requests
    BY <1>7
  <2>4. Identity(s, "ext") = Identity(r, "ext") /\ Identity(s, "key") # Identity(r, "key")
    BY <2>1, <2>2, <2>3, KeysMean
  <2>5. /\ Identity(w.cmd, "key") = Identity(s, "key")
        /\ Identity(w.cmd, "ext") = Identity(s, "ext")
    BY <2>2, <2>3, CommandMeans
  <2> QED
    BY <2>4, <2>5 DEF ExternalIdIsTaken
<1> HIDE DEF v, c
<1>10. Refuted(Command(r))'
  BY <1>1, <1>4 DEF c, Refuted
<1>11. Sound(r, v)'
  <2>1. (KeyIsTaken(r) => KeyIsTaken(r)') /\ (ExternalIdIsTaken(r) => ExternalIdIsTaken(r)')
    BY <1>1 DEF KeyIsTaken, ExternalIdIsTaken
  <2> QED
    BY <1>1, <1>4, <1>5, <1>8, <1>9, <1>10, <2>1 DEF Sound
<1>12. DOMAIN verdicts' = met /\ VerdictsAreSound'
  BY <1>1, <1>2, <1>11, VerdictsStand
<1> QED
  BY <1>1, <1>2, <1>3, <1>12 DEF BInv

LEMMA RedeliveredStep ==
    ASSUME BInv, NEW r \in met, Redelivered(r)
    PROVE  BInv'
<1>1. SqsFailure(r) = NoError /\ UNCHANGED <<met, wagers, inbox>>
  BY DEF Redelivered, InputFailure
<1>2. PICK d \in Deliveries(r) : Give(r, OfKnown(r, d))
  BY DEF Redelivered
<1>3. Kept /\ RowsAreCommands' /\ IdentitiesAreUnique'
  BY <1>1, TablesStand
<1>4. InboxIsOfRecorded'
  BY <1>1, <1>3, InboxStands DEF InboxIsOfRecorded
<1>5. d \in inbox /\ d.key = InboxKey(r)
  BY DEF Deliveries
<1>6. PICK s \in met : /\ d = [key |-> InboxKey(s), hash |-> InboxHash(s)]
                       /\ SqsFailure(s) = NoError /\ Recorded(Command(s))
  BY <1>5 DEF BInv, InboxIsOfRecorded
<1>7. r \in Requests /\ s \in Requests
  BY MetAreRequests
<1>8. CASE d.hash = InboxHash(r)
  <2>1. OfKnown(r, d) = [code |-> "DUPLICATE", says |-> "taken"]
    BY <1>8 DEF OfKnown
  <2>2. InboxHash(s) = InboxHash(r)
    BY <1>6, <1>8
  <2>3. /\ s.text = r.text /\ s.wallet = r.wallet /\ s.kind = r.kind
        /\ s.amount = r.amount /\ s.currency = r.currency
    BY <2>2 DEF InboxHash
  <2>4. Command(s) = Command(r)
    BY <2>3 DEF Command
  <2>5. Recorded(Command(r))'
    BY <1>1, <1>6, <2>4 DEF Recorded
  <2>6. InputFailure(r, "sqs") = NoError /\ "sqs" \in Vias
    BY <1>1 DEF InputFailure, Vias
  <2> QED
    BY <2>1, <2>5, <2>6, <1>1, <1>2, <1>3, <1>4, VerdictsStand DEF BInv, Sound
<1>9. CASE d.hash # InboxHash(r)
  <2>1. OfKnown(r, d) = [code |-> "INBOX_PAYLOAD_CONFLICT", says |-> "refused"]
    BY <1>9 DEF OfKnown
  <2>2. InboxHash(s) # InboxHash(r)
    BY <1>6, <1>9
  <2>3. ASSUME NEW x \in Requests, SqsFailure(x) = NoError
        PROVE  /\ x.message \in TextsOf(x) /\ x.text.provider \in TextsOf(x)
               /\ InboxKey(x) = <<Normal(x.text.provider), Normal(x.message)>>
    <3>1. BodyFailure(x) = NoError /\ Fits(x.message, 128)
      BY <2>3, Sqs
    <3>2. x.message # None /\ x.text.provider # None
      BY <3>1, Bodies DEF Fits, IsText
    <3> QED
      BY <2>3, <3>2, FieldsAreTexts DEF Fields, InboxKey, Normal
  <2>4. InboxKey(s) = InboxKey(r)
    BY <1>5, <1>6
  <2>5. /\ Normal(s.text.provider) = Normal(r.text.provider)
        /\ Normal(s.message) = Normal(r.message)
    BY <1>1, <1>6, <1>7, <2>3, <2>4
  <2>6. Says(r.text.provider) = Says(s.text.provider) /\ Says(r.message) = Says(s.message)
    BY <1>1, <1>6, <1>7, <2>3, <2>5, SameText
  <2>7. MessageIsTaken(r)'
    BY <1>1, <1>5, <1>6, <2>2, <2>6 DEF MessageIsTaken, Recorded
  <2>8. Sound(r, OfKnown(r, d))'
    BY <2>1, <2>7 DEF Sound
  <2> QED
    BY <2>8, <1>1, <1>2, <1>3, <1>4, VerdictsStand DEF BInv
<1> QED
  BY <1>8, <1>9

(* The inbox row of an admitted delivery is committed with its wager. *)
LEMMA ReserveInboxStep ==
    ASSUME BInv, Kept, met' = met, NEW r \in met, NEW via \in Vias,
           InputFailure(r, via) = NoError, ReserveInbox(r, via), Recorded(Command(r))'
    PROVE  InboxIsOfRecorded'
<1>1. \A d \in inbox : (\E s \in met : /\ d = [key |-> InboxKey(s), hash |-> InboxHash(s)]
                                       /\ SqsFailure(s) = NoError
                                       /\ Recorded(Command(s)))'
  BY InboxStands
<1>2. CASE via = "http"
  BY <1>1, <1>2 DEF ReserveInbox, InboxIsOfRecorded
<1>3. CASE via = "sqs"
  <2>1. SqsFailure(r) = NoError
    BY <1>3 DEF InputFailure
  <2>2. inbox' = inbox \cup {[key |-> InboxKey(r), hash |-> InboxHash(r)]}
    BY <1>3 DEF ReserveInbox
  <2> QED
    BY <1>1, <2>1, <2>2 DEF InboxIsOfRecorded
<1> QED
  BY <1>2, <1>3 DEF Vias

LEMMA Readings ==
    ASSUME NEW status
    PROVE  /\ status \in {200, 201, 202, 422} => Reading(status) = "taken"
           /\ status = 500 => Reading(status) = "broken"
BY DEF Reading

LEMMA RecordStep ==
    ASSUME BInv, NEW r \in met, NEW via \in Vias, Record(r, via)
    PROVE  BInv'
<1> DEFINE c == Command(r)
           row(s) == [cmd |-> c, status |-> s]
<1>1. /\ InputFailure(r, via) = NoError /\ SubmissionFailure(c) = NoError
      /\ OwnersByKey(c) = {} /\ ReserveInbox(r, via) /\ met' = met
  BY DEF Record, Admitted
<1>2. PICK s \in {"PROCESSED", "REJECTED", "PENDING_REFERENCE"} :
          wagers' = wagers \cup {row(s)} /\ GiveOrLose(r, Answer(via, row(s), FALSE))
  BY DEF Record
<1>3. c.amount > 0 /\ ~ Refuted(c)
  BY <1>1, Submissions
<1>4. Kept
  BY <1>1, <1>2 DEF Kept, RowsAreKept, ReserveInbox
<1>5. RowsAreCommands'
  <2>1. row(s).cmd.amount > 0 /\ s \in Statuses
    BY <1>2, <1>3 DEF Statuses
  <2> QED
    BY <1>1, <1>2, <2>1 DEF BInv, RowsAreCommands
<1>6. IdentitiesAreUnique'
  <2>1. ASSUME NEW w \in wagers PROVE ~ Shares(w.cmd, c) /\ ~ Shares(c, w.cmd)
    BY <1>1, <1>3 DEF Refuted, Shares, OwnersByKey
  <2>2. row(s).cmd = c
    OBVIOUS
  <2> QED
    BY <1>2, <2>1, <2>2 DEF BInv, IdentitiesAreUnique
<1>7. Recorded(c)'
  <2>1. row(s) \in wagers' /\ row(s).cmd = c
    BY <1>2
  <2> QED
    BY <2>1 DEF Recorded
<1>8. InboxIsOfRecorded'
  BY <1>1, <1>4, <1>7, ReserveInboxStep
<1>9. Answer(via, row(s), FALSE) = [code |-> NoError, says |-> "taken"]
  <2>1. row(s).status = s
    OBVIOUS
  <2>2. StatusFor(row(s), FALSE) \in {201, 422, 202}
    BY <1>2, <2>1 DEF StatusFor
  <2>3. Reading(StatusFor(row(s), FALSE)) = "taken"
    BY <2>2, Readings
  <2> QED
    BY <2>3 DEF Answer
<1>10. DOMAIN verdicts' = met /\ VerdictsAreSound'
  <2>1. Sound(r, [code |-> NoError, says |-> "taken"])'
    BY <1>1, <1>7 DEF Sound, NoError
  <2> QED
    BY <1>1, <1>2, <1>4, <1>9, <2>1, VerdictsStand DEF GiveOrLose
<1> QED
  BY <1>1, <1>5, <1>6, <1>8, <1>10 DEF BInv

LEMMA ReplayStep ==
    ASSUME BInv, NEW r \in met, NEW via \in Vias, Replay(r, via)
    PROVE  BInv'
<1> DEFINE c == Command(r)
<1>1. /\ InputFailure(r, via) = NoError /\ SubmissionFailure(c) = NoError
      /\ ReserveInbox(r, via) /\ UNCHANGED <<met, wagers>>
  BY DEF Replay, Admitted
<1>2. PICK row \in OwnersByKey(c) : GiveOrLose(r, Answer(via, row, TRUE))
  BY DEF Replay
<1>3. row \in wagers /\ row.cmd = c
  BY <1>1, Submissions DEF OwnersByKey
<1>4. row.status \in Statuses
  BY <1>3 DEF BInv, RowsAreCommands
<1>5. Kept /\ RowsAreCommands' /\ IdentitiesAreUnique'
  BY <1>1, TablesStand DEF ReserveInbox
<1>6. Recorded(c)'
  BY <1>1, <1>3 DEF Recorded
<1>7. InboxIsOfRecorded'
  BY <1>1, <1>5, <1>6, ReserveInboxStep
<1>8. Sound(r, Answer(via, row, TRUE))'
  <2>1. CASE via = "sqs" \/ row.status # "FAILED"
    <3>1. StatusFor(row, TRUE) \in {200, 422, 202} \/ via = "sqs"
      BY <1>4, <2>1 DEF StatusFor, Statuses
    <3>2. Answer(via, row, TRUE) = [code |-> NoError, says |-> "taken"]
      <4>1. Reading(StatusFor(row, TRUE)) = "taken" \/ via = "sqs"
        BY <3>1, Readings
      <4> QED
        BY <4>1 DEF Answer, Vias
    <3>3. Sound(r, [code |-> NoError, says |-> "taken"])'
      BY <1>1, <1>6 DEF Sound, NoError
    <3> QED
      BY <3>2, <3>3
  <2>2. CASE via = "http" /\ row.status = "FAILED"
    <3>1. Answer(via, row, TRUE) = [code |-> NoError, says |-> "broken"]
      <4>1. StatusFor(row, TRUE) = 500
        BY <2>2 DEF StatusFor
      <4>2. Reading(StatusFor(row, TRUE)) = "broken"
        BY <4>1, Readings
      <4> QED
        BY <2>2, <4>2 DEF Answer
    <3>2. (\E w \in wagers : w.status = "FAILED" /\ KeyOf(w.cmd) = KeyOf(Command(r)))'
      BY <1>1, <1>3, <2>2
    <3>3. Sound(r, [code |-> NoError, says |-> "broken"])'
      BY <3>2 DEF Sound, NoError
    <3> QED
      BY <3>1, <3>3
  <2> QED
    BY <2>1, <2>2 DEF Vias
<1>9. DOMAIN verdicts' = met /\ VerdictsAreSound'
  BY <1>1, <1>2, <1>5, <1>8, VerdictsStand DEF GiveOrLose
<1> QED
  BY <1>1, <1>5, <1>7, <1>9 DEF BInv

LEMMA SettleStep ==
    ASSUME BInv, NEW row \in wagers, Settle(row)
    PROVE  BInv'
<1>1. row.status = "PENDING_REFERENCE" /\ UNCHANGED <<met, inbox, verdicts>>
  BY DEF Settle
<1>2. PICK s \in Statuses : wagers' = (wagers \ {row}) \cup {[row EXCEPT !.status = s]}
  BY DEF Settle, Statuses
<1> DEFINE new == [row EXCEPT !.status = s]
<1>3. PICK r \in met, t \in Statuses : row = [cmd |-> Command(r), status |-> t]
  BY DEF BInv, RowsAreCommands
<1>4. new = [cmd |-> Command(r), status |-> s] /\ new.cmd = row.cmd
  BY <1>3
<1>5. wagers' = (wagers \ {row}) \cup {new}
  BY <1>2
<1> HIDE DEF new
<1>6. Kept
  BY <1>1, <1>4, <1>5 DEF Kept, RowsAreKept
<1>7. RowsAreCommands'
  <2>1. new.cmd.amount > 0
    BY <1>4 DEF BInv, RowsAreCommands
  <2> QED
    BY <1>1, <1>4, <1>5, <2>1 DEF BInv, RowsAreCommands
<1>8. IdentitiesAreUnique'
  BY <1>4, <1>5 DEF BInv, IdentitiesAreUnique
<1>9. InboxIsOfRecorded'
  BY <1>1, <1>6, InboxStands DEF InboxIsOfRecorded
<1>10. DOMAIN verdicts' = met /\ VerdictsAreSound'
  BY <1>1, <1>6, SoundnessStands DEF BInv, VerdictsAreSound
<1> QED
  BY <1>1, <1>7, <1>8, <1>9, <1>10 DEF BInv

-----------------------------------------------------------------------------
LEMMA Initially == Init => BInv
BY DEF Init, BInv, RowsAreCommands, IdentitiesAreUnique, InboxIsOfRecorded, VerdictsAreSound

LEMMA Inductive == BInv /\ [Next]_vars => BInv'
<1> SUFFICES ASSUME BInv, [Next]_vars PROVE BInv'
  OBVIOUS
<1>1. CASE UNCHANGED vars
  BY <1>1 DEF vars, BInv, RowsAreCommands, IdentitiesAreUnique, InboxIsOfRecorded,
              VerdictsAreSound, Sound, Recorded, Refuted,
              KeyIsTaken, ExternalIdIsTaken, MessageIsTaken
<1>2. ASSUME NEW r \in met, NEW via \in Vias, RefuseInput(r, via) PROVE BInv'
  BY <1>2, RefuseInputStep
<1>3. ASSUME NEW r \in met, NEW via \in Vias, RefuseCommand(r, via) PROVE BInv'
  BY <1>3, RefuseCommandStep
<1>4. ASSUME NEW r \in met, NEW via \in Vias, Record(r, via) PROVE BInv'
  BY <1>4, RecordStep
<1>5. ASSUME NEW r \in met, NEW via \in Vias, Replay(r, via) PROVE BInv'
  BY <1>5, ReplayStep
<1>6. ASSUME NEW r \in met, Redelivered(r) PROVE BInv'
  BY <1>6, RedeliveredStep
<1>7. ASSUME NEW row \in wagers, Settle(row) PROVE BInv'
  BY <1>7, SettleStep
<1> QED
  BY <1>1, <1>2, <1>3, <1>4, <1>5, <1>6, <1>7 DEF Next

LEMMA BoundaryInvariant == Spec => []BInv
BY Initially, Inductive, PTL DEF Spec

-----------------------------------------------------------------------------
LEMMA Consequences ==
    ASSUME BInv
    PROVE  /\ DefectsAreNotOutages /\ VerdictsAgree /\ OneRowPerIdentity
           /\ ConflictsAreReal /\ TakenIsRecorded
<1>1. met \subseteq Requests /\ VerdictsAreSound
  BY MetAreRequests DEF BInv
<1>2. \A w \in wagers : /\ w.cmd.amount > 0
                        /\ \E s \in Requests : w.cmd = Command(s)
  BY <1>1 DEF BInv, RowsAreCommands
<1>3. DefectsAreNotOutages
  BY <1>1 DEF DefectsAreNotOutages, Was, VerdictsAreSound, Sound
<1>4. ConflictsAreReal
  BY <1>1 DEF ConflictsAreReal, VerdictsAreSound, Sound
<1>5. VerdictsAgree
  <2> SUFFICES ASSUME NEW r \in met, SameOverBoth(r), Was(r, "taken"),
                      NEW v \in verdicts[r], v.says = "refused",
                      v.code # "INBOX_PAYLOAD_CONFLICT"
               PROVE  FALSE
    BY DEF VerdictsAgree
  <2>1. /\ \E via \in Vias : InputFailure(r, via) = NoError
        /\ Recorded(Command(r))
    BY <1>1 DEF Was, VerdictsAreSound, Sound
  <2>2. \A via \in Vias : InputFailure(r, via) = NoError
    BY <2>1, InputsAgree DEF InputFailure, Vias
  <2>3. Refuted(Command(r))
    BY <1>1, <2>2 DEF VerdictsAreSound, Sound
  <2>4. PICK w \in wagers : w.cmd = Command(r)
    BY <2>1 DEF Recorded
  <2>5. ~ (Command(r).amount <= 0)
    <3>1. Command(r).amount \in Int
      <4>1. PICK via \in Vias : InputFailure(r, via) = NoError
        BY <2>1
      <4>2. r.amount.value \in 0 .. MaxAmount
        BY <1>1, <4>1, AdmittedIsStorable
      <4>3. Command(r).amount = r.amount.value
        BY <1>1, CommandShape
      <4> QED
        BY <4>2, <4>3, AmountAssumption
    <3> QED
      BY <1>2, <2>4, <3>1
  <2>6. PICK x \in wagers : Shares(x.cmd, Command(r)) /\ x.cmd # Command(r)
    BY <2>3, <2>5 DEF Refuted
  <2> QED
    BY <2>4, <2>6 DEF BInv, IdentitiesAreUnique
<1>6. OneRowPerIdentity
  <2> SUFFICES ASSUME NEW w \in wagers, NEW x \in wagers, w # x
               PROVE  /\ Identity(w.cmd, "key") # Identity(x.cmd, "key")
                      /\ Identity(w.cmd, "ext") # Identity(x.cmd, "ext")
    BY DEF OneRowPerIdentity
  <2>1. PICK r \in Requests : w.cmd = Command(r)
    BY <1>2
  <2>2. PICK s \in Requests : x.cmd = Command(s)
    BY <1>2
  <2>3. ~ Shares(Command(r), Command(s))
    BY <2>1, <2>2 DEF BInv, IdentitiesAreUnique
  <2>4. /\ Identity(w.cmd, "key") = Identity(r, "key") /\ Identity(w.cmd, "ext") = Identity(r, "ext")
        /\ Identity(x.cmd, "key") = Identity(s, "key") /\ Identity(x.cmd, "ext") = Identity(s, "ext")
    BY <2>1, <2>2, CommandMeans
  <2> QED
    BY <2>3, <2>4, KeysMean DEF Shares
<1>7. TakenIsRecorded
  <2> SUFFICES ASSUME NEW r \in met, Was(r, "taken")
               PROVE  \E w \in wagers : /\ Identity(w.cmd, "key") = Identity(r, "key")
                                        /\ Meaning(w.cmd, w.cmd.amount) = Meaning(r, r.amount.value)
    BY DEF TakenIsRecorded
  <2>1. PICK w \in wagers : w.cmd = Command(r)
    BY <1>1 DEF Was, VerdictsAreSound, Sound, Recorded
  <2> QED
    BY <1>1, <2>1, CommandMeans
<1> QED
  BY <1>3, <1>4, <1>5, <1>6, <1>7

-----------------------------------------------------------------------------
(* A defect of a payload never passes for an outage: whatever the parsers  *)
(* let through, the columns and the CHECKs take (AdmittedIsStorable), so no *)
(* submission is sent back unless its wager is recorded as FAILED.         *)
THEOREM DefectsAreRefused == Spec => []DefectsAreNotOutages
BY BoundaryInvariant, Consequences, PTL

(* A submission that both transports can carry is taken or refused for     *)
(* good, never one after the other: what refuses it once, an input check   *)
(* or a row that holds one of its identities, refuses it for ever.         *)
THEOREM TransportsAgree == Spec => []VerdictsAgree
BY BoundaryInvariant, Consequences, PTL

(* No key and no external id of a provider has two rows, in whatever        *)
(* spelling they come to the parsers.  Below the parsers nothing says so.  *)
THEOREM SpellingsAreOneIdentity == Spec => []OneRowPerIdentity
BY BoundaryInvariant, Consequences, PTL

(* Behind every conflict is a committed row: a wager under the key with     *)
(* another meaning or the wallet's id in other letters, a wager with the    *)
(* external id under another key, or the inbox row of a recorded delivery   *)
(* under the provider and message id whose envelope is not the same.       *)
THEOREM ConflictsHaveTwoSides == Spec => []ConflictsAreReal
BY BoundaryInvariant, Consequences, PTL

(* What was answered as taken, redeliveries deleted as duplicates included, *)
(* is recorded under its key as it was meant.                              *)
THEOREM NothingTakenIsLost == Spec => []TakenIsRecorded
BY BoundaryInvariant, Consequences, PTL
=============================================================================

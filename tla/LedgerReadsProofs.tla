-------------------------- MODULE LedgerReadsProofs -------------------------
(***************************************************************************)
(* Proofs about LedgerReads: for any clients, entries, clocks and limits,  *)
(* pages repeat no entry, skip none but those behind an instant that the    *)
(* cursor cannot hold, and reports are exact.                              *)
(*                                                                         *)
(* The invariant, LInv, says of every snapshot that its balance is the sum *)
(* of its entries but for the forged ones, and of every walk that what it  *)
(* still owes its client (the entries committed when it began that have    *)
(* been neither received nor hidden) lies behind the cursor and is in every snapshot a    *)
(* page is read from.  WalksAreComplete is not inductive without Owed: the *)
(* page on its way must be known to hold whatever its cursor leaves behind. *)
(*                                                                         *)
(* That InOrder sorts is shown by counting: the rank of a row among a      *)
(* finite set of rows is an injection, hence a bijection, to an interval.  *)
(* Facts about sums go by the least length at which they could fail.       *)
(***************************************************************************)
EXTENDS LedgerReads, FiniteSetTheorems, TLAPS

-----------------------------------------------------------------------------
(* The order of the ledger is strict and total.                            *)

LEMMA OrderOfEntries ==
    /\ \A a \in Entries : ~ Precedes(a, a)
    /\ \A a, b, c \in Entries : Precedes(a, b) /\ Precedes(b, c) => Precedes(a, c)
    /\ \A a, b \in Entries : a = b \/ Precedes(a, b) \/ Precedes(b, a)
<1>1. \A a \in Entries : a.at \in Nat /\ a.us \in Nat /\ a.id \in Nat
  BY MovementsAssumption, InstantsAssumption DEF Entries
<1>2. \A a, b \in Entries : a.at = b.at /\ a.us = b.us /\ a.id = b.id => a = b
  BY DEF Entries
<1> QED
  BY <1>1, <1>2 DEF Precedes

(* A cursor is an entry of a whole millisecond; what its entry precedes it  *)
(* precedes too, or its entry hides.                                       *)
LEMMA Marks ==
    ASSUME NEW f \in Entries
    PROVE  /\ Mark(f) \in Entries
           /\ \A e \in Entries : Precedes(Mark(f), e) => Precedes(f, e)
           /\ \A e \in Entries : Precedes(f, e) => Precedes(Mark(f), e) \/ Hides(f, e)
<1>1. \A e \in Entries : e.at \in Nat /\ e.us \in Nat /\ e.id \in Nat
  BY MovementsAssumption, InstantsAssumption DEF Entries
<1>2. Mark(f) \in Entries /\ Mark(f).at = f.at /\ Mark(f).us = 0 /\ Mark(f).id = f.id
  BY InstantsAssumption DEF Mark, Entries
<1> QED
  BY <1>1, <1>2 DEF Precedes, Hides

LEMMA BookIsFinite ==
    ASSUME NEW s \in Seq(Entries)
    PROVE  IsFiniteSet(Book(s)) /\ Book(s) \subseteq Entries
<1>1. Len(s) \in Nat /\ \A i \in 1 .. Len(s) : s[i] \in Entries
  OBVIOUS
<1> DEFINE f == [i \in 1 .. Len(s) |-> s[i]]
<1>2. f \in Surjection(1 .. Len(s), Book(s))
  BY DEF Surjection, Book
<1>3. IsFiniteSet(1 .. Len(s))
  BY <1>1, FS_Interval
<1>4. IsFiniteSet(Book(s))
  BY <1>2, <1>3, FS_Surjection
<1> QED
  BY <1>1, <1>4 DEF Book

(* How many rows come before a given one.                                  *)
Rank(rows, e) == Cardinality({f \in rows : Precedes(f, e)})

LEMMA Ranks ==
    ASSUME NEW rows \in SUBSET Entries, IsFiniteSet(rows)
    PROVE  /\ Cardinality(rows) \in Nat
           /\ \A e \in rows : Rank(rows, e) \in 0 .. Cardinality(rows) - 1
           /\ \A d, e \in rows : Precedes(d, e) <=> Rank(rows, d) < Rank(rows, e)
           /\ \A d, e \in rows : Rank(rows, d) = Rank(rows, e) => d = e
<1> DEFINE Before(e) == {f \in rows : Precedes(f, e)}
<1>1. Cardinality(rows) \in Nat
  BY FS_CardinalityType
<1>2. ASSUME NEW e \in rows
      PROVE  IsFiniteSet(Before(e)) /\ Cardinality(Before(e)) \in Nat
  <2>1. Before(e) \in SUBSET rows
    OBVIOUS
  <2>2. IsFiniteSet(Before(e))
    BY <2>1, FS_Subset
  <2> QED
    BY <2>2, FS_CardinalityType
<1>3. ASSUME NEW e \in rows PROVE Cardinality(Before(e)) < Cardinality(rows)
  <2>1. Before(e) \in SUBSET rows /\ e \notin Before(e)
    BY OrderOfEntries
  <2>2. Cardinality(Before(e)) <= Cardinality(rows)
        /\ (Cardinality(rows) = Cardinality(Before(e)) => rows = Before(e))
    BY <2>1, FS_Subset
  <2> HIDE DEF Before
  <2> QED
    BY <1>1, <1>2, <2>1, <2>2
<1>4. ASSUME NEW d \in rows, NEW e \in rows, Precedes(d, e)
      PROVE  Cardinality(Before(d)) < Cardinality(Before(e))
  <2>1. Before(d) \in SUBSET Before(e) /\ d \in Before(e) /\ d \notin Before(d)
    BY <1>4, OrderOfEntries
  <2>2. Cardinality(Before(d)) <= Cardinality(Before(e))
        /\ (Cardinality(Before(e)) = Cardinality(Before(d)) => Before(e) = Before(d))
    BY <1>2, <2>1, FS_Subset
  <2> HIDE DEF Before
  <2> QED
    BY <1>2, <2>1, <2>2
<1>5. \A e \in rows : Rank(rows, e) = Cardinality(Before(e))
  BY DEF Rank
<1>6. \A e \in rows : Rank(rows, e) \in Nat /\ Rank(rows, e) < Cardinality(rows)
  BY <1>2, <1>3, <1>5
<1>7. \A d, e \in rows : Precedes(d, e) => Rank(rows, d) < Rank(rows, e)
  BY <1>4, <1>5
<1> HIDE DEF Before
<1> QED
  BY <1>1, <1>6, <1>7, OrderOfEntries

(* ORDER BY and LIMIT: the first rows in their order, and the ones left out *)
(* come after all of them.                                                 *)
LEMMA FirstInOrder ==
    ASSUME NEW rows \in SUBSET Entries, IsFiniteSet(rows), NEW n \in Nat
    PROVE  LET s == InOrder(rows, n)
           IN  /\ s \in Seq(Entries) /\ Len(s) <= n /\ Len(s) <= Cardinality(rows)
               /\ \A i \in 1 .. Len(s) : s[i] \in rows
               /\ \A i, j \in 1 .. Len(s) : i < j => Precedes(s[i], s[j])
               /\ \A e \in rows : e \in Book(s)
                                  \/ (Len(s) = n /\ \A i \in 1 .. Len(s) : Precedes(s[i], e))
<1> DEFINE m == IF Cardinality(rows) < n THEN Cardinality(rows) ELSE n
           s == InOrder(rows, n)
           rank == [e \in rows |-> Rank(rows, e) + 1]
<1>1. Cardinality(rows) \in Nat /\ m \in Nat /\ m <= n /\ m <= Cardinality(rows)
  BY Ranks
<1>2. rank \in Injection(rows, 1 .. Cardinality(rows))
  <2>1. rank \in [rows -> 1 .. Cardinality(rows)]
    BY <1>1, Ranks
  <2>2. \A d, e \in rows : rank[d] = rank[e] => d = e
    BY Ranks
  <2> HIDE DEF rank
  <2> QED
    BY <2>1, <2>2 DEF Injection, IsInjective
<1>3. rank \in Surjection(rows, 1 .. Cardinality(rows))
  <2>1. IsFiniteSet(1 .. Cardinality(rows)) /\ Cardinality(1 .. Cardinality(rows)) = Cardinality(rows)
    <3>1. 1 \in Int /\ Cardinality(rows) \in Int
      BY <1>1
    <3>2. IsFiniteSet(1 .. Cardinality(rows))
          /\ Cardinality(1 .. Cardinality(rows)) =
                IF 1 > Cardinality(rows) THEN 0 ELSE Cardinality(rows) - 1 + 1
      BY <3>1, FS_Interval
    <3> QED
      BY <1>1, <3>2
  <2> HIDE DEF rank
  <2> QED
    BY <1>2, <2>1, FS_Injection
<1>4. \A k \in 1 .. Cardinality(rows) : \E e \in rows : Rank(rows, e) = k - 1
  <2> SUFFICES ASSUME NEW k \in 1 .. Cardinality(rows) PROVE \E e \in rows : Rank(rows, e) = k - 1
    OBVIOUS
  <2>1. PICK e \in rows : rank[e] = k
    BY <1>3 DEF Surjection
  <2>2. Rank(rows, e) + 1 = k /\ Rank(rows, e) \in Int
    BY <2>1, Ranks, <1>1
  <2> QED
    BY <2>2
<1>5. s = [i \in 1 .. m |-> CHOOSE e \in rows : Rank(rows, e) = i - 1]
  BY DEF InOrder, Rank
<1>6. ASSUME NEW i \in 1 .. m PROVE s[i] \in rows /\ Rank(rows, s[i]) = i - 1
  <2>1. i \in 1 .. Cardinality(rows)
    BY <1>1
  <2>2. s[i] = CHOOSE e \in rows : Rank(rows, e) = i - 1
    BY <1>5
  <2> HIDE DEF s, m
  <2> QED
    BY <1>4, <2>1, <2>2
<1>7. s \in Seq(Entries) /\ Len(s) = m
  <2>1. \A i \in 1 .. m : s[i] \in Entries
    BY <1>6
  <2>2. s = [i \in 1 .. m |-> s[i]]
    BY <1>5
  <2> HIDE DEF s, m
  <2>3. s \in [1 .. m -> Entries]
    BY <2>1, <2>2
  <2> QED
    BY <1>1, <2>3
<1> HIDE DEF s, m
<1>8. \A i, j \in 1 .. m : i < j => Precedes(s[i], s[j])
  <2> SUFFICES ASSUME NEW i \in 1 .. m, NEW j \in 1 .. m, i < j PROVE Precedes(s[i], s[j])
    OBVIOUS
  <2>1. Rank(rows, s[i]) = i - 1 /\ Rank(rows, s[j]) = j - 1 /\ s[i] \in rows /\ s[j] \in rows
    BY <1>6
  <2>2. i - 1 < j - 1
    BY <1>1
  <2> QED
    BY <2>1, <2>2, Ranks
<1>9. ASSUME NEW e \in rows, e \notin Book(s)
      PROVE  m = n /\ \A i \in 1 .. m : Precedes(s[i], e)
  <2>1. PICK k \in 0 .. Cardinality(rows) - 1 : k = Rank(rows, e)
    BY Ranks
  <2>2. ~ (k + 1 \in 1 .. m)
    <3>1. ASSUME k + 1 \in 1 .. m PROVE FALSE
      <4>1. s[k + 1] \in rows /\ Rank(rows, s[k + 1]) = (k + 1) - 1
        BY <1>6, <3>1
      <4>2. s[k + 1] = e
        BY <1>1, <2>1, <4>1, Ranks
      <4> QED
        BY <1>7, <1>9, <3>1, <4>2 DEF Book
    <3> QED
      BY <3>1
  <2>3. m <= k /\ m < Cardinality(rows)
    BY <1>1, <2>1, <2>2
  <2>4. m = n
    BY <1>1, <2>3 DEF m
  <2>5. ASSUME NEW i \in 1 .. m PROVE Precedes(s[i], e)
    <3>1. s[i] \in rows /\ Rank(rows, s[i]) = i - 1
      BY <1>6
    <3>2. i - 1 < k
      BY <1>1, <2>1, <2>3
    <3> QED
      BY <2>1, <3>1, <3>2, Ranks
  <2> QED
    BY <2>4, <2>5
<1> QED
  BY <1>1, <1>6, <1>7, <1>8, <1>9 DEF s

-----------------------------------------------------------------------------
(* The sum over a ledger.  tlapm cannot cite the induction theorems of the  *)
(* library, so what induction would show is shown of a least exception.     *)

LEMMA LeastException ==
    ASSUME NEW T, T \subseteq Nat, T # {}
    PROVE  \E x \in T : \A y \in T : x <= y
<1> DEFINE R == {p \in Nat \X Nat : p[1] < p[2]}
<1>1. R = OpToRel(<, Nat)
  BY DEF OpToRel
<1>2. IsWellFoundedOn(R, Nat)
  BY <1>1, NatLessThanWellFounded
<1>3. PICK x \in T : \A y \in T : ~ (<<y, x>> \in R)
  BY <1>2, WFMin
<1>4. \A y \in T : <<y, x>> \in R <=> y < x
  BY <1>3
<1> HIDE DEF R
<1>5. \A y \in T : ~ (y < x)
  BY <1>3, <1>4
<1> QED
  BY <1>5

Worths == [Movements -> Int]
(* The partial sums of a ledger. *)
IsSums(f, entries, worth) ==
    f = [i \in 0 .. Len(entries) |-> IF i = 0 THEN 0 ELSE f[i - 1] + worth[entries[i].id]]

LEMMA SumsExist ==
    ASSUME NEW s \in Seq(Entries), NEW worth \in Worths
    PROVE  \E f : IsSums(f, s, worth)
<1> DEFINE Upto(n, f) == f = [i \in 0 .. n |-> IF i = 0 THEN 0 ELSE f[i - 1] + worth[s[i].id]]
           T == {n \in 0 .. Len(s) : ~ \E f : Upto(n, f)}
<1>1. Len(s) \in Nat
  OBVIOUS
<1>2. T = {}
  <2> SUFFICES ASSUME T # {} PROVE FALSE
    OBVIOUS
  <2>1. T \subseteq Nat
    BY <1>1
  <2>2. PICK n \in T : \A k \in T : n <= k
    <3> HIDE DEF T
    <3> QED
      BY <2>1, LeastException
  <2>3. n \in 0 .. Len(s) /\ ~ \E f : Upto(n, f)
    BY <2>2
  <2>4. n # 0
    <3>1. Upto(0, [i \in 0 .. 0 |-> 0])
      OBVIOUS
    <3> QED
      BY <2>3, <3>1
  <2>5. n - 1 \in 0 .. Len(s) /\ ~ (n - 1 \in T)
    <3>1. n - 1 \in 0 .. Len(s) /\ n - 1 < n
      BY <1>1, <2>3, <2>4
    <3> HIDE DEF T
    <3> QED
      BY <1>1, <2>1, <2>2, <2>3, <3>1
  <2>6. PICK f : Upto(n - 1, f)
    BY <2>5
  <2> DEFINE g == [i \in 0 .. n |-> IF i = n THEN f[n - 1] + worth[s[n].id] ELSE f[i]]
  <2>7. Upto(n, g)
    <3>1. ASSUME NEW i \in 0 .. n
          PROVE  g[i] = IF i = 0 THEN 0 ELSE g[i - 1] + worth[s[i].id]
      <4>1. CASE i = n
        <5>1. n - 1 \in 0 .. n /\ n - 1 # n
          BY <1>1, <2>3, <2>4
        <5> QED
          BY <2>4, <4>1, <5>1
      <4>2. CASE i # n
        <5>1. i \in 0 .. n - 1
          BY <1>1, <2>3, <4>2
        <5>2. i # 0 => i - 1 \in 0 .. n /\ i - 1 # n /\ i - 1 \in 0 .. n - 1
          BY <1>1, <2>3, <4>2
        <5>3. f[i] = IF i = 0 THEN 0 ELSE f[i - 1] + worth[s[i].id]
          BY <2>6, <5>1
        <5> QED
          BY <4>2, <5>1, <5>2, <5>3
      <4> QED
        BY <4>1, <4>2
    <3>2. g = [i \in 0 .. n |-> g[i]]
      OBVIOUS
    <3> HIDE DEF g
    <3> QED
      BY <3>1, <3>2
  <2> HIDE DEF g, Upto
  <2> QED
    BY <2>3, <2>7
<1>3. \E f : Upto(Len(s), f)
  <2>1. Len(s) \in 0 .. Len(s)
    BY <1>1
  <2> HIDE DEF Upto
  <2> QED
    BY <1>2, <2>1
<1> QED
  BY <1>3 DEF IsSums

LEMMA SumsFacts ==
    ASSUME NEW s \in Seq(Entries), NEW worth \in Worths, NEW f, IsSums(f, s, worth)
    PROVE  /\ f[0] = 0
           /\ \A i \in 1 .. Len(s) : f[i] = f[i - 1] + worth[s[i].id]
           /\ \A i \in 1 .. Len(s) : worth[s[i].id] \in Int
<1>1. Len(s) \in Nat
  OBVIOUS
<1>2. \A i \in 0 .. Len(s) : f[i] = IF i = 0 THEN 0 ELSE f[i - 1] + worth[s[i].id]
  BY DEF IsSums
<1>3. ASSUME NEW i \in 1 .. Len(s) PROVE worth[s[i].id] \in Int
  <2>1. s[i] \in Entries
    OBVIOUS
  <2> QED
    BY <2>1 DEF Entries, Worths
<1> QED
  BY <1>1, <1>2, <1>3

(* Two ledgers that agree up to some length have the same sums up to it.    *)
LEMMA SumsAgree ==
    ASSUME NEW s \in Seq(Entries), NEW t \in Seq(Entries), NEW worth \in Worths,
           NEW f, IsSums(f, s, worth), NEW g, IsSums(g, t, worth),
           Len(s) <= Len(t), \A i \in 1 .. Len(s) : s[i] = t[i]
    PROVE  \A i \in 0 .. Len(s) : f[i] = g[i] /\ f[i] \in Int
<1> DEFINE T == {i \in 0 .. Len(s) : ~ (f[i] = g[i] /\ f[i] \in Int)}
<1>1. Len(s) \in Nat /\ Len(t) \in Nat
  OBVIOUS
<1>2. T = {}
  <2> SUFFICES ASSUME T # {} PROVE FALSE
    OBVIOUS
  <2>1. T \subseteq Nat
    BY <1>1
  <2>2. PICK n \in T : \A k \in T : n <= k
    <3> HIDE DEF T
    <3> QED
      BY <2>1, LeastException
  <2>3. n \in 0 .. Len(s) /\ ~ (f[n] = g[n] /\ f[n] \in Int)
    BY <2>2
  <2>4. n # 0
    BY <2>3, SumsFacts
  <2>5. n \in 1 .. Len(s) /\ n \in 1 .. Len(t) /\ n - 1 \in 0 .. Len(s) /\ n - 1 < n
    BY <1>1, <2>3, <2>4
  <2>6. ~ (n - 1 \in T)
    <3> HIDE DEF T
    <3> QED
      BY <1>1, <2>1, <2>2, <2>5
  <2>7. f[n - 1] = g[n - 1] /\ f[n - 1] \in Int
    BY <2>5, <2>6
  <2>8. f[n] = f[n - 1] + worth[s[n].id] /\ g[n] = g[n - 1] + worth[t[n].id]
        /\ worth[s[n].id] \in Int /\ s[n] = t[n]
    BY <2>5, SumsFacts
  <2> QED
    BY <2>3, <2>7, <2>8
<1> QED
  BY <1>2

LEMMA TotalIsLastSum ==
    ASSUME NEW s \in Seq(Entries), NEW worth \in Worths
    PROVE  \E f : IsSums(f, s, worth) /\ Total(s, worth) = f[Len(s)] /\ Total(s, worth) \in Int
<1> DEFINE f == CHOOSE f : IsSums(f, s, worth)
<1>1. IsSums(f, s, worth)
  BY SumsExist
<1>2. Total(s, worth) = f[Len(s)]
  BY DEF Total, IsSums
<1> HIDE DEF f
<1>3. f[Len(s)] \in Int
  <2>1. Len(s) \in Nat
    OBVIOUS
  <2> QED
    BY <1>1, <2>1, SumsAgree
<1> QED
  BY <1>1, <1>2, <1>3

LEMMA TotalOfNone == \A worth \in Worths : Total(<<>>, worth) = 0
<1> SUFFICES ASSUME NEW worth \in Worths PROVE Total(<<>>, worth) = 0
  OBVIOUS
<1>1. <<>> \in Seq(Entries) /\ Len(<<>>) = 0
  OBVIOUS
<1> QED
  BY <1>1, TotalIsLastSum, SumsFacts

LEMMA TotalOfAppend ==
    ASSUME NEW s \in Seq(Entries), NEW e \in Entries, NEW worth \in Worths
    PROVE  /\ Total(Append(s, e), worth) = Total(s, worth) + worth[e.id]
           /\ Total(s, worth) \in Int /\ worth[e.id] \in Int
<1> DEFINE t == Append(s, e)
<1>1. /\ Len(s) \in Nat /\ t \in Seq(Entries) /\ Len(t) = Len(s) + 1
      /\ \A i \in 1 .. Len(s) : s[i] = t[i]
      /\ t[Len(t)] = e
  OBVIOUS
<1> HIDE DEF t
<1>2. PICK f : IsSums(f, s, worth) /\ Total(s, worth) = f[Len(s)] /\ Total(s, worth) \in Int
  BY TotalIsLastSum
<1>3. PICK g : IsSums(g, t, worth) /\ Total(t, worth) = g[Len(t)]
  BY <1>1, TotalIsLastSum
<1>4. g[Len(s)] = f[Len(s)]
  <2>1. Len(s) \in 0 .. Len(s) /\ Len(s) <= Len(t)
    BY <1>1
  <2> QED
    BY <1>1, <1>2, <1>3, <2>1, SumsAgree
<1>5. g[Len(t)] = g[Len(s)] + worth[e.id] /\ worth[e.id] \in Int
  <2>1. Len(t) \in 1 .. Len(t) /\ Len(t) - 1 = Len(s)
    BY <1>1
  <2>2. g[Len(t)] = g[Len(t) - 1] + worth[t[Len(t)].id] /\ worth[t[Len(t)].id] \in Int
    BY <1>1, <1>3, <2>1, SumsFacts
  <2> QED
    BY <1>1, <2>1, <2>2
<1> QED
  BY <1>2, <1>3, <1>4, <1>5 DEF t

-----------------------------------------------------------------------------
(* The invariant.                                                          *)

Sorted(s) == \A i, j \in 1 .. Len(s) : i < j => Precedes(s[i], s[j])

(* The balance is the sum of the entries that were not forged. *)
Balances(w, entries) == w # None => w = Total(entries, Signed) - Total(entries, ForgedWorth)

BookInv ==
    /\ wallet \in Nat \cup {None} /\ ledger \in Seq(Entries)
    /\ wallet = None => ledger = <<>>
    /\ Balances(wallet, ledger)

Shapes ==
    /\ pc \in [Readers -> {"idle", "page", "sum", "answered"}]
    /\ limit \in [Readers -> Limits]
    /\ cursor \in [Readers -> Entries \cup {None}]
    /\ listed \in [Readers -> Seq(Entries)]
    /\ over \in [Readers -> BOOLEAN]
    /\ began \in [Readers -> SUBSET Movements]
    /\ snap = [r \in Readers |-> snap[r]] /\ reply = [r \in Readers |-> reply[r]]

(* An entry has been received, or is hidden by one that has. *)
Covered(entries, e) == \E i \in 1 .. Len(entries) : entries[i] = e \/ Hides(entries[i], e)

(* The entries a walk still owes its client. *)
Owed(r) == {e \in Book(ledger) : e.id \in began[r] /\ ~ Covered(listed[r], e)}

(* A snapshot is a state of the tables, and one that a page is read from    *)
(* holds whatever is owed.                                                 *)
SnapInv(r) ==
    /\ pc[r] \in {"page", "sum"} =>
          /\ snap[r].wallet \in Nat /\ snap[r].ledger \in Seq(Entries)
          /\ Balances(snap[r].wallet, snap[r].ledger)
    /\ pc[r] = "page" => ~ over[r] /\ Owed(r) \subseteq Book(snap[r].ledger)
    /\ pc[r] = "answered" => reply[r].kind \in {"page", "report", "RESOURCE_NOT_FOUND"}

(* A page on its way goes on where the client is, and what is still owed   *)
(* is on it, hidden by what is on it, or behind its cursor.                *)
PageInv(r) ==
    pc[r] = "answered" /\ reply[r].kind = "page" =>
        LET items == reply[r].items
            next == reply[r].nextCursor
        IN  /\ ~ over[r]
            /\ items \in Seq(Entries) /\ Len(items) <= limit[r] /\ Sorted(items)
            /\ \A i \in 1 .. Len(items) : Behind(cursor[r], items[i])
            /\ next # None => items # <<>> /\ next = Mark(items[Len(items)])
            /\ \A e \in Owed(r) : Covered(items, e) \/ (next # None /\ Precedes(next, e))

(* A client holds the cursor of the last entry it has, and what it is owed  *)
(* lies behind it.                                                         *)
WalkInv(r) ==
    /\ began[r] \subseteq Written
    /\ Sorted(listed[r])
    /\ cursor[r] # None => listed[r] # <<>> /\ cursor[r] = Mark(listed[r][Len(listed[r])])
    /\ (cursor[r] = None /\ ~ over[r]) => listed[r] = <<>>
    /\ over[r] => cursor[r] = None /\ Owed(r) = {}
    /\ cursor[r] # None => \A e \in Owed(r) : Precedes(cursor[r], e)

ReportInv(r) ==
    (pc[r] = "answered" /\ reply[r].kind = "report") =>
        /\ reply[r].difference = 0 - Total(snap[r].ledger, ForgedWorth)
        /\ reply[r].consistent <=> Total(snap[r].ledger, ForgedWorth) = 0
        /\ reply[r].checkedEntries = Len(snap[r].ledger)

LInv ==
    /\ BookInv /\ Shapes
    /\ \A r \in Readers : SnapInv(r) /\ PageInv(r) /\ WalkInv(r) /\ ReportInv(r)

LEMMA Values ==
    /\ Signed \in Worths /\ ForgedWorth \in Worths
    /\ \A e \in Forged : e \in Movements /\ ForgedWorth[e] = Signed[e]
    /\ \A e \in Movements \ Forged : ForgedWorth[e] = 0
    /\ None \notin Int /\ None \notin Entries
    /\ \A e \in Entries : e.id \in Movements /\ e.at \in Instants
    /\ \A e \in Movements, t \in Instants : [id |-> e, at |-> t, us |-> 0] \in Entries
    /\ \A e \in Forged, t \in Instants, u \in Micros : [id |-> e, at |-> t, us |-> u] \in Entries
    /\ MaxLimit \in Nat /\ 1 \in Limits
<1>1. \A e \in Movements : AmountOf[e] \in Nat
  BY AmountAssumption
<1>2. Signed \in Worths
  BY <1>1 DEF Signed, Worths
<1>3. ForgedWorth \in Worths
  BY <1>2 DEF ForgedWorth, Worths
<1> QED
  BY <1>2, <1>3, MovementsAssumption, InstantsAssumption, NoneIsNoEntry, LimitAssumption
     DEF ForgedWorth, Entries, Limits

LEMMA LedgerInit == Init => LInv
<1> SUFFICES ASSUME Init PROVE LInv
  OBVIOUS
<1>1. wallet = None /\ ledger = <<>>
  BY DEF Init
<1>2. BookInv
  BY <1>1 DEF BookInv, Balances
<1>3. Shapes
  BY Values DEF Init, Shapes
<1>4. ASSUME NEW r \in Readers PROVE SnapInv(r) /\ PageInv(r) /\ WalkInv(r) /\ ReportInv(r)
  BY DEF Init, SnapInv, PageInv, WalkInv, ReportInv, Sorted
<1> QED
  BY <1>2, <1>3, <1>4 DEF LInv

-----------------------------------------------------------------------------
(* The writers.                                                            *)

(* An entry is added: nobody's walk owes it.                                *)
LEMMA Adding ==
    ASSUME LInv, BookInv', UNCHANGED <<pc, snap, limit, reply, walk, began>>,
           NEW e \in Entries, e.id \notin Written, ledger' = Append(ledger, e)
    PROVE  LInv'
<1>1. Book(ledger)' = Book(ledger) \cup {e}
  <2>1. ledger \in Seq(Entries)
    BY DEF LInv, BookInv
  <2>2. Len(ledger) \in Nat /\ Len(ledger') = Len(ledger) + 1
        /\ \A i \in 1 .. Len(ledger) : ledger'[i] = ledger[i]
        /\ ledger'[Len(ledger) + 1] = e
    BY <2>1
  <2>3. 1 .. Len(ledger') = (1 .. Len(ledger)) \cup {Len(ledger) + 1}
    BY <2>2
  <2> QED
    BY <2>2, <2>3 DEF Book
<1>2. ASSUME NEW r \in Readers
      PROVE  Owed(r)' = Owed(r) /\ began'[r] \subseteq Written'
  <2>1. began[r] \subseteq Written /\ e.id \notin began[r]
    BY DEF LInv, WalkInv
  <2>2. began' = began /\ listed' = listed
    BY DEF walk
  <2> QED
    BY <1>1, <2>1, <2>2 DEF Owed, Written, Book, Covered, Hides, Precedes
<1>3. Shapes'
  BY DEF LInv, Shapes, walk
<1>4. ASSUME NEW r \in Readers PROVE SnapInv(r)' /\ PageInv(r)' /\ WalkInv(r)' /\ ReportInv(r)'
  <2>1. Owed(r)' = Owed(r) /\ began'[r] \subseteq Written' /\ SnapInv(r) /\ PageInv(r) /\ WalkInv(r)
        /\ ReportInv(r)
    BY <1>2 DEF LInv
  <2>2. SnapInv(r)' /\ ReportInv(r)'
    BY <2>1 DEF SnapInv, ReportInv, walk, Balances
  <2>3. PageInv(r)'
    BY <2>1 DEF PageInv, walk, Sorted
  <2>4. WalkInv(r)'
    BY <2>1 DEF WalkInv, walk, Sorted
  <2> QED
    BY <2>2, <2>3, <2>4
<1> QED
  BY <1>3, <1>4 DEF LInv

LEMMA OpenStep ==
    ASSUME LInv, Open
    PROVE  LInv'
<1>1. wallet = None /\ ledger = <<>>
      /\ UNCHANGED <<pc, snap, limit, reply, walk, began>>
  BY DEF Open, LInv, BookInv
<1>2. CASE wallet' = 0 /\ UNCHANGED ledger
  <2>1. Total(<<>>, Signed) = 0 /\ Total(<<>>, ForgedWorth) = 0
    BY TotalOfNone, Values
  <2>2. BookInv'
    BY <1>1, <1>2, <2>1 DEF LInv, BookInv, Balances
  <2>3. Shapes'
    BY <1>1 DEF LInv, Shapes, walk
  <2>4. ASSUME NEW r \in Readers PROVE SnapInv(r)' /\ PageInv(r)' /\ WalkInv(r)' /\ ReportInv(r)'
    BY <1>1, <1>2 DEF LInv, SnapInv, PageInv, WalkInv, ReportInv, walk, Balances, Sorted, Owed, Written
  <2> QED
    BY <2>2, <2>3, <2>4 DEF LInv
<1>3. ASSUME NEW e \in Movements \ Forged, NEW t \in Instants, DirectionOf[e] = "CREDIT",
             wallet' = AmountOf[e], ledger' = <<[id |-> e, at |-> t, us |-> 0]>>
      PROVE  LInv'
  <2> DEFINE x == [id |-> e, at |-> t, us |-> 0]
  <2>1. x \in Entries /\ x.id = e
    BY Values
  <2>2. ledger' = Append(ledger, x)
    BY <1>1, <1>3
  <2>3. x.id \notin Written
    BY <1>1 DEF Written, Book
  <2> HIDE DEF x
  <2>4. AmountOf[e] \in Nat /\ Signed[e] = AmountOf[e]
    BY <1>3, AmountAssumption DEF Signed
  <2>5. BookInv'
    <3>1. ledger' \in Seq(Entries)
      BY <1>1, <2>1, <2>2
    <3>2. /\ Total(ledger', Signed) = 0 + Signed[e]
          /\ Total(ledger', ForgedWorth) = 0 + 0
      <4>1. <<>> \in Seq(Entries)
        OBVIOUS
      <4>2. /\ Total(Append(<<>>, x), Signed) = Total(<<>>, Signed) + Signed[x.id]
            /\ Total(Append(<<>>, x), ForgedWorth) = Total(<<>>, ForgedWorth) + ForgedWorth[x.id]
        BY <2>1, <4>1, TotalOfAppend, Values
      <4>3. ForgedWorth[e] = 0
        BY Values
      <4> QED
        BY <1>1, <2>1, <2>2, <4>2, <4>3, TotalOfNone, Values
    <3>3. wallet' = AmountOf[e] /\ wallet' # None
      BY <1>3, <2>4, Values
    <3> QED
      BY <2>4, <3>1, <3>2, <3>3 DEF BookInv, Balances
  <2> QED
    BY <1>1, <2>1, <2>2, <2>3, <2>5, Adding
<1> QED
  BY <1>2, <1>3 DEF Open

LEMMA MoveStep ==
    ASSUME LInv, NEW e \in Movements, Move(e) \/ Forge(e)
    PROVE  LInv'
<1>1. PICK x \in Entries : x.id = e /\ ledger' = Append(ledger, x)
  <2>1. CASE Move(e)
    <3>1. PICK t \in Instants : ledger' = Append(ledger, [id |-> e, at |-> t, us |-> 0])
      BY <2>1 DEF Move
    <3> QED
      BY <3>1, Values
  <2>2. CASE Forge(e)
    <3>1. PICK t \in Instants, u \in Micros :
              ledger' = Append(ledger, [id |-> e, at |-> t, us |-> u])
      BY <2>2 DEF Forge
    <3>2. e \in Forged
      BY <2>2 DEF Forge
    <3> QED
      BY <3>1, <3>2, Values
  <2> QED
    BY <2>1, <2>2
<1>2. x \in Entries /\ x.id = e /\ ledger' = Append(ledger, x)
  BY <1>1
<1>3. /\ wallet # None /\ e \notin Written
      /\ UNCHANGED <<pc, snap, limit, reply, walk, began>>
  BY DEF Move, Forge
<1>4. ledger \in Seq(Entries) /\ wallet \in Nat
      /\ wallet = Total(ledger, Signed) - Total(ledger, ForgedWorth)
  BY <1>3 DEF LInv, BookInv, Balances
<1>5. /\ Total(ledger', Signed) = Total(ledger, Signed) + Signed[e]
      /\ Total(ledger', ForgedWorth) = Total(ledger, ForgedWorth) + ForgedWorth[e]
      /\ Total(ledger, Signed) \in Int /\ Total(ledger, ForgedWorth) \in Int
      /\ Signed[e] \in Int /\ ForgedWorth[e] \in Int
  BY <1>2, <1>4, TotalOfAppend, Values
<1>6. BookInv'
  <2>1. ledger' \in Seq(Entries)
    BY <1>2, <1>4
  <2>2. wallet' \in Nat /\ wallet' = Total(ledger', Signed) - Total(ledger', ForgedWorth)
    <3>1. CASE Move(e)
      <4>1. e \notin Forged /\ wallet + Signed[e] >= 0 /\ wallet' = wallet + Signed[e]
        BY <3>1 DEF Move
      <4>2. ForgedWorth[e] = 0
        BY <4>1, Values
      <4> QED
        BY <1>4, <1>5, <4>1, <4>2
    <3>2. CASE Forge(e)
      <4>1. e \in Forged /\ wallet' = wallet
        BY <3>2 DEF Forge
      <4>2. ForgedWorth[e] = Signed[e]
        BY <4>1, Values
      <4> QED
        BY <1>4, <1>5, <4>1, <4>2
    <3> QED
      BY <3>1, <3>2
  <2> QED
    BY <2>1, <2>2, Values DEF BookInv, Balances
<1> QED
  BY <1>2, <1>3, <1>6, Adding


-----------------------------------------------------------------------------
(* The readers.                                                            *)

(* A step leaves everything of one reader alone. *)
Kept(q) ==
    /\ pc'[q] = pc[q] /\ snap'[q] = snap[q] /\ limit'[q] = limit[q] /\ reply'[q] = reply[q]
    /\ cursor'[q] = cursor[q] /\ listed'[q] = listed[q] /\ over'[q] = over[q]
    /\ began'[q] = began[q]

LEMMA OneReader ==
    ASSUME LInv, UNCHANGED tables, Shapes', NEW r,
           \A q \in Readers \ {r} : Kept(q),
           r \in Readers => SnapInv(r)' /\ PageInv(r)' /\ WalkInv(r)' /\ ReportInv(r)'
    PROVE  LInv'
<1>1. wallet' = wallet /\ ledger' = ledger
  BY DEF tables
<1>2. BookInv'
  BY <1>1 DEF LInv, BookInv, Balances
<1>3. ASSUME NEW q \in Readers, q # r
      PROVE  SnapInv(q)' /\ PageInv(q)' /\ WalkInv(q)' /\ ReportInv(q)'
  <2>1. Kept(q) /\ SnapInv(q) /\ PageInv(q) /\ WalkInv(q) /\ ReportInv(q)
    BY <1>3 DEF LInv
  <2>2. Owed(q)' = Owed(q) /\ Written' = Written
    BY <1>1, <2>1 DEF Owed, Written, Book, Kept
  <2>3. SnapInv(q)'
    BY <2>1, <2>2 DEF SnapInv, Kept, Balances, Book
  <2>4. PageInv(q)'
    BY <2>1, <2>2 DEF PageInv, Kept, Book, Sorted, Behind, Precedes
  <2>5. WalkInv(q)'
    BY <2>1, <2>2 DEF WalkInv, Kept, Sorted, Precedes
  <2>6. ReportInv(q)'
    BY <2>1 DEF ReportInv, Kept
  <2> QED
    BY <2>3, <2>4, <2>5, <2>6
<1> QED
  BY <1>2, <1>3 DEF LInv

(* The first statement of a transaction. *)
LEMMA FindStep ==
    ASSUME LInv, NEW r \in Readers, NEW next \in {"page", "sum"}, FindWallet(r, next)
    PROVE  /\ UNCHANGED tables
           /\ pc' \in [Readers -> {"idle", "page", "sum", "answered"}]
           /\ snap' = [q \in Readers |-> snap'[q]]
           /\ pc'[r] = next /\ snap'[r].wallet = wallet /\ snap'[r].ledger = ledger
           /\ \A q \in Readers \ {r} : pc'[q] = pc[q] /\ snap'[q] = snap[q]
           /\ wallet \in Nat /\ Balances(wallet, ledger)
           /\ UNCHANGED <<reply, cursor, listed, over>>
<1>1. BookInv /\ Shapes
  BY DEF LInv
<1>2. wallet # None /\ UNCHANGED tables /\ UNCHANGED <<reply, cursor, listed, over>>
  BY DEF FindWallet, walk
<1>3. pc' \in [Readers -> {"idle", "page", "sum", "answered"}] /\ pc'[r] = next
      /\ \A q \in Readers \ {r} : pc'[q] = pc[q]
  BY <1>1 DEF FindWallet, Shapes
<1>4. snap' = [snap EXCEPT ![r] = [wallet |-> wallet, ledger |-> ledger]]
      /\ snap = [q \in Readers |-> snap[q]]
  BY <1>1 DEF FindWallet, Shapes
<1>5. snap' = [q \in Readers |-> snap'[q]] /\ snap'[r] = [wallet |-> wallet, ledger |-> ledger]
      /\ \A q \in Readers \ {r} : snap'[q] = snap[q]
  BY <1>4
<1> QED
  BY <1>1, <1>2, <1>3, <1>5 DEF BookInv

LEMMA AskForPageStep ==
    ASSUME LInv, NEW r \in Readers, AskForPage(r)
    PROVE  LInv'
<1>1. Shapes /\ BookInv /\ WalkInv(r) /\ ~ over[r] /\ FindWallet(r, "page")
  BY DEF LInv, AskForPage
<1>2. /\ UNCHANGED tables
      /\ pc' \in [Readers -> {"idle", "page", "sum", "answered"}]
      /\ snap' = [q \in Readers |-> snap'[q]]
      /\ pc'[r] = "page" /\ snap'[r].wallet = wallet /\ snap'[r].ledger = ledger
      /\ \A q \in Readers \ {r} : pc'[q] = pc[q] /\ snap'[q] = snap[q]
      /\ wallet \in Nat /\ Balances(wallet, ledger)
      /\ UNCHANGED <<reply, cursor, listed, over>>
  BY <1>1, FindStep
<1>3. limit' \in [Readers -> Limits] /\ \A q \in Readers \ {r} : limit'[q] = limit[q]
  <2>1. PICK n \in Limits : limit' = [limit EXCEPT ![r] = n]
    BY DEF AskForPage
  <2> QED
    BY <1>1, <2>1 DEF Shapes
<1>4. Written \subseteq Movements
  BY <1>1, Values DEF Written, Book, BookInv
<1>5. /\ began' \in [Readers -> SUBSET Movements]
      /\ \A q \in Readers \ {r} : began'[q] = began[q]
      /\ began'[r] = IF cursor[r] = None THEN Written ELSE began[r]
  BY <1>1, <1>4 DEF AskForPage, Shapes
<1>6. Shapes'
  BY <1>1, <1>2, <1>3, <1>5 DEF Shapes
<1>7. \A q \in Readers \ {r} : Kept(q)
  BY <1>2, <1>3, <1>5 DEF Kept
<1>8. Written' = Written /\ ledger' = ledger
  BY <1>2 DEF tables, Written
<1>9. WalkInv(r)'
  <2>1. cursor[r] = None => listed[r] = <<>> /\ began'[r] = Written
    BY <1>1, <1>5 DEF WalkInv
  <2>2. cursor[r] # None => Owed(r)' = Owed(r) /\ began'[r] = began[r]
    BY <1>2, <1>5, <1>8 DEF Owed
  <2> QED
    BY <1>1, <1>2, <1>8, <2>1, <2>2 DEF WalkInv, Sorted
<1>10. SnapInv(r)'
  <2>1. Owed(r)' \subseteq Book(ledger)
    BY <1>8 DEF Owed
  <2> QED
    BY <1>1, <1>2, <2>1 DEF SnapInv, BookInv, Balances
<1>11. PageInv(r)' /\ ReportInv(r)'
  BY <1>2 DEF PageInv, ReportInv
<1> QED
  BY <1>2, <1>6, <1>7, <1>9, <1>10, <1>11, OneReader

LEMMA AskForReconciliationStep ==
    ASSUME LInv, NEW r \in Readers, AskForReconciliation(r)
    PROVE  LInv'
<1>1. Shapes /\ BookInv /\ WalkInv(r) /\ FindWallet(r, "sum") /\ UNCHANGED <<limit, began>>
  BY DEF LInv, AskForReconciliation
<1>2. /\ UNCHANGED tables
      /\ pc' \in [Readers -> {"idle", "page", "sum", "answered"}]
      /\ snap' = [q \in Readers |-> snap'[q]]
      /\ pc'[r] = "sum" /\ snap'[r].wallet = wallet /\ snap'[r].ledger = ledger
      /\ \A q \in Readers \ {r} : pc'[q] = pc[q] /\ snap'[q] = snap[q]
      /\ wallet \in Nat /\ Balances(wallet, ledger)
      /\ UNCHANGED <<reply, cursor, listed, over>>
  BY <1>1, FindStep
<1>3. Shapes'
  BY <1>1, <1>2 DEF Shapes
<1>4. \A q \in Readers \ {r} : Kept(q)
  BY <1>1, <1>2 DEF Kept
<1>5. Written' = Written /\ Owed(r)' = Owed(r)
  BY <1>1, <1>2 DEF tables, Written, Owed
<1>6. WalkInv(r)'
  BY <1>1, <1>2, <1>5 DEF WalkInv, Sorted
<1>7. SnapInv(r)' /\ PageInv(r)' /\ ReportInv(r)'
  BY <1>1, <1>2 DEF SnapInv, PageInv, ReportInv, BookInv, Balances
<1> QED
  BY <1>2, <1>3, <1>4, <1>6, <1>7, OneReader

(* An answer is made, and the walk is left as it is. *)
LEMMA AnswerStep ==
    ASSUME LInv, NEW r \in Readers, NEW a,
           reply' = [reply EXCEPT ![r] = a], pc' = [pc EXCEPT ![r] = "answered"],
           UNCHANGED <<tables, snap, limit, walk, began>>
    PROVE  /\ Shapes' /\ \A q \in Readers \ {r} : Kept(q)
           /\ pc'[r] = "answered" /\ reply'[r] = a /\ WalkInv(r)'
           /\ Owed(r)' = Owed(r)
<1>1. Shapes /\ WalkInv(r)
  BY DEF LInv
<1>2. UNCHANGED <<wallet, ledger, snap, limit, cursor, listed, over, began>>
  BY DEF tables, walk
<1>3. /\ pc' \in [Readers -> {"idle", "page", "sum", "answered"}] /\ pc'[r] = "answered"
      /\ \A q \in Readers \ {r} : pc'[q] = pc[q]
  BY <1>1 DEF Shapes
<1>4. /\ reply' = [q \in Readers |-> reply'[q]] /\ reply'[r] = a
      /\ \A q \in Readers \ {r} : reply'[q] = reply[q]
  <2>1. reply = [q \in Readers |-> reply[q]]
    BY <1>1 DEF Shapes
  <2> QED
    BY <2>1
<1>5. Shapes'
  BY <1>1, <1>2, <1>3, <1>4 DEF Shapes
<1>6. \A q \in Readers \ {r} : Kept(q)
  BY <1>2, <1>3, <1>4 DEF Kept
<1>7. Written' = Written /\ Owed(r)' = Owed(r)
  BY <1>2 DEF Written, Owed
<1>8. WalkInv(r)'
  BY <1>1, <1>2, <1>7 DEF WalkInv, Sorted
<1> QED
  BY <1>3, <1>4, <1>5, <1>6, <1>7, <1>8

LEMMA FindNoWalletStep ==
    ASSUME LInv, NEW r \in Readers, FindNoWallet(r)
    PROVE  LInv'
<1> DEFINE a == [kind |-> "RESOURCE_NOT_FOUND"]
<1>1. /\ reply' = [reply EXCEPT ![r] = a] /\ pc' = [pc EXCEPT ![r] = "answered"]
      /\ UNCHANGED <<tables, snap, limit, walk, began>>
  BY DEF FindNoWallet
<1>2. a.kind = "RESOURCE_NOT_FOUND"
  OBVIOUS
<1> HIDE DEF a
<1>3. /\ Shapes' /\ \A q \in Readers \ {r} : Kept(q)
      /\ pc'[r] = "answered" /\ reply'[r] = a /\ WalkInv(r)'
  BY <1>1, AnswerStep
<1>4. SnapInv(r)' /\ PageInv(r)' /\ ReportInv(r)'
  BY <1>2, <1>3 DEF SnapInv, PageInv, ReportInv
<1> QED
  BY <1>1, <1>3, <1>4, OneReader

LEMMA ReconcileStep ==
    ASSUME LInv, NEW r \in Readers, Reconcile(r)
    PROVE  LInv'
<1> DEFINE sum == Reconstruct(r)
           difference == snap[r].wallet - sum.balance
           a == [kind |-> "report", difference |-> difference,
                 consistent |-> difference = 0, checkedEntries |-> sum.entries]
           forged == Total(snap[r].ledger, ForgedWorth)
<1>1. /\ reply' = [reply EXCEPT ![r] = a] /\ pc' = [pc EXCEPT ![r] = "answered"]
      /\ UNCHANGED <<tables, snap, limit, walk, began>>
  BY DEF Reconcile
<1>2. /\ snap[r].wallet \in Nat /\ snap[r].ledger \in Seq(Entries)
      /\ Balances(snap[r].wallet, snap[r].ledger)
  BY DEF Reconcile, LInv, SnapInv
<1>3. Total(snap[r].ledger, Signed) \in Int /\ forged \in Int
  BY <1>2, TotalIsLastSum, Values
<1>4. snap[r].wallet = Total(snap[r].ledger, Signed) - forged
  BY <1>2, Values DEF Balances
<1>5. difference = 0 - forged
  BY <1>2, <1>3, <1>4 DEF Reconstruct
<1>6. /\ a.kind = "report" /\ a.difference = 0 - forged
      /\ a.consistent <=> forged = 0
      /\ a.checkedEntries = Len(snap[r].ledger)
  <2>1. a.consistent <=> difference = 0
    OBVIOUS
  <2>2. a.checkedEntries = Len(snap[r].ledger)
    BY DEF Reconstruct
  <2>3. difference = 0 <=> forged = 0
    <3> HIDE DEF difference, forged
    <3> QED
      BY <1>3, <1>5
  <2> QED
    BY <1>5, <2>1, <2>2, <2>3
<1> HIDE DEF a
<1>7. /\ Shapes' /\ \A q \in Readers \ {r} : Kept(q)
      /\ pc'[r] = "answered" /\ reply'[r] = a /\ WalkInv(r)'
  BY <1>1, AnswerStep
<1>8. SnapInv(r)' /\ PageInv(r)' /\ ReportInv(r)'
  BY <1>1, <1>6, <1>7 DEF SnapInv, PageInv, ReportInv
<1> QED
  BY <1>1, <1>7, <1>8, OneReader

LEMMA SubSeqIsPrefix ==
    ASSUME NEW s \in Seq(Entries), NEW m \in 0 .. Len(s)
    PROVE  SubSeq(s, 1, m) = [i \in 1 .. m |-> s[i]]
  OBVIOUS

(* The second statement of the other transaction: what is owed and behind   *)
(* the cursor is on the page, hidden by its last entry, or behind the       *)
(* cursor the page ends with.                                              *)
LEMMA PageFacts ==
    ASSUME LInv, NEW r \in Readers, pc[r] = "page"
    PROVE  LET items == Page(r).entries
               next == NextCursor(Page(r))
           IN  /\ items \in Seq(Entries) /\ Len(items) <= limit[r] /\ Sorted(items)
               /\ \A i \in 1 .. Len(items) : Behind(cursor[r], items[i])
               /\ next # None => items # <<>> /\ next = Mark(items[Len(items)])
               /\ \A e \in Owed(r) : Covered(items, e) \/ (next # None /\ Precedes(next, e))
<1> DEFINE source == {e \in Book(snap[r].ledger) : Behind(cursor[r], e)}
           n == limit[r]
           rows == FirstRows(r, n + 1)
           shown == IF Len(rows) > n THEN n ELSE Len(rows)
           items == Page(r).entries
           next == NextCursor(Page(r))
<1>1. n \in Nat /\ n >= 1
  BY LimitAssumption DEF LInv, Shapes, Limits
<1>2. snap[r].ledger \in Seq(Entries) /\ Owed(r) \subseteq Book(snap[r].ledger)
  BY DEF LInv, SnapInv
<1>3. source \in SUBSET Entries /\ IsFiniteSet(source)
  <2>1. source \in SUBSET Book(snap[r].ledger)
    OBVIOUS
  <2> HIDE DEF source
  <2> QED
    BY <1>2, <2>1, BookIsFinite, FS_Subset
<1>4. rows = InOrder(source, n + 1)
  BY DEF FirstRows
<1>5. items = SubSeq(rows, 1, shown) /\ (Page(r).hasMore <=> Len(rows) > n)
  BY DEF Page
<1>6. next = IF Len(rows) > n /\ items # <<>> THEN Mark(items[Len(items)]) ELSE None
  BY <1>5 DEF NextCursor
<1>7. \A i \in Book(snap[r].ledger) : i \in source <=> Behind(cursor[r], i)
  OBVIOUS
<1>8. \A i \in source : Behind(cursor[r], i)
  OBVIOUS
<1> HIDE DEF source, rows, items, next, n
<1>9. /\ rows \in Seq(Entries) /\ Len(rows) <= n + 1
      /\ \A i \in 1 .. Len(rows) : rows[i] \in source
      /\ \A i, j \in 1 .. Len(rows) : i < j => Precedes(rows[i], rows[j])
      /\ \A e \in source : e \in Book(rows)
                           \/ (Len(rows) = n + 1 /\ \A i \in 1 .. Len(rows) : Precedes(rows[i], e))
  <2>1. PICK k \in Nat : k = n + 1
    BY <1>1
  <2>2. rows = InOrder(source, k)
    BY <1>4, <2>1
  <2> QED
    BY <1>3, <2>1, <2>2, FirstInOrder
<1>10. Len(rows) \in Nat /\ shown \in 0 .. Len(rows) /\ shown <= n
  BY <1>1, <1>9
<1>11. Len(rows) > n => Len(rows) = n + 1 /\ shown = n
  BY <1>1, <1>9, <1>10
<1>12. Len(rows) <= n => shown = Len(rows)
  BY <1>1, <1>10
<1> HIDE DEF shown
<1>13. items \in Seq(Entries) /\ Len(items) = shown /\ \A i \in 1 .. shown : items[i] = rows[i]
  <2>1. \A i \in 1 .. Len(rows) : rows[i] \in Entries
    BY <1>9
  <2>2. items = [i \in 1 .. shown |-> rows[i]]
    BY <1>5, <1>10, SubSeqIsPrefix
  <2>3. items \in [1 .. shown -> Entries]
    BY <1>10, <2>1, <2>2
  <2> QED
    BY <1>10, <2>2, <2>3
<1>14. Sorted(items) /\ \A i \in 1 .. Len(items) : Behind(cursor[r], items[i])
  BY <1>8, <1>9, <1>10, <1>13 DEF Sorted
<1>15. ASSUME Len(rows) > n
       PROVE  /\ next = Mark(rows[n]) /\ next # None /\ items # <<>>
              /\ next = Mark(items[Len(items)])
              /\ rows[n] \in Entries /\ n \in 1 .. Len(items) /\ items[n] = rows[n]
  <2>1. shown = n /\ n \in 1 .. shown /\ n \in 1 .. Len(rows)
    BY <1>1, <1>10, <1>11, <1>15
  <2>2. items # <<>> /\ items[Len(items)] = rows[n]
    BY <1>1, <1>13, <2>1
  <2>3. rows[n] \in Entries /\ Mark(rows[n]) \in Entries
    BY <1>3, <1>9, <2>1, Marks
  <2> QED
    BY <1>6, <1>13, <1>15, <2>1, <2>2, <2>3, Values
<1>16. Len(rows) <= n => next = None
  BY <1>6, <1>10, <1>1
<1>17. ASSUME NEW e \in Owed(r)
       PROVE  Covered(items, e) \/ (next # None /\ Precedes(next, e))
  <2>0. ASSUME Len(rows) > n, Precedes(rows[n], e)
        PROVE  Covered(items, e) \/ (next # None /\ Precedes(next, e))
    <3>1. e \in Entries
      BY <1>2, BookIsFinite
    <3>2. Precedes(Mark(rows[n]), e) \/ Hides(rows[n], e)
      BY <1>15, <2>0, <3>1, Marks
    <3> QED
      BY <1>15, <2>0, <3>2 DEF Covered
  <2>1. e \in source
    <3>1. e \in Book(snap[r].ledger)
      BY <1>2
    <3>2. Behind(cursor[r], e)
      BY DEF LInv, WalkInv, Behind
    <3> QED
      BY <1>7, <3>1, <3>2
  <2>2. CASE e \notin Book(rows)
    <3>1. Len(rows) = n + 1 /\ \A i \in 1 .. Len(rows) : Precedes(rows[i], e)
      BY <1>9, <2>1, <2>2
    <3>2. n \in 1 .. Len(rows) /\ Len(rows) > n
      BY <1>1, <3>1
    <3> QED
      BY <2>0, <3>1, <3>2
  <2>3. CASE e \in Book(rows)
    <3>1. PICK k \in 1 .. Len(rows) : e = rows[k]
      BY <2>3 DEF Book
    <3>2. CASE k \in 1 .. shown
      BY <1>13, <3>1, <3>2 DEF Covered
    <3>3. CASE ~ (k \in 1 .. shown)
      <4>1. Len(rows) > n /\ n < k /\ n \in 1 .. Len(rows)
        BY <1>1, <1>10, <1>11, <1>12, <3>1, <3>3
      <4>2. Precedes(rows[n], rows[k])
        BY <1>9, <3>1, <4>1
      <4> QED
        BY <2>0, <3>1, <4>1, <4>2
    <3> QED
      BY <3>2, <3>3
  <2> QED
    BY <2>2, <2>3
<1>18. next # None => items # <<>> /\ next = Mark(items[Len(items)])
  BY <1>1, <1>10, <1>15, <1>16
<1>19. Len(items) <= n
  BY <1>10, <1>13
<1> QED
  BY <1>13, <1>14, <1>17, <1>18, <1>19 DEF items, next, n

LEMMA ReadPageStep ==
    ASSUME LInv, NEW r \in Readers, ReadPage(r)
    PROVE  LInv'
<1> DEFINE a == [kind |-> "page", items |-> Page(r).entries, nextCursor |-> NextCursor(Page(r))]
           items == Page(r).entries
           next == NextCursor(Page(r))
<1>1. /\ reply' = [reply EXCEPT ![r] = a] /\ pc' = [pc EXCEPT ![r] = "answered"]
      /\ UNCHANGED <<tables, snap, limit, walk, began>>
  BY DEF ReadPage
<1>2. /\ items \in Seq(Entries) /\ Len(items) <= limit[r] /\ Sorted(items)
      /\ \A i \in 1 .. Len(items) : Behind(cursor[r], items[i])
      /\ next # None => items # <<>> /\ next = Mark(items[Len(items)])
      /\ \A e \in Owed(r) : Covered(items, e) \/ (next # None /\ Precedes(next, e))
  BY PageFacts DEF ReadPage
<1>3. a.kind = "page" /\ a.items = items /\ a.nextCursor = next
  OBVIOUS
<1>4. ~ over[r]
  BY DEF ReadPage, LInv, SnapInv
<1> HIDE DEF a, items, next
<1>5. /\ Shapes' /\ \A q \in Readers \ {r} : Kept(q)
      /\ pc'[r] = "answered" /\ reply'[r] = a /\ WalkInv(r)' /\ Owed(r)' = Owed(r)
  BY <1>1, AnswerStep
<1>6. limit' = limit /\ cursor' = cursor /\ over' = over
  BY <1>1 DEF walk
<1>7. PageInv(r)'
  BY <1>2, <1>3, <1>4, <1>5, <1>6 DEF PageInv
<1>8. SnapInv(r)' /\ ReportInv(r)'
  BY <1>3, <1>5 DEF SnapInv, ReportInv
<1> QED
  BY <1>1, <1>5, <1>7, <1>8, OneReader

(* A transaction ends, and the client has its answer or has lost it. *)
LEMMA FinishStep ==
    ASSUME LInv, NEW r \in Readers, Finish(r)
    PROVE  /\ UNCHANGED <<tables, limit, began>> /\ pc'[r] = "idle"
           /\ pc' \in [Readers -> {"idle", "page", "sum", "answered"}]
           /\ snap' = [q \in Readers |-> snap'[q]] /\ reply' = [q \in Readers |-> reply'[q]]
           /\ \A q \in Readers \ {r} : pc'[q] = pc[q] /\ snap'[q] = snap[q] /\ reply'[q] = reply[q]
           /\ SnapInv(r)' /\ PageInv(r)' /\ ReportInv(r)'
<1>1. Shapes
  BY DEF LInv
<1>2. /\ reply' = [reply EXCEPT ![r] = None] /\ snap' = [snap EXCEPT ![r] = None]
      /\ pc' = [pc EXCEPT ![r] = "idle"] /\ UNCHANGED <<tables, limit, began>>
  BY DEF Finish
<1>3. snap = [q \in Readers |-> snap[q]] /\ reply = [q \in Readers |-> reply[q]]
      /\ pc \in [Readers -> {"idle", "page", "sum", "answered"}]
  BY <1>1 DEF Shapes
<1>4. snap' = [q \in Readers |-> snap'[q]] /\ \A q \in Readers \ {r} : snap'[q] = snap[q]
  BY <1>2, <1>3
<1>5. reply' = [q \in Readers |-> reply'[q]] /\ \A q \in Readers \ {r} : reply'[q] = reply[q]
  BY <1>2, <1>3
<1>6. pc' \in [Readers -> {"idle", "page", "sum", "answered"}] /\ pc'[r] = "idle"
      /\ \A q \in Readers \ {r} : pc'[q] = pc[q]
  BY <1>2, <1>3
<1>7. SnapInv(r)' /\ PageInv(r)' /\ ReportInv(r)'
  BY <1>6 DEF SnapInv, PageInv, ReportInv
<1> QED
  BY <1>2, <1>4, <1>5, <1>6, <1>7

LEMMA DropStep ==
    ASSUME LInv, NEW r \in Readers, Drop(r)
    PROVE  LInv'
<1>1. /\ UNCHANGED <<tables, limit, began>> /\ pc'[r] = "idle"
      /\ pc' \in [Readers -> {"idle", "page", "sum", "answered"}]
      /\ snap' = [q \in Readers |-> snap'[q]] /\ reply' = [q \in Readers |-> reply'[q]]
      /\ \A q \in Readers \ {r} : pc'[q] = pc[q] /\ snap'[q] = snap[q] /\ reply'[q] = reply[q]
      /\ SnapInv(r)' /\ PageInv(r)' /\ ReportInv(r)'
  BY FinishStep DEF Drop
<1>2. UNCHANGED <<cursor, listed, over>>
  BY DEF Drop, walk
<1>3. Shapes'
  BY <1>1, <1>2 DEF LInv, Shapes
<1>4. \A q \in Readers \ {r} : Kept(q)
  BY <1>1, <1>2 DEF Kept
<1>5. Written' = Written /\ Owed(r)' = Owed(r)
  BY <1>1, <1>2 DEF tables, Written, Owed
<1>6. WalkInv(r)'
  BY <1>1, <1>2, <1>5 DEF LInv, WalkInv, Sorted
<1> QED
  BY <1>1, <1>3, <1>4, <1>6, OneReader

(* A page goes on where the last one ended. *)
LEMMA Concatenation ==
    ASSUME NEW s \in Seq(Entries), NEW t \in Seq(Entries), Sorted(s), Sorted(t),
           s # <<>> => \A i \in 1 .. Len(t) : Precedes(s[Len(s)], t[i])
    PROVE  /\ s \o t \in Seq(Entries) /\ Sorted(s \o t)
           /\ \A e : Covered(s, e) \/ Covered(t, e) => Covered(s \o t, e)
           /\ t # <<>> => s \o t # <<>> /\ (s \o t)[Len(s \o t)] = t[Len(t)]
<1> DEFINE u == s \o t
<1>1. /\ Len(s) \in Nat /\ Len(t) \in Nat /\ u \in Seq(Entries) /\ Len(u) = Len(s) + Len(t)
      /\ \A i \in 1 .. Len(s) : u[i] = s[i] /\ s[i] \in Entries
      /\ \A i \in 1 .. Len(t) : u[Len(s) + i] = t[i] /\ t[i] \in Entries
  OBVIOUS
<1> HIDE DEF u
<1>2. ASSUME NEW k \in 1 .. Len(u), ~ (k \in 1 .. Len(s))
      PROVE  k - Len(s) \in 1 .. Len(t) /\ u[k] = t[k - Len(s)]
  <2>1. k - Len(s) \in 1 .. Len(t) /\ Len(s) + (k - Len(s)) = k
    BY <1>1, <1>2
  <2> QED
    BY <1>1, <2>1
<1>3. ASSUME NEW e, Covered(s, e) \/ Covered(t, e)
      PROVE  Covered(u, e)
  <2>1. CASE Covered(s, e)
    <3>1. PICK i \in 1 .. Len(s) : s[i] = e \/ Hides(s[i], e)
      BY <2>1 DEF Covered
    <3>2. i \in 1 .. Len(u) /\ u[i] = s[i]
      BY <1>1
    <3> QED
      BY <3>1, <3>2 DEF Covered
  <2>2. CASE Covered(t, e)
    <3>1. PICK i \in 1 .. Len(t) : t[i] = e \/ Hides(t[i], e)
      BY <2>2 DEF Covered
    <3>2. Len(s) + i \in 1 .. Len(u) /\ u[Len(s) + i] = t[i]
      BY <1>1
    <3> QED
      BY <3>1, <3>2 DEF Covered
  <2> QED
    BY <1>3, <2>1, <2>2
<1>4. ASSUME NEW i \in 1 .. Len(u), NEW j \in 1 .. Len(u), i < j
      PROVE  Precedes(u[i], u[j])
  <2>1. CASE i \in 1 .. Len(s) /\ j \in 1 .. Len(s)
    BY <1>1, <1>4, <2>1 DEF Sorted
  <2>2. CASE i \in 1 .. Len(s) /\ ~ (j \in 1 .. Len(s))
    <3>1. Len(s) \in 1 .. Len(s) /\ s # <<>>
      BY <1>1, <2>2
    <3>2. i = Len(s) \/ Precedes(s[i], s[Len(s)])
      BY <1>1, <2>2, <3>1 DEF Sorted
    <3>3. Precedes(s[Len(s)], u[j])
      BY <1>2, <2>2, <3>1
    <3>4. u[i] = s[i] /\ s[i] \in Entries /\ s[Len(s)] \in Entries /\ u[j] \in Entries
      BY <1>1, <1>2, <2>2, <3>1
    <3> QED
      BY <3>2, <3>3, <3>4, OrderOfEntries
  <2>3. CASE ~ (i \in 1 .. Len(s))
    <3>1. ~ (j \in 1 .. Len(s)) /\ i - Len(s) < j - Len(s)
      BY <1>1, <1>4, <2>3
    <3>2. /\ u[i] = t[i - Len(s)] /\ i - Len(s) \in 1 .. Len(t)
          /\ u[j] = t[j - Len(s)] /\ j - Len(s) \in 1 .. Len(t)
      BY <1>2, <2>3, <3>1
    <3> QED
      BY <3>1, <3>2 DEF Sorted
  <2> QED
    BY <2>1, <2>2, <2>3
<1>5. t # <<>> => u # <<>> /\ u[Len(u)] = t[Len(t)]
  <2> SUFFICES ASSUME t # <<>> PROVE u # <<>> /\ u[Len(u)] = t[Len(t)]
    OBVIOUS
  <2>1. Len(t) \in 1 .. Len(t)
    BY <1>1
  <2> QED
    BY <1>1, <2>1
<1>6. Sorted(u)
  BY <1>4 DEF Sorted
<1> QED
  BY <1>1, <1>3, <1>5, <1>6 DEF u

LEMMA ReceivePageStep ==
    ASSUME LInv, NEW r \in Readers, ReceivePage(r)
    PROVE  LInv'
<1> DEFINE items == reply[r].items
           next == reply[r].nextCursor
<1>1. Shapes /\ WalkInv(r) /\ PageInv(r) /\ BookInv
  BY DEF LInv
<1>2. /\ listed' = [listed EXCEPT ![r] = @ \o items] /\ cursor' = [cursor EXCEPT ![r] = next]
      /\ over' = [over EXCEPT ![r] = next = None]
  BY DEF ReceivePage
<1>3. /\ UNCHANGED <<tables, limit, began>> /\ pc'[r] = "idle"
      /\ pc' \in [Readers -> {"idle", "page", "sum", "answered"}]
      /\ snap' = [q \in Readers |-> snap'[q]] /\ reply' = [q \in Readers |-> reply'[q]]
      /\ \A q \in Readers \ {r} : pc'[q] = pc[q] /\ snap'[q] = snap[q] /\ reply'[q] = reply[q]
      /\ SnapInv(r)' /\ PageInv(r)' /\ ReportInv(r)'
  BY FinishStep DEF ReceivePage
<1>4. /\ ~ over[r]
      /\ items \in Seq(Entries) /\ Sorted(items)
      /\ \A i \in 1 .. Len(items) : Behind(cursor[r], items[i])
      /\ next # None => items # <<>> /\ next = Mark(items[Len(items)])
      /\ \A e \in Owed(r) : Covered(items, e) \/ (next # None /\ Precedes(next, e))
  BY <1>1 DEF PageInv, ReceivePage
<1> HIDE DEF items, next
<1>5. listed[r] \in Seq(Entries) /\ Sorted(listed[r])
  BY <1>1 DEF Shapes, WalkInv
<1>6. ASSUME listed[r] # <<>>, NEW i \in 1 .. Len(items)
      PROVE  Precedes(listed[r][Len(listed[r])], items[i])
  <2>1. cursor[r] # None /\ cursor[r] = Mark(listed[r][Len(listed[r])])
    BY <1>1, <1>4, <1>6 DEF WalkInv
  <2>2. Precedes(Mark(listed[r][Len(listed[r])]), items[i])
    BY <1>4, <2>1 DEF Behind
  <2>3. listed[r][Len(listed[r])] \in Entries /\ items[i] \in Entries
    BY <1>4, <1>5, <1>6
  <2> QED
    BY <2>2, <2>3, Marks
<1>7. /\ listed[r] \o items \in Seq(Entries) /\ Sorted(listed[r] \o items)
      /\ \A e : Covered(listed[r], e) \/ Covered(items, e) => Covered(listed[r] \o items, e)
      /\ items # <<>> => listed[r] \o items # <<>>
                         /\ (listed[r] \o items)[Len(listed[r] \o items)] = items[Len(items)]
  BY <1>4, <1>5, <1>6, Concatenation
<1>8. next \in Entries \cup {None}
  <2>1. items # <<>> => items[Len(items)] \in Entries /\ Mark(items[Len(items)]) \in Entries
    BY <1>4, Marks
  <2> QED
    BY <1>4, <2>1
<1>9. /\ listed' \in [Readers -> Seq(Entries)] /\ listed'[r] = listed[r] \o items
      /\ \A q \in Readers \ {r} : listed'[q] = listed[q]
  <2>1. listed \in [Readers -> Seq(Entries)]
    BY <1>1 DEF Shapes
  <2> QED
    BY <1>2, <1>7, <2>1
<1>10. /\ cursor' \in [Readers -> Entries \cup {None}] /\ cursor'[r] = next
       /\ \A q \in Readers \ {r} : cursor'[q] = cursor[q]
  <2>1. cursor \in [Readers -> Entries \cup {None}]
    BY <1>1 DEF Shapes
  <2> QED
    BY <1>2, <1>8, <2>1
<1>11. /\ over' \in [Readers -> BOOLEAN] /\ over'[r] = (next = None)
       /\ \A q \in Readers \ {r} : over'[q] = over[q]
  <2>1. over \in [Readers -> BOOLEAN]
    BY <1>1 DEF Shapes
  <2> QED
    BY <1>2, <2>1
<1>12. Shapes'
  BY <1>1, <1>3, <1>9, <1>10, <1>11 DEF Shapes
<1>13. \A q \in Readers \ {r} : Kept(q)
  BY <1>3, <1>9, <1>10, <1>11 DEF Kept
<1>14. Written' = Written /\ Book(ledger') = Book(ledger) /\ began' = began
  BY <1>3 DEF tables, Written
<1>15. \A e \in Owed(r)' : e \in Owed(r) /\ ~ Covered(items, e)
  BY <1>7, <1>9, <1>14 DEF Owed
<1>16. WalkInv(r)'
  <2>1. began'[r] \subseteq Written' /\ Sorted(listed'[r])
    BY <1>1, <1>7, <1>9, <1>14 DEF WalkInv
  <2>2. cursor'[r] # None => listed'[r] # <<>> /\ cursor'[r] = Mark(listed'[r][Len(listed'[r])])
    BY <1>4, <1>7, <1>9, <1>10
  <2>3. over'[r] <=> cursor'[r] = None
    BY <1>10, <1>11
  <2>4. cursor'[r] = None => Owed(r)' = {}
    BY <1>4, <1>10, <1>15
  <2>5. cursor'[r] # None => \A e \in Owed(r)' : Precedes(cursor'[r], e)
    BY <1>4, <1>10, <1>15
  <2> QED
    BY <2>1, <2>2, <2>3, <2>4, <2>5 DEF WalkInv
<1> QED
  BY <1>3, <1>12, <1>13, <1>16, OneReader

-----------------------------------------------------------------------------
(* The invariant, and the properties it implies.                           *)

LEMMA ReadsPreserve ==
    ASSUME LInv, [Next]_vars
    PROVE  LInv'
<1>1. CASE Open
  BY <1>1, OpenStep
<1>2. ASSUME NEW e \in Movements, Move(e) \/ Forge(e) PROVE LInv'
  BY <1>2, MoveStep
<1>3. ASSUME NEW r \in Readers, AskForPage(r) PROVE LInv'
  BY <1>3, AskForPageStep
<1>4. ASSUME NEW r \in Readers, ReadPage(r) PROVE LInv'
  BY <1>4, ReadPageStep
<1>5. ASSUME NEW r \in Readers, ReceivePage(r) PROVE LInv'
  BY <1>5, ReceivePageStep
<1>6. ASSUME NEW r \in Readers, AskForReconciliation(r) PROVE LInv'
  BY <1>6, AskForReconciliationStep
<1>7. ASSUME NEW r \in Readers, Reconcile(r) PROVE LInv'
  BY <1>7, ReconcileStep
<1>8. ASSUME NEW r \in Readers, FindNoWallet(r) PROVE LInv'
  BY <1>8, FindNoWalletStep
<1>9. ASSUME NEW r \in Readers, Drop(r) PROVE LInv'
  BY <1>9, DropStep
<1>10. CASE UNCHANGED vars
  <2>1. UNCHANGED tables /\ UNCHANGED <<pc, snap, limit, reply, cursor, listed, over, began>>
    BY <1>10 DEF vars, tables, walk
  <2>2. Shapes'
    BY <2>1 DEF LInv, Shapes
  <2>3. \A q \in Readers : Kept(q)
    BY <2>1 DEF Kept
  <2>4. PICK x : x \notin Readers
    <3>1. {y \in Readers : y \notin y} \notin Readers
      OBVIOUS
    <3> QED
      BY <3>1
  <2> QED
    BY <2>1, <2>2, <2>3, <2>4, OneReader
<1> QED
  BY <1>1, <1>2, <1>3, <1>4, <1>5, <1>6, <1>7, <1>8, <1>9, <1>10 DEF Next

LEMMA ReadsProperties ==
    ASSUME LInv
    PROVE  TypeOK /\ NothingIsListedTwice /\ WalksAreComplete /\ ReportsAreExact
<1>1. BookInv /\ Shapes
  BY DEF LInv
<1>2. \A r \in Readers : PageInv(r) /\ WalkInv(r) /\ ReportInv(r)
  BY DEF LInv
<1>3. TypeOK
  <2>1. ASSUME NEW r \in Readers
        PROVE  /\ over[r] => cursor[r] = None
               /\ pc[r] = "answered" /\ reply[r].kind = "page" => Len(reply[r].items) <= limit[r]
    BY <1>2 DEF PageInv, WalkInv
  <2> QED
    BY <1>1, <2>1 DEF TypeOK, BookInv, Shapes
<1>4. NothingIsListedTwice
  BY <1>2 DEF NothingIsListedTwice, WalkInv, Sorted
<1>5. WalksAreComplete
  <2> SUFFICES ASSUME NEW r \in Readers, over[r], NEW e \in Book(ledger), e.id \in began[r]
               PROVE  Covered(listed[r], e)
    BY DEF WalksAreComplete, Covered
  <2>1. Owed(r) = {}
    BY <1>2 DEF WalkInv
  <2> QED
    BY <2>1 DEF Owed
<1>6. ReportsAreExact
  BY <1>2 DEF ReportsAreExact, ReportInv
<1> QED
  BY <1>3, <1>4, <1>5, <1>6

(* Whatever the writers commit and whichever answers are lost, every        *)
(* snapshot is a state of the tables, every page goes on where its client  *)
(* is, and what a walk still owes lies behind its cursor.                  *)
THEOREM WalksHold == Spec => []LInv
<1>1. Init => LInv
  BY LedgerInit
<1>2. LInv /\ [Next]_vars => LInv'
  BY ReadsPreserve
<1> QED
  BY <1>1, <1>2, PTL DEF Spec

(* No page of the ledger is longer than the limit of its request, and the   *)
(* cursor of a walk ends with it.                                          *)
THEOREM TypesHold == Spec => []TypeOK
<1>1. LInv => TypeOK
  BY ReadsProperties
<1> QED
  BY <1>1, WalksHold, PTL

(* However many entries are inserted while a client pages through the       *)
(* ledger, and on whichever side of its cursor, findLedgerPage gives it     *)
(* every entry at most once, in descending order.                          *)
THEOREM PagesNeverRepeat == Spec => []NothingIsListedTwice
<1>1. LInv => NothingIsListedTwice
  BY ReadsProperties
<1> QED
  BY <1>1, WalksHold, PTL

(* A walk that has ended has given its client every entry that was          *)
(* committed when it began, but for those of the same millisecond as an     *)
(* entry it has given that was written past the application with           *)
(* microseconds in its instant: the cursor keeps milliseconds              *)
(* (encodeLedgerCursor).                                                   *)
THEOREM PagesNeverSkip == Spec => []WalksAreComplete
<1>1. LInv => WalksAreComplete
  BY ReadsProperties
<1> QED
  BY <1>1, WalksHold, PTL

(* The difference ReconcileWallet reports is exactly what was written past  *)
(* the application by the instant of its snapshot, so an intact wallet is   *)
(* never reported.                                                         *)
THEOREM ReportsTellTheTruth == Spec => []ReportsAreExact
<1>1. LInv => ReportsAreExact
  BY ReadsProperties
<1> QED
  BY <1>1, WalksHold, PTL
=============================================================================

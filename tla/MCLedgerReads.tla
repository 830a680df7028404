---------------------------- MODULE MCLedgerReads ---------------------------
(* One client (readers take no lock and write nothing), five entries of    *)
(* which one is forged, two instants, so that some entries share one; the   *)
(* forged one may be a microsecond later.                                  *)
EXTENDS LedgerReads

FiveEntries == 1 .. 5
TwoDebits == [e \in FiveEntries |-> IF e \in {2, 4} THEN "DEBIT" ELSE "CREDIT"]
Amounts == [e \in FiveEntries |-> IF e = 4 THEN 3 ELSE 1]
ForgedDebit == {4}
TwoInstants == {1, 2}
UpToOneMicro == {0, 1}
=============================================================================

--------------------------- MODULE MCPendingWorker --------------------------
(* Two workers and two pendings, the older of which may find its wallet    *)
(* held.  Times are in ticks and scaled down; their order is that of the   *)
(* code: a delay that doubles up to a cap, a term that ends before the     *)
(* attempts do, a lock timeout longer than a tick.                         *)
EXTENDS PendingWorker, FiniteSetsExt

CONSTANTS w1, w2
TwoWorkers == {w1, w2}
TwoPendings == {1, 2}
OlderContended == {1}
LeastTimes ==
    [n \in 0 .. MaxAttempts |->
        FirstDelay + MapThenSumSet(LAMBDA k : TenthsUp(8 * Backoff(k)), 1 .. n)]

(* The numbers of the code, in tenths of a second: the least time that     *)
(* MAX_ATTEMPTS attempts take is more than PENDING_REFERENCE_TTL_MS.       *)
LeastDelay(n) == 8 * AtMost(300, 5 * 2 ^ AtMost(n - 1, 10))
ASSUME CodeTermEndsBeforeAttempts ==
    MapThenSumSet(LeastDelay, 1 .. 100) + 10 * 5 > 10 * 6 * 60 * 60
=============================================================================

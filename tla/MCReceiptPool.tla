--------------------------- MODULE MCReceiptPool ---------------------------
(* Small instances of ReceiptPool for TLC.                                 *)
EXTENDS ReceiptPool, TLC

CONSTANTS t1, o1, g

MCTxs == {t1, o1}
MCOwnerTxs == {o1}

\* t1 is acceptable from the start, expires and can be purged while the clock is
\* still running; o1 lies beyond TX_MAX_EXPIRY_TIME until the clock has moved on.
MCExpiry == t1 :> 4 @@ o1 :> 6 @@ g :> 3
============================================================================

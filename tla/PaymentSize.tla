---------------------------- MODULE PaymentSize ----------------------------
(***************************************************************************)
(* The arithmetic of Circuit.refill_payments: for the bytes that a circuit *)
(* misses in each direction, how many coins to pay and how many cells to   *)
(* ask for.  No caller sets the parameter force, which is left out.        *)
(***************************************************************************)
EXTENDS Integers, Sequences

CONSTANTS BYTES_PER_CELL, CELLS_PER_PAYMENT, LOW_PAR_BYTES

ASSUME SizeAssumption ==
    /\ BYTES_PER_CELL \in Nat \ {0} /\ CELLS_PER_PAYMENT \in Nat \ {0}
    /\ LOW_PAR_BYTES \in Nat

\* requiredReadBytes and requiredWriteBytes
Missing(bytes) == IF LOW_PAR_BYTES - bytes < 0 THEN 0 ELSE LOW_PAR_BYTES - bytes

\* numReadCells and numWriteCells before the leftover is dealt out
NumCells(required) == 1 + required \div BYTES_PER_CELL

NumPayments(r, w) ==
    1 + (r + w + 2 * BYTES_PER_CELL) \div (BYTES_PER_CELL * CELLS_PER_PAYMENT)
Leftover(r, w) == NumPayments(r, w) * CELLS_PER_PAYMENT - (NumCells(r) + NumCells(w))

\* A variant: an odd leftover is halved and the odd cell forgotten.
PaymentHalved(r, w) ==
    LET left == Leftover(r, w)
        both == r > 0 /\ w > 0
    IN [n     |-> NumPayments(r, w),
        read  |-> NumCells(r) + IF both THEN left \div 2 ELSE IF r > 0 THEN left ELSE 0,
        write |-> NumCells(w) + IF both THEN left \div 2 ELSE IF r > 0 THEN 0 ELSE left]

\* The payment for r missing bytes to read and w missing bytes to write.
Payment(r, w) ==
    LET left == Leftover(r, w)
        both == r > 0 /\ w > 0
    IN [n     |-> NumPayments(r, w),
        read  |-> NumCells(r) + IF both THEN left \div 2 + (left % 2)
                                ELSE IF r > 0 THEN left ELSE 0,
        write |-> NumCells(w) + IF both THEN left \div 2
                                ELSE IF r > 0 THEN 0 ELSE left]
=============================================================================

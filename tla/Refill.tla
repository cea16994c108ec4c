------------------------------- MODULE Refill -------------------------------
(***************************************************************************)
(* How much a circuit pays for, and when: Circuit.refill_payments, driven  *)
(* by the TOKEN_LEVELS event that Tor sends every second.  The state is    *)
(* the account of one circuit: the cells Tor still counts as paid, and the *)
(* payments that have been sent and not yet added.                         *)
(***************************************************************************)
EXTENDS PaymentSize

CONSTANTS
    MAX_MERCHANT_TOKENS,   \* tokens a relay hands out, one per payment in progress
    CIRCWINDOW_START,      \* what Tor counts as paid on a new circuit
    CIRCWINDOW_INCREMENT,  \* how far below zero Tor lets a count go
    MaxCells               \* bound: traffic one way waits while the other way has more

ASSUME RefillAssumption ==
    /\ MAX_MERCHANT_TOKENS \in Nat /\ MaxCells \in Nat
    /\ CIRCWINDOW_START \in Nat /\ CIRCWINDOW_INCREMENT \in Nat

VARIABLES
    payed,      \* payedReadBytes and payedWriteBytes, in cells, as Tor has them
    inflight,   \* inflightReadTokens and inflightWriteTokens
    payments,   \* the payments in progress
    added       \* those whose tokens Tor has added, and whose reply is on its way

vars == <<payed, inflight, payments, added>>

MissingRead == Missing((payed.read + inflight.read) * BYTES_PER_CELL)
MissingWrite == Missing((payed.write + inflight.write) * BYTES_PER_CELL)

\* a sequence without its i-th element
Without(s, i) == SubSeq(s, 1, i - 1) \o SubSeq(s, i + 1, Len(s))

-----------------------------------------------------------------------------
\* A relay cell passes: relay_send_command_from_edge, circuit_receive_relay_cell.
ReadCell ==
    /\ payed.read > -CIRCWINDOW_INCREMENT
    /\ (payed.write <= MaxCells \/ payed.write <= payed.read)
    /\ payed' = [payed EXCEPT !.read = @ - 1] /\ UNCHANGED <<inflight, payments, added>>
WriteCell ==
    /\ payed.write > -CIRCWINDOW_INCREMENT
    /\ (payed.read <= MaxCells \/ payed.read <= payed.write)
    /\ payed' = [payed EXCEPT !.write = @ - 1] /\ UNCHANGED <<inflight, payments, added>>

Start(p) ==
    /\ payments' = Append(payments, p)
    /\ inflight' = [read |-> inflight.read + p.read, write |-> inflight.write + p.write]
    /\ UNCHANGED <<payed, added>>

\* token_level_event: handle_token_response, then refill_payments, which ends in
\* send_payment_request.
TokenLevels ==
    /\ MissingRead + MissingWrite > 0
    /\ Start(Payment(MissingRead, MissingWrite))

\* All receipts of a payment have arrived, and payments end in any order:
\* all_receipts_received.  handle_control_addtokens adds nothing when it is asked
\* for no read cells.
AddTokens(i) ==
    LET p == payments[i] IN
    /\ payed' = IF p.read = 0 THEN payed
                ELSE [read |-> payed.read + p.read, write |-> payed.write + p.write]
    /\ payments' = Without(payments, i)
    /\ added' = Append(added, p)
    /\ UNCHANGED inflight

\* A variant: the write tokens stay in flight.
TokensAddedHalf ==
    /\ added # <<>>
    /\ inflight' = [inflight EXCEPT !.read = @ - added[1].read]
    /\ added' = Tail(added)
    /\ UNCHANGED <<payed, payments>>

\* The reply to ADDTOKENS: _add_tokens_callback.
TokensAdded ==
    /\ added # <<>>
    /\ inflight' = [read  |-> inflight.read - added[1].read,
                    write |-> inflight.write - added[1].write]
    /\ added' = Tail(added)
    /\ UNCHANGED <<payed, payments>>

\* init_circuit_base, and START_READ_TOKENS and START_WRITE_TOKENS
Init ==
    /\ payed = [read  |-> CIRCWINDOW_START + CELLS_PER_PAYMENT \div 2,
                write |-> CIRCWINDOW_START + CELLS_PER_PAYMENT - CELLS_PER_PAYMENT \div 2]
    /\ inflight = [read |-> 0, write |-> 0]
    /\ payments = <<>> /\ added = <<>>

Next == \/ ReadCell \/ WriteCell \/ TokenLevels \/ TokensAdded
        \/ \E i \in 1 .. Len(payments) : AddTokens(i)
Spec == Init /\ [][Next]_vars

-----------------------------------------------------------------------------
PaymentType == [n : Nat \ {0}, read : Nat, write : Nat]

TypeOK ==
    /\ payed \in [read : Int, write : Int]
    /\ inflight \in [read : Int, write : Int]
    /\ payments \in Seq(PaymentType) /\ added \in Seq(PaymentType)

\* The inflight tokens are those of the payments that have not been added, or
\* whose addition is not known yet.  If they ran above, refill_payments would stop
\* paying for the circuit; below, it would pay twice.
InflightIsSum ==
    LET all == payments \o added
        sum[i \in 0 .. Len(all)] ==
          IF i = 0 THEN [read |-> 0, write |-> 0]
          ELSE [read  |-> sum[i - 1].read + all[i].read,
                write |-> sum[i - 1].write + all[i].write]
    IN inflight = sum[Len(all)]

\* Every payment asks each relay for exactly the cells its coins pay for
\* (handle_payment refuses one that asks for more; asking for less is a loss),
\* and for at least one cell each way: ADDTOKENS with no read cells would add no
\* write cells either.
ExactPayments ==
    \A i \in 1 .. Len(payments) :
       LET p == payments[i] IN
       p.read + p.write = p.n * CELLS_PER_PAYMENT /\ p.read >= 1 /\ p.write >= 1

\* send_payment: "not enough merchant tokens to send payments".  The payments in
\* progress together never need more tokens than a relay hands out, so that none
\* has to wait in pendingPayments.
EnoughMerchantTokens ==
    LET coins[i \in 0 .. Len(payments)] == IF i = 0 THEN 0 ELSE coins[i - 1] + payments[i].n
    IN coins[Len(payments)] <= MAX_MERCHANT_TOKENS

\* The circuit pays the right amounts at the right times: what is in flight is
\* counted, and the payments in progress find merchant tokens.
RefillSound == InflightIsSum /\ EnoughMerchantTokens
=============================================================================

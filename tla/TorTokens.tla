----------------------------- MODULE TorTokens -----------------------------
(***************************************************************************)
(* The cells of one circuit and the tokens that pay for them, inside Tor.  *)
(* Node 0 is the origin, node N the exit, the nodes between them relays.   *)
(* Each node counts the read cells (towards the origin) and the write      *)
(* cells (away from it) that are still paid.  The windows of Tor limit the *)
(* data in flight; the counts of tokens decide when an end stops reading   *)
(* its streams, when it starts again and when it acknowledges data.        *)
(***************************************************************************)
EXTENDS PaymentSize

CONSTANTS
    N,                      \* hops of the circuit
    CIRCWINDOW_START, CIRCWINDOW_INCREMENT,
    Streams                 \* the directions in which streams have data to send

VARIABLES
    c,          \* the circuit, as the nodes' Tor processes have it
    payments    \* payments of the origin in progress, and the hops they have not reached

vars == <<c, payments>>

Dirs == {"read", "write"}
Other(d) == IF d = "read" THEN "write" ELSE "read"
Sender(d) == IF d = "read" THEN N ELSE 0
Receiver(d) == IF d = "read" THEN 0 ELSE N

\* The link on which node n sends cells of direction d, and the one it gets them on.
OutLink(d, n) == IF d = "read" THEN n ELSE n + 1
InLink(d, n) == IF d = "read" THEN n + 1 ELSE n

-----------------------------------------------------------------------------
\* A cell of direction d costs node n a token.  A circuit whose counts are too
\* far below zero is closed as UNPAID.
Charge(s, n, d, k) ==
    LET t == [s EXCEPT !.payed[n][d] = @ - k]
    IN IF k > 0 /\ \E e \in Dirs : t.payed[n][e] < -CIRCWINDOW_INCREMENT
       THEN [t EXCEPT !.closed = "unpaid"] ELSE t

\* relay_send_command_from_edge: k cells from an end of the circuit.
SendFromEdge(s, d, kind, k) ==
    LET t == Charge(s, Sender(d), d, k)
    IN [t EXCEPT !.wire[d][OutLink(d, Sender(d))] = @ \o [i \in 1 .. k |-> kind]]

\* circuit_consider_stop_edge_reading, for the streams that send in direction d
MustStop(s, d) ==
    s.package_window[d] <= 0 \/ s.payed[Sender(d)][d] <= CIRCWINDOW_INCREMENT

\* circuit_resume_edge_reading.  The streams read again, and stop at once if they
\* must; what their buffers hold is packaged by the Package steps that follow.
ResumeEdgeReading(s, d) ==
    IF s.payed[Sender(d)][d] <= s.package_window[d] \/ s.package_window[d] <= 0 THEN s
    ELSE [s EXCEPT !.reading[d] = d \in Streams /\ ~MustStop(s, d)]

\* k sendmes for direction d, from the node that receives it
SendSendmes(s, d, k) ==
    SendFromEdge([s EXCEPT !.deliver_window[d] = @ + k * CIRCWINDOW_INCREMENT],
                 Other(d), "SENDME", k)

\* how many increments, rounded up, bring the deliver window of d to the level
SendmesUpTo(s, d, level) ==
    IF s.deliver_window[d] >= level THEN 0
    ELSE (level - s.deliver_window[d] + CIRCWINDOW_INCREMENT - 1) \div CIRCWINDOW_INCREMENT

\* circuit_consider_sending_sendme
ConsiderSendingSendme(s, d) ==
    IF s.payed[Receiver(d)][d] <= s.deliver_window[d] THEN s
    ELSE SendSendmes(s, d, SendmesUpTo(s, d, CIRCWINDOW_START - CIRCWINDOW_INCREMENT))

\* connection_edge_process_relay_cell, for a circuit-level SENDME and for a DATA
ProcessSendme(s, d) ==
    ResumeEdgeReading([s EXCEPT !.package_window[Other(d)] = @ + CIRCWINDOW_INCREMENT], Other(d))
ProcessData(s, d) ==
    LET t == [s EXCEPT !.deliver_window[d] = @ - 1]
    IN IF t.deliver_window[d] < 0 THEN [t EXCEPT !.deliver_window[d] = 0, !.closed = "window"]
       ELSE ConsiderSendingSendme(t, d)

Inflight(d) == LET sum[i \in 0 .. Len(payments)] ==
                     IF i = 0 THEN 0 ELSE sum[i - 1] + payments[i][d]
               IN sum[Len(payments)]
MissingCells(d) == Missing((c.payed[0][d] + Inflight(d)) * BYTES_PER_CELL)
RefillDue == MissingCells("read") + MissingCells("write") > 0

-----------------------------------------------------------------------------
\* A variant: the package window is not counted down.
PackageUncounted(d) ==
    /\ c.closed = "no" /\ c.reading[d]
    /\ IF MustStop(c, d) THEN c' = [c EXCEPT !.reading[d] = FALSE]
       ELSE c' = SendFromEdge(c, d, "DATA", 1)
    /\ UNCHANGED payments

\* connection_edge_package_raw_inbuf: a stream has data for a cell.
Package(d) ==
    /\ c.closed = "no" /\ c.reading[d]
    /\ IF MustStop(c, d) THEN c' = [c EXCEPT !.reading[d] = FALSE]
       ELSE LET t == [SendFromEdge(c, d, "DATA", 1) EXCEPT !.package_window[d] = @ - 1]
            IN c' = [t EXCEPT !.reading[d] = ~MustStop(t, d)]
    /\ UNCHANGED payments

\* circuit_receive_relay_cell: node n gets a cell, and handles it or passes it on.
Receive(d, n) ==
    /\ c.closed = "no"
    /\ n # Sender(d) /\ c.wire[d][InLink(d, n)] # <<>>
    /\ LET cell == Head(c.wire[d][InLink(d, n)])
           t == Charge([c EXCEPT !.wire[d][InLink(d, n)] = Tail(@)], n, d, 1)
       IN c' = IF t.closed # "no" THEN t
               ELSE IF n = Receiver(d)
                    THEN IF cell = "SENDME" THEN ProcessSendme(t, d) ELSE ProcessData(t, d)
               ELSE [t EXCEPT !.wire[d][OutLink(d, n)] = Append(@, cell)]
    /\ UNCHANGED payments

\* A variant: ADDTOKENS only reports the counts, as it does for 0 read cells.
AddNothing(s, n, p) == s

\* handle_control_addtokens at node n.  An end considers the data it receives,
\* then the streams it reads; at a middle relay there is neither.
AddTokens(s, n, p) ==
    LET t == [s EXCEPT !.payed[n] = [read |-> @.read + p.read, write |-> @.write + p.write]]
    IN IF n = 0 THEN ResumeEdgeReading(ConsiderSendingSendme(t, "read"), "write")
       ELSE IF n = N THEN ResumeEdgeReading(ConsiderSendingSendme(t, "write"), "read")
       ELSE t

\* control_event_circuit_token_levels, token_level_event and refill_payments
TokenLevels ==
    /\ c.closed = "no" /\ RefillDue
    /\ LET p == Payment(MissingCells("read"), MissingCells("write"))
       IN payments' = Append(payments, [read |-> p.read, write |-> p.write, due |-> 1 .. N])
    /\ UNCHANGED c

\* handle_payment at hop n.  The hops are paid in any order; at a hop one payment
\* does not overtake another.
PaymentReaches(i, n) ==
    /\ c.closed = "no" /\ n \in payments[i].due
    /\ \A j \in 1 .. i - 1 : n \notin payments[j].due
    /\ payments' = [payments EXCEPT ![i].due = @ \ {n}]
    /\ c' = AddTokens(c, n, payments[i])

\* all_receipts_received and _add_tokens_callback
AllReceipts ==
    /\ c.closed = "no" /\ payments # <<>> /\ payments[1].due = {}
    /\ payments' = Tail(payments)
    /\ c' = AddTokens(c, 0, payments[1])

\* init_circuit_base, and the start tokens that every node adds for the setup
Init ==
    /\ c = [payed |-> [n \in 0 .. N |->
                         [read  |-> CIRCWINDOW_START + CELLS_PER_PAYMENT \div 2,
                          write |-> CIRCWINDOW_START + CELLS_PER_PAYMENT
                                                     - CELLS_PER_PAYMENT \div 2]],
            package_window |-> [d \in Dirs |-> CIRCWINDOW_START],
            deliver_window |-> [d \in Dirs |-> CIRCWINDOW_START],
            reading |-> [d \in Dirs |-> d \in Streams],
            wire |-> [d \in Dirs |-> [l \in 1 .. N |-> <<>>]],
            closed |-> "no"]
    /\ payments = <<>>

Next ==
    \/ \E d \in Dirs : Package(d) \/ \E n \in 0 .. N : Receive(d, n)
    \/ TokenLevels \/ AllReceipts
    \/ \E i \in 1 .. Len(payments), n \in 1 .. N : PaymentReaches(i, n)

Spec == Init /\ [][Next]_vars

-----------------------------------------------------------------------------
TypeOK ==
    /\ c.payed \in [0 .. N -> [Dirs -> Int]]
    /\ c.package_window \in [Dirs -> 0 .. CIRCWINDOW_START]
    /\ c.deliver_window \in [Dirs -> 0 .. CIRCWINDOW_START]
    /\ c.reading \in [Dirs -> BOOLEAN]
    /\ c.wire \in [Dirs -> [1 .. N -> Seq({"DATA", "SENDME"})]]
    /\ c.closed \in {"no", "unpaid", "window"}
    /\ payments \in Seq([read : Nat, write : Nat, due : SUBSET (1 .. N)])

Cells(d, kind) ==
    LET sum[l \in 0 .. N] ==
          IF l = 0 THEN 0
          ELSE sum[l - 1] + Len(SelectSeq(c.wire[d][l], LAMBDA x : x = kind))
    IN sum[N]

\* The windows of the two ends agree: what the sender may still send, with what
\* is on its way in both directions, is what the receiver expects.
WindowsAgree ==
    c.closed = "no" =>
       \A d \in Dirs : c.package_window[d] + Cells(d, "DATA")
                         + CIRCWINDOW_INCREMENT * Cells(Other(d), "SENDME") = c.deliver_window[d]

\* connection_edge_process_relay_cell, on a deliver window below 0: "It should not
\* be happening anyway, so figure out why and fix."
NeverOverrun == c.closed # "window"

\* No node of a circuit that is being paid for closes it as UNPAID, however late
\* the payments arrive and whichever hop they reach first: the origin, paid last,
\* holds back its sendmes.
NeverUnpaid == c.closed # "unpaid"

=============================================================================

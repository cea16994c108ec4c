----------------------------- MODULE TorMessages -----------------------------
(***************************************************************************)
(* How payment and DHT messages travel along one circuit: cut into cells   *)
(* by send_direct_tor_message, handed to Tor one SENDPAYMENT at a time,    *)
(* forwarded hop by hop by command_process_payment_cell, or relayed over   *)
(* the circuit to its end, and pieced together by message_arrived, which   *)
(* has one buffer for all that arrives at a node.                          *)
(***************************************************************************)
EXTENDS Integers, Sequences, FiniteSets

CONSTANTS
    N,         \* hops of the circuit; the origin is node 0
    Messages   \* what is sent: records of src, dst, cells, overCircuit and name

Nodes == 0 .. N
Directions == {1, -1}      \* towards the exit and towards the origin

VARIABLES
    todo,       \* messages not yet sent
    control,    \* cells each node has handed to its Tor
    link,       \* cells on the connection that enters a node in each direction
    circuit,    \* relay cells on their way to the end of the circuit, by direction
    buffer,     \* BaseCircuit.buffer at each node
    handled     \* what message_arrived passed to a handler at each node

vars == <<todo, control, link, circuit, buffer, handled>>

Direction(m) == IF m.dst > m.src THEN 1 ELSE -1

\* numHops: the hop of the PaymentStream, or how much further the proxy's message
\* goes; replies are sent 3 hops back and stop at the origin.
NumHops(m) == IF m.src > m.dst THEN 3 ELSE m.dst - m.src

\* A message is its length and then its data, cut into cells; the rest of the last
\* cell is padding.
Cells(m) == [i \in 1 .. m.cells |-> [msg |-> m, part |-> i]]

-----------------------------------------------------------------------------
\* send_direct_tor_message: one SENDPAYMENT command for each cell
Send(m) ==
    /\ m \in todo
    /\ todo' = todo \ {m}
    /\ control' = [control EXCEPT ![m.src] =
                      @ \o [i \in 1 .. m.cells |-> [cell |-> Cells(m)[i], hops |-> NumHops(m)]]]
    /\ UNCHANGED <<link, circuit, buffer, handled>>

\* handle_control_sendpayment, at node n
SendPayment(n) ==
    /\ control[n] # <<>>
    /\ LET x == Head(control[n])
           m == x.cell.msg
           d == Direction(m)
       IN IF m.overCircuit
          THEN circuit' = [circuit EXCEPT ![d] = Append(@, x.cell)] /\ UNCHANGED link
          ELSE link' = [link EXCEPT ![n + d][d] = Append(@, x)] /\ UNCHANGED circuit
    /\ control' = [control EXCEPT ![n] = Tail(@)]
    /\ UNCHANGED <<todo, buffer, handled>>

\* read_short: the length at the front of the buffer, in cells.  If what is there is
\* not the start of a message, it is any number.
Sizes(b) == IF b[1].part = 1 THEN {b[1].msg.cells} ELSE 1 .. Len(b) + 1

\* A variant: what has been handled stays in the buffer.
MessageArrivedKept(n, cell) ==
    LET b == Append(buffer[n], cell) IN
    /\ handled' = [handled EXCEPT ![n] = IF Len(b) >= b[1].msg.cells THEN @ \cup {b} ELSE @]
    /\ buffer' = [buffer EXCEPT ![n] = b]

\* message_arrived
MessageArrived(n, cell) ==
    LET b == Append(buffer[n], cell) IN
    \E size \in Sizes(b) :
       IF Len(b) >= size
       THEN /\ handled' = [handled EXCEPT ![n] = @ \cup {SubSeq(b, 1, size)}]
            /\ buffer' = [buffer EXCEPT ![n] = <<>>]
       ELSE buffer' = [buffer EXCEPT ![n] = b] /\ UNCHANGED handled

GoesOn(n, d, hopNum) == hopNum >= 1 /\ n + d \in Nodes

\* command_process_payment_cell, at node n: forward the cell or tell the controller
ProcessPaymentCell(n, d) ==
    /\ link[n][d] # <<>>
    /\ LET x == Head(link[n][d])
           hopNum == x.hops - 1
           rest == [link EXCEPT ![n][d] = Tail(@)]
       IN IF GoesOn(n, d, hopNum)
          THEN /\ link' = [rest EXCEPT ![n + d][d] = Append(@, [x EXCEPT !.hops = hopNum])]
               /\ UNCHANGED <<buffer, handled>>
          ELSE link' = rest /\ MessageArrived(n, x.cell)
    /\ UNCHANGED <<todo, control, circuit>>

\* connection_edge_process_relay_cell, RELAY_COMMAND_MESSAGE at the end of the circuit
RelayMessage(d) ==
    /\ circuit[d] # <<>>
    /\ circuit' = [circuit EXCEPT ![d] = Tail(@)]
    /\ MessageArrived(IF d = 1 THEN N ELSE 0, Head(circuit[d]))
    /\ UNCHANGED <<todo, control, link>>

Init ==
    /\ todo = Messages
    /\ control = [n \in Nodes |-> <<>>]
    /\ link = [n \in Nodes |-> [d \in Directions |-> <<>>]]
    /\ circuit = [d \in Directions |-> <<>>]
    /\ buffer = [n \in Nodes |-> <<>>]
    /\ handled = [n \in Nodes |-> {}]

Next == \/ \E m \in Messages : Send(m)
        \/ \E n \in Nodes : SendPayment(n)
        \/ \E n \in Nodes, d \in Directions : ProcessPaymentCell(n, d)
        \/ \E d \in Directions : RelayMessage(d)
Spec == Init /\ [][Next]_vars

-----------------------------------------------------------------------------
\* What message_arrived hands to a handler is one of the messages sent to this node,
\* whole and in order: the cells of different messages never mix in the buffer.
Intact == \A n \in Nodes : \A b \in handled[n] :
             \E m \in Messages : m.dst = n /\ b = Cells(m)

=============================================================================

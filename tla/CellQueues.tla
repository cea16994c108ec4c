----------------------------- MODULE CellQueues -----------------------------
(***************************************************************************)
(* The cell queues of circuits and the ring of active circuits of an OR    *)
(* connection (relay.c), with the outbuf that connection_or.c keeps        *)
(* between its water marks.  The ring is the doubly linked list of the     *)
(* code: pointers from circuit to circuit, NULL outside the ring, and the  *)
(* circuit that is next in active_circuits of the connection.              *)
(*                                                                         *)
(* A member of Circs is one side of a circuit, toward n_conn or p_conn:    *)
(* the code keeps a queue, a pair of pointers and a streams_blocked flag   *)
(* for each side and chooses among them by the connection at hand.  An     *)
(* edge stream feeds each side unless the circuit blocks it.               *)
(***************************************************************************)
EXTENDS Integers, Sequences, FiniteSets, SequencesExt

CONSTANT NULL   \* the null pointer: none of the objects of the module

CONSTANTS
    Circs, OrConns,
    CELL_QUEUE_HIGHWATER_SIZE, CELL_QUEUE_LOWWATER_SIZE,
    OR_CONN_HIGHWATER, OR_CONN_LOWWATER,  \* of an outbuf, in cells
    MaxQueued                             \* bound: cells on one queue

VARIABLE cq

CqFresh == [conn |-> NULL, next |-> NULL, prev |-> NULL, n |-> 0,
            blocked |-> FALSE, reading |-> TRUE, passed |-> 0]

\* Variant: a circuit that becomes active is the next to send.
ActiveFirst(s, c, k) ==
    LET head == s.active[k]
        old_tail == s.circ[head].prev
    IN  IF s.circ[c].next # NULL /\ s.circ[c].prev # NULL THEN s
        ELSE IF head = NULL
             THEN [s EXCEPT !.active[k] = c, !.circ[c].next = c, !.circ[c].prev = c]
        ELSE [s EXCEPT !.circ[old_tail].next = c, !.circ[c].next = head,
                       !.circ[head].prev = c, !.circ[c].prev = old_tail, !.active[k] = c]

make_circuit_active_on_conn(s, c, k) ==
    LET head == s.active[k]
        old_tail == s.circ[head].prev
    IN  IF s.circ[c].next # NULL /\ s.circ[c].prev # NULL THEN s
        ELSE IF head = NULL
             THEN [s EXCEPT !.active[k] = c, !.circ[c].next = c, !.circ[c].prev = c]
        ELSE [s EXCEPT !.circ[old_tail].next = c, !.circ[c].next = head,
                       !.circ[head].prev = c, !.circ[c].prev = old_tail]

make_circuit_inactive_on_conn(s, c, k) ==
    LET next == s.circ[c].next
        prev == s.circ[c].prev
        out == IF next = c THEN [s EXCEPT !.active[k] = NULL]
               ELSE [s EXCEPT !.circ[next].prev = prev, !.circ[prev].next = next,
                              !.active[k] = IF @ = c THEN next ELSE @]
    IN  IF next = NULL /\ prev = NULL THEN s
        ELSE [out EXCEPT !.circ[c].next = NULL, !.circ[c].prev = NULL,
                         !.circ[c].passed = 0]

(* The pointers of the whole ring go, and the connection's into it.         *)
connection_or_unlink_all_active_circs(s, k) ==
    LET ring == {c \in Circs : s.circ[c].conn = k /\ s.circ[c].next # NULL}
    IN  [s EXCEPT !.active[k] = NULL,
                  !.circ = [c \in Circs |->
                     IF c \in ring
                     THEN [@[c] EXCEPT !.next = NULL, !.prev = NULL, !.passed = 0]
                     ELSE @[c]]]

set_streams_blocked_on_circ(s, c, block) ==
    [s EXCEPT !.circ[c].blocked = block, !.circ[c].reading = ~block]

(* One cell of the circuit that is next.  active_circuits moves on before   *)
(* an empty queue takes the circuit out of the ring.  `passed' counts the   *)
(* cells of others that an active circuit has seen go before its own.       *)
connection_or_flush_from_first_active_circuit(s, k) ==
    LET c == s.active[k]
        popped == [s EXCEPT !.circ[c].n = @ - 1, !.outbuf[k] = @ + 1,
                            !.active[k] = s.circ[c].next,
                            !.circ = [d \in Circs |->
                               IF d = c THEN [@[d] EXCEPT !.passed = 0]
                               ELSE IF @[d].conn = k /\ @[d].next # NULL
                                    THEN [@[d] EXCEPT !.passed = @ + 1]
                               ELSE @[d]]]
        left == popped.circ[c].n
        unblocked == IF s.circ[c].blocked /\ left <= CELL_QUEUE_LOWWATER_SIZE
                     THEN set_streams_blocked_on_circ(popped, c, FALSE) ELSE popped
    IN  IF c = NULL THEN s
        ELSE IF left = 0 THEN make_circuit_inactive_on_conn(unblocked, c, k)
        ELSE unblocked

(* An outbuf below its low water mark is filled to just over its high one.  *)
connection_or_flushed_some(s, k) ==
    LET n == OR_CONN_HIGHWATER - s.outbuf[k]
        after[i \in 0 .. n] ==
            IF i = 0 THEN s
            ELSE connection_or_flush_from_first_active_circuit(after[i - 1], k)
    IN  IF s.outbuf[k] < OR_CONN_LOWWATER THEN after[n] ELSE s

\* Variant: an idle connection is not given its first cell.
AppendWaiting(s, c, k) ==
    LET added == [s EXCEPT !.circ[c].n = @ + 1]
        blocked == IF ~s.circ[c].blocked
                        /\ added.circ[c].n >= CELL_QUEUE_HIGHWATER_SIZE
                   THEN set_streams_blocked_on_circ(added, c, TRUE) ELSE added
    IN  IF added.circ[c].n = 1
        THEN make_circuit_active_on_conn(blocked, c, k) ELSE blocked

(* An idle connection gets its first cell at once: nothing else would make  *)
(* it write.                                                                *)
append_cell_to_circuit_queue(s, c, k) ==
    LET added == [s EXCEPT !.circ[c].n = @ + 1]
        blocked == IF ~s.circ[c].blocked
                        /\ added.circ[c].n >= CELL_QUEUE_HIGHWATER_SIZE
                   THEN set_streams_blocked_on_circ(added, c, TRUE) ELSE added
        active == IF added.circ[c].n = 1
                  THEN make_circuit_active_on_conn(blocked, c, k) ELSE blocked
    IN  IF s.outbuf[k] = 0
        THEN connection_or_flush_from_first_active_circuit(active, k) ELSE active

circuit_set_circid_orconn_helper(s, c, k) ==
    LET old == s.circ[c].conn
        out == IF old # NULL /\ s.circ[c].next # NULL /\ old # k
               THEN make_circuit_inactive_on_conn(s, c, old) ELSE s
        moved == [out EXCEPT !.circ[c].conn = k]
    IN  IF k # NULL /\ s.circ[c].n > 0 /\ old # k
        THEN make_circuit_active_on_conn(moved, c, k) ELSE moved

cell_queue_clear(s, c) == [s EXCEPT !.circ[c].n = 0]

-----------------------------------------------------------------------------
CqInit == cq = [circ |-> [c \in Circs |-> CqFresh],
                active |-> [k \in OrConns |-> NULL],
                outbuf |-> [k \in OrConns |-> 0]]

(* or_circuit_new, or circuit_deliver_create_cell of a fresh circuit.       *)
CircuitAttached(c, k) ==
    /\ cq.circ[c] = CqFresh
    /\ cq' = circuit_set_circid_orconn_helper(cq, c, k)

(* A cell is relayed, or an edge stream that may read has packaged one.     *)
CellRelayed(c) ==
    /\ cq.circ[c].conn # NULL /\ cq.circ[c].n < MaxQueued
    /\ cq' = append_cell_to_circuit_queue(cq, c, cq.circ[c].conn)

EdgePackaged(c) ==
    /\ cq.circ[c].conn # NULL /\ cq.circ[c].reading
    /\ cq' = append_cell_to_circuit_queue(cq, c, cq.circ[c].conn)

(* connection_handle_write: the socket took n of the outbuf's cells.        *)
Written(k, n) ==
    /\ n <= cq.outbuf[k]
    /\ cq' = connection_or_flushed_some([cq EXCEPT !.outbuf[k] = @ - n], k)

(* circuit_free: both sides leave their connection, then lose their cells.  *)
CircuitFreed(c) ==
    /\ cq.circ[c].conn # NULL
    /\ cq' = [cell_queue_clear(circuit_set_circid_orconn_helper(cq, c, NULL), c)
                EXCEPT !.circ[c] = CqFresh]

(* circuit_unlink_all_from_or_conn marks every circuit, and all are freed;  *)
(* the connection's place is then one for a new connection.                 *)
OrConnClosed(k) ==
    LET unlinked == connection_or_unlink_all_active_circs(cq, k)
    IN  cq' = [unlinked EXCEPT
                 !.outbuf[k] = 0,
                 !.circ = [c \in Circs |-> IF @[c].conn = k THEN CqFresh ELSE @[c]]]

CqNext ==
    \/ \E c \in Circs, k \in OrConns : CircuitAttached(c, k)
    \/ \E c \in Circs : CellRelayed(c) \/ EdgePackaged(c) \/ CircuitFreed(c)
    \/ \E k \in OrConns : OrConnClosed(k) \/ \E n \in 1 .. OR_CONN_HIGHWATER : Written(k, n)

CqSpec == CqInit /\ [][CqNext]_cq

-----------------------------------------------------------------------------
Active(c) == cq.circ[c].next # NULL

(* assert_active_circuits_ok, and what the code relies on besides: the ring *)
(* of a connection holds exactly its circuits with cells, active_circuits   *)
(* points into it, and next and prev are inverse.                           *)
RingOk ==
    /\ \A c \in Circs :
         /\ Active(c) <=> cq.circ[c].prev # NULL
         /\ Active(c) <=> (cq.circ[c].conn # NULL /\ cq.circ[c].n > 0)
         /\ Active(c) => /\ cq.circ[cq.circ[c].next].prev = c
                         /\ cq.circ[cq.circ[c].prev].next = c
                         /\ cq.circ[cq.circ[c].next].conn = cq.circ[c].conn
    /\ \A k \in OrConns :
         IF cq.active[k] = NULL THEN \A c \in Circs : Active(c) => cq.circ[c].conn # k
         ELSE Active(cq.active[k]) /\ cq.circ[cq.active[k]].conn = k

(* No circuit starves: between two cells of an active circuit every other   *)
(* one sends at most one.                                                   *)
NoStarving == \A c \in Circs : cq.circ[c].passed < Cardinality(Circs)

(* Streams of a circuit are stopped only while the ring will still take     *)
(* cells off the queue and start them again, and queues of streams stay     *)
(* below the high water mark.                                               *)
BlockedWillResume ==
    \A c \in Circs : cq.circ[c].conn # NULL =>
      /\ cq.circ[c].blocked => cq.circ[c].n > CELL_QUEUE_LOWWATER_SIZE
      /\ ~cq.circ[c].blocked => cq.circ[c].n < CELL_QUEUE_HIGHWATER_SIZE

(* Cells never wait on a connection that has nothing to write: no write     *)
(* event would come to move them.                                           *)
NoCellStuck == \A k \in OrConns : cq.active[k] # NULL => cq.outbuf[k] > 0

(* The ring of pointers is the line of RoundRobin.                          *)
RingFrom(k) ==
    LET size == Cardinality({c \in Circs : cq.circ[c].conn = k /\ Active(c)})
        at[i \in 1 .. size] == IF i = 1 THEN cq.active[k] ELSE cq.circ[at[i - 1]].next
    IN  [i \in 1 .. size |-> at[i]]

RR == INSTANCE RoundRobin WITH
        Lines <- OrConns, Members <- Circs,
        turns <- [k \in OrConns |-> RingFrom(k)],
        pending <- [c \in Circs |-> cq.circ[c].n]

(* Serving from the ring of pointers is serving from a fair line.           *)
ServesInTurn == RR!Spec
=============================================================================

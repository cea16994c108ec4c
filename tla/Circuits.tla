------------------------------ MODULE Circuits ------------------------------
(***************************************************************************)
(* Building and tearing down circuits: the origin (node 0) and the relays  *)
(* 1 .. Hops of its paths, every one running circuitbuild.c,               *)
(* circuitlist.c, command.c and relay.c.  Link i joins node i-1 to node i. *)
(*                                                                         *)
(* Cells of a circuit wait on the queue of the circuit until the           *)
(* connection has room (other circuits, not modelled, may fill it), then   *)
(* travel in order.  A DESTROY does not go through the queue.  Circuit     *)
(* identifiers are never reused in the model (the code takes them in turn, *)
(* 2^15 of them), so a circuit keeps one name along its path.              *)
(*                                                                         *)
(* An onion skin and the key it leads to are the pair <<circuit, hop>>.  A *)
(* payload is its layers of encryption around a body: a cipher takes its   *)
(* own layer off, and on a payload without that layer puts one on.         *)
(***************************************************************************)
EXTENDS Integers, Sequences, FiniteSets, SequencesExt

CONSTANT NULL   \* the null pointer: none of the objects of the module

CONSTANTS
    Circuits_, Hops,
    FastFirstHop,                     \* first hops are made with CREATE_FAST
    MAX_RELAY_EARLY_CELLS_PER_CIRCUIT

VARIABLE net

Relays == 1 .. Hops
Sides == {"n", "p"}

NoCircuit == [st |-> "none", marked |-> FALSE, n |-> FALSE, p |-> FALSE, key |-> NULL,
              onionskin |-> NULL, early |-> 0, cpath |-> <<>>,
              cells |-> [d \in Sides |-> <<>>]]

(* The connection of side d of node i, the wire that leaves by it, and      *)
(* whether this end still holds it open.                                    *)
LinkOf(i, d) == IF d = "n" THEN i + 1 ELSE i
EndUp(s, i, d) == s.link[LinkOf(i, d)].up[d]

OnWire(s, i, d, c, cell) ==
    IF EndUp(s, i, d) THEN [s EXCEPT !.link[LinkOf(i, d)].wire[d] = Append(@, <<c, cell>>)]
    ELSE s

append_cell_to_circuit_queue(s, i, d, c, cell) ==
    [s EXCEPT !.circ[i][c].cells[d] = Append(@, cell)]

connection_or_send_destroy(s, i, d, c) == OnWire(s, i, d, c, [cmd |-> "DESTROY"])

circuit_mark_for_close(s, i, c) ==
    LET circ == s.circ[i][c]
        ahead == IF circ.n THEN connection_or_send_destroy(s, i, "n", c) ELSE s
        both == IF circ.p THEN connection_or_send_destroy(ahead, i, "p", c) ELSE ahead
    IN  IF circ.marked THEN s ELSE [both EXCEPT !.circ[i][c].marked = TRUE]

circuit_deliver_create_cell(s, i, c, skin) ==
    append_cell_to_circuit_queue([s EXCEPT !.circ[i][c].n = TRUE], i, "n", c,
                                 [cmd |-> "CREATE", skin |-> skin])

-----------------------------------------------------------------------------
(* Relay cells.                                                             *)
Crypt(layers, key) == IF layers # <<>> /\ Head(layers) = key THEN Tail(layers)
                      ELSE <<key>> \o layers

(* From the origin to its hop `to', or from a relay (`to' = 0) to the       *)
(* origin.                                                                  *)
relay_send_command_from_edge(s, i, c, to, body) ==
    LET early == body.cmd = "EXTEND" /\ s.circ[i][c].early > 0
        layers == IF to = 0 THEN <<s.circ[i][c].key>> ELSE [j \in 1 .. to |-> <<c, j>>]
    IN  append_cell_to_circuit_queue(
          [s EXCEPT !.circ[i][c].early = IF i = 0 /\ early THEN @ - 1 ELSE @],
          i, IF to = 0 THEN "p" ELSE "n", c,
          [cmd |-> IF i = 0 /\ early THEN "RELAY_EARLY" ELSE "RELAY",
           layers |-> layers, body |-> body])

onion_next_hop_in_cpath(cpath) ==
    LET left == {j \in DOMAIN cpath : cpath[j] # "OPEN"}
    IN  IF left = {} THEN 0 ELSE Min(left)

circuit_send_next_onion_skin(s, c) ==
    LET cpath == s.circ[0][c].cpath
        hop == onion_next_hop_in_cpath(cpath)
    IN  IF cpath[1] = "CLOSED"
        THEN [circuit_deliver_create_cell(s, 0, c, <<c, 1>>)
                EXCEPT !.circ[0][c].cpath[1] = "AWAITING_KEYS", !.circ[0][c].st = "BUILDING"]
        ELSE IF hop = 0 THEN [s EXCEPT !.circ[0][c].st = "OPEN"]
        ELSE [relay_send_command_from_edge(s, 0, c, hop - 1,
                                           [cmd |-> "EXTEND", skin |-> <<c, hop>>])
                EXCEPT !.circ[0][c].cpath[hop] = "AWAITING_KEYS"]

(* The reply opens the hop that awaits keys if it answers that hop's skin;  *)
(* then the next hop is asked for.                                          *)
circuit_finish_handshake(s, c, skin) ==
    LET hop == onion_next_hop_in_cpath(s.circ[0][c].cpath)
    IN  IF hop = 0 \/ skin # <<c, hop>> THEN circuit_mark_for_close(s, 0, c)
        ELSE circuit_send_next_onion_skin([s EXCEPT !.circ[0][c].cpath[hop] = "OPEN"], c)

\* Variant: the origin takes no notice of a TRUNCATED cell.
TruncatedIgnored(s, c) == s

circuit_truncated(s, c) == circuit_mark_for_close(s, 0, c)

(* A connection that is there takes the CREATE at once; else the circuit    *)
(* waits for one, launched now if none is under way.                        *)
ExtendTo(s, i, c, sent, wait) ==
    LET link == s.link[i + 1]
    IN  IF link.up["n"] THEN sent
        ELSE IF link.st = "gone" THEN circuit_mark_for_close(wait, i, c)
        ELSE [wait EXCEPT !.link[i + 1].st = "connecting"]

circuit_extend(s, i, c, skin) ==
    LET circ == s.circ[i][c]
        sent == circuit_deliver_create_cell(s, i, c, skin)
    IN  IF circ.n \/ circ.onionskin # NULL THEN circuit_mark_for_close(s, i, c)
        ELSE ExtendTo(s, i, c, sent, [s EXCEPT !.circ[i][c].st = "OR_WAIT",
                                               !.circ[i][c].onionskin = skin])

connection_edge_process_relay_cell(s, i, c, body) ==
    CASE body.cmd = "EXTEND" -> circuit_extend(s, i, c, body.skin)
      [] body.cmd = "EXTENDED" -> circuit_finish_handshake(s, c, body.skin)
      [] body.cmd = "TRUNCATED" -> circuit_truncated(s, c)

(* At the origin the layers of the open hops come off until one leaves the  *)
(* body bare.  At a relay the own layer comes off (away from the origin) or *)
(* goes on, and what is not for this relay goes on with the circuit.        *)
circuit_receive_relay_cell(s, i, c, d, cell) ==
    LET circ == s.circ[i][c]
        open == IF i = 0 THEN SelectSeq(circ.cpath, LAMBDA h : h = "OPEN") ELSE <<>>
        layers == IF i # 0 THEN Crypt(cell.layers, circ.key)
                  ELSE IF Len(cell.layers) <= Len(open)
                            /\ \A j \in DOMAIN cell.layers : cell.layers[j] = <<c, j>>
                  THEN <<>> ELSE cell.layers
        onward == IF d = "p" THEN "n" ELSE "p"
    IN  IF i # 0 /\ d = "n" /\ circ.p
        THEN append_cell_to_circuit_queue(s, i, "p", c, [cell EXCEPT !.layers = <<circ.key>> \o @])
        ELSE IF layers = <<>> /\ (i = 0 \/ d = "p")
        THEN connection_edge_process_relay_cell(s, i, c, cell.body)
        ELSE IF i # 0 /\ circ[onward]
        THEN append_cell_to_circuit_queue(s, i, onward, c, [cell EXCEPT !.layers = layers])
        ELSE circuit_mark_for_close(s, i, c)

-----------------------------------------------------------------------------
(* Cells from a connection: side d of node i, for circuit c.                *)
onionskin_answer(s, i, c) ==
    append_cell_to_circuit_queue([s EXCEPT !.circ[i][c].st = "OPEN"], i, "p", c,
                                 [cmd |-> "CREATED", skin |-> s.circ[i][c].key])

command_process_create_cell(s, i, c, cell) ==
    LET new == [s EXCEPT !.circ[i][c] =
                  [NoCircuit EXCEPT !.st = "ONIONSKIN_PENDING", !.p = TRUE, !.key = cell.skin,
                                    !.early = MAX_RELAY_EARLY_CELLS_PER_CIRCUIT]]
    IN  IF s.circ[i][c].st # "none" THEN s
        ELSE IF FastFirstHop /\ i = 1 THEN onionskin_answer(new, i, c) ELSE new

command_process_created_cell(s, i, c, cell) ==
    IF i = 0 THEN circuit_finish_handshake(s, c, cell.skin)
    ELSE relay_send_command_from_edge(s, i, c, 0, [cmd |-> "EXTENDED", skin |-> cell.skin])

command_process_relay_cell(s, i, c, d, cell) ==
    LET early == cell.cmd = "RELAY_EARLY"
        counted == [s EXCEPT !.circ[i][c].early = IF early THEN @ - 1 ELSE @]
    IN  IF s.circ[i][c].st = "ONIONSKIN_PENDING" \/ (early /\ (d = "n" \/ s.circ[i][c].early = 0))
        THEN circuit_mark_for_close(s, i, c)
        ELSE circuit_receive_relay_cell(counted, i, c, d, cell)

\* Variant: a DESTROY from the origin's side is not passed on.
DestroyKept(s, i, c, d) ==
    LET cleared == [s EXCEPT !.circ[i][c][d] = FALSE]
    IN  IF d = "p" THEN circuit_mark_for_close([cleared EXCEPT !.circ[i][c].n = FALSE], i, c)
        ELSE IF i = 0 THEN circuit_mark_for_close(cleared, i, c)
        ELSE relay_send_command_from_edge(cleared, i, c, 0, [cmd |-> "TRUNCATED"])

command_process_destroy_cell(s, i, c, d) ==
    LET cleared == [s EXCEPT !.circ[i][c][d] = FALSE]
    IN  IF d = "p" \/ i = 0 THEN circuit_mark_for_close(cleared, i, c)
        ELSE relay_send_command_from_edge(cleared, i, c, 0, [cmd |-> "TRUNCATED"])

(* circuit_get_by_circid_orconn finds no circuit that is marked, nor one    *)
(* that has left this connection.                                           *)
command_process_cell(s, i, d, c, cell) ==
    LET known == s.circ[i][c][d] /\ ~s.circ[i][c].marked
    IN  CASE cell.cmd = "CREATE" -> command_process_create_cell(s, i, c, cell)
          [] cell.cmd # "CREATE" /\ ~known -> s
          [] cell.cmd = "CREATED" /\ known -> command_process_created_cell(s, i, c, cell)
          [] cell.cmd = "DESTROY" /\ known -> command_process_destroy_cell(s, i, c, d)
          [] cell.cmd \in {"RELAY", "RELAY_EARLY"} /\ known ->
               command_process_relay_cell(s, i, c, d, cell)

(* Every circuit of node i that waits for link i+1, and every circuit that  *)
(* uses its side d.                                                         *)
ForEach(s, cs, Op(_, _)) == FoldLeft(Op, s, SetToSeq(cs))

circuit_n_conn_done(s, i, status) ==
    LET Done(t, c) ==
          IF ~status THEN circuit_mark_for_close(t, i, c)
          ELSE IF i = 0 THEN circuit_send_next_onion_skin(t, c)
          ELSE [circuit_deliver_create_cell(t, i, c, t.circ[i][c].onionskin)
                  EXCEPT !.circ[i][c].onionskin = NULL, !.circ[i][c].st = "OPEN"]
    IN  ForEach(s, {c \in Circuits_ : s.circ[i][c].st = "OR_WAIT" /\ ~s.circ[i][c].marked}, Done)

circuit_unlink_all_from_or_conn(s, i, d) ==
    LET Unlink(t, c) == circuit_mark_for_close([t EXCEPT !.circ[i][c][d] = FALSE], i, c)
    IN  ForEach(s, {c \in Circuits_ : s.circ[i][c][d]}, Unlink)

circuit_close_all_marked(s, i) ==
    [s EXCEPT !.circ[i] = [c \in Circuits_ |->
        IF ~@[c].marked THEN @[c]
        ELSE [NoCircuit EXCEPT !.st = IF i = 0 THEN "gone" ELSE "none"]]]

-----------------------------------------------------------------------------
CirInit ==
    net = [circ |-> [i \in 0 .. Hops |-> [c \in Circuits_ |-> NoCircuit]],
           link |-> [i \in 1 .. Hops + 1 |->
                       [st |-> "none", up |-> [d \in Sides |-> FALSE],
                        wire |-> [d \in Sides |-> <<>>]]],
           late |-> {}]

(* circuit_establish_circuit with a path of `len' hops.                     *)
circuit_establish_circuit(c, len) ==
    /\ net.circ[0][c].st = "none"
    /\ \E rand \in 0 .. 1 :
         LET new == [net EXCEPT !.circ[0][c] =
                       [NoCircuit EXCEPT !.st = "OR_WAIT",
                          !.early = MAX_RELAY_EARLY_CELLS_PER_CIRCUIT - rand,
                          !.cpath = [j \in 1 .. len |-> "CLOSED"]]]
         IN  net' = ExtendTo(new, 0, c, circuit_send_next_onion_skin(new, c), new)

LinkUp(i) ==
    /\ net.link[i].st = "connecting"
    /\ net' = circuit_n_conn_done([net EXCEPT !.link[i].st = "open",
                                              !.link[i].up = [d \in Sides |-> TRUE]], i - 1, TRUE)

LinkFailed(i) ==
    /\ net.link[i].st = "connecting"
    /\ net' = circuit_n_conn_done([net EXCEPT !.link[i].st = "gone"], i - 1, FALSE)

(* This end of the connection closes, by itself or because the other end    *)
(* has and everything it sent is read.  What comes later finds no reader.   *)
EndClosed(i, d) ==
    LET l == LinkOf(i, d)
        o == IF d = "n" THEN "p" ELSE "n"
    IN  /\ EndUp(net, i, d)
        /\ net' = [circuit_unlink_all_from_or_conn(
                     [net EXCEPT !.link[l].up[d] = FALSE, !.link[l].wire[o] = <<>>], i, d)
                     EXCEPT !.link[l].st = "gone"]

ReadEof(i, d) ==
    LET o == IF d = "n" THEN "p" ELSE "n"
    IN  /\ ~net.link[LinkOf(i, d)].up[o] /\ net.link[LinkOf(i, d)].wire[o] = <<>>
        /\ EndClosed(i, d)

(* connection_or_flush_from_first_active_circuit: the marked circuit is     *)
(* still on the ring.  `late' records a CREATE that leaves after the        *)
(* DESTROY of its circuit.                                                  *)
Flush(i, d, c) ==
    LET cell == Head(net.circ[i][c].cells[d])
    IN  /\ net.circ[i][c].cells[d] # <<>> /\ net.circ[i][c][d]
        /\ net' = OnWire([net EXCEPT !.circ[i][c].cells[d] = Tail(@),
                                     !.late = IF net.circ[i][c].marked /\ cell.cmd = "CREATE"
                                              THEN @ \cup {c} ELSE @], i, d, c, cell)

Deliver(i, d) ==
    LET l == LinkOf(i, d)
        o == IF d = "n" THEN "p" ELSE "n"
        first == Head(net.link[l].wire[o])
    IN  /\ EndUp(net, i, d) /\ net.link[l].wire[o] # <<>>
        /\ net' = command_process_cell([net EXCEPT !.link[l].wire[o] = Tail(@)],
                                       i, d, first[1], first[2])

(* The answer of a cpuworker (CpuWorkers.tla).                              *)
CpuAnswer(i, c) ==
    /\ net.circ[i][c].st = "ONIONSKIN_PENDING" /\ ~net.circ[i][c].marked
    /\ net' = onionskin_answer(net, i, c)

(* The origin or a relay gives a circuit up: the controller says so, it is  *)
(* too old, or unpaid.                                                      *)
GiveUp(i, c) ==
    /\ net.circ[i][c].st \notin {"none", "gone"} /\ ~net.circ[i][c].marked
    /\ net' = circuit_mark_for_close(net, i, c)

Reap(i) ==
    /\ \E c \in Circuits_ : net.circ[i][c].marked
    /\ net' = circuit_close_all_marked(net, i)

Ends_ == {<<i, d>> \in (0 .. Hops) \X Sides : LinkOf(i, d) \in Relays}

CirNext ==
    \/ \E c \in Circuits_, len \in Relays : circuit_establish_circuit(c, len)
    \/ \E i \in Relays : LinkUp(i) \/ LinkFailed(i)
    \/ \E e \in Ends_ : EndClosed(e[1], e[2]) \/ Deliver(e[1], e[2])
    \/ \E e \in Ends_, c \in Circuits_ : Flush(e[1], e[2], c)
    \/ \E i \in 0 .. Hops, c \in Circuits_ : CpuAnswer(i, c) \/ GiveUp(i, c)
    \/ \E i \in 0 .. Hops : Reap(i)

(* Connections make progress, cpuworkers answer, and the loop runs.         *)
CirFair ==
    /\ \A i \in Relays : WF_net(LinkUp(i) \/ LinkFailed(i))
    /\ \A e \in Ends_ : /\ WF_net(Deliver(e[1], e[2]))
                        /\ WF_net(ReadEof(e[1], e[2]))
                        /\ \A c \in Circuits_ : WF_net(Flush(e[1], e[2], c))
    /\ \A i \in 0 .. Hops : WF_net(Reap(i)) /\ \A c \in Circuits_ : WF_net(CpuAnswer(i, c))

CirSpec == CirInit /\ [][CirNext]_net /\ CirFair

-----------------------------------------------------------------------------
(* Bad news of circuit c on its way to the origin, from relay j or nearer:  *)
(* a DESTROY, a TRUNCATED on the queue or the wire, or an end of a link     *)
(* that is closed and will be read as such.                                 *)
NewsOnItsWay(c, j) ==
    \E i \in 1 .. j :
        \/ \E d \in Sides : ~net.link[i].up[d]
        \/ \E m \in ToSet(net.link[i].wire["p"]) :
             m[1] = c /\ (m[2].cmd = "DESTROY" \/ (m[2].cmd = "RELAY" /\ m[2].body.cmd = "TRUNCATED"))
        \/ \E cell \in ToSet(net.circ[i][c].cells["p"]) :
             cell.cmd = "RELAY" /\ cell.body.cmd = "TRUNCATED"

(* What the origin believes of its path is so, or it is about to learn      *)
(* better: every hop it holds open is a live circuit of that relay with the *)
(* key of this hop, joined to the hops on both sides of it.                 *)
HopsAgree ==
    \A c \in Circuits_ : \A j \in DOMAIN net.circ[0][c].cpath :
        (~net.circ[0][c].marked /\ net.circ[0][c].cpath[j] = "OPEN") =>
           \/ /\ net.circ[j][c].key = <<c, j>> /\ net.circ[j][c].p /\ ~net.circ[j][c].marked
              /\ net.circ[j][c].st \in {"OPEN", "OR_WAIT"}
              /\ net.circ[j - 1][c].n
           \/ NewsOnItsWay(c, j)

Left(c) == \E i \in Relays : net.circ[i][c].st # "none"

(* A circuit that its origin has closed is in the end closed at every       *)
(* relay, unless its CREATE left some queue only after the DESTROY.         *)
TornDown == \A c \in Circuits_ : (net.circ[0][c].st = "gone") ~> (~Left(c) \/ c \in net.late)

(* The same without the exception: "To tear down a circuit completely, an   *)
(* OR or OP sends a DESTROY cell to the adjacent nodes" (tor-spec.txt).     *)
TornDownCompletely == \A c \in Circuits_ : (net.circ[0][c].st = "gone") ~> ~Left(c)
=============================================================================

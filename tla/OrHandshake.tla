---------------------------- MODULE OrHandshake ----------------------------
(***************************************************************************)
(* The link handshake of an OR connection, both ends of which run          *)
(* connection_or.c and command.c: TLS, with a renegotiation in its second  *)
(* version, then VERSIONS and NETINFO cells, then circuits.  The TLS       *)
(* library is external: a handshake ends at the server before it ends at   *)
(* the client, and data comes in order after the handshake it follows.     *)
(***************************************************************************)
EXTENDS Integers, Sequences, FiniteSets, FiniteSetsExt, SequencesExt

CONSTANTS
    KnownVersions,   \* or_protocol_versions of each end
    MaxHsCells       \* bound: CREATE cells an open end sends

VARIABLES hs, hs_wire

hsVars == <<hs, hs_wire>>

Ends == {"client", "server"}
Other(e) == IF e = "client" THEN "server" ELSE "client"

HsSend(w, e, cells) == [w EXCEPT ![Other(e)] = @ \o cells]

(* started_here and tls v1 are the same for all of a connection's life.     *)
Fail(e) == hs' = [hs EXCEPT ![e].marked = TRUE]

(* connection_or_set_state_open; entry_guard_register_connect_status may    *)
(* make a client give up the connection it just opened.                     *)
connection_or_set_state_open(s, e, guard_refused) ==
    [s EXCEPT ![e].state = "OPEN",
              ![e].marked = (e = "client" /\ guard_refused)]

connection_or_send_versions(e) ==
    [cmd |-> "VERSIONS", versions |-> KnownVersions[e]]

\* Variant: the end is open after TLS without an exchange of versions.
FinishAtOnce(e, cert_ok, guard_refused) ==
    LET done == [hs EXCEPT ![e].tls = @ + 1]
    IN  IF e = "client" /\ ~cert_ok THEN Fail(e) /\ UNCHANGED hs_wire
        ELSE /\ hs' = connection_or_set_state_open(
                        [done EXCEPT ![e].link_proto = 1], e, guard_refused)
             /\ UNCHANGED hs_wire

(* connection_or_check_valid_tls_handshake: only the client minds who the   *)
(* other is; cert_ok is false when the identity is not the one wanted.      *)
connection_tls_finish_handshake(e, cert_ok, guard_refused) ==
    LET done == [hs EXCEPT ![e].tls = @ + 1]
    IN  IF e = "client" /\ ~cert_ok THEN Fail(e) /\ UNCHANGED hs_wire
        ELSE IF hs[e].v1
        THEN /\ hs' = connection_or_set_state_open(
                        [done EXCEPT ![e].link_proto = 1], e, guard_refused)
             /\ UNCHANGED hs_wire
        ELSE /\ hs' = [done EXCEPT ![e].state = "OR_HANDSHAKING"]
             /\ hs_wire' = HsSend(hs_wire, e, <<connection_or_send_versions(e)>>)

(* The TLS library can end handshake n at e.                                *)
TlsCanEnd(e, n) ==
    /\ ~hs[e].marked
    /\ IF e = "server" THEN hs["client"].tls = n /\ ~hs["client"].marked
       ELSE hs["server"].tls > n

HsInit ==
    /\ hs_wire = [e \in Ends |-> <<>>]
    /\ \E v1, proxy \in BOOLEAN :
         hs = [e \in Ends |->
                 [state |-> IF e = "server" THEN "TLS_HANDSHAKING"
                            ELSE IF proxy THEN "PROXY_FLUSHING" ELSE "CONNECTING",
                  tls |-> IF e = "server" THEN 1 ELSE 0, v1 |-> v1,
                  link_proto |-> 0, received_versions |-> FALSE, marked |-> FALSE,
                  creates |-> 0, dropped |-> FALSE]]

(* connection_or_finished_connecting, directly or behind an https proxy     *)
(* whose answer comes first.                                                *)
connection_tls_start_handshake(e) ==
    /\ hs[e].state \in {"CONNECTING", "PROXY_READING"} /\ ~hs[e].marked
    /\ hs' = [hs EXCEPT ![e].state = "TLS_HANDSHAKING", ![e].tls = 1]
    /\ UNCHANGED hs_wire

connection_or_finished_flushing(e) ==
    /\ hs[e].state = "PROXY_FLUSHING" /\ ~hs[e].marked
    /\ hs' = [hs EXCEPT ![e].state = "PROXY_READING"]
    /\ UNCHANGED hs_wire

connection_or_read_proxy_response(e) ==
    /\ hs[e].state = "PROXY_READING" /\ ~hs[e].marked
    /\ Fail(e) /\ UNCHANGED hs_wire

(* The TLS handshake is done: in the second version the client starts the   *)
(* next one at once and the server waits for it.                            *)
connection_tls_continue_handshake(e, cert_ok, guard_refused) ==
    \/ /\ hs[e].state = "TLS_HANDSHAKING" /\ TlsCanEnd(e, 1)
       /\ IF hs[e].v1 THEN connection_tls_finish_handshake(e, cert_ok, guard_refused)
          ELSE /\ hs' = [hs EXCEPT ![e].tls = 2, ![e].state =
                           IF e = "client" THEN "TLS_CLIENT_RENEGOTIATING"
                           ELSE "TLS_SERVER_RENEGOTIATING"]
               /\ UNCHANGED hs_wire
    \/ /\ hs[e].state = "TLS_CLIENT_RENEGOTIATING" /\ TlsCanEnd(e, 2)
       /\ connection_tls_finish_handshake(e, cert_ok, guard_refused)

(* The callback tor_tls_read makes when the client has renegotiated.        *)
connection_or_tls_renegotiated_cb(e) ==
    /\ hs[e].state = "TLS_SERVER_RENEGOTIATING" /\ TlsCanEnd(e, 2)
    /\ connection_tls_finish_handshake(e, TRUE, FALSE)

(* The cell at the head of e's inbuf; other states than these leave it.     *)
NextCell(e, cmd) ==
    /\ ~hs[e].marked /\ hs_wire[e] # <<>> /\ Head(hs_wire[e]).cmd = cmd
    /\ hs[e].state \in {"OPEN", "OR_HANDSHAKING"}

(* A var_cell counts only in OR_HANDSHAKING; no common version, or only the *)
(* first, ends the connection.                                              *)
command_process_versions_cell(e) ==
    LET common == KnownVersions[e] \cap Head(hs_wire[e]).versions
        highest == IF common = {} THEN 0 ELSE Max(common)
        ignored == \/ hs[e].link_proto # 0 \/ hs[e].received_versions
                   \/ hs[e].state # "OR_HANDSHAKING"
        rest == [hs_wire EXCEPT ![e] = Tail(@)]
    IN  /\ NextCell(e, "VERSIONS")
        /\ IF ignored THEN hs' = hs /\ hs_wire' = rest
           ELSE IF highest <= 1 THEN Fail(e) /\ hs_wire' = rest
           ELSE /\ hs' = [hs EXCEPT ![e].link_proto = highest,
                                    ![e].received_versions = TRUE]
                /\ hs_wire' = HsSend(rest, e, <<[cmd |-> "NETINFO"]>>)

command_process_netinfo_cell(e, guard_refused) ==
    /\ NextCell(e, "NETINFO")
    /\ hs_wire' = [hs_wire EXCEPT ![e] = Tail(@)]
    /\ hs' = IF hs[e].link_proto < 2 \/ hs[e].state # "OR_HANDSHAKING" THEN hs
             ELSE connection_or_set_state_open(hs, e, guard_refused)

(* command_process_cell drops what is not a handshake cell while the        *)
(* connection is OR_HANDSHAKING.                                            *)
command_process_cell(e) ==
    /\ NextCell(e, "CREATE")
    /\ hs_wire' = [hs_wire EXCEPT ![e] = Tail(@)]
    /\ hs' = [hs EXCEPT ![e].dropped = @ \/ hs[e].state = "OR_HANDSHAKING"]

(* circuit_n_conn_done and later: cells of circuits on an open connection.  *)
SendCreate(e) ==
    /\ hs[e].state = "OPEN" /\ ~hs[e].marked /\ hs[e].creates < MaxHsCells
    /\ hs' = [hs EXCEPT ![e].creates = @ + 1]
    /\ hs_wire' = HsSend(hs_wire, e, <<[cmd |-> "CREATE"]>>)

(* A TLS or socket error; the other end of a closed connection reads EOF.   *)
HsError(e) == ~hs[e].marked /\ Fail(e) /\ UNCHANGED hs_wire

connection_or_reached_eof(e) ==
    /\ hs[Other(e)].marked /\ ~hs[e].marked /\ hs_wire[e] = <<>>
    /\ Fail(e) /\ UNCHANGED hs_wire

HsProgress(e) ==
    \/ connection_tls_start_handshake(e) \/ connection_or_finished_flushing(e)
    \/ \E ok, refused \in BOOLEAN : connection_tls_continue_handshake(e, ok, refused)
    \/ connection_or_tls_renegotiated_cb(e)
    \/ command_process_versions_cell(e) \/ command_process_cell(e)
    \/ \E refused \in BOOLEAN : command_process_netinfo_cell(e, refused)
    \/ connection_or_reached_eof(e)

HsNext == \E e \in Ends :
    HsProgress(e) \/ connection_or_read_proxy_response(e) \/ SendCreate(e) \/ HsError(e)

(* Sockets that can be read or written are: libevent calls their handlers.  *)
HsFairness == \A e \in Ends : WF_hsVars(HsProgress(e))
HsSpec == HsInit /\ [][HsNext]_hsVars /\ HsFairness

-----------------------------------------------------------------------------
(* No cell of a circuit reaches an end that is still handshaking and would  *)
(* drop it, though the ends become OPEN at different times.                 *)
NoCellDropped == \A e \in Ends : ~hs[e].dropped

(* Ends that are open use the same link protocol, and none of them used the *)
(* first one after an exchange of versions.                                 *)
LinkProtosAgree ==
    \A e \in Ends : hs[e].state = "OPEN" =>
      /\ hs[e].link_proto = IF hs[e].v1 THEN 1
                            ELSE Max(KnownVersions["client"] \cap KnownVersions["server"])
      /\ hs[Other(e)].link_proto \in {0, hs[e].link_proto}

(* Neither end waits for the other for ever: each opens or is closed.       *)
HandshakeOver(e) == hs[e].state = "OPEN" \/ hs[e].marked
HandshakeEnds == \A e \in Ends : <>HandshakeOver(e)
=============================================================================

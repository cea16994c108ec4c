------------------------------- MODULE Streams ------------------------------
(***************************************************************************)
(* Streams of applications over circuits: connection_edge.c, circuituse.c, *)
(* the not-yet-open streams of relay.c, dnsserv.c, and the controller      *)
(* commands of control.c that attach, redirect and close streams and       *)
(* circuits (the commands BitBlinder's own application uses). One client,  *)
(* and the exits at the other end of its circuits. A circuit's building is *)
(* one step (module Circuits has it in detail); rendezvous streams are in  *)
(* module HiddenService, data in TorTokens.                                *)
(*                                                                         *)
(* The address map of innomitor/src/or/connection_edge.c: which address a  *)
(* client stream is rewritten to. A key <<d, n, x>> is the text of name n  *)
(* with the suffix .x.exit when x is a router; d is "rev" for the text     *)
(* REVERSE[n]. An entry of an absent key is NULL; an entry made by         *)
(* client_dns_incr_failures has no target.                                 *)
(***************************************************************************)
EXTENDS Integers, Sequences, SequencesExt, FiniteSets, FiniteSetsExt

CONSTANT NULL   \* the null pointer: none of the objects of the module

CONSTANTS Names,          \* host names and addresses
          Ip,             \* those that are IPv4 addresses
          Virtuals,       \* those of the virtual address network
          Exits,          \* routers named in .exit addresses
          MAX_REWRITES,   \* 16 in the code
          MAX_DNS_AGE, DNS_TTL, TrackExpire,
          TIME_MAX

ExitNames == Exits \cup {NULL}
Keys == {"fwd", "rev"} \X Names \X ExitNames
Plain(n) == <<"fwd", n, NULL>>
WithExit(k, x) == <<k[1], k[2], x>>

Mapped(m, k) == m.at[k] # NULL /\ m.at[k].to # NULL
NoMap == [at |-> [k \in Keys |-> NULL], virt |-> [n \in Names |-> NULL]]

address_is_in_virtual_range(k) == k[1] = "fwd" /\ k[3] = NULL /\ k[2] \in Virtuals

\* The reverse map m.virt gives the virtual address handed out for a name.
addressmap_virtaddress_remove(m, k) ==
    LET ent == m.at[k]
    IN  IF ent = NULL \/ ent.to = NULL \/ ~address_is_in_virtual_range(ent.to) THEN m
        ELSE IF m.virt[ent.to[2]] = k[2] THEN [m EXCEPT !.virt[ent.to[2]] = NULL] ELSE m

addressmap_ent_remove(m, k) ==
    [addressmap_virtaddress_remove(m, k) EXCEPT !.at[k] = NULL]

clear_trackexithost_mappings(m, x) ==
    [m EXCEPT !.at = [k \in Keys |->
        IF m.at[k] # NULL /\ m.at[k].src = "track" /\ k[3] = x THEN NULL ELSE m.at[k]]]

\* With no list to fill, get_mappings drops the entries that expire within bounds.
addressmap_get_mappings(m, min, max) ==
    LET gone == {k \in Keys : m.at[k] # NULL /\ m.at[k].exp \in min..max}
    IN  [m EXCEPT !.at = [k \in Keys |-> IF k \in gone THEN NULL ELSE m.at[k]],
                  !.virt = [n \in Names |->
                     IF \E k \in gone : /\ m.at[k].to = Plain(n)
                                        /\ address_is_in_virtual_range(Plain(n))
                                        /\ m.virt[n] = k[2]
                     THEN NULL ELSE m.virt[n]]]

addressmap_clean(m, now) == addressmap_get_mappings(m, 2, now)

\* Where k leads, and when the soonest of the mappings used expires.
addressmap_rewrite(m, k) ==
    LET step[n \in 0..MAX_REWRITES] ==
            IF n = 0 THEN [k |-> k, exp |-> TIME_MAX]
            ELSE LET b == step[n - 1]
                 IN  IF ~Mapped(m, b.k) THEN b
                     ELSE [k |-> m.at[b.k].to,
                           exp |-> IF m.at[b.k].exp > 1 THEN Min({b.exp, m.at[b.k].exp})
                                   ELSE b.exp]
    IN  IF Mapped(m, step[MAX_REWRITES].k) THEN [step[MAX_REWRITES] EXCEPT !.exp = TIME_MAX]
        ELSE step[MAX_REWRITES]

addressmap_rewrite_reverse(m, k) ==
    LET s == <<"rev", k[2], k[3]>> IN IF Mapped(m, s) THEN m.at[s].to ELSE NULL

addressmap_have_mapping(m, k, until) ==
    IF m.at[k] # NULL /\ m.at[k].src = "track" THEN [m EXCEPT !.at[k].exp = until] ELSE m

\* exp: 0 never (configuration), 1 never (controller), 2 never (virtual), else a time.
addressmap_register(m, k, to, exp, src) ==
    LET ent == m.at[k]
        new == [to |-> to, exp |-> IF exp = 2 THEN 1 ELSE exp, src |-> src, fails |-> 0]
        old == IF ent # NULL /\ ent.to # NULL /\ address_is_in_virtual_range(ent.to) /\ exp # 2
               THEN addressmap_virtaddress_remove(m, k) ELSE m
    IN  IF to = NULL \/ to = k THEN (IF ent = NULL THEN m ELSE addressmap_ent_remove(m, k))
        ELSE IF Mapped(m, k) /\ exp > 1 THEN m
        ELSE [old EXCEPT !.at[k] = new]

client_dns_incr_failures(m, k, now) ==
    IF m.at[k] = NULL
    THEN [m EXCEPT !.at[k] = [to |-> NULL, exp |-> now + MAX_DNS_AGE, src |-> "none", fails |-> 1]]
    ELSE [m EXCEPT !.at[k].fails = @ + 1]

client_dns_clear_failures(m, k) == IF m.at[k] = NULL THEN m ELSE [m EXCEPT !.at[k].fails = 0]

\* An answer learnt from exit x is kept for addresses that name x, or for all.
client_dns_set_addressmap_impl(m, k, n, x, now) ==
    addressmap_register(m, WithExit(k, x), <<"fwd", n, x>>, now + DNS_TTL, "dns")
client_dns_set_addressmap(m, k, ip, x, now) ==
    IF k[2] \in Ip THEN m ELSE client_dns_set_addressmap_impl(m, k, ip, x, now)
client_dns_set_reverse_addressmap(m, k, n, x, now) ==
    client_dns_set_addressmap_impl(m, <<"rev", k[2], k[3]>>, n, x, now)

\* The next virtual address that is no key of the map, or NULL.
addressmap_get_virtual_address(m) ==
    LET free == {v \in Virtuals : m.at[Plain(v)] = NULL}
    IN  IF free = {} THEN NULL ELSE CHOOSE v \in free : TRUE

addressmap_register_virtual_address(m, n) ==
    LET had == m.virt[n]
        v == addressmap_get_virtual_address(m)
    IN  IF had # NULL /\ Mapped(m, Plain(had)) /\ m.at[Plain(had)].to = Plain(n)
        THEN [m |-> m, v |-> had]
        ELSE IF v = NULL THEN [m |-> m, v |-> NULL]
        ELSE [m |-> addressmap_register([m EXCEPT !.virt[n] = v], Plain(v), Plain(n), 2, "ctl"),
              v |-> v]

-----------------------------------------------------------------------------
CONSTANTS AppStreams, StCircs, StreamKinds, Targets,
          Verdict(_, _),      \* what router x's policy says of name n
          OldDns,             \* routers with has_old_dnsworkers
          KnownExits,         \* routers whose descriptor is held
          Automaps,           \* names with an AutomapHostsSuffixes suffix
          PlainNames,         \* names on RejectPlaintextPorts
          TrackedHosts,       \* names on TrackHostExits
          Enclave(_),         \* the router that is the exit enclave of a name, or NULL
          Found(_),           \* what an exit's resolver may answer for a name (NULL: fails)
          Internal,           \* addresses of private networks
          BadNames,           \* names with characters RFC 953 does not allow
          LeaveStreamsUnattached,
          SocksTimeout, RetryTimeout, RetryLater, MaxCircuitDirtiness, NewCircuitPeriod, CircuitIdleTimeout,
          MAX_RESOLVE_FAILURES, TRACKHOSTEXITS_RETRIES,
          SidSpace,           \* 2^16 in the code
          StMaxTime, StMaxCommands, StMaxFaults

VARIABLE st

CLEAN == -1000       \* timestamp_dirty of a circuit never used
Replies(k) == k \in {"user", "resolve", "ptr", "dns"}
Connects(k) == k \in {"user", "dir", "trans", "natd"}
NoStream == [kind |-> NULL, st |-> "none", mark |-> FALSE, fin |-> FALSE, replies |-> 0,
             to |-> NULL, exit |-> NULL, opt |-> FALSE, retries |-> 0, on |-> NULL, sid |-> 0,
             ended |-> FALSE, born |-> 0, read |-> 0, tries |-> 0, closed |-> 0, by |-> NULL]
NoCirc == [st |-> "none", mark |-> FALSE, exit |-> NULL, onehop |-> FALSE, dirty |-> CLEAN,
           born |-> 0, strs |-> <<>>, next |-> 1,
           cut |-> FALSE]      \* a relay of the path has gone

\* An exit stream: which request it serves, and how far it is.
StInit ==
    st = [str |-> [s \in AppStreams |-> NoStream], circ |-> [c \in StCircs |-> NoCirc],
          out |-> [c \in StCircs |-> <<>>], in |-> [c \in StCircs |-> <<>>],
          ex |-> [c \in StCircs |-> [i \in 1..(SidSpace - 1) |-> NULL]],
          map |-> NoMap, reject |-> {}, now |-> 0, newcirc |-> 0, dice |-> NULL,
          cmds |-> 0, faults |-> 0]

Unattached == {"ctl", "circ"}
Send(t, c, m) == [t EXCEPT !.out[c] = Append(@, m)]
Back(t, c, m) == [t EXCEPT !.in[c] = Append(@, m)]
Answers(e) == IF Replies(e.kind) THEN [e EXCEPT !.fin = TRUE, !.replies = @ + 1]
              ELSE [e EXCEPT !.fin = TRUE]

(***************************************************************************)
(* Replies to the application.                                             *)
(***************************************************************************)
connection_ap_handshake_socks_reply(t, s) ==
    IF t.str[s].fin THEN t ELSE [t EXCEPT !.str[s] = Answers(@)]

\* The request of a DNSPort question is answered once and then forgotten.
dnsserv_resolved(t, s) == IF t.str[s].replies > 0 THEN t ELSE [t EXCEPT !.str[s] = Answers(@)]

\* ans: NULL for an error; learnt: the answer carries a TTL and is cached.
LearnAnswer(t, e, ans) ==
    IF e.kind = "ptr" THEN client_dns_set_reverse_addressmap(t.map, e.to, ans, e.exit, t.now)
    ELSE client_dns_set_addressmap(t.map, e.to, ans, e.exit, t.now)
GiveAnswer(t, s) ==
    CASE t.str[s].kind = "dns" -> [dnsserv_resolved(t, s) EXCEPT !.str[s].fin = TRUE]
      [] t.str[s].kind = "ctlres" -> [t EXCEPT !.str[s].fin = TRUE]
      [] OTHER -> connection_ap_handshake_socks_reply(t, s)
connection_ap_handshake_socks_resolved(t, s, ans, learnt) ==
    GiveAnswer([t EXCEPT !.map = IF learnt /\ ans # NULL THEN LearnAnswer(t, t.str[s], ans) ELSE @], s)

connection_mark_unattached_ap(t, s) ==
    LET e == t.str[s]
        r == IF e.fin THEN t
             ELSE IF Connects(e.kind) THEN connection_ap_handshake_socks_reply(t, s)
             ELSE GiveAnswer(t, s)
    IN  IF e.mark THEN [t EXCEPT !.str[s].ended = TRUE]
        ELSE [r EXCEPT !.str[s].mark = TRUE, !.str[s].ended = TRUE]

connection_edge_end(t, s) ==
    LET e == t.str[s]
    IN  IF e.ended \/ e.mark THEN t
        ELSE [(IF e.on # NULL /\ ~t.circ[e.on].mark
               THEN Send(t, e.on, [type |-> "END", sid |-> e.sid]) ELSE t)
              EXCEPT !.str[s].ended = TRUE]

connection_edge_destroy(t, s) ==
    [IF t.str[s].mark THEN t
     ELSE [connection_mark_unattached_ap(t, s) EXCEPT !.str[s].closed = @ + 1]
       EXCEPT !.str[s].on = NULL]

circuit_detach_stream(t, c, s) ==
    [t EXCEPT !.str[s].on = NULL, !.circ[c].strs = SelectSeq(@, LAMBDA x : x # s)]

(***************************************************************************)
(* Circuits as streams see them.                                           *)
(***************************************************************************)
consider_plaintext_ports(t, s) ==
    IF t.str[s].to[2] \in PlainNames THEN connection_mark_unattached_ap(t, s) ELSE t

InCircWait(t) == {s \in AppStreams : t.str[s].st = "circ" /\ ~t.str[s].mark}
Each(t, todo, F(_, _)) == FoldSet(LAMBDA s, u : F(u, s), t, todo)

connection_ap_fail_onehop(t, x) ==
    Each(t, {s \in InCircWait(t) : t.str[s].kind = "dir" /\ t.str[s].exit = x},
         connection_mark_unattached_ap)

DiscardEnclave(t, s) ==
    IF t.str[s].opt
    THEN consider_plaintext_ports([t EXCEPT !.str[s].opt = FALSE, !.str[s].exit = NULL], s) ELSE t
CountRetry(t, s, x) ==
    LET u == [t EXCEPT !.str[s].retries = @ - 1]
    IN  IF t.str[s].retries = 0 THEN t
        ELSE IF t.str[s].retries > 1 THEN u
        ELSE consider_plaintext_ports([u EXCEPT !.map = clear_trackexithost_mappings(@, x),
                                                !.str[s].exit = NULL], s)
circuit_discard_optional_exit_enclaves(t, x) ==
    Each(t, {s \in InCircWait(t) : /\ t.str[s].opt \/ t.str[s].retries > 0
                                   /\ t.str[s].exit = x /\ x \in KnownExits},
         LAMBDA u, s : CountRetry(DiscardEnclave(u, s), s, x))

circuit_build_failed(t, c, lasthop) ==
    LET x == t.circ[c].exit
        Discard(u) == IF lasthop THEN circuit_discard_optional_exit_enclaves(u, x) ELSE u
    IN  Discard(IF t.circ[c].onehop THEN connection_ap_fail_onehop(t, x) ELSE t)

circuit_about_to_close(t, c) ==
    [Each(Send(t, c, [type |-> "DESTROY", sid |-> 0]), ToSet(t.circ[c].strs), connection_edge_destroy)
       EXCEPT !.circ[c].mark = TRUE]
circuit_mark_for_close(t, c, lasthop) ==
    IF t.circ[c].mark THEN t
    ELSE circuit_about_to_close(
             IF t.circ[c].st # "open" THEN circuit_build_failed(t, c, lasthop) ELSE t, c)

connection_ap_can_use_exit(t, s, x) ==
    LET e == t.str[s]
        v == IF x \in t.reject THEN "reject" ELSE Verdict(x, e.to[2])
    IN  /\ e.exit # NULL => e.exit = x
        /\ e.kind \in {"user", "trans", "natd"} => v # "reject" /\ (v = "probably rejected" => e.exit # NULL)
        /\ e.kind = "ptr" => x \notin OldDns
        /\ ~Connects(e.kind) /\ e.exit = NULL => x \notin t.reject

circuit_is_acceptable(t, c, s, must_be_open) ==
    LET k == t.circ[c]
    IN  /\ ~k.mark /\ (IF must_be_open THEN k.st = "open" ELSE k.st # "none")
        /\ k.dirty # CLEAN => k.dirty + MaxCircuitDirtiness > t.now
        /\ k.onehop = (t.str[s].kind = "dir")
        /\ k.onehop => t.str[s].exit = k.exit
        /\ k.onehop \/ (k.exit \in KnownExits /\ connection_ap_can_use_exit(t, s, k.exit))

\* The most recently dirtied circuit, else the newest.
circuit_get_best(t, s, must_be_open) ==
    LET ok == {c \in StCircs : circuit_is_acceptable(t, c, s, must_be_open)}
        Better(a, b) == IF t.circ[b].dirty # CLEAN THEN t.circ[a].dirty > t.circ[b].dirty
                        ELSE t.circ[a].dirty # CLEAN \/ t.circ[a].born > t.circ[b].born
    IN  IF ok = {} THEN NULL ELSE CHOOSE c \in ok : \A d \in ok : ~Better(d, c)

\* A launch fails when no circuit may be started; t.dice is the path selection's choice.
circuit_launch(t, x, onehop) ==
    LET free == {c \in StCircs : t.circ[c].st = "none"}
        c == Min(free)
    IN  IF free = {} THEN t
        ELSE [t EXCEPT !.circ[c] = [NoCirc EXCEPT !.st = "building", !.onehop = onehop,
                 !.exit = IF x = NULL THEN t.dice ELSE x, !.born = t.now]]

DropOptional(t, s) == [t EXCEPT !.str[s].opt = FALSE, !.str[s].exit = NULL]
Result(t, r, c) == [t |-> t, r |-> r, c |-> c]

\* r is -1 (give up), 0 (not yet) or 1 (circuit c is usable now).
LaunchFor(t, s) ==
    LET e == t.str[s]
    IN  IF circuit_get_best(t, s, FALSE) # NULL THEN Result(t, 0, NULL)
        ELSE Result(circuit_launch(t, e.exit, e.kind = "dir"), 0, NULL)
OpenOrLaunch(t, s) ==
    IF circuit_get_best(t, s, TRUE) # NULL THEN Result(t, 1, circuit_get_best(t, s, TRUE))
    ELSE IF /\ t.str[s].kind \in {"user", "trans", "natd"} /\ t.str[s].exit = NULL
            /\ \A x \in KnownExits : ~connection_ap_can_use_exit(t, s, x)
         THEN Result(t, -1, NULL)
    ELSE LaunchFor(t, s)
circuit_get_open_circ_or_launch(t, s) ==
    LET x == t.str[s].exit
        unusable == x # NULL /\ t.str[s].kind # "dir"
                    /\ (x \notin KnownExits \/ ~connection_ap_can_use_exit(t, s, x))
    IN  IF circuit_get_best(t, s, TRUE) # NULL \/ ~unusable THEN OpenOrLaunch(t, s)
        ELSE IF t.str[s].opt THEN OpenOrLaunch(DropOptional(t, s), s)
        ELSE Result(t, -1, NULL)

get_unique_stream_id_by_circ(t, c) ==
    LET k == t.circ[c]
        used == {t.str[s].sid : s \in ToSet(k.strs)} \cup {0}
        tries == {n \in 0..(SidSpace - 1) : (k.next + n) % SidSpace \notin used}
    IN  IF tries = {} THEN 0 ELSE (k.next + Min(tries)) % SidSpace

link_apconn_to_circ(t, s, c) ==
    [t EXCEPT !.str[s].read = t.now, !.str[s].on = c, !.circ[c].strs = <<s>> \o @]

consider_recording_trackhost(t, s, c) ==
    LET k == t.str[s].to
    IN  IF t.map.at[k] # NULL
        THEN [t EXCEPT !.map = addressmap_have_mapping(@, k, t.now + TrackExpire)]
        ELSE IF k[2] \notin TrackedHosts THEN t
        ELSE [t EXCEPT !.map = addressmap_register(@, k, WithExit(k, t.circ[c].exit),
                                                   t.now + TrackExpire, "track")]

(***************************************************************************)
(* Attaching a stream.                                                     *)
(***************************************************************************)
SendFirst(t, s, c, type, next) ==
    LET sid == get_unique_stream_id_by_circ(t, c)
        numbered == [t EXCEPT !.str[s].sid = sid, !.circ[c].next = (sid + 1) % SidSpace]
    IN  IF sid = 0
        THEN Result(circuit_mark_for_close(connection_mark_unattached_ap(t, s), c, FALSE), -1, c)
        ELSE Result([Send(numbered, c, [type |-> type, sid |-> sid, for |-> s, to |-> t.str[s].to,
                                      at |-> t.circ[c].exit])
                     EXCEPT !.str[s].st = next], 1, c)

connection_ap_handshake_send_begin(t, s, c) ==
    SendFirst(t, s, c, IF t.str[s].kind = "dir" THEN "BEGIN_DIR" ELSE "BEGIN", "conn")

connection_ap_handshake_send_resolve(t, s, c) ==
    IF t.str[s].kind = "ptr" /\ t.str[s].to[2] \notin Ip
    THEN Result(connection_mark_unattached_ap(t, s), -1, c)
    ELSE SendFirst(t, s, c, "RESOLVE", "res")

connection_ap_handshake_attach_chosen_circuit(t, s, c) ==
    LET dirty == [t EXCEPT !.str[s].st = "circ",
                           !.circ[c].dirty = IF @ = CLEAN THEN t.now ELSE @]
        linked == link_apconn_to_circ(dirty, s, c)
    IN  IF ~Connects(t.str[s].kind) THEN connection_ap_handshake_send_resolve(linked, s, c)
        ELSE connection_ap_handshake_send_begin(
                 IF t.str[s].kind = "dir" THEN linked
                 ELSE consider_recording_trackhost(linked, s, c), s, c)

AttachTo(got, s) ==
    IF got.r < 1 THEN got ELSE connection_ap_handshake_attach_chosen_circuit(got.t, s, got.c)
connection_ap_handshake_attach_circuit(t, s) ==
    LET e == t.str[s]
        unusable == /\ e.exit # NULL /\ e.kind # "dir"
                    /\ e.exit \notin KnownExits \/ ~connection_ap_can_use_exit(t, s, e.exit)
    IN  IF t.now - e.born >= SocksTimeout THEN Result(t, -1, NULL)
        ELSE IF unusable /\ e.opt THEN Result(DropOptional(t, s), 0, NULL)
        ELSE IF unusable THEN Result(t, -1, NULL)
        ELSE AttachTo(circuit_get_open_circ_or_launch(t, s), s)

\* What every caller does with a failure: the stream is closed.
OrGiveUp(got, s) ==
    IF got.r < 0 /\ ~got.t.str[s].mark THEN connection_mark_unattached_ap(got.t, s) ELSE got.t

connection_ap_attach_pending(t) ==
    Each(t, InCircWait(t), LAMBDA u, s :
         IF u.str[s].mark THEN u ELSE OrGiveUp(connection_ap_handshake_attach_circuit(u, s), s))

connection_ap_detach_retriable(t, s, c) ==
    LET u == circuit_detach_stream([t EXCEPT !.str[s].read = t.now], c, s)
    IN  IF LeaveStreamsUnattached /\ t.str[s].kind # "dir"
        THEN [u EXCEPT !.str[s].st = "ctl"]
        ELSE OrGiveUp(connection_ap_handshake_attach_circuit([u EXCEPT !.str[s].st = "circ"], s), s)

(***************************************************************************)
(* A new request: automapping, the address map, .exit names, enclaves.     *)
(***************************************************************************)
parse_extended_hostname(k) == [name |-> Plain(k[2]), exit |-> k[3]]

MappedAddress(t, s) ==
    LET e == t.str[s]
        rw == addressmap_rewrite(t.map, e.to)
        host == parse_extended_hostname(rw.k)
        remapped == e.to[3] = NULL /\ host.exit # NULL /\ rw.exp < TIME_MAX
    IN  IF e.kind = "ptr" THEN t
        ELSE [t EXCEPT !.str[s].to = host.name,
                       !.str[s].exit = IF host.exit # NULL THEN host.exit ELSE @,
                       !.str[s].retries = IF remapped THEN TRACKHOSTEXITS_RETRIES ELSE @]

Resolved(t, s, ans) ==
    connection_mark_unattached_ap(connection_ap_handshake_socks_resolved(t, s, ans, FALSE), s)

\* c: the circuit the controller chose, or NULL.
AttachMapped(t, s, c) ==
    LET e == t.str[s]
        free == e.kind \in {"user", "trans", "natd"} /\ e.exit = NULL /\ c = NULL
        enclave == Enclave(e.to[2])
        u == IF free /\ enclave # NULL
             THEN [t EXCEPT !.str[s].exit = enclave, !.str[s].opt = TRUE] ELSE t
        waiting == [u EXCEPT !.str[s].st = "circ"]
    IN  IF free /\ enclave = NULL /\ e.to[2] \in PlainNames
        THEN consider_plaintext_ports(t, s)
        ELSE OrGiveUp(IF c = NULL THEN connection_ap_handshake_attach_circuit(waiting, s)
                      ELSE connection_ap_handshake_attach_chosen_circuit(waiting, s, c), s)

AsksAddress(k) == k \in {"resolve", "dns", "ctlres"}
\* u: t with its address rewritten; virt: the rewritten address is a virtual one.
Rewritten(t, u, s, c, virt) ==
    LET to == u.str[s].to
    IN  IF virt \/ to[2] \in BadNames THEN connection_mark_unattached_ap(u, s)
        ELSE IF AsksAddress(u.str[s].kind) /\ to[2] \in Ip
        THEN Resolved([u EXCEPT !.str[s].to = t.str[s].to], s, to[2])
        ELSE AttachMapped(u, s, c)
Automapped(t, s, vr) == Resolved([t EXCEPT !.map = vr.m], s, vr.v)
connection_ap_handshake_rewrite_and_attach(t, s, c) ==
    LET e == t.str[s]
        automap == AsksAddress(e.kind) /\ e.to[3] = NULL /\ e.to[2] \in Automaps \ Ip
        back == addressmap_rewrite_reverse(t.map, e.to)
    IN  IF automap THEN Automapped(t, s, addressmap_register_virtual_address(t.map, e.to[2]))
        ELSE IF e.kind = "ptr" /\ back # NULL THEN Resolved(t, s, back[2])
        ELSE IF e.kind = "ptr" /\ e.to[2] \in Internal THEN Resolved(t, s, NULL)
        ELSE Rewritten(t, MappedAddress(t, s), s, c,
                       address_is_in_virtual_range(addressmap_rewrite(t.map, e.to).k))

(***************************************************************************)
(* Cells that reach the client.                                            *)
(***************************************************************************)
relay_lookup_conn(t, c, sid) ==
    LET found == {s \in ToSet(t.circ[c].strs) : t.str[s].sid = sid /\ ~t.str[s].mark}
    IN  IF found = {} THEN NULL ELSE CHOOSE s \in found : TRUE

edge_reason_is_retriable(r) ==
    r \in {"HIBERNATING", "RESOURCELIMIT", "EXITPOLICY", "RESOLVEFAILED", "MISC"}

AgeCircuit(t, c) == [t EXCEPT !.circ[c].dirty = @ - MaxCircuitDirtiness]
WithoutOptional(t, s) == IF t.str[s].opt THEN DropOptional(t, s) ELSE t

LearnIp(t, s, ip) ==
    LET e == t.str[s]
    IN  IF ip = NULL THEN t.map ELSE client_dns_set_addressmap(t.map, e.to, ip, e.exit, t.now)
EndedByPolicy(t, s, c, ip, map) ==
    LET e == t.str[s]
        x == t.circ[c].exit
        liar == x \in KnownExits /\ (ip = NULL \/ (e.to[2] \in Ip /\ e.exit = NULL))
        u == [t EXCEPT !.map = map, !.reject = IF liar THEN @ \cup {x} ELSE @,
                       !.str[s].to = addressmap_rewrite(map, e.to).k]
    IN  IF e.opt \/ e.retries > 0 THEN [DropOptional(u, s) EXCEPT !.str[s].retries = 0] ELSE u

EndedBusy(t, s, c) ==
    LET x == t.circ[c].exit
    IN  WithoutOptional([t EXCEPT !.reject = IF x \in KnownExits THEN @ \cup {x} ELSE @], s)

\* Tried again on another circuit from state t, or given up.
RetryOr(again, t, s, c) ==
    IF again THEN connection_ap_detach_retriable(t, s, c) ELSE connection_mark_unattached_ap(t, s)
connection_ap_process_end_not_open(t, s, c, m) ==
    LET k == t.str[s].to
        failed == client_dns_incr_failures(t.map, k, t.now)
        few == failed.at[k].fails < MAX_RESOLVE_FAILURES
        unresolved == m.why \in {"RESOLVEFAILED", "MISC"}
        policy == m.why = "EXITPOLICY"
    IN  RetryOr(/\ edge_reason_is_retriable(m.why)
                /\ policy => m.ip \notin Internal
                /\ unresolved => few,
          CASE policy /\ m.ip \notin Internal -> EndedByPolicy(t, s, c, m.ip, LearnIp(t, s, m.ip))
            [] unresolved /\ few -> WithoutOptional(AgeCircuit([t EXCEPT !.map = failed], c), s)
            [] unresolved -> [t EXCEPT !.map = client_dns_clear_failures(failed, k)]
            [] m.why \in {"HIBERNATING", "RESOURCELIMIT"} -> EndedBusy(t, s, c)
            [] OTHER -> t, s, c)

StreamConnected(t, s, ip) ==
    LET open == [t EXCEPT !.str[s].st = "open"]
    IN  IF t.str[s].st # "conn" THEN t
        ELSE IF ip \in Internal THEN connection_mark_unattached_ap(connection_edge_end(open, s), s)
        ELSE connection_ap_handshake_socks_reply(
                 [open EXCEPT !.map = LearnIp(t, s, ip), !.str[s].to = IF ip = NULL THEN @ ELSE Plain(ip)], s)

StreamResolved(t, s, ans) ==
    IF t.str[s].st # "res" THEN t
    ELSE IF t.str[s].kind # "ptr" /\ ans \in Internal THEN Resolved(t, s, NULL)
    ELSE connection_mark_unattached_ap(
             [connection_ap_handshake_socks_resolved(t, s, ans, TRUE)
                EXCEPT !.str[s].to = IF t.str[s].kind # "ptr" /\ ans # NULL THEN Plain(ans) ELSE @], s)

connection_edge_process_relay_cell_not_open(t, s, c, m) ==
    CASE m.type = "END" -> connection_ap_process_end_not_open(t, s, c, m)
      [] m.type = "CONNECTED" -> StreamConnected(t, s, m.ip)
      [] m.type = "RESOLVED" -> StreamResolved(t, s, m.ip)

connection_edge_process_relay_cell(t, c, m) ==
    LET s == relay_lookup_conn(t, c, m.sid)
    IN  IF s = NULL THEN t
        ELSE IF t.str[s].st # "open" THEN connection_edge_process_relay_cell_not_open(t, s, c, m)
        ELSE IF m.type = "END" THEN [t EXCEPT !.str[s].ended = TRUE, !.str[s].mark = TRUE]
        ELSE circuit_mark_for_close(t, c, FALSE)

(***************************************************************************)
(* The exit at the end of circuit c.                                       *)
(***************************************************************************)
Reply(t, c, i, type, why, ip) ==
    Back(t, c, [type |-> type, sid |-> i, for |-> t.ex[c][i].for, why |-> why, ip |-> ip])
relay_send_end_cell_from_edge(t, c, i, why, ip) ==
    [Reply(t, c, i, "END", why, ip) EXCEPT !.ex[c][i] = NULL]
Served(m, how) == [for |-> m.for, st |-> how, to |-> m.to, at |-> m.at, ip |-> NULL]

\* A stream to the exit's own directory server is open at once.
connection_exit_connect_dir(t, c, m) ==
    Reply([t EXCEPT !.ex[c][m.sid] = Served(m, "open")], c, m.sid, "CONNECTED", NULL, NULL)

connection_exit_begin_conn(t, c, m) ==
    LET Now(how) == [t EXCEPT !.ex[c][m.sid] = Served(m, how)]
    IN  IF m.type = "BEGIN_DIR" THEN {connection_exit_connect_dir(t, c, m)}
        ELSE {Now("resolving")} \cup
             IF t.faults = StMaxFaults THEN {}
             ELSE {relay_send_end_cell_from_edge([Now("resolving") EXCEPT !.faults = @ + 1],
                                                 c, m.sid, "HIBERNATING", NULL)}

connection_exit_begin_resolve(t, c, m) ==
    {[t EXCEPT !.ex[c][m.sid] = Served(m, "resolve")]}

connection_exit_connect(t, c, i, ip) ==
    LET at == [t EXCEPT !.ex[c][i].ip = ip]
    IN  IF Verdict(t.ex[c][i].at, ip) = "reject"
        THEN {relay_send_end_cell_from_edge(t, c, i, "EXITPOLICY", ip)}
        ELSE {[at EXCEPT !.ex[c][i].st = "connecting"],
              Reply([at EXCEPT !.ex[c][i].st = "open"], c, i, "CONNECTED", NULL, ip)}

Receives(t, c) ==
    LET m == Head(t.out[c])
        u == [t EXCEPT !.out[c] = Tail(@)]
    IN  CASE t.circ[c].cut -> {u}
          [] m.type = "DESTROY" -> {[u EXCEPT !.ex[c] = [i \in DOMAIN @ |-> NULL]]}
          [] m.type = "END" -> {[u EXCEPT !.ex[c][m.sid] = NULL]}
          [] OTHER -> IF t.ex[c][m.sid] # NULL THEN {u}
                      ELSE IF m.type = "RESOLVE" THEN connection_exit_begin_resolve(u, c, m)
                      ELSE connection_exit_begin_conn(u, c, m)

\* The resolver has answered; the connection has been made or refused.
DnsAnswers(t, c, i) ==
    LET e == t.ex[c][i]
    IN  IF e.st = "resolve"
        THEN {[Reply(t, c, i, "RESOLVED", NULL, a) EXCEPT !.ex[c][i] = NULL] : a \in Found(e.to[2])}
        ELSE UNION {IF a = NULL THEN {relay_send_end_cell_from_edge(t, c, i, "RESOLVEFAILED", NULL)}
                    ELSE connection_exit_connect(t, c, i, a) : a \in Found(e.to[2])}

connection_edge_finished_connecting(t, c, i) ==
    {Reply([t EXCEPT !.ex[c][i].st = "open"], c, i, "CONNECTED", NULL, t.ex[c][i].ip),
     relay_send_end_cell_from_edge(t, c, i, "CONNECTREFUSED", NULL)}

(***************************************************************************)
(* The clock: run_scheduled_events.                                        *)
(***************************************************************************)
compute_retry_timeout(e) == IF e.tries < 2 THEN RetryTimeout ELSE RetryLater

\* Variant: a stream whose circuit did not answer is attached again without an
\* END for the old one.
ExpireWithoutEnd(t, s) ==
    LET e == t.str[s]
    IN  IF e.st \in Unattached
        THEN IF t.now - e.born >= SocksTimeout THEN connection_mark_unattached_ap(t, s) ELSE t
        ELSE IF t.now - e.read < compute_retry_timeout(e) THEN t
        ELSE IF e.on = NULL THEN connection_mark_unattached_ap(t, s)
        ELSE connection_ap_detach_retriable(AgeCircuit([t EXCEPT !.str[s].tries = @ + 1], e.on),
                                            s, e.on)

\* Variant: a stream that waits for a circuit is never given up.
ExpireAttachedOnly(t, s) ==
    LET e == t.str[s]
        ended == [connection_edge_end(t, s) EXCEPT !.str[s].ended = FALSE, !.str[s].tries = @ + 1]
    IN  IF e.st \in Unattached \/ t.now - e.read < compute_retry_timeout(e) THEN t
        ELSE IF e.on = NULL THEN connection_mark_unattached_ap(t, s)
        ELSE connection_ap_detach_retriable(AgeCircuit(ended, e.on), s, e.on)

ExpireStream(t, s) ==
    LET e == t.str[s]
        ended == [connection_edge_end(t, s) EXCEPT !.str[s].ended = FALSE, !.str[s].tries = @ + 1]
    IN  IF e.st \in Unattached
        THEN IF t.now - e.born >= SocksTimeout THEN connection_mark_unattached_ap(t, s) ELSE t
        ELSE IF t.now - e.read < compute_retry_timeout(e) THEN t
        ELSE IF e.on = NULL THEN connection_mark_unattached_ap(t, s)
        ELSE connection_ap_detach_retriable(AgeCircuit(ended, e.on), s, e.on)
connection_ap_expire_beginning(t) ==
    Each(t, {s \in AppStreams : t.str[s].st \in {"ctl", "circ", "conn", "res"} /\ ~t.str[s].mark},
         ExpireStream)

circuit_expire_old_circuits(t) ==
    Each(t, {c \in StCircs : LET k == t.circ[c] IN
                /\ k.st # "none" /\ ~k.mark
                /\ \/ k.dirty # CLEAN /\ k.dirty + MaxCircuitDirtiness < t.now /\ k.strs = <<>>
                   \/ k.dirty = CLEAN /\ k.st = "open" /\ k.born < t.now - CircuitIdleTimeout},
         LAMBDA u, c : circuit_mark_for_close(u, c, FALSE))

CircuitsRenewed(t) ==
    IF t.newcirc >= t.now THEN t
    ELSE circuit_expire_old_circuits([t EXCEPT !.newcirc = t.now + NewCircuitPeriod,
                                               !.map = addressmap_clean(@, t.now)])
circuit_build_needed_circs(t) == CircuitsRenewed(connection_ap_attach_pending(t))

(***************************************************************************)
(* Next-state relation.  Every step may launch a circuit, whose exit path  *)
(* selection picks; t.dice holds that pick.                                *)
(***************************************************************************)
Becomes(ts) == st' \in {[t EXCEPT !.dice = NULL] : t \in ts}
Rolls == {[st EXCEPT !.dice = x] : x \in KnownExits}
Early == st.now + RetryLater + 1 < StMaxTime
Command(t) == [t EXCEPT !.cmds = @ + 1]
CanCommand == Early /\ st.cmds < StMaxCommands

\* Requests: of an application by SOCKS, from a transparent proxy or natd (which
\* expect no reply), of a DNS client, of the controller, of the directory code.
connection_ap_process_transparent(e) == [e EXCEPT !.kind = "trans", !.fin = TRUE]
connection_ap_process_natd(e) == [e EXCEPT !.kind = "natd", !.fin = TRUE]
evdns_server_callback(e) == [e EXCEPT !.kind = "dns"]
dnsserv_launch_request(e) == [e EXCEPT !.kind = "ctlres"]
connection_ap_handshake_process_socks(e, k) == [e EXCEPT !.kind = k]
connection_ap_make_link(e, a) == [e EXCEPT !.kind = "dir", !.to = Plain(a[2]), !.exit = a[3]]
Request(e, k, a) ==
    CASE k \in {"user", "resolve", "ptr"} -> connection_ap_handshake_process_socks(e, k)
      [] k = "trans" -> connection_ap_process_transparent(e)
      [] k = "natd" -> connection_ap_process_natd(e)
      [] k = "dns" -> evdns_server_callback(e)
      [] k = "ctlres" -> dnsserv_launch_request(e)
      [] k = "dir" -> connection_ap_make_link(e, a)
\* The common end of these functions.
StartRequest(t, s, k) ==
    IF k = "dir" THEN OrGiveUp(connection_ap_handshake_attach_circuit(t, s), s)
    ELSE IF LeaveStreamsUnattached /\ k \notin {"dns", "ctlres"} THEN [t EXCEPT !.str[s].st = "ctl"]
    ELSE connection_ap_handshake_rewrite_and_attach(t, s, NULL)

NewStream(s, k, a) ==
    /\ st.now + SocksTimeout + RetryLater + 1 < StMaxTime
    /\ st.str[s].st = "none" /\ \A r \in AppStreams : r < s => st.str[r].st # "none"
    /\ (k = "ptr") => a[2] \in Ip
    /\ (k = "dir") => a[3] # NULL
    /\ LET e == [NoStream EXCEPT !.st = "circ", !.born = st.now, !.read = st.now, !.to = a]
       IN  Becomes({StartRequest([t EXCEPT !.str[s] = Request(e, k, a)], s, k) : t \in Rolls})

circuit_has_opened(c) ==
    /\ st.circ[c].st = "building" /\ ~st.circ[c].mark
    /\ Becomes({connection_ap_attach_pending([t EXCEPT !.circ[c].st = "open"]) : t \in Rolls})
BuildFails(c) ==
    /\ st.circ[c].st = "building" /\ ~st.circ[c].mark /\ st.faults < StMaxFaults
    /\ Becomes({circuit_mark_for_close([st EXCEPT !.faults = @ + 1], c, l) : l \in BOOLEAN})
\* A relay of the path goes away: the exit's end closes, a DESTROY comes back.
CircuitDies(c) ==
    /\ st.circ[c].st = "open" /\ ~st.circ[c].mark /\ ~st.circ[c].cut /\ st.faults < StMaxFaults
    /\ Becomes({[st EXCEPT !.faults = @ + 1, !.ex[c] = [i \in DOMAIN @ |-> NULL],
                           !.circ[c].cut = TRUE, !.in[c] = Append(@, [type |-> "DESTROY", sid |-> 0])]})

ToExit(c) == st.out[c] # <<>> /\ Becomes(Receives(st, c))
ToClient(c) ==
    /\ st.in[c] # <<>>
    /\ LET m == Head(st.in[c])
           Take(t) == [t EXCEPT !.in[c] = Tail(@)]
       IN  Becomes({IF t.circ[c].mark THEN Take(t)
                    ELSE IF m.type = "DESTROY" THEN circuit_mark_for_close(Take(t), c, FALSE)
                    ELSE connection_edge_process_relay_cell(Take(t), c, m) : t \in Rolls})
ExitWorks(c, i) ==
    /\ st.ex[c][i] # NULL
    /\ \/ st.ex[c][i].st \in {"resolving", "resolve"} /\ Becomes(DnsAnswers(st, c, i))
       \/ st.ex[c][i].st = "connecting" /\ Becomes(connection_edge_finished_connecting(st, c, i))
       \/ st.ex[c][i].st = "open" /\ Becomes({relay_send_end_cell_from_edge(st, c, i, "DONE", NULL)})

\* The application hangs up; a marked connection is removed.
connection_edge_reached_eof(s) ==
    /\ st.str[s].st \notin {"none", "gone"} /\ ~st.str[s].mark
    /\ st.str[s].kind \in {"user", "resolve", "trans", "natd"}
    /\ Becomes({[connection_edge_end(st, s) EXCEPT !.str[s].fin = TRUE, !.str[s].mark = TRUE,
                                                   !.str[s].by = "app"]})
connection_about_to_close_connection(s) ==
    /\ st.str[s].mark /\ st.str[s].st # "gone"
    /\ LET e == st.str[s]
           t == IF e.kind = "dns" /\ e.replies = 0 THEN [st EXCEPT !.str[s].replies = 1] ELSE st
           u == IF e.closed > 0 THEN t ELSE [t EXCEPT !.str[s].closed = @ + 1]
       IN  Becomes({[(IF e.on # NULL THEN circuit_detach_stream(u, e.on, s) ELSE u)
                     EXCEPT !.str[s].st = "gone"]})

StTick ==
    /\ st.now < StMaxTime
    /\ Becomes({circuit_build_needed_circs(connection_ap_expire_beginning(
                    [t EXCEPT !.now = @ + 1])) : t \in Rolls})

\* The controller's commands.
BackToController(t, s) ==
    LET e == t.str[s]
        ended == [connection_edge_end(t, s) EXCEPT !.str[s].ended = FALSE, !.str[s].st = "ctl"]
    IN  IF e.st = "ctl" THEN t ELSE IF e.on = NULL THEN ended ELSE circuit_detach_stream(ended, e.on, s)
handle_control_attachstream(s, c) ==
    LET refused(t) == c # NULL /\ (t.circ[c].st # "open" \/ t.circ[c].onehop)
    IN  /\ CanCommand /\ st.str[s].st \in {"ctl", "conn", "res"} /\ ~st.str[s].mark
        /\ c # NULL => st.circ[c].st # "none" /\ ~st.circ[c].mark
        /\ Becomes({IF refused(t) THEN t
                    ELSE connection_ap_handshake_rewrite_and_attach(t, s, c)
                    : t \in {BackToController(Command(r), s) : r \in Rolls}})
handle_control_redirectstream(s, a) ==
    /\ CanCommand /\ st.str[s].st \notin {"none", "gone"} /\ ~st.str[s].mark /\ a[3] = NULL
    /\ Becomes({[Command(st) EXCEPT !.str[s].to = a]})
handle_control_closestream(s) ==
    /\ CanCommand /\ st.str[s].st \notin {"none", "gone"} /\ ~st.str[s].mark
    /\ Becomes({[connection_mark_unattached_ap(Command(st), s) EXCEPT !.str[s].by = "controller"]})
handle_control_closecircuit(c, safe) ==
    /\ CanCommand /\ st.circ[c].st # "none" /\ ~st.circ[c].mark
    /\ Becomes({IF safe /\ st.circ[c].strs # <<>> THEN Command(st)
                ELSE circuit_mark_for_close(Command(st), c, FALSE)})
handle_control_extendcircuit(c, x) ==
    /\ CanCommand
    /\ IF c = NULL THEN Becomes({circuit_launch(Command(st), x, FALSE)})
       ELSE /\ st.circ[c].st # "none" /\ ~st.circ[c].mark
            /\ Becomes({[Command(st) EXCEPT !.circ[c].st = "building", !.circ[c].exit = x]})
handle_control_mapaddress(n, a) ==
    /\ CanCommand
    /\ Becomes({[Command(st) EXCEPT !.map = addressmap_register(@, Plain(n), a, 1, "ctl")]})

StNext ==
    \/ \E s \in AppStreams, k \in StreamKinds, a \in Targets : NewStream(s, k, a)
    \/ \E c \in StCircs : circuit_has_opened(c) \/ BuildFails(c) \/ CircuitDies(c)
    \/ \E c \in StCircs : ToExit(c) \/ ToClient(c) \/ \E i \in 1..(SidSpace - 1) : ExitWorks(c, i)
    \/ \E s \in AppStreams : connection_edge_reached_eof(s) \/ connection_about_to_close_connection(s)
    \/ StTick
    \/ \E s \in AppStreams, c \in StCircs \cup {NULL} : handle_control_attachstream(s, c)
    \/ \E s \in AppStreams, a \in Targets : handle_control_redirectstream(s, a)
    \/ \E s \in AppStreams : handle_control_closestream(s)
    \/ \E c \in StCircs, safe \in BOOLEAN : handle_control_closecircuit(c, safe)
    \/ \E c \in StCircs \cup {NULL}, x \in KnownExits : handle_control_extendcircuit(c, x)
    \/ \E n \in {a[2] : a \in Targets}, a \in Targets : handle_control_mapaddress(n, a)

StSpec == StInit /\ [][StNext]_st

(***************************************************************************)
(* Properties.                                                             *)
(***************************************************************************)
\* The two records of where a stream is agree: a stream points at the circuit that
\* lists it and at no closed one, a waiting stream at none, and the streams of a
\* circuit have different stream ids (link_apconn_to_circ, circuit_detach_stream,
\* circuit_about_to_close_connection, get_unique_stream_id_by_circ).
StreamsPlaced ==
    /\ \A s \in AppStreams : LET e == st.str[s] IN
        /\ e.on # NULL => ~st.circ[e.on].mark /\ s \in ToSet(st.circ[e.on].strs)
        /\ e.st \in Unattached /\ ~e.mark => e.on = NULL
        /\ e.st \in {"conn", "res", "open"} /\ ~e.mark => e.on # NULL
    /\ \A c \in StCircs : ~st.circ[c].mark =>
        /\ IsInjective(st.circ[c].strs)
        /\ \A r, s \in ToSet(st.circ[c].strs) :
              st.str[s].on = c /\ (st.str[r].sid = st.str[s].sid => r = s)

\* An application hears the fate of its request exactly once, whatever ended it
\* (timeout, refusal, failed circuit, controller), unless it hung up first; the
\* controller sees each stream closed once (connection_ap_handshake_socks_reply,
\* dnsserv_resolved, connection_about_to_close_connection).
AnsweredOnce ==
    \A s \in AppStreams : LET e == st.str[s] IN
        /\ e.replies <= 1 /\ e.closed <= 1
        /\ e.st = "gone" => e.closed = 1
        /\ e.st = "gone" /\ Replies(e.kind) /\ e.by # "app" => e.replies = 1

\* Whatever an exit still says about a stream id is heard by the stream that asked,
\* and a stream lives on at an exit only while its client still uses it or an END or
\* DESTROY is on its way (a stream closed by CLOSESTREAM is ended without an END).
TalksToOwn ==
    \A c \in StCircs :
        /\ ~st.circ[c].mark => \A n \in DOMAIN st.in[c] : LET m == st.in[c][n] IN
              \A s \in ToSet(st.circ[c].strs) :
                 m.type # "DESTROY" /\ m.sid = st.str[s].sid => m.for = s
        /\ \A i \in DOMAIN st.ex[c] : st.ex[c][i] # NULL =>
              LET e == st.str[st.ex[c][i].for]
              IN  \/ e.on = c /\ e.sid = i /\ ~e.ended
                  \/ \E n \in DOMAIN st.out[c] : \/ st.out[c][n].type = "DESTROY"
                                                 \/ st.out[c][n] = [type |-> "END", sid |-> i]
                  \/ e.by = "controller"

\* A request is connected or given up: no state waits for ever for a circuit, an
\* exit or the controller (connection_ap_expire_beginning, SocksTimeout).
StreamsEnd ==
    \A s \in AppStreams :
        st.str[s].st \in {"ctl", "circ", "conn", "res"} ~> st.str[s].st = "open" \/ st.str[s].mark
=============================================================================

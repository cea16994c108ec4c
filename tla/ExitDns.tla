------------------------------- MODULE ExitDns ------------------------------
(***************************************************************************)
(* Name lookups of an exit relay (dns.c) on top of the resolver of         *)
(* eventdns.c: the cache of answers and of lookups under way, the streams  *)
(* that wait for a lookup, and nameservers that are configured again while *)
(* requests are out.                                                       *)
(*                                                                         *)
(* A stream is "new", RESOLVING, or "done" once the client was told a      *)
(* result (`told' counts the answers) or closed it. Resolve requests and   *)
(* connects differ only in the cell that tells the result.                 *)
(*                                                                         *)
(* The asynchronous resolver (eventdns.c): nameservers that go down and    *)
(* are probed until they are back, requests that are in flight (req_head,  *)
(* at most MaxInflight) or wait, their timers, retransmissions and         *)
(* reissues, and sockets that are full for a while.                        *)
(*                                                                         *)
(* A request carries either the address looked up (`ptr') or the server it *)
(* probes. `sent' are the servers a request went to: a late answer of any  *)
(* of them still finds it by its transaction id. The results handed to     *)
(* user callbacks in one event are collected in `out'. Lookups do not      *)
(* search in domains (DNS_QUERY_NO_SEARCH).                                *)
(***************************************************************************)
EXTENDS Integers, Sequences, FiniteSets, SequencesExt

CONSTANT NULL   \* the null pointer: none of the objects of the module

CONSTANTS
    Nameservers, Localhost,      \* the servers of resolv.conf, and 127.0.0.1
    Addresses,
    Reqs,                        \* bound: requests at one time, 1 .. n
    Sockets,                     \* what they do in an event: "ok", "full", "error"
    MaxInflight, MaxRetransmits, MaxReissues, MaxNameserverTimeouts

VARIABLE ev

AllServers == Nameservers \cup {Localhost}
FreshServer == [up |-> TRUE, timedout |-> 0, timer |-> FALSE, choked |-> FALSE, waiting |-> FALSE]
NoReq == [ptr |-> NULL, probe |-> NULL, ns |-> NULL, tx |-> 0, reissues |-> 0,
          transmit_me |-> FALSE, timer |-> FALSE, sent |-> {}]

FreeReqs(s) == {r \in Reqs : s.req[r] = NoReq}
Rotate(ring) == Tail(ring) \o <<Head(ring)>>

(* The server picked and the ring after it: the next one that is up, or the *)
(* next one when none is.                                                   *)
nameserver_pick(s) ==
    LET first == SelectInSeq(s.ring, LAMBDA n : s.ns[n].up)
        turn[i \in 0 .. Len(s.ring)] == IF i = 0 THEN s.ring ELSE Rotate(turn[i - 1])
    IN  IF s.ring = <<>> THEN <<NULL, s>>
        ELSE IF s.good = 0 THEN <<Head(Rotate(s.ring)), [s EXCEPT !.ring = Rotate(@)]>>
        ELSE <<s.ring[first], [s EXCEPT !.ring = turn[first]]>>

(* Untransmitted requests of a server that fails go to another one.         *)
nameserver_failed(s, n) ==
    LET down == [s EXCEPT !.good = @ - 1, !.ns[n].up = FALSE, !.ns[n].timer = TRUE]
        Move(t, r) == IF t.req[r].tx = 0 /\ t.req[r].ns = n
                      THEN LET p == nameserver_pick(t) IN [p[2] EXCEPT !.req[r].ns = p[1]]
                      ELSE t
    IN  IF ~s.ns[n].up THEN s
        ELSE IF down.good = 0 THEN down ELSE FoldLeft(Move, down, down.head)

nameserver_up(s, n) ==
    IF n = NULL \/ s.ns[n].up THEN s
    ELSE [s EXCEPT !.ns[n] = [@ EXCEPT !.up = TRUE, !.timer = FALSE, !.timedout = 0],
                   !.good = @ + 1]

nameserver_probe_failed(s, n) == IF s.ns[n].up THEN [s EXCEPT !.ns[n].timer = FALSE]
                                 ELSE [s EXCEPT !.ns[n].timer = TRUE]

(* The probed server is found by its address, if it is still configured.    *)
nameserver_probe_callback(s, n, result) ==
    IF n \notin ToSet(s.ring) THEN s
    ELSE IF result \in {"answer", "NOTEXIST"} THEN nameserver_up(s, n)
    ELSE nameserver_probe_failed(s, n)

reply_callback(s, r, result) ==
    IF s.req[r].probe # NULL THEN nameserver_probe_callback(s, s.req[r].probe, result)
    ELSE [s EXCEPT !.out = Append(@, <<s.req[r].ptr, result>>)]

evdns_request_transmit(s, r, sock) ==
    LET n == s.req[r].ns
        try == [s EXCEPT !.req[r].transmit_me = TRUE]
    IN  IF s.ns[n].choked THEN try
        ELSE IF sock = "full" THEN [try EXCEPT !.ns[n].choked = TRUE, !.ns[n].waiting = TRUE]
        ELSE [IF sock = "error" THEN nameserver_failed(try, n)
              ELSE [try EXCEPT !.req[r].sent = @ \cup {n}]
                EXCEPT !.req[r].timer = TRUE, !.req[r].tx = @ + 1, !.req[r].transmit_me = FALSE]

evdns_transmit(s, sock) ==
    FoldLeft(LAMBDA t, r : IF t.req[r].transmit_me THEN evdns_request_transmit(t, r, sock) ELSE t,
             s, s.head)

NextToServer(s, p) ==
    LET r == Head(s.waiting)
    IN  [p[2] EXCEPT !.waiting = Tail(@), !.nwaiting = @ - 1, !.head = Append(@, r),
                     !.inflight = @ + 1, !.req[r].ns = p[1]]
evdns_requests_pump_waiting_queue(s, sock) ==
    FoldLeft(LAMBDA t, i :
               IF t.inflight >= MaxInflight \/ t.nwaiting = 0 THEN t
               ELSE evdns_transmit(evdns_request_transmit(NextToServer(t, nameserver_pick(t)),
                                                          Head(t.waiting), sock), sock),
             s, SetToSeq(Reqs))

request_finished(s, r, sock) ==
    evdns_requests_pump_waiting_queue(
      [s EXCEPT !.head = Remove(@, r), !.req[r] = NoReq, !.inflight = @ - 1], sock)

(* "REFUSED" stands for REFUSED and NOTIMPL, "NOTEXIST" for every other     *)
(* error that shows the server works.  A refused request goes to another    *)
(* server, if there is one, at the next evdns_transmit or timeout.          *)
request_reissue(s, r) ==
    LET p == nameserver_pick(s)
        moved == [p[2] EXCEPT !.req[r].ns = p[1]]
    IN  IF p[1] = s.req[r].ns THEN moved
        ELSE [moved EXCEPT !.req[r].reissues = @ + 1, !.req[r].tx = 0, !.req[r].transmit_me = TRUE]

UpIf(cond, s, n) == IF cond THEN nameserver_up(s, n) ELSE s
(* The result goes to its user; n is the server it is taken to come from.   *)
ReplyGiven(s, r, n, result, sock) ==
    request_finished(UpIf(result = "answer", reply_callback(s, r, result), n), r, sock)
Reissued(failed, again, r, n, sock) ==
    IF again.req[r].ns # failed.req[r].ns THEN again ELSE ReplyGiven(again, r, n, "REFUSED", sock)
reply_handle(s, r, result, sock) ==
    LET n == s.req[r].ns
        failed == nameserver_failed(s, n)
    IN  IF result = "REFUSED" /\ s.req[r].reissues < MaxReissues
        THEN Reissued(failed, request_reissue(failed, r), r, n, sock)
        ELSE ReplyGiven(UpIf(result = "NOTEXIST", s, n), r, n, result, sock)

(* A request that cannot go out now, for want of a server or of room, waits. *)
request_submit(s, r, sock) ==
    IF s.req[r].ns # NULL
    THEN evdns_request_transmit([s EXCEPT !.head = Append(@, r), !.inflight = @ + 1], r, sock)
    ELSE [s EXCEPT !.waiting = Append(@, r), !.nwaiting = @ + 1]

request_new(s, r, ptr) ==
    LET p == IF s.inflight < MaxInflight THEN nameserver_pick(s) ELSE <<NULL, s>>
    IN  [p[2] EXCEPT !.req[r] = [NoReq EXCEPT !.ptr = ptr, !.ns = p[1]]]

evdns_resolve_ipv4(s, addr, sock) ==
    LET r == Min(FreeReqs(s)) IN request_submit(request_new(s, r, addr), r, sock)

nameserver_send_probe(s, n, sock) ==
    LET r == Min(FreeReqs(s))
        new == request_new(s, r, NULL)
    IN  request_submit([new EXCEPT !.req[r].probe = n, !.req[r].ns = n], r, sock)

evdns_nameserver_add(s, n) ==
    IF n \in ToSet(s.ring) THEN s
    ELSE [s EXCEPT !.ring = IF @ = <<>> THEN <<n>> ELSE <<Head(@), n>> \o Tail(@),
                   !.ns[n] = FreshServer, !.good = @ + 1]

\* Variant: requests in flight are dropped instead of waiting for the new servers.
ClearAndDrop(s) ==
    IF s.ring = <<>> THEN s
    ELSE [s EXCEPT !.ring = <<>>, !.good = 0, !.ns = [n \in AllServers |-> FreshServer],
                   !.head = <<>>, !.inflight = 0,
                   !.req = [r \in Reqs |-> IF r \in ToSet(s.head) THEN NoReq ELSE s.req[r]]]

(* Requests in flight go before the ones that wait, in their old order.     *)
evdns_clear_nameservers_and_suspend(s) ==
    IF s.ring = <<>> THEN s
    ELSE [s EXCEPT !.ring = <<>>, !.good = 0, !.ns = [n \in AllServers |-> FreshServer],
                   !.waiting = Reverse(s.head) \o @, !.nwaiting = @ + Len(s.head),
                   !.head = <<>>, !.inflight = 0,
                   !.req = [r \in Reqs |->
                      IF r \in ToSet(s.head)
                      THEN [NoReq EXCEPT !.ptr = s.req[r].ptr, !.probe = s.req[r].probe]
                      ELSE s.req[r]]]

evdns_resume(s, sock) == evdns_requests_pump_waiting_queue(s, sock)

-----------------------------------------------------------------------------
EvEmpty == [ring |-> <<>>, ns |-> [n \in AllServers |-> FreshServer], good |-> 0,
            head |-> <<>>, waiting |-> <<>>, req |-> [r \in Reqs |-> NoReq],
            inflight |-> 0, nwaiting |-> 0, out |-> <<>>]

(* Events of the resolver: s -> the state after it.                         *)
evdns_request_timeout_callback(s, r, sock) ==
    LET n == s.req[r].ns
        late == s.ns[n].timedout + 1 > MaxNameserverTimeouts
        counted == IF late THEN nameserver_failed([s EXCEPT !.ns[n].timedout = 0], n)
                   ELSE [s EXCEPT !.ns[n].timedout = @ + 1]
        off == [counted EXCEPT !.req[r].timer = FALSE]
    IN  IF s.req[r].tx >= MaxRetransmits
        THEN request_finished(reply_callback(off, r, "TIMEOUT"), r, sock)
        ELSE evdns_request_transmit(off, r, sock)

nameserver_ready_callback(s, n, sock) ==
    LET open == [s EXCEPT !.ns[n].choked = FALSE]
        tried == \E r \in ToSet(s.head) : s.req[r].transmit_me
    IN  IF tried THEN evdns_transmit(open, sock) ELSE [open EXCEPT !.ns[n].waiting = FALSE]

nameserver_read(s, n, r, result, sock) ==
    reply_handle([s EXCEPT !.ns[n].timedout = 0], r, result, sock)

nameserver_prod_callback(s, n, sock) ==
    nameserver_send_probe([s EXCEPT !.ns[n].timer = FALSE], n, sock)

(* A request in flight is going to move: its timer runs, or it is to be     *)
(* sent when some socket, watched for it, has room.                         *)
RequestsMove(s) ==
    \A r \in ToSet(s.head) : s.req[r].timer \/
        (s.req[r].transmit_me /\ \E n \in ToSet(s.ring) : s.ns[n].waiting)

(* The counters that admit requests are the lengths of the queues, a        *)
(* request is in one queue at most, and the servers counted good are the    *)
(* ones that are up.                                                        *)
CountsRight(s) ==
    /\ s.inflight = Len(s.head) /\ s.nwaiting = Len(s.waiting)
    /\ s.good = Cardinality({n \in ToSet(s.ring) : s.ns[n].up})
    /\ IsInjective(s.head \o s.waiting)
    /\ ToSet(s.head \o s.waiting) = Reqs \ FreeReqs(s)

(* A server that is down is about to be probed, or is being probed.         *)
DownIsProbed(s) ==
    \A n \in ToSet(s.ring) : ~s.ns[n].up =>
        s.ns[n].timer \/ \E r \in ToSet(s.head \o s.waiting) : s.req[r].probe = n

-----------------------------------------------------------------------------
CONSTANTS
    Streams,
    RESOLVE_MAX_TIMEOUT,    \* how long a lookup may be pending
    TTL,                    \* how long an answer is cached
    DnsMaxTime              \* bound

VARIABLE dn

NoEntry == [state |-> "none", expire |-> 0, pend |-> {}]
Expired(e, now) == e.state # "none" /\ e.expire <= now

Tell(d, cs) == [d EXCEPT !.conn = [c \in Streams |->
                  IF c \in cs THEN [@[c] EXCEPT !.st = "done", !.told = @ + 1] ELSE @[c]]]

(* Entries whose time is up go, and the streams that wait for them end.     *)
purge_expired_resolves(d) ==
    LET old == {a \in Addresses : Expired(d.cache[a], d.now)}
    IN  [Tell(d, UNION {d.cache[a].pend : a \in old})
           EXCEPT !.cache = [a \in Addresses |-> IF a \in old THEN NoEntry ELSE @[a]]]

connection_dns_remove(d, c) ==
    IF d.cache[d.conn[c].addr].state = "none" THEN d
    ELSE [d EXCEPT !.cache[d.conn[c].addr].pend = @ \ {c}]

dns_cancel_pending_resolve(d, a) ==
    IF d.cache[a].state # "PENDING" \/ d.cache[a].pend = {} THEN d
    ELSE [Tell(d, d.cache[a].pend) EXCEPT !.cache[a] = NoEntry]

add_answer_to_cache(d, a, outcome) ==
    IF outcome = "FAILED_TRANSIENT" THEN d
    ELSE [d EXCEPT !.cache[a] =
            [state |-> IF outcome = "SUCCEEDED" THEN "CACHED_VALID" ELSE "CACHED_FAILED",
             expire |-> d.now + TTL, pend |-> {}]]

(* The answer to a lookup, or to one that was given up: then it is cached,  *)
(* unless a lookup that was started since has been answered.                *)
dns_found_answer(d, a, outcome) ==
    LET told == [Tell(d, d.cache[a].pend) EXCEPT !.cache[a] = NoEntry]
    IN  CASE d.cache[a].state = "none"    -> add_answer_to_cache(d, a, outcome)
          [] d.cache[a].state = "PENDING" -> add_answer_to_cache(told, a, outcome)
          [] OTHER                        -> d

evdns_err_is_transient(result) == result \in {"SERVFAIL", "TIMEOUT"}

evdns_callback(d, answer) ==
    dns_found_answer(d, answer[1],
      IF answer[2] = "answer" THEN "SUCCEEDED"
      ELSE IF evdns_err_is_transient(answer[2]) THEN "FAILED_TRANSIENT" ELSE "FAILED_PERMANENT")

(* The state of both after resolver event s: the callbacks it made ran.     *)
Callbacks(d, s) == [dn |-> FoldLeft(evdns_callback, d, s.out), ev |-> [s EXCEPT !.out = <<>>]]

(* What resolv.conf may be: it cannot be read, or names these servers.      *)
ResolvConf == [readable : BOOLEAN, servers : {<<>>, SetToSeq(Nameservers)}]

(* Without a server in the file, 127.0.0.1 is used if none is left.         *)
evdns_resolv_conf_parse(s, servers) ==
    LET read == FoldLeft(evdns_nameserver_add, s, servers)
    IN  IF read.ring = <<>> THEN evdns_nameserver_add(read, Localhost) ELSE read

(* A file that yields no server is an error although 127.0.0.1 is there.    *)
configure_nameservers(b, conf, sock) ==
    LET cleared == IF b.dn.configured THEN evdns_clear_nameservers_and_suspend(b.ev) ELSE b.ev
        parsed == evdns_resolv_conf_parse(cleared, conf.servers)
    IN  IF ~conf.readable THEN [b EXCEPT !.dn.configured = FALSE]
        ELSE IF conf.servers = <<>> /\ cleared.ring = <<>>
        THEN [b EXCEPT !.ev = parsed, !.dn.configured = FALSE]
        ELSE [b EXCEPT !.ev = IF b.dn.configured THEN evdns_resume(parsed, sock) ELSE parsed,
                       !.dn.configured = TRUE]

(* A failed launch makes dns_resolve cancel the lookup.                     *)
AskOrCancel(b, a, sock) ==
    IF b.dn.configured THEN [b EXCEPT !.ev = evdns_resolve_ipv4(@, a, sock)]
    ELSE [b EXCEPT !.dn = dns_cancel_pending_resolve(@, a)]
launch_resolve(b, a, conf, sock) ==
    AskOrCancel(IF b.dn.configured THEN b ELSE configure_nameservers(b, conf, sock), a, sock)

dns_resolve_impl(b, c, a, conf, sock) ==
    LET d == purge_expired_resolves(b.dn)
        asked == [d EXCEPT !.cache[a] = [state |-> "PENDING", pend |-> {c},
                                         expire |-> d.now + RESOLVE_MAX_TIMEOUT]]
    IN  CASE d.cache[a].state = "none" -> launch_resolve([b EXCEPT !.dn = asked], a, conf, sock)
          [] d.cache[a].state = "PENDING" ->
                [b EXCEPT !.dn = [d EXCEPT !.cache[a].pend = @ \cup {c}]]
          [] OTHER -> [b EXCEPT !.dn = Tell(d, {c})]

dns_resolve(b, c, a, conf, sock) ==
    dns_resolve_impl([b EXCEPT !.dn.conn[c].st = "RESOLVING", !.dn.conn[c].addr = a],
                     c, a, conf, sock)

-----------------------------------------------------------------------------
DnsInit ==
    /\ ev = evdns_resolv_conf_parse(EvEmpty, SetToSeq(Nameservers))
    /\ dn = [cache |-> [a \in Addresses |-> NoEntry], now |-> 0, configured |-> TRUE,
             conn |-> [c \in Streams |-> [st |-> "new", addr |-> NULL, told |-> 0]]]

Both == [dn |-> dn, ev |-> ev]
Becomes(b) == dn' = b.dn /\ ev' = b.ev
Event(s) == Becomes(Callbacks(dn, s))

Begin(c) == /\ dn.conn[c].st = "new"
            /\ FreeReqs(ev) # {}
            /\ \E a \in Addresses, conf \in ResolvConf, sock \in Sockets :
                  Becomes(dns_resolve(Both, c, a, conf, sock))

CloseStream(c) == /\ dn.conn[c].st = "RESOLVING"
                  /\ dn' = [connection_dns_remove(dn, c) EXCEPT !.conn[c].st = "done"]
                  /\ UNCHANGED ev

Reconfigure == \E conf \in ResolvConf, sock \in Sockets :
                  Becomes(configure_nameservers(Both, conf, sock))

RequestTimer(r) == /\ ev.req[r].timer
                   /\ \E sock \in Sockets : Event(evdns_request_timeout_callback(ev, r, sock))

SocketReady(n) == /\ n \in ToSet(ev.ring) /\ ev.ns[n].waiting
                  /\ \E sock \in Sockets : Event(nameserver_ready_callback(ev, n, sock))

Reply(n, r) == /\ n \in ToSet(ev.ring) /\ r \in ToSet(ev.head) /\ n \in ev.req[r].sent
               /\ \E result \in {"answer", "REFUSED", "SERVFAIL", "NOTEXIST"}, sock \in Sockets :
                     Event(nameserver_read(ev, n, r, result, sock))

ReadFails(n) == n \in ToSet(ev.ring) /\ Event(nameserver_failed(ev, n))

Probe(n) == /\ n \in ToSet(ev.ring) /\ ev.ns[n].timer /\ FreeReqs(ev) # {}
            /\ \E sock \in Sockets : Event(nameserver_prod_callback(ev, n, sock))

DnsTick == dn.now < DnsMaxTime /\ dn' = [dn EXCEPT !.now = @ + 1] /\ UNCHANGED ev

DnsNext ==
    \/ \E c \in Streams : Begin(c) \/ CloseStream(c)
    \/ \E r \in Reqs : RequestTimer(r) \/ \E n \in AllServers : Reply(n, r)
    \/ \E n \in AllServers : SocketReady(n) \/ ReadFails(n) \/ Probe(n)
    \/ Reconfigure
    \/ DnsTick

DnsSpec == DnsInit /\ [][DnsNext]_<<dn, ev>>

-----------------------------------------------------------------------------
(* A stream waits for a lookup exactly as long as it is on the list of the  *)
(* lookup of its address, which is then pending (the assertions of          *)
(* connection_dns_remove and dns_found_answer), and no stream is told two   *)
(* results.                                                                 *)
WaitersListed ==
    /\ \A c \in Streams, a \in Addresses :
          c \in dn.cache[a].pend <=> (dn.conn[c].st = "RESOLVING" /\ dn.conn[c].addr = a)
    /\ \A a \in Addresses : dn.cache[a].pend # {} => dn.cache[a].state = "PENDING"
    /\ \A c \in Streams : dn.conn[c].told <= 1

(* A pending lookup has a request in the resolver, whatever answers of      *)
(* lookups that were given up, whatever server failures and whatever        *)
(* configurations came in between; the resolver's queues and counters agree *)
(* with its requests, and every request in flight has something that will   *)
(* move it on.                                                              *)
LookupUnderWay ==
    /\ \A a \in Addresses : dn.cache[a].state = "PENDING" => \E r \in Reqs : ev.req[r].ptr = a
    /\ CountsRight(ev)
    /\ RequestsMove(ev)

(* A failed nameserver comes back: it has a timer or is being probed.       *)
ProbesContinue == DownIsProbed(ev)
=============================================================================

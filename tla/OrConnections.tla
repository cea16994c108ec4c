--------------------------- MODULE OrConnections ---------------------------
(***************************************************************************)
(* Which OR connection a circuit is extended over (connection_or.c), the   *)
(* circuits that wait for a connection to open (circuitbuild.c) and the    *)
(* housekeeping that retires connections (main.c).  The identity map is    *)
(* the code's: a head for each identity and a chain next_with_same_id.     *)
(***************************************************************************)
EXTENDS Integers, Sequences, FiniteSets, SequencesExt

CONSTANT NULL   \* the null pointer: none of the objects of the module

CONSTANTS
    ConnSlots,        \* places in the connection array; 1 .. n
    WaitCircs,        \* circuits that want to be extended
    Identities,       \* identity digests of the routers they extend to
    Addrs,            \* addresses: a router's own is 1, others are old ones
    TIME_BEFORE_OR_CONN_IS_TOO_OLD, NEW_CONN_GRACE_PERIOD,
    OcMaxTime,        \* bound: the clock stops here
    OcMaxConns        \* bound: connections in a behaviour

VARIABLES oc, oc_now

ocVars == <<oc, oc_now>>

NoConn == [state |-> "free", id |-> NULL, real_addr |-> 0, canonical |-> FALSE,
           bad |-> FALSE, marked |-> FALSE, created |-> 0, n_circuits |-> 0,
           next |-> NULL, here |-> FALSE]
NoCirc == [state |-> "none", n_conn |-> NULL, n_hop |-> NULL, marked |-> FALSE]

connection_or_remove_from_identity_map(s, k) ==
    LET id == s.conn[k].id
        before == {j \in ConnSlots : s.conn[j].next = k}
        out == IF id = NULL THEN s
               ELSE IF s.map[id] = k THEN [s EXCEPT !.map[id] = s.conn[k].next]
               ELSE IF before = {} THEN s
               ELSE [s EXCEPT !.conn[Min(before)].next = s.conn[k].next]
    IN  [out EXCEPT !.conn[k].id = NULL, !.conn[k].next = NULL]

connection_or_set_identity_digest(s, k, digest) ==
    LET out == IF s.conn[k].id # NULL
               THEN connection_or_remove_from_identity_map(s, k) ELSE s
    IN  IF s.conn[k].id = digest THEN s
        ELSE [out EXCEPT !.conn[k].id = digest, !.conn[k].next = s.map[digest],
                         !.map[digest] = k]

(* The chain of an identity, in the order of the pointers.                  *)
ChainSeq(s, id) ==
    LET at[i \in ConnSlots] == IF i = 1 THEN s.map[id]
                               ELSE IF at[i - 1] = NULL THEN NULL
                               ELSE s.conn[at[i - 1]].next
    IN  SelectSeq(at, LAMBDA k : k # NULL)
Chain(s, id) == Range(ChainSeq(s, id))

connection_or_is_better(a, b, forgive_new_connections) ==
    LET newer == b.created < a.created
    IN  /\ ~(b.canonical /\ ~a.canonical)
        /\ \/ ~b.canonical /\ a.canonical
           \/ b.n_circuits > 0 /\ a.n_circuits > 0 /\ newer
           \/ b.n_circuits = 0 /\ a.n_circuits = 0 /\ newer
           \/ /\ b.n_circuits = 0 /\ a.n_circuits > 0
              /\ ~(forgive_new_connections
                     /\ oc_now < b.created + NEW_CONN_GRACE_PERIOD)

(* The best of a set of connections: along the chain, one that is better    *)
(* than the best so far takes its place.                                    *)
Best(s, id, S) ==
    FoldLeft(LAMBDA best, k :
               IF k \in S /\ (\/ best = NULL
                             \/ connection_or_is_better(s.conn[k], s.conn[best], FALSE))
               THEN k ELSE best,
             NULL, ChainSeq(s, id))

Usable(s, id) == {k \in Chain(s, id) : ~s.conn[k].marked /\ ~s.conn[k].bad
                                        /\ s.conn[k].state = "OPEN"}

\* Variant: an attempt that is under way is not noticed.
ExtendAlwaysLaunches(s, id, addr) ==
    LET possible == {k \in Usable(s, id) : s.conn[k].canonical \/ s.conn[k].real_addr = addr}
    IN  [conn |-> Best(s, id, possible), launch |-> possible = {}]

(* Connections here have exchanged NETINFO cells, so one at an address that *)
(* is neither canonical nor the one wanted is never used.                   *)
connection_or_get_for_extend(s, id, addr) ==
    LET possible == {k \in Usable(s, id) : s.conn[k].canonical \/ s.conn[k].real_addr = addr}
        inprogress == {k \in Chain(s, id) : /\ ~s.conn[k].marked
                                            /\ s.conn[k].state # "OPEN"
                                            /\ s.conn[k].real_addr = addr}
    IN  [conn |-> Best(s, id, possible),
         launch |-> possible = {} /\ inprogress = {}]

connection_or_group_set_badness(s, id) ==
    LET old == {k \in Chain(s, id) : /\ ~s.conn[k].marked
                     /\ s.conn[k].created + TIME_BEFORE_OR_CONN_IS_TOO_OLD < oc_now}
        s1 == [s EXCEPT !.conn = [k \in ConnSlots |->
                 IF k \in old THEN [@[k] EXCEPT !.bad = TRUE] ELSE @[k]]]
        canonical == {k \in Usable(s1, id) : s1.conn[k].canonical}
        s2 == [s1 EXCEPT !.conn = [k \in ConnSlots |->
                 IF k \in Usable(s1, id) \ canonical /\ canonical # {}
                 THEN [@[k] EXCEPT !.bad = TRUE] ELSE @[k]]]
        best == Best(s2, id, Usable(s2, id))
        worse == {k \in Usable(s2, id) \ {best} :
                    /\ connection_or_is_better(s2.conn[best], s2.conn[k], TRUE)
                    /\ \/ s2.conn[best].canonical
                       \/ s2.conn[k].real_addr = s2.conn[best].real_addr}
    IN  IF best = NULL THEN s2
        ELSE [s2 EXCEPT !.conn = [k \in ConnSlots |->
                IF k \in worse THEN [@[k] EXCEPT !.bad = TRUE] ELSE @[k]]]

connection_or_set_bad_connections(s) ==
    LET after[T \in SUBSET Identities] ==
          IF T = {} THEN s
          ELSE LET id == CHOOSE x \in T : TRUE
               IN  connection_or_group_set_badness(after[T \ {id}], id)
    IN  after[Identities]

(* Pending circuits get the connection that opened, or close with it.       *)
circuit_n_conn_done(s, k, status) ==
    LET pending == {c \in WaitCircs : /\ s.circ[c].state = "OR_WAIT"
                                      /\ ~s.circ[c].marked
                                      /\ s.circ[c].n_hop = s.conn[k].id}
    IN  [s EXCEPT
          !.circ = [c \in WaitCircs |->
             IF c \notin pending THEN @[c]
             ELSE IF status THEN [@[c] EXCEPT !.state = "BUILDING", !.n_conn = k, !.n_hop = NULL]
             ELSE [@[c] EXCEPT !.marked = TRUE]],
          !.conn[k].n_circuits = IF status THEN @ + Cardinality(pending) ELSE @]

connection_or_set_state_open(s, k, guard_refused) ==
    LET open == [s EXCEPT !.conn[k].state = "OPEN"]
    IN  IF s.conn[k].here /\ guard_refused
        THEN [circuit_n_conn_done(open, k, FALSE) EXCEPT !.conn[k].marked = TRUE]
        ELSE circuit_n_conn_done(open, k, TRUE)

(* The last of a connection: circuits that wait for it or use it end, and   *)
(* connection_unlink takes it off the identity map.                         *)
connection_about_to_close_connection(s, k) ==
    LET told == IF s.conn[k].state # "OPEN" THEN circuit_n_conn_done(s, k, FALSE) ELSE s
        unlinked == [told EXCEPT !.circ = [c \in WaitCircs |->
                       IF @[c].n_conn = k THEN [@[c] EXCEPT !.n_conn = NULL, !.marked = TRUE]
                       ELSE @[c]]]
    IN  [connection_or_remove_from_identity_map(unlinked, k) EXCEPT !.conn[k] = NoConn]

-----------------------------------------------------------------------------
OcInit ==
    /\ oc_now = 0
    /\ oc = [conn |-> [k \in ConnSlots |-> NoConn], map |-> [id \in Identities |-> NULL],
             circ |-> [c \in WaitCircs |-> NoCirc], made |-> 0]

Free == {k \in ConnSlots : oc.conn[k].state = "free"}

(* connection_or_connect of a fresh connection; addr 1 is the descriptor's. *)
Launched(s, k, id, addr) ==
    connection_or_set_identity_digest(
      [s EXCEPT !.conn[k] = [NoConn EXCEPT !.state = "CONNECTING", !.real_addr = addr,
                                           !.canonical = (addr = 1), !.created = oc_now,
                                           !.here = TRUE],
                !.made = @ + 1], k, id)

(* circuit_extend, and circuit_handle_first_hop for a client's own circuit. *)
(* connect() may fail at once, and so may a full connection array.          *)
circuit_extend(c, id, addr, connect_ok) ==
    LET get == connection_or_get_for_extend(oc, id, addr)
        waits == [oc EXCEPT !.circ[c] = [NoCirc EXCEPT !.state = "OR_WAIT", !.n_hop = id]]
    IN  /\ oc.circ[c] = NoCirc
        /\ get.launch /\ connect_ok => Free # {} /\ oc.made < OcMaxConns
        /\ oc' = IF get.conn # NULL
                 THEN [oc EXCEPT !.circ[c] = [NoCirc EXCEPT !.state = "BUILDING",
                                                            !.n_conn = get.conn],
                                 !.conn[get.conn].n_circuits = @ + 1]
                 ELSE IF ~get.launch THEN waits
                 ELSE IF ~connect_ok THEN [waits EXCEPT !.circ[c].marked = TRUE]
                 ELSE Launched(waits, Min(Free), id, addr)
        /\ UNCHANGED oc_now

(* A router connects to us; its identity is not known before the handshake. *)
Accepted(addr) ==
    /\ Free # {} /\ oc.made < OcMaxConns
    /\ oc' = [oc EXCEPT !.conn[Min(Free)] =
                 [NoConn EXCEPT !.state = "HANDSHAKING", !.real_addr = addr, !.created = oc_now],
                 !.made = @ + 1]
    /\ UNCHANGED oc_now

(* The handshake ends (module OrHandshake): connection_or_init_conn_from_   *)
(* address and the NETINFO cell, which tells whether real_addr is the       *)
(* router's own.                                                            *)
HandshakeDone(k, id, guard_refused) ==
    LET here == oc.conn[k].here
        named == IF here THEN oc ELSE connection_or_set_identity_digest(oc, k, id)
        told == [named EXCEPT !.conn[k].canonical = (oc.conn[k].real_addr = 1)]
    IN  /\ oc.conn[k].state \in {"CONNECTING", "HANDSHAKING"} /\ ~oc.conn[k].marked
        /\ here => id = oc.conn[k].id
        /\ oc' = connection_or_set_state_open(told, k, guard_refused)
        /\ UNCHANGED oc_now

(* Any error of the socket or of the handshake.                             *)
ConnBroke(k) ==
    /\ oc.conn[k].state # "free" /\ ~oc.conn[k].marked
    /\ oc' = [oc EXCEPT !.conn[k].marked = TRUE]
    /\ UNCHANGED oc_now

close_closeable_connections(k) ==
    /\ oc.conn[k].marked
    /\ oc' = connection_about_to_close_connection(oc, k)
    /\ UNCHANGED oc_now

(* A circuit that was marked, or ends, is freed: it leaves its connection.  *)
OcCircuitFreed(c) ==
    LET k == oc.circ[c].n_conn
        free == [oc EXCEPT !.circ[c] = NoCirc]
    IN  /\ oc.circ[c].marked \/ oc.circ[c].state = "BUILDING"
        /\ oc' = IF k = NULL THEN free ELSE [free EXCEPT !.conn[k].n_circuits = @ - 1]
        /\ UNCHANGED oc_now

(* Every second: badness first, then run_connection_housekeeping closes bad *)
(* connections without circuits.                                            *)
run_connection_housekeeping ==
    LET s == connection_or_set_bad_connections(oc)
    IN  /\ oc_now < OcMaxTime
        /\ oc_now' = oc_now + 1
        /\ oc' = [s EXCEPT !.conn = [k \in ConnSlots |->
                    IF @[k].bad /\ @[k].n_circuits = 0 THEN [@[k] EXCEPT !.marked = TRUE]
                    ELSE @[k]]]

OcNext ==
    \/ \E c \in WaitCircs, id \in Identities, addr \in Addrs, ok \in BOOLEAN :
         circuit_extend(c, id, addr, ok)
    \/ \E addr \in Addrs : Accepted(addr)
    \/ \E k \in ConnSlots :
         \/ \E id \in Identities, refused \in BOOLEAN : HandshakeDone(k, id, refused)
         \/ ConnBroke(k) \/ close_closeable_connections(k)
    \/ \E c \in WaitCircs : OcCircuitFreed(c)
    \/ run_connection_housekeeping

OcSpec == OcInit /\ [][OcNext]_ocVars

-----------------------------------------------------------------------------
(* A circuit never waits for nothing: while it is in OR_WAIT some           *)
(* connection to its next hop is not open yet, and when that one opens or   *)
(* closes circuit_n_conn_done will find the circuit.                        *)
NoOrphanedWait ==
    \A c \in WaitCircs : oc.circ[c].state = "OR_WAIT" /\ ~oc.circ[c].marked =>
      \E k \in ConnSlots : oc.conn[k].id = oc.circ[c].n_hop
                           /\ oc.conn[k].state \in {"CONNECTING", "HANDSHAKING"}

(* Every connection whose identity is known is on the chain of that         *)
(* identity, and the chains hold nothing else.                              *)
IdentityMapOk ==
    \A id \in Identities : Chain(oc, id) = {k \in ConnSlots : oc.conn[k].id = id}

(* n_circuits, on which connections are retired and preferred, counts the   *)
(* circuits of a connection.                                                *)
CircuitsCounted ==
    \A k \in ConnSlots : oc.conn[k].state # "free" =>
      oc.conn[k].n_circuits = Cardinality({c \in WaitCircs : oc.circ[c].n_conn = k})

(* Circuits to one router share the attempt to connect to it: of the        *)
(* connections that are started here for one address at most one is under   *)
(* way.                                                                     *)
OneAttempt ==
    \A j, k \in ConnSlots :
      (/\ oc.conn[j].here /\ oc.conn[k].here
       /\ oc.conn[j].state = "CONNECTING" /\ oc.conn[k].state = "CONNECTING"
       /\ ~oc.conn[j].marked /\ ~oc.conn[k].marked
       /\ oc.conn[j].id = oc.conn[k].id
       /\ oc.conn[j].real_addr = oc.conn[k].real_addr) => j = k

(* Badness spares one: as long as a router has an open connection that is   *)
(* not too old, one stays good for new circuits.                            *)
SparesOne ==
    oc_now' # oc_now =>
      \A id \in Identities :
        LET young(s, k) == /\ s.conn[k].id = id /\ s.conn[k].state = "OPEN"
                           /\ ~s.conn[k].marked /\ ~s.conn[k].bad
                           /\ s.conn[k].created + TIME_BEFORE_OR_CONN_IS_TOO_OLD >= oc_now
        IN  (\E k \in ConnSlots : young(oc, k)) => \E k \in ConnSlots : young(oc', k)
=============================================================================

--------------------------- MODULE HiddenService ---------------------------
(***************************************************************************)
(* A hidden service, one client of it, the relays between them and the     *)
(* directory that holds its descriptor: rendservice.c, rendclient.c,       *)
(* rendmid.c, the client cache of rendcommon.c and the rendezvous half of  *)
(* connection_ap_handshake_attach_circuit.  A circuit is one record with   *)
(* the state of its origin, the state of the relay it ends at, and the     *)
(* relay cells under way in both directions.  A Diffie-Hellman half is     *)
(* named by the serial number of the circuit that made it, which is also   *)
(* its rendezvous cookie; an introduction key by a serial number too.      *)
(* Relays stay known, clients need no authorization, and circuits are      *)
(* built anew (no open circuit is taken over).                             *)
(***************************************************************************)
EXTENDS Integers, Sequences, FiniteSets, FiniteSetsExt

CONSTANT NULL   \* the null pointer: none of the objects of the module

CONSTANTS HsRelays, HsSlots,           \* relays, and records for circuits
          NUM_INTRO_POINTS, INTRO_EXTRA, MAX_INTRO_CIRCS, MAX_REND_FAILURES,
          HsDirs,                      \* number of responsible directories
          MaxSerial, MaxStreams,       \* circuits launched, streams begun
          MaxTroubles                  \* circuits that fail, relays that die

VARIABLE hs

Cell(k, v) == [kind |-> k, v |-> v]
Alive(s, c) == s.circ[c] # NULL /\ s.circ[c].orig
Mine(s, purposes) == {c \in HsSlots : Alive(s, c) /\ s.circ[c].pur \in purposes}
At(s, c) == s.circ[c].at
Down(s, c, m) == IF s.circ[c].orig THEN [s EXCEPT !.circ[c].down = Append(@, m)] ELSE s
Up(s, c, m) == IF s.circ[c].rel THEN [s EXCEPT !.circ[c].up = Append(@, m)] ELSE s
Gone(s, c) == IF s.circ[c].orig \/ s.circ[c].rel THEN s ELSE [s EXCEPT !.circ[c] = NULL]

\* Intro points of the cached descriptor: none when there is no entry.
CachedIntros(s) == IF s.cache = NULL THEN {} ELSE s.cache.nodes

(***************************************************************************)
(* Launching.  When no record is free the launch fails.                    *)
(***************************************************************************)
CanLaunch(s) == s.serial < MaxSerial /\ \E c \in HsSlots : s.circ[c] = NULL

circuit_launch_by_extend_info(s, pur, at, key, fails) ==
    LET c == Min({d \in HsSlots : s.circ[d] = NULL})
    IN  [s EXCEPT !.serial = @ + 1,
                  !.circ[c] = [pur |-> pur, at |-> at, open |-> FALSE, orig |-> TRUE,
                               key |-> key, no |-> s.serial, fails |-> fails,
                               pend |-> IF pur = "S_CONNECT_REND" THEN key ELSE NULL,
                               rel |-> FALSE, mid |-> "OR", tok |-> NULL, splice |-> NULL,
                               up |-> <<>>, down |-> <<>>]]

(***************************************************************************)
(* The client: the descriptor.                                             *)
(***************************************************************************)
rend_client_desc_trynow(s) ==
    IF s.stream # "RENDDESC_WAIT" THEN s
    ELSE [s EXCEPT !.stream = IF CachedIntros(s) # {} THEN "CIRCUIT_WAIT" ELSE "failed"]

rend_client_refetch_v2_renddesc(s) ==
    IF CachedIntros(s) # {} THEN s
    ELSE IF s.asked < HsDirs THEN [s EXCEPT !.asked = @ + 1, !.fetches = @ + 1]
    ELSE rend_client_desc_trynow(s)

rend_cache_store_v2_desc_as_client(s) ==
    IF s.cache # NULL /\ s.cache.ver >= s.dir.ver THEN s
    ELSE [s EXCEPT !.cache = s.dir]

\* The number of intro points left is positive iff the result's cache has some.
rend_client_remove_intro_point(s, at) ==
    IF CachedIntros(s) = {} THEN rend_client_refetch_v2_renddesc(s)
    ELSE LET s1 == [s EXCEPT !.cache.nodes = {n \in @ : n.at # at}]
             s2 == rend_client_refetch_v2_renddesc(s1)
         IN  IF CachedIntros(s1) # {} THEN s1
             ELSE IF s2.stream = "CIRCUIT_WAIT" THEN [s2 EXCEPT !.stream = "RENDDESC_WAIT"]
             ELSE s2

(***************************************************************************)
(* Closing.                                                                *)
(***************************************************************************)
rend_service_relaunch_rendezvous(s, c) ==
    LET o == s.circ[c]
    IN  IF o.fails > MAX_REND_FAILURES \/ o.pend = NULL \/ ~CanLaunch(s) THEN s
        ELSE circuit_launch_by_extend_info([s EXCEPT !.circ[c].pend = NULL],
                                           "S_CONNECT_REND", o.at, o.pend, o.fails + 1)

circuit_mark_for_close(s, c) ==
    IF ~Alive(s, c) THEN s
    ELSE LET o == s.circ[c]
             s1 == IF ~o.open /\ o.pur = "S_CONNECT_REND"
                   THEN rend_service_relaunch_rendezvous(s, c) ELSE s
             s2 == IF o.pur = "C_INTRODUCE_ACK_WAIT"
                   THEN rend_client_remove_intro_point(s1, o.at) ELSE s1
             s3 == IF o.pur = "C_REND_JOINED" /\ s2.stream = "open"
                   THEN [s2 EXCEPT !.stream = "closed"] ELSE s2
         IN  Gone([Up(s3, c, Cell("DESTROY", NULL)) EXCEPT !.circ[c].orig = FALSE,
                                                          !.circ[c].down = <<>>], c)

CloseAll(s, C) == [s EXCEPT !.circ = [c \in HsSlots |->
                     IF c \in C THEN circuit_mark_for_close(s, c).circ[c] ELSE @[c]]]

\* At the relay: the origin is told, and a spliced circuit closes too.
MidClose1(s, c) == Gone([Down(s, c, Cell("DESTROY", NULL)) EXCEPT !.circ[c].rel = FALSE,
                                                                 !.circ[c].up = <<>>], c)
\* Variant: the spliced circuit stays.
MidCloseAlone(s, c) == MidClose1(s, c)

MidClose(s, c) ==
    LET d == s.circ[c].splice
    IN  IF d # NULL /\ s.circ[d] # NULL /\ s.circ[d].rel /\ s.circ[d].splice = c
        THEN MidClose1(MidClose1(s, d), c) ELSE MidClose1(s, c)

(***************************************************************************)
(* The client: circuits for the stream.                                    *)
(***************************************************************************)
RendPurposes == <<"C_ESTABLISH_REND", "C_REND_READY", "C_REND_READY_INTRO_ACKED",
                  "C_REND_JOINED">>
IntroPurposes == <<"C_INTRODUCING", "C_INTRODUCE_ACK_WAIT">>

circuit_get_best(s, purposes, C) ==
    LET rank(c) == CHOOSE i \in 1..Len(purposes) : purposes[i] = s.circ[c].pur
    IN  IF C = {} THEN NULL
        ELSE CHOOSE c \in C : \A d \in C : rank(c) > rank(d) \/ (rank(c) = rank(d) /\ c <= d)

\* State after a circuit is found or launched for the stream, and that circuit.
RendCirc(s) ==
    LET c == circuit_get_best(s, RendPurposes, Mine(s, {RendPurposes[i] : i \in 1..4}))
    IN  IF c # NULL THEN {[s |-> s, c |-> c]}
        ELSE IF ~CanLaunch(s) THEN {[s |-> s, c |-> NULL]}
        ELSE {[s |-> circuit_launch_by_extend_info(s, "C_ESTABLISH_REND", r, NULL, 0),
               c |-> NULL] : r \in HsRelays}

\* An introduction circuit that is slow to build may be passed over.
IntroCirc(s) ==
    LET all == Mine(s, {"C_INTRODUCING", "C_INTRODUCE_ACK_WAIT"})
        slow == {c \in all : ~s.circ[c].open}
        found == {circuit_get_best(s, IntroPurposes, C) : C \in {all, all \ slow}}
        new == IF CachedIntros(s) = {}
               THEN {[s |-> [rend_client_refetch_v2_renddesc(s) EXCEPT
                                !.stream = "RENDDESC_WAIT"], c |-> NULL]}
               ELSE IF ~CanLaunch(s) THEN {[s |-> s, c |-> NULL]}
               ELSE {[s |-> circuit_launch_by_extend_info(s, "C_INTRODUCING", n.at, NULL, 0),
                      c |-> NULL] : n \in CachedIntros(s)}
    IN  UNION {IF c = NULL THEN new ELSE {[s |-> s, c |-> c]} : c \in found}

rend_client_send_introduction(s, i, r) ==
    LET key == {n \in CachedIntros(s) : n.at = At(s, i)}
    IN  IF key = {}
        THEN [circuit_mark_for_close(circuit_mark_for_close(s, i), r) EXCEPT !.stream = "failed"]
        ELSE [Up(s, i, Cell("INTRODUCE1", [key |-> (CHOOSE n \in key : TRUE).key,
                                           rp |-> At(s, r), dh |-> s.circ[r].no]))
                EXCEPT !.circ[r].pend = s.circ[r].no,
                       !.circ[i].pur = "C_INTRODUCE_ACK_WAIT"]

connection_ap_handshake_attach_circuit(s) ==
    LET joined == {c \in Mine(s, {"C_REND_JOINED"}) : s.circ[c].open}
        waiting(t) == {c \in Mine(t, {"C_INTRODUCE_ACK_WAIT"}) : t.circ[c].open}
        Step(x) ==
            IF x.c # NULL /\ x.s.circ[x.c].pur = "C_REND_READY_INTRO_ACKED" THEN {x.s}
            ELSE IF waiting(x.s) # {} THEN {CloseAll(x.s, Mine(x.s, {"C_INTRODUCING"}))}
            ELSE {IF /\ x.c # NULL /\ y.c # NULL /\ y.s.circ[x.c].pur = "C_REND_READY"
                     /\ y.s.circ[y.c].open
                  THEN rend_client_send_introduction(y.s, y.c, x.c) ELSE y.s : y \in IntroCirc(x.s)}
    IN  IF s.stream # "CIRCUIT_WAIT" THEN {s}
        ELSE IF joined # {} THEN {[s EXCEPT !.stream = "open"]}
        ELSE UNION {Step(x) : x \in RendCirc(s)}

rend_client_introduction_acked(s, c, nak) ==
    LET r == Mine(s, {"C_REND_READY"})
        acked == IF r = {} THEN s ELSE [s EXCEPT !.circ[Min(r)].pur = "C_REND_READY_INTRO_ACKED"]
        s1 == rend_client_remove_intro_point([s EXCEPT !.circ[c].pur = "C_INTRODUCING"], At(s, c))
    IN  IF s.circ[c].pur # "C_INTRODUCE_ACK_WAIT" THEN {circuit_mark_for_close(s, c)}
        ELSE IF ~nak THEN {circuit_mark_for_close(
                              [acked EXCEPT !.circ[c].pur = "C_INTRODUCE_ACKED"], c)}
        ELSE IF CachedIntros(s1) = {} THEN {s1}
        ELSE {LET s2 == circuit_mark_for_close(s1, c)
              IN  IF CanLaunch(s2)
                  THEN circuit_launch_by_extend_info(s2, "C_INTRODUCING", n.at, NULL, 0)
                  ELSE s2 : n \in CachedIntros(s1)}

rend_client_rendezvous_acked(s, c) ==
    IF s.circ[c].pur # "C_ESTABLISH_REND" THEN {circuit_mark_for_close(s, c)}
    ELSE connection_ap_handshake_attach_circuit([s EXCEPT !.circ[c].pur = "C_REND_READY"])

rend_client_receive_rendezvous(s, c, dh) ==
    IF \/ s.circ[c].pur \notin {"C_REND_READY", "C_REND_READY_INTRO_ACKED"}
       \/ s.circ[c].pend = NULL \/ dh # s.circ[c].pend
    THEN {circuit_mark_for_close(s, c)}
    ELSE connection_ap_handshake_attach_circuit(
            [s EXCEPT !.circ[c].pur = "C_REND_JOINED", !.circ[c].pend = NULL])

(***************************************************************************)
(* The service.                                                            *)
(***************************************************************************)
find_intro_circuit(s, n) == {c \in Mine(s, {"S_INTRO", "S_ESTABLISH_INTRO"}) : At(s, c) = n.at}

count_established_intro_points(s) ==
    Cardinality({c \in Mine(s, {"S_INTRO", "S_ESTABLISH_INTRO"}) : s.circ[c].open})

rend_service_intro_has_opened(s, c) ==
    IF count_established_intro_points(s) > NUM_INTRO_POINTS
    THEN [s EXCEPT !.circ[c].pur = "C_GENERAL"]
    ELSE Up(s, c, Cell("ESTABLISH_INTRO", s.circ[c].key))

rend_service_intro_established(s, c) ==
    IF s.circ[c].pur # "S_ESTABLISH_INTRO" THEN circuit_mark_for_close(s, c)
    ELSE [s EXCEPT !.circ[c].pur = "S_INTRO", !.dirty = TRUE]

\* The request comes on an introduction circuit and is sealed to its key.
ForThisCircuit(s, c, m) == s.circ[c].pur = "S_INTRO" /\ m.key = s.circ[c].key

\* It is refused as a replay, or when no circuit can be launched to the
\* rendezvous point.
rend_service_introduce(s, c, m) ==
    IF ~ForThisCircuit(s, c, m) \/ m.dh \in s.seen THEN s
    ELSE LET s1 == [s EXCEPT !.seen = @ \cup {m.dh}]
         IN  IF CanLaunch(s1)
             THEN circuit_launch_by_extend_info(s1, "S_CONNECT_REND", m.rp, m.dh, 0) ELSE s1

rend_service_rendezvous_has_opened(s, c) ==
    [Up(s, c, Cell("RENDEZVOUS1", s.circ[c].pend)) EXCEPT
        !.circ[c].pend = NULL, !.circ[c].pur = "S_REND_JOINED"]

\* Intro points whose circuit is gone are dropped; new ones are chosen among the
\* other relays and a circuit is launched to each.
rend_services_introduce(s) ==
    LET dead == {n \in s.nodes : find_intro_circuit(s, n) = {}}
        kept == s.nodes \ dead
        dirty == s.dirty \/ \E n \in dead, m \in s.desc : m.at = n.at
        want == IF kept = {} THEN NUM_INTRO_POINTS + INTRO_EXTRA ELSE NUM_INTRO_POINTS
        free == HsRelays \ {n.at : n \in s.nodes}
        Add(t, r) == LET t1 == [t EXCEPT !.launched = @ + 1,
                                         !.nodes = @ \cup {[at |-> r, key |-> t.serial]}]
                     IN  IF CanLaunch(t)
                         THEN circuit_launch_by_extend_info(t1, "S_ESTABLISH_INTRO", r,
                                                            t.serial, 0)
                         ELSE t1
        base == [s EXCEPT !.nodes = kept, !.dirty = dirty]
    IN  IF s.launched >= MAX_INTRO_CIRCS THEN {s}
        ELSE IF dead = {} /\ Cardinality(s.nodes) >= NUM_INTRO_POINTS
        THEN {[s EXCEPT !.launched = 0]}
        ELSE LET k == Min({Max({want - Cardinality(kept), 0}), Cardinality(free)})
             IN  {FoldSet(LAMBDA r, t : Add(t, r), base, R) :
                    R \in {R \in SUBSET free : Cardinality(R) = k}}

rend_service_update_descriptor(s) ==
    {n \in s.nodes : \E c \in find_intro_circuit(s, n) : s.circ[c].pur = "S_INTRO"}

upload_service_descriptor(s) ==
    LET d == rend_service_update_descriptor(s)
    IN  [s EXCEPT !.desc = d, !.dirty = FALSE,
                  !.dir = [nodes |-> d, ver |-> IF @ = NULL THEN 1 ELSE @.ver + 1]]

(***************************************************************************)
(* The relays.                                                             *)
(***************************************************************************)
MidWith(s, at, mid, tok) == {c \in HsSlots : /\ s.circ[c] # NULL /\ s.circ[c].rel
                                             /\ At(s, c) = at /\ s.circ[c].mid = mid
                                             /\ s.circ[c].tok = tok}

rend_mid_establish_intro(s, c, key) ==
    IF s.circ[c].mid # "OR" THEN MidClose(s, c)
    ELSE LET s1 == FoldSet(LAMBDA d, t : MidClose(t, d), s, MidWith(s, At(s, c), "INTRO", key))
         IN  [Down(s1, c, Cell("INTRO_ESTABLISHED", NULL)) EXCEPT
                !.circ[c].mid = "INTRO", !.circ[c].tok = key]

rend_mid_introduce(s, c, m) ==
    LET i == MidWith(s, At(s, c), "INTRO", m.key)
    IN  IF s.circ[c].mid # "OR" \/ i = {} THEN Down(s, c, Cell("INTRODUCE_ACK", TRUE))
        ELSE Down(Down(s, Min(i), Cell("INTRODUCE2", m)), c, Cell("INTRODUCE_ACK", FALSE))

rend_mid_establish_rendezvous(s, c, cookie) ==
    IF s.circ[c].mid # "OR" \/ MidWith(s, At(s, c), "WAITING", cookie) # {} THEN MidClose(s, c)
    ELSE [Down(s, c, Cell("RENDEZVOUS_ESTABLISHED", NULL)) EXCEPT
            !.circ[c].mid = "WAITING", !.circ[c].tok = cookie]

rend_mid_rendezvous(s, c, dh) ==
    LET w == MidWith(s, At(s, c), "WAITING", dh)
    IN  IF s.circ[c].mid # "OR" \/ w = {} THEN MidClose(s, c)
        ELSE LET d == Min(w)
             IN  [Down(s, d, Cell("RENDEZVOUS2", dh)) EXCEPT
                    !.circ[c].mid = "JOINED", !.circ[d].mid = "JOINED",
                    !.circ[c].splice = d, !.circ[d].splice = c]

(***************************************************************************)
(* Steps.                                                                  *)
(***************************************************************************)
HsInit ==
    hs = [circ |-> [c \in HsSlots |-> NULL], serial |-> 1, nodes |-> {}, launched |-> 0,
          desc |-> {}, dirty |-> FALSE, seen |-> {}, dir |-> NULL, cache |-> NULL,
          stream |-> "none", asked |-> 0, fetches |-> 0, troubles |-> 0, begun |-> 0]

\* The last hop answers: the circuit is open, at its origin and at the relay.
circuit_has_opened(c) ==
    /\ Alive(hs, c) /\ ~hs.circ[c].open
    /\ LET s == [hs EXCEPT !.circ[c].open = TRUE, !.circ[c].rel = TRUE]
       IN  CASE s.circ[c].pur = "C_ESTABLISH_REND" ->
                  hs' = Up(s, c, Cell("ESTABLISH_RENDEZVOUS", s.circ[c].no))
             [] s.circ[c].pur = "C_INTRODUCING" ->
                  hs' \in connection_ap_handshake_attach_circuit(s)
             [] s.circ[c].pur = "S_ESTABLISH_INTRO" ->
                  hs' = rend_service_intro_has_opened(s, c)
             [] s.circ[c].pur = "S_CONNECT_REND" ->
                  hs' = rend_service_rendezvous_has_opened(s, c)

\* A circuit takes too long to open, or waits too long for an answer.
circuit_expire_building(c) ==
    /\ hs.troubles < MaxTroubles /\ Alive(hs, c)
    /\ \/ ~hs.circ[c].open
       \/ hs.circ[c].pur \in {"C_ESTABLISH_REND", "C_INTRODUCING", "S_ESTABLISH_INTRO",
                              "C_REND_READY_INTRO_ACKED", "C_INTRODUCE_ACK_WAIT"}
    /\ hs' = circuit_mark_for_close([hs EXCEPT !.troubles = @ + 1], c)

\* A circuit that is no longer of use closes.
circuit_expire_old_circuits(c) ==
    /\ Alive(hs, c) /\ hs.circ[c].open
    /\ \/ hs.circ[c].pur = "C_GENERAL"
       \/ hs.circ[c].pur = "C_REND_JOINED" /\ hs.stream # "open"
       \/ hs.circ[c].pur = "C_REND_READY" /\ hs.circ[c].pend # NULL /\ hs.stream # "CIRCUIT_WAIT"
    /\ hs' = circuit_mark_for_close(hs, c)

AtOrigin(c) ==
    /\ Alive(hs, c) /\ hs.circ[c].down # <<>>
    /\ LET m == Head(hs.circ[c].down)
           s == [hs EXCEPT !.circ[c].down = Tail(@)]
       IN  CASE m.kind = "DESTROY" -> hs' = circuit_mark_for_close(s, c)
             [] m.kind = "INTRO_ESTABLISHED" -> hs' = rend_service_intro_established(s, c)
             [] m.kind = "INTRODUCE2" -> hs' = rend_service_introduce(s, c, m.v)
             [] m.kind = "INTRODUCE_ACK" -> hs' \in rend_client_introduction_acked(s, c, m.v)
             [] m.kind = "RENDEZVOUS_ESTABLISHED" -> hs' \in rend_client_rendezvous_acked(s, c)
             [] m.kind = "RENDEZVOUS2" -> hs' \in rend_client_receive_rendezvous(s, c, m.v)

AtRelay(c) ==
    /\ hs.circ[c] # NULL /\ hs.circ[c].rel /\ hs.circ[c].up # <<>>
    /\ LET m == Head(hs.circ[c].up)
           s == [hs EXCEPT !.circ[c].up = Tail(@)]
       IN  hs' = CASE m.kind = "DESTROY" -> MidClose(s, c)
                   [] m.kind = "ESTABLISH_INTRO" -> rend_mid_establish_intro(s, c, m.v)
                   [] m.kind = "INTRODUCE1" -> rend_mid_introduce(s, c, m.v)
                   [] m.kind = "ESTABLISH_RENDEZVOUS" -> rend_mid_establish_rendezvous(s, c, m.v)
                   [] m.kind = "RENDEZVOUS1" -> rend_mid_rendezvous(s, c, m.v)

\* A relay goes away and comes back with no circuits.
RelayRestarts(r) ==
    /\ hs.troubles < MaxTroubles
    /\ hs' = FoldSet(LAMBDA c, t : IF t.circ[c] # NULL /\ t.circ[c].rel THEN MidClose(t, c) ELSE t,
                     [hs EXCEPT !.troubles = @ + 1], {c \in HsSlots : hs.circ[c] # NULL
                                                                    /\ At(hs, c) = r})

Introduce == hs' \in rend_services_introduce(hs) /\ hs' # hs
rend_consider_services_upload == hs.dirty /\ hs' = upload_service_descriptor(hs)

\* A program asks for the service.
StreamBegins ==
    /\ hs.stream \in {"none", "failed", "closed"} /\ hs.begun < MaxStreams
    /\ IF CachedIntros(hs) # {}
       THEN hs' \in connection_ap_handshake_attach_circuit([hs EXCEPT !.stream = "CIRCUIT_WAIT",
                                                                       !.begun = @ + 1])
       ELSE hs' = rend_client_refetch_v2_renddesc([hs EXCEPT !.stream = "RENDDESC_WAIT",
                                                         !.begun = @ + 1])

AttachPending == hs' \in connection_ap_handshake_attach_circuit(hs) /\ hs' # hs

DescriptorFetched ==
    /\ hs.fetches > 0
    /\ LET s == [hs EXCEPT !.fetches = @ - 1]
       IN  hs' = IF hs.dir = NULL THEN rend_client_refetch_v2_renddesc(s)
                 ELSE rend_client_desc_trynow(rend_cache_store_v2_desc_as_client(s))

\* The periods end that limit how often directories are asked and circuits launched.
PeriodEnds == hs.asked + hs.launched > 0 /\ hs' = [hs EXCEPT !.asked = 0, !.launched = 0]

connection_ap_expire_beginning ==
    /\ hs.stream \in {"RENDDESC_WAIT", "CIRCUIT_WAIT"} /\ hs' = [hs EXCEPT !.stream = "failed"]

HsNext ==
    \/ \E c \in HsSlots : \/ circuit_has_opened(c) \/ circuit_expire_building(c)
                          \/ circuit_expire_old_circuits(c) \/ AtOrigin(c) \/ AtRelay(c)
    \/ \E r \in HsRelays : RelayRestarts(r)
    \/ Introduce \/ rend_consider_services_upload \/ StreamBegins \/ AttachPending
    \/ DescriptorFetched \/ PeriodEnds \/ connection_ap_expire_beginning

HsSpec == HsInit /\ [][HsNext]_hs

(***************************************************************************)
(* Properties.                                                             *)
(***************************************************************************)
\* A client circuit that is joined (rendclient.c:642) ends at a relay that has
\* spliced it to the circuit of the service that made the other half of the same
\* key exchange, as long as both ends stand; no circuit stays spliced to one that
\* is gone; and one introduction never has two circuits of the service carrying
\* its half of the handshake.
JoinedToService ==
    /\ \A c \in HsSlots : hs.circ[c] # NULL /\ hs.circ[c].rel /\ hs.circ[c].mid = "JOINED" =>
          LET d == hs.circ[hs.circ[c].splice]
          IN  d # NULL /\ d.rel /\ d.mid = "JOINED" /\ d.splice = c
    /\ \A c \in Mine(hs, {"C_REND_JOINED"}) : hs.circ[c].rel =>
          /\ hs.circ[c].mid = "JOINED" /\ hs.circ[c].splice # NULL
          /\ LET d == hs.circ[hs.circ[c].splice]
             IN  d # NULL /\ d.splice = c /\ d.key = hs.circ[c].no
                 /\ (d.orig => d.pur = "S_REND_JOINED")
    /\ \A c, d \in Mine(hs, {"S_CONNECT_REND", "S_REND_JOINED"}) :
          hs.circ[c].key = hs.circ[d].key /\ c # d =>
             hs.circ[c].pend = NULL \/ hs.circ[d].pend = NULL

\* Every intro point of the published descriptor that the service still counts
\* on answers for the key listed: its circuit stands at the relay under that
\* key, unless the end of the circuit is on its way to the service.
PublishedAnswer ==
    \A n \in hs.desc \cap hs.nodes : \A c \in find_intro_circuit(hs, n) :
        hs.circ[c].pur = "S_INTRO" =>
            \/ hs.circ[c].key = n.key /\ hs.circ[c].rel /\ hs.circ[c].mid = "INTRO"
            \/ \E i \in 1..Len(hs.circ[c].down) : hs.circ[c].down[i].kind = "DESTROY"
=============================================================================

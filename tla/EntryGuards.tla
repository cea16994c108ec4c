----------------------------- MODULE EntryGuards -----------------------------
(***************************************************************************)
(* How a client picks the routers of a circuit (or/circuitbuild.c, with    *)
(* the router sets, families and random choices of or/routerlist.c): the   *)
(* list of entry guards, its upkeep while routers come and go, its copy in *)
(* the state file, bridges, and the choice of exit, entry and middle hops. *)
(*                                                                         *)
(* A router is its identity; what its descriptor and the consensus say of  *)
(* it is the table Info, except for what changes: the descriptors we have, *)
(* the routers thought to run, the ones flagged Guard.  Operators named    *)
(* after functions that choose at random give the set of their outcomes.   *)
(***************************************************************************)
EXTENDS Naturals, Sequences, SequencesExt, FiniteSets, FiniteSetsExt

CONSTANT NULL   \* the null pointer: none of the objects of the module

CONSTANTS
  Order,        \* the routers, in the order of the router list
  Info(_),      \* what a router's descriptor and its consensus entry say
  NamedId(_),   \* the consensus' binding of a nickname: an identity, NULL or "unnamed"
  Me,           \* this node's own router, or NULL
  Options_,     \* the configurations it may be given
  Streams_, CanUse(_), Predicted, Handles(_), \* waiting streams and predicted ports, and who can serve them
  Circs,        \* the circuits it may want
  StateLines,   \* what the state file may hold at the first start
  RETRY_BELOW, RETRY_WAIT, \* down for less than RETRY_BELOW[i]: retry after RETRY_WAIT[i]
  ENTRY_GUARD_REMOVE_AFTER, MONTH, OBSOLETE_AFTER,
  Changing,     \* the routers news comes of
  NumBridgeAuths, GdMaxTime, GdMaxRestarts

VARIABLE gd

gvars == <<gd>>
Routers_ == ToSet(Order)
Kept_(set) == SelectSeq(Order, LAMBDA r : r \in set)

-----------------------------------------------------------------------------
(* Names, router sets and families *)

\* A reference is <<"$", identity>> or <<"nick", name>>; an entry of a router
\* set may also be <<"{}", country>> or <<"addr", network>>.
router_get_by_hexdigest(s, ref) == IF ref[2] \in s.known THEN ref[2] ELSE NULL

router_nickname_matches(r, ref) ==
  \/ ref[1] = "nick" /\ Info(r).name = ref[2]
  \/ ref[1] = "$" /\ r = ref[2]

router_get_by_nickname(s, ref) ==
  LET bound   == NamedId(ref[2])
      matches == SelectSeq(Kept_(s.known), LAMBDA r : Info(r).name = ref[2])
      running == SelectSeq(matches, LAMBDA r : r \in s.up)
  IN CASE ref[1] = "$"      -> router_get_by_hexdigest(s, ref)
       [] ref[2] = "Unnamed" -> NULL
       [] Me # NULL /\ Info(Me).name = ref[2] -> Me
       [] bound \in Routers_ -> IF bound \in s.known THEN bound ELSE NULL
       [] bound = "unnamed"  -> NULL
       [] running # <<>>     -> Last(running)
       [] matches # <<>>     -> Head(matches)
       [] OTHER              -> NULL

routerset_contains(set, r) ==
  LET Has(kind, x) == <<kind, x>> \in ToSet(set)
  IN IF set = NULL THEN 0
     ELSE IF Has("nick", Info(r).name) \/ Has("$", r) THEN 4
     ELSE IF Has("addr", Info(r).net) THEN 3
     ELSE IF Has("{}", Info(r).country) THEN 2 ELSE 0

routerset_union(a, b) == (IF a = NULL THEN <<>> ELSE a) \o (IF b = NULL THEN <<>> ELSE b)

routerset_is_list(set) == \A e \in ToSet(set) : e[1] \in {"$", "nick"}

\* In the order of the set when it is a list of routers, and of the router
\* list otherwise.
routerset_get_all_routers(s, set) ==
  IF set = NULL THEN <<>>
  ELSE IF routerset_is_list(set)
       THEN SelectSeq([i \in DOMAIN set |-> router_get_by_nickname(s, set[i])],
                      LAMBDA r : r # NULL)
       ELSE SelectSeq(Kept_(s.known), LAMBDA r : routerset_contains(set, r) > 0)

routersets_get_disjunction(s, source, include, exclude) ==
  LET Wanted(r) == IF include = NULL \/ include = <<>> THEN 1
                   ELSE routerset_contains(include, r)
  IN {r \in source \cap s.up : Wanted(r) > 0 /\ Wanted(r) >= routerset_contains(exclude, r)}

routers_in_same_network_family(r1, r2) == Info(r1).net = Info(r2).net

router_nickname_is_in_list(r, list) == \E n \in list : router_nickname_matches(r, n)

routers_in_same_family(o, r1, r2) ==
  \/ o.Distinct /\ routers_in_same_network_family(r1, r2)
  \/ /\ router_nickname_is_in_list(r2, Info(r1).family)
     /\ router_nickname_is_in_list(r1, Info(r2).family)
  \/ \E f \in o.Families : /\ router_nickname_is_in_list(r1, f)
                           /\ router_nickname_is_in_list(r2, f)

add_nickname_list_to_smartlist(s, list) ==
  {router_get_by_nickname(s, n) : n \in list} \ {NULL}

routerlist_add_family(s, r) ==
  (IF s.o.Distinct THEN {x \in s.known \ {r} : routers_in_same_network_family(r, x)} ELSE {})
  \cup {x \in add_nickname_list_to_smartlist(s, Info(r).family) :
          router_nickname_is_in_list(r, Info(x).family)}
  \cup UNION {add_nickname_list_to_smartlist(s, f) :
                f \in {g \in s.o.Families : router_nickname_is_in_list(r, g)}}

WithFamily(s, rs) == rs \cup UNION {routerlist_add_family(s, r) : r \in rs}

-----------------------------------------------------------------------------
(* Random choices *)

\* What a caller may demand: "uptime", "capacity", "guard".
router_is_unreliable(s, r, needs) ==
  \/ "uptime" \in needs /\ ~ Info(r).stable
  \/ "capacity" \in needs /\ ~ Info(r).fast
  \/ "guard" \in needs /\ r \notin s.gflag

\* The routers a bandwidth-weighted draw can give.  Exits and guards lose
\* their whole weight where they hold no more than a third of the bandwidth;
\* the draw can come out as 0, and then takes the first of the list.
smartlist_choose_by_bandwidth(s, set, rule) ==
  LET Total(q)  == FoldSet(LAMBDA r, n : Info(r).bw + n, 0, q)
      all       == Total(set)
      scarceX   == rule # "exit" /\ 3 * Total({r \in set : Info(r).exit}) <= all
      scarceG   == rule # "guard" /\ 3 * Total({r \in set : r \in s.gflag}) <= all
      Weighs(r) == /\ Info(r).bw > 0
                   /\ ~ (Info(r).exit /\ scarceX)
                   /\ ~ (r \in s.gflag /\ scarceG)
  IN IF set = {} THEN {NULL}
     ELSE IF all = 0 THEN set
     ELSE {r \in set : Weighs(r)} \cup {Head(Kept_(set))}

smartlist_choose(set) == IF set = {} THEN {NULL} ELSE set

router_add_running_routers_to_smartlist(s, needs, allowInvalid) ==
  {r \in s.known \cap s.up : ~ Info(r).bridge /\ (Info(r).valid \/ allowInvalid)
                               /\ ~ router_is_unreliable(s, r, needs)}

Choosable(s, excluded, needs, allowInvalid) ==
  {r \in router_add_running_routers_to_smartlist(s, needs, allowInvalid)
           \ (excluded \cup IF Me \in s.known THEN WithFamily(s, {Me}) ELSE {}) :
     /\ ~ (s.o.ExcludeSingleHop /\ Info(r).singlehop)
     /\ routerset_contains(s.o.Exclude, r) = 0}
RECURSIVE router_choose_random_node(_, _, _, _)
ChosenOf(set, s, excluded, needs, allowInvalid) ==
  IF set = {} /\ needs # {}
  THEN router_choose_random_node(s, excluded, {}, allowInvalid)
  ELSE IF needs \cap {"capacity", "guard"} # {}
  THEN smartlist_choose_by_bandwidth(s, set, IF "guard" \in needs THEN "guard" ELSE "none")
  ELSE smartlist_choose(set)
router_choose_random_node(s, excluded, needs, allowInvalid) ==
  ChosenOf(Choosable(s, excluded, needs, allowInvalid), s, excluded, needs, allowInvalid)

-----------------------------------------------------------------------------
(* Entry guards *)

start_of_month(t) == t - (t % MONTH)

\* A guard of the list.  bad: bad_since, down: unreachable_since, 0 for never.
Guard_(r, now) == [id |-> r, bad |-> 0, down |-> 0, tried |-> 0, can_retry |-> FALSE,
                   contact |-> FALSE, date |-> start_of_month(now), version |-> "good"]

entry_guards_changed(s) == [s EXCEPT !.dirty = TRUE, !.due = TRUE]

is_an_entry_guard(s, r) == \E i \in DOMAIN s.list : s.list[i].id = r

entry_list_can_grow(o) == ~ o.StrictEntry /\ ~ o.UseBridges

entry_is_time_to_retry(e, now) ==
  LET step == {i \in DOMAIN RETRY_BELOW : now - e.down < RETRY_BELOW[i]}
      wait == RETRY_WAIT[IF step = {} THEN Len(RETRY_WAIT) ELSE Min(step)]
  IN e.tried < e.down \/ now > e.tried + wait

entry_is_live(s, e, needs, assumeReachable) ==
  /\ e.bad = 0
  /\ \/ assumeReachable \/ e.can_retry \/ e.down = 0
     \/ entry_is_time_to_retry(e, s.now)
  /\ e.id \in s.known
  /\ Info(e.id).bridge = s.o.UseBridges
  /\ ~ router_is_unreliable(s, e.id, needs)
  /\ Info(e.id).allowed

num_live_entry_guards(s) ==
  Cardinality({i \in DOMAIN s.list : entry_is_live(s, s.list[i], {"capacity"}, FALSE)})

\* Why a guard is no use, by its descriptor and the consensus.
Reason(s, r) ==
  \/ r \notin s.known \cap s.up
  \/ s.o.UseBridges /\ ~ Info(r).bridge
  \/ ~ s.o.UseBridges /\ r \notin s.gflag /\ routerset_contains(s.o.EntryNodes, r) = 0
  \/ routerset_contains(s.o.Exclude, r) > 0

entry_guard_set_status(s, e) ==
  IF Reason(s, e.id) THEN [e EXCEPT !.bad = IF @ = 0 THEN s.now ELSE @]
  ELSE [e EXCEPT !.bad = 0]

remove_dead_entry_guards(s) ==
  [s EXCEPT !.list = SelectSeq(@, LAMBDA e :
     ~ (e.bad # 0 /\ e.bad + ENTRY_GUARD_REMOVE_AFTER < s.now))]

entry_guards_compute_status(s) ==
  LET t == remove_dead_entry_guards(
             [s EXCEPT !.list = [i \in DOMAIN @ |-> entry_guard_set_status(s, @[i])]])
  IN IF t.list = s.list THEN s ELSE entry_guards_changed(t)

\* A router to become a guard (state = NULL), or the first hop of a circuit
\* that does not start at a guard.
choose_good_entry_server(s, state) ==
  LET exit   == IF state = NULL THEN NULL ELSE state.exit
      guards == {s.list[i].id : i \in DOMAIN s.list} \cap s.known
      out    == WithFamily(s, (IF exit \in s.known THEN {exit} ELSE {}) \cup guards)
                  \cup {r \in s.known : ~ Info(r).allowed}
  IN router_choose_random_node(s, out,
       IF state = NULL THEN {} ELSE {"guard"} \cup state.needs,
       "entry" \in s.o.AllowInvalid)

\* add_an_entry_guard of a given router, and of one of its own choice: the
\* outcomes, with what was added.
add_given_guard(s, r, reset) ==
  IF is_an_entry_guard(s, r)
  THEN [s EXCEPT !.list = [i \in DOMAIN @ |->
          IF @[i].id = r /\ reset THEN [@[i] EXCEPT !.bad = 0, !.can_retry = TRUE] ELSE @[i]]]
  ELSE [s EXCEPT !.list = <<Guard_(r, s.now)>> \o @]
\* Variant: a new guard goes in front of the list.
AddGuardInFront(s) ==
  {IF c = NULL THEN <<s, NULL>> ELSE <<[s EXCEPT !.list = <<Guard_(c, s.now)>> \o @], c>> :
     c \in choose_good_entry_server(s, NULL)}

add_an_entry_guard(s) ==
  {IF c = NULL THEN <<s, NULL>> ELSE <<[s EXCEPT !.list = Append(@, Guard_(c, s.now))], c>> :
     c \in choose_good_entry_server(s, NULL)}

RECURSIVE pick_entry_guards(_)
pick_entry_guards(s) ==
  IF num_live_entry_guards(s) >= s.o.NumEntryGuards THEN {s}
  ELSE UNION {IF a[2] = NULL THEN {s} ELSE pick_entry_guards(entry_guards_changed(a[1])) :
                a \in add_an_entry_guard(s)}

\* The routers of EntryNodes come first; the others follow, or are dropped.
entry_guards_prepend_from_config(s) ==
  LET wanted == routerset_get_all_routers(s, s.o.EntryNodes)
      On(e)  == e.id \in ToSet(wanted)
      new    == SelectSeq(wanted, LAMBDA r : ~ is_an_entry_guard(s, r))
      front  == [s EXCEPT !.pend = FALSE, !.list = SelectSeq(@, On)]
  IN IF s.o.EntryNodes = NULL THEN [s EXCEPT !.pend = FALSE]
     ELSE entry_guards_changed(
            [FoldLeft(LAMBDA t, r : add_given_guard(t, r, FALSE), front, new)
               EXCEPT !.list = @ \o IF s.o.StrictEntry THEN <<>>
                                    ELSE SelectSeq(s.list, LAMBDA e : ~ On(e))])

\* One pass over the list: the guards to draw from, whether the pass ended at
\* one we never reached, and whether the last guard looked at was live.
Scan(s, needs, avoid) ==
  LET Live(i) == entry_is_live(s, s.list[i], needs, FALSE)
      Fit(i)  == Live(i) /\ s.list[i].id \notin avoid
      Upto(i) == {j \in 1..i : Fit(j)}
      ends    == {i \in DOMAIN s.list :
                    Fit(i) /\ (~ s.list[i].contact \/ Cardinality(Upto(i)) >= s.o.NumEntryGuards)}
      last    == IF ends = {} THEN Len(s.list) ELSE Min(ends)
  IN [live  |-> {s.list[i].id : i \in Upto(last)},
      fresh |-> ends # {} /\ ~ s.list[last].contact,
      r     |-> last > 0 /\ Live(last)]

Few(scan) == ~ scan.fresh /\ Cardinality(scan.live) < 2
RECURSIVE RetryEntry(_, _, _)
Scanned(s, needs, avoid, scan, added) ==
  LET grow   == entry_list_can_grow(s.o)
      few    == Few(scan)
      failed == IF grow THEN \E a \in added : a[2] = NULL ELSE ~ scan.r
      finish == {<<s, r>> : r \in IF grow THEN smartlist_choose(scan.live)
                                  ELSE smartlist_choose_by_bandwidth(s, scan.live, "guard")}
  IN UNION {RetryEntry(entry_guards_changed(a[1]), needs, avoid) :
              a \in {b \in added : b[2] # NULL}}
     \cup IF ~ few \/ (~ grow /\ scan.r) THEN finish
          ELSE IF ~ failed THEN {}
          ELSE IF "uptime" \in needs THEN RetryEntry(s, needs \ {"uptime"}, avoid)
          ELSE IF "capacity" \in needs THEN RetryEntry(s, needs \ {"capacity"}, avoid)
          ELSE IF ~ grow /\ avoid # {} THEN RetryEntry(s, needs, {})
          ELSE finish
RetryEntry(s, needs, avoid) ==
  LET scan == Scan(s, needs, avoid)
  IN Scanned(s, needs, avoid, scan,
             IF Few(scan) /\ entry_list_can_grow(s.o) THEN add_an_entry_guard(s) ELSE {})

Filled(s) ==
  IF entry_list_can_grow(s.o) /\ Len(s.list) < s.o.NumEntryGuards THEN pick_entry_guards(s) ELSE {s}
choose_random_entry(s, state) ==
  LET exit  == IF state = NULL THEN NULL ELSE state.exit
      avoid == IF exit \in s.known THEN WithFamily(s, {exit}) ELSE {}
  IN UNION {RetryEntry(t, IF state = NULL THEN {} ELSE state.needs, avoid) :
              t \in Filled(IF s.pend THEN entry_guards_prepend_from_config(s) ELSE s)}

router_set_status(s, r, up) ==
  [s EXCEPT !.up = IF r \notin s.known THEN @ ELSE IF up THEN @ \cup {r} ELSE @ \ {r}]

\* A connection to r was made or failed.  The first contact with a new guard
\* is given up when an earlier one, down, may be back.
entry_guard_register_connect_status(s, r, succeeded, mark) ==
  LET at     == SelectInSeq(s.list, LAMBDA e : e.id = r)
      e      == s.list[at]
      first  == succeeded /\ ~ e.contact
      made   == [e EXCEPT !.contact = TRUE, !.down = 0,
                          !.can_retry = IF e.down # 0 THEN FALSE ELSE @,
                          !.tried = IF e.down # 0 THEN s.now ELSE @]
      failed == [e EXCEPT !.down = IF @ = 0 THEN s.now ELSE @, !.tried = s.now,
                          !.can_retry = FALSE]
      marked == IF mark THEN router_set_status(s, r, succeeded) ELSE s
      list1  == IF succeeded THEN [s.list EXCEPT ![at] = made]
                ELSE IF ~ e.contact THEN RemoveAt(s.list, at)
                ELSE [s.list EXCEPT ![at] = failed]
      retry  == {i \in 1..(at - 1) : /\ first
                                     /\ s.list[i].contact /\ s.list[i].down # 0
                                     /\ entry_is_live(marked, s.list[i], {"capacity"}, TRUE)}
      t      == [marked EXCEPT !.list = [i \in DOMAIN list1 |->
                   IF i \in retry THEN [list1[i] EXCEPT !.can_retry = TRUE] ELSE list1[i]]]
      changed == first \/ (succeeded /\ e.down # 0) \/ (~ succeeded /\ (~ e.contact \/ e.down = 0))
  IN IF at = 0 THEN [s |-> s, refuse |-> FALSE]
     ELSE [s |-> IF changed THEN entry_guards_changed(t) ELSE t, refuse |-> retry # {}]

\* The guards we have reached, written to the state file and read from it.
entry_guards_update_state(s) ==
  LET Line(e) == [id |-> e.id, down |-> e.down, tried |-> IF e.down = 0 THEN 0 ELSE e.tried,
                  bad |-> e.bad, date |-> e.date, version |-> e.version]
      reached == SelectSeq(s.list, LAMBDA e : e.contact)
  IN IF ~ s.dirty THEN s
     ELSE [s EXCEPT !.dirty = FALSE, !.saved = [i \in DOMAIN reached |-> Line(reached[i])]]

remove_obsolete_entry_guards(list, now) ==
  SelectSeq(list, LAMBDA e : /\ e.version = "good"
                             /\ e.date + OBSOLETE_AFTER >= start_of_month(now))

entry_guards_parse_state(s) ==
  LET Read(l) == [Guard_(l.id, s.now) EXCEPT !.contact = TRUE,
                    !.down = IF l.down > s.now THEN 0 ELSE l.down,
                    !.tried = IF l.down > s.now THEN 0 ELSE l.tried,
                    !.bad = IF l.bad > s.now THEN 0 ELSE l.bad,
                    !.date = l.date, !.version = l.version]
      read == [i \in DOMAIN s.saved |-> Read(s.saved[i])]
      kept == remove_obsolete_entry_guards(read, s.now)
  IN [s EXCEPT !.list = kept, !.dirty = kept # read, !.due = FALSE]

-----------------------------------------------------------------------------
(* The path of a circuit *)

count_acceptable_routers(s) == Cardinality({r \in s.known \cap s.up : Info(r).valid})

new_route_len(s, purpose, exit) ==
  LET want == IF exit # NULL /\ purpose \notin {"TESTING", "S_ESTABLISH_INTRO"} THEN 4 ELSE 3
      num  == count_acceptable_routers(s)
  IN IF num < 2 THEN 0 ELSE IF num < want THEN num ELSE want

\* The exits that serve the most waiting streams; when none serves any, the
\* ones that handle a predicted port, and then any.
RECURSIVE choose_good_exit_server_general(_, _, _, _)
choose_good_exit_server_general(s, needs, waiting, ports) ==
  LET ok   == {r \in s.known \cap s.up : /\ r # Me /\ ~ Info(r).badexit
                                        /\ ~ router_is_unreliable(s, r, needs)
                                        /\ (Info(r).valid \/ "exit" \in s.o.AllowInvalid)
                                        /\ ~ (s.o.ExcludeSingleHop /\ Info(r).singlehop)
                                        /\ ~ Info(r).rejectsall}
      Serves(r) == Cardinality(CanUse(r) \cap waiting)
      usable == IF waiting = {} THEN ok ELSE {r \in ok : Serves(r) > 0}
      most   == {r \in usable : \A q \in usable : Serves(q) <= Serves(r)}
      union  == routerset_union(s.o.Exclude, s.o.ExcludeExit)
      Use(q) == LET want == routersets_get_disjunction(s, q, s.o.ExitNodes, union)
                IN IF want = {} /\ ~ s.o.StrictExit
                   THEN routersets_get_disjunction(s, q, NULL, union) ELSE want
      Draw(q) == smartlist_choose_by_bandwidth(s, Use(q), "exit")
      handling == {r \in ok : Handles(r) \cap ports # {}}
  IN IF usable # {} /\ waiting # {} THEN Draw(most)
     ELSE IF usable = {} /\ needs # {}
     THEN choose_good_exit_server_general(s, {}, waiting, ports)
     ELSE IF Use(handling) # {} THEN Draw(handling) ELSE Draw(ok)

choose_good_exit_server(s, c, waiting, ports) ==
  CASE c.purpose = "C_GENERAL" /\ ~ c.internal ->
         choose_good_exit_server_general(s, c.needs, waiting, ports)
    [] c.purpose = "C_GENERAL" ->
         router_choose_random_node(s, {}, c.needs, "middle" \in s.o.AllowInvalid)
    [] c.purpose = "C_ESTABLISH_REND" ->
         router_choose_random_node(s, {}, c.needs, "rendezvous" \in s.o.AllowInvalid)
    [] OTHER -> {NULL}

choose_good_middle_server(s, c, hops) ==
  router_choose_random_node(s, WithFamily(s, ({c.exit} \cup ToSet(hops)) \cap s.known),
                            c.needs, "middle" \in s.o.AllowInvalid)

\* The circuit's hops one by one; the first may change the list of guards.
onion_extend_cpath(s, c, hops) ==
  LET n == Len(hops)
  IN IF n = c.len - 1 THEN {<<s, c.exit>>}
     ELSE IF n > 0 THEN {<<s, r>> : r \in choose_good_middle_server(s, c, hops)}
     ELSE IF c.purpose = "TESTING" /\ ~ s.o.BridgeRelay
     THEN {<<s, r>> : r \in choose_good_entry_server(s, c)}
     ELSE choose_random_entry(s, c)
RECURSIVE onion_populate_cpath(_, _, _)
onion_populate_cpath(s, c, hops) ==
  IF Len(hops) >= c.len THEN {[s EXCEPT !.path = [hops |-> hops, c |-> c, o |-> s.o]]}
  ELSE UNION {IF p[2] = NULL THEN {[p[1] EXCEPT !.path = NULL]}
              ELSE onion_populate_cpath(p[1], c, Append(hops, p[2])) :
                p \in onion_extend_cpath(s, c, hops)}

onion_pick_cpath_exit(s, c, waiting, ports) ==
  LET len == IF c.onehop THEN 1 ELSE new_route_len(s, c.purpose, c.exit)
  IN IF len < 1 THEN {}
     ELSE {[c EXCEPT !.len = len, !.exit = x] :
             x \in (IF c.exit # NULL THEN {c.exit}
                    ELSE choose_good_exit_server(s, c, waiting, ports)) \ {NULL}}

-----------------------------------------------------------------------------
(* Bridges: a configured one is <<router, whether its identity is given>> *)

any_bridge_descriptors_known(s) == choose_random_entry(s, NULL)

clear_bridge_list(s) == [s EXCEPT !.bridges = {}, !.ready = {}]

bridge_add_from_config(s, b) == [s EXCEPT !.bridges = @ \cup {b}, !.ready = @ \cup {b}]

routerinfo_get_configured_bridge(s, r) == {b \in s.bridges : b[1] = r}

fetch_bridge_descriptors(s) ==
  LET How(b) == LET auth   == b[2] /\ NumBridgeAuths > 0
                    direct == ~ auth \/ ~ s.o.FromAuthority
                IN IF direct /\ Info(b[1]).allowed THEN "direct"
                   ELSE IF auth THEN "authority" ELSE "none"
  IN [s EXCEPT !.ready = {}, !.fetch = @ \cup {<<b[1], How(b)>> : b \in
                                {c \in s.ready : How(c) # "none"}}]

retry_bridge_descriptor_fetch_directly(s, r) ==
  IF <<r, TRUE>> \in s.bridges THEN [s EXCEPT !.fetch = @ \cup {<<r, "direct">>}] ELSE s

learned_bridge_descriptor(s, r, fromCache) ==
  IF ~ s.o.UseBridges THEN {s}
  ELSE LET conf == routerinfo_get_configured_bridge(s, r)
           Up(t) == [t EXCEPT !.up = @ \cup {r}]
       IN UNION {IF conf = {} THEN {Up(k[1])}
                 ELSE {add_given_guard(
                         [Up(k[1]) EXCEPT !.ready = IF fromCache THEN @ ELSE @ \cup conf], r, TRUE)} :
                   k \in any_bridge_descriptors_known(s)}

bridges_known_but_down(s) ==
  LET mine == {s.list[i].id : i \in DOMAIN s.list}
      bs   == {r \in mine \cap s.known : Info(r).bridge}
  IN bs # {} /\ bs \cap s.up = {}

bridges_retry_all(s) ==
  LET Again(e) == e.id \in s.known \ s.up /\ Info(e.id).bridge
  IN [s EXCEPT !.up = @ \cup {s.list[i].id : i \in {j \in DOMAIN s.list : Again(s.list[j])}},
               !.list = [i \in DOMAIN @ |-> IF Again(@[i])
                           THEN [@[i] EXCEPT !.can_retry = TRUE, !.bad = 0] ELSE @[i]]]

-----------------------------------------------------------------------------
(* What happens *)

\* A configuration is put in force at the start (old = NULL) and at a change.
options_act_guards(s, old, o) ==
  LET t == [s EXCEPT !.o = o,
              !.pend = @ \/ (o.EntryNodes # NULL /\ (old = NULL \/ old.EntryNodes # o.EntryNodes))]
  IN IF o.Bridges = {} THEN t
     ELSE FoldLeft(bridge_add_from_config, clear_bridge_list(t), SetToSeq(o.Bridges))

GdBoot(o, saved) ==
  options_act_guards(
    entry_guards_parse_state([list |-> <<>>, known |-> Routers_, up |-> Routers_,
      gflag |-> {r \in Routers_ : Info(r).guard}, o |-> o, pend |-> FALSE, dirty |-> FALSE,
      due |-> FALSE, saved |-> saved, disk |-> saved, bridges |-> {}, now |-> 1, path |-> NULL, ready |-> {}, fetch |-> {}, starts |-> 0]),
    NULL, o)

GdInit == gd \in {[GdBoot(o, l) EXCEPT !.known = @ \ {r \in Routers_ : Info(r).bridge}] :
                    o \in Options_, l \in StateLines}

\* A circuit is launched (the first half of circuit_establish_circuit), to an
\* exit of its own choice or to a given router whose descriptor we have.
Launched ==
  /\ gd.path = NULL
  /\ \E c \in Circs, waiting \in SUBSET Streams_, ports \in SUBSET Predicted :
       /\ c.exit \in gd.known \cup {NULL}
       /\ \E d \in onion_pick_cpath_exit(gd, c, waiting, ports) :
            gd' \in onion_populate_cpath(gd, d, <<>>)

\* The connection to its first hop is made, or not.
FirstHopDone ==
  /\ gd.path # NULL
  /\ \E ok \in BOOLEAN :
       LET r == Head(gd.path.hops)
           d == entry_guard_register_connect_status([gd EXCEPT !.path = NULL], r, ok, ~ ok)
       IN gd' = IF ok /\ ~ d.refuse THEN router_set_status(d.s, r, TRUE) ELSE d.s

\* A consensus or a descriptor changes what we know of one router.
Arrives ==
  \E r \in Changing :
    \E t \in {[gd EXCEPT !.known = IF r \in @ THEN @ \ {r} ELSE @ \cup {r}],
              [gd EXCEPT !.up = IF r \in @ THEN @ \ {r} ELSE @ \cup {r}],
              [gd EXCEPT !.gflag = IF r \in @ THEN @ \ {r} ELSE @ \cup {r}]} :
      gd' = IF t.known = {} THEN t ELSE entry_guards_compute_status(t)

BridgeArrives ==
  \E f \in gd.fetch : \/ gd' \in learned_bridge_descriptor(
                           [gd EXCEPT !.fetch = @ \ {f}, !.known = @ \cup {f[1]}], f[1], FALSE)
                      \/ gd' = IF f[2] = "direct" THEN [gd EXCEPT !.fetch = @ \ {f}]
                               ELSE retry_bridge_descriptor_fetch_directly(
                                      [gd EXCEPT !.fetch = @ \ {f}], f[1])

FetchBridges == gd.o.UseBridges /\ gd.ready # {} /\ gd' = fetch_bridge_descriptors(gd)

BridgesRetried ==
  gd.o.UseBridges /\ bridges_known_but_down(gd) /\ gd' = bridges_retry_all(gd)

Reconfigured == \E o \in Options_ \ {gd.o} : gd' = options_act_guards(gd, gd.o, o)

\* or_state_save: when the file cannot be written it is tried again.
StateWritten ==
  /\ gd.due
  /\ LET t == entry_guards_update_state(gd)
     IN \/ gd' = [t EXCEPT !.disk = t.saved, !.due = FALSE]
        \/ gd' = t

GdTick == gd.now < GdMaxTime /\ gd' = [gd EXCEPT !.now = @ + 1]

\* The process stops, with or without a last save, and starts again.
GdRestart ==
  /\ gd.starts < GdMaxRestarts
  /\ gd' = options_act_guards(entry_guards_parse_state(
             [gd EXCEPT !.saved = gd.disk, !.path = NULL, !.fetch = {}, !.bridges = {},
                        !.pend = FALSE, !.starts = @ + 1]), NULL, gd.o)

GdNext == Launched \/ FirstHopDone \/ Arrives \/ BridgeArrives \/ FetchBridges
          \/ BridgesRetried \/ Reconfigured \/ StateWritten \/ GdTick \/ GdRestart

GdSpec == GdInit /\ [][GdNext]_gvars

-----------------------------------------------------------------------------
(* Properties *)

\* The routers of a path differ, and no two are of one family, though each
\* was chosen by a rule of its own; the one exception the code makes is that
\* a list of guards that may not grow may start a circuit in the exit's family.
PathsUnrelated ==
  gd.path # NULL =>
    LET h == gd.path.hops IN
    \A i \in DOMAIN h : h[i] # Me /\ \A j \in (i + 1)..Len(h) :
      \/ h[i] # h[j] /\ ~ routers_in_same_family(gd.path.o, h[i], h[j])
      \/ ~ entry_list_can_grow(gd.path.o) /\ i = 1 /\ j = Len(h)

\* The list names no router twice, and once it is written the state file names
\* the guards that were reached, in the order of the list: a restart brings
\* back the same guards, whatever was added, dropped or reordered before.
GuardsSaved ==
  LET reached == SelectSeq(gd.list, LAMBDA e : e.contact)
      Ids(q)  == [i \in DOMAIN q |-> q[i].id]
  IN /\ \A i, j \in DOMAIN gd.list : gd.list[i].id = gd.list[j].id => i = j
     /\ ~ gd.dirty => Ids(reached) = Ids(gd.saved)
     /\ ~ gd.due => gd.saved = gd.disk

\* Guards keep their order, and a guard the client adds on its own never comes
\* before one it has reached: only EntryNodes, a bridge and a restart reorder.
KeepsOrder ==
  (~ gd.pend /\ ~ gd.o.UseBridges /\ gd'.starts = gd.starts) =>
     \A i, j \in DOMAIN gd'.list : i < j =>
       ~ \E k, l \in DOMAIN gd.list :
           /\ k > l /\ gd.list[l].id = gd'.list[j].id
           /\ gd.list[k].id = gd'.list[i].id
              \/ (~ is_an_entry_guard(gd, gd'.list[i].id) /\ gd.list[l].contact)
=============================================================================

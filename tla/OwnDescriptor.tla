--------------------------- MODULE OwnDescriptor ---------------------------
(***************************************************************************)
(* A relay's keys and its own descriptor (or/router.c): the onion key is   *)
(* replaced every MIN_ONION_KEY_LIFETIME and the one before it kept, the   *)
(* address is found out from the machine or from what directories say, the *)
(* relay tests whether it can be reached there, and it rebuilds and        *)
(* uploads its descriptor when one of these has changed.  The process may  *)
(* be stopped or crash, also within a rotation; files may fail to be       *)
(* written and uploads may be lost or overtake each other.                 *)
(*                                                                         *)
(* One tick is one pass of the once-a-minute block of                      *)
(* run_scheduled_events.  Keys are numbers in the order they were made.    *)
(* Fields env (what the machine and the network would say), dir (what the  *)
(* directories list), made, advertised, settled, strayed and faults are    *)
(* about the world outside the process.                                    *)
(***************************************************************************)
EXTENDS Integers, Sequences, FiniteSets, FiniteSetsExt

CONSTANT NULL   \* the null pointer: none of the objects of the module

CONSTANTS
  Envs,                   \* [host, iface, real]: addresses or NULL
  Internal,               \* private addresses
  ExplicitAddress,        \* the Address option names the host
  DirPort,                \* BOOLEAN: we want to be a directory too
  AvoidDiskWrites, V3Auth,
  MIN_ONION_KEY_LIFETIME, CHECK_IPADDRESS_INTERVAL, FORCE_REGENERATE,
  ROUTER_MAX_AGE_TO_PUBLISH,
  UNREACHABILITY_COMPLAINT, MAX_BANDWIDTH_CHANGE_FREQ, WRITE_DELAY,
  BANDWIDTH_RECHECK_INTERVAL,
  PARALLEL_TESTS, DIRPORT_ROUNDS,
  MaxKeys, OwMaxTime, OwMaxChanges, OwMaxFaults

VARIABLE ow

Due(s) == s.due # 0

\* -------------------------------------------------------------- the descriptor
mark_my_descriptor_dirty(s) == [s EXCEPT !.clean = 0]
mark_my_descriptor_dirty_if_older_than(s, when) ==
  IF s.clean < when THEN mark_my_descriptor_dirty(s) ELSE s
router_reset_reachability(s) == [s EXCEPT !.can_or = FALSE, !.can_dir = FALSE]
reset_bandwidth_test(s) == [s EXCEPT !.bw_tested = FALSE]
check_whether_orport_reachable(s) == s.can_or
check_whether_dirport_reachable(s) == ~ DirPort \/ s.can_dir

ip_address_changed(s) ==
  IF ~ s.server THEN s
  ELSE LET t == IF s.working > UNREACHABILITY_COMPLAINT THEN reset_bandwidth_test(s) ELSE s
       IN mark_my_descriptor_dirty(router_reset_reachability([t EXCEPT !.working = 0]))

\* The address resolve_my_address would find, or NULL
Address(s) ==
  LET e == s.env
      guessed == IF e.host = NULL THEN e.iface
                 ELSE IF e.host \in Internal /\ e.iface \notin Internal \cup {NULL}
                 THEN e.iface ELSE e.host
      found == IF ExplicitAddress THEN e.host ELSE guessed
  IN IF found \in Internal THEN NULL ELSE found

resolve_my_address(s) ==
  LET a == Address(s)
  IN IF a = NULL THEN s
     ELSE [IF s.resolved \notin {NULL, a} THEN ip_address_changed(s) ELSE s
             EXCEPT !.resolved = a]

router_guess_address_from_dir_headers(s) == s.guess
router_pick_published_address(s) ==
  IF Address(s) # NULL THEN Address(s) ELSE router_guess_address_from_dir_headers(s)

router_rebuild_descriptor(s, force) ==
  LET t == resolve_my_address(s)
      addr == router_pick_published_address(s)
  IN IF s.clean # 0 /\ ~ force THEN s
     ELSE IF addr = NULL THEN [t EXCEPT !.clean = t.now]
     ELSE [t EXCEPT !.desc = [addr |-> addr, key |-> t.onion, pub |-> t.now],
                    !.clean = t.now, !.needs_upload = TRUE]

\* It returns -1 only when it tries to rebuild without an address.
Rebuilt(s) == s.clean # 0 \/ router_pick_published_address(s) # NULL

router_get_my_routerinfo(s) ==
  IF s.server THEN router_rebuild_descriptor(s, FALSE) ELSE s
HaveRouterinfo(s) == s.server /\ Rebuilt(s) /\ router_get_my_routerinfo(s).desc # NULL

directory_post_to_dirservers(s) == [s EXCEPT !.posts = @ \cup {s.desc}]

router_upload_dir_desc_to_dirservers(s) ==
  LET t == router_get_my_routerinfo(s)
  IN IF HaveRouterinfo(s) /\ t.needs_upload
     THEN directory_post_to_dirservers([t EXCEPT !.needs_upload = FALSE]) ELSE t

decide_if_publishable_server(s) == s.server /\ check_whether_orport_reachable(s)

Advertised(s, new) ==
  LET t == [s EXCEPT !.advertised = decide_if_publishable_server(s)]
  IN IF t.advertised /\ new THEN router_upload_dir_desc_to_dirservers(t) ELSE t
consider_publishable_server(s) ==
  IF ~ s.server THEN s ELSE Advertised(router_rebuild_descriptor(s, FALSE), Rebuilt(s))

check_descriptor_bandwidth_changed(s, changed) ==
  IF s.desc # NULL /\ changed /\ s.bw_at + MAX_BANDWIDTH_CHANGE_FREQ < s.now
  THEN [mark_my_descriptor_dirty(s) EXCEPT !.bw_at = s.now] ELSE s

check_descriptor_ipaddress_changed(s) ==
  LET t == resolve_my_address(s)
  IN IF s.desc = NULL THEN s
     ELSE IF Address(s) \notin {NULL, s.desc.addr} THEN ip_address_changed(t) ELSE t

\* A directory we asked directly says what our address looks like to it.
router_new_address_suggestion(s, addr) ==
  IF ~ s.server THEN [s EXCEPT !.guess = addr]
  ELSE IF Address(s) # NULL THEN [resolve_my_address(s) EXCEPT !.guess = Address(s)]
  ELSE IF addr \in Internal \/ addr = s.guess THEN s
  ELSE [ip_address_changed(s) EXCEPT !.guess = addr]

\* --------------------------------------------------------------- self-testing
circuit_enough_testing_circs(s) == s.bw_tested \/ s.open >= PARALLEL_TESTS

Tested(s, test_or, test_dir) ==
  LET or == test_or /\ (~ check_whether_orport_reachable(s) \/ ~ circuit_enough_testing_circs(s))
      dir == test_dir /\ ~ check_whether_dirport_reachable(s)
  IN [s EXCEPT !.tests = @ \cup (IF or THEN {<<"or", s.desc.addr>>} ELSE {})
                           \cup (IF dir THEN {<<"dir", s.desc.addr>>} ELSE {})]
consider_testing_reachability(s, test_or, test_dir) ==
  IF ~ HaveRouterinfo(s) THEN router_get_my_routerinfo(s)
  ELSE Tested(router_get_my_routerinfo(s), test_or, test_dir)

router_orport_found_reachable(s) ==
  IF s.can_or THEN s ELSE mark_my_descriptor_dirty([s EXCEPT !.can_or = TRUE])

decide_to_advertise_dirport(s) == DirPort /\ check_whether_dirport_reachable(s)

router_dirport_found_reachable(s) ==
  LET t == [s EXCEPT !.can_dir = TRUE]
  IN IF s.can_dir THEN s
     ELSE IF decide_to_advertise_dirport(t) THEN mark_my_descriptor_dirty(t) ELSE t

router_perform_bandwidth_test(s) == [s EXCEPT !.bw_tested = TRUE, !.open = 0]

circuit_testing_opened(s) ==
  IF s.bw_tested \/ ~ check_whether_orport_reachable(s) THEN s
  ELSE LET t == [s EXCEPT !.open = @ + 1]
       IN IF circuit_enough_testing_circs(t) THEN router_perform_bandwidth_test(t)
          ELSE consider_testing_reachability(t, TRUE, FALSE)

\* A late answer about an address we have left is not taken for the DirPort.
directory_conn_is_self_reachability_test(s, addr) ==
  HaveRouterinfo(s) /\ router_get_my_routerinfo(s).desc.addr = addr

\* ------------------------------------------------------------------------ keys
or_state_mark_dirty(s) ==
  LET when == IF AvoidDiskWrites THEN s.now + WRITE_DELAY ELSE s.now
  IN [s EXCEPT !.due = IF Due(s) THEN Min({@, when}) ELSE when]

or_state_save(s) ==
  IF Due(s) /\ s.due <= s.now THEN [s EXCEPT !.due = 0, !.disk = s.rotated] ELSE s

set_onion_key(s, k) == mark_my_descriptor_dirty([s EXCEPT !.onion = k, !.set_at = s.now])

NewKey(s) == [s EXCEPT !.made = Append(@, s.now)]
Newest(s) == Len(s.made)

\* Variant: the key that was in use until now is forgotten.
RotateAndForget(s, far) ==
  LET t == NewKey(s)
      k == Newest(t)
      moved == [s EXCEPT !.file = IF @.cur = NULL THEN @ ELSE [cur |-> NULL, old |-> @.cur]]
  IN CASE far = "not moved" -> s
       [] far = "not written" -> moved
       [] OTHER -> or_state_mark_dirty(mark_my_descriptor_dirty(
                     [t EXCEPT !.file = [moved.file EXCEPT !.cur = k], !.last = NULL,
                               !.onion = k, !.set_at = s.now, !.rotated = s.now]))

\* How far it gets: "not moved", "not written" or "done"
rotate_onion_key(s, far) ==
  LET t == NewKey(s)
      k == Newest(t)
      moved == [s EXCEPT !.file = IF @.cur = NULL THEN @ ELSE [cur |-> NULL, old |-> @.cur]]
  IN CASE far = "not moved" -> s
       [] far = "not written" -> moved
       [] OTHER -> or_state_mark_dirty(mark_my_descriptor_dirty(
                     [t EXCEPT !.file = [moved.file EXCEPT !.cur = k], !.last = s.onion,
                               !.onion = k, !.set_at = s.now, !.rotated = s.now]))

\* A key pair that does not match leaves the one we have.
load_authority_keyset(s) ==
  IF s.gencert.key = s.gencert.cert THEN [s EXCEPT !.v3 = s.gencert] ELSE s
init_v3_authority_keys(s) == IF V3Auth THEN load_authority_keyset(s) ELSE s
V3KeysLoad(s) == V3Auth => init_v3_authority_keys(s).v3 = s.gencert

init_key_from_file(s) ==
  IF s.file.cur # NULL THEN s
  ELSE LET t == NewKey(s) IN [t EXCEPT !.file.cur = Newest(t)]

KeySet(s) == set_onion_key(s, s.file.cur)
KeyDated(s) ==
  IF s.rotated # 0 /\ s.rotated < s.now THEN [s EXCEPT !.set_at = s.rotated]
  ELSE or_state_mark_dirty([s EXCEPT !.rotated = s.now])
LastLoaded(s) == IF s.last = NULL THEN [s EXCEPT !.last = s.file.old] ELSE s
KeysNoted(s) ==
  [router_get_my_routerinfo(s) EXCEPT !.strayed = @ \/ s.made[s.onion] > s.set_at]
init_keys(s) ==
  KeysNoted(LastLoaded(KeyDated(KeySet(init_key_from_file(init_v3_authority_keys(s))))))

\* ----------------------------------------------------------------- the process
Start(s) ==
  init_keys([s EXCEPT !.desc = NULL, !.clean = 0, !.needs_upload = FALSE, !.posts = {},
                      !.can_or = FALSE, !.can_dir = FALSE, !.advertised = FALSE,
                      !.bw_tested = FALSE, !.bw_at = 0, !.open = 0, !.working = 0, !.round = 0,
                      !.tests = {}, !.completed = FALSE, !.recheck = 0, !.check_ip = s.now,
                      !.resolved = NULL, !.guess = NULL, !.last = NULL,
                      !.rotated = s.disk, !.due = 0, !.settled = 0])

Key1 == [key |-> 1, cert |-> 1]

OwInit ==
  \E e \in Envs :
    ow = Start([now |-> 1, server |-> TRUE, env |-> e, dir |-> NULL, posts |-> {}, tests |-> {},
                desc |-> NULL, clean |-> 0, needs_upload |-> FALSE, advertised |-> FALSE,
                can_or |-> FALSE, can_dir |-> FALSE, bw_tested |-> FALSE, bw_at |-> 0, open |-> 0,
                working |-> 0, round |-> 0, completed |-> FALSE, recheck |-> 0, check_ip |-> 0,
                resolved |-> NULL, guess |-> NULL, onion |-> NULL, last |-> NULL, set_at |-> 0,
                file |-> [cur |-> NULL, old |-> NULL], rotated |-> 0, due |-> 0, disk |-> 0,
                gencert |-> Key1, v3 |-> Key1, made |-> <<>>, listed |-> <<>>,
                settled |-> 0, strayed |-> FALSE, faults |-> 0, changes |-> 0])

\* Directories take and list no descriptor that is too old.
Young(s, d) == d.pub + ROUTER_MAX_AGE_TO_PUBLISH >= s.now

\* When each key was last listed
NoteListed(s) ==
  [s EXCEPT !.listed = [k \in 1..Len(s.made) |->
     IF s.dir # NULL /\ s.dir.key = k /\ Young(s, s.dir) THEN s.now
     ELSE IF k <= Len(@) THEN @[k] ELSE 0]]

RotationDue(s) == s.server /\ s.set_at + MIN_ONION_KEY_LIFETIME < s.now
UploadIfAdvertised(s) == IF s.advertised THEN router_upload_dir_desc_to_dirservers(s) ELSE s
Rotation(s, far) ==
  IF RotationDue(s)
  THEN UploadIfAdvertised(router_rebuild_descriptor(rotate_onion_key(s, far), TRUE)) ELSE s

\* Late in its life a relay that seems slow (low) measures itself again.
Recheck(s, low) ==
  [IF s.recheck # 0 /\ low THEN reset_bandwidth_test(s) ELSE s
     EXCEPT !.recheck = s.now + BANDWIDTH_RECHECK_INTERVAL]

AddressCheck(s) ==
  IF s.check_ip < s.now
  THEN check_descriptor_ipaddress_changed([s EXCEPT !.check_ip = s.now + CHECK_IPADDRESS_INTERVAL])
  ELSE s
SelfTest(s, low) ==
  IF ~ s.server \/ ~ s.completed THEN s
  ELSE IF s.working < UNREACHABILITY_COMPLAINT
  THEN [consider_testing_reachability(s, TRUE, s.round = 0) EXCEPT !.round = (@ + 1) % DIRPORT_ROUNDS]
  ELSE IF s.recheck < s.now THEN Recheck(router_get_my_routerinfo(s), low) ELSE s
Republished(s) ==
  consider_publishable_server(mark_my_descriptor_dirty_if_older_than(s, s.now - FORCE_REGENERATE))
DescriptorCheck(s, bw, low) ==
  SelfTest(Republished(AddressCheck(check_descriptor_bandwidth_changed(s, bw))), low)

\* No test or upload takes longer than a tick to be answered or to fail.
OwTick ==
  \E far \in {"not moved", "not written", "done"}, bw, low \in BOOLEAN :
    LET a == [ow EXCEPT !.now = @ + 1, !.working = @ + 1]
        can_settle == /\ ow.server /\ ow.completed
                      /\ Address(ow) = NULL => ow.guess = ow.env.real
                      /\ ow.can_or \/ ow.working < UNREACHABILITY_COMPLAINT
        faulty == far # "done" /\ RotationDue(a)
    IN /\ ow.now < OwMaxTime /\ ow.tests = {} /\ ow.posts = {}
       /\ far # "done" => faulty /\ ow.faults < OwMaxFaults
       /\ low => ow.recheck # 0 /\ ow.recheck < a.now /\ ow.bw_tested /\ HaveRouterinfo(a)
       /\ bw => ow.desc # NULL /\ ow.bw_at + MAX_BANDWIDTH_CHANGE_FREQ < a.now
       /\ ow' = [NoteListed(or_state_save(DescriptorCheck(Rotation(a, far), bw, low)))
                   EXCEPT !.settled = IF can_settle THEN @ + 1 ELSE Min({@, 0}),
                          !.faults = IF faulty THEN @ + 1 ELSE @]
       /\ Len(ow'.made) <= MaxKeys

\* The machine's address changes.
Renumbered ==
  \E e \in Envs :
    /\ ow.changes < OwMaxChanges /\ e # ow.env
    /\ ow' = [ow EXCEPT !.env = e, !.changes = @ + 1, !.settled = Min({@, 0})]

Suggested ==
  /\ router_new_address_suggestion(ow, ow.env.real) # ow
  /\ ow' = [router_new_address_suggestion(ow, ow.env.real) EXCEPT !.settled = Min({@, 0})]

\* The first circuit of this process is built; later, directory information arrives.
CircuitBuilt ==
  /\ ~ ow.completed
  /\ ow' = LET s == [ow EXCEPT !.completed = TRUE]
           IN IF s.server /\ ~ check_whether_orport_reachable(s)
              THEN consider_testing_reachability(s, TRUE, TRUE) ELSE s

directory_info_has_arrived ==
  /\ ow.server /\ ow.completed
  /\ ow' = consider_testing_reachability(ow, TRUE, TRUE)

\* A test reaches us if it is made to the address we really have.
TestEnds ==
  \E t \in ow.tests :
    LET s == [ow EXCEPT !.tests = @ \ {t}]
        reached == t[2] = ow.env.real /\ ow.server
    IN \/ /\ reached /\ t[1] = "or"
          /\ ow' = circuit_testing_opened(router_orport_found_reachable(s))
       \/ /\ reached /\ t[1] = "dir"
          /\ ow' = IF directory_conn_is_self_reachability_test(s, t[2])
                   THEN router_dirport_found_reachable(s) ELSE s
       \/ /\ ~ reached \/ ow.faults < OwMaxFaults
          /\ ow' = [s EXCEPT !.settled = Min({@, 0}), !.faults = IF reached THEN @ + 1 ELSE @]

\* The directories take a descriptor only if it is newer than what they have;
\* of two made in the same tick the one uploaded later is.
PostEnds ==
  \E p \in ow.posts :
    LET s == [ow EXCEPT !.posts = @ \ {p}]
    IN \/ ow' = NoteListed(IF Young(s, p) /\ (s.dir = NULL \/ s.dir.pub <= p.pub)
                           THEN [s EXCEPT !.dir = p] ELSE s)
       \/ /\ ow.faults < OwMaxFaults
          /\ ow' = [s EXCEPT !.settled = -FORCE_REGENERATE, !.faults = @ + 1]

\* SETCONF ORPort: what options_act does when we stop or start being a relay
Reconfigured ==
  /\ ow.changes < OwMaxChanges
  /\ ow' = [mark_my_descriptor_dirty(IF ow.server THEN [ow EXCEPT !.server = FALSE]
                                     ELSE ip_address_changed(init_keys([ow EXCEPT !.server = TRUE])))
              EXCEPT !.changes = @ + 1, !.settled = Min({@, 0})]
  /\ ~ ow.server => V3KeysLoad(ow)
  /\ Len(ow'.made) <= MaxKeys

\* tor-gencert writes the signing key and then the certificate.
Gencert ==
  /\ V3Auth /\ ow.gencert.cert = 1
  /\ ow' = IF ow.gencert.key = 1 THEN [ow EXCEPT !.gencert.key = 2]
           ELSE [ow EXCEPT !.gencert.cert = 2]

\* tor_cleanup saves the state; a crash does not, and it may come within a
\* rotation, when the files have changed and nothing else.
OwRestart ==
  /\ ow.changes < OwMaxChanges /\ V3KeysLoad(ow)
  /\ \E how \in {"stop", "crash", "not written", "done"} :
       LET due == ow.server /\ ow.set_at + MIN_ONION_KEY_LIFETIME < ow.now + 1
           cut == rotate_onion_key(ow, how)
           left == CASE how = "stop" -> [ow EXCEPT !.disk = ow.rotated]
                     [] how = "crash" -> ow
                     [] OTHER -> [ow EXCEPT !.file = cut.file, !.made = cut.made]
       IN /\ how \in {"not written", "done"} => due
          /\ ow' = [Start(left) EXCEPT !.changes = @ + 1]
  /\ Len(ow'.made) <= MaxKeys

OwNext ==
  \/ OwTick \/ Renumbered \/ Suggested \/ CircuitBuilt \/ directory_info_has_arrived
  \/ TestEnds \/ PostEnds \/ Reconfigured \/ Gencert \/ OwRestart

OwSpec == OwInit /\ [][OwNext]_ow

\* ------------------------------------------------------------------ properties
(* A client that has learnt our onion key from a directory can use it: the   *)
(* listed key, and any that was listed less than a lifetime (less the time   *)
(* a descriptor stays listed) ago, is one of the two we keep, through        *)
(* rotations, failed writes, lost uploads and restarts.  The exception is a start that  *)
(* goes by a rotation time older than the key it comes up with (strayed):    *)
(* then the next rotation follows at once (rotate_onion_key, init_keys).     *)
KeysAccepted ==
  ow.server /\ ~ ow.strayed =>
    \A k \in 1..Len(ow.listed) :
      ow.listed[k] # 0 /\ ow.listed[k] + MIN_ONION_KEY_LIFETIME - ROUTER_MAX_AGE_TO_PUBLISH > ow.now
        => k \in {ow.onion, ow.last}

(* Once its address has stayed the same for as long as it takes to notice it *)
(* and test it, the relay is listed at the address it has: no order of       *)
(* failing lookups, changing guesses, late test answers and uploads leaves   *)
(* it listed elsewhere (check_descriptor_ipaddress_changed,                  *)
(* consider_publishable_server, router_new_address_suggestion).              *)
ListedWhereWeAre ==
  ow.settled > CHECK_IPADDRESS_INTERVAL + 3 /\ ow.posts = {} =>
    ow.dir # NULL /\ ow.dir.addr = ow.env.real

(* The signing key and the certificate a v3 authority holds belong together, *)
(* also when it reads its files while tor-gencert has replaced one of them   *)
(* (load_authority_keyset).                                                  *)
AuthorityKeysMatch == ow.v3.key = ow.v3.cert
=============================================================================

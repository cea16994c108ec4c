--------------------------- MODULE HsDescriptors ---------------------------
(***************************************************************************)
(* Where the descriptor of a hidden service is kept and when: the          *)
(* publishing half of rendservice.c, the caches of rendcommon.c, the       *)
(* descriptor fetch of rendclient.c and hid_serv_* of routerlist.c.  A     *)
(* descriptor is filed under an id that changes with the time period; the  *)
(* directories responsible for an id are the next ones on the ring of      *)
(* identities in whatever consensus a node holds.  An id is a pair of      *)
(* period and replica, a descriptor the time it was made.                  *)
(***************************************************************************)
EXTENDS Integers, Sequences, FiniteSets, FiniteSetsExt

CONSTANT NULL   \* the null pointer: none of the objects of the module

CONSTANTS Ring,                  \* identities are 0..Ring-1
          Consensuses,           \* <<directories of the first, of the second>>
          IdOf(_, _),            \* place of a period and replica on the ring
          CONSECUTIVE, VALIDITY, OVERLAP, IdByte, RendPostPeriod, CACHE_AGE, REQUERY,
          Unknown,               \* directories whose descriptor the service lacks
          Late,                  \* directories that may be late with a consensus
          Skew,                  \* a client's clock is at most this far ahead
          HdMaxTime, MaxEvents

VARIABLE hd

HsDirsAll == Consensuses[1] \cup Consensuses[2]
Replicas == 0..1

(***************************************************************************)
(* Ids and the directories responsible for them.                           *)
(***************************************************************************)
get_time_period(now, deviation) == (now + IdByte) \div VALIDITY + deviation
get_seconds_valid(now) == VALIDITY - ((now + IdByte) % VALIDITY)

rend_compute_v2_desc_id(now, deviation) == {<<get_time_period(now, deviation), k>> : k \in Replicas}

\* Distance from an id forward along the ring.
After(id, d) == (d - IdOf(id[1], id[2])) % Ring

Ids_ == (0..((HdMaxTime + Skew + IdByte) \div VALIDITY + 1)) \X Replicas

ResponsibleDirs == [view \in 1..2, id \in Ids_ |->
    {d \in Consensuses[view] :
        Cardinality({e \in Consensuses[view] : After(id, e) < After(id, d)}) < CONSECUTIVE}]
hid_serv_get_responsible_directories(view, id) == ResponsibleDirs[view, id]

\* b lies on the way from a to c: the comparisons in the code's order.
rend_id_is_in_interval(a, b, c) ==
    CASE a = b \/ b = c -> FALSE
      [] a < b /\ b < c -> FALSE
      [] c < a /\ a < b -> FALSE
      [] b < c /\ c < a -> FALSE
      [] OTHER -> TRUE

IsResponsible == [view \in 1..2, me \in HsDirsAll, id \in Ids_ |->
    /\ me \in Consensuses[view]
    /\ LET R == hid_serv_get_responsible_directories(view, id)
           last == CHOOSE d \in R : \A e \in R : After(id, e) <= After(id, d)
       IN  rend_id_is_in_interval(me, IdOf(id[1], id[2]), last)]
hid_serv_responsible_for_desc_id(view, me, id) == IsResponsible[view, me, id]

(***************************************************************************)
(* The service publishes.                                                  *)
(***************************************************************************)
rend_service_update_descriptor(s) == [s EXCEPT !.desc = [made |-> s.now, ok |-> {}, done |-> FALSE]]

\* A directory in the list of successful uploads is not sent anything again; one
\* whose router descriptor is missing makes the upload incomplete.
directory_post_to_hs_dir(s, ids) ==
    LET pairs == {p \in ids \X HsDirsAll :
                    p[2] \in hid_serv_get_responsible_directories(s.server, p[1])}
        todo == {p \in pairs : p[2] \notin s.desc.ok}
        posted == {p \in todo : p[2] \notin s.unknown}
        s1 == [s EXCEPT !.posts = @ \cup {[to |-> p[2], id |-> p[1], made |-> s.desc.made] :
                                             p \in posted}]
    IN  IF todo = posted THEN [s1 EXCEPT !.desc.ok = {}, !.desc.done = TRUE]
        ELSE [s1 EXCEPT !.desc.ok = @ \cup {p[2] : p \in posted}]

\* Variant: near the end of a period the descriptor of the next one is not posted.
UploadThisPeriod(s) ==
    LET valid == get_seconds_valid(s.now)
        s1 == directory_post_to_hs_dir(s, rend_compute_v2_desc_id(s.now, 0))
    IN  [s1 EXCEPT !.dirty = NULL,
                   !.next = IF valid - OVERLAP > RendPostPeriod THEN s.now + RendPostPeriod
                            ELSE IF valid < OVERLAP THEN s.now + valid + 1
                            ELSE s.now + valid - OVERLAP + 1]

upload_service_descriptor(s) ==
    LET valid == get_seconds_valid(s.now)
        s1 == directory_post_to_hs_dir(s, rend_compute_v2_desc_id(s.now, 0))
        s2 == [s1 EXCEPT !.dirty = NULL,
                         !.next = IF valid - OVERLAP > RendPostPeriod THEN s.now + RendPostPeriod
                                  ELSE IF valid < OVERLAP THEN s.now + valid + 1
                                  ELSE s.now + valid - OVERLAP + 1]
    IN  IF valid < OVERLAP
        THEN directory_post_to_hs_dir(s2, rend_compute_v2_desc_id(s.now, 1)) ELSE s2

rend_consider_services_upload(s) ==
    LET due(n) == n < s.now \/ (s.dirty # NULL /\ s.dirty < s.now)
        times == IF s.next = NULL THEN s.now..(s.now + 2 * RendPostPeriod - 1) ELSE {s.next}
    IN  {LET s1 == [s EXCEPT !.next = n]
         IN  IF due(n) THEN upload_service_descriptor(rend_service_update_descriptor(s1)) ELSE s1 :
            n \in times}

rend_consider_descriptor_republication(s) ==
    LET s1 == [s EXCEPT !.changed = FALSE]
    IN  IF s.changed /\ s.desc # NULL /\ ~s.desc.done THEN upload_service_descriptor(s1) ELSE s1

(***************************************************************************)
(* The directories store and drop.                                         *)
(***************************************************************************)
Newest(s, d, id) == Max({e.made : e \in {e \in s.store[d] : e.id = id}} \cup {-1})

rend_cache_store_v2_desc_as_dir(s, d, p) ==
    IF \/ ~hid_serv_responsible_for_desc_id(s.view[d], d, p.id)
       \/ p.made < s.now - CACHE_AGE \/ Newest(s, d, p.id) > p.made
    THEN s
    ELSE [s EXCEPT !.store[d] = {e \in @ : e.id # p.id} \cup {[id |-> p.id, made |-> p.made]}]

rend_cache_clean_v2_descs_as_dir(s) ==
    [s EXCEPT !.store = [d \in HsDirsAll |->
        {e \in @[d] : /\ e.made >= s.now - CACHE_AGE
                      /\ hid_serv_responsible_for_desc_id(s.view[d], d, e.id)}]]

rend_cache_clean(s) ==
    [s EXCEPT !.cache = IF @ # NULL /\ @ < s.now - CACHE_AGE THEN NULL ELSE @]

(***************************************************************************)
(* The client asks one responsible directory after the other.              *)
(***************************************************************************)
directory_clean_last_hid_serv_requests(s) ==
    [s EXCEPT !.asked = {a \in @ : a.at >= s.now + Skew - REQUERY}]

directory_get_from_hs_dir(s0, id) ==
    LET s == directory_clean_last_hid_serv_requests(s0)
        free == {d \in hid_serv_get_responsible_directories(s.client, id) :
                   \A a \in s.asked : ~(a.to = d /\ a.id = id /\ a.at + REQUERY >= s.now + Skew)}
    IN  {[s EXCEPT !.asked = @ \cup {[to |-> d, id |-> id, at |-> s.now + Skew]},
                   !.fetch = [to |-> d, id |-> id]] : d \in free}

\* Whether a client that was refused at every directory ends the stream.
rend_client_refetch_v2_renddesc(s) ==
    LET next == UNION {directory_get_from_hs_dir(s, id) :
                         id \in rend_compute_v2_desc_id(s.now + Skew, 0)}
    IN  IF s.cache # NULL THEN {s}
        ELSE IF next = {} THEN {[s EXCEPT !.stream = "failed"]} ELSE next

rend_cache_store_v2_desc_as_client(s, made) ==
    IF made < s.now + Skew - CACHE_AGE \/ (s.cache # NULL /\ s.cache > made) THEN s
    ELSE [s EXCEPT !.cache = made]

(***************************************************************************)
(* Steps.                                                                  *)
(***************************************************************************)
HdInit ==
    hd = [now |-> 0, view |-> [d \in HsDirsAll |-> 1], server |-> 1, client |-> 1,
          unknown |-> Unknown, desc |-> NULL, next |-> NULL, dirty |-> NULL, changed |-> FALSE,
          posts |-> {}, store |-> [d \in HsDirsAll |-> {}], cache |-> NULL, asked |-> {},
          fetch |-> NULL, stream |-> "none", published |-> FALSE, events |-> 0]

\* Uploads and answers arrive before the next second: the clock waits for them.
HdTick ==
    /\ hd.now < HdMaxTime /\ hd.posts = {} /\ hd.fetch = NULL
    /\ LET s == rend_cache_clean(rend_cache_clean_v2_descs_as_dir([hd EXCEPT !.now = @ + 1]))
       IN  \E t \in rend_consider_services_upload(s) :
             hd' = rend_consider_descriptor_republication(t)

\* Directories move in two groups: those that may be late, and the others.
Groups == {Late, HsDirsAll \ Late}

PostsArrive ==
    \E G \in Groups :
        LET P == {p \in hd.posts : p.to \in G}
        IN  /\ P # {}
            /\ hd' = FoldSet(LAMBDA p, s : rend_cache_store_v2_desc_as_dir(s, p.to, p),
                             [hd EXCEPT !.posts = @ \ P], P)

\* A node takes up the second consensus.
LearnsConsensus ==
    \/ \E G \in Groups : hd' = [hd EXCEPT !.view = [d \in HsDirsAll |-> IF d \in G THEN 2 ELSE @[d]]]
    \/ hd.server = 1 /\ hd' = [hd EXCEPT !.server = 2, !.changed = TRUE]
    \/ hd.client = 1 /\ hd' = [hd EXCEPT !.client = 2]

LearnsRouter == \E d \in hd.unknown : hd' = [hd EXCEPT !.unknown = @ \ {d}, !.changed = TRUE]

IntroEstablished ==
    /\ hd.events < MaxEvents /\ hd' = [hd EXCEPT !.dirty = hd.now, !.events = @ + 1]

\* SIGHUP: rend_config_services makes the service anew; only its introduction
\* points and its keys survive.
rend_config_services ==
    /\ hd.events < MaxEvents
    /\ hd' = [hd EXCEPT !.desc = NULL, !.next = NULL, !.dirty = NULL, !.events = @ + 1,
                        !.published = FALSE]

ClientBegins ==
    /\ hd.stream = "none" /\ hd.fetch = NULL
    /\ hd' \in rend_client_refetch_v2_renddesc(
                 [hd EXCEPT !.stream = "waiting", !.published = hd.desc # NULL])

FetchAnswered ==
    /\ hd.fetch # NULL /\ hd.posts = {}
    /\ LET s == [hd EXCEPT !.fetch = NULL]
           made == Newest(hd, hd.fetch.to, hd.fetch.id)
       IN  IF made < 0 THEN hd' \in rend_client_refetch_v2_renddesc(s)
           ELSE hd' = [rend_cache_store_v2_desc_as_client(s, made) EXCEPT !.stream = "found"]

HdNext ==
    \/ HdTick \/ PostsArrive \/ LearnsConsensus \/ LearnsRouter \/ IntroEstablished
    \/ rend_config_services \/ ClientBegins \/ FetchAnswered

HdSpec == HdInit /\ [][HdNext]_hd

(***************************************************************************)
(* Properties.                                                             *)
(***************************************************************************)
\* Once the running service has published (rendservice.c:1865), at every time,
\* under either consensus and for a client whose clock is ahead, some directory
\* the client would ask holds the descriptor under the id the client computes;
\* so a client that began after that is not told there is none.
Findable ==
    /\ hd.desc # NULL => \A t \in {hd.now, hd.now + Skew}, v \in {hd.server, hd.client} :
          \E id \in rend_compute_v2_desc_id(t, 0) :
             \E d \in hid_serv_get_responsible_directories(v, id) :
                \/ Newest(hd, d, id) >= 0 \/ \E p \in hd.posts : p.to = d /\ p.id = id
    /\ hd.stream = "failed" => ~hd.published
=============================================================================

----------------------------- MODULE Authority -----------------------------
(***************************************************************************)
(* A directory authority's opinion of the routers (or/dirserv.c).  It      *)
(* accepts descriptors from their routers if the approved-routers file     *)
(* and its policies let it, tries in turn to connect to every router it    *)
(* lists, keeps the history of which were reachable (module RepHist) and,  *)
(* when it votes, gives each its flags.  The file and the policies may be  *)
(* changed while it runs, routers move, and it may be restarted.           *)
(*                                                                         *)
(* One tick is the ten seconds between two rounds of tests; every round    *)
(* tests one of TestSubsets parts of the list.  A descriptor is its        *)
(* publication time and its address; a router's other data is constant.    *)
(* Fields where, steady, reached and touched are about the world outside   *)
(* the process: where each router really listens and since when, when it   *)
(* was last reached at which address, and whether the options changed      *)
(* after the list was last judged.                                         *)
(***************************************************************************)
EXTENDS Integers, FiniteSets, FiniteSetsExt, SequencesExt

CONSTANT NULL   \* the null pointer: none of the objects of the module

CONSTANTS
  Ids, Me,
  Addresses, MyAddress,
  CachedAt,                 \* where the descriptors in the cache at the start may say routers are
  Nick(_), Bandwidth(_), IsExit(_), Subset(_), GoodVersion(_), WantsHsDir(_),
  Illegal,                  \* nicknames the approved-routers file may not give
  ApprovedFiles,            \* contents the approved-routers file may have
  Policies_,                \* values the AuthDir* options may have
  Naming,                   \* NamingAuthoritativeDir
  TestSubsets, REACHABLE_TIMEOUT,
  LearnTime,                \* TestingAuthDirTimeToLearnReachability
  ROUTER_MAX_AGE_TO_PUBLISH, MAX_COSMETIC,
  MaxServersPerAddr, MaxServersPerAuthAddr,
  UPTIME_STABLE, MTBF_STABLE, BW_FAST, BW_GUARD, MIN_BW, TIME_FAMILIAR, WFU_GUARD,
  MinUptimeHidServ, ENOUGH_MEASURED,
  ONE, ALPHA, STABILITY_INTERVAL, SAVE_STABILITY_INTERVAL, CLEAN_CACHES_INTERVAL,
  RephistTrackTime, YEAR, RhStart, RhMaxTime, RhMaxRestarts,
  VoteInterval,             \* ticks from one vote to the next
  AuMaxChanges              \* bound on moves, uploads and reloads

VARIABLE au

Hist == INSTANCE RepHist WITH Authority <- TRUE, EarlyConns <- FALSE, rh <- au.h

Now(s) == s.h.now
Listed_(s) == {i \in Ids : s.list[i] # NULL}

\* ------------------------------------------------------ the approved-routers file
authdir_config_new == [fp_by_name |-> {}, status |-> [i \in Ids |-> {}]]

\* fp_by_name is a set of pairs, one for each nickname.
add_fingerprint_to_dir(list, nickname, id) ==
  LET bang == [b \in {"!reject", "!invalid", "!baddir", "!badexit"} |->
                 CASE b = "!reject" -> "REJECT"   [] b = "!invalid" -> "INVALID"
                   [] b = "!baddir" -> "BADDIR"   [] OTHER -> "BADEXIT"]
  IN IF nickname = "Unnamed" THEN list
     ELSE IF nickname \in DOMAIN bang
     THEN [list EXCEPT !.status[id] = @ \cup {bang[nickname]}]
     ELSE [list EXCEPT !.fp_by_name = {p \in @ : p[1] # nickname} \cup {<<nickname, id>>},
                       !.status[id] = @ \cup {"NAMED"}]

dirserv_add_own_fingerprint(s) ==
  [s EXCEPT !.fp = add_fingerprint_to_dir(@, Nick(Me), Me)]

dirserv_get_name_status(fp, id, nickname) ==
  IF <<nickname, id>> \in fp.fp_by_name THEN {"NAMED"}
  ELSE IF \E p \in fp.fp_by_name : p[1] = nickname THEN {"UNNAMED"}
  ELSE {}

dirserv_get_status_impl(s, id, addr) ==
  LET o == s.opt
      named == dirserv_get_name_status(s.fp, id, Nick(id))
      known == named \cup (s.fp.status[id] \ {"NAMED"})
      bad == (IF addr \in o.baddir THEN {"BADDIR"} ELSE {})
             \cup (IF addr \in o.badexit THEN {"BADEXIT"} ELSE {})
      all == known \cup bad \cup
             (IF "NAMED" \notin known /\ addr \in o.invalid THEN {"INVALID"} ELSE {})
  IN IF \/ "REJECT" \in known
        \/ "NAMED" \notin known /\ (addr \in o.reject \/ o.unlisted)
     THEN {"REJECT"} ELSE all

dirserv_router_get_status(s, id, d) == dirserv_get_status_impl(s, id, d.addr)

WithFlags(d, status) ==
  [d EXCEPT !.named = "NAMED" \in status, !.valid = "INVALID" \notin status,
            !.baddir = "BADDIR" \in status, !.badexit = "BADEXIT" \in status]

\* routerlist_remove: the history learns that the router is down.
routerlist_remove(s, id) ==
  [s EXCEPT !.list[id] = NULL, !.h = [Hist!rep_hist_note_router_unreachable(@, id)
                                        EXCEPT !.listed = @ \ {id}]]

directory_remove_invalid(s) ==
  LET Rejected == {i \in Listed_(s) : "REJECT" \in dirserv_router_get_status(s, i, s.list[i])}
      t == FoldSet(LAMBDA i, r : routerlist_remove(r, i), s, Rejected)
  IN [t EXCEPT !.list = [i \in Ids |->
        IF @[i] = NULL THEN NULL ELSE WithFlags(@[i], dirserv_router_get_status(s, i, @[i]))]]

\* A file that is missing or cannot be read (NULL) leaves the old list.
dirserv_load_fingerprint_file(s) ==
  LET Legal(l) == l[1] \notin Illegal \cup {"Unnamed", "client", "!baddir"}
      new == FoldLeft(LAMBDA a, l : add_fingerprint_to_dir(a, l[1], l[2]),
                      authdir_config_new, SelectSeq(s.file, Legal))
  IN IF s.file = NULL THEN s
     ELSE directory_remove_invalid([s EXCEPT !.fp = new, !.touched = FALSE])

\* ------------------------------------------------------------------ descriptors
authdir_wants_to_reject_router(s, id, d) ==
  \/ "REJECT" \in dirserv_router_get_status(s, id, d)
  \/ d.pub + ROUTER_MAX_AGE_TO_PUBLISH < Now(s)

router_differences_are_cosmetic(r1, r2) ==
  r1.addr = r2.addr /\ r1.pub + MAX_COSMETIC >= r2.pub

\* What router_add_to_routerlist does on an authority: what we know of an
\* address carries over to a newer descriptor with that address.
router_add_to_routerlist(s, id, d) ==
  LET old == s.list[id]
      new == WithFlags(d, dirserv_router_get_status(s, id, d))
      kept == IF old # NULL /\ old.addr = d.addr
              THEN [new EXCEPT !.reach = old.reach, !.testing = old.testing] ELSE new
  IN IF authdir_wants_to_reject_router(s, id, d) \/ (old # NULL /\ d.pub <= old.pub) THEN s
     ELSE [s EXCEPT !.list[id] = kept, !.h.listed = @ \cup {id}]

dirserv_add_descriptor(s, id, d) ==
  LET old == s.list[id]
  IN IF old # NULL /\ old.pub < d.pub /\ router_differences_are_cosmetic(old, d) /\ id # Me
     THEN s
     ELSE router_add_to_routerlist(s, id, d)

Descriptor(s, id) ==
  [pub |-> Now(s), addr |-> s.where[id], reach |-> 0, testing |-> 0, running |-> FALSE,
   named |-> FALSE, valid |-> FALSE, baddir |-> FALSE, badexit |-> FALSE]

\* ----------------------------------------------------------------- reachability
dirserv_orconn_tls_done(s, id, addr) ==
  IF s.list[id] # NULL /\ s.list[id].addr = addr
  THEN [s EXCEPT !.h = Hist!rep_hist_note_router_reachable(@, id),
                 !.list[id].reach = Now(s)]
  ELSE s

dirserv_test_reachability(s, try_all) ==
  LET Tests == {i \in Listed_(s) \ {Me} : try_all \/ Subset(i) = s.ctr}
  IN [s EXCEPT
        !.list = [i \in Ids |-> IF i \in Tests /\ @[i].testing = 0
                                THEN [@[i] EXCEPT !.testing = Now(s)] ELSE @[i]],
        !.conns = @ \cup {<<i, s.list[i].addr>> : i \in Tests},
        !.ctr = IF try_all THEN @ ELSE (@ + 1) % TestSubsets]

dirserv_set_router_is_running(s, id) ==
  LET answer == id = Me \/ (/\ s.list[id].reach # 0
                            /\ Now(s) < s.list[id].reach + REACHABLE_TIMEOUT)
  IN [s EXCEPT !.h = IF answer THEN @ ELSE Hist!rep_hist_note_router_unreachable(@, id),
               !.list[id].running = answer]

\* -------------------------------------------------------------- flags and votes
router_is_active(s, id) ==
  LET d == s.list[id]
  IN d.pub + ROUTER_MAX_AGE_TO_PUBLISH >= Now(s) /\ d.running /\ d.valid

real_uptime(s, id) == Now(s) - s.list[id].pub

\* The k-th smallest, counting from 0, of the values v has on S
find_nth(S, v, k) ==
  CHOOSE x \in {v[i] : i \in S} :
    /\ Cardinality({i \in S : v[i] < x}) <= k
    /\ Cardinality({i \in S : v[i] <= x}) > k

median(S, v) == find_nth(S, v, (Cardinality(S) - 1) \div 2)

Mtbf(s, id) == Hist!get_stability(Hist!get_or_history(s.h, id), Now(s))
TimeKnown(s, id) == Hist!get_total_weighted_time(Hist!get_or_history(s.h, id), Now(s))
Wfu(s, id) == Hist!get_weighted_fractional_uptime(Hist!get_or_history(s.h, id), Now(s))

dirserv_compute_performance_thresholds(s) ==
  LET active == {i \in Listed_(s) : router_is_active(s, i)}
      n == Cardinality(active)
      nonexit == {i \in active : ~ IsExit(i) \/ s.list[i].badexit}
      Bw == [i \in active |-> Bandwidth(i)]
      Up == [i \in active |-> real_uptime(s, i)]
      Mt == [i \in active |-> Mtbf(s, i)]
      Tk == [i \in active |-> TimeKnown(s, i)]
      Wf == [i \in active |-> Wfu(s, i)]
      fast0 == find_nth(active, Bw, n \div 8)
      fast == IF fast0 < MIN_BW \div 2 THEN find_nth(active, Bw, n \div 4) ELSE fast0
      tk == IF n = 0 THEN 0 ELSE Min({find_nth(active, Tk, n \div 8), TIME_FAMILIAR})
      familiar == {i \in active : Tk[i] >= tk}
      Total(S) == FoldSet(LAMBDA i, x : x + Bandwidth(i), 0, S)
  IN [stable_uptime |-> IF n = 0 THEN 0 ELSE median(active, Up),
      stable_mtbf |-> IF n = 0 THEN 0 ELSE median(active, Mt),
      fast |-> IF n = 0 THEN 0 ELSE Min({fast, BW_FAST}),
      guard_tk |-> tk,
      guard_wfu |-> IF familiar = {} THEN 0 ELSE Min({median(familiar, Wf), WFU_GUARD}),
      guard_with |-> IF n = 0 THEN 0 ELSE median(active, Bw),
      guard_without |-> IF nonexit = {} THEN 0 ELSE median(nonexit, Bw),
      exits_can_be_guards |-> Total(active \ nonexit) >= Total(active) \div 3,
      enough |-> s.h.tracked < Now(s) - ENOUGH_MEASURED]

dirserv_thinks_router_is_unreliable(s, th, id, need_uptime, need_capacity) ==
  \/ /\ need_uptime
     /\ IF th.enough
        THEN Mtbf(s, id) < th.stable_mtbf /\ Mtbf(s, id) < MTBF_STABLE
        ELSE real_uptime(s, id) < th.stable_uptime /\ real_uptime(s, id) < UPTIME_STABLE
  \/ need_capacity /\ Bandwidth(id) < th.fast

dirserv_thinks_router_is_hs_dir(s, id) ==
  WantsHsDir(id) /\ real_uptime(s, id) > MinUptimeHidServ /\ s.list[id].running

set_routerstatus_from_routerinfo(s, th, id) ==
  LET d == s.list[id]
      fast == router_is_active(s, id)
              /\ ~ dirserv_thinks_router_is_unreliable(s, th, id, FALSE, TRUE)
      enough == IF th.exits_can_be_guards THEN th.guard_with ELSE th.guard_without
      name == IF Naming /\ Nick(id) # "Unnamed" THEN dirserv_get_name_status(s.fp, id, Nick(id)) ELSE {}
  IN [addr |-> d.addr, running |-> d.running, valid |-> d.valid, fast |-> fast,
      stable |-> /\ router_is_active(s, id) /\ GoodVersion(id)
                 /\ ~ dirserv_thinks_router_is_unreliable(s, th, id, TRUE, FALSE),
      guard |-> /\ fast
                /\ ~ IsExit(id) \/ th.exits_can_be_guards
                /\ Bandwidth(id) >= BW_GUARD \/ Bandwidth(id) >= enough
                /\ Wfu(s, id) >= th.guard_wfu /\ TimeKnown(s, id) >= th.guard_tk,
      hsdir |-> dirserv_thinks_router_is_hs_dir(s, id),
      named |-> "NAMED" \in name, unnamed |-> "UNNAMED" \in name]

\* First the authorities, then the running, then the faster; ties by digest.
\* Before(s, a, b): a and b are at one address and a comes first.
_compare_routerinfo_by_ip_and_bw(s, a, b) ==
  LET Rank(i) == (IF i = Me THEN 0 ELSE 4) + (IF s.list[i].running THEN 0 ELSE 2)
      Place(i) == CHOOSE n \in 1..Cardinality(Ids) : SetToSeq(Ids)[n] = i
  IN \/ Rank(a) < Rank(b)
     \/ Rank(a) = Rank(b) /\ Bandwidth(a) > Bandwidth(b)
     \/ Rank(a) = Rank(b) /\ Bandwidth(a) = Bandwidth(b) /\ Place(a) < Place(b)

\* Variant: one router too many is allowed at an address.
SybilsOffByOne(s) ==
  LET SameAddr(i) == {j \in Listed_(s) : s.list[j].addr = s.list[i].addr}
      Count(i) == Cardinality({j \in SameAddr(i) : _compare_routerinfo_by_ip_and_bw(s, j, i)})
  IN {i \in Listed_(s) :
        /\ Count(i) > MaxServersPerAddr
        /\ s.list[i].addr # MyAddress \/ Count(i) > MaxServersPerAuthAddr}

get_possible_sybil_list(s) ==
  LET SameAddr(i) == {j \in Listed_(s) : s.list[j].addr = s.list[i].addr}
      Count(i) == 1 + Cardinality({j \in SameAddr(i) : _compare_routerinfo_by_ip_and_bw(s, j, i)})
  IN {i \in Listed_(s) :
        /\ Count(i) > MaxServersPerAddr
        /\ s.list[i].addr # MyAddress \/ Count(i) > MaxServersPerAuthAddr}

clear_status_flags_on_sybil(rs) ==
  [rs EXCEPT !.running = FALSE, !.valid = FALSE, !.fast = FALSE, !.stable = FALSE,
             !.guard = FALSE, !.hsdir = FALSE, !.named = FALSE]

dirserv_generate_networkstatus_vote_obj(s0) ==
  LET s == FoldSet(LAMBDA i, r : dirserv_set_router_is_running(r, i), s0, Listed_(s0))
      th == dirserv_compute_performance_thresholds(s)
      sybils == get_possible_sybil_list(s)
      learned == Now(s) - s.started >= LearnTime
      Status(i) ==
        LET rs == set_routerstatus_from_routerinfo(s, th, i)
            cs == IF i \in sybils THEN clear_status_flags_on_sybil(rs) ELSE rs
        IN [cs EXCEPT !.running = @ /\ learned]
      Votes(i) == s.list[i] # NULL /\ s.list[i].pub + ROUTER_MAX_AGE_TO_PUBLISH >= Now(s)
  IN [s EXCEPT !.vote = [at |-> Now(s), th |-> th, sybils |-> sybils,
                         active |-> {i \in Listed_(s) : router_is_active(s, i)},
                         up |-> {i \in Listed_(s) : s.list[i].running},
                         rs |-> [i \in {j \in Ids : Votes(j)} |-> Status(i)]]]

\* ------------------------------------------------------------------ the process
\* init_keys, the cached descriptors, and a test of them all
Boot(h, list, file, opt, where, steady, reached) ==
  LET s0 == [h |-> h, list |-> [i \in Ids |-> NULL], fp |-> authdir_config_new,
             file |-> file, opt |-> opt, ctr |-> 0, conns |-> {}, vote |-> NULL,
             started |-> h.now, where |-> where, steady |-> steady, reached |-> reached,
             touched |-> FALSE]
      s1 == dirserv_add_own_fingerprint(s0)
      s2 == dirserv_add_descriptor(s1, Me, Descriptor(s1, Me))
      s3 == dirserv_load_fingerprint_file(s2)
      s4 == FoldSet(LAMBDA i, r : router_add_to_routerlist(r, i,
                                    [list[i] EXCEPT !.reach = 0, !.testing = 0]),
                    s3, {i \in Ids \ {Me} : list[i] # NULL})
  IN dirserv_test_reachability(s4, TRUE)

\* Cached descriptors were published, at some address, before the start.
Cached == [pub |-> RhStart - 1, addr |-> NULL, reach |-> 0, testing |-> 0, running |-> FALSE,
           named |-> FALSE, valid |-> FALSE, baddir |-> FALSE, badexit |-> FALSE]

AuInit ==
  \E file \in ApprovedFiles, opt \in Policies_,
     at \in [Ids \ {Me} -> Addresses], old \in CachedAt :
    LET where == [i \in Ids |-> IF i = Me THEN MyAddress ELSE at[i]]
        cached == [i \in Ids |-> IF i = Me THEN NULL ELSE [Cached EXCEPT !.addr = old[i]]]
        boot == Boot(Hist!Booted(RhStart, NULL, 0), cached, file, opt, where,
                     [i \in Ids |-> RhStart], [i \in Ids |-> {}])
    IN au = [f \in DOMAIN boot \cup {"changes"} |->
               IF f = "changes" THEN 0 ELSE boot[f]]

Change == au.changes < AuMaxChanges

\* A router starts, moves or stops.
Moves ==
  \E id \in Ids \ {Me}, a \in Addresses \cup {NULL} :
    /\ Change /\ a # au.where[id]
    /\ au' = [au EXCEPT !.where[id] = a, !.steady[id] = Now(au), !.changes = @ + 1]

\* A running router uploads a descriptor.
Uploads ==
  \E id \in Ids \ {Me} :
    /\ Change /\ au.where[id] # NULL
    /\ LET new == dirserv_add_descriptor(au, id, Descriptor(au, id))
           same == au.list[id] # NULL /\ au.list[id].addr = new.list[id].addr
       IN /\ new # au
          /\ au' = [new EXCEPT !.changes = @ + 1,
                               !.steady[id] = IF same THEN @ ELSE Now(au)]

\* The other end of a connection answers, or nobody does.
Connects ==
  \E c \in au.conns :
    au' = IF au.where[c[1]] = c[2]
          THEN [dirserv_orconn_tls_done(au, c[1], c[2]) EXCEPT
                  !.conns = @ \ {c}, !.reached[c[1]] = {p \in @ : p[1] # c[2]} \cup {<<c[2], Now(au)>>}]
          ELSE [au EXCEPT !.conns = @ \ {c}]

AuTick ==
  LET a == dirserv_test_reachability([au EXCEPT !.h.now = @ + 1, !.vote = NULL], FALSE)
  IN /\ Now(au) < RhMaxTime /\ au.conns = {}
     /\ au' = [a EXCEPT !.h = Hist!run_scheduled_events(@, TRUE)]

Voted == au.vote = NULL /\ Now(au) % VoteInterval = 0 /\ au' = dirserv_generate_networkstatus_vote_obj(au)

\* SETCONF changes the policies; do_hup reads the file again.
Reconfigures ==
  \E o \in Policies_ :
    /\ Change /\ o # au.opt
    /\ au' = [au EXCEPT !.opt = o, !.touched = TRUE, !.changes = @ + 1]

HupReload ==
  \E file \in ApprovedFiles :
    /\ Change
    /\ au' = [dirserv_load_fingerprint_file([au EXCEPT !.file = file]) EXCEPT !.changes = @ + 1]

\* With tor_cleanup, or without it
AuRestart ==
  /\ au.h.starts < RhMaxRestarts
  /\ \E stop \in BOOLEAN :
       LET h == IF stop THEN Hist!rep_hist_record_mtbf_data(au.h, FALSE, TRUE) ELSE au.h
           boot == Boot([Hist!Booted(h.now, h.file, h.starts + 1) EXCEPT !.listed = {}],
                        au.list, au.file, au.opt, au.where, au.steady, au.reached)
       IN au' = [f \in DOMAIN au |-> IF f = "changes" THEN au.changes ELSE boot[f]]

AuNext == Moves \/ Uploads \/ Connects \/ AuTick \/ Voted \/ Reconfigures \/ HupReload \/ AuRestart

AuSpec == AuInit /\ [][AuNext]_au

\* ------------------------------------------------------------------- properties
(* Unless the options have changed since the list was last judged as a       *)
(* whole, what each listed router is marked as is what the approved-routers  *)
(* entries and the policies say of it now, and none of them is rejected:     *)
(* reloads, uploads and restarts in any order leave no stale verdict         *)
(* (dirserv_load_fingerprint_file, authdir_wants_to_reject_router).          *)
VerdictsCurrent ==
  ~ au.touched =>
    \A i \in Listed_(au) :
      LET status == dirserv_router_get_status(au, i, au.list[i])
      IN "REJECT" \notin status /\ au.list[i] = WithFlags(au.list[i], status)

(* A vote says Running of a router only if we reached that very address less *)
(* than REACHABLE_TIMEOUT ago, and it does say so of a router that has been  *)
(* listening at its listed address for a whole round of tests, once we have  *)
(* had time to learn: a router that moves does not inherit what we know of   *)
(* its old address (router_add_to_routerlist, dirserv_orconn_tls_done).      *)
RunningIsReachable ==
  au.vote # NULL =>
    \A i \in DOMAIN au.vote.rs \ {Me} :
      LET rs == au.vote.rs[i]
      IN /\ rs.running =>
              \E p \in au.reached[i] :
                p[1] = rs.addr /\ au.vote.at < p[2] + REACHABLE_TIMEOUT
         /\ /\ au.vote.at - au.started >= LearnTime
            /\ au.vote.at - Max({au.steady[i], au.started}) > TestSubsets
            /\ au.where[i] = rs.addr
            /\ i \notin au.vote.sybils
            => rs.running

(* The thresholds are fair: of the active routers at least half are Stable   *)
(* and at least three quarters Fast, at most MaxServersPerAddr of the        *)
(* routers at one address keep any flag, and one that keeps them is not      *)
(* down while another at its address that runs has lost them                 *)
(* (dirserv_compute_performance_thresholds, get_possible_sybil_list).        *)
FlagsFair ==
  au.vote # NULL =>
    LET v == au.vote
        of(S) == Cardinality(S)
    IN /\ v.sybils = {} =>
            /\ 2 * of({i \in v.active : v.rs[i].stable \/ ~ GoodVersion(i)}) >= of(v.active)
            /\ 4 * of({i \in v.active : v.rs[i].fast}) >= 3 * of(v.active)
       /\ \A a \in Addresses :
            LET there == {i \in DOMAIN v.rs : v.rs[i].addr = a}
            IN /\ of({i \in there : i \notin v.sybils}) <= MaxServersPerAddr
               /\ \A i \in there \cap v.sybils, j \in there \ v.sybils :
                    i \in v.up => j \in v.up

(* Every second of a router's history is still counted once when tests,      *)
(* votes, reloads and restarts are what drives it.                           *)
HistoryCounted == Hist!TimeCountedOnce
=============================================================================

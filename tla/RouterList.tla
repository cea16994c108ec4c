----------------------------- MODULE RouterList -----------------------------
(***************************************************************************)
(* The router descriptors a node keeps (routerlist.c): the current one of  *)
(* each router, old ones that a directory cache keeps for others, the      *)
(* extra-info documents, the maps that find them, and the two stores on    *)
(* disk, a cache file and a journal, that are read again after a restart.  *)
(*                                                                         *)
(* A descriptor is <<router, time of publication>>; it and its extra-info  *)
(* document (for the descriptors in HasExtra) have the same name.  Every   *)
(* document has length 1.  The node is no authority, and only says whether *)
(* it has enough version 2 statuses.                                       *)
(***************************************************************************)
EXTENDS Integers, Sequences, FiniteSets, SequencesExt

CONSTANT NULL   \* the null pointer: none of the objects of the module

CONSTANTS
    Ids,
    RlMaxTime,                \* bound
    HasExtra,
    Caches,                   \* directory_caches_dir_info
    EnoughV2,                 \* more than half of the version 2 statuses are there
    OLD_ROUTER_DESC_MAX_AGE, ROUTER_MAX_AGE, VALID_FOR,
    SmallStore, SmallJournal, \* 2^16 and 2^15 bytes
    MaxFailures,
    Postable,                 \* descriptors a controller may post
    DiskMayFill,
    MaxDropped, MaxRestarts   \* bounds

VARIABLE rl

Times == 0 .. RlMaxTime
Descs == Ids \X Times
Stores == {"desc", "extra"}
IsCurrent(s, d) == s.routers[d[1]] = d
Held(s) == {d \in Descs : IsCurrent(s, d)} \cup s.old
InConsensus(s, d) == s.cons # NULL /\ s.cons[d[1]] = d

More(n) == Min({n + 1, MaxDropped})

(* What is known of document d in a store is forgotten; its bytes there are *)
(* wasted.                                                                  *)
DropExtra(s, d) ==
    IF d \notin s.extra THEN s
    ELSE [s EXCEPT !.extra = @ \ {d}, !.saved["extra"][d] = "nowhere", !.dropped["extra"] = More(@)]

Forget(s, d) == [s EXCEPT !.saved["desc"][d] = "nowhere", !.listed[d] = 0, !.nocache = @ \ {d}]

(* Room on disk may be short: then the document is saved nowhere.           *)
signed_desc_append_to_journal(s, st, d) ==
    IF s.full THEN s
    ELSE [s EXCEPT !.journal[st] = Append(@, d), !.jlen[st] = @ + 1, !.saved[st][d] = "journal"]

MapTo(s, d, where) ==
    [s EXCEPT !.desc_digest_map[d] = where,
              !.desc_by_eid_map[d] = IF d \in HasExtra THEN where ELSE @]

routerlist_insert(s, d) == [MapTo(s, d, "cur") EXCEPT !.routers[d[1]] = d]

routerlist_insert_old(s, d) ==
    IF Caches /\ s.desc_digest_map[d] = "none"
    THEN [MapTo(s, d, "old") EXCEPT !.old = @ \cup {d}]
    ELSE Forget(s, d)

routerlist_remove(s, d, make_old) ==
    LET gone == [s EXCEPT !.routers[d[1]] = NULL]
    IN  IF make_old /\ Caches THEN [MapTo(gone, d, "old") EXCEPT !.old = @ \cup {d}]
        ELSE Forget(DropExtra([MapTo(gone, d, "none") EXCEPT !.dropped["desc"] = More(@)], d), d)

routerlist_remove_old(s, d) ==
    Forget(DropExtra([MapTo(s, d, "none") EXCEPT !.old = @ \ {d}, !.dropped["desc"] = More(@)], d), d)

\* Variant: the map still finds the descriptor that was replaced.
ReplaceKeepingMap(s, d_old, d) ==
    LET new == [MapTo(s, d, "cur") EXCEPT !.routers[d[1]] = d]
    IN  IF Caches THEN [new EXCEPT !.old = @ \cup {d_old}]
        ELSE Forget(DropExtra([new EXCEPT !.dropped["desc"] = More(@)], d_old), d_old)

routerlist_replace(s, d_old, d) ==
    LET new == [MapTo(s, d, "cur") EXCEPT !.routers[d[1]] = d]
    IN  IF Caches THEN [MapTo(new, d_old, "old") EXCEPT !.old = @ \cup {d_old}]
        ELSE Forget(DropExtra([MapTo(new, d_old, "none") EXCEPT !.dropped["desc"] = More(@)], d_old), d_old)

(* A descriptor that was fetched, that a controller posted, or that is read *)
(* from disk.                                                               *)
router_add_to_routerlist(s, d, from_cache, from_fetch) ==
    LET journaled(t) == IF from_cache THEN t ELSE signed_desc_append_to_journal(t, "desc", d)
        skipped == routerlist_insert_old(IF Caches THEN journaled(s) ELSE s, d)
        old == s.routers[d[1]]
    IN  IF s.desc_digest_map[d] # "none" THEN s
        ELSE IF ~InConsensus(s, d) /\ (from_fetch \/ s.cons # NULL) THEN skipped
        ELSE IF old # NULL
        THEN IF ~InConsensus(s, d) /\ d[2] <= old[2] THEN skipped
             ELSE journaled(routerlist_replace(s, old, d))
        ELSE IF ~InConsensus(s, d) /\ from_cache /\ d[2] < s.now - OLD_ROUTER_DESC_MAX_AGE
             THEN Forget(s, d)
        ELSE journaled(routerlist_insert(s, d))

(* An extra-info document is kept only with the descriptor it belongs to.   *)
extrainfo_insert(s, d) ==
    [s EXCEPT !.extra = @ \cup {d}, !.dropped["extra"] = IF d \in s.extra THEN More(@) ELSE @]

router_add_extrainfo_to_routerlist(s, d, from_cache) ==
    IF s.routers[d[1]] = NULL \/ s.desc_by_eid_map[d] = "none" THEN s
    ELSE IF from_cache THEN extrainfo_insert(s, d)
    ELSE signed_desc_append_to_journal(extrainfo_insert(s, d), "extra", d)

router_should_rebuild_store(s, st) ==
    IF s.slen[st] > SmallStore
    THEN s.jlen[st] > s.slen[st] \div 2 \/ s.dropped[st] > s.slen[st] \div 2
    ELSE s.jlen[st] > SmallJournal

(* The rewritten cache file is in place; the journal is emptied after that. *)
InStore(s, st) == IF st = "extra" THEN s.extra ELSE Held(s) \ s.nocache

CacheReplaced(s, st) ==
    LET docs == SetToSortSeq(InStore(s, st), LAMBDA a, b : a[2] < b[2])
    IN  [s EXCEPT !.file[st] = docs, !.slen[st] = Len(docs),
                  !.saved[st] = [d \in Descs |-> IF d \in ToSet(docs) THEN "cache" ELSE @[d]]]

router_rebuild_store(s, st, force) ==
    IF s.full \/ ~(force \/ router_should_rebuild_store(s, st)) THEN s
    ELSE [CacheReplaced(s, st) EXCEPT !.journal[st] = <<>>, !.jlen[st] = 0, !.dropped[st] = 0]

(* Of too many old descriptors of router i, the ones past the cutoff go     *)
(* first and then the ones that lived shortest.                             *)
Lifespan(mine, d) ==
    LET k == CHOOSE j \in DOMAIN mine : mine[j] = d
    IN  IF k = Len(mine) THEN RlMaxTime + 1 ELSE mine[k + 1][2] - d[2]
RemovedFirst(mine, may, cutoff) ==
    SelectSeq(may, LAMBDA d : d[2] < cutoff)
    \o SortSeq(SelectSeq(may, LAMBDA d : d[2] >= cutoff),
               LAMBDA a, b : Lifespan(mine, a) < Lifespan(mine, b))
Superfluous(s, mine, may, cutoff) ==
    LET n_extra == Len(mine) - (IF Caches THEN 2 ELSE 1)
    IN  IF n_extra <= 0 THEN <<>>
        ELSE SubSeq(RemovedFirst(mine, may, cutoff), 1, Min({n_extra, Len(may)}))
routerlist_remove_old_cached_routers_with_id(s, i, cutoff, retain) ==
    LET Of(mine) == Superfluous(s, mine, SelectSeq(mine, LAMBDA d : s.listed[d] < s.now /\ d \notin retain),
                                cutoff)
    IN  FoldLeft(routerlist_remove_old, s,
                 Of(SetToSortSeq({d \in s.old : d[1] = i}, LAMBDA a, b : a[2] < b[2])))

routerlist_remove_old_routers(s) ==
    LET cutoff == s.now - OLD_ROUTER_DESC_MAX_AGE
        retain == {s.cons[i] : i \in {i \in Ids : s.cons[i] # NULL /\ s.cons[i][2] >= cutoff}}
        Stale(d, age) == d[2] <= s.now - age /\ s.listed[d] < s.now /\ d \notin retain
        Demote(t, i) == IF t.routers[i] # NULL /\ Stale(t.routers[i], ROUTER_MAX_AGE)
                        THEN routerlist_remove(t, t.routers[i], TRUE) ELSE t
        Demoted == IF ~Caches \/ EnoughV2 THEN FoldLeft(Demote, s, SetToSeq(Ids)) ELSE s
        OldGone(t) == FoldLeft(routerlist_remove_old, t,
                               SetToSeq({d \in t.old : Stale(d, OLD_ROUTER_DESC_MAX_AGE)}))
        Trim(t, i) == routerlist_remove_old_cached_routers_with_id(t, i, cutoff, retain)
        Trimmed(t) == IF Cardinality(t.old) < Cardinality({i \in Ids : t.routers[i] # NULL}) THEN t
                      ELSE FoldLeft(Trim, t, SetToSeq(Ids))
    IN  IF s.cons = NULL THEN s
        ELSE router_rebuild_store(router_rebuild_store(Trimmed(OldGone(Demoted)), "desc", FALSE),
                                  "extra", FALSE)

(* A rebuild drops what is old first.                                       *)
Rebuild(s, st, force) ==
    IF force \/ router_should_rebuild_store(s, st)
    THEN router_rebuild_store(routerlist_remove_old_routers(s), st, TRUE) ELSE s

(* A descriptor held as old becomes the current one of its router.          *)
routerlist_reparse_old(s, d) ==
    LET t == routerlist_remove_old(s, d)
    IN  [t EXCEPT !.saved["desc"][d] = s.saved["desc"][d], !.listed[d] = s.listed[d],
                  !.nocache = s.nocache]

(* What the consensus says of listed descriptors is noted as they come in.  *)
routers_update_status_from_consensus_networkstatus(s, ds) ==
    [s EXCEPT !.listed = [d \in Descs |-> IF d \in ds /\ InConsensus(s, d) THEN s.valid_until ELSE @[d]]]

router_load_routers_from_string(s, docs, where) ==
    LET ds == IF where = "nowhere" THEN s
              ELSE [s EXCEPT !.saved["desc"] = [d \in Descs |->
                      IF d \in ToSet(docs) /\ s.desc_digest_map[d] = "none" THEN where ELSE @[d]]]
        Add(t, d) == router_add_to_routerlist(t, d, where # "nowhere", where = "nowhere")
        fresh == SelectSeq(docs, LAMBDA d : s.desc_digest_map[d] = "none")
        Rebuilt(t) == IF \E i \in Ids : t.routers[i] # s.routers[i] THEN Rebuild(t, "desc", FALSE) ELSE t
    IN  Rebuilt(FoldLeft(Add, routers_update_status_from_consensus_networkstatus(ds, ToSet(fresh)), docs))

router_load_extrainfo_from_string(s, docs, where) ==
    LET Add(t, d) ==
          LET u == router_add_extrainfo_to_routerlist(t, d, where # "nowhere")
          IN  IF where # "nowhere" /\ d \in u.extra THEN [u EXCEPT !.saved["extra"][d] = where] ELSE u
    IN  Rebuild(FoldLeft(Add, s, docs), "extra", FALSE)

router_load_single_router(s, d, cache) ==
    LET t == router_add_to_routerlist(routers_update_status_from_consensus_networkstatus(s, {d}), d, FALSE, FALSE)
    IN  IF cache \/ s.desc_digest_map[d] # "none" \/ t.desc_digest_map[d] = "none" THEN t
        ELSE [t EXCEPT !.nocache = @ \cup {d}]

(* Both files are read and, after a journal, written anew.                  *)
LoadStore(s, st, docs, where) ==
    IF st = "extra" THEN router_load_extrainfo_from_string(s, docs, where)
    ELSE router_load_routers_from_string(s, docs, where)
FromCache(s, st) == LoadStore([s EXCEPT !.slen[st] = Len(s.file[st]), !.jlen[st] = 0],
                              st, s.file[st], "cache")
FromJournal(s, st) == [LoadStore(s, st, s.journal[st], "journal") EXCEPT
                         !.jlen[st] = Len(s.journal[st])]
CleanedUp(s, st) == IF s.jlen[st] > 0 THEN Rebuild(s, st, TRUE)
                    ELSE IF st = "desc" THEN routerlist_remove_old_routers(s) ELSE s
router_reload_router_list_impl(s, st) == CleanedUp(FromJournal(FromCache(s, st), st), st)

(* The descriptors the consensus lists that are held as old come back, the  *)
(* ones not held are asked for.                                             *)
client_would_use_router(s, d) == d[2] + OLD_ROUTER_DESC_MAX_AGE >= s.now

update_consensus_router_descriptor_downloads(s) ==
    LET listed == {s.cons[i] : i \in {i \in Ids : s.cons[i] # NULL}}
        Promote(t, d) == router_add_to_routerlist(routerlist_reparse_old(t, d), d, TRUE, FALSE)
        wanted == {d \in listed \ s.pending : /\ s.desc_digest_map[d] = "none"
                                               /\ s.failures[d] < MaxFailures
                                               /\ (Caches \/ client_would_use_router(s, d))}
    IN  [FoldLeft(Promote, s, SetToSeq(listed \cap s.old)) EXCEPT !.pending = @ \cup wanted]

(* An answer has some of the documents that were asked for; the others are  *)
(* asked for again, some times.                                             *)
dir_routerdesc_download_failed(s, ds) ==
    [s EXCEPT !.failures = [d \in Descs |-> IF d \in ds THEN @[d] + 1 ELSE @[d]]]

connection_dir_client_reached_eof(s, ds, got) ==
    router_load_routers_from_string(
      dir_routerdesc_download_failed([s EXCEPT !.pending = @ \ ds], ds \ got), SetToSeq(got), "nowhere")

-----------------------------------------------------------------------------
PerStore(x) == [st \in Stores |-> x]
Memory == [routers |-> [i \in Ids |-> NULL], old |-> {}, extra |-> {},
           desc_digest_map |-> [d \in Descs |-> "none"], desc_by_eid_map |-> [d \in Descs |-> "none"],
           saved |-> PerStore([d \in Descs |-> "nowhere"]), nocache |-> {},
           listed |-> [d \in Descs |-> 0], pending |-> {}, failures |-> [d \in Descs |-> 0],
           slen |-> PerStore(0), jlen |-> PerStore(0), dropped |-> PerStore(0)]
Outside == [now |-> 0, cons |-> NULL, valid_until |-> 0, full |-> FALSE,
            file |-> PerStore(<<>>), journal |-> PerStore(<<>>), posted |-> {}, restarts |-> 0]

RlInit == rl = Memory @@ Outside

(* Routers publish over time and the consensus lists what they published.   *)
RlTick == rl.now < RlMaxTime /\ rl' = [rl EXCEPT !.now = @ + 1]
DiskFills == DiskMayFill /\ rl' = [rl EXCEPT !.full = ~@]
Published == {d \in Descs : d[2] <= rl.now}

NewConsensus ==
    \E c \in [Ids -> {NULL} \cup Published] :
        /\ \A i \in Ids : c[i] # NULL => c[i][1] = i
        /\ c # rl.cons
        /\ LET t == [rl EXCEPT !.cons = c, !.valid_until = rl.now + VALID_FOR]
           IN  rl' = routers_update_status_from_consensus_networkstatus(t, Held(t))

UpdateDownloads == rl.cons # NULL /\ rl' = update_consensus_router_descriptor_downloads(rl)

Fetched == \E ds \in (SUBSET rl.pending) \ {{}} : \E got \in SUBSET ds :
               rl' = connection_dir_client_reached_eof(rl, ds, got)

(* Descriptors that nobody asked for by digest: "authority.z".              *)
FetchedOther == \E d \in Published :
               rl' = router_load_routers_from_string(rl, <<d>>, "nowhere")

FetchedExtra == \E d \in Published \cap HasExtra :
               /\ rl.desc_by_eid_map[d] # "none" /\ d \notin rl.extra
               /\ rl' = router_load_extrainfo_from_string(rl, <<d>>, "nowhere")

Posted == \E d \in Published \cap Postable : /\ rl.desc_digest_map[d] = "none" /\ d \notin rl.posted
                               /\ rl' = [router_load_single_router(rl, d, FALSE)
                                           EXCEPT !.posted = @ \cup {d}]

Clean == rl' = routerlist_remove_old_routers(rl)

(* The process ends, perhaps while it has rewritten a store whose journal   *)
(* is not yet emptied, and starts again.                                    *)
Reload(s) == FoldLeft(router_reload_router_list_impl, Memory @@ [k \in DOMAIN Outside |-> s[k]],
                      <<"desc", "extra">>)
RlRestart == /\ rl.restarts < MaxRestarts
             /\ LET n == [rl EXCEPT !.restarts = @ + 1]
                    half == IF rl.full THEN {} ELSE {CacheReplaced(n, st) : st \in Stores}
                IN  \E t \in {n} \cup half : rl' = Reload(t)

RlNext == \/ RlTick \/ DiskFills \/ NewConsensus \/ UpdateDownloads \/ Fetched
          \/ FetchedOther \/ FetchedExtra \/ Posted \/ Clean \/ RlRestart

RlSpec == RlInit /\ [][RlNext]_rl

-----------------------------------------------------------------------------
(* The maps find exactly what is held, each descriptor in one list          *)
(* (routerlist_assert_ok), extra-info documents only stay with a descriptor *)
(* that is held, and what is noted as saved is in the file it is noted for: *)
(* the body of a descriptor can always be read.                             *)
RouterListOk ==
    /\ \A d \in Descs :
          /\ rl.desc_digest_map[d] = (IF IsCurrent(rl, d) THEN "cur"
                                      ELSE IF d \in rl.old THEN "old" ELSE "none")
          /\ rl.desc_by_eid_map[d] = (IF d \in HasExtra THEN rl.desc_digest_map[d] ELSE "none")
          /\ d \in rl.old => ~IsCurrent(rl, d)
    /\ rl.extra \subseteq Held(rl)
    /\ \A st \in Stores, d \in Descs :
          /\ rl.saved[st][d] = "cache" => d \in ToSet(rl.file[st])
          /\ rl.saved[st][d] = "journal" /\ d \notin rl.nocache => d \in ToSet(rl.journal[st])

(* A descriptor that the consensus lists and that is not past its age stays *)
(* held whatever else arrives, is cleaned away or promoted, and also over a *)
(* restart once it is saved.                                                *)
ConsensusDescsKept ==
    \A d \in Held(rl) :
        (InConsensus(rl, d) /\ d[2] >= rl.now - OLD_ROUTER_DESC_MAX_AGE /\ rl'.cons = rl.cons
           /\ (rl'.restarts # rl.restarts => rl.saved["desc"][d] # "nowhere" /\ d \notin rl.nocache))
        => d \in Held(rl')
=============================================================================

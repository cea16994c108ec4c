---------------------------- MODULE ConsensusDoc ----------------------------
(***************************************************************************)
(* How a directory authority makes the consensus out of the votes it has   *)
(* (networkstatus_compute_consensus in dirvote.c).                         *)
(*                                                                         *)
(* A vote is a record: by (the authority, a number that orders as its      *)
(* identity digest does), legacy, methods, va, fu, vu, votesec, distsec,   *)
(* versions (NULL from an authority that recommends none), known (the      *)
(* flags it votes on) and rs, an entry or NULL for each router.  An entry  *)
(* has the descriptor it is about (digest, published, nickname), flags,    *)
(* version (0 for none), bw and exit (NULL for none).                      *)
(***************************************************************************)
EXTENDS Integers, Sequences, FiniteSets, SequencesExt

CONSTANT NULL   \* the null pointer: none of the objects of the module

CONSTANTS
    Routers,             \* numbers that order as the identity digests do
    TotalAuthorities,
    VoteSets,            \* the sets of votes to look at
    MIN_VOTE_INTERVAL, MIN_VOTE_SECONDS, MIN_DIST_SECONDS

VARIABLE cd

-----------------------------------------------------------------------------
(* The item at place (n - 1) / 2 of the sorted values, a bag given by a     *)
(* function.                                                                *)
median(f) ==
    CHOOSE x \in {f[k] : k \in DOMAIN f} :
        /\ Cardinality({k \in DOMAIN f : f[k] < x}) <= (Cardinality(DOMAIN f) - 1) \div 2
        /\ Cardinality({k \in DOMAIN f : f[k] <= x}) > (Cardinality(DOMAIN f) - 1) \div 2

get_frequent_members(f, min) ==
    {x \in UNION {f[k] : k \in DOMAIN f} : Cardinality({k \in DOMAIN f : x \in f[k]}) > min}

(* Of the members that are there most often, the last one in their order.   *)
get_most_frequent_member(f) ==
    LET Count(x) == Cardinality({k \in DOMAIN f : f[k] = x})
        all == {f[k] : k \in DOMAIN f}
    IN  Max({x \in all : \A y \in all : Count(y) <= Count(x)})

compute_consensus_method(votes) ==
    LET ok == get_frequent_members([v \in votes |-> v.methods], (Cardinality(votes) * 2) \div 3)
    IN  IF ok = {} THEN 1 ELSE Max(ok)

consensus_method_is_supported(method) == method \in 1 .. 5

compute_consensus_versions_list(votes) ==
    LET versioning == {v \in votes : v.versions # NULL}
    IN  get_frequent_members([v \in versioning |-> v.versions], Cardinality(versioning) \div 2)

\* Variant: among the descriptors listed most the time of publication does not count.
MostListed(entries) ==
    LET descs == SetToSortSeq({entries[v].desc : v \in DOMAIN entries},
                              LAMBDA a, b : a.digest < b.digest)
        N(d) == Cardinality({v \in DOMAIN entries : entries[v].desc = d})
        Scan(most, d) == IF most = NULL \/ N(d) > N(most) THEN d ELSE most
    IN  FoldLeft(Scan, NULL, descs)

(* The entries of one router, by voter, are sorted by descriptor digest and *)
(* scanned for the descriptor that most have.                               *)
compute_routerstatus_consensus(entries) ==
    LET descs == SetToSortSeq({entries[v].desc : v \in DOMAIN entries},
                              LAMBDA a, b : a.digest < b.digest)
        N(d) == Cardinality({v \in DOMAIN entries : entries[v].desc = d})
        Scan(most, d) ==
          IF most = NULL THEN d
          ELSE IF N(d) > N(most) \/ (N(d) = N(most) /\ d.published > most.published) THEN d
          ELSE most
    IN  FoldLeft(Scan, NULL, descs)

-----------------------------------------------------------------------------
(* Which identity a nickname belongs to: a router, conflict or unknown (two *)
(* digests that are no router's), NULL when no vote says anything of it.    *)
conflict == -1
unknown == -2

Calls(votes, flag, nick) ==
    {r \in Routers : \E v \in votes : /\ flag \in v.known /\ v.rs[r] # NULL
                                      /\ flag \in v.rs[r].flags
                                      /\ v.rs[r].desc.nickname = nick}

name_to_id_map(votes, nick) ==
    LET named == Calls(votes, "Named", nick)
        unnamed == Calls(votes, "Unnamed", nick)
    IN  IF Cardinality(named) > 1 THEN conflict
        ELSE IF named = {} THEN IF unnamed = {} THEN NULL ELSE unknown
        ELSE IF named \subseteq unnamed THEN conflict
        ELSE CHOOSE r \in named : TRUE

(* The nickname that the last voter of those who name the router has for it *)
(* and whether they differ.                                                 *)
Namers(votes, r) == {v \in votes : v.rs[r] # NULL /\ "Named" \in v.known \cap v.rs[r].flags}
ChosenName(votes, r) ==
    (CHOOSE v \in Namers(votes, r) : \A w \in Namers(votes, r) : w.by <= v.by).rs[r].desc.nickname
NamingConflict(votes, r) ==
    Cardinality({v.rs[r].desc.nickname : v \in Namers(votes, r)}) > 1

(* The flags of a router whose entries are those of the given voters; Named *)
(* and Unnamed follow the map.                                              *)
ChosenFlags(votes, method, r, nick) ==
    LET Count(fl) == Cardinality({v \in votes : /\ v.rs[r] # NULL
                                                /\ fl \in v.known \cap v.rs[r].flags})
        d == name_to_id_map(votes, nick)
        is_named == IF method = 1 THEN ~NamingConflict(votes, r) /\ Count("Named") > 0 ELSE d = r
        is_unnamed == d # NULL /\ d # r
        Voters(fl) == {v \in votes : fl \in v.known}
    IN  {fl \in UNION {v.known : v \in votes} :
            IF fl = "Named" THEN is_named
            ELSE IF fl = "Unnamed" /\ method >= 2 THEN is_unnamed
            ELSE Count(fl) > Cardinality(Voters(fl)) \div 2}

(* The exit policy summary: of the votes about the chosen descriptor if any *)
(* of them has one, else of any vote.                                       *)
ChosenExit(entries, desc) ==
    LET Has == {v \in DOMAIN entries : entries[v].exit # NULL}
        same == {v \in Has : entries[v].desc.digest = desc.digest}
        from == IF same # {} THEN same ELSE Has
    IN  IF from = {} THEN NULL ELSE get_most_frequent_member([v \in from |-> entries[v].exit])

(* The entry of router r, NULL when it is not listed.                       *)
RouterEntry(votes, total, method, r) ==
    LET entries == [v \in {v \in votes : v.rs[r] # NULL} |-> v.rs[r]]
        desc == compute_routerstatus_consensus(entries)
        nick == IF Namers(votes, r) # {} /\ ~NamingConflict(votes, r)
                THEN ChosenName(votes, r) ELSE desc.nickname
        flags == ChosenFlags(votes, method, r, nick)
        versions == {v \in DOMAIN entries : entries[v].version # 0}
        bandwidths == {v \in DOMAIN entries : entries[v].bw # NULL}
    IN  IF Cardinality(DOMAIN entries) <= total \div 2 THEN NULL
        ELSE IF method >= 4 /\ "Running" \notin flags THEN NULL
        ELSE [digest |-> desc.digest, published |-> desc.published, nickname |-> nick,
              flags |-> flags,
              version |-> IF versions = {} THEN 0
                          ELSE get_most_frequent_member([v \in versions |-> entries[v].version]),
              bw |-> IF method < 5 \/ bandwidths = {} THEN NULL
                     ELSE median([v \in bandwidths |-> entries[v].bw]),
              exit |-> IF method < 5 THEN NULL ELSE ChosenExit(entries, desc)]

(* One source for each vote and, from method 3, one for each legacy key.    *)
DirSources(votes, method) ==
    {v.by : v \in votes} \cup
    (IF method >= 3 THEN {v.legacy : v \in {w \in votes : w.legacy # NULL}} ELSE {})

Header(votes, method) ==
    [method |-> method,
     va |-> median([v \in votes |-> v.va]), fu |-> median([v \in votes |-> v.fu]),
     vu |-> median([v \in votes |-> v.vu]),
     votesec |-> median([v \in votes |-> v.votesec]), distsec |-> median([v \in votes |-> v.distsec]),
     versions |-> compute_consensus_versions_list(votes),
     known |-> UNION {v.known : v \in votes}, sources |-> DirSources(votes, method)]

networkstatus_compute_consensus(votes, total) ==
    LET m == compute_consensus_method(votes)
        method == IF consensus_method_is_supported(m) THEN m ELSE 1
    IN  Header(votes, method) @@ [rs |-> [r \in Routers |-> RouterEntry(votes, total, method, r)]]

(* What the parser asks of the times of a vote, and of a consensus.         *)
networkstatus_parse_vote_from_string(ns) ==
    /\ ns.va + MIN_VOTE_INTERVAL <= ns.fu
    /\ ns.va + 2 * MIN_VOTE_INTERVAL <= ns.vu
    /\ ns.votesec >= MIN_VOTE_SECONDS /\ ns.distsec >= MIN_DIST_SECONDS

-----------------------------------------------------------------------------
CdInit == cd \in {[votes |-> vs, out |-> NULL] :
                    vs \in {vs \in VoteSets : /\ vs # {}
                                              /\ \A v \in vs : networkstatus_parse_vote_from_string(v)}}
CdNext == /\ cd.out = NULL
          /\ cd' = [cd EXCEPT !.out = networkstatus_compute_consensus(cd.votes, TotalAuthorities)]
CdSpec == CdInit /\ [][CdNext]_cd

-----------------------------------------------------------------------------
Listed == {r \in Routers : cd.out.rs[r] # NULL}

(* The consensus that was made passes the parser that reads it again        *)
(* (dirvote.c:1144 and the asserts of dirvote.c:568): the medians keep the  *)
(* distances that hold in every vote.                                       *)
TimesKept == cd.out # NULL => networkstatus_parse_vote_from_string(cd.out)

(* From method 2 on a nickname is Named for one router at most, and a       *)
(* router is never both Named and Unnamed.                                  *)
OneNamed ==
    cd.out # NULL /\ cd.out.method >= 2 =>
        \A r, q \in Listed :
            /\ "Named" \in cd.out.rs[r].flags => "Unnamed" \notin cd.out.rs[r].flags
            /\ r # q /\ cd.out.rs[r].nickname = cd.out.rs[q].nickname
                 => ~("Named" \in cd.out.rs[r].flags /\ "Named" \in cd.out.rs[q].flags)

(* dir-spec.txt, 3.4: the descriptor that most votes have, of those the     *)
(* more recently published, of those the one with the smaller digest.       *)
DescAsSpecified ==
    cd.out # NULL => \A r \in Listed :
        LET D == {v.rs[r].desc : v \in {w \in cd.votes : w.rs[r] # NULL}}
            N(d) == Cardinality({v \in cd.votes : v.rs[r] # NULL /\ v.rs[r].desc = d})
            Before(d, e) == \/ N(d) > N(e)
                            \/ N(d) = N(e) /\ d.published > e.published
                            \/ N(d) = N(e) /\ d.published = e.published /\ d.digest <= e.digest
        IN  \E d \in D : /\ \A e \in D : Before(d, e)
                         /\ d.digest = cd.out.rs[r].digest
=============================================================================

---------------------------- MODULE MCDirectory ----------------------------
(***************************************************************************)
(* The directory system: the documents nodes write and read (Documents),   *)
(* the consensus of votes (ConsensusDoc) and the protocol that makes it    *)
(* (DirVote), the descriptors a node holds (RouterList), what a directory  *)
(* serves (DirCache), how an authority judges routers (Authority) and what *)
(* it remembers of them (RepHist).  The parts are checked side by side:    *)
(* part says which one a behaviour is about; Documents has its own         *)
(* variable, the state of every other part is in s.                        *)
(***************************************************************************)
EXTENDS Documents, FiniteSets, TLC

CONSTANT NULL   \* the null pointer: none of the objects of the module

CONSTANTS Authorities

VARIABLES part, s

-----------------------------------------------------------------------------
(* Documents: every kind, with the options that change what is written.     *)
ARouter(id) == [id |-> id, nick |-> 5, orport |-> 9, dirport |-> 0, now |-> 3, rate |-> 4,
                maxadv |-> 3, relay |-> 2, burst |-> 6, cap |-> 3, hib |-> FALSE, nodns |-> FALSE,
                policy |-> <<7, -1>>, family |-> <<2, 8, 3>>, eid |-> 4,
                flags |-> {"hidden-service-dir"}, contact |-> 1]
SomeRouters ==
    {[ARouter(1) EXCEPT !.hib = h, !.nodns = d, !.policy = p, !.family = f, !.relay = r, !.flags = g] :
        h \in BOOLEAN, d \in BOOLEAN, p \in {<<>>, <<7, -1>>}, f \in {<<>>, <<1, 8, 3>>},
        r \in {0, 2}, g \in {{}, {"hidden-service-dir"}}}
ACert == [id |-> 1, sk |-> 11, pub |-> 1, exp |-> 9, addr |-> 0]
AStatus(i, fl) == [nick |-> i, id |-> i, desc |-> i, orport |-> 9, dirport |-> 0, flags |-> fl,
                   ver |-> 2, bw |-> 3, p |-> 1]
SomeVotes ==
    {[cert |-> ACert, va |-> 10, interval |-> 5, nvalid |-> 3, vs |-> 1, ds |-> 1, vers |-> v,
      contact |-> 1, legacy |-> l, reach |-> r, baddirs |-> b, badexits |-> b, naming |-> n,
      sybils |-> y, rs |-> <<AStatus(1, fl), AStatus(2, {4, 9, 13})>>] :
        fl \in {{8, 9, 13}, {2, 3, 9, 11}}, v \in {0, 1}, l \in {0, 3}, r \in BOOLEAN,
        b \in BOOLEAN, n \in BOOLEAN, y \in {{}, {1}}}
AConsensus(m) ==
    [method |-> m, va |-> 10, fu |-> 15, vu |-> 25, vs |-> 1, ds |-> 1, vers |-> 1, known |-> 1,
     voters |-> <<[id |-> 1, legacy |-> FALSE], [id |-> 2, legacy |-> TRUE]>>,
     rs |-> <<AStatus(1, {8, 9}), AStatus(2, {9} \cup IF m > 1 THEN {11} ELSE {})>>,
     signers |-> {1, 2}]
ARendDesc(au, n, cs) ==
    [key |-> 3, auth |-> au, cookie |-> 1, cookies |-> cs, period |-> 2, replica |-> 1, pub |-> 4,
     protos |-> 2, intro |-> [i \in 1..n |-> [id |-> i, port |-> 9, key |-> i + 20]]]
ToWrite(k) ==
    CASE k = "router" -> SomeRouters
      [] k = "extrainfo" -> {[nick |-> 1, id |-> 2, pub |-> 3, bridge |-> b] : b \in BOOLEAN}
      [] k = "cert" -> {ACert, [ACert EXCEPT !.addr = 4]}
      [] k = "vote" -> SomeVotes
      [] k = "consensus" -> {AConsensus(1), AConsensus(3)}
      [] k = "detached" -> {[digest |-> 1, va |-> 10, fu |-> 15, vu |-> 25, signers |-> <<1, 2>>]}
      [] k = "v2" -> {[id |-> 1, dirport |-> 8, contact |-> 1, pub |-> 2, options |-> o,
                       vers |-> IF 4 \in o THEN 1 ELSE 0,
                       rs |-> [i \in 1..2 |-> [AStatus(i, {8, 9}) EXCEPT !.bw = 0, !.p = 0]]] :
                         o \in {{3}, {3, 4}}}
      [] k = "v1" -> {[id |-> 1, pub |-> 2]}
      [] k = "rend" -> {ARendDesc(au, n, 1..c) : au \in 0..2, n \in {0, 2}, c \in {1, 3}}
      [] k = "clients" -> {[old |-> <<[name |-> 1, cookie |-> 2, key |-> x],
                                      [name |-> 2, cookie |-> 3, key |-> 0]>>,
                            names |-> <<3, 1>>, stealth |-> b] : x \in {0, 9}, b \in BOOLEAN}
      [] k = "list" -> {[i \in 1..3 |-> [purpose |-> IF i \in P THEN i ELSE 0, opts |-> ARouter(i)]] :
                          P \in {{}, {2}}}

-----------------------------------------------------------------------------
(* The consensus document: three votes about a router's descriptor, three   *)
(* about the times, and two of authorities that name routers 1 and 2 after  *)
(* their own registers: router 3 is not in the vote, 0 is nobody.           *)
Desc(g, p, n) == [digest |-> g, published |-> p, nickname |-> n]
Entry(d, fl) == [desc |-> d, flags |-> fl \cup {"Running"}, version |-> d.digest, bw |-> d.digest,
                 exit |-> d.digest]
Vote(a, rs) == [by |-> a, legacy |-> NULL, methods |-> 1..5, va |-> 0, fu |-> 2, vu |-> 4,
                votesec |-> 1, distsec |-> 1, versions |-> {1},
                known |-> {"Named", "Unnamed", "Running"}, rs |-> rs]
NamedEntry(r, n, reg) == Entry(Desc(10 * r + n, 1, n), IF reg[n] = r THEN {"Named"}
                                                     ELSE IF reg[n] # 0 THEN {"Unnamed"} ELSE {})
NamingVotes(a) ==
    {Vote(a, <<NamedEntry(1, n, reg), IF m = 0 THEN NULL ELSE NamedEntry(2, m, reg)>>) :
        n \in 1..2, m \in 0..2, reg \in [1..2 -> 0..3]}
DescVotes(a) ==
    {Vote(a, <<e, NULL>>) :
        e \in {NULL} \cup {Entry(Desc(d, IF d = 4 THEN 2 ELSE 1, 1), {}) : d \in 1..4}}
TimeVotes(a) ==
    {[Vote(a, <<NULL, NULL>>) EXCEPT !.va = va, !.fu = fu, !.vu = vu] :
        va \in 0..1, fu \in 1..3, vu \in 2..4}
Three(V(_)) == {{x[1], x[2], x[3]} : x \in V(1) \X V(2) \X V(3)}
Consensus == INSTANCE ConsensusDoc WITH
    Routers <- {1, 2}, TotalAuthorities <- 3, MIN_VOTE_INTERVAL <- 1, MIN_VOTE_SECONDS <- 1,
    MIN_DIST_SECONDS <- 1, cd <- s,
    VoteSets <- Three(DescVotes) \cup Three(TimeVotes)
                \cup {{x, y} : x \in NamingVotes(1), y \in NamingVotes(2)}

(* Voting: three authorities, of which one may restart; postings get lost.  *)
Voting == INSTANCE DirVote WITH
    Auths <- Authorities, Down <- {}, Interval <- 8, VoteDelay <- 2, DistDelay <- 2,
    InitialInterval <- 8, Day <- 24, DvStart <- 4, DvMaxTime <- 10, MaxRestarted <- 1,
    Timely <- TRUE, dv <- s

-----------------------------------------------------------------------------
(* Descriptors held: three versions of one router's.                        *)
List == INSTANCE RouterList WITH
    Ids <- {"i1"}, RlMaxTime <- 2, HasExtra <- {<<"i1", 1>>}, Caches <- FALSE, EnoughV2 <- TRUE,
    OLD_ROUTER_DESC_MAX_AGE <- 2, ROUTER_MAX_AGE <- 1, VALID_FOR <- 1, SmallStore <- 2,
    SmallJournal <- 1, MaxFailures <- 1, MaxRestarts <- 1, Postable <- {<<"i1", 0>>},
    DiskMayFill <- FALSE, MaxDropped <- 2, rl <- s
Full == INSTANCE RouterList WITH
    Ids <- {"i1"}, RlMaxTime <- 1, HasExtra <- {<<"i1", 1>>}, Caches <- TRUE, EnoughV2 <- TRUE,
    OLD_ROUTER_DESC_MAX_AGE <- 2, ROUTER_MAX_AGE <- 1, VALID_FOR <- 1, SmallStore <- 2,
    SmallJournal <- 1, MaxFailures <- 1, MaxRestarts <- 0, Postable <- {<<"i1", 0>>},
    DiskMayFill <- TRUE, MaxDropped <- 2, rl <- s

(* Answers: what one client may ask for while documents are replaced.       *)
Ask(k, w, i, z) == [kind |-> k, what |-> w, ims |-> i, compressed |-> z, enc |-> FALSE]
Cache == INSTANCE DirCache WITH
    Conns <- {"c1"}, StatusIds <- {"n1", "n2"}, TrustedIds <- {},
    MAX_UNTRUSTED_NETWORKSTATUSES <- 1, Pieces <- 2, BUFFER_MIN <- 1, Routers <- {1, 2},
    Bridges <- {2}, MaxPublished <- 3, MaxVersions <- 1, dc <- s,
    Asks <- {Ask("consensus", {}, 0, TRUE), Ask("consensus", {}, 1, FALSE),
             Ask("statuses", NULL, 0, FALSE), Ask("statuses", {"n1", "n2"}, 0, TRUE),
             Ask("directory", {}, 0, FALSE), Ask("directory", {}, 2, TRUE),
             Ask("by fp", NULL, 0, FALSE), Ask("by digest", {<<1, 1>>, <<2, 1>>}, 0, FALSE),
             [Ask("by digest", {<<1, 1>>, <<2, 1>>}, 0, TRUE) EXCEPT !.enc = TRUE],
             [Ask("by fp", {<<1, 0>>, <<2, 0>>}, 0, FALSE) EXCEPT !.enc = TRUE]}

-----------------------------------------------------------------------------
(* An authority and two routers with one nickname, and the history of the   *)
(* routers it tests.                                                        *)
NickOf(i) == IF i = "me" THEN "auth" ELSE "same"
BandwidthOf(i) == CASE i = "me" -> 3 [] i = "r1" -> 2 [] OTHER -> 4
HasExit(i) == i = "r2"
SubsetOf(i) == IF i = "r1" THEN 0 ELSE 1
VersionGood(i) == TRUE
StoresHs(i) == i = "r1"
NoPolicy == [reject |-> {}, invalid |-> {}, baddir |-> {}, badexit |-> {}, unlisted |-> FALSE]
Judge == INSTANCE Authority WITH
    Ids <- {"me", "r1", "r2"}, Me <- "me", Addresses <- {"A", "B"}, MyAddress <- "M",
    CachedAt <- {[r1 |-> "A", r2 |-> "A"], [r1 |-> "B", r2 |-> "A"]},
    Nick <- NickOf, Bandwidth <- BandwidthOf, IsExit <- HasExit, Subset <- SubsetOf,
    GoodVersion <- VersionGood, WantsHsDir <- StoresHs, Illegal <- {"bad name"},
    ApprovedFiles <- {NULL, << <<"same", "r1">>, <<"!invalid", "r2">> >>,
                      << <<"!reject", "r1">>, <<"same", "r2">>, <<"bad name", "r1">> >>},
    Policies_ <- {NoPolicy, [NoPolicy EXCEPT !.reject = {"B"}, !.badexit = {"A"}]},
    Naming <- TRUE, TestSubsets <- 2, REACHABLE_TIMEOUT <- 4, LearnTime <- 2,
    ROUTER_MAX_AGE_TO_PUBLISH <- 6, MAX_COSMETIC <- 2, MaxServersPerAddr <- 1,
    MaxServersPerAuthAddr <- 2, UPTIME_STABLE <- 3, MTBF_STABLE <- 400, BW_FAST <- 4,
    BW_GUARD <- 5, MIN_BW <- 3, TIME_FAMILIAR <- 4, WFU_GUARD <- 95, MinUptimeHidServ <- 1,
    ENOUGH_MEASURED <- 2, ONE <- 4, ALPHA <- 2, STABILITY_INTERVAL <- 3,
    SAVE_STABILITY_INTERVAL <- 2, CLEAN_CACHES_INTERVAL <- 2, RephistTrackTime <- 9, YEAR <- 8,
    RhStart <- 10, RhMaxTime <- 13, RhMaxRestarts <- 1, AuMaxChanges <- 1, VoteInterval <- 2, au <- s
Tests == INSTANCE RepHist WITH
    Ids <- {"r1"}, Authority <- TRUE, EarlyConns <- FALSE, ONE <- 4, ALPHA <- 2,
    STABILITY_INTERVAL <- 1, SAVE_STABILITY_INTERVAL <- 1, CLEAN_CACHES_INTERVAL <- 2,
    RephistTrackTime <- 2, YEAR <- 8, RhStart <- 10, RhMaxTime <- 13, RhMaxRestarts <- 1, rh <- s
Relayed == INSTANCE RepHist WITH
    Ids <- {"r1", "r2"}, Authority <- FALSE, EarlyConns <- FALSE, ONE <- 4, ALPHA <- 2,
    STABILITY_INTERVAL <- 3, SAVE_STABILITY_INTERVAL <- 1, CLEAN_CACHES_INTERVAL <- 1,
    RephistTrackTime <- 1, YEAR <- 8, RhStart <- 10, RhMaxTime <- 12, RhMaxRestarts <- 1, rh <- s

-----------------------------------------------------------------------------
DirectoryInit ==
    \/ part = "documents" /\ DocInit /\ s = NULL
    \/ /\ doc = NULL
       /\ \/ part = "consensus" /\ Consensus!CdInit
          \/ part = "voting" /\ Voting!DvInit
          \/ part = "list" /\ List!RlInit
          \/ part = "full" /\ Full!RlInit
          \/ part = "cache" /\ Cache!DcInit
          \/ part = "judge" /\ Judge!AuInit
          \/ part = "tests" /\ Tests!RhInit
          \/ part = "relayed" /\ Relayed!RhInit

DirectoryNext ==
    /\ UNCHANGED part
    /\ \/ part = "documents" /\ DocNext /\ UNCHANGED s
       \/ part = "consensus" /\ Consensus!CdNext /\ UNCHANGED doc
       \/ part = "voting" /\ Voting!DvNext /\ UNCHANGED doc
       \/ part = "list" /\ List!RlNext /\ UNCHANGED doc
       \/ part = "full" /\ Full!RlNext /\ UNCHANGED doc
       \/ part = "cache" /\ Cache!DcNext /\ UNCHANGED doc
       \/ part = "judge" /\ Judge!AuNext /\ UNCHANGED doc
       \/ part = "tests" /\ Tests!RhNext /\ UNCHANGED doc
       \/ part = "relayed" /\ Relayed!RhNext /\ UNCHANGED doc

DirectorySpec == DirectoryInit /\ [][DirectoryNext]_<<part, doc, s>>

Sym == Permutations(Authorities)

-----------------------------------------------------------------------------
(* What a node writes another node reads, every field of it; damage to a    *)
(* signed document is seen, and damage to one entry of a list costs that    *)
(* entry alone (router.c, dirserv.c, dirvote.c, rendcommon.c and the        *)
(* parsers of routerparse.c).                                               *)
DocumentsSound == part = "documents" => ReadBack /\ DamageSeen /\ ListResyncs

(* The consensus made of valid votes passes the parser, names a router by a *)
(* name at most once, and lists the descriptor that dir-spec asks for;      *)
(* authorities that publish for the same period publish the same one, and   *)
(* while answers come in time each publishes it in time (dirvote.c).        *)
ConsensusSound ==
    /\ part = "consensus" => Consensus!TimesKept /\ Consensus!OneNamed /\ Consensus!DescAsSpecified
    /\ part = "voting" => Voting!OneConsensus /\ Voting!PublishedInTime

(* The descriptor lists, their maps and their files agree, and a descriptor *)
(* the consensus lists stays held (routerlist.c).                           *)
DescriptorsHeld ==
    /\ [](part = "list" => List!RouterListOk)
    /\ [](part = "full" => Full!RouterListOk)
    /\ [][part = "list" => List!ConsensusDescsKept]_s
    /\ [][part = "full" => Full!ConsensusDescsKept]_s

(* A status object is counted once for each place that uses it, and an      *)
(* answer that was sent to its end is whole (dirserv.c).                    *)
AnswersSound == part = "cache" => Cache!RefsExact /\ Cache!AnswersWhole

(* What a vote says of a router is what the authority's files and policies  *)
(* say of it now, what it measured at that address, and fair to the others  *)
(* (dirserv.c, routerlist.c).                                               *)
VerdictsSound ==
    part = "judge" => /\ Judge!VerdictsCurrent /\ Judge!RunningIsReachable
                      /\ Judge!FlagsFair /\ Judge!HistoryCounted

(* Every second of a router's history is counted at most once, as up or as  *)
(* down, and a restart keeps what was measured (rephist.c).                 *)
HistorySound ==
    /\ [](part = "tests" => Tests!TimeCountedOnce)
    /\ [](part = "relayed" => Relayed!TimeCountedOnce)
    /\ [][part = "tests" => Tests!RestartKeeps]_s

(* dirserv.c:3017: "If we run out of entries, flushes the zlib state and    *)
(* sets the spool source to NONE."                                          *)
StreamsFinished == part = "cache" => Cache!StreamsFinished
=============================================================================

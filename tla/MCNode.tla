------------------------------- MODULE MCNode -------------------------------
(***************************************************************************)
(* What a node does besides relaying cells: it looks up names for exit     *)
(* streams (ExitDns), offers and visits hidden services (HiddenService,    *)
(* HsDescriptors), takes its configuration (Config) and policies           *)
(* (Policies), publishes itself (OwnDescriptor), keeps to a traffic budget *)
(* (Hibernate) and chooses guards and paths (EntryGuards).  The parts are  *)
(* checked side by side: part says which one a behaviour is about, and its *)
(* state is in s, t and u.                                                 *)
(***************************************************************************)
EXTENDS Config, TLC

CONSTANTS DnsStreams, Relays

VARIABLES part, s, t, u

-----------------------------------------------------------------------------
(* Names: two streams that ask for one address; with two requests, and with *)
(* one request and sockets that fill up or fail.                            *)
Dns == INSTANCE ExitDns WITH
         Nameservers <- {"n1", "n2"}, Localhost <- "n1", Addresses <- {"a1"}, Reqs <- {1, 2},
         MaxInflight <- 1, MaxRetransmits <- 1, MaxReissues <- 0, MaxNameserverTimeouts <- 0,
         Streams <- DnsStreams, RESOLVE_MAX_TIMEOUT <- 1, TTL <- 1, DnsMaxTime <- 1,
         Sockets <- {"ok"}, dn <- s, ev <- t
DnsFull == INSTANCE ExitDns WITH
         Nameservers <- {"n1", "n2"}, Localhost <- "n1", Addresses <- {"a1"}, Reqs <- {1},
         MaxInflight <- 1, MaxRetransmits <- 1, MaxReissues <- 1, MaxNameserverTimeouts <- 0,
         Streams <- DnsStreams, RESOLVE_MAX_TIMEOUT <- 1, TTL <- 1, DnsMaxTime <- 1,
         Sockets <- {"ok", "full", "error"}, dn <- s, ev <- t

-----------------------------------------------------------------------------
(* A hidden service on two relays; the second instance launches one more    *)
(* introduction circuit than it keeps.  And its descriptors on a ring of    *)
(* six directories, one of which changes place, one of which the service    *)
(* does not know and one of which may hear of the change late.              *)
Service == INSTANCE HiddenService WITH
             HsRelays <- Relays, HsSlots <- 1..5, NUM_INTRO_POINTS <- 1, INTRO_EXTRA <- 0,
             MAX_INTRO_CIRCS <- 3, MAX_REND_FAILURES <- 1, HsDirs <- 1, MaxSerial <- 5,
             MaxStreams <- 1, MaxTroubles <- 1, hs <- s
Extra == INSTANCE HiddenService WITH
             HsRelays <- Relays, HsSlots <- 1..4, NUM_INTRO_POINTS <- 1, INTRO_EXTRA <- 1,
             MAX_INTRO_CIRCS <- 3, MAX_REND_FAILURES <- 1, HsDirs <- 1, MaxSerial <- 4,
             MaxStreams <- 1, MaxTroubles <- 0, hs <- s
PlaceOf(p, k) == (6 * p + 8 * k + 1) % 24
Descriptors == INSTANCE HsDescriptors WITH
                 Ring <- 24, IdOf <- PlaceOf,
                 Consensuses <- <<{0, 4, 8, 12, 16, 20}, {0, 4, 8, 14, 16, 20}>>,
                 CONSECUTIVE <- 2, VALIDITY <- 6, OVERLAP <- 3, IdByte <- 4,
                 RendPostPeriod <- 1, CACHE_AGE <- 8, REQUERY <- 1, Unknown <- {4}, Late <- {12},
                 Skew <- 1, HdMaxTime <- 3, MaxEvents <- 1, hd <- s

-----------------------------------------------------------------------------
(* Configurations: four files, and what a controller may set.               *)
L(k, v) == <<k, <<v>>>>
E(k) == <<k, <<>>>>
A(a, p) == [a |-> a, p |-> p]
Files == << <<>>,
            <<L("ORPort", 1), L("DirPort", 3), L("Nickname", "n1"), L("Log", "notice file"),
              L("ContactInfo", "me")>>,
            <<L("ControlPort", 4), L("SocksBindAddress", A("127.0.0.1", 0)),
              L("SocksListenAddress", A("127.0.0.1", 5)), <<"FirewallPorts", <<"80">>>>,
              L("FascistFirewall", 1)>>,
            <<L("TestingTorNetwork", 1), L("DirServer", "d1")>> >>
Sets(ls) == [lines |-> ls, reset |-> FALSE]
Resets(ls) == [lines |-> ls, reset |-> TRUE]
CommandLine == << <<"HashedControlPassword", <<"h">>>> >>
Commands ==
    << Sets(<<L("ORPort", 1)>>), Sets(<<L("ORPort", 2)>>),
       Sets(<<L("ORListenAddress", A("127.0.0.1", 0))>>), Sets(<<E("ORPort")>>),
       Sets(<<L("SocksPort", 6), L("DNSPort", 6)>>), Resets(<<E("SocksPort")>>),
       Sets(<<L("FascistFirewall", 1)>>), Sets(<<L("RelayBandwidthRate", 20000)>>),
       Sets(<<L("AuthoritativeDir", 1), L("V3AuthoritativeDir", 1), L("DirPort", 3)>>),
       Sets(<<L("HiddenServiceDir", "hs"), L("HiddenServicePort", "80")>>),
       Sets(<<L("HiddenServicePort", "80")>>), Sets(<<L("UseBridges", 1), L("Bridge", "b1")>>),
       Sets(<<L("Bridge", "b2")>>), Sets(<<E("Bridge")>>),
       Sets(<<L("ControlPort", 4), L("ControlListenAddress", A("0.0.0.0", 0))>>),
       Sets(<<L("Log", "notice file")>>), Sets(<<L("DirServer", "d1")>>),
       Sets(<<L("AlternateHSAuthority", "d2")>>), Sets(<<E("GeoIPFile")>>),
       Sets(<<L("AccelName", "x")>>), Sets(<<L("ConnLimit", 5000)>>), Sets(<<L("NoPublish", 1)>>),
       Sets(<<L("BridgeRelay", 1)>>), Sets(<<L("RendPostPeriod", 1)>>),
       Sets(<<L("Nonesuch", 1)>>), Sets(<<L("ClientOnly", 2)>>), Sets(<<L("ClientOnly", 1)>>) >>
-----------------------------------------------------------------------------
(* Policies: addresses of three bits and three ports; every exit policy of  *)
(* up to two of seven lines, and options that are right or wrong.           *)
X(act, addr, mask, lo, hi) == [act |-> act, addr |-> addr, mask |-> mask, lo |-> lo, hi |-> hi]
AnyAddress == -1
PrivateNets == -2
Broken == -3
RejectAny == X("reject", AnyAddress, NULL, NULL, NULL)
AcceptAny == X("accept", AnyAddress, NULL, NULL, NULL)
Lines == {X("accept", AnyAddress, NULL, 3, NULL), X("reject", AnyAddress, NULL, 1, 2),
          X("accept", 4, 1, NULL, NULL), X("reject", 4, NULL, NULL, NULL),
          X("accept", PrivateNets, NULL, 2, 3), RejectAny, X("reject", 2, 2, 1, NULL)}
ExitPolicies == {<<>>} \cup {<<a>> : a \in Lines} \cup {<<a, b>> : a, b \in Lines}
OptionNames == {"ReachableORAddresses", "ReachableDirAddresses", "SocksPolicy", "DirPolicy",
                "AuthDirReject", "AuthDirInvalid", "AuthDirBadDir", "AuthDirBadExit"}
NoOptions == [o \in OptionNames |-> <<>>]
PolicyOptions ==
    {NoOptions,
     [NoOptions EXCEPT !["SocksPolicy"] = <<X("accept", 4, 2, 2, NULL), RejectAny>>],
     [o \in OptionNames |-> <<X("reject", PrivateNets, NULL, NULL, NULL), X("accept", 5, NULL, 1, 2)>>],
     [NoOptions EXCEPT !["DirPolicy"] = <<X("accept", 4, 2, 2, NULL), X(NULL, 4, NULL, NULL, NULL)>>],
     [NoOptions EXCEPT !["ReachableORAddresses"] = <<X(NULL, 4, NULL, 3, 2)>>,
                       !["AuthDirReject"] = <<X(NULL, 4, NULL, NULL, NULL)>>],
     [NoOptions EXCEPT !["ReachableORAddresses"] = <<X(NULL, 4, NULL, 2, 9)>>,
                       !["AuthDirReject"] = <<X(NULL, 4, NULL, NULL, NULL)>>]}
C(o, e, p) == [opts |-> o, exit |-> e, private |-> p]
PolicySettings ==
    {C(NoOptions, e, TRUE) : e \in ExitPolicies} \cup {C(o, <<>>, FALSE) : o \in PolicyOptions}
    \cup {C(NoOptions, e, FALSE) : e \in {<<X("accept", 4, 1, 1, 2), X("reject", 4, NULL, NULL, NULL)>>,
                                          <<X("accept", Broken, NULL, NULL, NULL)>>}}
Pol == INSTANCE Policies WITH
         WIDTH <- 3, MAX_PORT <- 3, private_nets <- << <<6, 2>>, <<1, 3>> >>,
         DEFAULT_EXIT_POLICY <- <<X("reject", AnyAddress, NULL, 2, NULL), AcceptAny>>,
         REJECT_CUTOFF_BITS <- 1, OwnAddress <- 1, Configs <- PolicySettings, Relays_ <- {"r1"},
         RelayPolicies <- {<<>>, <<RejectAny>>, <<X("reject", AnyAddress, NULL, 1, NULL), AcceptAny>>},
         po <- s

-----------------------------------------------------------------------------
(* Publishing: an address the machine knows, or one only others can tell.   *)
Own == INSTANCE OwnDescriptor WITH
         Envs <- {[host |-> "A", iface |-> NULL, real |-> "A"],
                  [host |-> NULL, iface |-> "P", real |-> "B"]},
         Internal <- {"P"}, ExplicitAddress <- FALSE, DirPort <- TRUE, AvoidDiskWrites <- FALSE,
         V3Auth <- TRUE, MIN_ONION_KEY_LIFETIME <- 3, CHECK_IPADDRESS_INTERVAL <- 0,
         FORCE_REGENERATE <- 1, ROUTER_MAX_AGE_TO_PUBLISH <- 2, UNREACHABILITY_COMPLAINT <- 2,
         MAX_BANDWIDTH_CHANGE_FREQ <- 20, WRITE_DELAY <- 3, BANDWIDTH_RECHECK_INTERVAL <- 20,
         PARALLEL_TESTS <- 1, DIRPORT_ROUNDS <- 2, MaxKeys <- 3, OwMaxTime <- 7,
         OwMaxChanges <- 1, OwMaxFaults <- 1, ow <- s

(* The budget: months of three days of two hours.                           *)
Same(x) == x
Budget == INSTANCE Hibernate WITH
            HoursPerDay <- 2, DaysPerWeek <- 2, DaysPerMonth <- 3,
            Units <- {"MONTH", "WEEK", "DAY"}, StartDay <- 2, StartHour <- 1,
            AccountingMax <- 3, MaxPerTick <- 2, NOTE_INTERVAL <- 2, NOTE_BYTES <- 2,
            SaveDelay <- 1, ActiveEnough <- 2, MaxConfigured <- 2, WakeupDigest <- Same,
            ShutdownWaitLength <- 1, HibMaxTime <- 14, hib <- s, hib_disk <- t, hib_now <- u
Losses == INSTANCE Hibernate WITH
            HoursPerDay <- 2, DaysPerWeek <- 2, DaysPerMonth <- 3,
            Units <- {"MONTH", "WEEK", "DAY"}, StartDay <- 2, StartHour <- 1,
            AccountingMax <- 6, MaxPerTick <- 1, NOTE_INTERVAL <- 1, NOTE_BYTES <- 5,
            SaveDelay <- 1, ActiveEnough <- 2, MaxConfigured <- 2, WakeupDigest <- Same,
            ShutdownWaitLength <- 1, HibMaxTime <- 14, hib <- s, hib_disk <- t, hib_now <- u

-----------------------------------------------------------------------------
(* Guards: A and C are of one family, so are B and the bridge X; B and D    *)
(* are of one network; D is not a guard and A is not stable.                *)
Rec(n, net, fam, cc, ex, g) ==
    [name |-> n, net |-> net, family |-> fam, country |-> cc, valid |-> TRUE,
     stable |-> n # "na", fast |-> TRUE, exit |-> ex, bw |-> 10, badexit |-> FALSE,
     singlehop |-> FALSE, rejectsall |-> ~ ex, bridge |-> n = "nx", allowed |-> TRUE, guard |-> g]
InfoOf(r) == CASE r = "A" -> Rec("na", 1, {<<"$", "C">>}, "us", FALSE, TRUE)
               [] r = "B" -> Rec("nb", 2, {<<"nick", "nx">>}, "us", TRUE, TRUE)
               [] r = "C" -> Rec("nc", 3, {<<"nick", "na">>}, "de", TRUE, TRUE)
               [] r = "D" -> Rec("nd", 2, {}, "de", FALSE, FALSE)
               [] r = "X" -> Rec("nx", 6, {<<"$", "B">>}, "fr", FALSE, TRUE)
IdOf(n) == IF n = "na" THEN "A" ELSE NULL
Serves(r) == IF r = "B" THEN {"s1"} ELSE {"s1", "s2"}
Ports(r) == {80}

Standard == [NumEntryGuards |-> 2, EntryNodes |-> NULL, StrictEntry |-> FALSE,
             ExitNodes |-> NULL, StrictExit |-> FALSE, Exclude |-> NULL, ExcludeExit |-> NULL,
             UseBridges |-> FALSE, Distinct |-> TRUE, Families |-> {},
             AllowInvalid |-> {"middle", "rendezvous"}, ExcludeSingleHop |-> TRUE,
             BridgeRelay |-> FALSE, Bridges |-> {}, FromAuthority |-> FALSE]
Strict == [Standard EXCEPT !.EntryNodes = << <<"nick", "nc">>, <<"nick", "na">> >>,
                           !.StrictEntry = TRUE]
Bridged == [Standard EXCEPT !.UseBridges = TRUE, !.Bridges = {<<"X", TRUE>>},
                            !.FromAuthority = TRUE]
General == [purpose |-> "C_GENERAL", needs |-> {"uptime", "capacity"}, internal |-> FALSE,
            onehop |-> FALSE, exit |-> NULL, len |-> 0]
ToC == [General EXCEPT !.exit = "C"]
OneHopToC == [ToC EXCEPT !.onehop = TRUE]
OldGuards == << [id |-> "C", down |-> 0, tried |-> 0, bad |-> 0, date |-> 0, version |-> "bad"],
                [id |-> "B", down |-> 1, tried |-> 1, bad |-> 0, date |-> 0, version |-> "good"] >>

Guards == INSTANCE EntryGuards WITH
            Order <- <<"A", "B", "C", "D">>, Options_ <- {Standard}, Circs <- {ToC},
            StateLines <- {OldGuards}, Changing <- {"B"}, GdMaxTime <- 2,
            GdMaxRestarts <- 1, Streams_ <- {"s1"}, Predicted <- {80}, RETRY_BELOW <- <<2, 3>>,
            RETRY_WAIT <- <<0, 1, 2>>, ENTRY_GUARD_REMOVE_AFTER <- 1, MONTH <- 2,
            OBSOLETE_AFTER <- 1, NumBridgeAuths <- 1,
            Me <- NULL, Info <- InfoOf, NamedId <- IdOf, CanUse <- Serves, Handles <- Ports, gd <- s
Listed == INSTANCE EntryGuards WITH
            Order <- <<"A", "B", "C", "D">>, Options_ <- {Standard, Strict},
            Circs <- {General, OneHopToC}, StateLines <- {<<>>}, Changing <- {}, GdMaxTime <- 1,
            GdMaxRestarts <- 1, Streams_ <- {"s1"}, Predicted <- {80}, RETRY_BELOW <- <<2, 3>>,
            RETRY_WAIT <- <<0, 1, 2>>, ENTRY_GUARD_REMOVE_AFTER <- 1, MONTH <- 2,
            OBSOLETE_AFTER <- 1, NumBridgeAuths <- 1,
            Me <- NULL, Info <- InfoOf, NamedId <- IdOf, CanUse <- Serves, Handles <- Ports, gd <- s
Bridge == INSTANCE EntryGuards WITH
            Order <- <<"B", "C", "D", "X">>, Options_ <- {Bridged},
            Circs <- {General, OneHopToC}, StateLines <- {<<>>}, Changing <- {}, GdMaxTime <- 2,
            GdMaxRestarts <- 1, Streams_ <- {"s1"}, Predicted <- {80}, RETRY_BELOW <- <<2, 3>>,
            RETRY_WAIT <- <<0, 1, 2>>, ENTRY_GUARD_REMOVE_AFTER <- 1, MONTH <- 2,
            OBSOLETE_AFTER <- 1, NumBridgeAuths <- 1,
            Me <- NULL, Info <- InfoOf, NamedId <- IdOf, CanUse <- Serves, Handles <- Ports, gd <- s

-----------------------------------------------------------------------------
NodeInit ==
    \/ part = "dns" /\ Dns!DnsInit /\ u = NULL /\ cf = NULL
    \/ part = "dns full" /\ DnsFull!DnsInit /\ u = NULL /\ cf = NULL
    \/ part = "service" /\ Service!HsInit /\ t = NULL /\ u = NULL /\ cf = NULL
    \/ part = "extra" /\ Extra!HsInit /\ t = NULL /\ u = NULL /\ cf = NULL
    \/ part = "descriptors" /\ Descriptors!HdInit /\ t = NULL /\ u = NULL /\ cf = NULL
    \/ part = "config" /\ CfInit /\ s = NULL /\ t = NULL /\ u = NULL
    \/ part = "policies" /\ Pol!PoInit /\ t = NULL /\ u = NULL /\ cf = NULL
    \/ part = "own" /\ Own!OwInit /\ t = NULL /\ u = NULL /\ cf = NULL
    \/ part = "budget" /\ Budget!HibInit /\ cf = NULL
    \/ part = "losses" /\ Losses!HibInit /\ cf = NULL
    \/ part = "guards" /\ Guards!GdInit /\ t = NULL /\ u = NULL /\ cf = NULL
    \/ part = "listed" /\ Listed!GdInit /\ t = NULL /\ u = NULL /\ cf = NULL
    \/ part = "bridge" /\ Bridge!GdInit /\ t = NULL /\ u = NULL /\ cf = NULL

NodeNext ==
    /\ UNCHANGED part
    /\ \/ part = "dns" /\ Dns!DnsNext /\ UNCHANGED <<cf, u>>
       \/ part = "dns full" /\ DnsFull!DnsNext /\ UNCHANGED <<cf, u>>
       \/ part = "service" /\ Service!HsNext /\ UNCHANGED <<cf, t, u>>
       \/ part = "extra" /\ Extra!HsNext /\ UNCHANGED <<cf, t, u>>
       \/ part = "descriptors" /\ Descriptors!HdNext /\ UNCHANGED <<cf, t, u>>
       \/ part = "config" /\ CfNext /\ UNCHANGED <<s, t, u>>
       \/ part = "policies" /\ Pol!PoNext /\ UNCHANGED <<cf, t, u>>
       \/ part = "own" /\ Own!OwNext /\ UNCHANGED <<cf, t, u>>
       \/ part = "budget" /\ Budget!HibNext /\ UNCHANGED cf
       \/ part = "losses" /\ Losses!HibNext /\ UNCHANGED cf
       \/ part = "guards" /\ Guards!GdNext /\ UNCHANGED <<cf, t, u>>
       \/ part = "listed" /\ Listed!GdNext /\ UNCHANGED <<cf, t, u>>
       \/ part = "bridge" /\ Bridge!GdNext /\ UNCHANGED <<cf, t, u>>

NodeSpec == NodeInit /\ [][NodeNext]_<<part, cf, s, t, u>>

Sym == Permutations(DnsStreams) \cup Permutations(Relays)

-----------------------------------------------------------------------------

(* A stream waits for a name exactly as long as it is listed with a lookup  *)
(* that is under way, and is told one result; a failed nameserver is probed *)
(* until it comes back (dns.c, eventdns.c).                                 *)
LookupsUnderWay ==
    /\ part = "dns" => Dns!WaitersListed /\ Dns!LookupUnderWay /\ Dns!ProbesContinue
    /\ part = "dns full" => DnsFull!WaitersListed /\ DnsFull!LookupUnderWay /\ DnsFull!ProbesContinue

(* A client's rendezvous circuit is joined to the circuit the service built *)
(* for this client, and the introduction points of a published descriptor   *)
(* answer (rendservice.c, rendclient.c, rendmid.c).                         *)
ServicesReached ==
    /\ part = "service" => Service!JoinedToService /\ Service!PublishedAnswer
    /\ part = "extra" => Extra!JoinedToService /\ Extra!PublishedAnswer

(* A client finds a descriptor on the directories it computes, over a       *)
(* change of period and of consensus (rendcommon.c, routerlist.c).          *)
DescriptorsFound == part = "descriptors" => Descriptors!Findable

(* The options in force are valid, are those the listeners and subsystems   *)
(* work by, and are read back from a saved file as they are; a command is   *)
(* taken completely or not at all (config.c).                               *)
ConfigSound ==
    /\ [](part = "config" => /\ InForce /\ StaysValid
                             /\ SavedIsSame)
    /\ [][part = "config" => AllOrNothing]_cf

(* A simplified policy decides as the configured one, an answer about an    *)
(* unknown address or port is right for all it stands for, and references   *)
(* to shared policies are counted (policies.c).                             *)
PoliciesSound == part = "policies" => Pol!SimplifiedSame /\ Pol!AnswersSound /\ Pol!CountsBalance

(* Whatever a directory lists for this relay is good: its onion key is      *)
(* accepted and its address is the one the relay has (router.c).            *)
PublishedIsUsable ==
    part = "own" => Own!KeysAccepted /\ Own!ListedWhereWeAre /\ Own!AuthorityKeysMatch

(* The node serves nobody beyond its budget, and neither a crash nor a      *)
(* restart gives it a new one (hibernate.c).                                *)
BudgetHolds ==
    /\ [](part = "budget" => Budget!OverLimitOnDisk /\ Budget!SleepBounded)
    /\ [](part = "losses" => Losses!OverLimitOnDisk /\ Losses!LossBounded)
    /\ [][part = "budget" => Budget!BudgetKept]_<<s, t, u>>

(* A path holds no two routers of a family, the state file names the guards *)
(* that were reached, and guards keep their order (circuitbuild.c).         *)
GuardsKept ==
    /\ [](part = "guards" => Guards!PathsUnrelated /\ Guards!GuardsSaved)
    /\ [](part = "listed" => Listed!PathsUnrelated /\ Listed!GuardsSaved)
    /\ [](part = "bridge" => Bridge!PathsUnrelated /\ Bridge!GuardsSaved)
    /\ [][(part \in {"guards", "listed"}) => Guards!KeepsOrder]_s
=============================================================================

------------------------------- MODULE Config -------------------------------
(***************************************************************************)
(* The configuration of a Tor node: reading a torrc, assigning, validating *)
(* and normalising options, making them take effect (listeners, logs, the  *)
(* descriptor limit, directory authorities, bridges, hidden services), the *)
(* controller's SETCONF, RESETCONF, LOADCONF and SAVECONF, SIGHUP and a    *)
(* restart.  A line of text is <<key, words>>: no words is an empty value, *)
(* a list option has one word per line and "bad" is a word that its parser *)
(* refuses.  An options record maps an option's name to its value.         *)
(***************************************************************************)
EXTENDS Integers, Sequences, FiniteSets, SequencesExt

CONSTANT NULL   \* the null pointer: none of the objects of the module

CONSTANTS Torrcs,          \* the files a user may write, as a tuple of texts
          Settings,        \* what a controller may send: [lines, reset]
          CmdLine,         \* the options given on the command line
          MAX_PORT, BANDWIDTH_CAP, MIN_BANDWIDTH, MIN_REND_POST, MAX_DIR_PERIOD,
          MIN_BUILD_TIMEOUT, MIN_DIRTINESS, MIN_VOTE_SECONDS, MIN_DIST_SECONDS,
          MIN_VOTE_INTERVAL, FD_LIMIT,
          PortsAtRisk,     \* ports that another program may come to hold
          LogMayFail, DirMayBreak,
          MaxCommands, MaxTroubles

VARIABLE cf

-----------------------------------------------------------------------------
(* The options, their types and their initial values.                      *)

OptionVars == <<
  <<"ORPort", "UINT", 0>>, <<"DirPort", "UINT", 0>>, <<"SocksPort", "UINT", 2>>,
  <<"DNSPort", "UINT", 0>>, <<"ControlPort", "UINT", 0>>, <<"TransPort", "UINT", 0>>,
  <<"NatdPort", "UINT", 0>>, <<"ConnLimit", "UINT", 1000>>,
  <<"NumEntryGuards", "UINT", 3>>, <<"V3AuthNIntervalsValid", "UINT", 3>>,
  <<"NumCpus", "UINT", 1>>, <<"AuthDirMaxServersPerAddr", "UINT", 2>>,
  <<"BandwidthRate", "UINT", 5120>>, <<"BandwidthBurst", "UINT", 10240>>,
  <<"MaxAdvertisedBandwidth", "UINT", 1048576>>,
  <<"RelayBandwidthRate", "UINT", 0>>, <<"RelayBandwidthBurst", "UINT", 0>>,
  <<"ConstrainedSockSize", "UINT", 8192>>, <<"RendPostPeriod", "UINT", 3600>>,
  <<"CircuitBuildTimeout", "UINT", 60>>, <<"MaxCircuitDirtiness", "UINT", 600>>,
  <<"KeepalivePeriod", "UINT", 300>>, <<"V3AuthVotingInterval", "UINT", 3600>>,
  <<"V3AuthVoteDelay", "UINT", 300>>, <<"V3AuthDistDelay", "UINT", 300>>,
  <<"TestingV3AuthInitialVotingInterval", "UINT", 1800>>,
  <<"TestingV3AuthInitialVoteDelay", "UINT", 300>>,
  <<"TestingV3AuthInitialDistDelay", "UINT", 300>>,
  <<"RunAsDaemon", "BOOL", 0>>, <<"ClientOnly", "BOOL", 0>>, <<"NoPublish", "BOOL", 0>>,
  <<"AuthoritativeDir", "BOOL", 0>>, <<"V1AuthoritativeDir", "BOOL", 0>>,
  <<"V2AuthoritativeDir", "BOOL", 0>>,
  <<"V3AuthoritativeDir", "BOOL", 0>>, <<"BridgeAuthoritativeDir", "BOOL", 0>>,
  <<"VersioningAuthoritativeDir", "BOOL", 0>>,
  <<"HSAuthoritativeDir", "BOOL", 0>>, <<"HSAuthorityRecordStats", "BOOL", 0>>,
  <<"FetchDirInfoEarly", "BOOL", 0>>, <<"FetchDirInfoExtraEarly", "BOOL", 0>>,
  <<"DownloadExtraInfo", "BOOL", 0>>, <<"FascistFirewall", "BOOL", 0>>,
  <<"UseBridges", "BOOL", 0>>, <<"BridgeRelay", "BOOL", 0>>,
  <<"UseEntryGuards", "BOOL", 1>>, <<"TunnelDirConns", "BOOL", 1>>,
  <<"PreferTunneledDirConns", "BOOL", 1>>, <<"ConstrainedSockets", "BOOL", 0>>,
  <<"CookieAuthentication", "BOOL", 0>>, <<"HardwareAccel", "BOOL", 0>>,
  <<"EnforceDistinctSubnets", "BOOL", 1>>, <<"TestingTorNetwork", "BOOL", 0>>,
  <<"__ReloadTorrcOnSIGHUP", "BOOL", 1>>,
  <<"Nickname", "STRING", "">>, <<"ContactInfo", "STRING", "">>, <<"PidFile", "STRING", "">>,
  <<"User", "STRING", "">>, <<"DataDirectory", "STRING", "">>, <<"AccelName", "STRING", "">>,
  <<"AccelDir", "STRING", "">>, <<"MyFamily", "STRING", "">>, <<"HttpProxy", "STRING", "">>,
  <<"AccountingStart", "STRING", "">>, <<"VirtualAddrNetwork", "STRING", "127.192.0.0/10">>,
  <<"GeoIPFile", "STRING", "geoip">>,
  <<"FirewallPorts", "CSV", <<>>>>, <<"PublishServerDescriptor", "CSV", <<"1">>>>,
  <<"AllowInvalidNodes", "CSV", <<"middle", "rendezvous">>>>,
  <<"LongLivedPorts", "CSV", <<"21">>>>, <<"EntryNodes", "CSV", <<>>>>,
  <<"ORListenAddress", "LINELIST", <<>>>>, <<"DirListenAddress", "LINELIST", <<>>>>,
  <<"SocksListenAddress", "LINELIST", <<>>>>, <<"DNSListenAddress", "LINELIST", <<>>>>,
  <<"ControlListenAddress", "LINELIST", <<>>>>, <<"TransListenAddress", "LINELIST", <<>>>>,
  <<"NatdListenAddress", "LINELIST", <<>>>>, <<"ControlSocket", "LINELIST", <<>>>>,
  <<"Log", "LINELIST", <<>>>>, <<"RecommendedVersions", "LINELIST", <<>>>>,
  <<"RecommendedClientVersions", "LINELIST", <<>>>>,
  <<"RecommendedServerVersions", "LINELIST", <<>>>>,
  <<"ReachableAddresses", "LINELIST", <<>>>>, <<"ReachableORAddresses", "LINELIST", <<>>>>,
  <<"ReachableDirAddresses", "LINELIST", <<>>>>, <<"HashedControlPassword", "LINELIST", <<>>>>,
  <<"__HashedControlSessionPassword", "LINELIST", <<>>>>, <<"Bridge", "LINELIST", <<>>>>,
  <<"DirServer", "LINELIST", <<>>>>, <<"AlternateDirAuthority", "LINELIST", <<>>>>,
  <<"AlternateBridgeAuthority", "LINELIST", <<>>>>, <<"AlternateHSAuthority", "LINELIST", <<>>>>,
  <<"ExitPolicy", "LINELIST", <<>>>>, <<"MapAddress", "LINELIST", <<>>>>,
  <<"NodeFamily", "LINELIST", <<>>>>, <<"HidServAuth", "LINELIST", <<>>>>,
  <<"HiddenServiceOptions", "LINELIST_V", <<>>>>,
  <<"HiddenServiceDir", "LINELIST_S", <<>>>>, <<"HiddenServicePort", "LINELIST_S", <<>>>>,
  <<"HiddenServiceVersion", "LINELIST_S", <<>>>>,
  <<"HiddenServiceAuthorizeClient", "LINELIST_S", <<>>>>,
  <<"PathlenCoinWeight", "OBSOLETE", <<>>>>, <<"Group", "OBSOLETE", <<>>>> >>

TestingDefaults ==
  [EnforceDistinctSubnets |-> 0, AuthDirMaxServersPerAddr |-> 0,
   V3AuthVotingInterval |-> 300, V3AuthVoteDelay |-> 20, V3AuthDistDelay |-> 20,
   TestingV3AuthInitialVotingInterval |-> 300, TestingV3AuthInitialVoteDelay |-> 20,
   TestingV3AuthInitialDistDelay |-> 20]

Abbrevs == [SocksBindAddress |-> "SocksListenAddress", ORBindAddress |-> "ORListenAddress",
            DirBindAddress |-> "DirListenAddress", BandwidthRateBytes |-> "BandwidthRate",
            UseHelperNodes |-> "UseEntryGuards", FirewallPort |-> "FirewallPorts"]

CmdLineAbbrevs == [l |-> "Log", HashedControlPassword |-> "__HashedControlSessionPassword"]

Row     == [k \in {OptionVars[i][1] : i \in DOMAIN OptionVars} |->
              CHOOSE i \in DOMAIN OptionVars : OptionVars[i][1] = k]
Type(k) == OptionVars[Row[k]][2]
Fields  == {k \in DOMAIN Row : Type(k) \notin {"LINELIST_S", "OBSOLETE"}}
Ordered == SelectSeq([i \in DOMAIN OptionVars |-> OptionVars[i][1]], LAMBDA k : k \in Fields)
Numbers == {k \in Fields : Type(k) \in {"UINT", "BOOL"}}
Private == {"__ReloadTorrcOnSIGHUP", "__HashedControlSessionPassword"}

\* f applied to each element of s in turn, from a.
Fold(f(_, _), a, s) ==
  LET g[i \in 0..Len(s)] == IF i = 0 THEN a ELSE f(g[i - 1], s[i]) IN g[Len(s)]

-----------------------------------------------------------------------------
(* From text to options and back.                                          *)

option_clear(k) == IF k \in Numbers THEN 0 ELSE IF Type(k) = "STRING" THEN "" ELSE <<>>

Init0(testing, k) == IF testing /\ k \in DOMAIN TestingDefaults THEN TestingDefaults[k]
                     ELSE OptionVars[Row[k]][3]

config_init == [t \in BOOLEAN |-> [k \in Fields |-> Init0(t, k)]]

config_alloc == [k \in Fields |-> option_clear(k)]

expand_abbrev(k, cmdline) ==
  IF cmdline /\ k \in DOMAIN CmdLineAbbrevs THEN CmdLineAbbrevs[k]
  ELSE IF k \in DOMAIN Abbrevs THEN Abbrevs[k] ELSE k

config_get_commandlines ==
  [i \in DOMAIN CmdLine |-> <<expand_abbrev(CmdLine[i][1], TRUE), CmdLine[i][2]>>]

\* The field an option is kept in: the hidden service lines share one.
Member(k) == IF Type(k) = "LINELIST_S" THEN "HiddenServiceOptions" ELSE k

option_reset(o, k, testing, use_defaults) ==
  IF Type(k) = "OBSOLETE" THEN o
  ELSE [o EXCEPT ![Member(k)] = IF use_defaults THEN Init0(testing, Member(k))
                                ELSE option_clear(Member(k))]

\* An assignment under way: the options and the first error met.
config_assign_value(a, k, words) ==
  CASE Type(k) = "UINT" /\ words[1] >= 0          -> [a EXCEPT !.o[k] = words[1]]
    [] Type(k) = "BOOL" /\ words[1] \in {0, 1}    -> [a EXCEPT !.o[k] = words[1]]
    [] Type(k) = "STRING"                         -> [a EXCEPT !.o[k] = words[1]]
    [] Type(k) = "CSV"                            -> [a EXCEPT !.o[k] = words]
    [] Type(k) = "LINELIST"                       -> [a EXCEPT !.o[k] = Append(@, words[1])]
    [] Type(k) = "LINELIST_S" -> [a EXCEPT !.o[Member(k)] = Append(@, <<k, words[1]>>)]
    [] Type(k) = "OBSOLETE"                       -> a
    [] OTHER                                      -> [a EXCEPT !.err = "parse"]

config_assign_line(a, line, testing, use_defaults, clear_first) ==
  LET k == expand_abbrev(line[1], FALSE) IN
  IF a.err # "" THEN a
  ELSE IF k \notin DOMAIN Row THEN [a EXCEPT !.err = "misc"]
  ELSE IF line[2] # <<>> THEN config_assign_value(a, k, line[2])
  ELSE IF clear_first \/ Type(k) \in {"LINELIST", "LINELIST_S"} THEN a
  ELSE [a EXCEPT !.o = option_reset(@, k, testing, use_defaults)]

config_reset_line(o, line, testing, use_defaults) ==
  LET k == expand_abbrev(line[1], FALSE) IN
  IF k \in DOMAIN Row THEN option_reset(o, k, testing, use_defaults) ELSE o

config_assign(a, lines, testing, use_defaults, clear_first) ==
  LET reset(o, l) == config_reset_line(o, l, testing, use_defaults)
  IN Fold(LAMBDA b, l : config_assign_line(b, l, testing, use_defaults, clear_first),
          [a EXCEPT !.o = IF clear_first /\ a.err = "" THEN Fold(reset, @, lines) ELSE @], lines)

get_assigned_option(o, k) ==
  CASE k \in Numbers          -> <<<<k, <<o[k]>>>>>>
    [] Type(k) = "STRING"     -> IF o[k] = "" THEN <<>> ELSE <<<<k, <<o[k]>>>>>>
    [] Type(k) = "CSV"        -> <<<<k, o[k]>>>>
    [] Type(k) = "LINELIST"   -> [i \in DOMAIN o[k] |-> <<k, <<o[k][i]>>>>]
    [] Type(k) = "LINELIST_V" -> [i \in DOMAIN o[k] |-> <<o[k][i][1], <<o[k][i][2]>>>>]

option_is_same(o1, o2, k) == get_assigned_option(o1, k) = get_assigned_option(o2, k)

options_dup(o) ==
  [k \in Fields |-> config_assign([o |-> config_alloc, err |-> ""], get_assigned_option(o, k),
                                   FALSE, FALSE, FALSE).o[k]]

-----------------------------------------------------------------------------
(* Validation.  v is [o, ok]: the options as normalised so far and whether *)
(* nothing has been refused.                                               *)

Bad(o, k)      == Contains(o[k], "bad")
server_mode(o) == o.ClientOnly = 0 /\ (o.ORPort # 0 \/ o.ORListenAddress # <<>>)
IsAuthority(o) == o.AuthoritativeDir = 1

ListenOptions == [ORPort |-> "ORListenAddress", DirPort |-> "DirListenAddress",
                  DNSPort |-> "DNSListenAddress", ControlPort |-> "ControlListenAddress",
                  TransPort |-> "TransListenAddress", NatdPort |-> "NatdListenAddress"]

options_init_logs(o, validate_only, logok) ==
  ~Bad(o, "Log") /\ (validate_only \/ logok \/ ~Contains(o.Log, "notice file"))

validate_data_directory(o) == [o EXCEPT !.DataDirectory = IF @ = "" THEN "~/.tor" ELSE @]

ValidateBasics(v, from_setconf) ==
  LET o == v.o IN
  [o |-> [validate_data_directory(o) EXCEPT
            !.Nickname = IF @ = "" /\ server_mode(o) THEN "myhost" ELSE @,
            !.Log = IF @ = <<>> /\ o.RunAsDaemon = 0 /\ ~from_setconf
                    THEN <<"notice stdout">> ELSE @,
            !.PublishServerDescriptor = IF o.NoPublish = 1 THEN <<>> ELSE @],
   ok |-> /\ v.ok
          /\ \A p \in DOMAIN ListenOptions : o[p] = 0 => o[ListenOptions[p]] = <<>>
          /\ o.Nickname # "bad"
          /\ options_init_logs(o, TRUE, TRUE)
          /\ \A p \in DOMAIN ListenOptions \cup {"SocksPort"} : o[p] <= MAX_PORT
          /\ ~Contains(o.EntryNodes, "country")]

ValidateAuthority(v) ==
  LET o == v.o
      main == o.V1AuthoritativeDir = 1 \/ o.V2AuthoritativeDir = 1 \/ o.V3AuthoritativeDir = 1
      n == [o EXCEPT
              !.RecommendedClientVersions = IF @ = <<>> THEN o.RecommendedVersions ELSE @,
              !.RecommendedServerVersions = IF @ = <<>> THEN o.RecommendedVersions ELSE @,
              !.UseEntryGuards = 0,
              !.DownloadExtraInfo = IF main THEN 1 ELSE @]
  IN [o |-> IF IsAuthority(o) THEN n ELSE o,
      ok |-> /\ v.ok
             /\ IsAuthority(o) =>
                  /\ o.ContactInfo # "" \/ o.TestingTorNetwork = 1
                  /\ o.V1AuthoritativeDir = 1 => o.RecommendedVersions # <<>>
                  /\ o.VersioningAuthoritativeDir = 1 =>
                       n.RecommendedClientVersions # <<>> /\ n.RecommendedServerVersions # <<>>
                  /\ main \/ o.HSAuthoritativeDir = 1 \/ o.BridgeAuthoritativeDir = 1
                  /\ o.DirPort # 0 /\ o.ORPort # 0 /\ o.ClientOnly = 0
             /\ o.HSAuthorityRecordStats = 1 => o.HSAuthoritativeDir = 1
             /\ o.FetchDirInfoExtraEarly = 1 => o.FetchDirInfoEarly = 1
             /\ o.ConnLimit > 0]

validate_ports_csv(o, k) == ~Bad(o, k)

\* Each list of reachable addresses ends by rejecting the rest.
EndWithReject(s) == IF s = <<>> \/ Contains(s, "reject *:*") THEN s ELSE Append(s, "reject *:*")

ValidateReachable(v) ==
  LET o == v.o
      convert == o.FascistFirewall = 1 /\ o.ReachableAddresses = <<>>
      ports   == convert /\ o.FirewallPorts # <<>>
      Or(s, d) == IF convert /\ ~ports /\ s = <<>> THEN <<d>> ELSE s
      n == [o EXCEPT
              !.ReachableAddresses = EndWithReject(IF ports THEN <<"the FirewallPorts">> ELSE @),
              !.ReachableDirAddresses = EndWithReject(Or(@, "*:80")),
              !.ReachableORAddresses = EndWithReject(Or(@, "*:443"))]
  IN [o |-> n,
      ok |-> /\ v.ok
             /\ validate_ports_csv(o, "FirewallPorts") /\ validate_ports_csv(o, "LongLivedPorts")
             /\ server_mode(n) => /\ n.ReachableAddresses = <<>>
                                  /\ n.ReachableORAddresses = <<>>
                                  /\ n.ReachableDirAddresses = <<>>
                                  /\ n.UseBridges = 0]

compute_publishserverdescriptor(o) ==
  UNION {CASE w = "1" -> IF o.BridgeRelay = 1 THEN {"bridge"} ELSE {"v2", "v3"}
           [] w = "0" -> {}
           [] OTHER -> {w} : w \in ToSet(o.PublishServerDescriptor)}

AtLeast(x, y)   == IF x < y THEN y ELSE x
AtMost(x, y)    == IF x > y THEN y ELSE x
ensure_bandwidth_cap(x) == IF x > BANDWIDTH_CAP THEN x - 1 ELSE x
Bandwidths == {"BandwidthRate", "BandwidthBurst", "MaxAdvertisedBandwidth",
               "RelayBandwidthRate", "RelayBandwidthBurst"}

ValidateRates(v) ==
  LET o == v.o
      auth == compute_publishserverdescriptor(o)
      c == [k \in DOMAIN o |-> IF k \in Bandwidths THEN ensure_bandwidth_cap(o[k]) ELSE o[k]]
      burst == IF c.RelayBandwidthBurst = 0 THEN c.RelayBandwidthRate ELSE c.RelayBandwidthBurst
  IN [o |-> [c EXCEPT
               !.RendPostPeriod = AtMost(AtLeast(@, MIN_REND_POST), MAX_DIR_PERIOD),
               !.CircuitBuildTimeout = AtLeast(@, MIN_BUILD_TIMEOUT),
               !.MaxCircuitDirtiness = AtLeast(@, MIN_DIRTINESS),
               !.RelayBandwidthBurst = burst,
               !.BandwidthRate = AtLeast(@, c.RelayBandwidthRate),
               !.BandwidthBurst = AtLeast(@, burst)],
      ok |-> /\ v.ok
             /\ ~Bad(o, "AllowInvalidNodes") /\ "bad" \notin auth
             /\ o.BridgeRelay = 1 \/ "bridge" \in auth => auth \cap {"v1", "v2", "v3"} = {}
             /\ o.KeepalivePeriod >= 1
             /\ \A k \in Bandwidths : c[k] <= BANDWIDTH_CAP
             /\ server_mode(o) => /\ c.BandwidthRate >= MIN_BANDWIDTH
                                  /\ c.MaxAdvertisedBandwidth >= MIN_BANDWIDTH \div 2
                                  /\ \/ c.RelayBandwidthRate = 0
                                     \/ c.RelayBandwidthRate >= MIN_BANDWIDTH
             /\ c.RelayBandwidthRate <= burst
             /\ c.BandwidthRate <= c.BandwidthBurst
             /\ o.AccountingStart # "bad"]

Locals == {"127.0.0.1"}

ValidateControl(v) ==
  LET o == v.o
      local == \A i \in DOMAIN o.ControlListenAddress : o.ControlListenAddress[i].a \in Locals
      secret == \/ o.HashedControlPassword # <<>> \/ o.__HashedControlSessionPassword # <<>>
                \/ o.CookieAuthentication = 1
  IN [o |-> [o EXCEPT !.ControlPort = IF local \/ secret THEN @ ELSE 0],
      ok |-> /\ v.ok
             /\ o.HttpProxy # "bad"
             /\ ~Bad(o, "HashedControlPassword") /\ ~Bad(o, "__HashedControlSessionPassword")
             /\ o.UseEntryGuards = 1 => o.NumEntryGuards > 0]

\* The services that a list of hidden service lines makes, or a refusal.
parse_port_config(words) == words # "bad"

rend_config_services(lines) ==
  LET last(s)    == s[Len(s)]
      add(r, l) ==
        IF ~r.ok THEN r
        ELSE IF l[1] = "HiddenServiceDir"
        THEN [r EXCEPT !.services = Append(@, [dir |-> l[2], ports |-> {}, auth |-> FALSE])]
        ELSE IF r.services = <<>> THEN [r EXCEPT !.ok = FALSE]
        ELSE CASE l[1] = "HiddenServicePort" ->
                    IF parse_port_config(l[2])
                    THEN [r EXCEPT !.services[Len(r.services)].ports = @ \cup {l[2]}]
                    ELSE [r EXCEPT !.ok = FALSE]
               [] l[1] = "HiddenServiceAuthorizeClient" ->
                    IF last(r.services).auth \/ l[2] = "bad" THEN [r EXCEPT !.ok = FALSE]
                    ELSE [r EXCEPT !.services[Len(r.services)].auth = TRUE]
               [] OTHER -> IF l[2] = "2" THEN r ELSE [r EXCEPT !.ok = FALSE]
  IN Fold(add, [ok |-> TRUE, services |-> <<>>], lines)

rend_add_service(s) == s.ports # {}

validate_addr_policies(o) ==
  \A k \in {"ExitPolicy", "ReachableAddresses", "ReachableORAddresses", "ReachableDirAddresses"} :
    ~Bad(o, k)

Authorities == {"DirServer", "AlternateDirAuthority", "AlternateBridgeAuthority",
                "AlternateHSAuthority"}
parse_dir_server_line(line) == line # "bad"
parse_bridge_line(line)     == line # "bad"

validate_dir_authorities(o) ==
  /\ o.DirServer # <<>> => \A k \in Authorities \ {"DirServer"} : o[k] = <<>>
  /\ \A k \in Authorities : \A i \in DOMAIN o[k] : parse_dir_server_line(o[k][i])

check_nickname_list(s) == s # "bad"

ValidateNetwork(v) ==
  LET o == v.o IN
  [v EXCEPT !.ok =
     /\ @
     /\ check_nickname_list(o.MyFamily)
     /\ \A i \in DOMAIN o.NodeFamily : check_nickname_list(o.NodeFamily[i])
     /\ validate_addr_policies(o)
     /\ validate_dir_authorities(o)
     /\ o.UseBridges = 1 => o.Bridge # <<>> /\ o.TunnelDirConns = 1
     /\ \A i \in DOMAIN o.Bridge : parse_bridge_line(o.Bridge[i])
     /\ o.ConstrainedSockets = 1 =>
          o.ConstrainedSockSize \in 2048..262144 /\ o.ConstrainedSockSize % 1024 = 0
     /\ o.V3AuthVoteDelay + o.V3AuthDistDelay < o.V3AuthVotingInterval \div 2
     /\ o.V3AuthVoteDelay >= MIN_VOTE_SECONDS /\ o.V3AuthDistDelay >= MIN_DIST_SECONDS
     /\ o.V3AuthNIntervalsValid >= 2
     /\ o.V3AuthVotingInterval \in MIN_VOTE_INTERVAL..86400
     /\ rend_config_services(o.HiddenServiceOptions).ok
     /\ ~Bad(o, "HidServAuth")
     /\ o.VirtualAddrNetwork # "bad"
     /\ o.PreferTunneledDirConns = 1 => o.TunnelDirConns = 1]

ValidateTesting(v) ==
  LET o == v.o
      interval == o.TestingV3AuthInitialVotingInterval
  IN [o |-> [o EXCEPT !.HardwareAccel = IF o.AccelName # "" THEN 1 ELSE @],
      ok |-> /\ v.ok
             /\ o.TestingTorNetwork = 1 => o.DirServer # <<>>
             /\ o.TestingTorNetwork = 0 => /\ interval = 1800
                                           /\ o.TestingV3AuthInitialVoteDelay = 300
                                           /\ o.TestingV3AuthInitialDistDelay = 300
             /\ interval >= MIN_VOTE_INTERVAL /\ (1800 % interval) = 0
             /\ o.TestingV3AuthInitialVoteDelay >= MIN_VOTE_SECONDS
             /\ o.TestingV3AuthInitialDistDelay >= MIN_DIST_SECONDS
             /\ o.TestingV3AuthInitialVoteDelay + o.TestingV3AuthInitialDistDelay < interval \div 2
             /\ o.AccelDir # "" => o.AccelName # ""]

options_validate(o, from_setconf) ==
  ValidateTesting(ValidateNetwork(ValidateControl(ValidateRates(ValidateReachable(
    ValidateAuthority(ValidateBasics([o |-> o, ok |-> TRUE], from_setconf)))))))

options_transition_allowed(old, new) ==
  \A k \in {"PidFile", "RunAsDaemon", "DataDirectory", "User", "HardwareAccel", "AccelName",
            "AccelDir", "TestingTorNetwork"} : old[k] = new[k]

options_transition_affects_workers(old, new) ==
  \E k \in {"NumCpus", "ORPort", "ClientOnly", "Log"} : old[k] # new[k]

options_transition_affects_descriptor(old, new) ==
  \/ \E k \in {"Nickname", "ExitPolicy", "ORPort", "DirPort", "ClientOnly", "NoPublish",
               "BandwidthRate", "BandwidthBurst", "MaxAdvertisedBandwidth", "ContactInfo",
               "MyFamily", "AccountingStart"} : old[k] # new[k]
  \/ compute_publishserverdescriptor(old) # compute_publishserverdescriptor(new)

-----------------------------------------------------------------------------
(* Making the options take effect.  A listener is [t, a, p]: its type, its *)
(* address and its port.                                                   *)

ListenerTypes == <<
  [t |-> "or",      lines |-> "ORListenAddress",      port |-> "ORPort",      any |-> TRUE],
  [t |-> "dir",     lines |-> "DirListenAddress",     port |-> "DirPort",     any |-> TRUE],
  [t |-> "ap",      lines |-> "SocksListenAddress",   port |-> "SocksPort",   any |-> FALSE],
  [t |-> "trans",   lines |-> "TransListenAddress",   port |-> "TransPort",   any |-> FALSE],
  [t |-> "natd",    lines |-> "NatdListenAddress",    port |-> "NatdPort",    any |-> FALSE],
  [t |-> "dns",     lines |-> "DNSListenAddress",     port |-> "DNSPort",     any |-> FALSE],
  [t |-> "control", lines |-> "ControlListenAddress", port |-> "ControlPort", any |-> FALSE],
  [t |-> "unix",    lines |-> "ControlSocket",        port |-> "ControlSocket", any |-> FALSE]>>

Disabled(o, ty) == ty.t \in {"or", "dir"} /\ o.ClientOnly = 1

\* The listeners that the options ask for, in order.
Launch(o, ty) ==
  LET lines == o[ty.lines] IN
  IF ty.t = "unix" THEN [i \in DOMAIN lines |-> [t |-> "unix", a |-> lines[i], p |-> 0]]
  ELSE IF o[ty.port] = 0 THEN <<>>
  ELSE IF lines = <<>>
  THEN <<[t |-> ty.t, a |-> IF ty.any THEN "0.0.0.0" ELSE "127.0.0.1", p |-> o[ty.port]]>>
  ELSE [i \in DOMAIN lines |->
          [t |-> ty.t, a |-> lines[i].a, p |-> IF lines[i].p = 0 THEN o[ty.port] ELSE lines[i].p]]

\* Whether the system lets l be bound: no socket of ours or of another
\* program is on its port.
Bindable(open, taken, l) ==
  \/ l.t = "unix"
  \/ /\ l.p \notin taken
     /\ \A m \in open : ~ /\ m.p = l.p /\ m.t # "unix" /\ (m.t = "dns") = (l.t = "dns")
                          /\ m.a = l.a \/ "0.0.0.0" \in {m.a, l.a}

connection_create_listener(r, l, taken) ==
  IF Bindable(r.open, taken, l)
  THEN [r EXCEPT !.open = @ \cup {l}, !.new = @ \cup {l}]
  ELSE [r EXCEPT !.ok = FALSE]

\* keep says that listeners that are not wanted any more stay open for now.
retry_listeners(r, o, ty, taken, keep) ==
  LET wanted == IF Disabled(o, ty) THEN <<>> ELSE Launch(o, ty)
      mine   == {l \in r.open : l.t = ty.t}
      unwanted == mine \ ToSet(wanted)
      first(i) == \A j \in 1..(i - 1) : wanted[j] # wanted[i]
      create(s, i) == IF wanted[i] \in mine /\ first(i) THEN s
                      ELSE connection_create_listener(s, wanted[i], taken)
  IN Fold(create, [r EXCEPT !.open = IF keep THEN @ ELSE @ \ unwanted,
                            !.replaced = @ \cup unwanted],
          [i \in DOMAIN wanted |-> i])

retry_all_listeners(open, o, taken, keep) ==
  LET next(r, ty) == IF r.ok THEN retry_listeners(r, o, ty, taken, keep) ELSE r
  IN Fold(next, [open |-> open, new |-> {}, replaced |-> {}, ok |-> TRUE], ListenerTypes)

set_max_file_descriptors(limit) == limit <= FD_LIMIT

\* Variant: new listeners stay open although the new options are given up.
ListenersStay(s, o, r) ==
  LET limited == [s EXCEPT !.limit = o.ConnLimit]
      rollback == [s EXCEPT !.open = r.open, !.result = FALSE]
      done     == [limited EXCEPT !.open = r.open, !.result = FALSE]
      commit   == [limited EXCEPT !.open = r.open \ r.replaced, !.logs = o.Log, !.result = TRUE]
  IN IF ~set_max_file_descriptors(o.ConnLimit) \/ ~r.ok THEN rollback
     ELSE IF ~s.dirok THEN done
     ELSE IF ~options_init_logs(o, FALSE, s.logok) THEN rollback
     ELSE commit

\* The rollback and commit of options_act_reversible: done is the exit that
\* neither commits nor rolls back.
ListenersDone(s, o, r) ==
  LET limited == [s EXCEPT !.limit = o.ConnLimit]
      rollback == [s EXCEPT !.result = FALSE]
      done     == [limited EXCEPT !.open = r.open, !.result = FALSE]
      commit   == [limited EXCEPT !.open = r.open \ r.replaced, !.logs = o.Log, !.result = TRUE]
  IN IF ~set_max_file_descriptors(o.ConnLimit) \/ ~r.ok THEN rollback
     ELSE IF ~s.dirok THEN done
     ELSE IF ~options_init_logs(o, FALSE, s.logok) THEN rollback
     ELSE commit
options_act_reversible(s, o) == ListenersDone(s, o, retry_all_listeners(s.open, o, s.taken, TRUE))

Trust(o) ==
  LET defaults == IF o.DirServer # <<>> THEN {}
                  ELSE {k \in Authorities \ {"DirServer"} : o[k] = <<>>}
  IN [defaults |-> defaults, lines |-> [k \in Authorities |-> o[k]]]

consider_adding_dir_authorities(s, o, old) ==
  IF old = NULL \/ \E k \in Authorities : o[k] # old[k]
  THEN [s EXCEPT !.trusted = Trust(o)] ELSE s

policies_parse_from_options(s, o) ==
  LET reach(k) == IF o[k] # <<>> THEN o[k] ELSE o.ReachableAddresses
  IN [s EXCEPT !.reach = [or |-> reach("ReachableORAddresses"),
                          dir |-> reach("ReachableDirAddresses")]]

config_register_addressmaps(s, o) == [s EXCEPT !.maps = {l \in ToSet(o.MapAddress) : l # "bad"}]

\* The end of options_act: a change that matters has the descriptor rebuilt.
MarkDescriptor(s, o, old) ==
  [s EXCEPT !.dirty = @ \/ old = NULL \/ options_transition_affects_descriptor(old, o)]

ServicesAndBridges(s, o) ==
  [s EXCEPT !.bridges = IF o.Bridge # <<>> THEN o.Bridge ELSE @,
            !.services = SelectSeq(rend_config_services(o.HiddenServiceOptions).services, rend_add_service)]
RotateWorkers(s, o, old) ==
  [s EXCEPT !.rotated = old # NULL /\ options_transition_affects_workers(old, o)]
options_act(s, o, old) ==
  MarkDescriptor(RotateWorkers(policies_parse_from_options(config_register_addressmaps(
    ServicesAndBridges(consider_adding_dir_authorities(s, o, old), o), o), o), o, old), o, old)

ActIfCommitted(s, o, old) == IF s.result THEN options_act([s EXCEPT !.o = o], o, old) ELSE s
set_options(s, o) == ActIfCommitted(options_act_reversible(s, o), o, s.o)

-----------------------------------------------------------------------------
(* The ways in which a configuration reaches the program.                  *)

Refuse(s) == [s EXCEPT !.result = FALSE]

SetIfAllowed(s, v) ==
  IF ~v.ok \/ (s.o # NULL /\ ~options_transition_allowed(s.o, v.o)) THEN Refuse(s)
  ELSE set_options(s, v.o)
Assigned(s, a, from_setconf) ==
  IF a.err # "" THEN Refuse(s) ELSE SetIfAllowed(s, options_validate(a.o, from_setconf))
options_trial_assign(s, lines, use_defaults) ==
  Assigned(s, config_assign([o |-> options_dup(s.o), err |-> ""], lines, s.testing, use_defaults, TRUE),
           TRUE)

\* The options that a text gives, on top of the initial values in force.
AssignAll(text, testing) ==
  config_assign(config_assign([o |-> config_init[testing], err |-> ""], text, testing, FALSE, FALSE),
                config_get_commandlines, testing, FALSE, FALSE)

\* A testing network has defaults of its own, and the text is read again.
ReadAgain(s, text, first) ==
  LET testing == s.testing \/ first.o.TestingTorNetwork = 1
  IN IF first.err # "" THEN Refuse(s)
     ELSE Assigned([s EXCEPT !.testing = testing],
                   IF testing THEN AssignAll(text, TRUE) ELSE first, FALSE)
options_init_from_string(s, text) == ReadAgain(s, text, AssignAll(text, s.testing))

\* What the initial values give once validated, which is what a saved file
\* leaves out.
SavedDefaults == [t \in BOOLEAN |-> options_validate(config_init[t], TRUE)]

config_dump(o, testing) ==
  LET d == SavedDefaults[testing].o
      dump(text, k) == text \o get_assigned_option(o, k)
  IN Fold(dump, <<>>, SelectSeq(Ordered, LAMBDA k : k \notin Private /\ ~option_is_same(o, d, k)))

\* An exit closes the listeners and the logs.
Stopped(s) == [s EXCEPT !.on = FALSE, !.o = NULL, !.testing = FALSE, !.open = {}, !.logs = <<>>,
                        !.bridges = <<>>, !.services = <<>>, !.maps = {}, !.rotated = FALSE,
                        !.trusted = NULL, !.reach = NULL, !.limit = 0, !.dirty = FALSE]

\* wrote says how far the replacement of the file got: the rename, the write.
write_configuration_file(s, wrote) ==
  LET rename == ~s.torrc.generated
      moved  == [s EXCEPT !.torrc = [text |-> NULL, generated |-> FALSE]]
  IN CASE wrote = "all"    -> [s EXCEPT !.torrc = [text |-> config_dump(s.o, s.testing),
                                                   generated |-> TRUE], !.result = TRUE]
       [] wrote = "rename" -> Refuse(IF rename THEN moved ELSE s)
       [] wrote = "none"   -> Refuse(s)

handle_control_setconf(s, c)  == options_trial_assign(s, c.lines, c.reset)
handle_control_loadconf(s, t) == options_init_from_string(s, t)

\* A torrc that does not exist is read as an empty one.
load_torrc_from_disk(s) == IF s.torrc.text = NULL THEN <<>> ELSE s.torrc.text

options_init_from_torrc(s) == options_init_from_string(s, load_torrc_from_disk(s))

Reloaded(s) == IF s.result THEN [s EXCEPT !.rotated = @ \/ server_mode(s.o)] ELSE Stopped(s)
do_hup(s) ==
  IF s.o.__ReloadTorrcOnSIGHUP = 0 THEN [s EXCEPT !.result = TRUE]
  ELSE Reloaded(options_init_from_torrc(s))

-----------------------------------------------------------------------------
(* The actions: a command of the controller, a signal, the user and the    *)
(* system.                                                                 *)

CfInit ==
  cf = [on |-> FALSE, o |-> NULL, testing |-> FALSE, torrc |-> [text |-> NULL, generated |-> FALSE],
        open |-> {}, logs |-> <<>>, limit |-> 0, trusted |-> NULL, bridges |-> <<>>,
        services |-> <<>>, maps |-> {}, reach |-> NULL, rotated |-> FALSE, dirty |-> FALSE,
        result |-> TRUE, taken |-> {}, logok |-> TRUE, dirok |-> TRUE, n |-> 0, t |-> 0]

Command == cf.on /\ cf.n < MaxCommands
Counted(s) == [s EXCEPT !.n = @ + 1]

SetConf  == Command /\ \E i \in DOMAIN Settings :
              cf' = Counted(handle_control_setconf(cf, Settings[i]))
LoadConf == Command /\ \E i \in DOMAIN Torrcs :
              cf' = Counted(handle_control_loadconf(cf, Torrcs[i]))
Hup      == Command /\ cf' = Counted(do_hup(cf))

\* The initial values are validated before anything is written; the program
\* aborts when they do not pass.
SaveConf == /\ Command
            /\ \E wrote \in {"none", "rename", "all"} :
                 cf' = IF SavedDefaults[cf.testing].ok
                       THEN Counted(write_configuration_file(cf, wrote))
                       ELSE Counted(Stopped(cf))

\* Once a minute listeners that died are launched again.
CheckListeners ==
  /\ cf.on
  /\ cf' = [cf EXCEPT !.open = retry_all_listeners(cf.open, cf.o, cf.taken, FALSE).open]

Started(s) == IF s.result THEN [s EXCEPT !.on = TRUE] ELSE Stopped(s)
tor_init == ~cf.on /\ cf' = Started(options_init_from_torrc(cf))

Trouble == cf.t < MaxTroubles
StopTor   == cf.on /\ Trouble /\ cf' = [Stopped(cf) EXCEPT !.t = @ + 1]
EditTorrc == /\ Trouble /\ \E i \in DOMAIN Torrcs :
                  cf' = [cf EXCEPT !.torrc = [text |-> Torrcs[i], generated |-> FALSE], !.t = @ + 1]
PortTaken == /\ Trouble /\ \E p \in PortsAtRisk :
                  /\ \A l \in cf.open : l.p # p
                  /\ cf' = [cf EXCEPT !.taken = @ \cup {p}, !.t = @ + 1]
LogFails  == Trouble /\ LogMayFail /\ cf.logok /\ cf' = [cf EXCEPT !.logok = FALSE, !.t = @ + 1]
DirBreaks == Trouble /\ DirMayBreak /\ cf.dirok /\ cf' = [cf EXCEPT !.dirok = FALSE, !.t = @ + 1]

CfNext == \/ SetConf \/ LoadConf \/ Hup \/ SaveConf \/ CheckListeners \/ tor_init \/ StopTor
          \/ EditTorrc \/ PortTaken \/ LogFails \/ DirBreaks

CfSpec == CfInit /\ [][CfNext]_cf

-----------------------------------------------------------------------------
(* Properties.                                                             *)

\* What a node does is what the options in force say, however they came
\* about and whatever was refused before: its listeners, its logs, its limit,
\* the authorities it trusts, the bridges it uses, the services it offers and
\* the addresses it takes to be reachable (set_options, options_act).
InForce ==
  cf.on /\ cf.dirok =>
    LET o == cf.o IN
    /\ cf.open = UNION {IF Disabled(o, ListenerTypes[i]) THEN {}
                        ELSE ToSet(Launch(o, ListenerTypes[i])) : i \in DOMAIN ListenerTypes}
    /\ cf.logs = o.Log
    /\ cf.limit = o.ConnLimit
    /\ cf.trusted = Trust(o)
    /\ o.UseBridges = 1 => cf.bridges = o.Bridge
    /\ Len(cf.services) <= Len(o.HiddenServiceOptions)
    /\ o.FascistFirewall = 1 => Last(cf.reach.or) = "reject *:*" /\ Last(cf.reach.dir) = "reject *:*"

\* A refused command changes nothing: not the options, not a listener, a log
\* or a limit, as long as the data directory is there (options_act_reversible
\* leaves half way when it is not); a failed SAVECONF may have moved the file.
AllOrNothing ==
  cf'.n # cf.n /\ ~cf'.result /\ cf'.on /\ cf.dirok =>
    cf' = [cf EXCEPT !.n = cf'.n, !.result = FALSE, !.testing = cf'.testing, !.torrc = cf'.torrc]

\* What validation does to the options is final: the options in force pass
\* again, unchanged, so that the next SETCONF is judged by what it changes.
\* The control port that validation switches off is the exception.
ControlOff(o) == o.ControlPort = 0 /\ o.ControlListenAddress # <<>>
StaysValid ==
  cf.on /\ ~ControlOff(cf.o) => options_validate(options_dup(cf.o), TRUE) = [o |-> cf.o, ok |-> TRUE]

\* SAVECONF followed by a restart gives the options in force again, except
\* for those that are never saved, for the log lines that a start adds, and
\* for a string that was emptied (config_dump, options_init_from_string).
Emptied(o, k) == Type(k) = "STRING" /\ o[k] = "" /\ Init0(FALSE, k) # ""
SavedIsSame ==
  cf.on /\ ~cf.testing /\ ~ControlOff(cf.o) =>
    \E a \in {AssignAll(config_dump(cf.o, FALSE), FALSE)} :
      \E v \in {options_validate(a.o, FALSE)} :
        /\ a.err = "" /\ v.ok
        /\ \A k \in Fields \ (Private \cup {"Log"}) : v.o[k] = cf.o[k] \/ Emptied(cf.o, k)

\* The options that an unset configuration amounts to pass validation, so
\* that SAVECONF never meets the assertion of config_dump.
DefaultsPass == cf.on => SavedDefaults[cf.testing].ok

=============================================================================

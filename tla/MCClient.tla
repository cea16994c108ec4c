------------------------------ MODULE MCClient ------------------------------
(***************************************************************************)
(* A node as a client of the network: the streams of applications on       *)
(* circuits (Streams, with the address map), the fetching of documents     *)
(* (DirFetch) and the consensus it goes by (NetworkStatus).  The parts are *)
(* checked side by side: part says which one a behaviour is about, and the *)
(* variables of the others keep their first value.  Streams is checked     *)
(* three times: two streams that compete; one stream of every kind; one    *)
(* stream with a controller that gives commands and circuits that fail.    *)
(***************************************************************************)
EXTENDS Integers, Sequences, FiniteSets

CONSTANT NULL   \* the null pointer: none of the objects of the module

CONSTANTS \* of Streams
          Names, Ip, Virtuals, Exits, MAX_REWRITES, MAX_DNS_AGE, DNS_TTL, TrackExpire, TIME_MAX,
          StCircs, OldDns, KnownExits, Automaps, PlainNames, TrackedHosts, Internal, BadNames,
          SocksTimeout, RetryTimeout, RetryLater, MaxCircuitDirtiness, NewCircuitPeriod,
          CircuitIdleTimeout, MAX_RESOLVE_FAILURES, TRACKHOSTEXITS_RETRIES, SidSpace, StMaxTime

VARIABLES part, st, sx, df, ns

-----------------------------------------------------------------------------
(* Streams: h2 is a name whose exit may or may not find it, and one of the  *)
(* exits, x2, refuses the address found; x1 is the enclave of i1.           *)
To(n) == <<"fwd", n, NULL>>
Policy(x, n) == IF n = "i2" /\ x = "x2" THEN "reject"
                ELSE IF n \in {"h1", "h2"} THEN "probably accepted" ELSE "accept"
EnclaveOf(n) == IF n = "i1" THEN "x1" ELSE NULL
Address(n) == IF n = "h2" THEN {"i2"} ELSE {n}
Answer(n) == CASE n = "h1" -> {"i1"} [] n = "h2" -> {"i2", NULL} [] OTHER -> {n}
EveryKind == {"user", "resolve", "ptr", "dns", "ctlres", "dir", "trans", "natd"}


Two == INSTANCE Streams WITH
         AppStreams <- {1, 2}, StreamKinds <- {"user"}, Targets <- {To("h2"), To("i1")},
         LeaveStreamsUnattached <- FALSE, StMaxCommands <- 0, StMaxFaults <- 0,
         Verdict <- Policy, Enclave <- EnclaveOf, Found <- Address
Any == INSTANCE Streams WITH
         AppStreams <- {1}, StreamKinds <- EveryKind,
         Targets <- {To("h1"), To("i1"), <<"fwd", "h2", "x2">>},
         LeaveStreamsUnattached <- FALSE, StMaxCommands <- 0, StMaxFaults <- 0,
         Verdict <- Policy, Enclave <- EnclaveOf, Found <- Answer, st <- sx
Ctl == INSTANCE Streams WITH
         AppStreams <- {1}, StreamKinds <- {"user", "resolve"}, Targets <- {To("h2"), To("i1")},
         LeaveStreamsUnattached <- TRUE, StMaxCommands <- 2, StMaxFaults <- 1,
         Verdict <- Policy, Enclave <- EnclaveOf, Found <- Answer, st <- sx

-----------------------------------------------------------------------------
(* Fetching: a1 and a2 are authorities, the firewall does not let us reach  *)
(* a2's OR port, and each server answers, is dead, is busy or lacks the     *)
(* document.                                                                *)
Fetch == INSTANCE DirFetch WITH
           Servers <- {"a1", "a2", "c1"}, Auths <- {"a1", "a2"}, Me <- NULL,
           Documents_ <- {"consensus", "d1"}, Descs <- {"d1"},
           Behaviours <- {b \in [{"a1", "a2", "c1"} -> {"answers", "dead", "busy", "lacks"}] :
                            b["c1"] # "lacks"},
           OrAllowed <- {"a1", "c1"}, DirAllowed <- {"a1", "a2", "c1"},
           PreferTunneled <- TRUE, PreferAuthority <- FALSE, NoSecondFetch <- FALSE

(* The consensus: two authorities, which change their keys at 40.           *)
Both(c) == {"a1", "a2"}
Status == INSTANCE NetworkStatus WITH
            Authorities <- {"a1", "a2"}, Signers <- Both, Rollover <- 40, KeyLife <- 80,
            Period <- 16, Valid <- 48, Role <- "later", BEFORE_CACHING <- 1,
            DELAY_WHILE_FETCHING_CERTS <- 6, DEAD_CERT_LIFETIME <- 32,
            OLD_CERT_LIFETIME <- 112, OLD_CONSENSUS <- 80, MAX_DL_TRIES <- 8,
            MAX_CERT_DL_FAILURES <- 8, Fallback <- 16, NsStart <- 32, NsStep <- 8,
            NsMaxTime <- 64, MaxLost <- 1, MaxBoots <- 1

-----------------------------------------------------------------------------
ClientInit ==
    /\ Two!StInit /\ Any!StInit /\ Fetch!DfInit /\ Status!NsInit
    /\ part \in {"two", "any", "ctl", "fetch", "status"}
    /\ part # "fetch" => df.have /\ \A x \in DOMAIN df.does : df.does[x] = "answers"

ClientNext ==
    /\ UNCHANGED part
    /\ \/ part = "two" /\ Two!StNext /\ UNCHANGED <<sx, df, ns>>
       \/ part = "any" /\ Any!StNext /\ UNCHANGED <<st, df, ns>>
       \/ part = "ctl" /\ Ctl!StNext /\ UNCHANGED <<st, df, ns>>
       \/ part = "fetch" /\ Fetch!DfNext /\ UNCHANGED <<st, sx, ns>>
       \/ part = "status" /\ Status!NsNext /\ UNCHANGED <<st, sx, df>>

(* Streams: the once-a-second events run for ever (second_elapsed_callback). *)
(* NetworkStatus: the clock runs, the minute's work is done, and every fetch  *)
(* ends.  This is weak fairness of these actions, with the condition that     *)
(* enables each written out.                                                  *)
Ticking == \/ part = "two" /\ st.now < StMaxTime
           \/ part \in {"any", "ctl"} /\ sx.now < StMaxTime
           \/ part = "status" /\ ns.now < 64
Ticks == \/ part = "two" /\ Two!StTick
         \/ part = "any" /\ Any!StTick
         \/ part = "ctl" /\ Ctl!StTick
         \/ part = "status" /\ Status!NsTick
TimeFair ==
    /\ []<>~Ticking \/ []<><<Ticks>>_<<st, sx, ns>>
    /\ \/ []<>~(part = "status" /\ Status!Minute(ns) # ns)
       \/ []<><<part = "status" /\ Status!update_networkstatus_downloads>>_ns
    /\ []<>~(part = "status" /\ ns.fetching) \/ []<><<part = "status" /\ Status!ConsensusArrives>>_ns
    /\ []<>~(part = "status" /\ ns.certf # {}) \/ []<><<part = "status" /\ Status!CertsArrive>>_ns

(* DirFetch: the callers' timers fire again and again, and a connection ends  *)
(* in the end.  For descriptors, and without a consensus, nothing keeps a     *)
(* server that failed from being drawn again, so there - and only there - the *)
(* random choice is assumed to be fair: a helpful server that is among those  *)
(* drawn from again and again is drawn.                                       *)
FetchFair ==
    /\ \A doc \in {"consensus", "d1"} :
         /\ WF_df(part = "fetch" /\ Fetch!Asks_(doc))
         /\ SF_df(part = "fetch" /\ Fetch!AsksHelpful(doc))
    /\ \A x \in {"a1", "a2", "c1"}, doc \in {"consensus", "d1"} :
         WF_df(part = "fetch" /\ Fetch!connection_dir_client_reached_eof(Fetch!Conn(x, doc)))

ClientSpec == ClientInit /\ [][ClientNext]_<<part, st, sx, df, ns>> /\ TimeFair /\ FetchFair

-----------------------------------------------------------------------------
(* A stream and its circuit agree on where it is, it is answered once, and  *)
(* what an exit says reaches the stream it is about (circuituse.c,          *)
(* connection_edge.c, relay.c).                                             *)
StreamsOk ==
    /\ part = "two" => Two!StreamsPlaced /\ Two!AnsweredOnce /\ Two!TalksToOwn
    /\ part \in {"any", "ctl"} => Any!StreamsPlaced /\ Any!AnsweredOnce /\ Any!TalksToOwn

(* A request is connected or given up in the end, whatever the exits, the   *)
(* circuits and the controller do (connection_ap_expire_beginning).         *)
StreamsEnd ==
    (part = "two" => Two!StreamsEnd) /\ (part \in {"any", "ctl"} => Any!StreamsEnd)

(* A document is fetched in the end as long as one authority within reach   *)
(* answers, and "unreachable" is reported only when none can be reached     *)
(* (routerlist.c, directory.c).                                             *)
DocumentsFetched == (part = "fetch" => Fetch!DocumentsFetched) /\ []Fetch!UnreachableIsTrue

(* The consensus in use never goes back, the one that waits for             *)
(* certificates is not forgotten, and the node ends up with a live one      *)
(* (networkstatus.c, routerlist.c).                                         *)
ConsensusOk ==
    /\ [](part = "status" => Status!ConsensusKept) /\ Status!ConsensusForward
    /\ <>[](part = "status" => Status!Live(ns))
=============================================================================

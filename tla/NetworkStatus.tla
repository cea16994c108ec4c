--------------------------- MODULE NetworkStatus ---------------------------
(***************************************************************************)
(* How a node keeps its consensus directory up to date: networkstatus.c    *)
(* with the certificate store of routerlist.c.  A consensus is named by    *)
(* its valid-after time and is signed with the keys the authorities hold   *)
(* at that time; a node that lacks the certificates for them keeps the     *)
(* consensus waiting while it fetches certificates.  Directory servers     *)
(* answer a certificate request with the authority's newest certificate.   *)
(* The delays between two tries of a download are left out.                *)
(***************************************************************************)
EXTENDS Integers, FiniteSets, FiniteSetsExt

CONSTANT NULL   \* the null pointer: none of the objects of the module

CONSTANTS Authorities,    \* v3 directory authorities
          Signers(_),     \* who signed the consensus valid after this time
          Rollover,       \* when the authorities take new signing keys
          KeyLife,        \* a certificate expires this long after publication
          Period, Valid,  \* a consensus is fresh for Period, valid for Valid
          Role,           \* "early" (caches), "client", "later" (bridge users)
          BEFORE_CACHING, DELAY_WHILE_FETCHING_CERTS, DEAD_CERT_LIFETIME,
          OLD_CERT_LIFETIME, OLD_CONSENSUS, MAX_DL_TRIES, MAX_CERT_DL_FAILURES,
          Fallback,       \* the packaged fallback consensus, or NULL
          NsStart, NsStep, NsMaxTime, MaxLost, MaxBoots

VARIABLE ns

KeyAt(t) == IF t >= Rollover THEN 2 ELSE 1
CertPublished(c) == IF c[2] = 2 THEN Rollover ELSE 0
CertExpires(c) == CertPublished(c) + KeyLife

Better(a, b) == IF a = NULL \/ (b # NULL /\ b > a) THEN b ELSE a
Live(s) == s.cur # NULL /\ s.cur <= s.now /\ s.now <= s.cur + Valid

(***************************************************************************)
(* Signatures.                                                             *)
(***************************************************************************)
GoodSignatures(s, c, before) ==
    before \cup {a \in Signers(c) : /\ <<a, KeyAt(c)>> \in s.certs
                                    /\ CertExpires(<<a, KeyAt(c)>>) >= s.now}

networkstatus_check_consensus_signature(c, good) ==
    LET required == Cardinality(Authorities) \div 2 + 1
    IN  CASE good = Authorities -> 1
          [] good # Authorities /\ Cardinality(good) >= required -> 0
          [] Cardinality(good) < required /\ Cardinality(Signers(c)) >= required -> -1
          [] OTHER -> -2

(***************************************************************************)
(* Fetching.                                                               *)
(***************************************************************************)
CertReady(s, a) == /\ s.cfail[a] < MAX_CERT_DL_FAILURES
                   /\ \A r \in s.certf : a \notin r

UnexpiredCert(s, a) == \E k \in 1..2 : <<a, k>> \in s.certs
                                       /\ CertExpires(<<a, k>>) >= s.now

authority_certs_fetch_missing(s, c) ==
    LET held == IF c = NULL THEN {}
                ELSE {a \in Signers(c) : <<a, KeyAt(c)>> \in s.certs
                                         /\ s.now < CertExpires(<<a, KeyAt(c)>>)}
        s1 == [s EXCEPT !.cfail = [a \in Authorities |-> IF a \in held THEN 0 ELSE @[a]]]
        first == IF c = NULL THEN {}
                 ELSE {a \in Signers(c) : <<a, KeyAt(c)>> \notin s.certs
                                          /\ CertReady(s1, a)}
        found == {a \in Authorities \ first : UnexpiredCert(s, a)}
        s2 == [s1 EXCEPT !.cfail = [a \in Authorities |-> IF a \in found THEN 0 ELSE @[a]]]
        second == {a \in Authorities \ (first \cup found) : CertReady(s2, a)}
    IN  IF first \cup second = {} THEN s2
        ELSE [s2 EXCEPT !.certf = @ \cup {first \cup second}]

update_certificate_downloads(s) ==
    authority_certs_fetch_missing(s, IF s.wait # NULL THEN s.wait.c ELSE s.cur)

update_consensus_networkstatus_downloads(s0) ==
    LET s == IF Live(s0) THEN s0 ELSE [s0 EXCEPT !.next = s0.now]
        give == s.wait # NULL /\ ~s.wait.dl_failed
    IN  IF \/ s.next > s.now \/ s.fails >= MAX_DL_TRIES \/ s.fetching
           \/ (s.wait # NULL /\ s.wait.set_at + DELAY_WHILE_FETCHING_CERTS > s.now)
        THEN s
        ELSE [s EXCEPT !.fails = IF give THEN @ + 1 ELSE @,
                       !.wait = IF give THEN [@ EXCEPT !.dl_failed = TRUE] ELSE @,
                       !.fetching = TRUE]

networkstatus_consensus_download_failed(s) ==
    update_consensus_networkstatus_downloads([s EXCEPT !.fails = @ + 1])

\* The times at which the next consensus may be fetched; the random choice
\* within the interval is represented by its two ends.
FetchTimes(c) ==
    LET fresh == c + Period
        client == fresh + (Period * 3) \div 4
        span == ((c + Valid - client) * 7) \div 8
        late == client + span + BEFORE_CACHING
        start == CASE Role = "early" -> fresh + BEFORE_CACHING
                   [] Role = "client" -> client
                   [] Role = "later" -> late
        len == CASE Role = "early" -> Period \div 2
                 [] Role = "client" -> span
                 [] Role = "later" -> (c + Valid - late) - BEFORE_CACHING
    IN  {start, start + Max({len, 1}) - 1}

update_consensus_networkstatus_fetch_time(s) ==
    IF Live(s) THEN {[s EXCEPT !.next = t] : t \in FetchTimes(s.cur)}
    ELSE {[s EXCEPT !.next = s.now]}

(***************************************************************************)
(* A consensus arrives, from the network or from a file.                   *)
(***************************************************************************)
Reject(s, c, from_cache, accept_obsolete) ==
    \/ from_cache /\ ~accept_obsolete /\ c + Valid < s.now - OLD_CONSENSUS
    \/ s.cur # NULL /\ c <= s.cur

KeepWaiting(s, c, good, from_cache, dl_certs) ==
    LET s1 == [s EXCEPT !.wait = [c |-> c, good |-> good, set_at |-> s.now,
                                  dl_failed |-> FALSE],
                        !.unverified = IF from_cache THEN @ ELSE c]
    IN  IF dl_certs THEN authority_certs_fetch_missing(s1, NULL) ELSE s1

\* Variant: the consensus that waits is kept whatever is accepted.
AcceptKeepingWait(s, c, r, from_cache, dl_certs) ==
    LET s1 == IF r # 1 /\ dl_certs THEN authority_certs_fetch_missing(s, c) ELSE s
        s2 == [s1 EXCEPT !.cur = c,
                         !.cached = IF from_cache THEN @ ELSE c,
                         !.fails = IF c <= s.now /\ s.now <= c + Valid THEN 0
                                   ELSE IF from_cache THEN @ ELSE @ + 1]
    IN  update_consensus_networkstatus_fetch_time(s2)

Accept(s, c, r, from_cache, dl_certs) ==
    LET s1 == IF r # 1 /\ dl_certs THEN authority_certs_fetch_missing(s, c) ELSE s
        drop == s.wait # NULL /\ s.wait.c <= c
        s2 == [s1 EXCEPT !.cur = c,
                         !.wait = IF drop THEN NULL ELSE @,
                         !.unverified = IF drop THEN NULL ELSE @,
                         !.cached = IF from_cache THEN @ ELSE c,
                         !.fails = IF c <= s.now /\ s.now <= c + Valid THEN 0
                                   ELSE IF from_cache THEN @ ELSE @ + 1]
    IN  update_consensus_networkstatus_fetch_time(s2)

\* The possible states after the call; its result is 0 unless Refused.
networkstatus_set_current_consensus(s, c, from_cache, was_waiting, accept_obsolete) ==
    LET good == GoodSignatures(s, c, {})
        r == networkstatus_check_consensus_signature(c, good)
    IN  CASE Reject(s, c, from_cache, accept_obsolete) -> {s}
          [] ~Reject(s, c, from_cache, accept_obsolete) /\ r = -1 ->
                {KeepWaiting(s, c, good, from_cache, ~from_cache)}
          [] ~Reject(s, c, from_cache, accept_obsolete) /\ r = -2 ->
                {[s EXCEPT !.unverified = IF was_waiting /\ from_cache THEN NULL ELSE @]}
          [] OTHER -> Accept(s, c, r, from_cache, ~from_cache)

Refused(s, c) == \/ Reject(s, c, FALSE, FALSE)
                 \/ networkstatus_check_consensus_signature(c, GoodSignatures(s, c, {})) = -2

networkstatus_note_certs_arrived(s) ==
    IF s.wait = NULL THEN {s}
    ELSE LET good == GoodSignatures(s, s.wait.c, s.wait.good)
             s1 == [s EXCEPT !.wait.good = good]
         IN  IF networkstatus_check_consensus_signature(s.wait.c, good) >= 0
             THEN networkstatus_set_current_consensus(s1, s.wait.c, FALSE, TRUE, FALSE)
             ELSE {s1}

(***************************************************************************)
(* Certificates.                                                           *)
(***************************************************************************)
trusted_dirs_load_certs_from_string(s, certs, from_store) ==
    LET again == {c[1] : c \in certs \cap s.certs}
        s1 == [s EXCEPT !.certs = @ \cup certs,
                        !.cfail = [a \in Authorities |->
                            IF a \in again /\ ~from_store THEN @[a] + 1 ELSE @[a]]]
        s2 == [s1 EXCEPT !.certfile =
                            IF from_store \/ certs \subseteq s.certs THEN @ ELSE s1.certs]
    IN  networkstatus_note_certs_arrived(s2)

trusted_dirs_remove_old_certs(s) ==
    LET newest(c) == Max({CertPublished(d) : d \in {e \in s.certs : e[1] = c[1]}})
        gone == {c \in s.certs :
                   /\ CertPublished(c) < newest(c)
                   /\ IF s.now > CertExpires(c)
                      THEN newest(c) + DEAD_CERT_LIFETIME < s.now
                      ELSE CertPublished(c) + OLD_CERT_LIFETIME < newest(c)}
    IN  IF gone = {} THEN s
        ELSE [s EXCEPT !.certs = @ \ gone, !.certfile = s.certs \ gone]

(***************************************************************************)
(* Start, and the steps of the node.                                       *)
(***************************************************************************)
router_reload_consensus_networkstatus(s) ==
    LET Try(S, c, was_waiting, obsolete) ==
            IF c = NULL THEN S
            ELSE UNION {networkstatus_set_current_consensus(t, c, TRUE, was_waiting, obsolete) :
                          t \in S}
        files == Try(Try({s}, s.cached, FALSE, FALSE), s.unverified, TRUE, FALSE)
        fallback == UNION {IF t.cur = NULL THEN Try({t}, Fallback, FALSE, TRUE) ELSE {t} :
                             t \in files}
    IN  {update_certificate_downloads(t) : t \in fallback}

Booted(s) ==
    LET s1 == [s EXCEPT !.certs = {}, !.cfail = [a \in Authorities |-> 0], !.certf = {},
                        !.cur = NULL, !.wait = NULL, !.fails = 0, !.next = 0,
                        !.fetching = FALSE]
        loaded == trusted_dirs_load_certs_from_string(s1, s.certfile, TRUE)
    IN  UNION {router_reload_consensus_networkstatus(t) : t \in loaded}

NsFirst == [now |-> NsStart, certs |-> {}, certfile |-> {},
            cfail |-> [a \in Authorities |-> 0], certf |-> {}, cur |-> NULL,
            wait |-> NULL, cached |-> NULL, unverified |-> NULL, fails |-> 0,
            next |-> 0, fetching |-> FALSE, lost |-> 0, boots |-> 0]

NsInit == ns \in Booted(NsFirst)

\* Once a minute: old certificates go, and due downloads start.
Minute(s) == update_certificate_downloads(
               update_consensus_networkstatus_downloads(trusted_dirs_remove_old_certs(s)))

update_networkstatus_downloads == ns' = Minute(ns)

\* A server has the newest consensus or the one before.
ServerHas(t) == {(t \div Period) * Period, (t \div Period) * Period - Period}

\* A refused consensus counts as a failed try while the connection is still there.
ConsensusArrives ==
    /\ ns.fetching
    /\ \E c \in ServerHas(ns.now) :
          IF Refused(ns, c)
          THEN ns' = [networkstatus_consensus_download_failed(ns) EXCEPT !.fetching = FALSE]
          ELSE ns' \in networkstatus_set_current_consensus([ns EXCEPT !.fetching = FALSE],
                                                          c, FALSE, FALSE, FALSE)

\* The connection fails before the answer is complete.
ConsensusFetchFails ==
    /\ ns.fetching /\ ns.lost < MaxLost
    /\ ns' = networkstatus_consensus_download_failed(
                [ns EXCEPT !.fetching = FALSE, !.lost = @ + 1])

\* A server answers with the newest certificates it has of those asked for.
CertsArrive ==
    \E r \in ns.certf, got \in SUBSET Authorities :
        /\ got # {} /\ got \subseteq r /\ (got = r \/ ns.lost < MaxLost)
        /\ ns' \in trusted_dirs_load_certs_from_string(
                     [ns EXCEPT !.certf = @ \ {r},
                                !.lost = IF got = r THEN @ ELSE @ + 1],
                     {<<a, KeyAt(ns.now)>> : a \in got}, FALSE)

connection_dir_download_cert_failed ==
    \E r \in ns.certf :
        /\ ns.lost < MaxLost
        /\ ns' = update_certificate_downloads(
                   [ns EXCEPT !.certf = @ \ {r}, !.lost = @ + 1,
                              !.cfail = [a \in Authorities |->
                                            IF a \in r THEN @[a] + 1 ELSE @[a]]])

\* Time passes; every hour the failures are forgotten.
NsTick ==
    /\ ns.now < NsMaxTime
    /\ ns' = [ns EXCEPT !.now = @ + NsStep,
                        !.fails = IF (ns.now + NsStep) % Period = 0 THEN 0 ELSE @]

NsRestart == /\ ns.boots < MaxBoots /\ ns.now + Period <= NsMaxTime
             /\ ns' \in Booted([ns EXCEPT !.boots = @ + 1])

NsNext == \/ update_networkstatus_downloads \/ ConsensusArrives \/ ConsensusFetchFails
          \/ CertsArrive \/ connection_dir_download_cert_failed \/ NsTick \/ NsRestart

NsSpec == NsInit /\ [][NsNext]_ns

(***************************************************************************)
(* Properties.                                                             *)
(***************************************************************************)
\* A consensus that waits for certificates (networkstatus.c:1452-1467) is newer
\* than the one in use, and the certificates in hand do not yet verify it: no
\* arrival of certificates is missed.  The files hold something at least as new
\* as the consensus in use, and the next fetch of a live consensus lies between
\* its end of freshness and its end of validity (the assertions at 1163-1165).
ConsensusKept ==
    /\ ns.wait # NULL =>
         /\ ns.cur # NULL => ns.wait.c > ns.cur
         /\ networkstatus_check_consensus_signature(
              ns.wait.c, GoodSignatures(ns, ns.wait.c, {})) = -1
    /\ ns.cur # NULL /\ ns.cur # Fallback =>
         Better(ns.cached, ns.unverified) # NULL /\ Better(ns.cached, ns.unverified) >= ns.cur
    /\ Live(ns) => ns.cur + Period < ns.next /\ ns.next < ns.cur + Valid

\* In whatever order consensuses and certificates arrive, and whichever fetches
\* fail, the consensus in use never goes back while the node runs, and it is
\* always one that a majority of the authorities signed.
ConsensusForward ==
    [][ns'.boots = ns.boots /\ ns.cur # NULL =>
          ns'.cur # NULL /\ ns'.cur >= ns.cur]_ns

\* However the authorities' key change falls between a consensus and its
\* certificates, the node ends up with a live consensus as long as fewer
\* fetches fail than the limits on tries allow.
BecomesLive == <>[]Live(ns)
=============================================================================

---- MODULE Policies ----
(***************************************************************************)
(* Address policies: innomitor/src/or/policies.c, with the parsing of      *)
(* policy items in routerparse.c and common/address.c.  An item says       *)
(* accept or reject for the addresses that share the first `bits` bits of  *)
(* `addr`, on ports min..max; items are shared, counted objects.           *)
(* IPv4 only: WIDTH bits of address (32 in the code), ports 1..MAX_PORT.   *)
(***************************************************************************)
EXTENDS Integers, Sequences, SequencesExt, FiniteSets

CONSTANT NULL   \* the null pointer: none of the objects of the module

CONSTANTS WIDTH, MAX_PORT,
          private_nets,          \* a sequence of <<address, bits>>
          DEFAULT_EXIT_POLICY,   \* a sequence of texts
          REJECT_CUTOFF_BITS,    \* the cutoff is 2^this (25 in the code)
          OwnAddress,
          Configs,               \* [opts, exit, private]: the option values, as sequences
                                 \* of texts, and ExitPolicyRejectPrivate
          Relays_, RelayPolicies \* known relays, and the policies they publish

VARIABLE po

Addresses_ == 0..(2^WIDTH - 1)
Ports_ == 1..MAX_PORT

\* A text is [act, addr, mask, lo, hi]: addr is an address or one of the words below,
\* mask and lo may be absent (NULL); hi is NULL for a single port.
ANY == -1
PRIVATE == -2
BROKEN == -3

(***************************************************************************)
(* Addresses and texts.                                                    *)
(***************************************************************************)
tor_addr_compare_masked(a, b, bits) ==
    IF bits = 0 THEN TRUE ELSE a \div 2^(WIDTH - bits) = b \div 2^(WIDTH - bits)

parse_port_range(x) ==
    IF x.lo = NULL THEN <<1, MAX_PORT>>
    ELSE IF x.hi = NULL THEN <<x.lo, x.lo>>
    ELSE IF x.lo > x.hi THEN NULL
    ELSE <<IF x.lo < 1 THEN 1 ELSE x.lo, IF x.hi > MAX_PORT THEN MAX_PORT ELSE x.hi>>

\* <<address, bits, low port, high port>>, or NULL.
tor_addr_parse_mask_ports(x) ==
    LET bits == IF x.mask # NULL THEN x.mask ELSE IF x.addr = ANY THEN 0 ELSE WIDTH
        ports == parse_port_range(x)
    IN  IF x.addr = BROKEN \/ bits \notin 0..WIDTH \/ ports = NULL THEN NULL
        ELSE <<IF x.addr = ANY THEN 0 ELSE x.addr, bits>> \o ports

Item(act, p, private) ==
    [act |-> act, addr |-> p[1], bits |-> p[2], min |-> p[3], max |-> p[4], private |-> private]

router_parse_addr_policy_private(x, act) ==
    LET ports == parse_port_range(x)
    IN  IF ports = NULL THEN NULL ELSE Item(act, <<0, 0>> \o ports, TRUE)

router_parse_addr_policy(x, act) ==
    LET p == tor_addr_parse_mask_ports(x)
    IN  IF x.addr = PRIVATE THEN router_parse_addr_policy_private(x, act)
        ELSE IF p = NULL THEN NULL ELSE Item(act, p, FALSE)

router_parse_addr_policy_item_from_string(x, assume) ==
    LET act == IF x.act # NULL THEN x.act ELSE IF x.addr = PRIVATE THEN NULL ELSE assume
    IN  IF act = NULL THEN NULL ELSE router_parse_addr_policy(x, act)

policy_write_item(p) ==
    [act |-> p.act,
     addr |-> IF p.private THEN PRIVATE ELSE IF p.bits = 0 THEN ANY ELSE p.addr,
     mask |-> IF p.bits < WIDTH /\ p.bits > 0 THEN p.bits ELSE NULL,
     lo |-> IF p.min <= 1 /\ p.max = MAX_PORT THEN NULL ELSE p.min,
     hi |-> IF p.min = p.max \/ (p.min <= 1 /\ p.max = MAX_PORT) THEN NULL ELSE p.max]

(***************************************************************************)
(* The shared items: root gives the reference count of each.  An operation *)
(* reports the items it takes (got) and lets go (freed), in sequences;     *)
(* the step it belongs to settles them.                                    *)
(***************************************************************************)
cmp_single_addr_policy(a, b) == a = b
Times(l, p) == Cardinality({i \in DOMAIN l : cmp_single_addr_policy(l[i], p)})

addr_policy_get_canonical_entry(root, got) ==
    [p \in DOMAIN root \cup ToSet(got) |->
        (IF p \in DOMAIN root THEN root[p] ELSE 0) + Times(got, p)]
addr_policy_free(root, freed) ==
    LET left == [p \in DOMAIN root |-> root[p] - Times(freed, p)]
    IN  [p \in {q \in DOMAIN root : left[q] > 0} |-> left[p]]
Settle(root, got, freed) == addr_policy_free(addr_policy_get_canonical_entry(root, got), freed)

addr_policy_list_free(l) == IF l = NULL THEN <<>> ELSE l
Join(l, m) == IF l = NULL THEN m ELSE l \o m
Nothing_(l) == [l |-> l, ok |-> TRUE, got |-> <<>>, freed |-> <<>>]
Then(a, b) == [b EXCEPT !.got = a.got \o @, !.freed = a.freed \o @]
AndThen(a, F(_)) == IF a.ok THEN Then(a, F(a.l)) ELSE a

policy_expand_private(l) ==
    LET Nets(p) == [i \in DOMAIN private_nets |->
                       Item(p.act, private_nets[i] \o <<p.min, p.max>>, FALSE)]
        private == SelectSeq(l, LAMBDA p : p.private)
    IN  [l |-> FlattenSeq([i \in DOMAIN l |-> IF l[i].private THEN Nets(l[i]) ELSE <<l[i]>>]),
         got |-> FlattenSeq([i \in DOMAIN private |-> Nets(private[i])]), freed |-> private]

\* dest is a list or NULL; the result is appended to it, or nothing is.
parse_addr_policy(cfg, dest, assume) ==
    LET Joined(good, full) ==
          [l |-> Join(dest, full.l), ok |-> TRUE, got |-> good \o full.got, freed |-> full.freed]
        Checked(good) ==
          IF Len(good) < Len(cfg)
          THEN [l |-> dest, ok |-> FALSE, got |-> good, freed |-> addr_policy_list_free(good)]
          ELSE Joined(good, policy_expand_private(good))
    IN  IF cfg = <<>> THEN Nothing_(dest)
        ELSE Checked(SelectSeq([i \in DOMAIN cfg |->
                                   router_parse_addr_policy_item_from_string(cfg[i], assume)],
                               LAMBDA p : p # NULL))

(***************************************************************************)
(* What a policy says.                                                     *)
(***************************************************************************)
Verdict_(act, maybe) ==
    IF act = "accept" THEN (IF maybe THEN "probably accepted" ELSE "accepted")
    ELSE IF maybe THEN "probably rejected" ELSE "rejected"
Against(act) == IF act = "accept" THEN "reject" ELSE "accept"

\* The first item of l that matches for sure decides, softened when an item that
\* matches perhaps and says the opposite comes before it.
Decide(l, Perhaps(_), Surely(_)) ==
    LET sure == {i \in DOMAIN l : Perhaps(l[i]) /\ Surely(l[i])}
        n == IF sure = {} THEN Len(l) + 1 ELSE CHOOSE i \in sure : \A j \in sure : i <= j
        act == IF sure = {} THEN "accept" ELSE l[n].act
    IN  Verdict_(act, \E i \in 1..(n - 1) : Perhaps(l[i]) /\ l[i].act = Against(act))

compare_known_tor_addr_to_addr_policy(a, port, l) ==
    LET match == {i \in DOMAIN l : /\ tor_addr_compare_masked(a, l[i].addr, l[i].bits)
                                   /\ port >= l[i].min /\ port <= l[i].max}
    IN  IF match = {} THEN "accepted"
        ELSE Verdict_(l[CHOOSE i \in match : \A j \in match : i <= j].act, FALSE)

compare_known_tor_addr_to_addr_policy_noport(a, l) ==
    Decide(l, LAMBDA p : tor_addr_compare_masked(a, p.addr, p.bits),
              LAMBDA p : p.min <= 1 /\ p.max >= MAX_PORT)

compare_unknown_tor_addr_to_addr_policy(port, l) ==
    Decide(l, LAMBDA p : p.min <= port /\ port <= p.max, LAMBDA p : p.bits = 0)

compare_tor_addr_to_addr_policy(a, port, l) ==
    IF l = NULL THEN "accepted"
    ELSE IF a = 0 THEN compare_unknown_tor_addr_to_addr_policy(port, l)
    ELSE IF port = 0 THEN compare_known_tor_addr_to_addr_policy_noport(a, l)
    ELSE compare_known_tor_addr_to_addr_policy(a, port, l)

addr_policy_permits_tor_addr(a, port, l) ==
    compare_tor_addr_to_addr_policy(a, port, l) \in {"accepted", "probably accepted"}

policy_is_reject_star(l) ==
    LET stop == {i \in DOMAIN l : \/ l[i].act = "accept"
                                  \/ l[i].min <= 1 /\ l[i].max = MAX_PORT /\ l[i].bits = 0}
    IN  l = NULL \/ stop = {} \/ l[CHOOSE i \in stop : \A j \in stop : i <= j].act = "reject"

(***************************************************************************)
(* Simplifying an exit policy.                                             *)
(***************************************************************************)
addr_policy_covers(a, b) ==
    /\ a.bits <= b.bits /\ tor_addr_compare_masked(a.addr, b.addr, a.bits)
    /\ a.min <= b.min /\ a.max >= b.max

addr_policy_intersects(a, b) ==
    /\ tor_addr_compare_masked(a.addr, b.addr, IF a.bits < b.bits THEN a.bits ELSE b.bits)
    /\ ~(a.max < b.min \/ b.max < a.min)

Kept(l, keep) == [n \in 1..Cardinality(keep) |->
                     l[CHOOSE i \in keep : Cardinality({j \in keep : j <= i}) = n]]

\* The places of l that stay: those up to a catch-all, then those that no earlier
\* item covers (covering is transitive, so one that has itself gone may count), then those that no later item of the same kind covers before one of
\* the other kind meets them.
UntilCatchAll(l) ==
    LET all == {i \in DOMAIN l : l[i].bits = 0 /\ l[i].min <= 1 /\ l[i].max >= MAX_PORT}
    IN  {i \in DOMAIN l : \A j \in all : i <= j}
Uncovered(l, keep) ==
    {j \in keep : ~\E i \in keep : i < j /\ addr_policy_covers(l[i], l[j])}
\* Variant: an entry is dropped when a later one covers it, whatever lies between.
RepeatedAnywhere(l, keep) ==
    {i \in keep : ~\E j \in keep : j > i /\ l[j].act = l[i].act /\ addr_policy_covers(l[j], l[i])}

NotRepeated(l, keep) ==
    LET Ends(i, j) == IF l[i].act # l[j].act THEN addr_policy_intersects(l[i], l[j])
                      ELSE addr_policy_covers(l[j], l[i])
        After(i) == {j \in keep : j > i /\ Ends(i, j)}
    IN  {i \in keep : After(i) = {} \/ l[CHOOSE j \in After(i) : \A k \in After(i) : j <= k].act # l[i].act}

exit_policy_remove_redundancies(l) ==
    LET keep == NotRepeated(l, Uncovered(l, UntilCatchAll(l)))
    IN  [l |-> Kept(l, keep), ok |-> TRUE, got |-> <<>>, freed |-> Kept(l, DOMAIN l \ keep)]

append_exit_policy_string(l, texts) == parse_addr_policy(texts, l, NULL)

RejectAll(addr) == [act |-> "reject", addr |-> addr, mask |-> NULL, lo |-> NULL, hi |-> NULL]

\* The policy before it is simplified; local is our own address, or NULL.
WholePolicy(cfg, rejectprivate, local) ==
    LET ours == IF local = NULL THEN <<RejectAll(PRIVATE)>> ELSE <<RejectAll(PRIVATE), RejectAll(local)>>
        private == IF rejectprivate THEN append_exit_policy_string(NULL, ours) ELSE Nothing_(NULL)
    IN  AndThen(AndThen(private, LAMBDA l : parse_addr_policy(cfg, l, NULL)),
                LAMBDA l : append_exit_policy_string(l, DEFAULT_EXIT_POLICY))
policies_parse_exit_policy(cfg, rejectprivate, local) ==
    AndThen(WholePolicy(cfg, rejectprivate, local), exit_policy_remove_redundancies)

(***************************************************************************)
(* The summary that directory authorities vote about.                      *)
(***************************************************************************)
policy_summary_create == <<[min |-> 1, max |-> MAX_PORT, rejects |-> 0, accepted |-> FALSE]>>

\* Item i is cut in two, the second part starting at port n.
policy_summary_item_split(s, i, n) ==
    SubSeq(s, 1, i - 1) \o <<[s[i] EXCEPT !.max = n - 1], [s[i] EXCEPT !.min = n]>>
    \o SubSeq(s, i + 1, Len(s))
FirstUpTo(s, port) == CHOOSE i \in DOMAIN s : s[i].max >= port /\ (i > 1 => s[i - 1].max < port)
policy_summary_split(s, min, max) ==
    LET i == FirstUpTo(s, min)
        a == IF s[i].min # min THEN policy_summary_item_split(s, i, min) ELSE s
        j == FirstUpTo(a, max)
    IN  IF a[j].max # max THEN policy_summary_item_split(a, j, max + 1) ELSE a

Between(s, min, max) == {i \in DOMAIN s : s[i].min >= min /\ s[i].max <= max}
policy_summary_accept(s, min, max) ==
    LET t == policy_summary_split(s, min, max)
    IN  [i \in DOMAIN t |-> IF i \in Between(t, min, max) /\ t[i].rejects <= 2^REJECT_CUTOFF_BITS
                            THEN [t[i] EXCEPT !.accepted = TRUE] ELSE t[i]]
policy_summary_reject(s, bits, min, max) ==
    LET t == policy_summary_split(s, min, max)
    IN  [i \in DOMAIN t |-> IF i \in Between(t, min, max)
                            THEN [t[i] EXCEPT !.rejects = @ + 2^(WIDTH - bits)] ELSE t[i]]

policy_summary_add_item(s, p) ==
    IF p.act = "accept" THEN (IF p.bits = 0 THEN policy_summary_accept(s, p.min, p.max) ELSE s)
    ELSE IF <<p.addr, p.bits>> \in ToSet(private_nets) THEN s
    ELSE policy_summary_reject(s, p.bits, p.min, p.max)

Digits(n) == IF n < 10 THEN 1 ELSE IF n < 100 THEN 2 ELSE 5
TextLen(ranges) ==
    FoldLeft(LAMBDA n, r : n + Digits(r[1]) + (IF r[1] = r[2] THEN 1 ELSE 2 + Digits(r[2])), 0, ranges)

Ranges(s, yes) ==
    LET Ends(e) == [k \in 1..Len(e) |->
                       <<IF k = 1 THEN 1 ELSE s[e[k - 1]].max + 1, s[e[k]].max, s[e[k]].accepted>>]
        RunEnds(i) == i = Len(s) \/ s[i].accepted # s[i + 1].accepted
        runs == Ends(SelectSeq([i \in DOMAIN s |-> i], RunEnds))
    IN  SelectSeq(runs, LAMBDA r : r[3] = yes)

policy_summarize(l) ==
    LET Shorter(yes, no) ==
          IF yes = <<>> THEN [act |-> "reject", ports |-> <<<<1, MAX_PORT>>>>]
          ELSE IF no = <<>> THEN [act |-> "accept", ports |-> <<<<1, MAX_PORT>>>>]
          ELSE IF TextLen(no) < TextLen(yes) THEN [act |-> "reject", ports |-> no]
          ELSE [act |-> "accept", ports |-> yes]
        Of(s) == Shorter(Ranges(s, TRUE), Ranges(s, FALSE))
    IN  Of(FoldLeft(policy_summary_add_item, policy_summary_create, l))

(***************************************************************************)
(* Options, our own exit policy, and the policies of known relays.         *)
(***************************************************************************)
OptionNames == {"SocksPolicy", "DirPolicy", "AuthDirReject", "AuthDirInvalid", "AuthDirBadDir",
                "AuthDirBadExit", "ReachableORAddresses", "ReachableDirAddresses"}
Assumed(o) == CASE o \in {"SocksPolicy", "DirPolicy"} -> NULL
                [] o \in {"ReachableORAddresses", "ReachableDirAddresses"} -> "accept"
                [] OTHER -> "reject"
Loaded == <<"SocksPolicy", "DirPolicy", "AuthDirReject", "AuthDirInvalid", "AuthDirBadDir",
            "AuthDirBadExit">>
OptionSeq == Loaded \o <<"ReachableORAddresses", "ReachableDirAddresses">>

PoInit == po = [root |-> <<>>, opts |-> [o \in OptionNames |-> NULL], exit |-> NULL,
                whole |-> NULL, relay |-> [r \in Relays_ |-> NULL], done |-> FALSE]

\* Options whose policies apply to addresses alone are widened to every port.
load_policy_from_option(old, cfg, o) ==
    LET Wide(p) == [p EXCEPT !.min = 1, !.max = MAX_PORT]
        Narrow(l) == SelectSeq(addr_policy_list_free(l), LAMBDA p : p.min > 1 \/ p.max # MAX_PORT)
        Widened(r, narrow) ==
          [l |-> IF r.l = NULL THEN NULL ELSE [i \in DOMAIN r.l |-> Wide(r.l[i])],
           got |-> r.got \o [i \in DOMAIN narrow |-> Wide(narrow[i])],
           freed |-> addr_policy_list_free(old) \o r.freed \o narrow]
        Loading(r) == Widened(r, Narrow(r.l))
    IN  Loading(parse_addr_policy(cfg, NULL, Assumed(o)))

parse_reachable_addresses(old, cfg, o) ==
    LET Replacing(r) == [l |-> r.l, got |-> r.got, freed |-> addr_policy_list_free(old) \o r.freed]
    IN  Replacing(parse_addr_policy(cfg, NULL, Assumed(o)))

policies_parse_from_options(opts, cfg) ==
    [o \in OptionNames |-> IF o \in ToSet(Loaded) THEN load_policy_from_option(opts[o], cfg[o], o)
                           ELSE parse_reachable_addresses(opts[o], cfg[o], o)]

\* Everything is parsed into one list, which is dropped.
validate_addr_policies(cfg) ==
    LET order == Loaded \o <<"ReachableORAddresses", "ReachableDirAddresses",
                             "AuthDirReject", "AuthDirInvalid">>
        Parse(a, o) == AndThen(a, LAMBDA l : parse_addr_policy(cfg.opts[o], l, Assumed(o)))
        Freed(all) == [all EXCEPT !.freed = @ \o addr_policy_list_free(all.l)]
    IN  Freed(FoldLeft(Parse, policies_parse_exit_policy(cfg.exit, cfg.private, NULL), order))

\* A new configuration that passes validation is loaded; the descriptor is rebuilt.
SetOptions(cfg) ==
    LET All(n, F(_)) == FlattenSeq([i \in DOMAIN OptionSeq |-> F(n[OptionSeq[i]])])
        InForce(v, n, e) ==
          [po EXCEPT !.root = Settle(@, v.got \o All(n, LAMBDA x : x.got) \o e.got,
                                     v.freed \o All(n, LAMBDA x : x.freed) \o e.freed
                                     \o addr_policy_list_free(po.exit)),
                     !.opts = [o \in OptionNames |-> n[o].l],
                     !.exit = e.l, !.whole = WholePolicy(cfg.exit, cfg.private, OwnAddress).l]
        After(v) == IF ~v.ok THEN [po EXCEPT !.root = Settle(@, v.got, v.freed)]
                    ELSE InForce(v, policies_parse_from_options(po.opts, cfg.opts),
                                 policies_parse_exit_policy(cfg.exit, cfg.private, OwnAddress))
    IN  ~po.done /\ po' = After(validate_addr_policies(cfg))

\* A relay's descriptor arrives (replacing an older one), its exit refuses us, it goes.
router_add_exit_policy(x) == router_parse_addr_policy(x, x.act)
Replaced(r, l) ==
    po' = [po EXCEPT !.root = Settle(@, addr_policy_list_free(l), addr_policy_list_free(po.relay[r])),
                     !.relay[r] = l]
NewDescriptor(r, texts) ==
    ~po.done /\ Replaced(r, [i \in DOMAIN texts |-> router_add_exit_policy(texts[i])])
policies_set_router_exitpolicy_to_reject_all(r) ==
    /\ ~po.done /\ po.relay[r] # NULL
    /\ Replaced(r, <<router_parse_addr_policy_item_from_string(RejectAll(ANY), NULL)>>)
RouterFreed(r) == po.relay[r] # NULL /\ Replaced(r, NULL)
\* tor_free_all frees the router list and our descriptor before the policies.
DescriptorFreed ==
    /\ po.exit # NULL
    /\ po' = [po EXCEPT !.root = Settle(@, <<>>, po.exit), !.exit = NULL, !.whole = NULL]
policies_free_all ==
    /\ ~po.done /\ po.exit = NULL /\ \A r \in Relays_ : po.relay[r] = NULL
    /\ po' = [po EXCEPT !.root = Settle(@, <<>>, FlattenSeq([i \in DOMAIN OptionSeq |->
                                                     addr_policy_list_free(po.opts[OptionSeq[i]])])),
                        !.opts = [o \in OptionNames |-> NULL], !.done = TRUE]

PoNext ==
    \/ \E cfg \in Configs : SetOptions(cfg)
    \/ \E r \in Relays_ : \/ \E texts \in RelayPolicies : NewDescriptor(r, texts)
                          \/ policies_set_router_exitpolicy_to_reject_all(r)
                          \/ RouterFreed(r)
    \/ DescriptorFreed \/ policies_free_all
PoSpec == PoInit /\ [][PoNext]_po

(***************************************************************************)
(* Properties.                                                             *)
(***************************************************************************)
Permits(l, a, port) == compare_known_tor_addr_to_addr_policy(a, port, l) = "accepted"

\* The simplified exit policy a relay publishes and obeys decides every address and
\* port as the configured one does (exit_policy_remove_redundancies), and so does the
\* policy read back from its published text (policy_write_item).
SimplifiedSame ==
    po.exit # NULL =>
        /\ \A a \in Addresses_, n \in Ports_ : Permits(po.exit, a, n) = Permits(po.whole, a, n)
        /\ \A i \in DOMAIN po.exit :
              router_parse_addr_policy_item_from_string(policy_write_item(po.exit[i]), NULL) = po.exit[i]

\* What is concluded about a policy without knowing the address or the port is true
\* of all of them: the definite answers of compare_tor_addr_to_addr_policy, reject_star,
\* and a summary's "accept" up to the cutoff of rejected public addresses.
AnswersSound ==
    \A l \in {po.exit} \cup {po.relay[r] : r \in Relays_} : l # NULL =>
        /\ \A n \in Ports_ : LET c == compare_unknown_tor_addr_to_addr_policy(n, l) IN
              /\ c = "accepted" => \A a \in Addresses_ : Permits(l, a, n)
              /\ c = "rejected" => \A a \in Addresses_ : ~Permits(l, a, n)
        /\ \A a \in Addresses_ : LET c == compare_known_tor_addr_to_addr_policy_noport(a, l) IN
              /\ c = "accepted" => \A n \in Ports_ : Permits(l, a, n)
              /\ c = "rejected" => \A n \in Ports_ : ~Permits(l, a, n)
        /\ l = po.exit /\ policy_is_reject_star(l) =>
              \A a \in Addresses_, n \in Ports_ : ~Permits(l, a, n)
        /\ LET says(s, n) == (s.act = "accept") = (\E k \in DOMAIN s.ports : n \in s.ports[k][1]..s.ports[k][2])
               public == {a \in Addresses_ : \A k \in DOMAIN private_nets :
                            ~tor_addr_compare_masked(a, private_nets[k][1], private_nets[k][2])}
           IN  \A s \in {policy_summarize(l)}, n \in Ports_ : says(s, n) =>
                 Cardinality({a \in public : ~Permits(l, a, n)}) <= 2^REJECT_CUTOFF_BITS

\* An item's count is the number of places that hold it, so none is freed while a
\* policy still points at it and none is kept for ever (addr_policy_free).
CountsBalance ==
    LET lists == {<<"opt", o>> : o \in OptionNames} \cup {<<"relay", r>> : r \in Relays_} \cup {<<"exit">>}
        Of(k) == LET l == IF k[1] = "opt" THEN po.opts[k[2]] ELSE IF k[1] = "exit" THEN po.exit
                          ELSE po.relay[k[2]]
                 IN  IF l = NULL THEN <<>> ELSE l
    IN  /\ \A k \in lists : ToSet(Of(k)) \subseteq DOMAIN po.root
        /\ \A p \in DOMAIN po.root :
              po.root[p] = FoldSet(LAMBDA k, n : n + Cardinality({i \in DOMAIN Of(k) : Of(k)[i] = p}),
                                   0, lists)
=============================================================================

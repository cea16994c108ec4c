------------------------------ MODULE Documents -----------------------------
(***************************************************************************)
(* The documents the nodes write for each other and for their own disk,    *)
(* and the parsers that read them: server and extra-info descriptors, key  *)
(* certificates, votes, consensuses and their detached signatures, v1 and  *)
(* v2 directories, hidden service descriptors, client keys. A document is  *)
(* written, may lose lines on its way (a connection or a write that ends   *)
(* early, a file that was edited), and is read. Digests are the hashed     *)
(* lines themselves. Keys are numbers; the digest of a key is the key.     *)
(*                                                                         *)
(* The line syntax of the directory documents (routerparse.c). A document  *)
(* is a sequence of lines. A line is a keyword, its arguments and perhaps  *)
(* an object (a key, a signature, a message). Arguments are numbers that   *)
(* stand for the decoded values: nicknames, digests, times, ports. The     *)
(* optional "opt" in front of a keyword, which get_next_token skips, is    *)
(* left out. A keyword that starts with @ is an annotation.                *)
(***************************************************************************)
EXTENDS Integers, SequencesExt

NoObj == [t |-> "", v |-> 0, d |-> <<>>]
Line(k, a) == [k |-> k, a |-> a, o |-> NoObj]
WithKey(k, key) == [k |-> k, a |-> <<>>, o |-> [t |-> "RSA PUBLIC KEY", v |-> key, d |-> <<>>]]

(* How many arguments a keyword takes, what object, and how often it comes. *)
INT_MAX == 1000
MAX_ARGS == 512
ARGS == <<0, INT_MAX>>
NO_ARGS == <<0, 0>>
CONCAT_ARGS == <<>>
GE(n) == <<n, INT_MAX>>
EQ(n) == <<n, n>>
Rule(a, os, lo, hi, pos) == [a |-> a, os |-> os, lo |-> lo, hi |-> hi, pos |-> pos]
T0N(a, os) == Rule(a, os, 0, INT_MAX, "")
T1(a, os) == Rule(a, os, 1, 1, "")
T1_START(a, os) == Rule(a, os, 1, 1, "AT_START")
T1_END(a, os) == Rule(a, os, 1, 1, "AT_END")
T1N(a, os) == Rule(a, os, 1, INT_MAX, "")
T01(a, os) == Rule(a, os, 0, 1, "")
All(ks, r) == [k \in ks |-> r]
opt == "opt" :> T0N(CONCAT_ARGS, "OBJ_OK")

routerdesc_token_table ==
  opt @@ All({"reject", "accept", "reject6", "accept6"}, T0N(ARGS, "NO_OBJ"))
      @@ "router" :> T1_START(GE(5), "NO_OBJ")
      @@ All({"signing-key", "onion-key"}, T1(NO_ARGS, "NEED_KEY_1024"))
      @@ "router-signature" :> T1_END(NO_ARGS, "NEED_OBJ")
      @@ "published" :> T1(CONCAT_ARGS, "NO_OBJ")
      @@ All({"uptime", "hibernating", "extra-info-digest", "@purpose"}, T01(GE(1), "NO_OBJ"))
      @@ All({"fingerprint", "platform", "contact"}, T01(CONCAT_ARGS, "NO_OBJ"))
      @@ All({"read-history", "write-history", "family", "eventdns"}, T01(ARGS, "NO_OBJ"))
      @@ All({"hidden-service-dir", "allow-single-hop-exits", "allow-dht-exits",
              "caches-extra-info"}, T01(NO_ARGS, "NO_OBJ"))
      @@ "bandwidth" :> T1(GE(3), "NO_OBJ")
extrainfo_token_table ==
  opt @@ "extra-info" :> T1_START(GE(2), "NO_OBJ")
      @@ "published" :> T1(CONCAT_ARGS, "NO_OBJ")
      @@ All({"read-history", "write-history"}, T01(ARGS, "NO_OBJ"))
      @@ "router-signature" :> T1_END(NO_ARGS, "NEED_OBJ")
rtrstatus_token_table ==
  opt @@ "r" :> T1(GE(8), "NO_OBJ") @@ "s" :> T1(ARGS, "NO_OBJ")
      @@ All({"p", "v"}, T01(CONCAT_ARGS, "NO_OBJ")) @@ "w" :> T01(ARGS, "NO_OBJ")
netstatus_token_table ==
  opt @@ "network-status-version" :> T1_START(GE(1), "NO_OBJ")
      @@ All({"published", "contact", "fingerprint"}, T1(CONCAT_ARGS, "NO_OBJ"))
      @@ "dir-signing-key" :> T1(NO_ARGS, "NEED_KEY_1024")
      @@ "dir-source" :> T1(GE(3), "NO_OBJ") @@ "dir-options" :> T01(ARGS, "NO_OBJ")
      @@ All({"client-versions", "server-versions"}, T01(CONCAT_ARGS, "NO_OBJ"))
dir_footer_token_table == "directory-signature" :> T1(EQ(1), "NEED_OBJ")
dir_token_table ==
  opt @@ All({"network-status", "signed-directory"}, T0N(NO_ARGS, "NO_OBJ"))
      @@ "directory-signature" :> T0N(ARGS, "NEED_OBJ")
      @@ All({"recommended-software", "published", "contact", "fingerprint"},
             T0N(CONCAT_ARGS, "NO_OBJ"))
      @@ All({"running-routers", "router-status"}, T0N(ARGS, "NO_OBJ"))
      @@ "dir-signing-key" :> T0N(ARGS, "OBJ_OK")
CERTIFICATE_MEMBERS ==
  "dir-key-certificate-version" :> T1(GE(1), "NO_OBJ")
      @@ All({"dir-identity-key", "dir-signing-key"}, T1(NO_ARGS, "NEED_KEY"))
      @@ All({"dir-key-published", "dir-key-expires"}, T1(CONCAT_ARGS, "NO_OBJ"))
      @@ "dir-key-crosscert" :> T01(NO_ARGS, "NEED_OBJ")
      @@ "dir-key-certification" :> T1(NO_ARGS, "NEED_OBJ")
      @@ "dir-address" :> T01(GE(1), "NO_OBJ")
dir_key_certificate_table == CERTIFICATE_MEMBERS @@ "fingerprint" :> T1(CONCAT_ARGS, "NO_OBJ")
desc_token_table ==
  "rendezvous-service-descriptor" :> T1_START(EQ(1), "NO_OBJ")
      @@ All({"version", "secret-id-part", "protocol-versions"}, T1(EQ(1), "NO_OBJ"))
      @@ "permanent-key" :> T1(NO_ARGS, "NEED_KEY_1024")
      @@ "publication-time" :> T1(CONCAT_ARGS, "NO_OBJ")
      @@ "introduction-points" :> T01(NO_ARGS, "NEED_OBJ")
      @@ "signature" :> T1_END(NO_ARGS, "NEED_OBJ")
ipo_token_table ==
  "introduction-point" :> T1_START(EQ(1), "NO_OBJ")
      @@ All({"ip-address", "onion-port"}, T1(EQ(1), "NO_OBJ"))
      @@ All({"onion-key", "service-key"}, T1(NO_ARGS, "NEED_KEY_1024"))
client_keys_token_table ==
  "client-name" :> T1_START(CONCAT_ARGS, "NO_OBJ")
      @@ "descriptor-cookie" :> T1(EQ(1), "NO_OBJ")
      @@ "client-key" :> T01(NO_ARGS, "NEED_SKEY_1024")
networkstatus_token_table ==
  opt @@ CERTIFICATE_MEMBERS
      @@ All({"network-status-version", "vote-status", "consensus-methods"}, T1(GE(1), "NO_OBJ"))
      @@ All({"published", "valid-after", "fresh-until", "valid-until", "contact"},
             T1(CONCAT_ARGS, "NO_OBJ"))
      @@ "voting-delay" :> T1(GE(2), "NO_OBJ") @@ "known-flags" :> T1(ARGS, "NO_OBJ")
      @@ "fingerprint" :> T0N(CONCAT_ARGS, "NO_OBJ")
      @@ "dir-source" :> T1(GE(6), "NO_OBJ") @@ "legacy-dir-key" :> T01(GE(1), "NO_OBJ")
      @@ All({"client-versions", "server-versions"}, T01(CONCAT_ARGS, "NO_OBJ"))
networkstatus_consensus_token_table ==
  opt @@ All({"network-status-version", "vote-status"}, T1(GE(1), "NO_OBJ"))
      @@ All({"valid-after", "fresh-until", "valid-until", "known-flags"},
             T1(CONCAT_ARGS, "NO_OBJ"))
      @@ "voting-delay" :> T1(GE(2), "NO_OBJ") @@ "dir-source" :> T1N(GE(6), "NO_OBJ")
      @@ "contact" :> T1N(CONCAT_ARGS, "NO_OBJ") @@ "vote-digest" :> T1N(GE(1), "NO_OBJ")
      @@ All({"client-versions", "server-versions"}, T01(CONCAT_ARGS, "NO_OBJ"))
      @@ "consensus-method" :> T01(EQ(1), "NO_OBJ")
networkstatus_vote_footer_token_table == "directory-signature" :> T0N(GE(2), "NEED_OBJ")
networkstatus_detached_signature_token_table ==
  "consensus-digest" :> T1_START(GE(1), "NO_OBJ")
      @@ All({"valid-after", "fresh-until", "valid-until"}, T1(CONCAT_ARGS, "NO_OBJ"))
      @@ "directory-signature" :> T1N(GE(2), "NEED_OBJ")

IsKey(o) == o.t \in {"RSA PUBLIC KEY", "RSA PRIVATE KEY"}
(* Whether the object of a line is one its rule allows. *)
token_check_object(o, os) ==
  CASE os = "NO_OBJ" -> o.t = ""
    [] os = "NEED_OBJ" -> o.t # "" /\ ~IsKey(o)
    [] os \in {"NEED_KEY_1024", "NEED_KEY"} -> o.t = "RSA PUBLIC KEY"
    [] os = "NEED_SKEY_1024" -> o.t = "RSA PRIVATE KEY"
    [] OTHER -> TRUE

Annotations == {"@purpose", "@source"}
(* Whether a keyword's arguments fit: a CONCAT_ARGS keyword takes the rest *)
(* of its line as one argument, whatever that is.                          *)
get_token_arguments(l, r) ==
  \/ r.a = CONCAT_ARGS
  \/ Len(l.a) \in r.a[1]..r.a[2] /\ Len(l.a) <= MAX_ARGS
BadToken(l, table) ==
  /\ l.k \in DOMAIN table
  /\ ~get_token_arguments(l, table[l.k]) \/ ~token_check_object(l.o, table[l.k].os)
(* A keyword the table does not have counts as "opt", or as an annotation  *)
(* that nobody knows.                                                      *)
get_next_token(l, table) ==
  [l EXCEPT !.k = IF l.k \in DOMAIN table THEN l.k
                  ELSE IF l.k \in Annotations THEN "_A_UNKNOWN" ELSE "opt"]

IsAnnotation(tok) == tok.k \in Annotations \cup {"_A_UNKNOWN"}
Count(toks, k) == Len(SelectSeq(toks, LAMBDA t : t.k = k))
NotAnnotated(toks) == SelectInSeq(toks, LAMBDA t : ~IsAnnotation(t))
(* The tokens of the lines, behind the tokens already read; "error" when   *)
(* one is malformed or the counts and places the table asks for are not met. *)
tokenize_string(out, lines, table, flags) ==
  LET toks == out \o [i \in DOMAIN lines |-> get_next_token(lines[i], table)]
      counted == SubSeq(toks, Len(out) + 1, Len(toks))
      first == IF "TS_ANNOTATIONS_OK" \in flags THEN NotAnnotated(toks) ELSE 1
      good ==
        /\ IF "TS_ANNOTATIONS_OK" \in flags
           THEN /\ first > 0
                /\ \A i \in first..Len(toks) : ~IsAnnotation(toks[i])
                /\ "TS_NO_NEW_ANNOTATIONS" \in flags => first = Len(out) + 1
           ELSE \A i \in DOMAIN toks : ~IsAnnotation(toks[i])
        /\ \A k \in DOMAIN table :
             /\ Count(counted, k) \in table[k].lo..table[k].hi
             /\ table[k].pos = "AT_START" => toks # <<>> /\ toks[first].k = k
             /\ table[k].pos = "AT_END" => toks # <<>> /\ Last(toks).k = k
  IN IF \/ \E i \in DOMAIN lines : BadToken(lines[i], table)
        \/ "TS_NOCHECK" \notin flags /\ ~good
     THEN [ok |-> FALSE, t |-> <<>>] ELSE [ok |-> TRUE, t |-> toks]

find_opt_by_keyword(toks, k) == SelectInSeq(toks, LAMBDA t : t.k = k) # 0
find_by_keyword(toks, k) == toks[SelectInSeq(toks, LAMBDA t : t.k = k)]
Arg(toks, k, i) == IF find_opt_by_keyword(toks, k) THEN find_by_keyword(toks, k).a[i] ELSE 0
Key(toks, k) == find_by_keyword(toks, k).o.v
find_all_exitpolicy(toks) ==
  SelectSeq(toks, LAMBDA t : t.k \in {"accept", "accept6", "reject", "reject6"})

(* The part of a document that is hashed: from the line that starts with   *)
(* one keyword to the first line after it that starts with another; of the *)
(* last line the keyword, and its arguments when the hash ends at the end  *)
(* of the line.  No such part is <<>>.                                     *)
FirstFrom(lines, i, k) ==
  LET s == {j \in i..Len(lines) : lines[j].k = k} IN IF s = {} THEN 0 ELSE Min(s)
router_get_hash_impl(lines, start, end, whole) ==
  LET i == FirstFrom(lines, 1, start)
      j == IF i = 0 THEN 0 ELSE FirstFrom(lines, i + 1, end)
  IN IF j = 0 THEN <<>>
     ELSE Append(SubSeq(lines, i, j - 1), Line(end, IF whole THEN lines[j].a ELSE <<>>))
router_append_dirobj_signature(lines, digest, key) ==
  [lines EXCEPT ![Len(lines)].o = [t |-> "SIGNATURE", v |-> key, d |-> digest]]
check_signature_token(digest, tok, key) ==
  tok.o.t = "SIGNATURE" /\ tok.o.v = key /\ tok.o.d = digest

-----------------------------------------------------------------------------
CONSTANTS
  Subjects(_),     (* what may be written, by kind of document              *)
  MIN_VOTE_INTERVAL, MIN_VOTE_SECONDS, MIN_DIST_SECONDS,
  CLIENT_MULTIPLE, (* REND_BASIC_AUTH_CLIENT_MULTIPLE                       *)
  DESC_LEN, DESC_LEN_PER_INTRO,        (* the room for a descriptor         *)
  FIXED_LEN, INTRO_LEN, BLOCK_LEN      (* what its parts take               *)

VARIABLE doc       (* the kind, what was to be said, the lines, the reading *)

Fails == [ok |-> FALSE, v |-> <<>>]
Reads(v) == [ok |-> TRUE, v |-> v]
InOrder(s) ==
  [i \in 1..Cardinality(s) |-> CHOOSE x \in s : Cardinality({y \in s : y < x}) = i - 1]
Opt(b, l) == IF b THEN <<l>> ELSE <<>>
Sign(lines, start, end, whole, key) ==
  router_append_dirobj_signature(lines, router_get_hash_impl(lines, start, end, whole), key)

-----------------------------------------------------------------------------
(* Server descriptors. *)
FamilyOf(o) == InOrder(Range(o.family) \ {o.id})
router_rebuild_descriptor(o) ==
  LET rate == Min({o.rate, o.maxadv} \cup (IF o.relay > 0 THEN {o.relay} ELSE {}))
      burst == Min({o.burst} \cup (IF o.relay > 0 THEN {o.relay} ELSE {}))
  IN [id |-> o.id, nick |-> o.nick, orport |-> o.orport, dirport |-> o.dirport, pub |-> o.now,
      rate |-> rate, burst |-> burst, cap |-> IF o.hib THEN 0 ELSE o.cap,
      policy |-> IF o.nodns \/ o.policy = <<>> THEN <<-1>> ELSE o.policy,
      family |-> FamilyOf(o), eid |-> o.eid, hib |-> o.hib,
      flags |-> o.flags, contact |-> o.contact, purpose |-> 0]
(* An exit policy item is a number: above 0 accepts, below 0 rejects. *)
policy_write_item(p) == Line(IF p > 0 THEN "accept" ELSE "reject", <<IF p > 0 THEN p ELSE -p>>)
RouterFlags == {"hidden-service-dir", "allow-single-hop-exits", "allow-dht-exits", "caches-extra-info"}
router_dump_router_to_string(r) ==
  LET flag(f) == Opt(f \in r.flags, Line(f, <<>>))
      body == <<Line("router", <<r.nick, 1, r.orport, 0, r.dirport>>), Line("platform", <<1>>),
                Line("protocols", <<1, 2>>), Line("published", <<r.pub>>),
                Line("fingerprint", <<r.id>>), Line("uptime", <<1>>),
                Line("bandwidth", <<r.rate, r.burst, r.cap>>),
                Line("extra-info-digest", <<r.eid>>)>> \o flag("caches-extra-info")
              \o <<WithKey("onion-key", r.id), WithKey("signing-key", r.id)>>
              \o Opt(r.family # <<>>, Line("family", r.family))
              \o Opt(r.hib, Line("hibernating", <<1>>)) \o flag("hidden-service-dir")
              \o flag("allow-single-hop-exits") \o flag("allow-dht-exits")
              \o Opt(r.contact # 0, Line("contact", <<r.contact>>))
              \o [i \in DOMAIN r.policy |-> policy_write_item(r.policy[i])]
  IN Sign(Append(body, Line("router-signature", <<>>)), "router", "router-signature", TRUE, r.id)
DescriptorBody(o) == router_dump_router_to_string(router_rebuild_descriptor(o))

router_parse_addr_policy(t) == IF t.k \in {"reject", "reject6"} THEN -t.a[1] ELSE t.a[1]
(* The fields of a descriptor from its tokens. *)
RouterFields(t) ==
  [id |-> Key(t, "signing-key"), nick |-> Arg(t, "router", 1), orport |-> Arg(t, "router", 3),
   dirport |-> Arg(t, "router", 5), pub |-> Arg(t, "published", 1),
   rate |-> Arg(t, "bandwidth", 1), burst |-> Arg(t, "bandwidth", 2), cap |-> Arg(t, "bandwidth", 3),
   policy |-> LET p == find_all_exitpolicy(t) IN [i \in DOMAIN p |-> router_parse_addr_policy(p[i])],
   family |-> IF find_opt_by_keyword(t, "family") THEN find_by_keyword(t, "family").a ELSE <<>>,
   eid |-> Arg(t, "extra-info-digest", 1), hib |-> Arg(t, "hibernating", 1) # 0,
   flags |-> {f \in RouterFlags : find_opt_by_keyword(t, f)}, contact |-> Arg(t, "contact", 1),
   purpose |-> Arg(t, "@purpose", 1)]
RouterOk(t, digest) ==
  /\ Arg(t, "bandwidth", 1) >= 1
  /\ find_opt_by_keyword(t, "fingerprint") => Arg(t, "fingerprint", 1) = Key(t, "signing-key")
  /\ find_all_exitpolicy(t) # <<>>
  /\ \A i \in DOMAIN find_all_exitpolicy(t) : Len(find_all_exitpolicy(t)[i].a) = 1
  /\ check_signature_token(digest, find_by_keyword(t, "router-signature"), Key(t, "signing-key"))
  /\ Arg(t, "router", 3) # 0
router_parse_entry_from_string(text, allow_annotations, prepend) ==
  LET start == FirstFrom(text, 1, "router")
      body == SubSeq(text, start, Len(text))
      digest == router_get_hash_impl(body, "router", "router-signature", TRUE)
      pre == tokenize_string(<<>>, prepend, routerdesc_token_table, {"TS_NOCHECK"})
      ann == IF allow_annotations
             THEN tokenize_string(pre.t, SubSeq(text, 1, start - 1), routerdesc_token_table, {"TS_NOCHECK"})
             ELSE pre
      toks == tokenize_string(ann.t, body, routerdesc_token_table,
                IF allow_annotations THEN {"TS_ANNOTATIONS_OK"}
                ELSE IF prepend # <<>> THEN {"TS_ANNOTATIONS_OK", "TS_NO_NEW_ANNOTATIONS"} ELSE {})
  IN IF start = 0 \/ digest = <<>> THEN Fails
     ELSE IF ~pre.ok \/ ~ann.ok \/ ~toks.ok THEN Fails
     ELSE IF RouterOk(toks.t, digest) THEN Reads(RouterFields(toks.t)) ELSE Fails

(* Extra-info documents; the signature waits when the router is not known. *)
extrainfo_dump_to_string(e) ==
  Sign(<<Line("extra-info", <<e.nick, e.id>>), Line("published", <<e.pub>>),
         Line("write-history", <<1, 2>>), Line("read-history", <<1, 2>>)>>
       \o (IF e.bridge THEN <<Line("geoip-start-time", <<1>>), Line("geoip-client-origins", <<1>>)>>
           ELSE <<>>)
       \o <<Line("router-signature", <<>>)>>, "extra-info", "router-signature", TRUE, e.id)
extrainfo_parse_entry_from_string(text, known) ==
  LET digest == router_get_hash_impl(text, "extra-info", "router-signature", TRUE)
      t == tokenize_string(<<>>, text, extrainfo_token_table, {})
      id == Arg(t.t, "extra-info", 2)
      tok == find_by_keyword(t.t, "router-signature")
  IN IF digest = <<>> \/ ~t.ok THEN Fails
     ELSE IF \/ tok.o.t # "SIGNATURE"
             \/ id \in known /\ ~check_signature_token(digest, tok, id) THEN Fails
     ELSE Reads([nick |-> Arg(t.t, "extra-info", 1), id |-> id, pub |-> Arg(t.t, "published", 1)])

(* Where the next entry of a list starts: at a "router" or "extra-info"    *)
(* line, or at the first annotation skipped on the way there.              *)
find_start_of_next_router_or_extrainfo(text, s) ==
  LET heads == {j \in s..Len(text) : text[j].k \in {"router", "extra-info"}}
      notes == {j \in s..Len(text) : text[j].k \in Annotations}
  IN IF heads = {} THEN 0 ELSE Min({Min(heads)} \cup notes)
EndOfEntry(text, s) ==
  LET sig == FirstFrom(text, s + 1, "router-signature")
      ends == {j \in sig..Len(text) : text[j].o.t = "SIGNATURE"}
  IN IF sig = 0 \/ ends = {} THEN 0 ELSE Min(ends)
(* The entries found from line s on: a line n starts an entry when the     *)
(* reading, which goes from entry to entry, comes to it.                   *)
Entries(text) ==
  LET from[s \in 1..(Len(text) + 1)] ==
        LET a == find_start_of_next_router_or_extrainfo(text, s)
            b == IF a = 0 THEN 0 ELSE EndOfEntry(text, a)
        IN IF b = 0 THEN <<>> ELSE <<SubSeq(text, a, b)>> \o from[b + 1]
  IN from[1]
(* The entries of a list that could be read. *)
Kept(results) ==
  LET good == SelectSeq(results, LAMBDA r : r.ok) IN [i \in DOMAIN good |-> good[i].v]
router_parse_list_from_string(text) ==
  LET es == Entries(text)
  IN Reads(Kept([i \in DOMAIN es |-> router_parse_entry_from_string(es[i], TRUE, <<>>)]))
-----------------------------------------------------------------------------
(* Key certificates of the directory authorities, made by tor-gencert. *)
generate_certificate(c) ==
  Sign(<<Line("dir-key-certificate-version", <<3>>)>>
       \o Opt(c.addr # 0, Line("dir-address", <<c.addr>>))
       \o <<Line("fingerprint", <<c.id>>), Line("dir-key-published", <<c.pub>>),
            Line("dir-key-expires", <<c.exp>>), WithKey("dir-identity-key", c.id),
            WithKey("dir-signing-key", c.sk),
            [Line("dir-key-crosscert", <<>>) EXCEPT !.o =
               [t |-> "ID SIGNATURE", v |-> c.sk, d |-> <<Line("id", <<c.id>>)>>]],
            Line("dir-key-certification", <<>>)>>,
       "dir-key-certificate-version", "dir-key-certification", TRUE, c.id)
CertOk(t, digest) ==
  /\ t[1].k = "dir-key-certificate-version" /\ t[1].a[1] = 3
  /\ Arg(t, "fingerprint", 1) = Key(t, "dir-identity-key")
  /\ Last(t).k = "dir-key-certification"
  /\ check_signature_token(digest, Last(t), Key(t, "dir-identity-key"))
  /\ find_opt_by_keyword(t, "dir-key-crosscert") =>
       LET o == find_by_keyword(t, "dir-key-crosscert").o
       IN o.v = Key(t, "dir-signing-key") /\ o.d = <<Line("id", <<Key(t, "dir-identity-key")>>)>>
authority_cert_parse_from_string(text) ==
  LET end == FirstFrom(text, 2, "dir-key-certification")
      t == tokenize_string(<<>>, SubSeq(text, 1, end), dir_key_certificate_table, {})
      digest == router_get_hash_impl(text, "dir-key-certificate-version", "dir-key-certification", TRUE)
  IN IF end = 0 THEN Fails
     ELSE IF ~t.ok \/ digest = <<>> THEN Fails
     ELSE IF ~CertOk(t.t, digest) THEN Fails
     ELSE Reads([id |-> Key(t.t, "dir-identity-key"), sk |-> Key(t.t, "dir-signing-key"),
                 pub |-> Arg(t.t, "dir-key-published", 1), exp |-> Arg(t.t, "dir-key-expires", 1),
                 addr |-> Arg(t.t, "dir-address", 1)])
-----------------------------------------------------------------------------
(* The router entries of the network statuses.  Flags are numbers in the   *)
(* order of their names: Authority BadDirectory BadExit Exit Fast Guard    *)
(* HSDir Named Running Stable Unnamed V2Dir Valid.                         *)
Flags == 1..13
Unnamed == 11
Named == 8
routerstatus_format_entry(rs, v2_format) ==
  <<Line("r", <<rs.nick, rs.id, rs.desc, 1, 1, 1, rs.orport, rs.dirport>>),
    Line("s", InOrder(rs.flags))>>
  \o Opt(rs.ver # 0, Line("v", <<rs.ver>>))
  \o (IF v2_format THEN <<>> ELSE <<Line("w", <<rs.bw>>), Line("p", <<rs.p>>)>>)
(* An entry of a vote is dropped when it has a flag the vote does not know. *)
routerstatus_parse_entry_from_string(lines, known, method) ==
  LET t == tokenize_string(<<>>, lines, rtrstatus_token_table, {})
      flags == Range(find_by_keyword(t.t, "s").a)
  IN IF ~t.ok THEN Fails
     ELSE IF known # {} /\ ~(flags \subseteq known) THEN Fails
     ELSE Reads([nick |-> Arg(t.t, "r", 1), id |-> Arg(t.t, "r", 2), desc |-> Arg(t.t, "r", 3),
                 orport |-> Arg(t.t, "r", 7), dirport |-> Arg(t.t, "r", 8), ver |-> Arg(t.t, "v", 1),
                 flags |-> IF known = {} /\ method < 2 THEN flags \ {Unnamed} ELSE flags,
                 bw |-> Arg(t.t, "w", 1), p |-> Arg(t.t, "p", 1)])
find_start_of_next_routerstatus(text, i) ==
  Min({j \in (i + 1)..Len(text) : text[j].k \in {"r", "directory-signature"}} \cup {Len(text) + 1})
StatusEntries(text, known, method) ==
  LET h == find_start_of_next_routerstatus(text, 1)
      sig == Min({j \in h..Len(text) : text[j].k = "directory-signature"} \cup {Len(text) + 1})
      at == InOrder({j \in h..(sig - 1) : text[j].k = "r"})
  IN Kept([i \in DOMAIN at |->
             routerstatus_parse_entry_from_string(
               SubSeq(text, at[i], find_start_of_next_routerstatus(text, at[i]) - 1), known, method)])
Footer(text) ==
  LET sigs == {j \in 1..Len(text) : text[j].k = "directory-signature"}
  IN SubSeq(text, IF sigs = {} THEN Len(text) + 1 ELSE Min(sigs), Len(text))
Header(text) == SubSeq(text, 1, find_start_of_next_routerstatus(text, 1) - 1)

(* The v2 status an authority signs, and the reading of one. *)
generate_v2_networkstatus_opinion(n) ==
  Sign(<<Line("network-status-version", <<2>>), Line("dir-source", <<1, 1, n.dirport>>),
         Line("fingerprint", <<n.id>>), Line("contact", <<n.contact>>), Line("published", <<n.pub>>),
         Line("dir-options", InOrder(n.options))>>
       \o (IF 4 \in n.options THEN <<Line("client-versions", <<n.vers>>), Line("server-versions", <<n.vers>>)>>
           ELSE <<>>)
       \o <<WithKey("dir-signing-key", n.id)>>
       \o FlattenSeq([i \in DOMAIN n.rs |-> routerstatus_format_entry(n.rs[i], TRUE)])
       \o <<Line("directory-signature", <<1>>)>>,
       "network-status-version", "directory-signature", TRUE, n.id)
V2Ok(h, f, digest) ==
  /\ Arg(h, "network-status-version", 1) = 2
  /\ Arg(h, "dir-source", 3) # 0
  /\ Arg(h, "fingerprint", 1) = Key(h, "dir-signing-key")
  /\ find_opt_by_keyword(h, "dir-options") /\ 4 \in Range(find_by_keyword(h, "dir-options").a)
       => find_opt_by_keyword(h, "client-versions") /\ find_opt_by_keyword(h, "server-versions")
  /\ f # <<>> /\ Last(f).k = "directory-signature"
  /\ check_signature_token(digest, Last(f), Key(h, "dir-signing-key"))
(* Sorted by identity, the first entry of each. *)
SortedUnique(es) ==
  LET first == {i \in DOMAIN es : \A j \in 1..(i - 1) : es[j].id # es[i].id}
      ids == InOrder({es[i].id : i \in first})
  IN [n \in DOMAIN ids |-> es[CHOOSE i \in first : es[i].id = ids[n]]]
V2Fields(h, rs) ==
  [id |-> Key(h, "dir-signing-key"), dirport |-> Arg(h, "dir-source", 3),
   contact |-> Arg(h, "contact", 1), pub |-> Arg(h, "published", 1),
   options |-> Range(find_by_keyword(h, "dir-options").a), vers |-> Arg(h, "client-versions", 1), rs |-> rs]
V2Reading(text, digest, h, f) ==
  IF digest = <<>> THEN Fails
  ELSE IF ~h.ok \/ ~f.ok THEN Fails
  ELSE IF ~V2Ok(h.t, f.t, digest) THEN Fails
  ELSE Reads(V2Fields(h.t, SortedUnique(StatusEntries(text, {}, 0))))
networkstatus_v2_parse_from_string(text) ==
  V2Reading(text, router_get_hash_impl(text, "network-status-version", "directory-signature", TRUE),
            tokenize_string(<<>>, Header(text), netstatus_token_table, {}),
            tokenize_string(<<>>, Footer(text), dir_footer_token_table, {}))
-----------------------------------------------------------------------------
\* Variant: a naming authority does not list Unnamed among the flags it knows.
KnownWithoutUnnamed(o) ==
  {1, 4, 5, 6, 7, 10, 12, 13} \cup (IF o.reach THEN {9} ELSE {})
  \cup (IF o.baddirs THEN {2} ELSE {}) \cup (IF o.badexits THEN {3} ELSE {})
  \cup (IF o.naming THEN {Named} ELSE {})

(* Votes and consensuses. *)
KnownFlags(o) == {1, 4, 5, 6, 7, 10, 12, 13} \cup (IF o.reach THEN {9} ELSE {})
                 \cup (IF o.baddirs THEN {2} ELSE {}) \cup (IF o.badexits THEN {3} ELSE {})
                 \cup (IF o.naming THEN {Named, Unnamed} ELSE {})
(* The flags an authority gives a router, from what it thinks of it. *)
set_routerstatus_from_routerinfo(o, thinks) ==
  thinks \ ((IF o.naming THEN {} ELSE {Named, Unnamed}) \cup (IF o.baddirs THEN {} ELSE {2})
            \cup (IF o.badexits THEN {} ELSE {3}))
clear_status_flags_on_sybil(flags) == flags \cap {Unnamed}
dirserv_generate_networkstatus_vote_obj(o) ==
  [cert |-> o.cert, va |-> o.va, fu |-> o.va + o.interval, vu |-> o.va + o.nvalid * o.interval,
   vs |-> o.vs, ds |-> o.ds, vers |-> o.vers, known |-> KnownFlags(o), contact |-> o.contact,
   legacy |-> o.legacy,
   rs |-> [i \in DOMAIN o.rs |->
             LET f == set_routerstatus_from_routerinfo(o, o.rs[i].flags)
                 g == IF o.rs[i].id \in o.sybils THEN clear_status_flags_on_sybil(f) ELSE f
             IN [o.rs[i] EXCEPT !.flags = IF o.reach THEN g ELSE g \ {9}]]]
Times(v) == <<Line("valid-after", <<v.va>>), Line("fresh-until", <<v.fu>>), Line("valid-until", <<v.vu>>)>>
Versions(v) ==
  IF v.vers = 0 THEN <<>> ELSE <<Line("client-versions", <<v.vers>>), Line("server-versions", <<v.vers>>)>>
format_networkstatus_vote(v) ==
  Sign(<<Line("network-status-version", <<3>>), Line("vote-status", <<1>>),
         Line("consensus-methods", <<1, 2, 3, 4, 5>>), Line("published", <<1>>)>>
       \o Times(v) \o <<Line("voting-delay", <<v.vs, v.ds>>)>> \o Versions(v)
       \o <<Line("known-flags", InOrder(v.known)), Line("dir-source", <<1, v.cert.id, 1, 1, 1, 1>>),
            Line("contact", <<v.contact>>)>>
       \o Opt(v.legacy # 0, Line("legacy-dir-key", <<v.legacy>>))
       \o generate_certificate(v.cert)
       \o FlattenSeq([i \in DOMAIN v.rs |-> routerstatus_format_entry(v.rs[i], FALSE)])
       \o <<Line("directory-signature", <<v.cert.id, v.cert.sk>>)>>,
       "network-status-version", "directory-signature", FALSE, v.cert.sk)
ConsensusSignatures(signers, digest) ==
  [i \in DOMAIN signers |-> [Line("directory-signature", <<signers[i], signers[i]>>) EXCEPT !.o =
                               [t |-> "SIGNATURE", v |-> signers[i], d |-> digest]]]
(* The consensus an authority computed, with the signatures of those who   *)
(* computed the same one; a legacy identity is a source of its own.        *)
networkstatus_compute_consensus(c) ==
  LET body == <<Line("network-status-version", <<3>>), Line("vote-status", <<2>>)>>
              \o Opt(c.method >= 2, Line("consensus-method", <<c.method>>))
              \o Times(c) \o <<Line("voting-delay", <<c.vs, c.ds>>)>>
              \o <<Line("client-versions", <<c.vers>>), Line("server-versions", <<c.vers>>),
                   Line("known-flags", <<c.known>>)>>
              \o FlattenSeq([i \in DOMAIN c.voters |->
                   <<Line("dir-source", <<1, c.voters[i].id, 1, 1, 1, 1>>)>>
                   \o (IF c.voters[i].legacy THEN <<>>
                       ELSE <<Line("contact", <<1>>), Line("vote-digest", <<c.voters[i].id>>)>>)])
              \o FlattenSeq([i \in DOMAIN c.rs |-> routerstatus_format_entry(c.rs[i], FALSE)])
      digest == Append(body, Line("directory-signature", <<>>))
  IN body \o ConsensusSignatures(InOrder(c.signers), digest)

TypeOf(h) == Arg(h, "vote-status", 1)
TimesOk(h) ==
  LET va == Arg(h, "valid-after", 1) IN
  /\ va + MIN_VOTE_INTERVAL <= Arg(h, "fresh-until", 1)
  /\ va + 2 * MIN_VOTE_INTERVAL <= Arg(h, "valid-until", 1)
  /\ Arg(h, "voting-delay", 1) >= MIN_VOTE_SECONDS /\ Arg(h, "voting-delay", 2) >= MIN_DIST_SECONDS
KnownInOrder(h, vote) == vote => LET a == find_by_keyword(h, "known-flags").a
                                 IN \A i \in 2..Len(a) : a[i - 1] < a[i]
(* Each contact and each vote digest belongs to the source above it. *)
VotersOf(h) ==
  LET at == InOrder({i \in DOMAIN h : h[i].k = "dir-source"})
      upto(n) == IF n = Len(at) THEN Len(h) ELSE at[n + 1] - 1
      has(n, k) == Cardinality({i \in at[n]..upto(n) : h[i].k = k})
  IN [ok |-> /\ at # <<>>
             /\ \A i \in 1..(at[1] - 1) : h[i].k \notin {"contact", "vote-digest"}
             /\ \A n \in DOMAIN at : has(n, "contact") <= 1 /\ has(n, "vote-digest") <= 1,
      ids |-> [n \in DOMAIN at |-> [id |-> h[at[n]].a[2], legacy |-> has(n, "contact") = 0]]]
SignaturesOk(f, vote, ids, digest, cert) ==
  /\ find_opt_by_keyword(f, "directory-signature")
  /\ \A i \in DOMAIN f : f[i].k = "directory-signature" =>
       /\ f[i].o.t = "SIGNATURE"
       /\ \E n \in DOMAIN ids : ids[n].id = f[i].a[1]
       /\ vote => f[i].a[1] = cert.id /\ check_signature_token(digest, f[i], cert.sk)
(* The signatures of a consensus are kept with it, and count once they are *)
(* checked against the certificates (networkstatus_check_voter_signature). *)
Signs(tok, digest) ==
  tok.k = "directory-signature" /\ check_signature_token(digest, tok, tok.a[2])
CertIn(text) ==
  LET c == FirstFrom(text, 2, "dir-key-certificate-version")
  IN IF c = 0 THEN Fails ELSE authority_cert_parse_from_string(SubSeq(text, c, Len(text)))
KnownBy(h, vote) == IF vote THEN Range(find_by_keyword(h, "known-flags").a) ELSE {}
MethodOf(h, vote) == IF vote THEN 0 ELSE IF find_opt_by_keyword(h, "consensus-method")
                                         THEN Arg(h, "consensus-method", 1) ELSE 1
StatusTimes(h) ==
  [va |-> Arg(h, "valid-after", 1), fu |-> Arg(h, "fresh-until", 1), vu |-> Arg(h, "valid-until", 1),
   vs |-> Arg(h, "voting-delay", 1), ds |-> Arg(h, "voting-delay", 2), vers |-> Arg(h, "client-versions", 1)]
VoteFields(h, cert, es) ==
  [cert |-> cert, known |-> KnownBy(h, TRUE), contact |-> Arg(h, "contact", 1),
   legacy |-> Arg(h, "legacy-dir-key", 1), rs |-> es] @@ StatusTimes(h)
ConsensusFields(h, voters, es, f, digest) ==
  [method |-> MethodOf(h, FALSE), known |-> Arg(h, "known-flags", 1), voters |-> voters, rs |-> es,
   signers |-> {f[i].a[1] : i \in {j \in DOMAIN f : Signs(f[j], digest)}}] @@ StatusTimes(h)
StatusChecked(vote, digest, h, cert, voters, es, f) ==
  IF \/ vote /\ ~cert.ok
     \/ TypeOf(h) # (IF vote THEN 1 ELSE 2)
     \/ ~TimesOk(h) \/ ~KnownInOrder(h, vote) \/ ~voters.ok
     \/ vote /\ (Len(voters.ids) # 1 \/ voters.ids[1].id # cert.v.id)
     \/ \E i \in 2..Len(es) : es[i - 1].id >= es[i].id
     \/ ~f.ok THEN Fails
  ELSE IF ~SignaturesOk(f.t, vote, voters.ids, digest, cert.v) THEN Fails
  ELSE Reads(IF vote THEN VoteFields(h, cert.v, es) ELSE ConsensusFields(h, voters.ids, es, f.t, digest))
StatusReading(text, vote, digest, h) ==
  IF digest = <<>> \/ ~h.ok THEN Fails
  ELSE StatusChecked(vote, digest, h.t, CertIn(text), VotersOf(h.t),
                     StatusEntries(text, KnownBy(h.t, vote), MethodOf(h.t, vote)),
                     tokenize_string(<<>>, Footer(text), networkstatus_vote_footer_token_table, {}))
networkstatus_parse_vote_from_string(text, vote) ==
  StatusReading(text, vote,
    router_get_hash_impl(text, "network-status-version", "directory-signature", FALSE),
    tokenize_string(<<>>, Header(text), IF vote THEN networkstatus_token_table
                                        ELSE networkstatus_consensus_token_table, {}))

(* The signatures of a consensus on their own. *)
networkstatus_get_detached_signatures(d) ==
  <<Line("consensus-digest", <<d.digest>>)>> \o Times(d)
  \o [i \in DOMAIN d.signers |->
        [Line("directory-signature", <<d.signers[i], d.signers[i]>>) EXCEPT !.o =
           [t |-> "SIGNATURE", v |-> d.signers[i], d |-> <<Line("digest", <<d.digest>>)>>]]]
networkstatus_parse_detached_signatures(text) ==
  LET t == tokenize_string(<<>>, text, networkstatus_detached_signature_token_table, {})
      sigs == SelectSeq(t.t, LAMBDA x : x.k = "directory-signature")
  IN IF ~t.ok THEN Fails
     ELSE IF \E i \in DOMAIN sigs : sigs[i].o.t # "SIGNATURE" THEN Fails
     ELSE Reads([digest |-> Arg(t.t, "consensus-digest", 1), va |-> Arg(t.t, "valid-after", 1),
                 fu |-> Arg(t.t, "fresh-until", 1), vu |-> Arg(t.t, "valid-until", 1),
                 signers |-> [i \in DOMAIN sigs |-> sigs[i].a[1]]])
-----------------------------------------------------------------------------
(* Hidden service descriptors.  The introduction points are written in the *)
(* clear, or for the clients' cookies.                                     *)
get_secret_id_part_bytes(period, cookie, replica) == 100 * period + 10 * cookie + replica
rend_get_descriptor_id_bytes(key, secret) == 1000 * key + secret
rend_encode_v2_intro_points(intro) ==
  FlattenSeq([i \in DOMAIN intro |->
    <<Line("introduction-point", <<intro[i].id>>), Line("ip-address", <<1>>),
      Line("onion-port", <<intro[i].port>>), WithKey("onion-key", intro[i].id),
      WithKey("service-key", intro[i].key)>>])
(* Every client finds its copy of the session key by its cookie; random    *)
(* entries, 0 here, fill the last block.                                   *)
rend_encrypt_v2_intro_points_basic(ipos, cookies) ==
  LET blocks == 1 + ((Cardinality(cookies) - 1) \div CLIENT_MULTIPLE)
      fill == [i \in 1..(blocks * CLIENT_MULTIPLE - Cardinality(cookies)) |-> 0]
  IN [t |-> "MESSAGE", v |-> 1, d |-> <<Line("", fill \o InOrder(cookies))>> \o ipos]
rend_encrypt_v2_intro_points_stealth(ipos, cookie) ==
  [t |-> "MESSAGE", v |-> 2, d |-> <<Line("", <<cookie>>)>> \o ipos]
rend_decrypt_introduction_points(o, cookie) ==
  IF o.v \in {1, 2} /\ cookie \in Range(o.d[1].a)
  THEN Reads(SubSeq(o.d, 2, Len(o.d))) ELSE Fails
rend_parse_introduction_points(text) ==
  LET at == InOrder({i \in DOMAIN text : text[i].k = "introduction-point"})
      upto(n) == IF n = Len(at) THEN Len(text) ELSE at[n + 1] - 1
      t == [n \in DOMAIN at |-> tokenize_string(<<>>, SubSeq(text, at[n], upto(n)), ipo_token_table, {})]
  IN IF \E n \in DOMAIN at : ~t[n].ok THEN Fails
     ELSE IF \E n \in DOMAIN at : Arg(t[n].t, "onion-port", 1) = 0 THEN Fails
     ELSE Reads([n \in DOMAIN at |-> [id |-> Arg(t[n].t, "introduction-point", 1),
                   port |-> Arg(t[n].t, "onion-port", 1), key |-> Key(t[n].t, "service-key")]])
(* The buffer of a descriptor does not depend on the number of clients. *)
DescFits(d) ==
  FIXED_LEN + Len(d.intro) * INTRO_LEN
    + (IF d.auth = 1 THEN (1 + ((Cardinality(d.cookies) - 1) \div CLIENT_MULTIPLE)) * BLOCK_LEN ELSE 0)
  <= DESC_LEN + Len(d.intro) * DESC_LEN_PER_INTRO
IntroMessage(d) ==
  LET ipos == rend_encode_v2_intro_points(d.intro)
  IN CASE d.auth = 0 -> [t |-> "MESSAGE", v |-> 0, d |-> ipos]
       [] d.auth = 1 -> rend_encrypt_v2_intro_points_basic(ipos, d.cookies)
       [] OTHER -> rend_encrypt_v2_intro_points_stealth(ipos, d.cookie)
rend_encode_v2_descriptors(d) ==
  LET cookie == IF d.auth = 2 THEN d.cookie ELSE 0
      secret == get_secret_id_part_bytes(d.period, cookie, d.replica)
      lines == <<Line("rendezvous-service-descriptor", <<rend_get_descriptor_id_bytes(d.key, secret)>>),
                 Line("version", <<2>>), WithKey("permanent-key", d.key),
                 Line("secret-id-part", <<secret>>), Line("publication-time", <<d.pub>>),
                 Line("protocol-versions", <<d.protos>>)>>
               \o Opt(d.intro # <<>>, [Line("introduction-points", <<>>) EXCEPT !.o = IntroMessage(d)])
               \o <<Line("signature", <<>>)>>
  IN IF DescFits(d)
     THEN Sign(lines, "rendezvous-service-descriptor", "signature", TRUE, d.key) ELSE <<>>
DescOk(t, digest) ==
  /\ Len(t) >= 7
  /\ Arg(t, "version", 1) = 2
  /\ find_opt_by_keyword(t, "introduction-points") =>
       find_by_keyword(t, "introduction-points").o.t = "MESSAGE"
  /\ check_signature_token(digest, find_by_keyword(t, "signature"), Key(t, "permanent-key"))
  /\ Arg(t, "rendezvous-service-descriptor", 1)
       = rend_get_descriptor_id_bytes(Key(t, "permanent-key"), Arg(t, "secret-id-part", 1))
(* The descriptor, with the introduction points a client with this cookie  *)
(* can read: rend_cache_store_v2_desc_as_client decrypts when it has one.  *)
PlainIntro(t, cookie) ==
  LET o == find_by_keyword(t, "introduction-points").o
  IN IF ~find_opt_by_keyword(t, "introduction-points") THEN Reads(<<>>)
     ELSE IF cookie = 0 THEN Reads(o.d) ELSE rend_decrypt_introduction_points(o, cookie)
IntroIn(plain) == IF plain.ok THEN rend_parse_introduction_points(plain.v) ELSE Fails
DescReading(text, digest, t, intro) ==
  IF text = <<>> \/ digest = <<>> \/ ~t.ok THEN Fails
  ELSE IF text[1].k # "rendezvous-service-descriptor" \/ ~DescOk(t.t, digest) \/ ~intro.ok THEN Fails
  ELSE Reads([key |-> Key(t.t, "permanent-key"), pub |-> Arg(t.t, "publication-time", 1),
              protos |-> Arg(t.t, "protocol-versions", 1), intro |-> intro.v])
rend_parse_v2_service_descriptor(text, cookie) ==
  LET t == tokenize_string(<<>>, text, desc_token_table, {})
  IN DescReading(text, router_get_hash_impl(text, "rendezvous-service-descriptor", "signature", TRUE),
                 t, IntroIn(PlainIntro(t.t, cookie)))

(* The client_keys file of a service.  A client that the file names keeps  *)
(* its cookie and its key; for another they are made.                      *)
ClientOf(s, name) ==
  LET old == SelectSeq(s.old, LAMBDA c : c.name = name)
      kept == IF old = <<>> THEN [name |-> name, cookie |-> 50 + name, key |-> 0] ELSE old[1]
  IN IF kept.key = 0 /\ s.stealth THEN [kept EXCEPT !.key = 70 + name] ELSE kept
ClientsOf(s) == [i \in DOMAIN s.names |-> ClientOf(s, s.names[i])]
rend_service_load_keys(s) ==
  LET c == ClientsOf(s) IN
  FlattenSeq([i \in DOMAIN c |->
    <<Line("client-name", <<c[i].name>>), Line("descriptor-cookie", <<c[i].cookie>>)>>
    \o Opt(c[i].key # 0, [Line("client-key", <<>>) EXCEPT !.o =
                            [t |-> "RSA PRIVATE KEY", v |-> c[i].key, d |-> <<>>]])])
rend_parse_client_keys(text) ==
  LET at == InOrder({i \in DOMAIN text : text[i].k = "client-name"})
      upto(n) == IF n = Len(at) THEN Len(text) ELSE at[n + 1] - 1
      t == [n \in DOMAIN at |->
              tokenize_string(<<>>, SubSeq(text, at[n], upto(n)), client_keys_token_table, {})]
  IN IF text = <<>> \/ \E n \in DOMAIN at : ~t[n].ok THEN Fails
     ELSE IF \E n \in DOMAIN at : \E o \in 1..(n - 1) : text[at[n]].a = text[at[o]].a THEN Fails
     ELSE IF text[1].k # "client-name" THEN Reads(<<>>)
     ELSE Reads([n \in DOMAIN at |->
                   [name |-> Arg(t[n].t, "client-name", 1), cookie |-> Arg(t[n].t, "descriptor-cookie", 1),
                    key |-> IF find_opt_by_keyword(t[n].t, "client-key") THEN Key(t[n].t, "client-key") ELSE 0]])

(* The v1 directory, by now an empty frame with a signature. *)
dirserv_dump_directory_to_string(d) ==
  Sign(<<Line("signed-directory", <<>>), Line("published", <<d.pub>>),
         Line("recommended-software", <<1>>), Line("router-status", <<>>),
         WithKey("dir-signing-key", d.id), Line("directory-signature", <<1>>)>>,
       "signed-directory", "directory-signature", TRUE, d.id)
find_dir_signing_key(text) ==
  LET i == FirstFrom(text, 2, "dir-signing-key") IN IF i = 0 THEN 0 ELSE text[i].o.v
dir_signing_key_is_trusted(key, trusted) == key # 0 /\ key \in trusted
router_parse_directory(text, trusted) ==
  LET digest == router_get_hash_impl(text, "signed-directory", "directory-signature", TRUE)
      sigs == {i \in 2..Len(text) : text[i].k = "directory-signature"}
      key == find_dir_signing_key(text)
      last == tokenize_string(<<>>, SubSeq(text, Max(sigs), Len(text)), dir_token_table, {})
      h == tokenize_string(<<>>, SubSeq(text, 1, Min(sigs) - 1), dir_token_table, {})
  IN IF digest = <<>> \/ sigs = {} THEN Fails
     ELSE IF ~last.ok \/ ~h.ok THEN Fails
     ELSE IF \/ Len(last.t) # 1
             \/ ~check_signature_token(digest, last.t[1], key)
             \/ ~dir_signing_key_is_trusted(key, trusted) THEN Fails
     ELSE Reads([id |-> key, pub |-> Arg(h.t, "published", 1)])
-----------------------------------------------------------------------------
Annotated(e) == Opt(e.purpose # 0, Line("@purpose", <<e.purpose>>))
                \o DescriptorBody(e.opts)
(* What is to be said, how it is written, and how it is read. *)
Meaning(kind, s) ==
  CASE kind = "router" -> router_rebuild_descriptor(s)
    [] kind = "extrainfo" -> [nick |-> s.nick, id |-> s.id, pub |-> s.pub]
    [] kind = "vote" -> dirserv_generate_networkstatus_vote_obj(s)
    [] kind = "rend" -> [key |-> s.key, pub |-> s.pub, protos |-> s.protos, intro |-> s.intro]
    [] kind = "list" -> [i \in DOMAIN s |->
                           [router_rebuild_descriptor(s[i].opts) EXCEPT !.purpose = s[i].purpose]]
    [] kind = "clients" -> ClientsOf(s)
    [] OTHER -> s
TextOf(kind, s) ==
  CASE kind = "router" -> DescriptorBody(s)
    [] kind = "extrainfo" -> extrainfo_dump_to_string(s)
    [] kind = "cert" -> generate_certificate(s)
    [] kind = "vote" -> format_networkstatus_vote(dirserv_generate_networkstatus_vote_obj(s))
    [] kind = "consensus" -> networkstatus_compute_consensus(s)
    [] kind = "detached" -> networkstatus_get_detached_signatures(s)
    [] kind = "v2" -> generate_v2_networkstatus_opinion(s)
    [] kind = "v1" -> dirserv_dump_directory_to_string(s)
    [] kind = "rend" -> rend_encode_v2_descriptors(s)
    [] kind = "clients" -> rend_service_load_keys(s)
    [] kind = "list" -> FlattenSeq([i \in DOMAIN s |-> Annotated(s[i])])
Reading(kind, s, text) ==
  CASE kind = "router" -> router_parse_entry_from_string(text, FALSE, <<>>)
    [] kind = "extrainfo" -> extrainfo_parse_entry_from_string(text, {s.id})
    [] kind = "cert" -> authority_cert_parse_from_string(text)
    [] kind = "vote" -> networkstatus_parse_vote_from_string(text, TRUE)
    [] kind = "consensus" -> networkstatus_parse_vote_from_string(text, FALSE)
    [] kind = "detached" -> networkstatus_parse_detached_signatures(text)
    [] kind = "v2" -> networkstatus_v2_parse_from_string(text)
    [] kind = "v1" -> router_parse_directory(text, {s.id})
    [] kind = "rend" -> rend_parse_v2_service_descriptor(text, IF s.auth = 0 THEN 0 ELSE s.cookie)
    [] kind = "clients" -> rend_parse_client_keys(text)
    [] kind = "list" -> router_parse_list_from_string(text)
Kinds == {"router", "extrainfo", "cert", "vote", "consensus", "detached", "v2", "v1", "rend",
          "clients", "list"}

DocInit == doc = [kind |-> "none", s |-> <<>>, text |-> <<>>, lost |-> <<0, 0>>, twice |-> 0,
                  got |-> Fails, read |-> FALSE]
WriteDocument(kind) ==
  /\ doc.kind = "none"
  /\ \E s \in Subjects(kind) : doc' = [doc EXCEPT !.kind = kind, !.s = s, !.text = TextOf(kind, s)]
Whole == doc.kind # "none" /\ ~doc.read /\ doc.lost[1] = 0 /\ doc.twice = 0
(* A run of lines is lost, at the end of the document or inside it. *)
LoseLines ==
  /\ Whole
  /\ \E i \in DOMAIN doc.text : \E j \in i..Len(doc.text) :
       doc' = [doc EXCEPT !.lost = <<i, j>>,
                 !.text = SubSeq(doc.text, 1, i - 1) \o SubSeq(doc.text, j + 1, Len(doc.text))]
DoubleLine ==
  /\ Whole
  /\ \E i \in DOMAIN doc.text :
       doc' = [doc EXCEPT !.twice = i, !.text = SubSeq(doc.text, 1, i) \o SubSeq(doc.text, i, Len(doc.text))]
ReadDocument ==
  /\ doc.kind # "none" /\ ~doc.read
  /\ doc' = [doc EXCEPT !.read = TRUE, !.got = Reading(doc.kind, doc.s, doc.text)]
DocNext == (\E kind \in Kinds : WriteDocument(kind)) \/ LoseLines \/ DoubleLine \/ ReadDocument
DocSpec == DocInit /\ [][DocNext]_doc

Undamaged == doc.lost[1] = 0 /\ doc.twice = 0
(* What a node writes another node reads, every field of it: no document   *)
(* this code generates is refused or loses an entry in this code's parser. *)
ReadBack ==
  doc.read /\ Undamaged /\ doc.text # <<>> => doc.got = Reads(Meaning(doc.kind, doc.s))
(* A signed document that lost lines, or has one twice, is refused, or     *)
(* says what was written; a consensus then has lost its signatures.        *)
DamageSeen ==
  doc.read /\ ~Undamaged /\ doc.got.ok =>
    CASE doc.kind = "consensus" -> \/ doc.got.v.signers = {}
                                   \/ [doc.got.v EXCEPT !.signers = doc.s.signers] = doc.s
      [] doc.kind \in {"detached", "clients", "list"} -> TRUE
      [] OTHER -> doc.got.v = Meaning(doc.kind, doc.s)
(* Damage inside one entry of a file of descriptors costs that entry alone *)
(* when the entry keeps its signature: the reader finds the next one.      *)
LineSpan(n) ==
  LET len(i) == Len(Annotated(doc.s[i]))
      before == FoldFunction(LAMBDA a, b : a + b, 0, [i \in 1..(n - 1) |-> len(i)])
  IN <<before + 1, before + len(n)>>
ListResyncs ==
  doc.read /\ doc.kind = "list" =>
    \A n \in DOMAIN doc.s :
      (doc.lost[1] # 0 => doc.lost[1] >= LineSpan(n)[1] /\ doc.lost[2] < LineSpan(n)[2])
      /\ (doc.twice # 0 => doc.twice \in LineSpan(n)[1]..LineSpan(n)[2])
      => \A m \in DOMAIN doc.s \ {n} : Contains(doc.got.v, Meaning("list", doc.s)[m])
=============================================================================

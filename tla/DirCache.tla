------------------------------ MODULE DirCache ------------------------------
(***************************************************************************)
(* A directory server answering requests (or/directory.c, or/dirserv.c).   *)
(* Network statuses are kept as counted objects that a connection goes on  *)
(* reading after the cache has moved on to a newer one; descriptors are    *)
(* looked up one by one while the answer is written.  The answer is        *)
(* produced piece by piece, whenever the output buffer has run low, so the *)
(* documents may change and the client may hang up in the middle.          *)
(*                                                                         *)
(* A status is a number of pieces <<id, i>>, where id = <<key, published>> *)
(* names the object; key "v3" is the consensus and "v1" the old-style      *)
(* directory.  A descriptor <<router, version>> is one piece.  Fields      *)
(* asked, held and got of a connection are what the client asked for, the  *)
(* descriptors it could have and what it has received.                     *)
(***************************************************************************)
EXTENDS Integers, Sequences, SequencesExt, FiniteSets, FiniteSetsExt

CONSTANT NULL   \* the null pointer: none of the objects of the module

CONSTANTS
  Conns, StatusIds, TrustedIds, MAX_UNTRUSTED_NETWORKSTATUSES,
  Pieces,                \* pieces of a status
  BUFFER_MIN,            \* DIRSERV_BUFFER_MIN, in pieces
  Routers, Bridges,      \* numbers, in the order of their digests
  Asks,                  \* [kind, what (NULL: all), ims, compressed, enc]
  MaxPublished, MaxVersions

VARIABLE dc

StatusKeys == StatusIds \cup {"v3", "v1"}
DirIds == StatusKeys \X (1..MaxPublished)
Descs == Routers \X (1..MaxVersions)

\* ------------------------------------------------------------ counted objects
new_cached_dir(s, id) == [s EXCEPT !.refs[id] = 1, !.now = @ + 1]
cached_dir_decref(s, id) == IF id = NULL THEN s ELSE [s EXCEPT !.refs[id] = @ - 1]

dirserv_set_cached_networkstatus_v3(s) ==
  LET id == <<"v3", s.now>>
  IN [cached_dir_decref(new_cached_dir(s, id), s.dirs["v3"]) EXCEPT !.dirs["v3"] = id]

dirserv_set_cached_directory(s) ==
  LET id == <<"v1", s.now>>
  IN [new_cached_dir(cached_dir_decref(s, s.dirs["v1"]), id) EXCEPT !.dirs["v1"] = id]

\* A new status (add) or none for this authority; the oldest of those nobody
\* vouches for goes if there are too many.
dirserv_set_cached_networkstatus_v2(s, k, add) ==
  LET id == <<k, s.now>>
      t == [cached_dir_decref(IF add THEN new_cached_dir(s, id) ELSE s, s.dirs[k])
              EXCEPT !.dirs[k] = IF add THEN id ELSE NULL]
      kept == {i \in StatusIds : t.dirs[i] # NULL}
      oldest == CHOOSE i \in kept \ TrustedIds :
                  \A j \in kept \ TrustedIds : t.dirs[i][2] <= t.dirs[j][2]
  IN IF Cardinality(kept) > Cardinality(TrustedIds) + MAX_UNTRUSTED_NETWORKSTATUSES
     THEN [cached_dir_decref(t, t.dirs[oldest]) EXCEPT !.dirs[oldest] = NULL] ELSE t

Drop(s, ks) ==
  FoldSet(LAMBDA k, t : [cached_dir_decref(t, t.dirs[k]) EXCEPT !.dirs[k] = NULL], s,
          {k \in ks : s.dirs[k] # NULL})
dirserv_clear_old_networkstatuses(s, cutoff) ==
  Drop(s, {k \in StatusIds : s.dirs[k] # NULL /\ s.dirs[k][2] < cutoff})
dirserv_clear_old_v1_info(s) == Drop(s, {"v1"})

\* -------------------------------------------------------------------- lookups
lookup_cached_dir_by_fp(s, k) == s.dirs[k]

dirserv_get_networkstatus_v2_fingerprints(s, what) ==
  IF what = NULL THEN LET have == {k \in StatusIds : s.dirs[k] # NULL}
                       IN IF have # {} THEN have ELSE TrustedIds
  ELSE what \cap StatusIds

dirserv_remove_old_statuses(s, ks, ims) ==
  {k \in ks : s.dirs[k] # NULL => s.dirs[k][2] > ims}
FoundAny(s, ks) == \E k \in ks : s.dirs[k] # NULL

\* The newest descriptor of a router, unless it is too old
get_signed_descriptor_by_fp(s, r) ==
  LET mine == {d \in s.descs : d[1] = r}
      newest == CHOOSE d \in mine : \A e \in mine : e[2] <= d[2]
  IN IF mine = {} \/ newest \in s.aged THEN NULL ELSE newest
router_get_by_descriptor_digest(s, d) == IF d \in s.descs THEN d ELSE NULL
Lookup(s, fp, by_fp) ==
  IF by_fp THEN get_signed_descriptor_by_fp(s, fp[1]) ELSE router_get_by_descriptor_digest(s, fp)
May(c, d) == c.enc \/ d[1] \notin Bridges

\* Asked for by fingerprint a descriptor is named <<router, 0>>.  On a
\* connection in the clear those that must not be sent there are struck off,
\* going by fingerprint without regard to their age.
dirserv_get_routerdesc_fingerprints(s, c, what, by_fp) ==
  LET all == IF what = NULL THEN {<<d[1], 0>> : d \in s.descs} ELSE what
      held(fp) == IF by_fp THEN \E d \in s.descs : d[1] = fp[1] ELSE fp \in s.descs
  IN {fp \in all : held(fp) => May(c, fp)}

dirserv_have_any_serverdesc(s, fps, by_fp) == \E fp \in fps : Lookup(s, fp, by_fp) # NULL

\* ------------------------------------------------------------------- spooling
\* With zlib compressing, what is written stays inside until the end.
connection_write_to_buf(c, p) ==
  IF c.zlib = "deflate" THEN [c EXCEPT !.inside = Append(@, p)] ELSE [c EXCEPT !.out = Append(@, p)]
ZlibEnd(c) == [c EXCEPT !.out = @ \o c.inside, !.inside = <<>>, !.zlib = NULL]

connection_dirserv_finish_spooling(c) ==
  [IF c.zlib # NULL THEN ZlibEnd(c) ELSE c EXCEPT !.src = NULL]

RECURSIVE connection_dirserv_add_servers_to_outbuf(_, _)
connection_dirserv_add_servers_to_outbuf(s, c) ==
  IF c.stack = <<>> THEN [c EXCEPT !.src = NULL]
  ELSE IF Len(c.out) >= BUFFER_MIN THEN c
  ELSE LET d == Lookup(s, Last(c.stack), c.src = "by fp")
           t == [c EXCEPT !.stack = Front(@)]
           u == connection_write_to_buf(t, d)
       IN connection_dirserv_add_servers_to_outbuf(s,
            IF d = NULL \/ ~ May(c, d) THEN t
            ELSE IF c.zlib # NULL /\ t.stack = <<>> THEN ZlibEnd(u) ELSE u)

\* Variant: every piece is taken from the document that is current now.
BytesOfCurrent(x) ==
  LET now == lookup_cached_dir_by_fp(x.s, x.c.cached[1])
      c == [connection_write_to_buf(x.c, <<IF now = NULL THEN x.c.cached ELSE now,
                                           x.c.offset + 1>>) EXCEPT !.offset = @ + 1]
  IN IF c.offset < Pieces THEN [x EXCEPT !.c = c]
     ELSE [s |-> cached_dir_decref(x.s, c.cached),
           c |-> [connection_dirserv_finish_spooling(c) EXCEPT !.cached = NULL]]

\* The rest takes and returns x = [s, c]: the server and the connection.
connection_dirserv_add_dir_bytes_to_outbuf(x) ==
  LET c == [connection_write_to_buf(x.c, <<x.c.cached, x.c.offset + 1>>) EXCEPT !.offset = @ + 1]
  IN IF c.offset < Pieces THEN [x EXCEPT !.c = c]
     ELSE [s |-> cached_dir_decref(x.s, c.cached),
           c |-> [connection_dirserv_finish_spooling(c) EXCEPT !.cached = NULL]]

RECURSIVE connection_dirserv_add_networkstatus_bytes_to_outbuf(_)
connection_dirserv_add_networkstatus_bytes_to_outbuf(x) ==
  LET y == connection_dirserv_add_dir_bytes_to_outbuf(x)
      again == x.c.zlib # NULL /\ y.c.zlib = NULL /\ x.c.stack # <<>>
      d == lookup_cached_dir_by_fp(x.s, Last(x.c.stack))
      popped == [x EXCEPT !.c.stack = Front(@)]
  IN IF Len(x.c.out) >= BUFFER_MIN THEN x
     ELSE IF x.c.cached # NULL
     THEN connection_dirserv_add_networkstatus_bytes_to_outbuf(
            [y EXCEPT !.c.src = "status", !.c.zlib = IF again THEN "inflate" ELSE @])
     ELSE IF x.c.stack # <<>>
     THEN connection_dirserv_add_networkstatus_bytes_to_outbuf(
            IF d = NULL THEN popped
            ELSE [popped EXCEPT !.s.refs[d] = @ + 1, !.c.cached = d, !.c.offset = 0])
     ELSE [x EXCEPT !.c = connection_dirserv_finish_spooling(x.c)]

connection_dirserv_flushed_some(x) ==
  IF Len(x.c.out) >= BUFFER_MIN THEN x
  ELSE CASE x.c.src \in {"by fp", "by digest"} ->
              [x EXCEPT !.c = connection_dirserv_add_servers_to_outbuf(x.s, x.c)]
         [] x.c.src = "dir" -> connection_dirserv_add_dir_bytes_to_outbuf(x)
         [] x.c.src = "status" -> connection_dirserv_add_networkstatus_bytes_to_outbuf(x)
         [] OTHER -> x

\* ------------------------------------------------------------------- requests
write_http_status_line(x, code) == [x EXCEPT !.c.code = code]
write_http_response_header(x) == [x EXCEPT !.c.code = 200]

GetDirectory(x, a, busy) ==
  LET d == x.s.dirs["v1"]
  IN IF d = NULL \/ (busy /\ d[2] >= a.ims) THEN write_http_status_line(x, 503)
     ELSE IF d[2] < a.ims THEN write_http_status_line(x, 304)
     ELSE connection_dirserv_flushed_some(write_http_response_header(
            [s |-> [x.s EXCEPT !.refs[d] = @ + 1],
             c |-> [x.c EXCEPT !.cached = d, !.offset = 0, !.src = "dir",
                               !.zlib = IF a.compressed THEN NULL ELSE "inflate"]]))

GetStatus(x, a, busy) ==
  LET ks == IF a.kind = "consensus" THEN {"v3"}
            ELSE dirserv_get_networkstatus_v2_fingerprints(x.s, a.what)
      new == dirserv_remove_old_statuses(x.s, ks, a.ims)
  IN CASE ks = {} -> write_http_status_line(x, 503)
       [] ks # {} /\ ~ FoundAny(x.s, ks) -> write_http_status_line(x, 404)
       [] FoundAny(x.s, ks) /\ new = {} -> write_http_status_line(x, 304)
       [] new # {} /\ FoundAny(x.s, ks) /\ busy -> write_http_status_line(x, 503)
       [] OTHER -> connection_dirserv_flushed_some(write_http_response_header(
            [x EXCEPT !.c.stack = SetToSeq(new), !.c.src = "status",
                      !.c.zlib = IF a.compressed THEN NULL ELSE "inflate"]))

GetServers(x, a, busy) ==
  LET by_fp == a.kind = "by fp"
      fps == dirserv_get_routerdesc_fingerprints(x.s, x.c, a.what, by_fp)
      y == [x EXCEPT !.c.src = a.kind, !.c.stack = SetToSortSeq(fps, LAMBDA f, g : f[1] < g[1])]
  IN IF ~ dirserv_have_any_serverdesc(x.s, fps, by_fp) THEN write_http_status_line(y, 404)
     ELSE IF busy THEN [write_http_status_line(y, 503) EXCEPT !.c.src = NULL]
     ELSE connection_dirserv_flushed_some(write_http_response_header(
            [y EXCEPT !.c.zlib = IF a.compressed THEN "deflate" ELSE NULL]))

directory_handle_command_get(x, a, busy) ==
  CASE a.kind = "directory" -> GetDirectory(x, a, busy)
    [] a.kind \in {"consensus", "statuses"} -> GetStatus(x, a, busy)
    [] OTHER -> GetServers(x, a, busy)

\* -------------------------------------------------------------------- actions
Idle == [code |-> 0, src |-> NULL, stack |-> <<>>, cached |-> NULL, offset |-> 0, zlib |-> NULL,
         inside |-> <<>>, out |-> <<>>, enc |-> TRUE, asked |-> NULL, held |-> {}, got |-> <<>>]

DcInit ==
  dc = [now |-> 1, dirs |-> [k \in StatusKeys |-> NULL], refs |-> [i \in DirIds |-> 0],
        descs |-> {}, aged |-> {}, conns |-> [c \in Conns |-> Idle]]

Put(c, x) == dc' = [x.s EXCEPT !.conns[c] = x.c]

\* The descriptors that were there all the time since they were asked for
StillHeld(s, c) == {d \in c.held : d \in s.descs /\ d \notin s.aged}
Move(s) == [s EXCEPT !.conns = [c \in Conns |-> [@[c] EXCEPT !.held = StillHeld(s, s.conns[c])]]]

\* A connection is accepted and its request read.
directory_handle_command(c) ==
  \E a \in Asks, busy \in BOOLEAN :
    /\ dc.conns[c].asked = NULL
    /\ Put(c, directory_handle_command_get(
                [s |-> dc, c |-> [Idle EXCEPT !.asked = a, !.enc = a.enc,
                                              !.held = dc.descs \ dc.aged]], a, busy))

\* Some of the output is written to the network: the buffer is filled again,
\* and the connection closed when that leaves it empty.
connection_dir_finished_flushing(x) ==
  IF x.c.out = <<>> THEN [s |-> cached_dir_decref(x.s, x.c.cached),
                          c |-> [x.c EXCEPT !.cached = NULL, !.src = "closed"]]
  ELSE x
Flushed(c) ==
  LET k == dc.conns[c]
      sent == IF k.out = <<>> THEN k
              ELSE [k EXCEPT !.out = Tail(@), !.got = Append(@, Head(k.out))]
  IN /\ k.asked # NULL /\ k.src # "closed"
     /\ Put(c, connection_dir_finished_flushing(
                 connection_dirserv_flushed_some([s |-> dc, c |-> sent])))

\* The connection breaks, or is removed after it was closed: connection_free.
Gone_(c) ==
  /\ dc.conns[c].asked # NULL
  /\ Put(c, [s |-> cached_dir_decref(dc, dc.conns[c].cached), c |-> Idle])

StatusArrives ==
  /\ dc.now <= MaxPublished
  /\ \/ dc' = dirserv_set_cached_networkstatus_v3(dc)
     \/ dc' = dirserv_set_cached_directory(dc)
     \/ \E k \in StatusIds : dc' = dirserv_set_cached_networkstatus_v2(dc, k, TRUE)

StatusForgotten ==
  \/ \E k \in StatusIds : /\ dc.dirs[k] # NULL
                          /\ dc' = dirserv_set_cached_networkstatus_v2(dc, k, FALSE)
  \/ \E cutoff \in 1..MaxPublished : /\ dirserv_clear_old_networkstatuses(dc, cutoff) # dc
                                     /\ dc' = dirserv_clear_old_networkstatuses(dc, cutoff)
  \/ /\ dc.dirs["v1"] # NULL
     /\ dc' = dirserv_clear_old_v1_info(dc)

\* The router list changes: a newer descriptor, one that gets old, one dropped
DescsChange ==
  \/ \E r \in Routers, v \in 1..MaxVersions :
       /\ \A d \in dc.descs : d[1] = r => d[2] < v
       /\ dc' = [dc EXCEPT !.descs = @ \cup {<<r, v>>}]
  \/ \E d \in dc.descs \ dc.aged : dc' = Move([dc EXCEPT !.aged = @ \cup {d}])
  \/ \E d \in dc.descs : dc' = Move([dc EXCEPT !.descs = @ \ {d}, !.aged = @ \ {d}])

DcNext ==
  \/ \E c \in Conns : directory_handle_command(c) \/ Flushed(c) \/ Gone_(c)
  \/ StatusArrives \/ StatusForgotten \/ DescsChange

DcSpec == DcInit /\ [][DcNext]_dc

\* ----------------------------------------------------------------- properties
Uses(id) == Cardinality({k \in StatusKeys : dc.dirs[k] = id}) +
            Cardinality({c \in Conns : dc.conns[c].cached = id})

(* The count of a status object is the number of places that use it, the    *)
(* cache and the connections that are sending it: none is freed while it is *)
(* being sent, and none stays behind when the cache has moved on and the    *)
(* clients have hung up (cached_dir_decref and everyone who calls it).      *)
RefsExact == \A id \in DirIds : dc.refs[id] = Uses(id)

Done(c) == c.src = "closed" /\ c.code = 200

(* An answer that has been sent to its end is what was asked for.  Statuses *)
(* come whole, each from the one object the sending started with, though    *)
(* newer ones have replaced it meanwhile; no status and no descriptor comes *)
(* twice; and every descriptor that was asked for and there all the time is *)
(* in the answer (the spooling helpers of dirserv.c).  Compressed answers   *)
(* about descriptors are left to StreamsFinished.                           *)
AnswersWhole ==
  \A k \in Conns :
    LET c == dc.conns[k]
        a == c.asked
        n == Len(c.got) \div Pieces
        ids == [i \in 1..n |-> c.got[Pieces * i][1]]
    IN Done(c) =>
         IF a.kind \in {"by fp", "by digest"}
         THEN /\ IsInjective(c.got)
              /\ ~ a.compressed =>
                   \A d \in c.held : (a.what = NULL \/ <<d[1], IF a.kind = "by fp" THEN 0 ELSE d[2]>> \in a.what) /\ May(c, d)
                       => \E e \in ToSet(c.got) : e[1] = d[1] /\ e[2] >= d[2]
         ELSE /\ c.got = FlattenSeq([i \in 1..n |-> [j \in 1..Pieces |-> <<ids[i], j>>]])
              /\ IsInjective([i \in 1..n |-> ids[i][1]])

(* The spooling helpers' comments: "If we run out of entries, flushes the   *)
(* zlib state and sets the spool source to NONE."                           *)
StreamsFinished ==
  \A k \in Conns : dc.conns[k].src \in {NULL, "closed"} /\ dc.conns[k].code = 200
                     => dc.conns[k].inside = <<>>
=============================================================================

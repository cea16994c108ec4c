------------------------------ MODULE DirFetch ------------------------------
(***************************************************************************)
(* A node that needs a directory document chooses whom to ask              *)
(* (or/routerlist.c), asks (or/directory.c), and remembers who failed or   *)
(* was busy.  The choice among equals is random in the code; here it is    *)
(* any of them.  Several documents are under way at a time, so one fetch   *)
(* works with what the others have learnt.                                 *)
(*                                                                         *)
(* What the servers do is fixed in the initial state: field does says      *)
(* "answers", "dead" (no connection, or cut off), "busy" (503) or "lacks"  *)
(* (404).  cons is what the consensus says of a server, auth the           *)
(* configured list of authorities.                                         *)
(***************************************************************************)
EXTENDS Integers, FiniteSets

CONSTANT NULL   \* the null pointer: none of the objects of the module

CONSTANTS
  Servers, Auths,        \* Auths \subseteq Servers
  Documents_, Descs,     \* what is to be fetched; of these, batches of descriptors
  Behaviours,            \* functions Servers -> what each does
  OrAllowed, DirAllowed, \* ports the firewall lets us use
  PreferTunneled, PreferAuthority, NoSecondFetch,
  Me                     \* NULL, or the authority we are

VARIABLE df

\* ---------------------------------------------------------------- the choice
Usable(x) == x \in DirAllowed \/ (PreferTunneled /\ x \in OrAllowed)
Tunnel(x) == PreferTunneled /\ x \in OrAllowed

FirstNonempty(lists) ==
  IF \E i \in DOMAIN lists : lists[i] # {}
  THEN lists[CHOOSE i \in DOMAIN lists : lists[i] # {} /\ \A j \in DOMAIN lists : lists[j] # {} => i <= j]
  ELSE {}

\* The servers the choice is made from, an empty set if there is none
router_pick_directory_server_impl(s) ==
  LET usable == {x \in Servers : s.cons[x].running /\ x # Me /\ Usable(x)}
      part(tunnel, which) ==
        {x \in usable : /\ Tunnel(x) = tunnel
                        /\ which = IF x \in Auths THEN "trusted"
                                   ELSE IF s.cons[x].busy THEN "overloaded" ELSE "free"}
  IN IF ~ s.have THEN {}
     ELSE FirstNonempty(<<part(TRUE, "free"), part(TRUE, "overloaded"), part(TRUE, "trusted"),
                          part(FALSE, "free"), part(FALSE, "overloaded"), part(FALSE, "trusted")>>)

\* A tunneled connection has the other port, and is not found.
Occupied(s, x) == \E c \in s.conns : c.to = x /\ c.doc \in Descs /\ ~ c.tunneled
router_pick_trusteddirserver_impl(s, nosecond) ==
  LET usable == {x \in Auths : /\ s.auth[x].running /\ x # Me /\ Usable(x)
                               /\ ~ (nosecond /\ Occupied(s, x))}
      part(tunnel, busy) == {x \in usable : Tunnel(x) = tunnel /\ s.auth[x].busy = busy}
  IN FirstNonempty(<<part(TRUE, FALSE), part(TRUE, TRUE), part(FALSE, FALSE), part(FALSE, TRUE)>>)
Busy(s) == \E x \in Auths : s.auth[x].running /\ x # Me /\ Occupied(s, x)

mark_all_trusteddirservers_up(s) ==
  [s EXCEPT !.auth = [x \in Auths |-> [@[x] EXCEPT !.running = TRUE]],
            !.cons = [x \in Servers |-> IF x \in Auths /\ ~ @[x].running
                                        THEN [running |-> TRUE, busy |-> FALSE] ELSE @[x]]]

\* These return the set of outcomes [s, to]; every caller asks to retry.
Chosen(s, from) == {[s |-> s, to |-> x] : x \in from}
router_pick_directory_server(s) ==
  LET up == mark_all_trusteddirservers_up(s)
      first == Chosen(s, router_pick_directory_server_impl(s))
      second == Chosen(up, router_pick_directory_server_impl(up))
  IN IF first # {} THEN first ELSE IF second # {} THEN second ELSE {[s |-> up, to |-> NULL]}

router_pick_trusteddirserver(s, nosecond) ==
  LET up == mark_all_trusteddirservers_up(s)
      first == Chosen(s, router_pick_trusteddirserver_impl(s, nosecond))
      second == Chosen(up, router_pick_trusteddirserver_impl(up, nosecond))
  IN IF first # {} THEN first
     ELSE IF nosecond /\ Busy(s) THEN {[s |-> s, to |-> NULL]}
     ELSE IF second # {} THEN second ELSE {[s |-> up, to |-> NULL]}

\* ------------------------------------------------------------------ asking
router_set_status(s, x, up) ==
  [s EXCEPT !.auth = [a \in Auths |-> IF a = x THEN [@[a] EXCEPT !.running = up] ELSE @[a]],
            !.cons[x].running = up]

\* Variant: the directory that failed is not marked down.
FailedStaysUp(s, x) == s

connection_dir_request_failed(s, x) == router_set_status(s, x, FALSE)

directory_command_should_use_begindir(x) == x \in OrAllowed /\ ~ PreferAuthority /\ PreferTunneled
Does(s, x) == IF directory_command_should_use_begindir(x) \/ x \in DirAllowed THEN s.does[x] ELSE "dead"
Conn(x, doc) == [to |-> x, doc |-> doc, tunneled |-> directory_command_should_use_begindir(x)]

\* A direct connection may fail at once.
directory_initiate_command_rend(s, x, doc) ==
  LET asked == [s EXCEPT !.conns = @ \cup {Conn(x, doc)}]
  IN IF Does(s, x) = "dead" /\ ~ directory_command_should_use_begindir(x)
     THEN {asked, connection_dir_request_failed(s, x)} ELSE {asked}

\* The outcomes of asking for doc
directory_get_from_dirserver(s, doc) ==
  LET nosecond == NoSecondFetch /\ doc \in Descs
      ask(os) == UNION {IF o.to = NULL THEN {[o.s EXCEPT !.unreachable = TRUE]}
                        ELSE directory_initiate_command_rend(o.s, o.to, doc) : o \in os}
      general(t, nosec) == UNION {IF o.to # NULL THEN {o} ELSE router_pick_trusteddirserver(o.s, nosec)
                                    : o \in router_pick_directory_server(t)}
      trusted == router_pick_trusteddirserver(s, nosecond)
      \* are all authorities down, or only busy with us?
      again == UNION {router_pick_trusteddirserver(o.s, FALSE) : o \in trusted}
  IN IF ~ PreferAuthority THEN ask(general(s, nosecond))
     ELSE IF \A o \in trusted : o.to # NULL THEN ask(trusted)
     ELSE IF ~ nosecond THEN ask(UNION {general(o.s, FALSE) : o \in trusted})
     ELSE IF \A o \in again : o.to # NULL THEN {o.s : o \in again}
     ELSE ask(UNION {general(o.s, FALSE) : o \in again})

\* ----------------------------------------------------------------- behaviour
DfInit ==
  \E does \in Behaviours, have \in BOOLEAN :
    df = [does |-> does, have |-> have, conns |-> {}, got |-> {}, unreachable |-> FALSE,
          auth |-> [x \in Auths |-> [running |-> TRUE, busy |-> FALSE]],
          cons |-> [x \in Servers |-> [running |-> have, busy |-> FALSE]]]

\* The schedules of the callers come round to a document that is missing.
Asks_(doc) ==
  /\ doc \notin df.got /\ \A c \in df.conns : c.doc # doc
  /\ df' \in directory_get_from_dirserver(df, doc)

\* A new consensus lists everyone as running; what we know of 503s is copied.
New(s) == [s EXCEPT !.have = TRUE, !.cons = [x \in Servers |-> [@[x] EXCEPT !.running = TRUE]]]

\* The server's answer is read to its end, or the connection breaks.
connection_dir_client_reached_eof(c) ==
  LET s == [df EXCEPT !.conns = @ \ {c}]
      noted == [s EXCEPT !.cons[c.to].busy = df.have,
                         !.auth = [x \in Auths |-> IF x = c.to THEN [@[x] EXCEPT !.busy = TRUE] ELSE @[x]]]
      does == Does(s, c.to)
  IN /\ c \in df.conns
     /\ df' = CASE does = "answers" /\ c.doc \in Descs -> [s EXCEPT !.got = @ \cup {c.doc}]
                [] does = "answers" -> New([s EXCEPT !.got = @ \cup {c.doc}])
                [] does = "busy" -> connection_dir_request_failed(noted, c.to)
                [] does = "lacks" /\ c.doc \in Descs -> s  \* a 404 for descriptors is no failure
                [] OTHER -> connection_dir_request_failed(s, c.to)

\* DIR_503_TIMEOUT passes.
BusyOver ==
  \E x \in Servers :
    \/ /\ df.cons[x].busy
       /\ df' = [df EXCEPT !.cons[x].busy = FALSE]
    \/ /\ x \in Auths /\ df.auth[x].busy
       /\ df' = [df EXCEPT !.auth[x].busy = FALSE]

DfNext ==
  \/ \E doc \in Documents_ : Asks_(doc)
  \/ \E x \in Servers, doc \in Documents_ : connection_dir_client_reached_eof(Conn(x, doc))
  \/ BusyOver
DfSpec == DfInit /\ [][DfNext]_df

\* The choice falls on a server that answers.
AsksHelpful(doc) ==
  /\ ~ df.have \/ doc \in Descs
  /\ Asks_(doc)
  /\ \E c \in df'.conns \ df.conns : df.does[c.to] = "answers"

\* ---------------------------------------------------------------- properties
\* Without a consensus every attempt starts by marking all authorities as
\* up, so one that is only reached directly is never preferred to another.
Helpful ==
  \E x \in Auths \ {Me} : /\ Does(df, x) = "answers" /\ Usable(x)
                          /\ df.have \/ Tunnel(x) \/ \A y \in Auths : ~ Tunnel(y)
NobodyLacks == \A x \in Servers : df.does[x] # "lacks"

(* As long as one authority that the firewall lets us reach answers, the    *)
(* consensus is fetched in the end, and so are descriptors if they are to   *)
(* be had, whatever the other servers do.  Once we have a consensus the     *)
(* next one needs no luck: a server that failed is not asked again before   *)
(* the others have been (router_set_status, mark_all_trusteddirservers_up,  *)
(* router_pick_directory_server).                                           *)
DocumentsFetched ==
  /\ Helpful => <>(Documents_ \ Descs \subseteq df.got)
  /\ Helpful /\ NobodyLacks => <>(df.got = Documents_)

(* "Directory unreachable" is reported only if no authority can be reached, *)
(* not because all of them are marked as down (PDS_RETRY_IF_NO_SERVERS).    *)
UnreachableIsTrue == df.unreachable => \A x \in Auths \ {Me} : ~ Usable(x)
=============================================================================

------------------------------ MODULE DirVote ------------------------------
(***************************************************************************)
(* The directory authorities agree on a consensus in every period          *)
(* (dirvote.c): each posts its vote, asks for the votes it missed, makes a *)
(* consensus of the votes it has, posts its signature, asks for missing    *)
(* signatures, and publishes the consensus when more than half have signed *)
(* it.  The consensus lists the votes it is made of (ConsensusDoc has the  *)
(* rest of its contents), so that it is here a set of votes.               *)
(*                                                                         *)
(* A vote is numbered by how often its authority has voted, which orders   *)
(* votes as their times of publication do.  What an authority posts to     *)
(* itself changes nothing and is left out.                                 *)
(***************************************************************************)
EXTENDS Integers, FiniteSets, FiniteSetsExt, TLC

CONSTANT NULL   \* the null pointer: none of the objects of the module

CONSTANTS
    Auths,
    Down,                        \* authorities that are not running
    Interval, VoteDelay, DistDelay, InitialInterval, Day,
    DvStart, DvMaxTime,          \* bounds
    MaxRestarted,                \* bound
    Timely                       \* answers arrive, and everyone acts, in every tick

VARIABLE dv

(* A period of the given length starts at its multiples in the day.         *)
dirvote_get_start_of_next_interval(now, interval) ==
    LET today == (now \div Day) * Day
        next == today + (((now - today) \div interval) + 1) * interval
    IN  IF next > today + Day \/ next + (interval \div 2) > today + Day THEN today + Day ELSE next

networkstatus_get_live_consensus(s, a) ==
    LET c == s.auth[a].current
    IN  IF c # NULL /\ c.va <= s.now /\ s.now <= c.va + 3 * Interval THEN c ELSE NULL

PeriodLength(s, a) ==
    IF networkstatus_get_live_consensus(s, a) # NULL THEN Interval ELSE InitialInterval

dirvote_recalculate_timing(s, a) ==
    LET interval == PeriodLength(s, a)
        long == VoteDelay + DistDelay > interval \div 2
        vote_delay == IF long THEN interval \div 4 ELSE VoteDelay
        dist_delay == IF long THEN interval \div 4 ELSE DistDelay
        start == dirvote_get_start_of_next_interval(s.now, interval)
    IN  [s EXCEPT !.auth[a].done = {},
                  !.auth[a].schedule =
                     [fetch_missing_signatures |-> start - (dist_delay \div 2),
                      voting_ends |-> start - dist_delay,
                      fetch_missing_votes |-> start - dist_delay - (vote_delay \div 2),
                      voting_starts |-> start - dist_delay - vote_delay,
                      interval_starts |-> start]]

-----------------------------------------------------------------------------
(* Signatures of a consensus, with the one they are of.                     *)
networkstatus_add_detached_signatures(target, sigs) ==
    IF target.votes # sigs.votes \/ target.va # sigs.va THEN target
    ELSE [target EXCEPT !.signers = @ \cup (sigs.signers \cap {v.by : v \in target.votes})]

networkstatus_check_consensus_signature(c) ==
    LET n_good == Cardinality(c.signers)
        n_required == (Cardinality(Auths) \div 2) + 1
    IN  IF n_good = Cardinality(Auths) THEN 1 ELSE IF n_good >= n_required THEN 0 ELSE -2

Sent(s, a, m) == [s EXCEPT !.msgs = @ \cup {[to |-> b, from |-> a] @@ m : b \in Auths \ (Down \cup {a})}]

directory_post_to_dirservers(s, a, m) == Sent(s, a, [posted |-> TRUE] @@ m)

directory_get_from_all_authorities(s, a, m) == Sent(s, a, [posted |-> FALSE] @@ m)

dirvote_get_vote(s, a, by) == {v \in s.auth[a].pending_vote_list : v.by = by}

(* Of the votes that came together each is looked at.                       *)
dirvote_add_vote(s, a, votes) ==
    LET ok == {v \in votes : s.auth[a].schedule # NULL
                             /\ v.va = s.auth[a].schedule.interval_starts}
        newer == {v \in ok : \A w \in dirvote_get_vote(s, a, v.by) : w.n < v.n}
        kept == {w \in s.auth[a].pending_vote_list : \A v \in newer : v.by # w.by}
    IN  [s EXCEPT !.auth[a].pending_vote_list = kept \cup newer]

dirvote_add_signatures_to_pending_consensus(s, a, sigs) ==
    [s EXCEPT !.auth[a].pending_consensus = networkstatus_add_detached_signatures(@, sigs)]

dirvote_add_signatures(s, a, sigs) ==
    IF s.auth[a].pending_consensus # NULL THEN dirvote_add_signatures_to_pending_consensus(s, a, sigs)
    ELSE [s EXCEPT !.auth[a].pending_consensus_signature_list = @ \cup {sigs}]

dirvote_perform_vote(s, a) ==
    LET vote == [by |-> a, n |-> s.n[a] + 1,
                 va |-> dirvote_get_start_of_next_interval(s.now, PeriodLength(s, a))]
        t == dirvote_add_vote([s EXCEPT !.n[a] = @ + 1], a, {vote})
    IN  IF vote \in t.auth[a].pending_vote_list
        THEN directory_post_to_dirservers(t, a, [type |-> "vote", votes |-> {vote}]) ELSE t

dirvote_fetch_missing_votes(s, a) ==
    LET missing == {b \in Auths : dirvote_get_vote(s, a, b) = {}}
    IN  IF missing = {} THEN s
        ELSE directory_get_from_all_authorities(s, a, [type |-> "getvotes", missing |-> missing])

MedianTime(votes) ==
    LET Upto(t) == Cardinality({v \in votes : v.va <= t})
    IN  Min({t \in {v.va : v \in votes} : Upto(t) > (Cardinality(votes) - 1) \div 2})

dirvote_compute_consensus(s, a) ==
    LET votes == s.auth[a].pending_vote_list
        c == [votes |-> votes, va |-> MedianTime(votes), signers |-> {a}]
        queued == s.auth[a].pending_consensus_signature_list
        full == [c EXCEPT !.signers =
                   @ \cup UNION {networkstatus_add_detached_signatures(c, q).signers : q \in queued}]
        t == [s EXCEPT !.auth[a].pending_consensus = full,
                       !.auth[a].pending_consensus_signature_list = {},
                       !.built = @ \cup {[by |-> a, votes |-> votes, va |-> c.va]}]
    IN  IF Cardinality(votes) <= Cardinality(Auths) \div 2 THEN s
        ELSE directory_post_to_dirservers(t, a, [type |-> "sigs", sigs |-> full])

dirvote_fetch_missing_signatures(s, a) ==
    LET c == s.auth[a].pending_consensus
    IN  IF c = NULL THEN s
        ELSE IF networkstatus_check_consensus_signature(c) = 1 THEN s
        ELSE directory_get_from_all_authorities(s, a, [type |-> "getsigs"])

dirvote_clear_votes(s, a) ==
    [s EXCEPT !.auth[a].pending_vote_list = {}, !.auth[a].pending_consensus = NULL,
              !.auth[a].pending_consensus_signature_list = {}]

networkstatus_set_current_consensus(s, a, c) ==
    IF s.auth[a].current # NULL /\ c.va <= s.auth[a].current.va THEN s
    ELSE dirvote_recalculate_timing([s EXCEPT !.auth[a].current = c,
                                              !.published = @ \cup {[by |-> a, c |-> c]}], a)

dirvote_publish_consensus(s, a) ==
    LET c == s.auth[a].pending_consensus
    IN  IF c = NULL THEN s
        ELSE IF networkstatus_check_consensus_signature(c) < 0 THEN s
        ELSE networkstatus_set_current_consensus(s, a, c)

(* Called every second; what is due is done once, in this order.            *)
IfDue(s, a, step, at, Op(_, _)) ==
    IF s.auth[a].schedule[at] < s.now /\ step \notin s.auth[a].done
    THEN [Op(s, a) EXCEPT !.auth[a].done = @ \cup {step}] ELSE s
Scheduled(s, a) == IF s.auth[a].schedule = NULL THEN dirvote_recalculate_timing(s, a) ELSE s
Published_(s, a) ==
    dirvote_recalculate_timing(dirvote_clear_votes(dirvote_publish_consensus(s, a), a), a)

Voted(s, a) == IfDue(s, a, "voted", "voting_starts", dirvote_perform_vote)
VotesFetched(s, a) == IfDue(s, a, "votes", "fetch_missing_votes", dirvote_fetch_missing_votes)
Built(s, a) == IfDue(s, a, "built", "voting_ends", dirvote_compute_consensus)
SigsFetched(s, a) == IfDue(s, a, "sigs", "fetch_missing_signatures", dirvote_fetch_missing_signatures)
dirvote_act(s, a) ==
    LET Last_(t) == IF t.auth[a].schedule["interval_starts"] < t.now THEN Published_(t, a) ELSE t
    IN  Last_(SigsFetched(Built(VotesFetched(Voted(Scheduled(s, a), a), a), a), a))

-----------------------------------------------------------------------------
Fresh(current) == [schedule |-> NULL, done |-> {}, pending_vote_list |-> {}, pending_consensus |-> NULL,
                   pending_consensus_signature_list |-> {}, current |-> current]

DvInit == dv = [now |-> DvStart, auth |-> [a \in Auths |-> Fresh(NULL)], msgs |-> {}, acted |-> {},
                n |-> [a \in Auths |-> 0], restarts |-> 0, built |-> {}, published |-> {}]

DvTick == /\ dv.now < DvMaxTime
          /\ Timely => dv.acted = Auths \ Down /\ dv.msgs = {}
          /\ dv' = [dv EXCEPT !.now = @ + 1, !.acted = {}]

DvAct == \E a \in Auths \ (Down \cup dv.acted) :
             dv' = [dirvote_act(dv, a) EXCEPT !.acted = @ \cup {a}]

(* What was posted, or answered to a request, arrives.                      *)
Taken(m) == [dv EXCEPT !.msgs = @ \ {m}]

directory_handle_command_post ==
    \E m \in dv.msgs :
        \/ m.type = "vote" /\ dv' = dirvote_add_vote(Taken(m), m.to, m.votes)
        \/ m.type = "sigs" /\ dv' = dirvote_add_signatures(Taken(m), m.to, m.sigs)

directory_handle_command_get ==
    \E m \in dv.msgs :
        LET Answer(x) == dv' = [Taken(m) EXCEPT !.msgs =
                                  @ \cup {[to |-> m.from, from |-> m.to, posted |-> FALSE] @@ x}]
            votes == UNION {dirvote_get_vote(dv, m.to, b) : b \in m.missing}
            c == dv.auth[m.to].pending_consensus
        IN  \/ /\ m.type = "getvotes"
               /\ IF votes = {} THEN dv' = Taken(m) ELSE Answer([type |-> "vote", votes |-> votes])
            \/ /\ m.type = "getsigs"
               /\ IF c = NULL THEN dv' = Taken(m) ELSE Answer([type |-> "sigs", sigs |-> c])

(* A post is lost: it is not tried again.                                   *)
PostLost == \E m \in dv.msgs : m.posted /\ dv' = Taken(m)

(* An authority restarts; what it was sending and receiving is lost.        *)
DvRestart ==
    /\ dv.restarts < MaxRestarted
    /\ \E a \in Auths \ Down :
          dv' = [dv EXCEPT !.auth[a] = Fresh(dv.auth[a].current), !.restarts = @ + 1,
                           !.msgs = {m \in @ : m.to # a /\ m.from # a}]

DvNext == \/ DvTick \/ DvAct \/ directory_handle_command_post \/ directory_handle_command_get
          \/ PostLost \/ DvRestart
DvSpec == DvInit /\ [][DvNext]_dv

-----------------------------------------------------------------------------
(* Two authorities that publish for the same period publish the same        *)
(* consensus, except when an authority restarted between its signatures     *)
(* and has signed both; and what is published counts one vote each of more  *)
(* than half of the authorities, all of them for that period.               *)
OneConsensus ==
    \A p, q \in dv.published :
        /\ p.c.va = q.c.va => \/ p.c.votes = q.c.votes
                              \/ \E x, y \in dv.built : x.by = y.by /\ x.va = y.va /\ x.votes # y.votes
        /\ \A v, w \in p.c.votes : v.va = p.c.va /\ (v.by = w.by => v = w)
        /\ 2 * Cardinality({v.by : v \in p.c.votes}) > Cardinality(Auths)

(* While answers arrive in time every authority that runs has the consensus *)
(* of a period soon after it starts: votes and signatures whose posting was *)
(* lost are fetched, and authorities that are down are not waited for.      *)
PublishedInTime ==
    Timely /\ dv.restarts = 0 => \A a \in Auths \ Down :
        \A start \in DvStart .. dv.now - 2 :
            start = dirvote_get_start_of_next_interval(start - 1, Interval) /\ start > DvStart =>
                \E p \in dv.published : p.by = a /\ p.c.va = start
=============================================================================

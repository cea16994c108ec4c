------------------------------ MODULE RepHist ------------------------------
(***************************************************************************)
(* What a relay remembers of the other relays (or/rephist.c): when OR      *)
(* connections to them opened and died, and, on a directory authority,     *)
(* for how long each was reachable.  An authority weighs old runs down     *)
(* from time to time, writes its measurements to the file router-stability *)
(* and picks them up again when it restarts.                               *)
(*                                                                         *)
(* Time 0 stands for "not set", as in the code.  total_run_weights is      *)
(* counted in units of STABILITY_EPSILON, ONE of them to a run.  What the  *)
(* code keeps only to log (how many connections, how many extends) is left *)
(* out.  Field first is a history variable: when the router was first      *)
(* noted reachable or unreachable.                                         *)
(***************************************************************************)
EXTENDS Integers, FiniteSetsExt

CONSTANT NULL   \* the null pointer: none of the objects of the module

CONSTANTS
  Ids,                 \* identity digests
  Authority,           \* authdir_mode: we test the reachability of others
  EarlyConns,          \* may OR connections come before the first test?
  ONE,                 \* 1.0 in units of STABILITY_EPSILON
  ALPHA,               \* STABILITY_ALPHA is 1 / ALPHA
  STABILITY_INTERVAL, SAVE_STABILITY_INTERVAL, CLEAN_CACHES_INTERVAL,
  RephistTrackTime,
  YEAR,                \* 24*60*60*365
  RhStart, RhMaxTime, RhMaxRestarts


VARIABLE rh

NoHistory(now) ==
  [changed |-> now, up |-> 0, dn |-> 0, uptime |-> 0, downtime |-> 0,
   run |-> 0, wrl |-> 0, weights |-> 0, down |-> 0, wup |-> 0, wtotal |-> 0,
   first |-> 0, links |-> [i \in Ids |-> 0]]

get_or_history(s, id) == IF s.hist[id] = NULL THEN NoHistory(s.now) ELSE s.hist[id]

\* ------------------------------------------------- connections and extends
mark_or_down(h, when, failed) ==
  [h EXCEPT !.uptime = IF h.up # 0 THEN @ + (when - h.up) ELSE @,
            !.up = 0,
            !.dn = IF failed /\ @ = 0 THEN when ELSE @]

mark_or_up(h, when) ==
  [h EXCEPT !.downtime = IF h.dn # 0 THEN @ + (when - h.dn) ELSE @,
            !.dn = 0,
            !.up = IF @ = 0 THEN when ELSE @]

update_or_history(h, when) ==
  IF h.up # 0 THEN [h EXCEPT !.uptime = @ + (when - h.up), !.up = when]
  ELSE IF h.dn # 0 THEN [h EXCEPT !.downtime = @ + (when - h.dn), !.dn = when]
  ELSE h

Noted(s, id, h) == [s EXCEPT !.hist[id] = [h EXCEPT !.changed = s.now]]

rep_hist_note_connect_failed(s, id) ==
  Noted(s, id, mark_or_down(get_or_history(s, id), s.now, TRUE))

rep_hist_note_connect_succeeded(s, id) ==
  Noted(s, id, mark_or_up(get_or_history(s, id), s.now))

rep_hist_note_disconnect(s, id) ==
  Noted(s, id, mark_or_down(get_or_history(s, id), s.now, FALSE))

rep_hist_note_connection_died(s, id) ==
  Noted(s, id, mark_or_down(get_or_history(s, id), s.now, TRUE))

get_link_history(s, from, to) ==
  [s EXCEPT !.hist[from] = [get_or_history(s, from) EXCEPT !.links[to] = s.now]]

rep_hist_note_extend_succeeded(s, from, to) == get_link_history(s, from, to)

rep_hist_note_extend_failed(s, from, to) == get_link_history(s, from, to)

\* ------------------------------------------------------------ reachability
rep_hist_note_router_reachable(s, id) ==
  LET h == get_or_history(s, id)
      when == s.now
      g == [h EXCEPT !.run = IF @ = 0 THEN when ELSE @,
                     !.wtotal = IF h.down # 0 THEN @ + (when - h.down) ELSE @,
                     !.down = 0,
                     !.first = IF @ = 0 THEN when ELSE @]
  IN [s EXCEPT !.hist[id] = g, !.tracked = IF @ = 0 THEN when ELSE @]

rep_hist_note_router_unreachable(s, id) ==
  LET h == get_or_history(s, id)
      when == s.now
      len == when - h.run
      g == IF h.run # 0
           THEN [h EXCEPT !.wrl = @ + len, !.weights = @ + ONE, !.run = 0,
                          !.wup = @ + len, !.wtotal = @ + len]
           ELSE h
  IN [s EXCEPT !.hist[id] = [g EXCEPT !.down = IF @ = 0 THEN when ELSE @,
                                      !.first = IF @ = 0 THEN when ELSE @],
               !.tracked = IF @ = 0 THEN when ELSE @]

\* n intervals have passed since the histories were last weighed down.
rep_hist_downrate_old_runs(s) ==
  LET last == IF s.downrated = 0 THEN s.now ELSE s.downrated
      n == IF last + STABILITY_INTERVAL < s.now
           THEN (s.now - last - 1) \div STABILITY_INTERVAL ELSE 0
      Less(x) == x \div (ALPHA ^ n)
      Rated(h) == [h EXCEPT !.wrl = Less(@), !.weights = Less(@),
                            !.wup = Less(@), !.wtotal = Less(@)]
      to == last + n * STABILITY_INTERVAL
  IN [s EXCEPT !.hist = [i \in Ids |-> IF @[i] = NULL THEN NULL ELSE Rated(@[i])],
               !.downrated = to, !.rateAt = to + STABILITY_INTERVAL,
               !.exact = @ /\ n = 0]

\* total / total_weights, as a whole number of HUNDREDTHS
get_stability(h, when) ==
  LET total == h.wrl + (IF h.run # 0 THEN when - h.run ELSE 0)
      weights == h.weights + (IF h.run # 0 THEN ONE ELSE 0)
  IN IF weights = 0 THEN 0 ELSE (100 * total * ONE) \div weights

get_total_weighted_time(h, when) ==
  h.wtotal + (IF h.run # 0 THEN when - h.run
              ELSE IF h.down # 0 THEN when - h.down ELSE 0)

get_weighted_fractional_uptime(h, when) ==
  LET total == get_total_weighted_time(h, when)
      up == h.wup + (IF h.run # 0 THEN when - h.run ELSE 0)
  IN IF total = 0 THEN 0 ELSE (100 * up) \div total

\* -------------------------------------------------- cleaning up, and logging
rep_history_clean(s, before) ==
  LET Old(h) == IF Authority THEN h.weights = 0 /\ h.run = 0 ELSE h.changed < before
      Clean(h) == [h EXCEPT !.links = [i \in Ids |-> IF @[i] < before THEN 0 ELSE @[i]]]
  IN [s EXCEPT !.hist = [i \in Ids |-> IF @[i] = NULL \/ Old(@[i]) THEN NULL ELSE Clean(@[i])]]

rep_hist_dump_stats(s) ==
  LET t == rep_history_clean(s, s.now - RephistTrackTime)
  IN [t EXCEPT !.hist = [i \in Ids |-> IF @[i] = NULL THEN NULL
                                       ELSE update_or_history(@[i], s.now)]]

\* --------------------------------------------------- the router-stability file
\* A router we no longer list counts as down, whether or not the file is written.
rep_hist_record_mtbf_data(s, missing_means_down, written) ==
  LET gone == {i \in Ids : /\ missing_means_down
                           /\ s.hist[i] # NULL /\ s.hist[i].run # 0 /\ i \notin s.listed}
      t == FoldSet(LAMBDA i, r : rep_hist_note_router_unreachable(r, i), s, gone)
      Line(h) == [run |-> h.run, wrl |-> h.wrl, weights |-> h.weights, down |-> h.down,
                  wup |-> h.wup, wtotal |-> h.wtotal, first |-> h.first]
  IN IF ~ written THEN t
     ELSE [t EXCEPT !.file =
             [stored |-> t.now, tracked |-> t.tracked, downrated |-> t.downrated,
              data |-> [i \in Ids |-> IF t.hist[i] = NULL THEN NULL ELSE Line(t.hist[i])]]]

\* Variant: times of the file are taken as they are.
UncorrectedTime(t, now, stored_at, started_measuring) ==
  IF t + YEAR < started_measuring THEN 0 ELSE t

\* As long before now as t was before stored_at, but not before we measured.
correct_time(t, now, stored_at, started_measuring) ==
  IF t + YEAR < started_measuring THEN 0
  ELSE IF t < started_measuring THEN started_measuring
  ELSE IF t > stored_at THEN 0
  ELSE Max({now - (stored_at - t), started_measuring})

\* The lines of one router in the file
loaded_history(s, f, d) ==
  LET Correct(t) == correct_time(t, s.now, f.stored, f.tracked)
  IN [NoHistory(s.now) EXCEPT
        !.run = Correct(d.run), !.wrl = d.wrl, !.weights = d.weights,
        !.down = Correct(d.down), !.wup = d.wup, !.wtotal = d.wtotal,
        !.first = d.first]

rep_hist_load_mtbf_data(s) ==
  LET f == s.file
      hist == [i \in Ids |-> IF f.data[i] = NULL THEN NULL ELSE loaded_history(s, f, f.data[i])]
      latest_possible_start ==
        Min({s.now} \cup {hist[i].run - hist[i].wrl : i \in {j \in Ids : hist[j] # NULL}})
  IN IF f = NULL THEN s
     ELSE [s EXCEPT !.hist = hist, !.downrated = f.downrated,
                    !.tracked = IF f.tracked < YEAR THEN latest_possible_start ELSE f.tracked]

\* --------------------------------------------------------------- the process
Booted(now, file, starts) ==
  rep_hist_load_mtbf_data(
    [now |-> now, hist |-> [i \in Ids |-> NULL], tracked |-> 0, downrated |-> 0,
     rateAt |-> 0, saveAt |-> 0, cleanAt |-> now, listed |-> Ids, file |-> file,
     starts |-> starts, exact |-> starts = 0])

RhInit == rh = Booted(RhStart, NULL, 0)

\* Once a second
RatedIfDue(s) == IF s.rateAt < s.now THEN rep_hist_downrate_old_runs(s) ELSE s
SavedIfDue(s, written) ==
  IF ~ Authority \/ s.saveAt >= s.now THEN s
  ELSE [IF s.saveAt # 0 THEN rep_hist_record_mtbf_data(s, TRUE, written) ELSE s
          EXCEPT !.saveAt = s.now + SAVE_STABILITY_INTERVAL]
CleanedIfDue(s) ==
  IF s.cleanAt >= s.now THEN s
  ELSE [rep_history_clean(s, s.now - RephistTrackTime)
          EXCEPT !.cleanAt = s.now + CLEAN_CACHES_INTERVAL]
run_scheduled_events(s, written) == CleanedIfDue(SavedIfDue(RatedIfDue(s), written))

RhTick(written) ==
  /\ rh.now < RhMaxTime
  /\ rh' = run_scheduled_events([rh EXCEPT !.now = @ + 1], written)

Connection ==
  \E id \in Ids :
    /\ Authority => EarlyConns \/ rh.tracked # 0
    /\ \/ rh' = rep_hist_note_connect_failed(rh, id)
       \/ rh' = rep_hist_note_connect_succeeded(rh, id)
       \/ rh' = rep_hist_note_disconnect(rh, id)
       \/ rh' = rep_hist_note_connection_died(rh, id)

Extension ==
  \E from, to \in Ids :
    /\ from # to
    /\ ~ Authority
    /\ \/ rh' = rep_hist_note_extend_succeeded(rh, from, to)
       \/ rh' = rep_hist_note_extend_failed(rh, from, to)

\* A test of a listed router succeeds, or none has for REACHABLE_TIMEOUT: a
\* router is not found unreachable in the second its run began.
Tested ==
  \E id \in rh.listed :
    /\ Authority
    /\ \/ rh' = rep_hist_note_router_reachable(rh, id)
       \/ /\ get_or_history(rh, id).run < rh.now
          /\ rh' = rep_hist_note_router_unreachable(rh, id)

\* routerlist_remove notes that the router is down, but an authority may also
\* have stopped before it could; then only the next save notes it.
Unlisted ==
  \E id \in rh.listed :
    /\ Authority
    /\ rh' = [rh EXCEPT !.listed = @ \ {id}]

StatsDumped == rh' = rep_hist_dump_stats(rh)

\* tor_cleanup saves once more; a crash does not.
RhRestart ==
  /\ rh.starts < RhMaxRestarts
  /\ \E now \in {rh.now, rh.now + 1}, stop \in BOOLEAN :
       LET s == IF stop /\ Authority THEN rep_hist_record_mtbf_data(rh, FALSE, TRUE) ELSE rh
       IN rh' = Booted(now, s.file, rh.starts + 1)

RhNext ==
  \/ \E written \in BOOLEAN : RhTick(written)
  \/ Connection \/ Extension \/ Tested \/ Unlisted \/ StatsDumped \/ RhRestart

RhSpec == RhInit /\ [][RhNext]_rh

\* --------------------------------------------------------------- properties
Known == {i \in Ids : rh.hist[i] # NULL}

(* Every second of a router's history is counted at most once, as up or as   *)
(* down, whatever the order of tests, saves, clean-ups and restarts, and     *)
(* exactly once as long as nothing was weighed down or lost in a restart     *)
(* (rep_hist_note_router_reachable, _unreachable and the loading code).      *)
TimeCountedOnce ==
  \A i \in Known :
    LET h == rh.hist[i]
        total == get_total_weighted_time(h, rh.now)
    IN /\ h.run = 0 \/ h.down = 0
       /\ h.wup <= h.wtotal /\ h.wrl <= h.wtotal
       /\ h.first # 0 => total <= rh.now - h.first
       /\ h.first = 0 => total = 0
       /\ rh.exact /\ h.first # 0 => total = rh.now - h.first
       /\ h.up = 0 \/ h.dn = 0
       /\ h.uptime + h.downtime + (IF h.up # 0 THEN rh.now - h.up ELSE 0)
            + (IF h.dn # 0 THEN rh.now - h.dn ELSE 0) <= rh.now - RhStart

(* A restart keeps what was measured: right after the file is loaded a       *)
(* router's mean run, its fractional uptime and the time it has been known   *)
(* are what they were when the file was stored (correct_time shifts a run    *)
(* or an outage that was going on by the time we were not there).            *)
RestartKeeps ==
  rh'.starts # rh.starts =>
    \A i \in Ids :
      rh'.hist[i] # NULL =>
        LET old == rh'.file.data[i]
            new == rh'.hist[i]
            at == rh'.file.stored
        IN /\ get_stability(new, rh'.now) = get_stability(old, at)
           /\ get_total_weighted_time(new, rh'.now) = get_total_weighted_time(old, at)
           /\ get_weighted_fractional_uptime(new, rh'.now)
                = get_weighted_fractional_uptime(old, at)
=============================================================================

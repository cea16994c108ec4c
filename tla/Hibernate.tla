----------------------------- MODULE Hibernate -----------------------------
(***************************************************************************)
(* Bandwidth accounting and hibernation (hibernate.c) with the second-long *)
(* tick of main.c that drives them and the state file of config.c.  The    *)
(* clock counts the hours of a calendar with short days, weeks and months; *)
(* a unit of bytes is the kilobyte that the state file rounds up to.       *)
(*                                                                         *)
(* hib is the memory of the process, which a crash loses; hib_disk is the  *)
(* state file.                                                             *)
(***************************************************************************)
EXTENDS Integers, FiniteSetsExt

CONSTANTS
    HoursPerDay, DaysPerWeek, DaysPerMonth,
    Units,              \* accounting units tried, of MONTH, WEEK and DAY
    StartDay, StartHour,\* the day and the hour of AccountingStart
    AccountingMax,      \* get_options()->AccountingMax, in kilobytes
    MaxPerTick,         \* bound: kilobytes of each direction in one tick
    NOTE_INTERVAL, NOTE_BYTES,
    SaveDelay,          \* 60 s, or 7200 s to spare the disk
    ActiveEnough,       \* 1800 s, after which the usage is extrapolated
    MaxConfigured,      \* BandwidthRate * 60
    WakeupDigest(_),    \* digest of an interval's start and the identity key
    ShutdownWaitLength,
    HibMaxTime          \* bound: the clock stops here

VARIABLES hib, hib_disk, hib_now

hibVars == <<hib, hib_disk, hib_now>>

TIME_MAX == 4 * HibMaxTime + 4 * DaysPerMonth * HoursPerDay

NoUsage == [start |-> 0, read |-> 0, written |-> 0, seconds |-> 0, expected |-> 0]

(* Day of the month and of the week count from 1 and from 0, as in tm; a    *)
(* month's days that mktime is given are never out of range here.           *)
edge_of_accounting_period_containing(unit, t, get_end) ==
    LET day == t \div HoursPerDay
        before == t % HoursPerDay < StartHour
        mon == day \div DaysPerMonth
        mday == (day % DaysPerMonth) + 1
        delta == (DaysPerWeek + (day % DaysPerWeek) - (StartDay % DaysPerWeek)) % DaysPerWeek
        back == IF delta = 0 /\ before THEN DaysPerWeek ELSE delta
        edge == CASE unit = "MONTH" ->
                       ((IF mday < StartDay \/ (mday < StartDay /\ before)
                         THEN mon - 1 ELSE mon) + get_end) * DaysPerMonth
                       + StartDay - 1
                  [] unit = "WEEK" -> day - back + get_end * DaysPerWeek
                  [] unit = "DAY" -> day - (IF before THEN 1 ELSE 0) + get_end
    IN  edge * HoursPerDay + StartHour

start_of_accounting_period_containing(h, t) ==
    edge_of_accounting_period_containing(h.unit, t, 0)
start_of_accounting_period_after(h, t) ==
    edge_of_accounting_period_containing(h.unit, t, 1)

update_expected_bandwidth(h) ==
    [h EXCEPT !.use.expected =
        IF h.use.seconds < ActiveEnough THEN 0
        ELSE Min({Max({h.use.read, h.use.written}) \div h.use.seconds, MaxConfigured})]

reset_accounting(h, t) ==
    LET start == start_of_accounting_period_containing(h, t)
    IN  [update_expected_bandwidth(h) EXCEPT
            !.use = [@ EXCEPT !.start = start, !.read = 0, !.written = 0, !.seconds = 0],
            !.interval_end = start_of_accounting_period_after(h, start)]

(* Without an estimate the node comes up at once; with one, at a time the   *)
(* digest picks, early enough for the allowance to be used up by the end.   *)
accounting_set_wakeup_time(h) ==
    LET exhaust == (AccountingMax \div h.use.expected)
        consider == h.interval_end - h.use.start - exhaust
    IN  [h EXCEPT !.wakeup =
           h.use.start + IF h.use.expected = 0 THEN 0
                         ELSE IF consider <= 0 THEN 0
                         ELSE (WakeupDigest(h.use.start) % consider)]

(* A start of 0 is that of a process, or a state file, that has none yet:   *)
(* read_bandwidth_usage then takes what the file has.                       *)
read_bandwidth_usage(h) ==
    IF h.use.start = 0 THEN [h EXCEPT !.use = h.state.use] ELSE h
in_interval(h, t) ==
    IF /\ h.use.start # 0
       /\ start_of_accounting_period_after(h, h.use.start) > t
       /\ h.use.start = start_of_accounting_period_containing(h, h.use.start)
    THEN [h EXCEPT !.interval_end = start_of_accounting_period_after(h, h.use.start)]
    ELSE reset_accounting(h, t)
configure_accounting(h, t) ==
    accounting_set_wakeup_time(in_interval(read_bandwidth_usage(h), t))

or_state_mark_dirty(h, when) ==
    [h EXCEPT !.state.next_write = Min({@, when})]

accounting_record_bandwidth_usage(h, t) ==
    or_state_mark_dirty([h EXCEPT !.state.use = h.use], t + SaveDelay)

\* Variant: usage is recorded after NOTE_BYTES only, never for the time passed.
RecordByBytesOnly(h, t) ==
    \/ h.noted.read + NOTE_BYTES <= h.use.read
    \/ h.noted.written + NOTE_BYTES <= h.use.written

time_to_record_bandwidth_usage(h, t) ==
    \/ h.noted.time + NOTE_INTERVAL <= t
    \/ h.noted.read + NOTE_BYTES <= h.use.read
    \/ h.noted.written + NOTE_BYTES <= h.use.written
    \/ h.interval_end # 0 /\ h.interval_end <= t

note_usage(h, t) ==
    IF time_to_record_bandwidth_usage(h, t)
    THEN accounting_record_bandwidth_usage(
           [h EXCEPT !.noted = [time |-> t, read |-> h.use.read,
                                written |-> h.use.written]], t)
    ELSE h
accounting_run_housekeeping(h, t) ==
    note_usage(IF t >= h.interval_end THEN configure_accounting(h, t) ELSE h, t)

hibernate_hard_limit_reached(h) ==
    AccountingMax # 0 /\ (h.use.read >= AccountingMax \/ h.use.written >= AccountingMax)

hibernate_soft_limit_reached(h) ==
    LET soft_limit == (AccountingMax * 95) \div 100
    IN  soft_limit # 0 /\ (h.use.read >= soft_limit \/ h.use.written >= soft_limit)

(* Listeners are closed; the usage is recorded and the file is due at once. *)
hibernate_begin(h, new_state, t) ==
    or_state_mark_dirty(
      accounting_record_bandwidth_usage(
        [h EXCEPT !.listeners = FALSE,
                  !.shutdown_time = IF new_state = "EXITING"
                                    THEN t + ShutdownWaitLength ELSE @,
                  !.end_time = IF new_state = "EXITING" THEN @ ELSE h.interval_end,
                  !.mode = new_state], t), 0)

hibernate_end(h, new_state) == [h EXCEPT !.mode = new_state, !.end_time = 0]

(* OR, AP and exit connections are closed as well.                          *)
hibernate_go_dormant(h, t) ==
    LET begun == IF h.mode = "LOWBANDWIDTH" THEN [h EXCEPT !.mode = "DORMANT"]
                 ELSE hibernate_begin(h, "DORMANT", t)
    IN  IF h.mode = "DORMANT" THEN h
        ELSE or_state_mark_dirty(
               accounting_record_bandwidth_usage(
                 [begun EXCEPT !.conns = FALSE,
                               !.end_time = IF t < h.wakeup THEN h.wakeup
                                            ELSE h.interval_end], t), 0)

wake_or_sleep_on(h, t) ==
    IF h.wakeup <= t THEN hibernate_end(h, "LIVE")
    ELSE hibernate_go_dormant([h EXCEPT !.end_time = h.wakeup], t)
hibernate_end_time_elapsed(h, t) == wake_or_sleep_on(accounting_run_housekeeping(h, t), t)

(* The three ifs of consider_hibernation, which follow one another: a node  *)
(* that wakes up with its allowance spent is put to sleep again by the same *)
(* call.                                                                    *)
when_dormant(h, t) ==
    IF h.mode = "DORMANT" THEN hibernate_end_time_elapsed(h, t) ELSE h
when_live(h, t) ==
    IF h.mode # "LIVE" THEN h
    ELSE IF hibernate_soft_limit_reached(h) THEN hibernate_begin(h, "LOWBANDWIDTH", t)
    ELSE IF AccountingMax # 0 /\ t < h.wakeup THEN hibernate_go_dormant(h, t)
    ELSE h
when_low(h, t) ==
    IF h.mode # "LOWBANDWIDTH" THEN h
    ELSE IF AccountingMax = 0 THEN hibernate_end_time_elapsed(h, t)
    ELSE IF hibernate_hard_limit_reached(h) THEN hibernate_go_dormant(h, t)
    ELSE IF h.end_time <= t THEN hibernate_end_time_elapsed(h, t)
    ELSE h
consider_hibernation(h, t) ==
    LET asleep == h.mode = "DORMANT" /\ h.end_time > t /\ AccountingMax # 0
    IN  IF h.mode = "EXITING" \/ asleep THEN h
        ELSE when_low(when_live(when_dormant(h, t), t), t)

(* or_state_save: the housekeeping it calls first may record more.          *)
or_state_due(h, t) == h.state.next_write <= t
or_state_save(h, t) ==
    [accounting_run_housekeeping(h, t) EXCEPT !.state.next_write = TIME_MAX]

-----------------------------------------------------------------------------
Booted(unit, use, t) ==
    configure_accounting(
      [unit |-> unit, use |-> NoUsage, interval_end |-> 0, wakeup |-> 0,
       noted |-> [time |-> 0, read |-> 0, written |-> 0],
       state |-> [use |-> use, next_write |-> TIME_MAX],
       mode |-> "LIVE", end_time |-> 0, shutdown_time |-> 0,
       listeners |-> TRUE, conns |-> TRUE], t)

HibFirst == DaysPerMonth * HoursPerDay

HibInit ==
    /\ hib_now \in HibFirst .. HibFirst + DaysPerMonth * HoursPerDay
    /\ hib_disk = NoUsage
    /\ \E unit \in Units : hib = Booted(unit, NoUsage, hib_now)

open_listeners(h) ==
    IF h.mode = "LIVE" THEN [h EXCEPT !.listeners = TRUE, !.conns = TRUE] ELSE h

(* second_elapsed_callback: the traffic of the tick is counted, then        *)
(* run_scheduled_events considers hibernation, does the accounting, opens   *)
(* the listeners of a node that is awake and writes a state file that is    *)
(* due.  A node that does not sleep may have connections again.             *)
second_elapsed_callback(read, written) ==
    LET t == hib_now + 1
        added == [hib EXCEPT !.use.read = @ + read, !.use.written = @ + written,
                             !.use.seconds = @ + 1]
    IN  /\ hib.mode # "DOWN"
        /\ hib.mode = "EXITING" => hib.shutdown_time > t
        /\ hib_now < HibMaxTime
        /\ hib.conns \/ (read = 0 /\ written = 0)
        /\ hib_now' = t
        /\ \E h \in {open_listeners(accounting_run_housekeeping(consider_hibernation(added, t), t))} :
             IF or_state_due(h, t)
             THEN hib' = or_state_save(h, t) /\ hib_disk' = or_state_save(h, t).state.use
             ELSE hib' = h /\ UNCHANGED hib_disk

(* tor_cleanup, on SIGTERM: what was counted is recorded and written.       *)
tor_cleanup ==
    LET recorded == or_state_save(accounting_record_bandwidth_usage(hib, hib_now), hib_now)
    IN  /\ hib_disk' = recorded.state.use
        /\ hib' = [recorded EXCEPT !.mode = "DOWN", !.conns = FALSE, !.listeners = FALSE]
        /\ UNCHANGED hib_now

SigTerm == hib.mode # "DOWN" /\ tor_cleanup

(* SIGINT on a relay: a second one, or one in hibernation, ends at once.    *)
hibernate_begin_shutdown ==
    \/ /\ hib.mode = "LIVE"
       /\ hib' = hibernate_begin(hib, "EXITING", hib_now)
       /\ UNCHANGED <<hib_disk, hib_now>>
    \/ /\ hib.mode \in {"EXITING", "LOWBANDWIDTH", "DORMANT"}
       /\ tor_cleanup

(* shutdown_time has come.                                                  *)
ShutdownDone ==
    /\ hib.mode = "EXITING"
    /\ hib.shutdown_time <= hib_now + 1
    /\ tor_cleanup

Crash ==
    /\ hib.mode # "DOWN"
    /\ hib' = [hib EXCEPT !.mode = "DOWN", !.conns = FALSE, !.listeners = FALSE]
    /\ UNCHANGED <<hib_disk, hib_now>>

(* or_state_load and options_act: the file's usage, if it is of the current *)
(* interval, is the usage so far.  The clock may have moved on.             *)
Restart(t) ==
    /\ hib.mode = "DOWN"
    /\ t \in hib_now .. HibMaxTime
    /\ hib_now' = t
    /\ hib' = Booted(hib.unit, hib_disk, t)
    /\ UNCHANGED hib_disk

HibNext ==
    \/ \E r, w \in 0 .. MaxPerTick : second_elapsed_callback(r, w)
    \/ SigTerm \/ hibernate_begin_shutdown \/ ShutdownDone \/ Crash
    \/ \E t \in hib_now .. hib_now + 1 : Restart(t)

HibSpec == HibInit /\ [][HibNext]_hibVars

-----------------------------------------------------------------------------
(* No tick ends with connections open and the allowance of the interval     *)
(* used up, whatever slept, woke, crashed or was reset before it; only a    *)
(* node that is shutting down serves its last clients beyond it.            *)
BudgetKept ==
    (hib_now' # hib_now /\ hib.mode # "DOWN" /\ hib'.conns /\ hib'.mode # "EXITING")
      => ~hibernate_hard_limit_reached(hib')

(* A node that sleeps with its allowance used up has that on disk, so that  *)
(* a restart in the same interval does not start with a new allowance.      *)
OverLimitOnDisk ==
    hib.mode = "DORMANT" /\ hibernate_hard_limit_reached(hib)
      => /\ hib_disk.start = hib.use.start
         /\ hib_disk.read >= AccountingMax \/ hib_disk.written >= AccountingMax

(* A node sleeps no longer than its accounting interval.                    *)
SleepBounded == hib.mode = "DORMANT" => hib.end_time <= hib.interval_end

(* What a crash makes the accounting forget is at most the traffic of the   *)
(* time between two notes and of the delay before a note is written.        *)
LossBounded ==
    LET saved == IF hib_disk.start = hib.use.start THEN hib_disk.read ELSE 0
    IN  hib.mode \notin {"DOWN"} =>
          hib.use.read - saved <= MaxPerTick * (NOTE_INTERVAL + SaveDelay + 1)
=============================================================================

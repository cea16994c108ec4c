----------------------------- MODULE CpuWorkers -----------------------------
(***************************************************************************)
(* The onionskin queue of a relay and its farm of cpuworkers: onion.c,     *)
(* cpuworker.c and the CREATE handler of command.c.  An onionskin that no  *)
(* idle worker can take waits on ol_list; a worker answers with a tag (OR  *)
(* connection, circuit ID) by which the main thread finds the circuit      *)
(* again, if it still exists.                                              *)
(*                                                                         *)
(* The state is one record, cpu, and a C function is an operator from such *)
(* a record to the one it leaves, so that a handler is the composition of  *)
(* the calls it makes.  A circuit is named by the order of its creation,   *)
(* which is also its onionskin; `skin' of a circuit is the onionskin whose *)
(* keys it was given, 0 before the answer.                                 *)
(***************************************************************************)
EXTENDS Integers, Sequences, FiniteSets, SequencesExt

CONSTANTS
    PConns,                 \* OR connections the create cells come from
    MaxCreates,             \* bound: create cells in a behaviour
    WorkerSlots,            \* places in the connection array for workers
    NumCpus,                \* cpuworkers wanted, already in 1..MAX_CPUWORKERS
    MaxOnionsPending,       \* get_options()->MaxOnionsPending
    ONIONQUEUE_WAIT_CUTOFF, \* seconds on the queue before a request is old
    CPUWORKER_BUSY_TIMEOUT, \* seconds before a busy worker is given up
    MaxTime                 \* bound: the clock stops here

VARIABLES cpu, cpu_now

cpuVars == <<cpu, cpu_now>>

Creates == 1 .. MaxCreates
NoTask == [conn |-> 0, id |-> 0, skin |-> 0]
FreeSlot == [state |-> "free", created |-> 0, written |-> 0, task |-> NoTask]

(* Places of the connection array in a given state; a connection marked for *)
(* close is in none of the states the code looks for.                       *)
WorkersIn(s, state) == {w \in WorkerSlots : s.worker[w].state = state}

(* --- onion.c ----------------------------------------------------------- *)

onion_pending_remove(s, c) ==
    [s EXCEPT !.ol_list = SelectSeq(@, LAMBDA e : e.circ # c)]

circuit_mark_for_close(s, c) ==
    LET unqueued == IF s.circ[c].state = "onionskin_pending"
                    THEN onion_pending_remove(s, c) ELSE s
    IN  [unqueued EXCEPT !.circ[c].marked = TRUE]

(* The new request goes to the tail, then the requests at the head that are *)
(* ONIONQUEUE_WAIT_CUTOFF old are cancelled.  The caller learns that the    *)
(* queue was full from the queue being unchanged.                           *)
onion_pending_add(s, c) ==
    IF s.ol_list # <<>> /\ Len(s.ol_list) >= MaxOnionsPending THEN s
    ELSE LET added == [s EXCEPT !.ol_list =
                                Append(@, [circ |-> c, when_added |-> cpu_now])]
             old == {e \in Range(s.ol_list) :
                        cpu_now - e.when_added >= ONIONQUEUE_WAIT_CUTOFF}
             gone == {e.circ : e \in old}
         IN  IF s.ol_list = <<>> THEN added
             ELSE [added EXCEPT
                    !.ol_list = SelectSeq(@, LAMBDA e : e.circ \notin gone),
                    !.circ = [d \in Creates |->
                                IF d \in gone THEN [@[d] EXCEPT !.marked = TRUE]
                                ELSE @[d]]]

(* --- cpuworker.c ------------------------------------------------------- *)

(* Spawns workers while there are too few and connection_add finds a place; *)
(* the first spawn that fails ends the loop.                                *)
spawn_enough_cpuworkers(s) ==
    LET free == WorkersIn(s, "free")
        fresh == {w \in free : Cardinality({v \in free : v < w})
                                 < NumCpus - s.num_cpuworkers}
    IN  [s EXCEPT
          !.worker = [w \in WorkerSlots |->
              IF w \in fresh
              THEN [FreeSlot EXCEPT !.state = "idle", !.created = cpu_now]
              ELSE @[w]],
          !.num_cpuworkers = @ + Cardinality(fresh)]

cull_wedged_cpuworkers(s) ==
    LET wedged == {w \in WorkersIn(s, "busy") :
                     s.worker[w].written + CPUWORKER_BUSY_TIMEOUT < cpu_now}
    IN  [s EXCEPT
          !.worker = [w \in WorkerSlots |->
              IF w \in wedged THEN [@[w] EXCEPT !.state = "marked"] ELSE @[w]],
          !.num_cpuworkers = @ - Cardinality(wedged),
          !.num_cpuworkers_busy = @ - Cardinality(wedged),
          !.lost = @ \cup {s.worker[w].task.skin : w \in wedged}]

(* w = 0 stands for the NULL worker of the CREATE handler.                  *)
assign_onionskin_to_cpuworker(s0, w, c) ==
    LET s == spawn_enough_cpuworkers(cull_wedged_cpuworkers(s0))
        w2 == IF w # 0 THEN w ELSE Min(WorkersIn(s, "idle"))
    IN  IF s.num_cpuworkers_busy = s.num_cpuworkers THEN onion_pending_add(s, c)
        ELSE [s EXCEPT
               !.worker[w2].state = "busy",
               !.worker[w2].written = cpu_now,
               !.worker[w2].task = [conn |-> s.circ[c].p_conn,
                                    id |-> s.circ[c].p_circ_id, skin |-> c],
               !.num_cpuworkers_busy = @ + 1]

(* onion_next_task takes the head of the queue off it.                      *)
process_pending_task(s, w) ==
    IF s.ol_list = <<>> THEN s
    ELSE LET c == s.ol_list[1].circ
         IN  assign_onionskin_to_cpuworker(onion_pending_remove(s, c), w, c)

cpuworkers_rotate(s) ==
    LET idle == WorkersIn(s, "idle")
    IN  spawn_enough_cpuworkers(
          [s EXCEPT
            !.worker = [w \in WorkerSlots |->
                IF w \in idle THEN [@[w] EXCEPT !.state = "marked"] ELSE @[w]],
            !.num_cpuworkers = @ - Cardinality(idle),
            !.last_rotation_time = cpu_now])

(* circuit_get_by_circid_orconn: 0 when no unmarked circuit has the tag.    *)
circuit_get_by_circid_orconn(s, conn, id) ==
    LET found == {c \in Creates : /\ s.circ[c].state # "none"
                                  /\ ~s.circ[c].marked
                                  /\ s.circ[c].p_conn = conn
                                  /\ s.circ[c].p_circ_id = id}
    IN  IF found = {} THEN 0 ELSE Min(found)

(* The keys go to the circuit; the CREATED cell goes back to its p_conn.    *)
onionskin_answer(s, c, skin) ==
    [s EXCEPT !.circ[c].state = "open", !.circ[c].skin = skin]

-----------------------------------------------------------------------------
CpuInit ==
    /\ cpu_now = 0
    /\ cpu = spawn_enough_cpuworkers(
               [circ |-> [c \in Creates |->
                            [state |-> "none", p_conn |-> 0, p_circ_id |-> 0,
                             marked |-> FALSE, skin |-> 0]],
                ol_list |-> <<>>,
                worker |-> [w \in WorkerSlots |-> FreeSlot],
                num_cpuworkers |-> 0, num_cpuworkers_busy |-> 0,
                last_rotation_time |-> 0, lost |-> {},
                next_circ_id |-> [conn \in PConns |-> 1]])

(* A CREATE (or, when fast, CREATE_FAST) cell for an ID that no circuit has *)
(* on the connection.  The peer takes the IDs of a connection one after the *)
(* other (get_unique_circ_id_by_conn); it has fewer than 2^15 - 1 of them   *)
(* to make here, so no ID comes back.  A request that the full queue        *)
(* refused is closed.                                                       *)
command_process_create_cell(conn, fast) ==
    LET made == {c \in Creates : cpu.circ[c].state # "none"}
        c == Cardinality(made) + 1
        new == [cpu EXCEPT
                  !.circ[c] = [state |-> "onionskin_pending", p_conn |-> conn,
                               p_circ_id |-> cpu.next_circ_id[conn],
                               marked |-> FALSE, skin |-> 0],
                  !.next_circ_id[conn] = @ + 1]
        handed == assign_onionskin_to_cpuworker(new, 0, c)
        kept == \/ \E w \in WorkerSlots : handed.worker[w].task.skin = c
                \/ \E e \in Range(handed.ol_list) : e.circ = c
    IN  /\ c \in Creates
        /\ cpu' = IF fast THEN onionskin_answer(new, c, c)
                  ELSE IF kept THEN handed
                  ELSE circuit_mark_for_close(handed, c)
        /\ UNCHANGED cpu_now

(* A circuit goes: its DESTROY cell, or the end of its OR connection        *)
(* (circuit_unlink_all_from_or_conn), takes it off the map and marks it.    *)
CircuitGone(c) ==
    /\ cpu.circ[c].state # "none" /\ ~cpu.circ[c].marked
    /\ cpu' = [circuit_mark_for_close(cpu, c) EXCEPT !.circ[c].p_conn = 0]
    /\ UNCHANGED cpu_now

(* A worker has written its answer, good or (old key, bad cell) not.        *)
connection_cpu_process_inbuf(w, success) ==
    LET task == cpu.worker[w].task
        c == circuit_get_by_circid_orconn(cpu, task.conn, task.id)
        answered == IF c = 0 THEN cpu
                    ELSE IF success THEN onionskin_answer(cpu, c, task.skin)
                    ELSE circuit_mark_for_close(cpu, c)
        idle == [answered EXCEPT !.worker[w].state = "idle",
                                 !.worker[w].task = NoTask,
                                 !.num_cpuworkers_busy = @ - 1]
    IN  /\ cpu.worker[w].state = "busy"
        /\ cpu' = IF cpu.worker[w].created < cpu.last_rotation_time
                  THEN spawn_enough_cpuworkers(
                         [idle EXCEPT !.worker[w].state = "marked",
                                      !.num_cpuworkers = @ - 1])
                  ELSE process_pending_task(idle, w)
        /\ UNCHANGED cpu_now

\* Variant: a worker that dies stays counted as busy.
EofStillBusy(w) ==
    /\ cpu.worker[w].state \in {"idle", "busy"}
    /\ cpu' = [spawn_enough_cpuworkers(
                 [cpu EXCEPT !.num_cpuworkers = @ - 1,
                             !.lost = IF cpu.worker[w].state = "busy"
                                      THEN @ \cup {cpu.worker[w].task.skin} ELSE @])
                 EXCEPT !.worker[w].state = "marked"]
    /\ UNCHANGED cpu_now

(* The worker died.  Its circuit is left as it is: nobody knows which.      *)
connection_cpu_reached_eof(w) ==
    LET busy == cpu.worker[w].state = "busy"
        fewer == [cpu EXCEPT
                    !.num_cpuworkers_busy = IF busy THEN @ - 1 ELSE @,
                    !.num_cpuworkers = @ - 1,
                    !.lost = IF busy THEN @ \cup {cpu.worker[w].task.skin} ELSE @]
    IN  /\ cpu.worker[w].state \in {"idle", "busy"}
        /\ cpu' = [spawn_enough_cpuworkers(fewer) EXCEPT
                     !.worker[w].state = "marked"]
        /\ UNCHANGED cpu_now

(* The onion key is new: idle workers are replaced, busy ones when done.    *)
RotateOnionKey ==
    /\ cpu.last_rotation_time < cpu_now
    /\ cpu' = cpuworkers_rotate(cpu)
    /\ UNCHANGED cpu_now

(* The main loop frees a connection that was marked for close.              *)
WorkerFreed(w) ==
    /\ cpu.worker[w].state = "marked"
    /\ cpu' = [cpu EXCEPT !.worker[w] = FreeSlot]
    /\ UNCHANGED cpu_now

CpuTick ==
    /\ cpu_now < MaxTime
    /\ cpu_now' = cpu_now + 1
    /\ UNCHANGED cpu

CpuNext ==
    \/ \E conn \in PConns, fast \in BOOLEAN : command_process_create_cell(conn, fast)
    \/ \E c \in Creates : CircuitGone(c)
    \/ \E w \in WorkerSlots, ok \in BOOLEAN : connection_cpu_process_inbuf(w, ok)
    \/ \E w \in WorkerSlots : connection_cpu_reached_eof(w)
    \/ RotateOnionKey
    \/ \E w \in WorkerSlots : WorkerFreed(w)
    \/ CpuTick

CpuSpec == CpuInit /\ [][CpuNext]_cpuVars

-----------------------------------------------------------------------------
(* num_cpuworkers and num_cpuworkers_busy, which the code adjusts by hand   *)
(* in seven places, count the workers there are; assign_onionskin relies on *)
(* it when it asserts that an idle worker exists.                           *)
WorkerCounts ==
    /\ cpu.num_cpuworkers_busy = Cardinality(WorkersIn(cpu, "busy"))
    /\ cpu.num_cpuworkers = Cardinality(WorkersIn(cpu, "busy") \cup WorkersIn(cpu, "idle"))
    /\ cpu.num_cpuworkers <= NumCpus

(* A circuit whose onionskin is pending waits in exactly one place: once on *)
(* ol_list, or at one busy worker, or it was at a worker that died; and     *)
(* ol_list holds nothing else (onion_next_task asserts it).                 *)
OnionsInOnePlace ==
    LET At(c) == {w \in WorkersIn(cpu, "busy") : cpu.worker[w].task.skin = c}
        Queued(c) == {i \in DOMAIN cpu.ol_list : cpu.ol_list[i].circ = c}
    IN  \A c \in Creates :
          LET waits == cpu.circ[c].state = "onionskin_pending" /\ ~cpu.circ[c].marked
          IN  /\ Cardinality(Queued(c)) + Cardinality(At(c)) <= 1
              /\ waits => (Queued(c) \cup At(c) = {}) = (c \in cpu.lost)
              /\ Queued(c) # {} => waits

(* The keys of an open circuit come from its own onionskin, however many    *)
(* circuits with the same tag have come and gone while the worker worked.   *)
KeysFromOwnSkin ==
    \A c \in Creates : cpu.circ[c].state = "open" => cpu.circ[c].skin = c
=============================================================================

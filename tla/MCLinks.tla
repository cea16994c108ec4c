------------------------------ MODULE MCLinks ------------------------------
(***************************************************************************)
(* How a node talks to the next one: the cell queues of a connection       *)
(* (CellQueues), the handshake that opens it (OrHandshake), the            *)
(* connections to a router over time (OrConnections), circuits through     *)
(* several nodes (Circuits) and the workers that answer onionskins         *)
(* (CpuWorkers).  The components are checked side by side: part says which *)
(* one a behaviour is about.  CellQueues and Circuits have variables of    *)
(* their own, the others share s and t.                                    *)
(***************************************************************************)
EXTENDS CellQueues

VARIABLES part, net, s, t

Both == [e \in {"client", "server"} |-> {1, 2}]

Shake == INSTANCE OrHandshake WITH KnownVersions <- Both, MaxHsCells <- 1, hs <- s, hs_wire <- t
Conns == INSTANCE OrConnections WITH
           ConnSlots <- {1, 2}, WaitCircs <- {"c1", "c2"}, Identities <- {"d1"}, Addrs <- {1, 2},
           TIME_BEFORE_OR_CONN_IS_TOO_OLD <- 1, NEW_CONN_GRACE_PERIOD <- 1,
           OcMaxTime <- 2, OcMaxConns <- 2, oc <- s, oc_now <- t
Paths == INSTANCE Circuits WITH
           Circuits_ <- {"c1"}, Hops <- 2, FastFirstHop <- TRUE,
           MAX_RELAY_EARLY_CELLS_PER_CIRCUIT <- 2
Cpu == INSTANCE CpuWorkers WITH
         PConns <- {1}, MaxCreates <- 3, WorkerSlots <- {1, 2}, NumCpus <- 1,
         MaxOnionsPending <- 1, ONIONQUEUE_WAIT_CUTOFF <- 0, CPUWORKER_BUSY_TIMEOUT <- 0,
         MaxTime <- 1, cpu <- s, cpu_now <- t

LinksInit ==
    /\ CqInit /\ Paths!CirInit
    /\ \/ part \in {"cells", "circuits"} /\ s = NULL /\ t = NULL
       \/ part = "handshake" /\ Shake!HsInit
       \/ part = "connections" /\ Conns!OcInit
       \/ part = "cpuworkers" /\ Cpu!CpuInit

LinksNext ==
    /\ UNCHANGED part
    /\ \/ part = "cells" /\ CqNext /\ UNCHANGED <<net, s, t>>
       \/ part = "handshake" /\ Shake!HsNext /\ UNCHANGED <<cq, net>>
       \/ part = "connections" /\ Conns!OcNext /\ UNCHANGED <<cq, net>>
       \/ part = "circuits" /\ Paths!CirNext /\ UNCHANGED <<cq, s, t>>
       \/ part = "cpuworkers" /\ Cpu!CpuNext /\ UNCHANGED <<cq, net>>

LinksSpec ==
    /\ LinksInit /\ [][LinksNext]_<<cq, part, net, s, t>>
    /\ \A e \in {"client", "server"} : WF_<<s, t>>(part = "handshake" /\ Shake!HsProgress(e))
    /\ part = "circuits" => Paths!CirFair

-----------------------------------------------------------------------------
(* The ring of active circuits is what assert_active_circuits_ok wants, no  *)
(* circuit starves, and neither cells nor stopped streams wait for a write  *)
(* event that will not come (relay.c, connection_or.c).                     *)
QueuesOk == RingOk /\ NoStarving /\ BlockedWillResume /\ NoCellStuck

(* While a connection is opened no cell reaches an end that would drop it,  *)
(* ends that are open agree on the link protocol, and neither waits for the *)
(* other for ever (connection_or.c, command.c).                             *)
HandshakeOk ==
    /\ [](part = "handshake" => Shake!NoCellDropped /\ Shake!LinkProtosAgree)
    /\ \A e \in {"client", "server"} : <>(part = "handshake" => Shake!HandshakeOver(e))

(* A circuit never waits for a connection that is not being opened, the     *)
(* chains of the identity map and the counts of circuits are right, two     *)
(* circuits share one attempt, and marking connections as bad spares one    *)
(* (connection_or.c, circuitbuild.c).                                       *)
ConnectionsOk ==
    /\ [](part = "connections" =>
            /\ Conns!NoOrphanedWait /\ Conns!IdentityMapOk
            /\ Conns!CircuitsCounted /\ Conns!OneAttempt)
    /\ [][part = "connections" => Conns!SparesOne]_<<s, t>>

(* What the origin of a circuit believes of its hops is so or news of the   *)
(* contrary is on its way (circuitbuild.c, relay.c, command.c).             *)
PathsAgree == Paths!HopsAgree

(* A circuit that its origin closed is closed everywhere in the end, unless *)
(* its CREATE left a queue after the DESTROY (circuitlist.c, command.c).    *)
PathsTornDown == Paths!TornDown

(* The counters of cpuworkers are right, an onionskin waits in one place,   *)
(* and the keys of a circuit are from its own onionskin (cpuworker.c).      *)
WorkersOk ==
    part = "cpuworkers" => Cpu!WorkerCounts /\ Cpu!OnionsInOnePlace /\ Cpu!KeysFromOwnSkin
=============================================================================

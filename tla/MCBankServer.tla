---------------------------- MODULE MCBankServer ----------------------------
(***************************************************************************)
(* Small instances of BankServer for TLC: two accounts, coins of two       *)
(* neighbouring intervals, a withdrawal blind and a merchant token.        *)
(***************************************************************************)
EXTENDS BankServer, TLC

CONSTANTS u1, u2, r1, r2, k1, k2, c1, c2, c3, c4, m1, m2

\* c1 and c2 are in circulation, c3 is a blind for withdrawals, c4 a token.
MCIntervalOf == [c \in Coins |-> IF c = c1 THEN 1 ELSE 2]
MCOneOwnerEach == (r1 :> u1) @@ (r2 :> u2)
MCOneOwner == (r1 :> u1)
MCSharedOwner == (r1 :> u1) @@ (r2 :> u1)
\* m1 and m2 are two datagrams that spend the same coin.
MCPays == [m \in Datagrams |-> {<<c1, c4>>}]
\* Some account cannot pay for the coin it asks for.
MCStart == [u \in Users |-> IF u = u1 THEN 1 ELSE 0]

-----------------------------------------------------------------------------
\* One account and one relay with two messages in a row, whose bank has database
\* faults and is restarted; the other bank (part "calm") is that of the cfg, and
\* its accounts start with as much together.
Faulty == INSTANCE BankServer WITH
            Users <- {u1}, Relays <- {r1}, Owner <- MCOneOwner,
            StartBalance <- [u \in {u1} |-> 1], MaxMsgnum <- 2, DbFaults <- TRUE,
            MaxRestarts <- 1

VARIABLE part
bankVars == <<part, vars>>

BankInit == \/ part = "calm" /\ Init
            \/ part = "faulty" /\ Faulty!Init
BankNext == /\ UNCHANGED part
            /\ \/ part = "calm" /\ Next
               \/ part = "faulty" /\ Faulty!Next
BankSpec == BankInit /\ [][BankNext]_bankVars
CalmSpec == BankInit /\ part = "calm" /\ [][BankNext]_bankVars

\* Fairness for the calm bank: the reactor runs every callback that is due and the
\* database every transaction it is given; clients and the clock are under no
\* obligation.
BankFairSpec ==
    /\ BankSpec
    /\ \A k \in Conns : WF_vars(part = "calm" /\ Serve(k))
    /\ WF_vars(part = "calm" /\ \E w \in numWrites : WriteMsgnum(w))
    /\ WF_vars(part = "calm" /\ LearnInterval)

-----------------------------------------------------------------------------
\* As long as the database does not fail every message gets its answer (no path
\* through the handlers forgets to reply and drop the connection), and the bank
\* follows the clock: the interval it accepts coins of becomes that of the clock.
BankLive ==
    /\ \A k \in Conns : part = "calm" /\ conn[k].pc # "free" ~> conn[k].pc = "free"
    /\ []<>(part = "calm" => current = today)
=============================================================================

----------------------------- MODULE MCCircuit -----------------------------
(***************************************************************************)
(* One paid circuit for TLC, in four parts that share nothing but the      *)
(* sizes: what it pays for and when (Refill, with the constants of the     *)
(* cfg), the tokens inside Tor (TorTokens, a download over two hops and    *)
(* data both ways over one), and its messages (TorMessages).               *)
(*                                                                         *)
(* The constants keep the proportions of the code: a payment is five low   *)
(* levels (10240 and 2048 cells; with TorTokens more than two, enough for  *)
(* one payment to last until the next), and the low level a little more    *)
(* than twice the window (2048 and 1000 cells).                            *)
(***************************************************************************)
EXTENDS Refill, FiniteSets

VARIABLES
    part,
    c, due,                                         \* TorTokens
    todo, control, link, circuit, buffer, handled   \* TorMessages

tokens == <<c, due>>
messages == <<todo, control, link, circuit, buffer, handled>>
all == <<part, vars, tokens, messages>>

Down == INSTANCE TorTokens WITH
          BYTES_PER_CELL <- 1, CELLS_PER_PAYMENT <- 34, LOW_PAR_BYTES <- 13,
          N <- 2, CIRCWINDOW_START <- 6, CIRCWINDOW_INCREMENT <- 3,
          Streams <- {"read"}, payments <- due
Both == INSTANCE TorTokens WITH
          BYTES_PER_CELL <- 1, CELLS_PER_PAYMENT <- 20, LOW_PAR_BYTES <- 9,
          N <- 1, CIRCWINDOW_START <- 4, CIRCWINDOW_INCREMENT <- 2,
          Streams <- {"read", "write"}, payments <- due

Direct(name, src, dst, cells) ==
    [name |-> name, src |-> src, dst |-> dst, cells |-> cells, overCircuit |-> FALSE]
OverCircuit(name, src, dst, cells) ==
    [name |-> name, src |-> src, dst |-> dst, cells |-> cells, overCircuit |-> TRUE]

\* The setup, a payment by way of the proxy, its receipt, and a DHT lookup.  One
\* coin fits in a cell on its way from the proxy.
Traffic ==
    << Direct("setup", 0, 2, 1), Direct("bank_relay", 0, 1, 2), Direct("payment", 1, 2, 1),
       Direct("receipt", 2, 0, 1), OverCircuit("dht_request", 0, 2, 1),
       OverCircuit("dht_response", 2, 0, 1) >>

\* The replies to the setup: four payment requests take two cells.
SetupReplies == {Direct("setup_reply", 1, 0, 2), Direct("setup_reply", 2, 0, 2)}

Paying == INSTANCE TorMessages WITH N <- 2, Messages <- {Traffic[i] : i \in DOMAIN Traffic}
Setup == INSTANCE TorMessages WITH N <- 2, Messages <- SetupReplies

-----------------------------------------------------------------------------
NoTokens == c = 0 /\ due = <<>>
NoMessages == /\ todo = {} /\ control = <<>> /\ link = <<>> /\ circuit = <<>>
              /\ buffer = <<>> /\ handled = <<>>
NoRefill == /\ payed = [read |-> 0, write |-> 0] /\ inflight = payed
            /\ payments = <<>> /\ added = <<>>

CircuitInit ==
    \/ part = "refill" /\ Init /\ NoTokens /\ NoMessages
    \/ part = "download" /\ Down!Init /\ NoRefill /\ NoMessages
    \/ part = "both ways" /\ Both!Init /\ NoRefill /\ NoMessages
    \/ part = "messages" /\ Paying!Init /\ NoRefill /\ NoTokens

CircuitNext ==
    /\ UNCHANGED part
    /\ \/ part = "refill" /\ Next /\ UNCHANGED <<tokens, messages>>
       \/ part = "download" /\ Down!Next /\ UNCHANGED <<vars, messages>>
       \/ part = "both ways" /\ Both!Next /\ UNCHANGED <<vars, messages>>
       \/ part = "messages" /\ Paying!Next /\ UNCHANGED <<vars, tokens>>

\* Fairness.  Tor reports its levels every second, answers every command, moves
\* cells and packages the data of its streams; a payment ends, or the circuit is
\* closed after PAR_TIMEOUT.  The parts never meet: weak fairness for step k of
\* whichever part it is, for every k, is weak fairness for every step of each.
FairStep(k) ==
    /\ UNCHANGED part
    /\ \/ /\ part = "refill" /\ UNCHANGED <<tokens, messages>>
          /\ \/ k = 1 /\ TokenLevels
             \/ k = 2 /\ TokensAdded
             \/ k = 3 /\ Len(payments) > 0 /\ AddTokens(1)
       \/ /\ part = "download" /\ UNCHANGED <<vars, messages>>
          /\ \/ k = 1 /\ Down!TokenLevels
             \/ k = 2 /\ Down!AllReceipts
             \/ k = 3 /\ Down!Package("read")
             \/ k = 4 /\ Down!Package("write")
             \/ k \in 5 .. 6 /\ Down!Receive("read", k - 5)
             \/ k \in 7 .. 8 /\ Down!Receive("write", k - 6)
             \/ k \in 9 .. 10 /\ due # <<>> /\ Down!PaymentReaches(1, k - 8)
       \/ /\ part = "messages" /\ UNCHANGED <<vars, tokens>>
          /\ \/ k \in 1 .. 3 /\ Paying!SendPayment(k - 1)
             \/ k \in 4 .. 6 /\ Paying!ProcessPaymentCell(k - 4, 1)
             \/ k \in 7 .. 9 /\ Paying!ProcessPaymentCell(k - 7, -1)
             \/ k = 10 /\ \E d \in {1, -1} : Paying!RelayMessage(d)

CircuitSpec == /\ CircuitInit /\ [][CircuitNext]_all
               /\ \A k \in 1 .. 10 : WF_all(FairStep(k))

SetupSpec == /\ part = "setup" /\ Setup!Init /\ NoRefill /\ NoTokens
             /\ [][Setup!Next /\ UNCHANGED <<part, vars, tokens>>]_all

-----------------------------------------------------------------------------
\* The windows of the two ends agree and keep their range, and a circuit that is
\* being paid for is closed neither as UNPAID nor for an overrun window; with data
\* both ways too no window is overrun.
TokensSound ==
    /\ part = "download" => Down!TypeOK /\ Down!WindowsAgree /\ Down!NeverUnpaid
    /\ part = "both ways" => Both!NeverOverrun

\* What message_arrived hands on is a message to this node, whole and in order.
MessagesIntact == part = "messages" => Paying!Intact
RepliesIntact == part = "setup" => Setup!Intact

\* A circuit that has fallen below the low level gets above it again, whatever
\* traffic it had in between (refill_payments); one that goes on paying goes on
\* carrying data, since an end that stopped for want of tokens always starts again
\* (circuit_resume_edge_reading); every message that is sent reaches its handler
\* (message_arrived).
CircuitLive ==
    /\ \A d \in {"read", "write"} :
          []<>(part = "refill" => payed[d] >= LOW_PAR_BYTES \div BYTES_PER_CELL)
    /\ []<>(part = "download" => c.wire["read"][1] # <<>>)
    /\ \A i \in DOMAIN Traffic :
          []<>(part = "messages" /\ Traffic[i] \notin todo
                 => Paying!Cells(Traffic[i]) \in handled[Traffic[i].dst])
=============================================================================

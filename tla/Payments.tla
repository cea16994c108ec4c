------------------------------ MODULE Payments ------------------------------
(***************************************************************************)
(* The payments of one circuit: ClientPaymentHandler and its PaymentStreams*)
(* at the origin, a ServerPaymentHandler at each hop, the payment proxy    *)
(* (hop 1) that carries coins to the bank, and the ADDTOKENS commands by   *)
(* which the origin's Tor learns that cells are paid for.  A payment buys  *)
(* CELLS_PER_PAYMENT cells with one coin for each hop (PaymentSize shows   *)
(* that refill_payments never asks for two), and so do the start tokens:   *)
(* tokens are counted in payments.                                         *)
(***************************************************************************)
EXTENDS Integers, Sequences, FiniteSets, Functions

CONSTANTS
    N,                     \* the hops of the circuit
    Coins,                 \* coins in the wallet when the circuit is built
    Refilled,              \* bound: the wallet is filled up to this many
    MAX_MERCHANT_TOKENS,   \* payment requests a hop sends with its setup reply
    MaxPayments            \* bound: payments one circuit makes

ASSUME PaymentsAssumption ==
    /\ N \in Nat \ {0} /\ Coins \in Nat /\ Refilled \in 0 .. Coins
    /\ MAX_MERCHANT_TOKENS \in Nat \ {0} /\ MaxPayments \in Nat

Hops == 1 .. N
Nodes == 0 .. N            \* 0 is the origin
Ids == 0 .. MaxPayments - 1
Requests == 0 .. MAX_MERCHANT_TOKENS + MaxPayments - 1

VARIABLES
    par,     \* the ClientPaymentHandler and its Circuit; broke remembers that a hop went
             \* without a coin
    stream,  \* the PaymentStream of each hop
    relay,   \* the ServerPaymentHandler of each hop
    open,    \* whether each node's Tor still has the circuit
    net,     \* messages on their way, received in any order
    tor,     \* the origin's Tor: tokens added, commands and replies under way
    coins    \* coins in the origin's wallet

vars == <<par, stream, relay, open, net, tor, coins>>

Message(type, h, id, reqs) == [type |-> type, hop |-> h, id |-> id, reqs |-> reqs]

\* A variant: the first receipt is taken for all.
SettledAny(p, s) == {i \in p.waiting : \E h \in Hops : i \notin s[h].deferreds}

\* The payments for which every hop's deferred has fired: their DeferredList fires,
\* and all_receipts_received runs at once.
Settled(p, s) == {i \in p.waiting : \A h \in Hops : i \notin s[h].deferreds}

\* all_receipts_received: the timer is cancelled and the tokens are added, unless
\* the circuit is done.
AllReceiptsReceived(p, s) ==
    LET all == Settled(p, s) IN
    /\ par' = [p EXCEPT !.waiting = @ \ all]
    /\ tor' = IF p.done THEN tor
              ELSE [tor EXCEPT !.cmds = @ \o [i \in 1 .. Cardinality(all) |-> "payment"]]

\* read_payment_tokens: the payment requests of a message join the stock of its hop
ReadPaymentTokens(s, reqs) == [s EXCEPT !.tokens = @ \cup reqs]

-----------------------------------------------------------------------------
\* BUILT: Circuit.circ_status_event, then send_setup_message
SendSetupMessage ==
    /\ ~par.started /\ ~par.done
    /\ par' = [par EXCEPT !.started = TRUE, !.inflight = @ + 1]
    /\ net' = net \cup {Message("setup", h, 0, {}) : h \in Hops}
    /\ UNCHANGED <<stream, relay, open, tor, coins>>

\* par_setup_timeout, PAR_TIMEOUT after the setup message
SetupTimeout ==
    /\ par.started /\ ~par.setupDone /\ ~par.done
    /\ par' = [par EXCEPT !.done = TRUE]
    /\ UNCHANGED <<stream, relay, open, net, tor, coins>>

\* handle_setup: send_setup_reply, then add_start_tokens.  A relay's tokens are
\* those its handler has ordered from its own Tor.
HandleSetup(m) ==
    LET h == m.hop
        new == {relay[h].next + i : i \in 0 .. MAX_MERCHANT_TOKENS - 1}
    IN
    /\ m.type = "setup" /\ open[h]
    /\ relay' = [relay EXCEPT ![h] = [requests |-> @.requests \cup new,
                                      next |-> @.next + MAX_MERCHANT_TOKENS,
                                      tokens |-> @.tokens + 1]]
    /\ net' = (net \ {m}) \cup {Message("setup_reply", h, 0, new)}
    /\ UNCHANGED <<par, stream, open, tor, coins>>

\* handle_setup_reply, of the hop's PaymentStream and of the client.  With the last
\* reply the start tokens are added, and what was queued is forgotten: the counters
\* are tested after they have been reset.
HandleSetupReply(m) ==
    LET s == [stream EXCEPT ![m.hop] = [ReadPaymentTokens(@, m.reqs) EXCEPT !.setupDone = TRUE]]
        all == \A h \in Hops : s[h].setupDone
    IN
    /\ m.type = "setup_reply" /\ open[0]
    /\ stream' = s
    /\ net' = net \ {m}
    /\ IF all /\ ~par.done
       THEN /\ par' = [par EXCEPT !.setupDone = TRUE, !.queued = 0]
            /\ tor' = [tor EXCEPT !.cmds = Append(@, "start")]
       ELSE UNCHANGED <<par, tor>>
    /\ UNCHANGED <<relay, open, coins>>

-----------------------------------------------------------------------------
\* start_bank_process of hop h: a merchant token is taken first, then a coin.  With
\* no coin left the hop's deferred fails and generic_error_handler turns the failure
\* into a result; nothing is sent.
Spend(s, id, token, paid) ==
    [s EXCEPT !.tokens = @ \ {token}, !.deferreds = IF paid THEN @ ELSE @ \ {id}]

\* send_payment: with no merchant token in stock the payment waits for a receipt.
SendPayment(s, id, token, paid) ==
    LET called == [s EXCEPT !.deferreds = @ \cup {id}]
    IN IF s.tokens = {} THEN [called EXCEPT !.pending = Append(@, id)]
       ELSE Spend(called, id, token, paid)

\* send_direct_tor_message sends nothing once the circuit is done
Sent(p, msgs) == IF p.done THEN {} ELSE msgs

\* send_payment_request, for one payment: it queues until the setup is done, then
\* calls send_payment for every hop, in no particular order.
SendPaymentRequest ==
    LET id == par.asked
        starting == {h \in Hops : stream[h].tokens # {}}
    IN
    IF ~par.setupDone
    THEN /\ par' = [par EXCEPT !.asked = @ + 1, !.queued = @ + 1]
         /\ UNCHANGED <<stream, relay, open, net, tor, coins>>
    ELSE \E token \in [starting -> Requests], paid \in SUBSET starting :
         LET s == [h \in Hops |-> SendPayment(stream[h], id, token[h], h \in paid)]
             p == [par EXCEPT !.asked = @ + 1, !.inflight = @ + 1, !.waiting = @ \cup {id},
                                !.broke = @ \/ paid # starting]
         IN
         /\ \A h \in starting : token[h] \in stream[h].tokens
         /\ \/ paid = starting /\ coins >= Cardinality(paid)
            \/ paid # starting /\ Cardinality(paid) = coins
         /\ stream' = s
         /\ coins' = coins - Cardinality(paid)
         /\ net' = net \cup {Message("bank_relay", h, id, {token[h]}) : h \in paid}
         /\ AllReceiptsReceived(p, s)
         /\ UNCHANGED <<relay, open>>

\* token_level_event, when refill_payments finds the circuit low.  It counts what is
\* in flight: Refill shows that no more than MAX_MERCHANT_TOKENS payments are.
TokenLevels ==
    /\ open[0] /\ ~par.done /\ par.initialTokensAdded
    /\ par.asked < MaxPayments /\ par.inflight < MAX_MERCHANT_TOKENS
    /\ SendPaymentRequest

-----------------------------------------------------------------------------
\* handle_payment at m.hop: a coin for a known request is kept, a receipt with a new
\* request is sent, and the tokens are ordered.  Anything else closes the circuit.
HandlePayment(m, ok) ==
    LET h == m.hop
        new == relay[h].next
    IN
    IF ok /\ m.reqs \subseteq relay[h].requests
    THEN /\ relay' = [relay EXCEPT ![h] = [requests |-> (@.requests \ m.reqs) \cup {new},
                                           next |-> new + 1, tokens |-> @.tokens + 1]]
         /\ net' = (net \ {m}) \cup {Message("receipt", h, m.id, {new})}
         /\ UNCHANGED open
    ELSE open' = [open EXCEPT ![h] = FALSE] /\ net' = net \ {m} /\ UNCHANGED relay

\* handle_bank_relay at hop 1, up to the bank's answer, which signs the coin or
\* refuses it.  The answer goes on to the hop, or is handled at once if the hop is
\* the proxy itself.
BankAnswers(m, ok) ==
    /\ m.type = "bank_relay" /\ open[1]
    /\ IF m.hop = 1 THEN HandlePayment(m, ok)
       ELSE /\ net' = (net \ {m}) \cup
                      {Message(IF ok THEN "payment" ELSE "refusal", m.hop, m.id, m.reqs)}
            /\ UNCHANGED <<relay, open>>
    /\ UNCHANGED <<par, stream, tor, coins>>

\* UDPPayment sends the datagram again until retryInterval is over; a payment that
\* is not answered by then is only logged.
ProxyGivesUp(m) ==
    /\ m.type = "bank_relay" /\ open[1]
    /\ net' = net \ {m}
    /\ UNCHANGED <<par, stream, relay, open, tor, coins>>

\* the answer reaches its hop
PaymentArrives(m) ==
    /\ m.type \in {"payment", "refusal"} /\ open[m.hop]
    /\ HandlePayment(m, m.type = "payment")
    /\ UNCHANGED <<par, stream, tor, coins>>

\* handle_receipt: the new request joins the stock, a payment that waited for one is
\* started, and the receipt's deferred fires.
HandleReceipt(m) ==
    LET h == m.hop
        filled == ReadPaymentTokens(stream[h], m.reqs)
        fired(s) == [stream EXCEPT ![h] = [s EXCEPT !.deferreds = @ \ {m.id}]]
        left == net \ {m}
    IN
    /\ m.type = "receipt" /\ open[0]
    /\ \/ /\ filled.pending = <<>>
          /\ stream' = fired(filled) /\ net' = left
          /\ AllReceiptsReceived(par, fired(filled)) /\ UNCHANGED coins
       \/ /\ filled.pending # <<>>
          /\ \E token \in filled.tokens :
             LET id == Head(filled.pending)
                 paid == coins > 0
                 s == fired(Spend([filled EXCEPT !.pending = Tail(@)], id, token, paid))
             IN
             /\ stream' = s
             /\ coins' = IF paid THEN coins - 1 ELSE coins
             /\ net' = left \cup Sent(par, IF paid THEN {Message("bank_relay", h, id, {token})} ELSE {})
             /\ AllReceiptsReceived([par EXCEPT !.broke = @ \/ ~paid], s)
    /\ UNCHANGED <<relay, open>>

-----------------------------------------------------------------------------
\* The origin's Tor answers one ADDTOKENS command: handle_control_addtokens
TorAddsTokens ==
    /\ tor.cmds # <<>>
    /\ tor' = [tokens |-> tor.tokens + (IF open[0] THEN 1 ELSE 0),
               cmds |-> Tail(tor.cmds),
               replies |-> Append(tor.replies, [cmd |-> Head(tor.cmds), ok |-> open[0]])]
    /\ UNCHANGED <<par, stream, relay, open, net, coins>>

\* initial_tokens_added, and the response of all_receipts_received, which ignores an
\* error; both end in _add_tokens_callback.
TokensAdded ==
    /\ tor.replies # <<>>
    /\ LET r == Head(tor.replies) IN
       par' = IF r.cmd = "start" \/ r.ok
              THEN [par EXCEPT !.initialTokensAdded = @ \/ r.cmd = "start",
                               !.inflight = @ - 1, !.credited = @ + 1]
              ELSE par
    /\ tor' = [tor EXCEPT !.replies = Tail(@)]
    /\ UNCHANGED <<stream, relay, open, net, coins>>

\* A variant: a late payment is only logged.
PaymentTimeoutLogged(id) ==
    /\ id \in par.waiting
    /\ par' = [par EXCEPT !.waiting = @ \ {id}]
    /\ UNCHANGED <<stream, relay, open, net, tor, coins>>

\* all_receipts_received with no results, PAR_TIMEOUT after the payment
PaymentTimeout(id) ==
    /\ id \in par.waiting
    /\ par' = [par EXCEPT !.waiting = @ \ {id}, !.done = TRUE]
    /\ UNCHANGED <<stream, relay, open, net, tor, coins>>

\* A node's Tor closes the circuit: its relay fails, its neighbour closed it, or, at
\* the origin, Circuit.close asked for it.
TorCloses(n) ==
    /\ open[n]
    /\ open' = [open EXCEPT ![n] = FALSE]
    /\ UNCHANGED <<par, stream, relay, net, tor, coins>>

\* The wallet gets a coin from the bank: add_acoin
CoinArrives ==
    /\ coins < Refilled
    /\ coins' = coins + 1
    /\ UNCHANGED <<par, stream, relay, open, net, tor>>

\* circ_status_event with CLOSED or FAILED: on_done
CircuitClosed ==
    /\ ~open[0] /\ ~par.done
    /\ par' = [par EXCEPT !.done = TRUE]
    /\ UNCHANGED <<stream, relay, open, net, tor, coins>>

Init ==
    /\ par = [started |-> FALSE, setupDone |-> FALSE, initialTokensAdded |-> FALSE,
              done |-> FALSE, asked |-> 0, queued |-> 0, inflight |-> 0, credited |-> 0,
              waiting |-> {}, broke |-> FALSE]
    /\ stream = [h \in Hops |-> [setupDone |-> FALSE, tokens |-> {}, deferreds |-> {},
                                 pending |-> <<>>]]
    /\ relay = [h \in Hops |-> [requests |-> {}, next |-> 0, tokens |-> 0]]
    /\ open = [n \in Nodes |-> TRUE]
    /\ net = {} /\ coins = Coins
    /\ tor = [tokens |-> 0, cmds |-> <<>>, replies |-> <<>>]

Next ==
    \/ SendSetupMessage \/ SetupTimeout \/ TokenLevels
    \/ TorAddsTokens \/ TokensAdded \/ CircuitClosed \/ CoinArrives
    \/ \E m \in net : \/ HandleSetup(m) \/ HandleSetupReply(m) \/ ProxyGivesUp(m)
                       \/ BankAnswers(m, TRUE) \/ BankAnswers(m, FALSE)
                       \/ PaymentArrives(m) \/ HandleReceipt(m)
    \/ \E id \in Ids : PaymentTimeout(id)
    \/ \E n \in Nodes : TorCloses(n)
Spec == Init /\ [][Next]_vars

\* Timers fire, Tor answers its commands and reports a circuit that it closed.
FairSpec == /\ Spec /\ WF_vars(SetupTimeout) /\ WF_vars(\E id \in Ids : PaymentTimeout(id))
            /\ WF_vars(TorAddsTokens) /\ WF_vars(TokensAdded) /\ WF_vars(CircuitClosed)

-----------------------------------------------------------------------------
\* The shape of the state: counters of ClientPaymentHandler are never negative, and
\* no id or merchant token is outside the ones handed out.
TypeOK ==
    /\ \A f \in {"started", "setupDone", "initialTokensAdded", "done", "broke"} : par[f] \in BOOLEAN
    /\ par.asked \in 0 .. MaxPayments /\ par.queued \in Nat /\ par.inflight \in Nat
    /\ par.credited \in Nat /\ par.waiting \subseteq Ids
    /\ \A h \in Hops :
          /\ stream[h].setupDone \in BOOLEAN /\ stream[h].tokens \subseteq Requests
          /\ stream[h].deferreds \subseteq Ids /\ stream[h].pending \in Seq(Ids)
          /\ relay[h].requests \subseteq Requests
          /\ relay[h].next \in Nat /\ relay[h].tokens \in Nat
    /\ open \in [Nodes -> BOOLEAN] /\ coins \in 0 .. Coins
    /\ \A m \in net : m.hop \in Hops /\ m.id \in Ids \cup {0} /\ m.reqs \subseteq Requests
    /\ tor.tokens \in Nat /\ tor.cmds \in Seq({"start", "payment"})

\* Every hop is paid before the origin uses what it paid for: the tokens that
\* all_receipts_received adds at the origin have been ordered at every hop, so that
\* no hop runs out first and closes the circuit as unpaid.
PaidFirst == \A h \in Hops : tor.tokens <= relay[h].tokens

\* Every hop is paid first as long as the wallet had a coin for every payment,
\* whatever is lost, refused or late in all_receipts_received.
PaidWhileSolvent == ~par.broke => PaidFirst

Carrying(h) == {m \in net : m.hop = h /\ m.reqs # {}}

\* A merchant token is in one place only, the origin's stock or one message, and its
\* relay still has the request: handle_payment never meets an unknown request id.
RequestsKnown ==
    \A h \in Hops :
       /\ stream[h].tokens \subseteq relay[h].requests
       /\ \A m \in Carrying(h) : /\ m.reqs \subseteq relay[h].requests
                                 /\ m.reqs \cap stream[h].tokens = {}
       /\ \A m, k \in Carrying(h) : m # k => m.reqs \cap k.reqs = {}

\* While the wallet had coins, the merchant tokens of a hop and the payments under
\* way to it add up to MAX_MERCHANT_TOKENS, and no payment waits for a token: each
\* receipt brings back the request that its payment used.
StockKept ==
    \A h \in Hops : (stream[h].setupDone /\ ~par.broke) =>
       /\ Cardinality(stream[h].tokens) + Cardinality(stream[h].deferreds) = MAX_MERCHANT_TOKENS
       /\ stream[h].pending = <<>>

\* No payment is forgotten while the circuit lives: whatever refill_payments asked
\* for is in flight, queued or credited.
NoneForgotten ==
    (open[0] /\ ~par.done) =>
       par.inflight + par.queued + par.credited = par.asked + (IF par.started THEN 1 ELSE 0)

\* Hops are paid, merchant tokens are neither doubled nor lost, and no payment is
\* forgotten, in every order of messages, receipts, timeouts and failures.
PaymentsSound == PaidWhileSolvent /\ RequestsKnown /\ StockKept /\ NoneForgotten

\* Every payment, and the start tokens, end up credited to the circuit, or the
\* circuit is closed: a lost message, a bank that does not answer and a hop that is
\* gone are all caught by the timers of PAR_TIMEOUT.
PaymentsEnd ==
    \A k \in 0 .. MaxPayments :
       (par.started /\ par.asked >= k) ~> (par.credited >= k + 1 \/ par.done)
=============================================================================

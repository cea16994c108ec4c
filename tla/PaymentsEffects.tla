-------------------------- MODULE PaymentsEffects ---------------------------
(***************************************************************************)
(* What every step of module Payments does to the records of the payment   *)
(* protocol, field by field.  The proofs about the invariants use these    *)
(* facts and no longer the handlers.                                       *)
(***************************************************************************)
EXTENDS Payments, FiniteSetTheorems, SequenceTheorems, TLAPS

-----------------------------------------------------------------------------
(***************************************************************************)
(* The inductive invariant.                                                *)
(***************************************************************************)
ParType == [started : BOOLEAN, setupDone : BOOLEAN, initialTokensAdded : BOOLEAN,
            done : BOOLEAN, asked : Nat, queued : Nat, inflight : Int, credited : Nat,
            waiting : SUBSET Nat, broke : BOOLEAN]
StreamType == [setupDone : BOOLEAN, tokens : SUBSET Nat, deferreds : SUBSET Nat,
               pending : Seq(Nat)]
RelayType == [requests : SUBSET Nat, next : Nat, tokens : Nat]
Commands == {"start", "payment"}
TorType == [tokens : Nat, cmds : Seq(Commands), replies : Seq([cmd : Commands, ok : BOOLEAN])]
MessageType ==
    [type : {"setup", "setup_reply", "bank_relay", "payment", "refusal", "receipt"},
     hop : Hops, id : Nat, reqs : SUBSET Nat]

\* The types of what the handlers keep.
Types ==
    /\ par \in ParType
    /\ stream \in [Hops -> StreamType]
    /\ relay \in [Hops -> RelayType]
    /\ open \in [Nodes -> BOOLEAN]
    /\ net \in SUBSET MessageType
    /\ tor \in TorType
    /\ par.waiting \subseteq 0 .. par.asked - 1
    /\ \A h \in Hops : stream[h].deferreds \subseteq 0 .. par.asked - 1

\* A relay numbers its requests upward.
Numbered == \A h \in Hops : \A r \in relay[h].requests : r < relay[h].next

-----------------------------------------------------------------------------

\* What the constants are, as the proofs below use it.
LEMMA Constants == /\ N \in Nat \ {0} /\ MAX_MERCHANT_TOKENS \in Nat \ {0}
                   /\ Hops \subseteq Nodes /\ 0 \in Nodes /\ 1 \in Hops
  BY PaymentsAssumption DEF Hops, Nodes

\* all_receipts_received adds as many commands as payments are settled.
LEMMA Commanded ==
  ASSUME NEW s \in Seq(Commands), NEW n \in Nat
  PROVE  /\ s \o [i \in 1 .. n |-> "payment"] \in Seq(Commands)
         /\ Len(s \o [i \in 1 .. n |-> "payment"]) = Len(s) + n
         /\ \A j \in 1 .. Len(s) + n :
               (s \o [i \in 1 .. n |-> "payment"])[j] = IF j <= Len(s) THEN s[j] ELSE "payment"
<1> DEFINE t == [i \in 1 .. n |-> "payment"]
<1>1. t \in Seq(Commands) /\ Len(t) = n
  <2>1. t \in [1 .. n -> Commands]
    BY DEF Commands
  <2> QED BY <2>1
<1>2. \A j \in 1 .. n : t[j] = "payment"
  OBVIOUS
<1> HIDE DEF t
<1>3. /\ s \o t \in Seq(Commands) /\ Len(s \o t) = Len(s) + n
      /\ \A j \in 1 .. Len(s) + n : (s \o t)[j] = IF j <= Len(s) THEN s[j] ELSE t[j - Len(s)]
  BY <1>1, ConcatProperties, Zenon
<1>4. \A j \in 1 .. Len(s) + n : ~(j <= Len(s)) => t[j - Len(s)] = "payment"
  BY <1>2
<1>5. \A j \in 1 .. Len(s) + n : (s \o t)[j] = IF j <= Len(s) THEN s[j] ELSE "payment"
  BY <1>3, <1>4
<1> QED BY <1>3, <1>5 DEF t

\* What all_receipts_received leaves of a handler p: the settled payments no longer
\* wait, and unless the circuit is done there is one more command for each.
Settling(p) ==
    LET all == Settled(p, stream') IN
    /\ par' \in ParType
    /\ par'.started = p.started /\ par'.setupDone = p.setupDone /\ par'.done = p.done
    /\ par'.initialTokensAdded = p.initialTokensAdded /\ par'.broke = p.broke
    /\ par'.asked = p.asked /\ par'.queued = p.queued
    /\ par'.inflight = p.inflight /\ par'.credited = p.credited
    /\ par'.waiting = p.waiting \ all
    /\ all \subseteq p.waiting /\ IsFiniteSet(all) /\ Cardinality(all) \in Nat
    /\ tor' \in TorType
    /\ tor'.tokens = tor.tokens /\ tor'.replies = tor.replies
    /\ Len(tor'.cmds) = Len(tor.cmds) + (IF p.done THEN 0 ELSE Cardinality(all))
    /\ \A j \in 1 .. Len(tor'.cmds) :
          tor'.cmds[j] = "start" => j \in 1 .. Len(tor.cmds) /\ tor.cmds[j] = "start"

\* all_receipts_received settles the payment it is called for.
LEMMA ReceiptsStep ==
  ASSUME tor \in TorType, NEW p \in ParType, IsFiniteSet(p.waiting),
         AllReceiptsReceived(p, stream')
  PROVE  Settling(p)
<1> DEFINE all == Settled(p, stream')
<1>1. all \subseteq p.waiting
  BY DEF Settled
<1>2. IsFiniteSet(all) /\ Cardinality(all) \in Nat
  BY <1>1, FS_Subset, FS_CardinalityType
<1>3. par' = [p EXCEPT !.waiting = p.waiting \ all]
  BY DEF AllReceiptsReceived
<1>4. /\ par' \in ParType
      /\ par'.started = p.started /\ par'.setupDone = p.setupDone /\ par'.done = p.done
      /\ par'.initialTokensAdded = p.initialTokensAdded /\ par'.broke = p.broke
      /\ par'.asked = p.asked /\ par'.queued = p.queued
      /\ par'.inflight = p.inflight /\ par'.credited = p.credited
      /\ par'.waiting = p.waiting \ all
  <2> HIDE DEF all
  <2> QED BY <1>3 DEF ParType
<1>5. CASE p.done
  <2>1. tor' = tor
    BY <1>5 DEF AllReceiptsReceived
  <2>2. /\ tor' \in TorType /\ tor'.tokens = tor.tokens /\ tor'.replies = tor.replies
        /\ Len(tor'.cmds) = Len(tor.cmds) + 0
        /\ \A j \in 1 .. Len(tor'.cmds) :
              tor'.cmds[j] = "start" => j \in 1 .. Len(tor.cmds) /\ tor.cmds[j] = "start"
    BY <2>1 DEF TorType
  <2> QED BY <1>1, <1>2, <1>4, <1>5, <2>2 DEF Settling
<1>6. CASE ~p.done
  <2> DEFINE c == tor.cmds \o [i \in 1 .. Cardinality(all) |-> "payment"]
  <2>1. tor' = [tor EXCEPT !.cmds = c]
    BY <1>6 DEF AllReceiptsReceived
  <2>2. tor.cmds \in Seq(Commands)
    BY DEF TorType
  <2>3. /\ c \in Seq(Commands) /\ Len(c) = Len(tor.cmds) + Cardinality(all)
        /\ \A j \in 1 .. Len(tor.cmds) + Cardinality(all) :
              c[j] = IF j <= Len(tor.cmds) THEN tor.cmds[j] ELSE "payment"
    <3> HIDE DEF all
    <3> QED BY <1>2, <2>2, Commanded, Zenon
  <2> HIDE DEF c
  <2>4. tor'.cmds = c /\ tor' \in TorType /\ tor'.tokens = tor.tokens /\ tor'.replies = tor.replies
    BY <2>1, <2>3, Zenon DEF TorType
  <2>5. \A j \in 1 .. Len(c) : c[j] = "start" => j \in 1 .. Len(tor.cmds) /\ tor.cmds[j] = "start"
    BY <1>2, <2>2, <2>3
  <2> HIDE DEF all
  <2> QED BY <1>1, <1>2, <1>4, <1>6, <2>3, <2>4, <2>5 DEF all, Settling
<1> QED BY <1>5, <1>6

\* send_payment of one hop: with a merchant token the payment starts, and stays
\* expected if there was a coin; without one it waits.
Called(s, id) == [s EXCEPT !.deferreds = @ \cup {id}]

\* A payment stream that has been called is one, with the payment among its deferreds.
LEMMA CalledType ==
  ASSUME NEW s \in StreamType, NEW id \in Nat
  PROVE  /\ Called(s, id) \in StreamType
         /\ Called(s, id).deferreds = s.deferreds \cup {id}
         /\ Called(s, id).tokens = s.tokens
         /\ Called(s, id).pending = s.pending
         /\ Called(s, id).setupDone = s.setupDone
  BY Zenon DEF StreamType, Called

\* A payment that waits for tokens is at the end of the pending ones.
LEMMA PaymentWaits ==
  ASSUME NEW s \in StreamType, NEW id \in Nat, NEW t,
         t = [Called(s, id) EXCEPT !.pending = Append(@, id)]
  PROVE  /\ t \in StreamType /\ t.setupDone = s.setupDone
         /\ t.tokens = s.tokens /\ t.deferreds = s.deferreds \cup {id}
<1> DEFINE c == Called(s, id)
<1>1. t = [c EXCEPT !.pending = Append(c.pending, id)]
  OBVIOUS
<1>2. Append(c.pending, id) \in Seq(Nat)
  BY CalledType DEF StreamType
<1>3. /\ c \in StreamType /\ c.deferreds = s.deferreds \cup {id} /\ c.tokens = s.tokens
      /\ c.setupDone = s.setupDone
  BY CalledType
<1> HIDE DEF c
<1> QED BY <1>1, <1>2, <1>3, Zenon DEF StreamType

\* What send_payment_request does once the setup is done, hop by hop.
Starting == {h \in Hops : stream[h].tokens # {}}
Requesting(p) ==
    /\ p \in ParType
    /\ p.started = par.started /\ p.setupDone = par.setupDone /\ p.done = par.done
    /\ p.initialTokensAdded = par.initialTokensAdded
    /\ p.asked = par.asked + 1 /\ p.queued = par.queued
    /\ p.inflight = par.inflight + 1 /\ p.credited = par.credited
    /\ p.waiting = par.waiting \cup {par.asked}
Requested(token, paid, p) ==
    /\ par.setupDone /\ ~par.done /\ par.inflight < MAX_MERCHANT_TOKENS
    /\ paid \subseteq Starting
    /\ \A h \in Starting : token[h] \in stream[h].tokens
    /\ stream' \in [Hops -> StreamType]
    /\ \A h \in Hops :
         /\ stream'[h].setupDone = stream[h].setupDone
         /\ h \notin Starting =>
              stream'[h].tokens = {} /\ stream'[h].deferreds = stream[h].deferreds \cup {par.asked}
         /\ h \in Starting =>
              /\ stream'[h].tokens = stream[h].tokens \ {token[h]}
              /\ stream'[h].pending = stream[h].pending
              /\ stream'[h].deferreds = IF h \in paid THEN stream[h].deferreds \cup {par.asked}
                                        ELSE stream[h].deferreds \ {par.asked}
    /\ net' = net \cup {Message("bank_relay", h, par.asked, {token[h]}) : h \in paid}
    /\ Requesting(p) /\ (~p.broke => ~par.broke /\ paid = Starting)
    /\ Settling(p)
    /\ UNCHANGED <<relay, open>>

\* A circuit waits for finitely many receipts.
LEMMA FiniteWaiting == Types => IsFiniteSet(par.waiting)
<1> SUFFICES ASSUME Types PROVE IsFiniteSet(par.waiting)
  OBVIOUS
<1>1. par.asked - 1 \in Int
  BY DEF Types, ParType
<1>2. IsFiniteSet(0 .. par.asked - 1)
  BY <1>1, FS_Interval
<1> QED BY <1>2, FS_Subset, Zenon DEF Types

\* What token_level_event does, in one formula.
LEMMA RequestedStep ==
  ASSUME Types, TokenLevels, par.setupDone
  PROVE  \E token, paid, p : Requested(token, paid, p)
<1> DEFINE id == par.asked
<1>1. PICK token \in [Starting -> Requests], paid \in SUBSET Starting :
         /\ \A h \in Starting : token[h] \in stream[h].tokens
         /\ stream' = [h \in Hops |-> SendPayment(stream[h], id, token[h], h \in paid)]
         /\ net' = net \cup {Message("bank_relay", h, id, {token[h]}) : h \in paid}
         /\ AllReceiptsReceived([par EXCEPT !.asked = @ + 1, !.inflight = @ + 1,
                                   !.waiting = @ \cup {id}, !.broke = @ \/ paid # Starting],
                                [h \in Hops |-> SendPayment(stream[h], id, token[h], h \in paid)])
         /\ UNCHANGED <<relay, open>>
  BY Zenon DEF TokenLevels, SendPaymentRequest, Starting
<1> DEFINE b == par.broke \/ paid # Starting
           p == [par EXCEPT !.asked = @ + 1, !.inflight = @ + 1, !.waiting = @ \cup {id}, !.broke = b]
<1>2. b \in BOOLEAN /\ (~b => ~par.broke /\ paid = Starting)
  OBVIOUS
<1>3. Requesting(p) /\ p.broke = b
  <2> DEFINE a == par.asked + 1
             n == par.inflight + 1
             w == par.waiting \cup {id}
  <2>1. /\ p = [par EXCEPT !.asked = a, !.inflight = n, !.waiting = w, !.broke = b]
        /\ par \in ParType /\ a \in Nat /\ n \in Int /\ w \in SUBSET Nat
    BY DEF Types, ParType
  <2> HIDE DEF a, n, w, b, p
  <2>2. /\ p \in ParType
        /\ p.started = par.started /\ p.setupDone = par.setupDone /\ p.done = par.done
        /\ p.initialTokensAdded = par.initialTokensAdded
        /\ p.asked = a /\ p.queued = par.queued /\ p.inflight = n /\ p.credited = par.credited
        /\ p.waiting = w /\ p.broke = b
    BY <1>2, <2>1, Zenon DEF ParType
  <2> QED BY <2>2 DEF Requesting, a, n, w
<1>4. Settling(p)
  <2>1. AllReceiptsReceived(p, stream')
    BY <1>1
  <2> HIDE DEF p
  <2>2. IsFiniteSet(p.waiting)
    BY <1>3, FiniteWaiting, FS_AddElement, SMTT(30) DEF Requesting
  <2> QED BY <1>3, <2>1, <2>2, ReceiptsStep, Zenon DEF Types, Requesting
<1>5. ASSUME NEW h \in Hops
      PROVE  stream'[h] = IF stream[h].tokens = {}
                THEN [Called(stream[h], id) EXCEPT !.pending = Append(@, id)]
                ELSE [Called(stream[h], id) EXCEPT !.tokens = @ \ {token[h]},
                                          !.deferreds = IF h \in paid THEN @ ELSE @ \ {id}]
  BY <1>1, Zenon DEF SendPayment, Spend, Called
<1>6. \A h \in Hops : stream[h] \in StreamType /\ id \in Nat
  BY DEF Types, ParType
<1>7. ASSUME NEW h \in Hops
      PROVE  /\ stream'[h] \in StreamType
             /\ stream'[h].setupDone = stream[h].setupDone
             /\ h \notin Starting =>
                 stream'[h].tokens = {} /\ stream'[h].deferreds = stream[h].deferreds \cup {par.asked}
             /\ h \in Starting =>
                 /\ stream'[h].tokens = stream[h].tokens \ {token[h]}
                 /\ stream'[h].pending = stream[h].pending
                 /\ stream'[h].deferreds = IF h \in paid THEN stream[h].deferreds \cup {par.asked}
                                           ELSE stream[h].deferreds \ {par.asked}
  <2> DEFINE t == stream'[h]
             s == stream[h]
             k == token[h]
             d == IF h \in paid THEN Called(s, id).deferreds ELSE Called(s, id).deferreds \ {id}
  <2>1. s \in StreamType /\ id \in Nat /\ (h \in Starting <=> s.tokens # {})
    BY <1>6 DEF Starting
  <2>2. CASE s.tokens = {}
    <3>1. t = [Called(s, id) EXCEPT !.pending = Append(@, id)]
      BY <1>5, <2>2, Zenon
    <3> HIDE DEF t, s, id
    <3>2. /\ t \in StreamType /\ t.setupDone = s.setupDone
          /\ t.tokens = s.tokens /\ t.deferreds = s.deferreds \cup {id}
      BY <2>1, <3>1, PaymentWaits, ZenonT(60)
    <3> QED BY <2>1, <2>2, <3>2, SMTT(30) DEF t, s, id
  <2>3. CASE s.tokens # {}
    <3>1. t = [Called(s, id) EXCEPT !.tokens = @ \ {k}, !.deferreds = d]
      BY <1>5, <2>3, Zenon
    <3>2. d = IF h \in paid THEN s.deferreds \cup {id} ELSE s.deferreds \ {id}
      <4>1. Called(s, id).deferreds = s.deferreds \cup {id}
        <5> HIDE DEF s, id
        <5> QED BY <2>1, CalledType
      <4>2. (s.deferreds \cup {id}) \ {id} = s.deferreds \ {id}
        OBVIOUS
      <4> QED BY <4>1, <4>2
    <3>3. d \in SUBSET Nat
      BY <2>1, <3>2, Zenon DEF StreamType
    <3> HIDE DEF t, s, id, d, k
    <3>4. /\ t \in StreamType /\ t.setupDone = s.setupDone /\ t.pending = s.pending
          /\ t.tokens = s.tokens \ {k} /\ t.deferreds = d
      <4> DEFINE c == Called(s, id)
      <4>1. /\ c \in StreamType /\ c.tokens = s.tokens /\ c.pending = s.pending
            /\ c.setupDone = s.setupDone
        BY <2>1, CalledType
      <4>2. t = [c EXCEPT !.tokens = c.tokens \ {k}, !.deferreds = d]
        BY <3>1
      <4> HIDE DEF c
      <4>3. t \in StreamType /\ t.tokens = c.tokens \ {k} /\ t.deferreds = d
            /\ t.pending = c.pending /\ t.setupDone = c.setupDone
        BY <3>3, <4>1, <4>2, Zenon DEF StreamType
      <4> QED BY <4>1, <4>3
    <3> QED BY <2>1, <2>3, <3>2, <3>4 DEF t, s, k, id
  <2> QED BY <2>2, <2>3
<1>8. stream' \in [Hops -> StreamType]
  <2>1. stream' = [h \in Hops |-> stream'[h]]
    BY <1>1
  <2> QED BY <1>7, <2>1, Zenon
<1>9. ~par.done /\ par.inflight < MAX_MERCHANT_TOKENS
  BY DEF TokenLevels
<1>10. Requested(token, paid, p)
  <2> HIDE DEF id, p, b
  <2> QED BY <1>1, <1>2, <1>3, <1>4, <1>7, <1>8, <1>9, Zenon DEF Requested, id
<1> QED BY <1>10

\* What handle_receipt does: the new request joins the stock, or is used at once
\* for a payment that waited.
Receiving(p) ==
    /\ p \in ParType
    /\ p.started = par.started /\ p.setupDone = par.setupDone /\ p.done = par.done
    /\ p.initialTokensAdded = par.initialTokensAdded
    /\ p.asked = par.asked /\ p.queued = par.queued
    /\ p.inflight = par.inflight /\ p.credited = par.credited
    /\ p.waiting = par.waiting
    /\ par.broke => p.broke
Received(m, p) ==
    LET h == m.hop IN
    /\ m.type = "receipt"
    /\ stream' \in [Hops -> StreamType]
    /\ \A i \in Hops \ {h} : stream'[i] = stream[i]
    /\ stream'[h].setupDone = stream[h].setupDone
    /\ Receiving(p) /\ Settling(p)
    /\ UNCHANGED <<relay, open>>
    /\ \/ /\ stream[h].pending = <<>> /\ stream'[h].pending = <<>>
          /\ stream'[h].tokens = stream[h].tokens \cup m.reqs
          /\ stream'[h].deferreds = stream[h].deferreds \ {m.id}
          /\ net' = net \ {m}
       \/ /\ stream[h].pending # <<>>
          /\ stream'[h].deferreds \subseteq stream[h].deferreds
          /\ \E token \in stream[h].tokens \cup m.reqs :
               /\ stream'[h].tokens = (stream[h].tokens \cup m.reqs) \ {token}
               /\ net' \in {net \ {m},
                           (net \ {m}) \cup {Message("bank_relay", h, Head(stream[h].pending), {token})}}

\* What the handler of a receipt does.
LEMMA ReceivedStep ==
  ASSUME Types, NEW m \in net, HandleReceipt(m)
  PROVE  \E p : Received(m, p)
<1> DEFINE h == m.hop
           s == stream[h]
           f == [s EXCEPT !.tokens = @ \cup m.reqs]
           fired(t) == [stream EXCEPT ![h] = [t EXCEPT !.deferreds = @ \ {m.id}]]
<1>1. /\ h \in Hops /\ s \in StreamType /\ m.reqs \in SUBSET Nat
      /\ stream \in [Hops -> StreamType] /\ par \in ParType
  BY DEF Types, MessageType
<1>2. /\ f \in StreamType /\ f.tokens = s.tokens \cup m.reqs
      /\ f.pending = s.pending /\ f.deferreds = s.deferreds /\ f.setupDone = s.setupDone
  <2> HIDE DEF s
  <2> QED BY <1>1, Zenon DEF StreamType
<1>3. m.type = "receipt" /\ UNCHANGED <<relay, open>>
  BY Zenon DEF HandleReceipt
<1>4. ASSUME NEW t \in StreamType, stream' = fired(t)
      PROVE  /\ stream' \in [Hops -> StreamType]
             /\ \A i \in Hops \ {h} : stream'[i] = stream[i]
             /\ stream'[h].setupDone = t.setupDone /\ stream'[h].tokens = t.tokens
             /\ stream'[h].pending = t.pending /\ stream'[h].deferreds = t.deferreds \ {m.id}
  <2> DEFINE d == t.deferreds \ {m.id}
             u == [t EXCEPT !.deferreds = d]
  <2>1. d \in SUBSET Nat
    BY DEF StreamType
  <2>2. u \in StreamType /\ u.setupDone = t.setupDone /\ u.tokens = t.tokens
        /\ u.pending = t.pending /\ u.deferreds = d
    <3> HIDE DEF d
    <3> QED BY <2>1, ZenonT(30) DEF StreamType
  <2>3. stream' = [stream EXCEPT ![h] = u]
    BY <1>4
  <2> HIDE DEF u, d, h
  <2> QED BY <1>1, <2>2, <2>3 DEF d
<1>5. CASE s.pending = <<>>
  <2>1. stream' = fired(f) /\ net' = net \ {m} /\ AllReceiptsReceived(par, fired(f))
    BY <1>5, <1>2, Zenon DEF HandleReceipt, ReadPaymentTokens
  <2>2. Settling(par)
    <3>1. AllReceiptsReceived(par, stream')
      BY <2>1
    <3> QED BY <1>1, <3>1, FiniteWaiting, ReceiptsStep DEF Types
  <2>3. Receiving(par)
    BY <1>1 DEF Receiving
  <2>4. /\ stream' \in [Hops -> StreamType]
        /\ \A i \in Hops \ {h} : stream'[i] = stream[i]
        /\ stream'[h].setupDone = f.setupDone /\ stream'[h].tokens = f.tokens
        /\ stream'[h].pending = f.pending /\ stream'[h].deferreds = f.deferreds \ {m.id}
    <3> HIDE DEF f, h
    <3> QED BY <1>2, <1>4, <2>1, ZenonT(30)
  <2>5. Received(m, par)
    <3> HIDE DEF f
    <3> QED BY <1>2, <1>3, <1>5, <2>1, <2>2, <2>3, <2>4 DEF Received
  <2> QED BY <2>5
<1>6. CASE s.pending # <<>>
  <2> DEFINE g == [f EXCEPT !.pending = Tail(@)]
             id == Head(f.pending)
             paid == coins > 0
  <2>1. PICK token \in f.tokens :
          /\ stream' = fired(Spend(g, id, token, paid))
          /\ net' = (net \ {m}) \cup
                      Sent(par, IF paid THEN {Message("bank_relay", h, id, {token})} ELSE {})
          /\ AllReceiptsReceived([par EXCEPT !.broke = @ \/ ~paid],
                                 fired(Spend(g, id, token, paid)))
    BY <1>6, <1>2, Zenon DEF HandleReceipt, ReadPaymentTokens
  <2> DEFINE b == par.broke \/ ~paid
             p == [par EXCEPT !.broke = b]
             t == Spend(g, id, token, paid)
  <2>2. Tail(f.pending) \in Seq(Nat)
    <3> HIDE DEF f, s
    <3> QED BY <1>2, <1>6 DEF StreamType
  <2>3. g \in StreamType /\ g.tokens = f.tokens /\ g.deferreds = f.deferreds /\ g.setupDone = f.setupDone
    <3> HIDE DEF f
    <3> QED BY <1>2, <2>2, Zenon DEF StreamType
  <2>4. t \in StreamType /\ t.tokens = g.tokens \ {token} /\ t.deferreds \subseteq g.deferreds
        /\ t.setupDone = g.setupDone
    <3> DEFINE d == IF paid THEN g.deferreds ELSE g.deferreds \ {id}
    <3>1. t = [g EXCEPT !.tokens = g.tokens \ {token}, !.deferreds = d]
      BY DEF Spend
    <3>2. d \in SUBSET Nat /\ d \subseteq g.deferreds
      <4> HIDE DEF g
      <4> QED BY <2>3 DEF StreamType
    <3> HIDE DEF t, g, d
    <3> QED BY <2>3, <3>1, <3>2, Zenon DEF StreamType
  <2>5. b \in BOOLEAN /\ (par.broke => b)
    OBVIOUS
  <2>6. Receiving(p)
    <3> HIDE DEF b
    <3> QED BY <1>1, <2>5 DEF ParType, Receiving
  <2>7. Settling(p)
    <3>1. AllReceiptsReceived(p, stream')
      BY <2>1, Zenon
    <3> HIDE DEF p
    <3>2. IsFiniteSet(p.waiting)
      BY <2>6, FiniteWaiting DEF Receiving
    <3> QED BY <2>6, <3>1, <3>2, ReceiptsStep, Zenon DEF Types, Receiving
  <2>8. /\ stream' \in [Hops -> StreamType]
        /\ \A i \in Hops \ {h} : stream'[i] = stream[i]
        /\ stream'[h].setupDone = t.setupDone /\ stream'[h].tokens = t.tokens
        /\ stream'[h].pending = t.pending /\ stream'[h].deferreds = t.deferreds \ {m.id}
    <3>1. stream' = fired(t)
      BY <2>1, ZenonT(30)
    <3> HIDE DEF t, h
    <3> QED BY <1>4, <2>4, <3>1, ZenonT(30)
  <2>9. net' \in {net \ {m}, (net \ {m}) \cup {Message("bank_relay", h, id, {token})}}
    BY <2>1, Zenon DEF Sent
  <2>10. Received(m, p)
    <3> HIDE DEF f, g, t, p, b, paid
    <3> QED BY <1>2, <1>3, <1>6, <2>3, <2>4, <2>6, <2>7, <2>8, <2>9, ZenonT(30) DEF Received
  <2> QED BY <2>10
<1> QED BY <1>5, <1>6

-----------------------------------------------------------------------------
(***************************************************************************)
(* What the other steps do, field by field.                                *)
(***************************************************************************)
\* What no step but send_payment_request and the setup changes in the handler.
SamePar ==
    /\ par' \in ParType
    /\ par'.asked = par.asked /\ par'.queued = par.queued /\ par'.broke = par.broke

Began ==
    /\ ~par.started /\ SamePar
    /\ par'.started /\ par'.setupDone = par.setupDone /\ par'.done = par.done
    /\ par'.initialTokensAdded = par.initialTokensAdded
    /\ par'.inflight = par.inflight + 1 /\ par'.credited = par.credited
    /\ par'.waiting = par.waiting
    /\ net' = net \cup {Message("setup", h, 0, {}) : h \in Hops}
    /\ UNCHANGED <<stream, relay, open, tor>>

Stopped ==
    /\ SamePar
    /\ par'.started = par.started /\ par'.setupDone = par.setupDone /\ par'.done
    /\ par'.initialTokensAdded = par.initialTokensAdded
    /\ par'.inflight = par.inflight /\ par'.credited = par.credited
    /\ par'.waiting \subseteq par.waiting
    /\ UNCHANGED <<stream, relay, open, net, tor>>

\* handle_setup; n is the first number of the new requests
Offered(m) ==
    LET h == m.hop
        new == relay[h].next .. relay[h].next + MAX_MERCHANT_TOKENS - 1
    IN
    /\ m.type = "setup"
    /\ relay' \in [Hops -> RelayType]
    /\ \A i \in Hops \ {h} : relay'[i] = relay[i]
    /\ relay'[h].requests = relay[h].requests \cup new
    /\ relay'[h].next = relay[h].next + MAX_MERCHANT_TOKENS
    /\ relay'[h].tokens = relay[h].tokens + 1
    /\ net' = (net \ {m}) \cup {Message("setup_reply", h, 0, new)}
    /\ UNCHANGED <<par, stream, open, tor>>

\* handle_setup_reply
Accepted(m) ==
    LET h == m.hop IN
    /\ m.type = "setup_reply"
    /\ stream' \in [Hops -> StreamType]
    /\ \A i \in Hops \ {h} : stream'[i] = stream[i]
    /\ stream'[h].setupDone /\ stream'[h].tokens = stream[h].tokens \cup m.reqs
    /\ stream'[h].deferreds = stream[h].deferreds /\ stream'[h].pending = stream[h].pending
    /\ net' = net \ {m}
    /\ UNCHANGED <<relay, open>>
    /\ \/ UNCHANGED <<par, tor>>
       \/ /\ \A i \in Hops : stream'[i].setupDone
          /\ par' \in ParType /\ par'.asked = par.asked /\ par'.broke = par.broke
          /\ par'.queued = 0 /\ par'.setupDone
          /\ par'.started = par.started /\ par'.done = par.done
          /\ par'.initialTokensAdded = par.initialTokensAdded
          /\ par'.inflight = par.inflight /\ par'.credited = par.credited
          /\ par'.waiting = par.waiting
          /\ tor' \in TorType /\ tor'.tokens = tor.tokens /\ tor'.replies = tor.replies
          /\ tor'.cmds = Append(tor.cmds, "start")

\* The bank's answer goes on to the hop.
Forwarded(m) ==
    /\ m.type = "bank_relay"
    /\ \E type \in {"payment", "refusal"} :
          net' = (net \ {m}) \cup {Message(type, m.hop, m.id, m.reqs)}
    /\ UNCHANGED <<par, stream, relay, open, tor>>

\* handle_payment keeps the coin.
Paid(m) ==
    LET h == m.hop IN
    /\ m.type \in {"bank_relay", "payment", "refusal"}
    /\ relay' \in [Hops -> RelayType]
    /\ \A i \in Hops \ {h} : relay'[i] = relay[i]
    /\ relay'[h].requests = (relay[h].requests \ m.reqs) \cup {relay[h].next}
    /\ relay'[h].next = relay[h].next + 1
    /\ relay'[h].tokens = relay[h].tokens + 1
    /\ net' = (net \ {m}) \cup {Message("receipt", h, m.id, {relay[h].next})}
    /\ UNCHANGED <<par, stream, open, tor>>

\* A payment is lost, or a circuit is closed.
Lost ==
    /\ \/ UNCHANGED net
       \/ \E m \in net : m.type \in {"bank_relay", "payment", "refusal"} /\ net' = net \ {m}
    /\ open' \in [Nodes -> BOOLEAN]
    /\ \A n \in Nodes : open'[n] => open[n]
    /\ UNCHANGED <<par, stream, relay, tor>>

Answered ==
    /\ tor.cmds # <<>>
    /\ tor' \in TorType
    /\ tor'.cmds = Tail(tor.cmds)
    /\ tor'.tokens \in {tor.tokens, tor.tokens + 1}
    /\ \E ok \in BOOLEAN :
          tor'.replies = Append(tor.replies, [cmd |-> Head(tor.cmds), ok |-> ok])
    /\ UNCHANGED <<par, stream, relay, open, net>>

Credited ==
    /\ tor.replies # <<>>
    /\ tor' \in TorType /\ tor'.tokens = tor.tokens /\ tor'.cmds = tor.cmds
    /\ tor'.replies = Tail(tor.replies)
    /\ SamePar
    /\ par'.started = par.started /\ par'.setupDone = par.setupDone /\ par'.done = par.done
    /\ par'.waiting = par.waiting
    /\ par'.initialTokensAdded => par.initialTokensAdded \/ Head(tor.replies).cmd = "start"
    /\ \/ par'.inflight = par.inflight /\ par'.credited = par.credited
       \/ par'.inflight = par.inflight - 1 /\ par'.credited = par.credited + 1
    /\ UNCHANGED <<stream, relay, open, net>>

Effect ==
    \/ Began \/ Stopped \/ Lost \/ Answered \/ Credited
    \/ \E token, paid, p : Requested(token, paid, p)
    \/ \E m \in net : \/ Offered(m) \/ Accepted(m) \/ Forwarded(m) \/ Paid(m)
                       \/ \E p : Received(m, p)

\* What send_setup_message does.
LEMMA BeganStep == Types /\ SendSetupMessage => Began
<1> SUFFICES ASSUME Types, SendSetupMessage PROVE Began
  OBVIOUS
<1>1. par \in ParType /\ par' = [par EXCEPT !.started = TRUE, !.inflight = par.inflight + 1]
  BY DEF Types, SendSetupMessage
<1>2. ~par.started /\ net' = net \cup {Message("setup", h, 0, {}) : h \in Hops}
      /\ UNCHANGED <<stream, relay, open, tor>>
  BY DEF SendSetupMessage
<1>3. /\ SamePar /\ par'.started /\ par'.setupDone = par.setupDone /\ par'.done = par.done
      /\ par'.initialTokensAdded = par.initialTokensAdded
      /\ par'.inflight = par.inflight + 1 /\ par'.credited = par.credited
      /\ par'.waiting = par.waiting
  <2> DEFINE n == par.inflight + 1
  <2>1. n \in Int /\ par' = [par EXCEPT !.started = TRUE, !.inflight = n]
    BY <1>1 DEF ParType
  <2> HIDE DEF n
  <2>2. /\ SamePar /\ par'.started /\ par'.setupDone = par.setupDone /\ par'.done = par.done
        /\ par'.initialTokensAdded = par.initialTokensAdded
        /\ par'.inflight = n /\ par'.credited = par.credited
        /\ par'.waiting = par.waiting
    BY <1>1, <2>1, Zenon DEF SamePar, ParType
  <2> QED BY <2>2 DEF n
<1> QED BY <1>2, <1>3 DEF Began

\* What a timeout or a closed circuit does.
LEMMA StoppedStep ==
  Types /\ (SetupTimeout \/ CircuitClosed \/ \E id \in Ids : PaymentTimeout(id)) => Stopped
<1> SUFFICES ASSUME Types, SetupTimeout \/ CircuitClosed \/ \E id \in Ids : PaymentTimeout(id)
             PROVE Stopped
  OBVIOUS
<1>1. par \in ParType
  BY DEF Types
<1>2. CASE SetupTimeout \/ CircuitClosed
  BY <1>1, <1>2, Zenon DEF SetupTimeout, CircuitClosed, Stopped, SamePar, ParType
<1>3. CASE \E id \in Ids : PaymentTimeout(id)
  <2>1. PICK id \in Ids : PaymentTimeout(id)
    BY <1>3
  <2>2. par' = [par EXCEPT !.waiting = par.waiting \ {id}, !.done = TRUE]
        /\ UNCHANGED <<stream, relay, open, net, tor>>
    BY <2>1, Zenon DEF PaymentTimeout
  <2> QED BY <1>1, <2>2, Zenon DEF Stopped, SamePar, ParType
<1> QED BY <1>2, <1>3

\* What a relay does with a setup message.
LEMMA OfferedStep == ASSUME Types, NEW m \in net, HandleSetup(m) PROVE Offered(m)
<1> DEFINE h == m.hop
           new == relay[h].next .. relay[h].next + MAX_MERCHANT_TOKENS - 1
           r == [requests |-> relay[h].requests \cup new,
                 next |-> relay[h].next + MAX_MERCHANT_TOKENS, tokens |-> relay[h].tokens + 1]
<1>1. h \in Hops /\ relay \in [Hops -> RelayType] /\ relay[h].next \in Nat
      /\ relay[h].tokens \in Nat /\ relay[h].requests \in SUBSET Nat
      /\ MAX_MERCHANT_TOKENS \in Nat
  BY Constants DEF Types, MessageType, RelayType
<1>2. {relay[h].next + i : i \in 0 .. MAX_MERCHANT_TOKENS - 1} = new
  <2> DEFINE n == relay[h].next
  <2>1. n \in Nat
    BY <1>1
  <2> HIDE DEF n
  <2>2. ASSUME NEW x \in n .. n + MAX_MERCHANT_TOKENS - 1
        PROVE  x \in {n + i : i \in 0 .. MAX_MERCHANT_TOKENS - 1}
    <3>1. x - n \in 0 .. MAX_MERCHANT_TOKENS - 1 /\ x = n + (x - n)
      BY <1>1, <2>1
    <3> QED BY <3>1
  <2>3. \A i \in 0 .. MAX_MERCHANT_TOKENS - 1 : n + i \in n .. n + MAX_MERCHANT_TOKENS - 1
    BY <1>1, <2>1
  <2>4. {n + i : i \in 0 .. MAX_MERCHANT_TOKENS - 1} = n .. n + MAX_MERCHANT_TOKENS - 1
    BY <2>2, <2>3
  <2> QED BY <2>4 DEF n
<1>3. relay' = [relay EXCEPT ![h] = r] /\ m.type = "setup"
      /\ net' = (net \ {m}) \cup {Message("setup_reply", h, 0, new)}
      /\ UNCHANGED <<par, stream, open, tor>>
  BY <1>2, Zenon DEF HandleSetup
<1>4. new \in SUBSET Nat
  BY <1>1
<1>5. r \in RelayType
  <2> DEFINE q == relay[h].requests \cup new
             n == relay[h].next + MAX_MERCHANT_TOKENS
             k == relay[h].tokens + 1
  <2>1. q \in SUBSET Nat /\ n \in Nat /\ k \in Nat /\ r = [requests |-> q, next |-> n, tokens |-> k]
    BY <1>1, <1>4
  <2> HIDE DEF q, n, k, r
  <2> QED BY <2>1 DEF RelayType
<1>6. /\ relay' \in [Hops -> RelayType]
      /\ \A i \in Hops \ {h} : relay'[i] = relay[i]
      /\ relay'[h] = r
  <2> HIDE DEF r, h
  <2> QED BY <1>1, <1>3, <1>5
<1>7. r.requests = relay[h].requests \cup new /\ r.next = relay[h].next + MAX_MERCHANT_TOKENS
      /\ r.tokens = relay[h].tokens + 1
  BY DEF r
<1> QED
  <2> HIDE DEF r
  <2> QED BY <1>3, <1>6, <1>7 DEF Offered

\* What the client does with the answer to a setup message.
LEMMA AcceptedStep == ASSUME Types, NEW m \in net, HandleSetupReply(m) PROVE Accepted(m)
<1> DEFINE h == m.hop
           s == stream[h]
           t == [ReadPaymentTokens(s, m.reqs) EXCEPT !.setupDone = TRUE]
<1>1. h \in Hops /\ stream \in [Hops -> StreamType] /\ s \in StreamType /\ m.reqs \in SUBSET Nat
      /\ par \in ParType /\ tor \in TorType
  BY DEF Types, MessageType
<1>2. stream' = [stream EXCEPT ![h] = t] /\ m.type = "setup_reply" /\ net' = net \ {m}
      /\ UNCHANGED <<relay, open>>
  BY DEF HandleSetupReply
<1>3. /\ t \in StreamType /\ t.setupDone /\ t.tokens = s.tokens \cup m.reqs
      /\ t.deferreds = s.deferreds /\ t.pending = s.pending
  <2> DEFINE u == s.tokens \cup m.reqs
  <2>1. t = [[s EXCEPT !.tokens = u] EXCEPT !.setupDone = TRUE] /\ u \in SUBSET Nat
    BY <1>1 DEF ReadPaymentTokens, StreamType
  <2> HIDE DEF t, s, u
  <2>2. t \in StreamType /\ t.setupDone /\ t.tokens = u
        /\ t.deferreds = s.deferreds /\ t.pending = s.pending
    BY <1>1, <2>1, Zenon DEF StreamType
  <2> QED BY <2>2 DEF u
<1>4. /\ stream' \in [Hops -> StreamType]
      /\ \A i \in Hops \ {h} : stream'[i] = stream[i]
      /\ stream'[h] = t
  <2> HIDE DEF t, h
  <2> QED BY <1>1, <1>2, <1>3
<1>5. \/ UNCHANGED <<par, tor>>
      \/ /\ \A i \in Hops : stream'[i].setupDone
         /\ par' = [par EXCEPT !.setupDone = TRUE, !.queued = 0]
         /\ tor' = [tor EXCEPT !.cmds = Append(tor.cmds, "start")]
  BY <1>2 DEF HandleSetupReply
<1>6. CASE UNCHANGED <<par, tor>>
  <2> HIDE DEF t
  <2> QED BY <1>2, <1>3, <1>4, <1>6, SMTT(30) DEF Accepted
<1>7. CASE /\ \A i \in Hops : stream'[i].setupDone
           /\ par' = [par EXCEPT !.setupDone = TRUE, !.queued = 0]
           /\ tor' = [tor EXCEPT !.cmds = Append(tor.cmds, "start")]
  <2>1. /\ par' \in ParType /\ par'.asked = par.asked /\ par'.broke = par.broke
        /\ par'.queued = 0 /\ par'.setupDone
        /\ par'.started = par.started /\ par'.done = par.done
        /\ par'.initialTokensAdded = par.initialTokensAdded
        /\ par'.inflight = par.inflight /\ par'.credited = par.credited
        /\ par'.waiting = par.waiting
    BY <1>1, <1>7, Zenon DEF ParType
  <2>2. tor' \in TorType /\ tor'.tokens = tor.tokens /\ tor'.replies = tor.replies
        /\ tor'.cmds = Append(tor.cmds, "start")
    <3> DEFINE c == Append(tor.cmds, "start")
    <3>1. c \in Seq(Commands)
      BY <1>1 DEF TorType, Commands
    <3>2. tor' = [tor EXCEPT !.cmds = c]
      BY <1>7
    <3> HIDE DEF c
    <3>3. tor' \in TorType /\ tor'.tokens = tor.tokens /\ tor'.replies = tor.replies /\ tor'.cmds = c
      BY <1>1, <3>1, <3>2 DEF TorType
    <3> QED BY <3>3 DEF c
  <2> HIDE DEF t
  <2>3. \A i \in Hops : stream'[i].setupDone
    BY <1>7
  <2> QED BY <1>2, <1>3, <1>4, <2>1, <2>2, <2>3 DEF Accepted
<1> QED BY <1>5, <1>6, <1>7

\* What a relay does with a payment.
LEMMA HandlePaymentStep ==
  ASSUME Types, NEW m \in net, m.type \in {"bank_relay", "payment", "refusal"},
         NEW ok, HandlePayment(m, ok), UNCHANGED <<par, stream, tor>>
  PROVE  Paid(m) \/ Lost
<1> DEFINE h == m.hop
           n == relay[h].next
<1>1. h \in Hops /\ h \in Nodes /\ relay \in [Hops -> RelayType] /\ n \in Nat
      /\ relay[h].tokens \in Nat /\ relay[h].requests \in SUBSET Nat
      /\ open \in [Nodes -> BOOLEAN]
  BY Constants DEF Types, MessageType, RelayType
<1>2. \/ /\ relay' = [relay EXCEPT ![h] = [requests |-> (relay[h].requests \ m.reqs) \cup {n},
                                          next |-> n + 1, tokens |-> relay[h].tokens + 1]]
         /\ net' = (net \ {m}) \cup {Message("receipt", h, m.id, {n})}
         /\ UNCHANGED open
      \/ open' = [open EXCEPT ![h] = FALSE] /\ net' = net \ {m} /\ UNCHANGED relay
  BY SMTT(30) DEF HandlePayment
<1>3. ASSUME open' = [open EXCEPT ![h] = FALSE], net' = net \ {m}, UNCHANGED relay
      PROVE  Lost
  BY <1>1, <1>3, ZenonT(30) DEF Lost
<1>4. ASSUME relay' = [relay EXCEPT ![h] = [requests |-> (relay[h].requests \ m.reqs) \cup {n},
                                          next |-> n + 1, tokens |-> relay[h].tokens + 1]],
             net' = (net \ {m}) \cup {Message("receipt", h, m.id, {n})}, UNCHANGED open
      PROVE  Paid(m)
  <2> DEFINE q == (relay[h].requests \ m.reqs) \cup {n}
             x == n + 1
             k == relay[h].tokens + 1
             r == [requests |-> q, next |-> x, tokens |-> k]
  <2>1. q \in SUBSET Nat /\ x \in Nat /\ k \in Nat
    BY <1>1
  <2>2. r \in RelayType /\ r.requests = q /\ r.next = x /\ r.tokens = k
    <3> HIDE DEF q, x, k
    <3> QED BY <2>1 DEF RelayType
  <2>3. /\ relay' \in [Hops -> RelayType]
        /\ \A i \in Hops \ {h} : relay'[i] = relay[i]
        /\ relay'[h] = r
    <3>1. relay' = [relay EXCEPT ![h] = r]
      BY <1>4
    <3> HIDE DEF r, h
    <3> QED BY <1>1, <2>2, <3>1
  <2> HIDE DEF r
  <2> QED BY <1>4, <2>2, <2>3 DEF Paid
<1> QED BY <1>2, <1>3, <1>4

\* What the answer of the bank, the arrival of a payment and a proxy that gives up do.
LEMMA BankStep ==
  ASSUME Types, NEW m \in net,
         \/ BankAnswers(m, TRUE) \/ BankAnswers(m, FALSE) \/ PaymentArrives(m) \/ ProxyGivesUp(m)
  PROVE  Forwarded(m) \/ Paid(m) \/ Lost
<1>1. CASE PaymentArrives(m)
  <2>1. CASE m.type = "payment"
    BY <1>1, <2>1, HandlePaymentStep DEF PaymentArrives
  <2>2. CASE m.type = "refusal"
    BY <1>1, <2>2, HandlePaymentStep DEF PaymentArrives
  <2> QED BY <1>1, <2>1, <2>2 DEF PaymentArrives
<1>2. CASE ProxyGivesUp(m)
  BY <1>2 DEF ProxyGivesUp, Lost, Types
<1>3. ASSUME BankAnswers(m, TRUE) PROVE Forwarded(m) \/ Paid(m) \/ Lost
  <2>1. CASE m.hop = 1
    BY <1>3, <2>1, HandlePaymentStep, ZenonT(30) DEF BankAnswers
  <2>2. CASE m.hop # 1
    BY <1>3, <2>2 DEF BankAnswers, Forwarded
  <2> QED BY <2>1, <2>2
<1>4. ASSUME BankAnswers(m, FALSE) PROVE Forwarded(m) \/ Paid(m) \/ Lost
  <2>1. CASE m.hop = 1
    BY <1>4, <2>1, HandlePaymentStep, Zenon DEF BankAnswers
  <2>2. CASE m.hop # 1
    BY <1>4, <2>2 DEF BankAnswers, Forwarded
  <2> QED BY <2>1, <2>2
<1> QED BY <1>1, <1>2, <1>3, <1>4, Zenon

\* What tor does when it is told to add tokens.
LEMMA AnsweredStep == Types /\ TorAddsTokens => Answered
<1> SUFFICES ASSUME Types, TorAddsTokens PROVE Answered
  OBVIOUS
<1> DEFINE n == tor.tokens + (IF open[0] THEN 1 ELSE 0)
           c == Tail(tor.cmds)
           ok == open[0]
           a == [cmd |-> Head(tor.cmds), ok |-> ok]
           r == Append(tor.replies, a)
<1>1. tor' = [tokens |-> n, cmds |-> c, replies |-> r] /\ tor.cmds # <<>>
      /\ UNCHANGED <<par, stream, relay, open, net>>
  BY DEF TorAddsTokens
<1>2. tor.cmds \in Seq(Commands) /\ tor.replies \in Seq([cmd : Commands, ok : BOOLEAN])
      /\ tor.tokens \in Nat /\ ok \in BOOLEAN
  BY Constants DEF Types, TorType
<1>3. n \in Nat /\ n \in {tor.tokens, tor.tokens + 1}
  BY <1>2
<1>4. c \in Seq(Commands) /\ Head(tor.cmds) \in Commands
  BY <1>1, <1>2
<1>5. a \in [cmd : Commands, ok : BOOLEAN]
  <2> HIDE DEF ok
  <2> QED BY <1>2, <1>4
<1>6. r \in Seq([cmd : Commands, ok : BOOLEAN])
  <2> HIDE DEF a
  <2> QED BY <1>2, <1>5
<1>7. tor' \in TorType /\ tor'.cmds = c /\ tor'.tokens = n /\ tor'.replies = r
  <2> HIDE DEF n, c, r
  <2> QED BY <1>1, <1>3, <1>4, <1>6, Zenon DEF TorType
<1>8. \E x \in BOOLEAN : tor'.replies = Append(tor.replies, [cmd |-> Head(tor.cmds), ok |-> x])
  <2> HIDE DEF ok
  <2> QED BY <1>2, <1>7
<1> HIDE DEF n, r
<1> QED BY <1>1, <1>3, <1>7, <1>8, Zenon DEF Answered

\* What the client does when tor has added them.
LEMMA CreditedStep == Types /\ TokensAdded => Credited
<1> SUFFICES ASSUME Types, TokensAdded PROVE Credited
  OBVIOUS
<1> DEFINE r == Head(tor.replies)
           c == Tail(tor.replies)
<1>1. tor.replies # <<>> /\ tor' = [tor EXCEPT !.replies = c]
      /\ UNCHANGED <<stream, relay, open, net>>
  BY DEF TokensAdded
<1>2. par \in ParType /\ tor \in TorType
  BY DEF Types
<1>3. c \in Seq([cmd : Commands, ok : BOOLEAN])
  <2>1. tor.replies \in Seq([cmd : Commands, ok : BOOLEAN])
    BY <1>2 DEF TorType
  <2> QED BY <1>1, <2>1
<1>4. tor' \in TorType /\ tor'.tokens = tor.tokens /\ tor'.cmds = tor.cmds /\ tor'.replies = c
  <2> HIDE DEF c
  <2> QED BY <1>1, <1>2, <1>3, Zenon DEF TorType
<1>5. CASE r.cmd = "start" \/ r.ok
  <2> DEFINE b == par.initialTokensAdded \/ r.cmd = "start"
             n == par.inflight - 1
             k == par.credited + 1
  <2>1. par' = [par EXCEPT !.initialTokensAdded = b, !.inflight = n, !.credited = k]
    BY <1>5 DEF TokensAdded
  <2>2. b \in BOOLEAN /\ (b => par.initialTokensAdded \/ r.cmd = "start")
    OBVIOUS
  <2>3. n \in Int /\ k \in Nat
    BY <1>2 DEF ParType
  <2>4. /\ SamePar
        /\ par'.started = par.started /\ par'.setupDone = par.setupDone /\ par'.done = par.done
        /\ par'.waiting = par.waiting /\ par'.initialTokensAdded = b
        /\ par'.inflight = n /\ par'.credited = k
    <3> HIDE DEF b, n, k
    <3> QED BY <1>2, <2>1, <2>2, <2>3, Zenon DEF SamePar, ParType
  <2> HIDE DEF b
  <2> QED BY <1>1, <1>4, <2>2, <2>4, Zenon DEF Credited
<1>6. CASE ~(r.cmd = "start" \/ r.ok)
  <2>1. par' = par
    BY <1>6 DEF TokensAdded
  <2> QED BY <1>1, <1>2, <1>4, <2>1, ZenonT(30) DEF Credited, SamePar
<1> QED BY <1>5, <1>6

-----------------------------------------------------------------------------
(***************************************************************************)
(* The setup of the circuit.                                               *)
(***************************************************************************)
OfSetup == {"setup", "setup_reply"}

\* One setup message or reply is under way to each hop that has not answered; before
\* a hop's answer its stream is empty; no payment is asked for before the last one.
SettingUp ==
    /\ \A m \in net : m.type \in OfSetup =>
          /\ par.started /\ ~stream[m.hop].setupDone
          /\ \A k \in net : k.type \in OfSetup /\ k.hop = m.hop => k = m
    /\ \A m \in net : m.type \notin OfSetup => stream[m.hop].setupDone
    /\ \A h \in Hops :
          /\ stream[h].setupDone => par.started
          /\ par.setupDone => stream[h].setupDone
          /\ ~stream[h].setupDone =>
                stream[h].tokens = {} /\ stream[h].deferreds = {} /\ stream[h].pending = <<>>
    /\ ~par.setupDone => par.asked = 0
    /\ par.queued = 0
    /\ par.initialTokensAdded => par.setupDone
    /\ \A j \in 1 .. Len(tor.cmds) : tor.cmds[j] = "start" => par.setupDone
    /\ \A j \in 1 .. Len(tor.replies) : tor.replies[j].cmd = "start" => par.setupDone

\* Every step has one of the effects: the later proofs go through those.
LEMMA Effects == Types /\ SettingUp /\ [Next]_vars => Effect
<1> SUFFICES ASSUME Types, SettingUp, [Next]_vars PROVE Effect
  OBVIOUS
<1>1. CASE SendSetupMessage
  BY <1>1, BeganStep, Zenon DEF Effect
<1>2. CASE SetupTimeout \/ CircuitClosed \/ \E id \in Ids : PaymentTimeout(id)
  BY <1>2, StoppedStep DEF Effect
<1>3. CASE TokenLevels
  <2>1. par.setupDone
    BY <1>3 DEF TokenLevels, SettingUp
  <2> QED BY <1>3, <2>1, RequestedStep DEF Effect
<1>4. CASE TorAddsTokens
  BY <1>4, AnsweredStep DEF Effect
<1>5. CASE TokensAdded
  BY <1>5, CreditedStep, Zenon DEF Effect
<1>6. CASE CoinArrives \/ UNCHANGED vars
  <2>1. UNCHANGED <<par, stream, relay, open, net, tor>>
    BY <1>6 DEF CoinArrives, vars
  <2> QED BY <2>1 DEF Effect, Lost, Types
<1>7. ASSUME NEW n \in Nodes, TorCloses(n) PROVE Effect
  BY <1>7 DEF Effect, Lost, Types, TorCloses
<1>8. ASSUME NEW m \in net, HandleSetup(m) PROVE Effect
  BY <1>8, OfferedStep DEF Effect
<1>9. ASSUME NEW m \in net, HandleSetupReply(m) PROVE Effect
  BY <1>9, AcceptedStep DEF Effect
<1>10. ASSUME NEW m \in net, BankAnswers(m, TRUE) \/ BankAnswers(m, FALSE)
                             \/ PaymentArrives(m) \/ ProxyGivesUp(m)
       PROVE  Effect
  BY <1>10, BankStep, Zenon DEF Effect
<1>11. ASSUME NEW m \in net, HandleReceipt(m) PROVE Effect
  BY <1>11, ReceivedStep DEF Effect
<1> QED BY <1>1, <1>2, <1>3, <1>4, <1>5, <1>6, <1>7, <1>8, <1>9, <1>10, <1>11, ZenonT(30) DEF Next

=============================================================================

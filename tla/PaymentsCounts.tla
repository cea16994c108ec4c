--------------------------- MODULE PaymentsCounts ---------------------------
(***************************************************************************)
(* The parts of the inductive invariant that count: types, the setup, the  *)
(* merchant tokens of a hop, the payments under way, and what follows as   *)
(* long as the wallet had a coin for every payment.                        *)
(***************************************************************************)
EXTENDS PaymentsEffects

-----------------------------------------------------------------------------
(***************************************************************************)
(* The types.                                                              *)
(***************************************************************************)
\* The types are kept.
LEMMA TypesStep == Types /\ Effect => Types'
<1> SUFFICES ASSUME Types, Effect PROVE Types'
  OBVIOUS
<1> USE Constants
<1>0. /\ par \in ParType /\ stream \in [Hops -> StreamType] /\ relay \in [Hops -> RelayType]
      /\ open \in [Nodes -> BOOLEAN] /\ net \in SUBSET MessageType /\ tor \in TorType
      /\ par.waiting \subseteq 0 .. par.asked - 1
      /\ \A h \in Hops : stream[h].deferreds \subseteq 0 .. par.asked - 1
  BY DEF Types
<1>a. ASSUME NEW t \in {"setup", "setup_reply", "bank_relay", "payment", "refusal", "receipt"},
             NEW h \in Hops, NEW i \in Nat, NEW q \in SUBSET Nat
      PROVE  Message(t, h, i, q) \in MessageType
  BY DEF Message, MessageType
<1>b. \A m \in net : m.hop \in Hops /\ m.id \in Nat /\ m.reqs \in SUBSET Nat
  BY <1>0 DEF MessageType
<1>c. \A h \in Hops : relay[h].next \in Nat /\ stream[h].tokens \in SUBSET Nat
                      /\ stream[h].pending \in Seq(Nat) /\ stream[h].deferreds \in SUBSET Nat
  BY <1>0 DEF RelayType, StreamType
<1>1. CASE Began
  <2>1. \A h \in Hops : Message("setup", h, 0, {}) \in MessageType
    BY <1>a
  <2> QED BY <1>0, <1>1, <2>1 DEF Began, SamePar, Types
<1>2. CASE Stopped
  BY <1>0, <1>2 DEF Stopped, SamePar, Types
<1>3. CASE Lost
  BY <1>0, <1>3 DEF Lost, Types
<1>4. CASE Answered
  BY <1>0, <1>4 DEF Answered, Types
<1>5. CASE Credited
  BY <1>0, <1>5 DEF Credited, SamePar, Types
<1>6. ASSUME NEW m \in net, Offered(m) PROVE Types'
  <2> DEFINE new == relay[m.hop].next .. relay[m.hop].next + MAX_MERCHANT_TOKENS - 1
  <2>1. new \in SUBSET Nat
    BY <1>b, <1>c
  <2>2. Message("setup_reply", m.hop, 0, new) \in MessageType
    <3> HIDE DEF new
    <3> QED BY <1>a, <1>b, <2>1
  <2>3. net' = (net \ {m}) \cup {Message("setup_reply", m.hop, 0, new)}
        /\ relay' \in [Hops -> RelayType] /\ UNCHANGED <<par, stream, open, tor>>
    BY <1>6 DEF Offered
  <2> HIDE DEF new
  <2> QED BY <1>0, <2>2, <2>3 DEF Types
<1>7. ASSUME NEW m \in net, Accepted(m) PROVE Types'
  <2>1. \A h \in Hops : stream'[h].deferreds = stream[h].deferreds
    BY <1>7 DEF Accepted
  <2>2. par' \in ParType /\ par'.waiting = par.waiting /\ par'.asked = par.asked /\ tor' \in TorType
    BY <1>0, <1>7 DEF Accepted
  <2>3. stream' \in [Hops -> StreamType] /\ net' = net \ {m} /\ UNCHANGED <<relay, open>>
    BY <1>7 DEF Accepted
  <2> QED BY <1>0, <2>1, <2>2, <2>3 DEF Types
<1>8. ASSUME NEW m \in net, Forwarded(m) PROVE Types'
  <2>1. PICK type \in {"payment", "refusal"} :
          net' = (net \ {m}) \cup {Message(type, m.hop, m.id, m.reqs)}
    BY <1>8 DEF Forwarded
  <2>2. Message(type, m.hop, m.id, m.reqs) \in MessageType
    BY <1>a, <1>b
  <2> QED BY <1>0, <1>8, <2>1, <2>2 DEF Forwarded, Types
<1>9. ASSUME NEW m \in net, Paid(m) PROVE Types'
  <2>1. Message("receipt", m.hop, m.id, {relay[m.hop].next}) \in MessageType
    BY <1>a, <1>b, <1>c
  <2> QED BY <1>0, <1>9, <2>1 DEF Paid, Types
<1>10. ASSUME NEW m \in net, NEW p, Received(m, p) PROVE Types'
  <2>1. m.hop \in Hops
    BY <1>b
  <2>2. stream'[m.hop].deferreds \subseteq stream[m.hop].deferreds
    BY <1>10 DEF Received
  <2>3. \A i \in Hops : stream'[i].deferreds \subseteq stream[i].deferreds
    BY <1>10, <2>2 DEF Received
  <2>4. net' \in SUBSET MessageType
    <3>1. CASE net' = net \ {m}
      BY <1>0, <3>1
    <3>2. CASE net' # net \ {m}
      <4>1. PICK token \in stream[m.hop].tokens \cup m.reqs :
              net' = (net \ {m}) \cup {Message("bank_relay", m.hop, Head(stream[m.hop].pending), {token})}
        BY <1>10, <3>2, ZenonT(30) DEF Received
      <4>2. stream[m.hop].pending # <<>>
        BY <1>10, <3>2 DEF Received
      <4>3. Head(stream[m.hop].pending) \in Nat
        BY <1>c, <2>1, <4>2
      <4>4. {token} \in SUBSET Nat
        BY <1>b, <1>c, <2>1
      <4> QED BY <1>0, <1>a, <2>1, <4>1, <4>3, <4>4, SMTT(30)
    <3> QED BY <3>1, <3>2
  <2>5. /\ stream' \in [Hops -> StreamType] /\ UNCHANGED <<relay, open>>
        /\ par' \in ParType /\ par'.asked = par.asked /\ par'.waiting \subseteq par.waiting
        /\ tor' \in TorType
    BY <1>10 DEF Received, Receiving, Settling
  <2> QED BY <1>0, <2>3, <2>4, <2>5 DEF Types
<1>11. ASSUME NEW token, NEW paid, NEW p, Requested(token, paid, p) PROVE Types'
  <2>1. par' \in ParType /\ par'.asked = par.asked + 1
        /\ par'.waiting \subseteq par.waiting \cup {par.asked} /\ tor' \in TorType
        /\ stream' \in [Hops -> StreamType] /\ UNCHANGED <<relay, open>>
    BY <1>11 DEF Requested, Requesting, Settling
  <2>2. \A h \in Hops : stream'[h].deferreds \subseteq stream[h].deferreds \cup {par.asked}
    <3> SUFFICES ASSUME NEW h \in Hops
                 PROVE  stream'[h].deferreds \subseteq stream[h].deferreds \cup {par.asked}
      OBVIOUS
    <3>1. CASE h \in Starting
      <4>1. stream'[h].deferreds = IF h \in paid THEN stream[h].deferreds \cup {par.asked}
                                   ELSE stream[h].deferreds \ {par.asked}
        BY <1>11, <3>1, Zenon DEF Requested
      <4> QED BY <4>1
    <3>2. CASE h \notin Starting
      <4>1. stream'[h].deferreds = stream[h].deferreds \cup {par.asked}
        BY <1>11, <3>2, Zenon DEF Requested
      <4> QED BY <4>1
    <3> QED BY <3>1, <3>2
  <2>3. par.asked \in Nat
    BY <1>0 DEF ParType
  <2>4. net' \in SUBSET MessageType
    <3>1. \A h \in paid : h \in Hops /\ {token[h]} \in SUBSET Nat
      BY <1>11, <1>c DEF Requested, Starting
    <3>2. \A h \in paid : Message("bank_relay", h, par.asked, {token[h]}) \in MessageType
      BY <1>a, <2>3, <3>1
    <3>3. net' = net \cup {Message("bank_relay", h, par.asked, {token[h]}) : h \in paid}
      BY <1>11 DEF Requested
    <3> QED BY <1>0, <3>2, <3>3, Zenon
  <2>5. par'.waiting \subseteq 0 .. par'.asked - 1
    BY <1>0, <2>1, <2>3
  <2>6. \A h \in Hops : stream'[h].deferreds \subseteq 0 .. par'.asked - 1
    BY <1>0, <2>1, <2>2, <2>3
  <2> QED BY <1>0, <2>1, <2>4, <2>5, <2>6 DEF Types
<1> QED BY <1>1, <1>2, <1>3, <1>4, <1>5, <1>6, <1>7, <1>8, <1>9, <1>10, <1>11, SMTT(30) DEF Effect

\* The setup proceeds in order.
LEMMA SettingUpStep == Types /\ SettingUp /\ Effect => SettingUp'
<1> SUFFICES ASSUME Types, SettingUp, Effect PROVE SettingUp'
  OBVIOUS
<1>0. /\ net \in SUBSET MessageType /\ tor.cmds \in Seq(Commands)
      /\ tor.replies \in Seq([cmd : Commands, ok : BOOLEAN])
  BY DEF Types, TorType
<1>a. \A m \in net : m.hop \in Hops
  BY <1>0 DEF MessageType
<1>1. CASE Began
  <2>1. \A h \in Hops : ~stream[h].setupDone
    BY <1>1 DEF Began, SettingUp
  <2>2. \A m \in net : m.type \notin OfSetup
    BY <1>1 DEF Began, SettingUp
  <2>3. \A m \in net' : m.type \in OfSetup => m.hop \in Hops /\ m = Message("setup", m.hop, 0, {})
    BY <1>1, <2>2 DEF Began, Message
  <2>4. \A m \in net' : m.type \in OfSetup =>
          /\ par'.started /\ ~stream'[m.hop].setupDone
          /\ \A k \in net' : k.type \in OfSetup /\ k.hop = m.hop => k = m
    BY <1>1, <2>1, <2>3 DEF Began
  <2>5. \A m \in net' : m.type \in OfSetup
    <3>1. net = {}
      BY <1>a, <2>1, <2>2 DEF SettingUp
    <3> QED BY <1>1, <3>1 DEF Began, Message, OfSetup
  <2> QED BY <1>1, <2>4, <2>5 DEF Began, SamePar, SettingUp
<1>2. CASE Stopped
  BY <1>2 DEF Stopped, SamePar, SettingUp
<1>3. CASE Lost
  <2>1. net' \subseteq net
    BY <1>3 DEF Lost
  <2> QED BY <1>3, <2>1 DEF Lost, SettingUp
<1>4. CASE Answered
  <2>1. PICK ok \in BOOLEAN : tor'.replies = Append(tor.replies, [cmd |-> Head(tor.cmds), ok |-> ok])
    BY <1>4 DEF Answered
  <2>2. tor'.cmds = Tail(tor.cmds) /\ tor.cmds # <<>>
    BY <1>4 DEF Answered
  <2>3. \A j \in 1 .. Len(tor'.cmds) : tor'.cmds[j] = tor.cmds[j + 1] /\ j + 1 \in 1 .. Len(tor.cmds)
    BY <1>0, <2>2
  <2>4. \A j \in 1 .. Len(tor'.cmds) : tor'.cmds[j] = "start" => par.setupDone
    BY <2>3 DEF SettingUp
  <2>5. Head(tor.cmds) = "start" => par.setupDone
    BY <1>0, <2>2 DEF SettingUp
  <2>6. \A j \in 1 .. Len(tor'.replies) : tor'.replies[j].cmd = "start" => par.setupDone
    <3> DEFINE a == [cmd |-> Head(tor.cmds), ok |-> ok]
    <3>1. a.cmd = Head(tor.cmds) /\ tor'.replies = Append(tor.replies, a)
      BY <2>1
    <3> HIDE DEF a
    <3>2. \A j \in 1 .. Len(tor'.replies) :
             tor'.replies[j] = a \/ (j \in 1 .. Len(tor.replies) /\ tor'.replies[j] = tor.replies[j])
      BY <1>0, <3>1
    <3> QED BY <2>5, <3>1, <3>2 DEF SettingUp
  <2>7. UNCHANGED <<par, stream, net>>
    BY <1>4 DEF Answered
  <2> QED BY <2>4, <2>6, <2>7 DEF SettingUp
<1>5. CASE Credited
  <2>1. tor'.replies = Tail(tor.replies) /\ tor.replies # <<>> /\ tor'.cmds = tor.cmds
    BY <1>5 DEF Credited
  <2>2. \A j \in 1 .. Len(tor'.replies) :
           tor'.replies[j] = tor.replies[j + 1] /\ j + 1 \in 1 .. Len(tor.replies)
    BY <1>0, <2>1
  <2>3. \A j \in 1 .. Len(tor'.replies) : tor'.replies[j].cmd = "start" => par.setupDone
    BY <2>2 DEF SettingUp
  <2>4. Head(tor.replies).cmd = "start" => par.setupDone
    BY <1>0, <2>1 DEF SettingUp
  <2> QED BY <1>5, <2>1, <2>3, <2>4 DEF Credited, SamePar, SettingUp
<1>6. ASSUME NEW m \in net, Offered(m) PROVE SettingUp'
  <2> DEFINE r == Message("setup_reply", m.hop, 0,
                     relay[m.hop].next .. relay[m.hop].next + MAX_MERCHANT_TOKENS - 1)
  <2>1. r.type = "setup_reply" /\ r.hop = m.hop
    BY DEF Message
  <2>2. m.type = "setup" /\ net' = (net \ {m}) \cup {r} /\ UNCHANGED <<par, stream, tor>>
    BY <1>6 DEF Offered
  <2> HIDE DEF r
  <2>3. \A k \in net' : k.type \in OfSetup =>
          /\ par'.started /\ ~stream'[k.hop].setupDone
          /\ \A l \in net' : l.type \in OfSetup /\ l.hop = k.hop => l = k
    BY <2>1, <2>2 DEF SettingUp, OfSetup
  <2>4. \A k \in net' : k.type \notin OfSetup => stream'[k.hop].setupDone
    BY <2>1, <2>2 DEF SettingUp, OfSetup
  <2> QED BY <2>2, <2>3, <2>4 DEF SettingUp
<1>7. ASSUME NEW m \in net, Accepted(m) PROVE SettingUp'
  <2>1. par.started /\ m.type \in OfSetup /\ m.hop \in Hops
    BY <1>7, <1>a DEF SettingUp, Accepted, OfSetup
  <2>2. \A k \in net' : k \in net /\ (k.type \in OfSetup => k.hop # m.hop)
    BY <1>7, <2>1 DEF SettingUp, Accepted
  <2>3. \A i \in Hops \ {m.hop} : stream'[i] = stream[i]
    BY <1>7 DEF Accepted
  <2>4. stream'[m.hop].setupDone
    BY <1>7 DEF Accepted
  <2>5. ~par.setupDone
    BY <2>1 DEF SettingUp
  <2>6. /\ par'.started = par.started /\ par'.asked = par.asked /\ par'.queued = 0
        /\ par'.initialTokensAdded = par.initialTokensAdded
        /\ par'.setupDone => \A i \in Hops : stream'[i].setupDone
    BY <1>7, <2>5 DEF Accepted, SettingUp
  <2>7. /\ \A j \in 1 .. Len(tor'.cmds) : tor'.cmds[j] = "start" => par'.setupDone
        /\ \A j \in 1 .. Len(tor'.replies) : tor'.replies[j].cmd = "start" => par'.setupDone
    BY <1>7 DEF Accepted, SettingUp
  <2>8. \A k \in net' : k.type \in OfSetup =>
          /\ par'.started /\ ~stream'[k.hop].setupDone
          /\ \A l \in net' : l.type \in OfSetup /\ l.hop = k.hop => l = k
    BY <1>a, <2>2, <2>3, <2>6, ZenonT(30) DEF SettingUp
  <2>9. \A h \in Hops :
          /\ stream'[h].setupDone => par'.started
          /\ par'.setupDone => stream'[h].setupDone
          /\ ~stream'[h].setupDone =>
                stream'[h].tokens = {} /\ stream'[h].deferreds = {} /\ stream'[h].pending = <<>>
    BY <2>1, <2>3, <2>4, <2>6 DEF SettingUp
  <2>10. ~par'.setupDone => par'.asked = 0
    BY <2>5, <2>6 DEF SettingUp
  <2>11. par'.initialTokensAdded => par'.setupDone
    BY <2>5, <2>6 DEF SettingUp
  <2>12. \A k \in net' : k.type \notin OfSetup => stream'[k.hop].setupDone
    BY <1>a, <2>2, <2>3, <2>4 DEF SettingUp
  <2> QED BY <2>6, <2>7, <2>8, <2>9, <2>10, <2>11, <2>12, ZenonT(30) DEF SettingUp
<1>8. ASSUME NEW m \in net, Forwarded(m) PROVE SettingUp'
  <2>1. \A k \in net' : k.type \in OfSetup => k \in net
    BY <1>8 DEF Forwarded, Message, OfSetup
  <2>2. \A k \in net' : k.type \notin OfSetup => stream[k.hop].setupDone
    BY <1>8 DEF Forwarded, Message, OfSetup, SettingUp
  <2> QED BY <1>8, <2>1, <2>2 DEF Forwarded, SettingUp
<1>9. ASSUME NEW m \in net, Paid(m) PROVE SettingUp'
  <2>1. \A k \in net' : k.type \in OfSetup => k \in net
    BY <1>9 DEF Paid, Message, OfSetup
  <2>2. \A k \in net' : k.type \notin OfSetup => stream[k.hop].setupDone
    BY <1>9 DEF Paid, Message, OfSetup, SettingUp
  <2> QED BY <1>9, <2>1, <2>2, ZenonT(30) DEF Paid, SettingUp
<1>10. ASSUME NEW m \in net, NEW p, Received(m, p) PROVE SettingUp'
  <2>1. \A k \in net' : k.type \in OfSetup => k \in net
    BY <1>10, SMTT(30) DEF Received, Message, OfSetup
  <2>2. m.hop \in Hops /\ \A i \in Hops \ {m.hop} : stream'[i] = stream[i]
    BY <1>10, <1>a, Zenon DEF Received
  <2>3. /\ par'.started = par.started /\ par'.asked = par.asked /\ par'.queued = par.queued
        /\ par'.initialTokensAdded = par.initialTokensAdded /\ par'.setupDone = par.setupDone
        /\ tor'.replies = tor.replies
        /\ \A j \in 1 .. Len(tor'.cmds) :
              tor'.cmds[j] = "start" => j \in 1 .. Len(tor.cmds) /\ tor.cmds[j] = "start"
    BY <1>10, Zenon DEF Received, Receiving, Settling
  <2>4. stream'[m.hop].setupDone = stream[m.hop].setupDone
    BY <1>10, Zenon DEF Received
  <2>5. stream[m.hop].setupDone
    BY <1>10, Zenon DEF Received, OfSetup, SettingUp
  <2>6. \A k \in net' : k.type \notin OfSetup => k \in net \/ k.hop = m.hop
    BY <1>10 DEF Received, Message
  <2>7. \A h \in Hops :
          /\ stream'[h].setupDone = stream[h].setupDone
          /\ ~stream'[h].setupDone => stream'[h] = stream[h]
    BY <2>2, <2>4, <2>5, Zenon
  <2>8. /\ \A k \in net' : k.type \in OfSetup =>
             /\ par'.started /\ ~stream'[k.hop].setupDone
             /\ \A l \in net' : l.type \in OfSetup /\ l.hop = k.hop => l = k
        /\ \A k \in net' : k.type \notin OfSetup => stream'[k.hop].setupDone
    BY <1>a, <2>1, <2>3, <2>4, <2>5, <2>6, <2>7, ZenonT(30) DEF SettingUp
  <2> QED BY <2>3, <2>7, <2>8, ZenonT(30) DEF SettingUp
<1>11. ASSUME NEW token, NEW paid, NEW p, Requested(token, paid, p) PROVE SettingUp'
  <2>1. \A h \in Hops : stream'[h].setupDone = stream[h].setupDone
    BY <1>11, Zenon DEF Requested
  <2>2. par.setupDone /\ \A h \in Hops : stream[h].setupDone
    BY <1>11, ZenonT(30) DEF Requested, SettingUp
  <2>3. /\ par'.started = par.started /\ par'.queued = par.queued
        /\ par'.initialTokensAdded = par.initialTokensAdded /\ par'.setupDone = par.setupDone
        /\ tor'.replies = tor.replies
        /\ \A j \in 1 .. Len(tor'.cmds) :
              tor'.cmds[j] = "start" => j \in 1 .. Len(tor.cmds) /\ tor.cmds[j] = "start"
    BY <1>11 DEF Requested, Requesting, Settling
  <2>4. \A k \in net' : k \in net \/ (k.type = "bank_relay" /\ k.hop \in Hops)
    <3>1. net' = net \cup {Message("bank_relay", h, par.asked, {token[h]}) : h \in paid}
          /\ paid \subseteq Hops
      BY <1>11 DEF Requested, Starting
    <3> QED BY <3>1 DEF Message
  <2>5. \A k \in net' : k.type \notin OfSetup /\ stream'[k.hop].setupDone
    BY <1>a, <2>1, <2>2, <2>4 DEF SettingUp, OfSetup
  <2> QED BY <2>1, <2>2, <2>3, <2>5, Zenon DEF SettingUp
<1> QED BY <1>1, <1>2, <1>3, <1>4, <1>5, <1>6, <1>7, <1>8, <1>9, <1>10, <1>11, ZenonT(30) DEF Effect

-----------------------------------------------------------------------------
(***************************************************************************)
(* Merchant tokens.                                                        *)
(***************************************************************************)
\* RequestsKnown, said of all messages.
Stocked ==
    /\ Numbered
    /\ \A h \in Hops : stream[h].tokens \subseteq relay[h].requests
    /\ \A m \in net : /\ m.reqs \subseteq relay[m.hop].requests
                      /\ m.reqs \cap stream[m.hop].tokens = {}
    /\ \A m, k \in net : m # k /\ m.hop = k.hop => m.reqs \cap k.reqs = {}

\* A merchant token moves between the stock and the messages, and a relay's new
\* requests have new numbers.
LEMMA StockedStep == Types /\ Stocked /\ Effect => Stocked'
<1> SUFFICES ASSUME Types, Stocked, Effect PROVE Stocked'
  OBVIOUS
<1>0. /\ \A m \in net : m.hop \in Hops /\ m.reqs \in SUBSET Nat
      /\ \A h \in Hops : relay[h].next \in Nat /\ relay[h].requests \in SUBSET Nat
      /\ MAX_MERCHANT_TOKENS \in Nat \ {0}
  BY Constants DEF Types, MessageType, RelayType
<1>1. CASE Began
  <2>1. UNCHANGED <<stream, relay>>
    BY <1>1 DEF Began
  <2>2. \A m \in net' : m \in net \/ (m.hop \in Hops /\ m.reqs = {})
    BY <1>1 DEF Began, Message
  <2> QED BY <2>1, <2>2 DEF Stocked, Numbered
<1>2. CASE Stopped \/ Answered \/ Credited
  BY <1>2 DEF Stopped, Answered, Credited, Stocked, Numbered
<1>3. CASE Lost
  <2>1. net' \subseteq net
    BY <1>3 DEF Lost
  <2> QED BY <1>3, <2>1 DEF Lost, Stocked, Numbered
<1>4. ASSUME NEW m \in net, Offered(m) PROVE Stocked'
  <2> DEFINE h == m.hop
             new == relay[h].next .. relay[h].next + MAX_MERCHANT_TOKENS - 1
             r == Message("setup_reply", h, 0, new)
  <2>1. r.hop = h /\ r.reqs = new
    BY DEF Message
  <2>2. /\ net' = (net \ {m}) \cup {r} /\ UNCHANGED stream
        /\ relay'[h].requests = relay[h].requests \cup new
        /\ relay'[h].next = relay[h].next + MAX_MERCHANT_TOKENS
        /\ \A i \in Hops \ {h} : relay'[i] = relay[i]
    BY <1>4 DEF Offered
  <2>3. \A x \in new : x >= relay[h].next /\ x < relay[h].next + MAX_MERCHANT_TOKENS
    BY <1>0
  <2>4. new \cap relay[h].requests = {}
    BY <1>0, <2>3 DEF Stocked, Numbered
  <2>5. Numbered'
    <3> SUFFICES ASSUME NEW i \in Hops, NEW x \in relay'[i].requests PROVE x < relay'[i].next
      BY DEF Numbered
    <3>1. CASE i # h
      BY <2>2, <3>1 DEF Stocked, Numbered
    <3>2. CASE i = h /\ x \in new
      BY <2>2, <2>3, <3>2, SMTT(30)
    <3>3. CASE i = h /\ x \in relay[h].requests
      <4>1. x < relay[h].next /\ x \in Nat
        BY <1>0, <3>3 DEF Stocked, Numbered
      <4> QED BY <1>0, <2>2, <3>3, <4>1, SMTT(30)
    <3> QED BY <2>2, <3>1, <3>2, <3>3
  <2> HIDE DEF new, r
  <2>6. \A i \in Hops : relay[i].requests \subseteq relay'[i].requests
    BY <2>2
  <2>7. \A i \in Hops : stream'[i].tokens \subseteq relay'[i].requests
    BY <2>2, <2>6 DEF Stocked
  <2>8. \A k \in net' : k.reqs \subseteq relay'[k.hop].requests /\ k.reqs \cap stream'[k.hop].tokens = {}
    BY <1>0, <2>1, <2>2, <2>4, <2>6, SMTT(30) DEF Stocked
  <2>9. \A k, l \in net' : k # l /\ k.hop = l.hop => k.reqs \cap l.reqs = {}
    BY <1>0, <2>1, <2>2, <2>4 DEF Stocked
  <2> QED BY <2>5, <2>7, <2>8, <2>9, SMTT(30) DEF Stocked
<1>5. ASSUME NEW m \in net, Accepted(m) PROVE Stocked'
  <2>1. /\ net' = net \ {m} /\ UNCHANGED relay
        /\ stream'[m.hop].tokens = stream[m.hop].tokens \cup m.reqs
        /\ \A i \in Hops \ {m.hop} : stream'[i] = stream[i]
    BY <1>5 DEF Accepted
  <2> QED BY <1>0, <2>1 DEF Stocked, Numbered
<1>6. ASSUME NEW m \in net, Forwarded(m) PROVE Stocked'
  <2>1. PICK r : r.hop = m.hop /\ r.reqs = m.reqs /\ net' = (net \ {m}) \cup {r}
    BY <1>6, Zenon DEF Forwarded, Message
  <2>2. UNCHANGED <<stream, relay>>
    BY <1>6 DEF Forwarded
  <2> QED BY <1>0, <2>1, <2>2 DEF Stocked, Numbered
<1>7. ASSUME NEW m \in net, Paid(m) PROVE Stocked'
  <2> DEFINE h == m.hop
             n == relay[h].next
             r == Message("receipt", h, m.id, {n})
  <2>1. r.hop = h /\ r.reqs = {n}
    BY DEF Message
  <2>2. /\ net' = (net \ {m}) \cup {r} /\ UNCHANGED stream
        /\ relay'[h].requests = (relay[h].requests \ m.reqs) \cup {n}
        /\ relay'[h].next = n + 1
        /\ \A i \in Hops \ {h} : relay'[i] = relay[i]
    BY <1>7 DEF Paid
  <2>3. n \in Nat /\ n \notin relay[h].requests /\ h \in Hops
    BY <1>0 DEF Stocked, Numbered
  <2> HIDE DEF r
  <2>4. Numbered'
    BY <1>0, <2>2, <2>3 DEF Stocked, Numbered
  <2>5. \A i \in Hops : stream'[i].tokens \subseteq relay'[i].requests
    BY <2>2 DEF Stocked
  <2>6. \A k \in net' : k.reqs \subseteq relay'[k.hop].requests /\ k.reqs \cap stream'[k.hop].tokens = {}
    BY <1>0, <2>1, <2>2, <2>3 DEF Stocked
  <2>7. \A k, l \in net' : k # l /\ k.hop = l.hop => k.reqs \cap l.reqs = {}
    BY <1>0, <2>1, <2>2, <2>3 DEF Stocked
  <2> QED BY <2>4, <2>5, <2>6, <2>7 DEF Stocked
<1>8. ASSUME NEW m \in net, NEW p, Received(m, p) PROVE Stocked'
  <2> DEFINE h == m.hop
  <2>1. \A i \in Hops \ {h} : stream'[i] = stream[i]
    BY <1>8 DEF Received
  <2>2. UNCHANGED relay
    BY <1>8 DEF Received
  <2>3. CASE net' = net \ {m} /\ stream'[h].tokens \subseteq stream[h].tokens \cup m.reqs
    BY <1>0, <2>1, <2>2, <2>3 DEF Stocked, Numbered
  <2>4. CASE ~(net' = net \ {m} /\ stream'[h].tokens \subseteq stream[h].tokens \cup m.reqs)
    <3>1. PICK token \in stream[h].tokens \cup m.reqs :
             /\ stream'[h].tokens = (stream[h].tokens \cup m.reqs) \ {token}
             /\ net' = (net \ {m}) \cup {Message("bank_relay", h, Head(stream[h].pending), {token})}
      BY <1>8, <2>4, Zenon DEF Received
    <3>2. PICK r : r.hop = h /\ r.reqs = {token} /\ net' = (net \ {m}) \cup {r}
      BY <3>1, Zenon DEF Message
    <3>3. \A i \in Hops : stream'[i].tokens \subseteq relay'[i].requests
      BY <1>0, <2>1, <2>2, <3>1, ZenonT(30) DEF Stocked
    <3>4. \A k \in net' : k.reqs \subseteq relay'[k.hop].requests /\ k.reqs \cap stream'[k.hop].tokens = {}
      BY <1>0, <2>1, <2>2, <3>1, <3>2, SMTT(30) DEF Stocked
    <3>5. \A k, l \in net' : k # l /\ k.hop = l.hop => k.reqs \cap l.reqs = {}
      BY <1>0, <3>1, <3>2, SMTT(30) DEF Stocked
    <3> QED BY <2>2, <3>3, <3>4, <3>5, SMTT(30) DEF Stocked, Numbered
  <2> QED BY <2>3, <2>4, ZenonT(30)
<1>9. ASSUME NEW token, NEW paid, NEW p, Requested(token, paid, p) PROVE Stocked'
  <2>1. /\ UNCHANGED relay /\ paid \subseteq Starting /\ Starting \subseteq Hops
        /\ net' = net \cup {Message("bank_relay", h, par.asked, {token[h]}) : h \in paid}
        /\ \A h \in Starting : token[h] \in stream[h].tokens
    BY <1>9 DEF Requested, Starting
  <2>2. \A m \in net' : m \in net \/ (m.hop \in paid /\ m.reqs = {token[m.hop]}
                                      /\ m = Message("bank_relay", m.hop, par.asked, {token[m.hop]}))
    BY <2>1 DEF Message
  <2>3. \A h \in Hops : /\ stream'[h].tokens \subseteq stream[h].tokens
                        /\ h \in paid => token[h] \notin stream'[h].tokens
    <3> SUFFICES ASSUME NEW h \in Hops
                 PROVE  /\ stream'[h].tokens \subseteq stream[h].tokens
                        /\ h \in paid => token[h] \notin stream'[h].tokens
      OBVIOUS
    <3>1. CASE h \in Starting
      <4>1. stream'[h].tokens = stream[h].tokens \ {token[h]}
        BY <1>9, <3>1, Zenon DEF Requested
      <4> QED BY <4>1
    <3>2. CASE h \notin Starting
      <4>1. stream'[h].tokens = {}
        BY <1>9, <3>2, ZenonT(30) DEF Requested
      <4> QED BY <4>1
    <3> QED BY <3>1, <3>2
  <2>4. \A h \in Hops : stream'[h].tokens \subseteq relay'[h].requests
    BY <2>1, <2>3 DEF Stocked
  <2>a. \A h \in paid : h \in Hops /\ token[h] \in stream[h].tokens /\ token[h] \notin stream'[h].tokens
    BY <2>1, <2>3
  <2>b. UNCHANGED relay
    BY <2>1
  <2>5. \A m \in net' : m.reqs \subseteq relay'[m.hop].requests /\ m.reqs \cap stream'[m.hop].tokens = {}
    <3> SUFFICES ASSUME NEW m \in net'
                 PROVE  m.reqs \subseteq relay[m.hop].requests /\ m.reqs \cap stream'[m.hop].tokens = {}
      BY <2>b
    <3>1. CASE m \in net
      BY <1>0, <2>3, <3>1 DEF Stocked
    <3>2. CASE m.hop \in paid /\ m.reqs = {token[m.hop]}
      BY <2>a, <3>2 DEF Stocked
    <3> QED BY <2>2, <3>1, <3>2, Zenon
  <2>6. ASSUME NEW m \in net', NEW k \in net', m # k, m.hop = k.hop PROVE m.reqs \cap k.reqs = {}
    <3>1. CASE m \in net /\ k \in net
      BY <2>6, <3>1 DEF Stocked
    <3>2. CASE m \notin net /\ k \notin net
      BY <2>2, <2>6, <3>2, Zenon
    <3>3. CASE m \in net /\ k \notin net
      <4>1. k.hop \in paid /\ k.reqs = {token[m.hop]} /\ token[m.hop] \in stream[m.hop].tokens
        BY <2>2, <2>6, <2>a, <3>3, Zenon
      <4> QED BY <3>3, <4>1 DEF Stocked
    <3>4. CASE m \notin net /\ k \in net
      <4>1. m.hop \in paid /\ m.reqs = {token[k.hop]} /\ token[k.hop] \in stream[k.hop].tokens
        BY <2>2, <2>6, <2>a, <3>4, Zenon
      <4> QED BY <3>4, <4>1 DEF Stocked
    <3> QED BY <3>1, <3>2, <3>3, <3>4
  <2> QED BY <2>1, <2>4, <2>5, <2>6, ZenonT(30) DEF Stocked, Numbered
<1> QED BY <1>1, <1>2, <1>3, <1>4, <1>5, <1>6, <1>7, <1>8, <1>9, ZenonT(30) DEF Effect

-----------------------------------------------------------------------------
(***************************************************************************)
(* The payments under way.                                                 *)
(***************************************************************************)
\* What is in flight covers the payments that wait for receipts, the commands and
\* replies under way, and the setup; a receipt is expected only for a payment that
\* waits.
Counted ==
    /\ NoneForgotten
    /\ Cardinality(par.waiting) + Len(tor.cmds) + Len(tor.replies)
         + (IF par.started /\ ~par.setupDone THEN 1 ELSE 0) <= par.inflight
    /\ ~par.done => \A h \in Hops : stream[h].deferreds \subseteq par.waiting

\* A subset of a finite set is finite and no larger.
LEMMA Shrinking ==
  ASSUME NEW S, IsFiniteSet(S), NEW T, T \subseteq S
  PROVE  /\ IsFiniteSet(T) /\ Cardinality(T) \in Nat /\ Cardinality(S) \in Nat
         /\ Cardinality(T) <= Cardinality(S)
         /\ IsFiniteSet(S \ T) /\ Cardinality(S \ T) = Cardinality(S) - Cardinality(T)
<1>1. IsFiniteSet(T) /\ Cardinality(T) <= Cardinality(S)
  BY FS_Subset
<1>2. S \cap T = T
  OBVIOUS
<1>3. IsFiniteSet(S \ T) /\ Cardinality(S \ T) = Cardinality(S) - Cardinality(S \cap T)
  BY FS_Difference
<1> QED BY <1>1, <1>2, <1>3, FS_CardinalityType, Zenon

\* Every effect keeps Counted.
LEMMA CountedStep == Types /\ SettingUp /\ Counted /\ Effect => Counted'
<1> SUFFICES ASSUME Types, SettingUp, Counted, Effect PROVE Counted'
  OBVIOUS
<1>0. /\ IsFiniteSet(par.waiting) /\ Cardinality(par.waiting) \in Nat
      /\ par.inflight \in Int /\ par.queued \in Nat /\ par.credited \in Nat /\ par.asked \in Nat
      /\ par.started \in BOOLEAN /\ par.setupDone \in BOOLEAN
      /\ tor.cmds \in Seq(Commands) /\ tor.replies \in Seq([cmd : Commands, ok : BOOLEAN])
      /\ Len(tor.cmds) \in Nat /\ Len(tor.replies) \in Nat
  BY FiniteWaiting, FS_CardinalityType DEF Types, ParType, TorType
<1>n. /\ Cardinality(par.waiting) \in Nat
      /\ par.inflight \in Int /\ par.queued \in Nat /\ par.credited \in Nat /\ par.asked \in Nat
      /\ Len(tor.cmds) \in Nat /\ Len(tor.replies) \in Nat
  BY <1>0
<1>a. (open[0] /\ ~par.done) =>
        par.inflight + par.queued + par.credited = par.asked + (IF par.started THEN 1 ELSE 0)
  BY DEF Counted, NoneForgotten
<1>b. Cardinality(par.waiting) + Len(tor.cmds) + Len(tor.replies)
         + (IF par.started /\ ~par.setupDone THEN 1 ELSE 0) <= par.inflight
  BY DEF Counted
<1>1. CASE Began
  <2>1. ~par.setupDone
    BY <1>1, Constants DEF Began, SettingUp
  <2>2. /\ UNCHANGED <<stream, open, tor>> /\ par'.asked = par.asked /\ par'.queued = par.queued
        /\ ~par.started /\ par'.started /\ par'.setupDone = par.setupDone /\ par'.done = par.done
        /\ par'.waiting = par.waiting /\ par'.credited = par.credited
        /\ par'.inflight = par.inflight + 1
    BY <1>1 DEF Began, SamePar
  <2>3. NoneForgotten'
    BY <1>n, <1>a, <2>2, SMTT(30) DEF NoneForgotten
  <2>4. Cardinality(par'.waiting) + Len(tor'.cmds) + Len(tor'.replies)
         + (IF par'.started /\ ~par'.setupDone THEN 1 ELSE 0) <= par'.inflight
    BY <1>n, <1>b, <2>1, <2>2, SMTT(30)
  <2> QED BY <2>2, <2>3, <2>4, SMTT(30) DEF Counted
<1>2. CASE Stopped
  <2>1. Cardinality(par'.waiting) \in Nat /\ Cardinality(par'.waiting) <= Cardinality(par.waiting)
    BY <1>0, <1>2, Shrinking, Zenon DEF Stopped
  <2>2. /\ UNCHANGED tor /\ par'.done /\ par'.inflight = par.inflight
        /\ par'.started = par.started /\ par'.setupDone = par.setupDone
    BY <1>2 DEF Stopped
  <2>3. Cardinality(par'.waiting) + Len(tor'.cmds) + Len(tor'.replies)
         + (IF par'.started /\ ~par'.setupDone THEN 1 ELSE 0) <= par'.inflight
    BY <1>n, <1>b, <2>1, <2>2, SMTT(30)
  <2> QED BY <2>2, <2>3 DEF Counted, NoneForgotten
<1>3. CASE Lost
  <2>1. open'[0] => open[0]
    BY <1>3, Constants DEF Lost
  <2> QED BY <1>3, <2>1 DEF Lost, Counted, NoneForgotten
<1>4. CASE Answered
  <2>1. Len(tor'.cmds) = Len(tor.cmds) - 1 /\ Len(tor'.replies) = Len(tor.replies) + 1
    BY <1>0, <1>4 DEF Answered
  <2>2. UNCHANGED <<par, stream, open>>
    BY <1>4 DEF Answered
  <2>3. Cardinality(par'.waiting) + Len(tor'.cmds) + Len(tor'.replies)
         + (IF par'.started /\ ~par'.setupDone THEN 1 ELSE 0) <= par'.inflight
    <3> DEFINE w == Cardinality(par.waiting)
               c == Len(tor.cmds)
               r == Len(tor.replies)
               x == IF par.started /\ ~par.setupDone THEN 1 ELSE 0
               i == par.inflight
    <3>1. w \in Nat /\ c \in Nat /\ r \in Nat /\ x \in Nat /\ i \in Int /\ w + c + r + x <= i
      BY <1>n, <1>b
    <3>2. w + (c - 1) + (r + 1) + x <= i
      <4> HIDE DEF w, c, r, x, i
      <4> QED BY <3>1
    <3> QED BY <2>1, <2>2, <3>2
  <2> QED BY <2>2, <2>3 DEF Counted, NoneForgotten
<1>5. CASE Credited
  <2>1. Len(tor'.replies) = Len(tor.replies) - 1 /\ tor'.cmds = tor.cmds
    BY <1>0, <1>5 DEF Credited
  <2>2. /\ UNCHANGED <<stream, open>> /\ par'.asked = par.asked /\ par'.queued = par.queued
        /\ par'.started = par.started /\ par'.setupDone = par.setupDone /\ par'.done = par.done
        /\ par'.waiting = par.waiting
        /\ \/ par'.inflight = par.inflight /\ par'.credited = par.credited
           \/ par'.inflight = par.inflight - 1 /\ par'.credited = par.credited + 1
    BY <1>5 DEF Credited, SamePar
  <2>3. NoneForgotten'
    <3> DEFINE i == par.inflight
               q == par.queued
               k == par.credited
               a == par.asked
               x == IF par.started THEN 1 ELSE 0
    <3>1. i \in Int /\ q \in Nat /\ k \in Nat /\ a \in Nat /\ x \in Nat /\ (open[0] /\ ~par.done => i + q + k = a + x)
      BY <1>n, <1>a
    <3>2. open[0] /\ ~par.done => i + q + k = a + x /\ (i - 1) + q + (k + 1) = a + x
      <4> HIDE DEF i, q, k, a, x
      <4> QED BY <3>1
    <3> QED BY <2>2, <3>2 DEF NoneForgotten
  <2>4. Cardinality(par'.waiting) + Len(tor'.cmds) + Len(tor'.replies)
         + (IF par'.started /\ ~par'.setupDone THEN 1 ELSE 0) <= par'.inflight
    <3> DEFINE w == Cardinality(par.waiting)
               c == Len(tor.cmds)
               r == Len(tor.replies)
               x == IF par.started /\ ~par.setupDone THEN 1 ELSE 0
               i == par.inflight
    <3>1. w \in Nat /\ c \in Nat /\ r \in Nat /\ x \in Nat /\ i \in Int /\ w + c + r + x <= i
      BY <1>n, <1>b
    <3>2. w + c + (r - 1) + x <= i - 1 /\ w + c + (r - 1) + x <= i
      <4> HIDE DEF w, c, r, x, i
      <4> QED BY <3>1, SMTT(30)
    <3> QED BY <2>1, <2>2, <3>2
  <2> QED BY <2>2, <2>3, <2>4 DEF Counted
<1>6. ASSUME NEW m \in net, Offered(m) \/ Forwarded(m) \/ Paid(m) PROVE Counted'
  BY <1>6 DEF Offered, Forwarded, Paid, Counted, NoneForgotten
<1>7. ASSUME NEW m \in net, Accepted(m) PROVE Counted'
  <2>1. \A h \in Hops : stream'[h].deferreds = stream[h].deferreds
    BY <1>7 DEF Accepted
  <2>2. UNCHANGED open
    BY <1>7 DEF Accepted
  <2>3. CASE UNCHANGED <<par, tor>>
    BY <2>1, <2>2, <2>3 DEF Counted, NoneForgotten
  <2>4. CASE ~UNCHANGED <<par, tor>>
    <3>1. par.started /\ ~par.setupDone
      BY <1>7 DEF Accepted, SettingUp, OfSetup, Types, MessageType
    <3>2. /\ par'.asked = par.asked /\ par'.queued = 0 /\ par'.setupDone /\ par'.started = par.started
          /\ par'.done = par.done /\ par'.inflight = par.inflight /\ par'.credited = par.credited
          /\ par'.waiting = par.waiting /\ tor'.replies = tor.replies
          /\ tor'.cmds = Append(tor.cmds, "start")
      BY <1>7, <2>4 DEF Accepted
    <3>3. Len(tor'.cmds) = Len(tor.cmds) + 1
      BY <1>0, <3>2, SMTT(30)
    <3>4. NoneForgotten'
      BY <1>a, <2>2, <3>2, SMTT(30) DEF NoneForgotten, SettingUp
    <3>5. Cardinality(par'.waiting) + Len(tor'.cmds) + Len(tor'.replies)
           + (IF par'.started /\ ~par'.setupDone THEN 1 ELSE 0) <= par'.inflight
      BY <1>0, <1>b, <3>1, <3>2, <3>3, SMTT(30)
    <3> QED BY <2>1, <3>2, <3>4, <3>5, ZenonT(30) DEF Counted
  <2> QED BY <2>3, <2>4
<1>8. ASSUME NEW p, Settling(p), p.waiting \in SUBSET Nat, IsFiniteSet(p.waiting), UNCHANGED open,
             p.done = par.done, p.started = par.started, p.setupDone = par.setupDone,
             p.queued = par.queued, p.credited = par.credited,
             NEW d \in {0, 1}, p.asked = par.asked + d, p.inflight = par.inflight + d,
             Cardinality(p.waiting) <= Cardinality(par.waiting) + d,
             ~par.done => \A h \in Hops : stream'[h].deferreds \subseteq p.waiting
      PROVE  Counted'
  <2> DEFINE all == Settled(p, stream')
  <2>1. /\ Cardinality(all) \in Nat /\ Cardinality(p.waiting) \in Nat
        /\ Cardinality(p.waiting \ all) \in Nat
        /\ Cardinality(p.waiting \ all) = Cardinality(p.waiting) - Cardinality(all)
    <3>1. all \subseteq p.waiting
      BY <1>8 DEF Settling
    <3> HIDE DEF all
    <3> QED BY <1>8, <3>1, Shrinking, FS_CardinalityType, Zenon
  <2>2. /\ par'.waiting = p.waiting \ all /\ tor'.replies = tor.replies
        /\ Len(tor'.cmds) <= Len(tor.cmds) + Cardinality(all) /\ Len(tor'.cmds) \in Nat
    <3>1. tor' \in TorType
      BY <1>8 DEF Settling
    <3>2. Len(tor'.cmds) \in Nat
      BY <3>1, SMTT(30) DEF TorType
    <3>3. Len(tor'.cmds) = Len(tor.cmds) + (IF p.done THEN 0 ELSE Cardinality(all))
          /\ par'.waiting = p.waiting \ all /\ tor'.replies = tor.replies
      BY <1>8 DEF Settling
    <3> HIDE DEF all
    <3> QED BY <1>n, <2>1, <3>2, <3>3, SMTT(30)
  <2>3. /\ par'.asked = par.asked + d /\ par'.queued = par.queued /\ par'.setupDone = par.setupDone
        /\ par'.started = par.started /\ par'.done = par.done
        /\ par'.inflight = par.inflight + d /\ par'.credited = par.credited
    BY <1>8 DEF Settling
  <2>4. NoneForgotten'
    <3>1. d \in Nat /\ UNCHANGED open
      BY <1>8
    <3> DEFINE i == par.inflight
               q == par.queued
               k == par.credited
               a == par.asked
               x == IF par.started THEN 1 ELSE 0
    <3>2. i \in Int /\ q \in Nat /\ k \in Nat /\ a \in Nat /\ x \in Nat /\ (open[0] /\ ~par.done => i + q + k = a + x)
      BY <1>n, <1>a
    <3>3. open[0] /\ ~par.done => (i + d) + q + k = (a + d) + x
      <4> HIDE DEF i, q, k, a, x
      <4> QED BY <3>1, <3>2
    <3> QED BY <2>3, <3>1, <3>3 DEF NoneForgotten
  <2>5. Cardinality(par'.waiting) + Len(tor'.cmds) + Len(tor'.replies)
           + (IF par'.started /\ ~par'.setupDone THEN 1 ELSE 0) <= par'.inflight
    <3> DEFINE x == IF par.started /\ ~par.setupDone THEN 1 ELSE 0
    <3>1. x \in Nat /\ Cardinality(par.waiting) + Len(tor.cmds) + Len(tor.replies) + x <= par.inflight
      BY <1>b
    <3> HIDE DEF x
    <3>2. Cardinality(par'.waiting) + Len(tor'.cmds) + Len(tor'.replies) + x <= par'.inflight
      <4> HIDE DEF all
      <4>1. d \in Nat /\ Cardinality(p.waiting) <= Cardinality(par.waiting) + d
        BY <1>8
      <4>2. Cardinality(par'.waiting) = Cardinality(p.waiting) - Cardinality(all)
            /\ Len(tor'.replies) = Len(tor.replies)
        BY <2>1, <2>2
      <4>3. Len(tor'.cmds) <= Len(tor.cmds) + Cardinality(all) /\ Len(tor'.cmds) \in Nat
        BY <2>2
      <4>4. Cardinality(all) \in Nat /\ Cardinality(p.waiting) \in Nat
        BY <2>1
      <4>5. par'.inflight = par.inflight + d
        BY <2>3
      <4> DEFINE w == Cardinality(par.waiting)
                 c == Len(tor.cmds)
                 r == Len(tor.replies)
                 i == par.inflight
                 v == Cardinality(p.waiting)
                 a == Cardinality(all)
                 e == Len(tor'.cmds)
      <4>6. (v - a) + e + r + x <= i + d
        <5>1. /\ w \in Nat /\ c \in Nat /\ r \in Nat /\ i \in Int /\ v \in Nat /\ a \in Nat /\ e \in Nat
              /\ x \in Nat /\ w + c + r + x <= i /\ v <= w + d /\ e <= c + a /\ d \in Nat
          BY <1>n, <3>1, <4>1, <4>3, <4>4, Zenon
        <5> HIDE DEF w, c, r, i, v, a, e
        <5> QED BY <5>1
      <4> QED BY <4>2, <4>5, <4>6
    <3> QED BY <2>3, <3>2 DEF x
  <2>6. ~par'.done => \A h \in Hops : stream'[h].deferreds \subseteq par'.waiting
    BY <1>8, <2>2, <2>3, Zenon DEF Settled
  <2> QED BY <2>4, <2>5, <2>6 DEF Counted
<1>9. ASSUME NEW m \in net, NEW p, Received(m, p) PROVE Counted'
  <2>1. \A i \in Hops : stream'[i].deferreds \subseteq stream[i].deferreds
    <3>1. stream'[m.hop].deferreds \subseteq stream[m.hop].deferreds
      BY <1>9, Zenon DEF Received
    <3> QED BY <1>9, <3>1, Zenon DEF Received
  <2>2. p.waiting = par.waiting /\ p.waiting \in SUBSET Nat /\ UNCHANGED open /\ Settling(p)
        /\ p.done = par.done /\ p.started = par.started /\ p.setupDone = par.setupDone
        /\ p.queued = par.queued /\ p.credited = par.credited
        /\ p.asked = par.asked + 0 /\ p.inflight = par.inflight + 0
    BY <1>0, <1>9, SMTT(30) DEF Received, Receiving, ParType
  <2>3. ~par.done => \A h \in Hops : stream'[h].deferreds \subseteq p.waiting
    BY <2>1, <2>2 DEF Counted
  <2>4. Cardinality(p.waiting) <= Cardinality(par.waiting) + 0
    BY <1>0, <2>2, SMTT(30)
  <2> QED BY <1>0, <1>8, <2>2, <2>3, <2>4, Zenon
<1>10. ASSUME NEW token, NEW paid, NEW p, Requested(token, paid, p) PROVE Counted'
  <2>1. \A h \in Hops : stream'[h].deferreds \subseteq stream[h].deferreds \cup {par.asked}
    <3> SUFFICES ASSUME NEW h \in Hops
                 PROVE  stream'[h].deferreds \subseteq stream[h].deferreds \cup {par.asked}
      OBVIOUS
    <3>1. CASE h \in Starting
      <4>1. stream'[h].deferreds = IF h \in paid THEN stream[h].deferreds \cup {par.asked}
                                   ELSE stream[h].deferreds \ {par.asked}
        BY <1>10, <3>1, Zenon DEF Requested
      <4> QED BY <4>1
    <3>2. CASE h \notin Starting
      <4>1. stream'[h].deferreds = stream[h].deferreds \cup {par.asked}
        BY <1>10, <3>2, ZenonT(30) DEF Requested
      <4> QED BY <4>1
    <3> QED BY <3>1, <3>2
  <2>2. p.waiting = par.waiting \cup {par.asked} /\ p.waiting \in SUBSET Nat /\ UNCHANGED open
        /\ Settling(p)
        /\ p.done = par.done /\ p.started = par.started /\ p.setupDone = par.setupDone
        /\ p.queued = par.queued /\ p.credited = par.credited
        /\ p.asked = par.asked + 1 /\ p.inflight = par.inflight + 1
    BY <1>10 DEF Requested, Requesting, ParType
  <2>3. ~par.done => \A h \in Hops : stream'[h].deferreds \subseteq p.waiting
    BY <2>1, <2>2 DEF Counted
  <2>4. IsFiniteSet(p.waiting) /\ Cardinality(p.waiting) <= Cardinality(par.waiting) + 1
    <3>1. IsFiniteSet(par.waiting) /\ p.waiting = par.waiting \cup {par.asked}
      BY <1>0, <2>2
    <3>2. /\ IsFiniteSet(par.waiting \cup {par.asked})
          /\ Cardinality(par.waiting \cup {par.asked}) =
               IF par.asked \in par.waiting THEN Cardinality(par.waiting) ELSE Cardinality(par.waiting) + 1
      BY <3>1, FS_AddElement, Zenon
    <3> QED BY <1>n, <3>1, <3>2
  <2> QED BY <1>8, <2>2, <2>3, <2>4
<1> QED BY <1>1, <1>2, <1>3, <1>4, <1>5, <1>6, <1>7, <1>9, <1>10, ZenonT(30) DEF Effect

-----------------------------------------------------------------------------
(***************************************************************************)
(* The wallet had a coin for every payment.                                *)
(***************************************************************************)
\* A setup reply brings MAX_MERCHANT_TOKENS requests; as long as no coin was missing,
\* every message of a payment belongs to one expected receipt and carries its one
\* request, so that stock and receipts add up.
Solvent ==
    /\ \A m \in net : m.type = "setup_reply" =>
          IsFiniteSet(m.reqs) /\ Cardinality(m.reqs) = MAX_MERCHANT_TOKENS
    /\ ~par.broke =>
          /\ \A h \in Hops :
                /\ stream[h].pending = <<>>
                /\ stream[h].setupDone =>
                      /\ IsFiniteSet(stream[h].tokens)
                      /\ Cardinality(stream[h].tokens) + Cardinality(stream[h].deferreds)
                           = MAX_MERCHANT_TOKENS
          /\ \A m \in net : m.type \notin OfSetup =>
                /\ m.id \in stream[m.hop].deferreds
                /\ \E r : m.reqs = {r}
                /\ \A k \in net : k.type \notin OfSetup /\ k.hop = m.hop /\ k.id = m.id => k = m

\* Every stream has finitely many payments under way, and none with the next number.
LEMMA FiniteDeferreds ==
  Types => \A h \in Hops : IsFiniteSet(stream[h].deferreds) /\ Cardinality(stream[h].deferreds) \in Nat
                           /\ par.asked \notin stream[h].deferreds
<1> SUFFICES ASSUME Types, NEW h \in Hops
             PROVE  IsFiniteSet(stream[h].deferreds) /\ Cardinality(stream[h].deferreds) \in Nat
                    /\ par.asked \notin stream[h].deferreds
  OBVIOUS
<1>1. par.asked \in Nat
  BY DEF Types, ParType
<1>2. IsFiniteSet(0 .. par.asked - 1)
  BY <1>1, FS_Interval
<1>3. stream[h].deferreds \in SUBSET (0 .. par.asked - 1)
  BY DEF Types
<1>4. IsFiniteSet(stream[h].deferreds)
  BY <1>2, <1>3, FS_Subset, Zenon
<1> QED BY <1>1, <1>3, <1>4, FS_CardinalityType

\* A payment is asked for only while fewer than MAX_MERCHANT_TOKENS are in flight, so
\* that every hop has a merchant token for it.
LEMMA AllStart ==
  ASSUME Types, SettingUp, Counted, Solvent, ~par.broke,
         par.setupDone, ~par.done, par.inflight < MAX_MERCHANT_TOKENS
  PROVE  Starting = Hops
<1> SUFFICES ASSUME NEW h \in Hops PROVE stream[h].tokens # {}
  BY DEF Starting
<1>1. /\ IsFiniteSet(stream[h].tokens)
      /\ Cardinality(stream[h].tokens) + Cardinality(stream[h].deferreds) = MAX_MERCHANT_TOKENS
  BY DEF Solvent, SettingUp
<1>2. stream[h].deferreds \subseteq par.waiting
  BY DEF Counted
<1>3. Cardinality(stream[h].deferreds) \in Nat /\ Cardinality(par.waiting) \in Nat
      /\ Cardinality(stream[h].deferreds) <= Cardinality(par.waiting)
  BY <1>2, FiniteWaiting, Shrinking, Zenon
<1>4. par.inflight \in Int /\ Len(tor.cmds) \in Nat /\ Len(tor.replies) \in Nat
  BY DEF Types, ParType, TorType
<1>5. Cardinality(par.waiting) <= par.inflight
  <2>1. Cardinality(par.waiting) + Len(tor.cmds) + Len(tor.replies) + 0 <= par.inflight
    BY DEF Counted
  <2> QED BY <1>3, <1>4, <2>1
<1>6. Cardinality(stream[h].tokens) # 0
  BY <1>1, <1>3, <1>4, <1>5, Constants, SMTT(30)
<1> QED BY <1>6, FS_EmptySet

\* Every effect keeps Solvent.
LEMMA SolventStep ==
  Types /\ SettingUp /\ Stocked /\ Counted /\ Solvent /\ Effect => Solvent'
<1> SUFFICES ASSUME Types, SettingUp, Stocked, Counted, Solvent, Effect PROVE Solvent'
  OBVIOUS
<1>0. /\ \A m \in net : m.hop \in Hops /\ m.reqs \in SUBSET Nat
      /\ \A h \in Hops : relay[h].next \in Nat
      /\ MAX_MERCHANT_TOKENS \in Nat \ {0}
  BY Constants DEF Types, MessageType, RelayType
<1>1. CASE Began
  <2>1. \A m \in net' : m \in net \/ m.type = "setup"
    BY <1>1 DEF Began, Message
  <2>2. UNCHANGED stream /\ par'.broke = par.broke
    BY <1>1 DEF Began, SamePar
  <2> QED BY <2>1, <2>2, Zenon DEF Solvent, OfSetup
<1>2. CASE Stopped \/ Answered \/ Credited
  <2>1. UNCHANGED <<stream, net>> /\ par'.broke = par.broke
    BY <1>2 DEF Stopped, Answered, Credited, SamePar
  <2> QED BY <2>1, Zenon DEF Solvent
<1>3. CASE Lost
  <2>1. net' \subseteq net /\ UNCHANGED <<stream, par>>
    BY <1>3 DEF Lost
  <2> QED BY <2>1, Zenon DEF Solvent
<1>4. ASSUME NEW m \in net, Offered(m) PROVE Solvent'
  <2> DEFINE n == relay[m.hop].next
             new == n .. n + MAX_MERCHANT_TOKENS - 1
             r == Message("setup_reply", m.hop, 0, new)
  <2>1. r.type = "setup_reply" /\ r.reqs = new
    BY DEF Message
  <2>2. net' = (net \ {m}) \cup {r} /\ UNCHANGED <<stream, par>>
    BY <1>4 DEF Offered
  <2>3. IsFiniteSet(new) /\ Cardinality(new) = MAX_MERCHANT_TOKENS
    <3>1. n \in Int /\ n + MAX_MERCHANT_TOKENS - 1 \in Int
          /\ n <= n + MAX_MERCHANT_TOKENS - 1
          /\ (n + MAX_MERCHANT_TOKENS - 1) - n + 1 = MAX_MERCHANT_TOKENS
      BY <1>0
    <3> QED BY <3>1, FS_Interval
  <2> HIDE DEF r, new
  <2> QED BY <2>1, <2>2, <2>3, Zenon DEF Solvent, OfSetup
<1>5. ASSUME NEW m \in net, Accepted(m) PROVE Solvent'
  <2> DEFINE h == m.hop
  <2>1. /\ h \in Hops /\ net' = net \ {m} /\ par'.broke = par.broke
        /\ \A i \in Hops \ {h} : stream'[i] = stream[i]
        /\ stream'[h].tokens = stream[h].tokens \cup m.reqs
        /\ stream'[h].deferreds = stream[h].deferreds
        /\ stream'[h].pending = stream[h].pending
    BY <1>0, <1>5 DEF Accepted
  <2>2. stream[h].tokens = {} /\ stream[h].deferreds = {}
    BY <1>5, <2>1, ZenonT(30) DEF Accepted, SettingUp, OfSetup
  <2>3. /\ IsFiniteSet(stream'[h].tokens)
        /\ Cardinality(stream'[h].tokens) + Cardinality(stream'[h].deferreds) = MAX_MERCHANT_TOKENS
    <3>1. IsFiniteSet(m.reqs) /\ Cardinality(m.reqs) = MAX_MERCHANT_TOKENS
      BY <1>5 DEF Accepted, Solvent
    <3>2. stream'[h].tokens = m.reqs /\ stream'[h].deferreds = {}
      BY <2>1, <2>2
    <3> QED BY <1>0, <3>1, <3>2, FS_EmptySet, SMTT(30)
  <2>4. \A k \in net' : stream'[k.hop].deferreds = stream[k.hop].deferreds
    BY <1>0, <2>1, SMTT(30)
  <2>5. ASSUME ~par.broke, NEW i \in Hops
        PROVE  /\ stream'[i].pending = <<>>
               /\ stream'[i].setupDone =>
                     /\ IsFiniteSet(stream'[i].tokens)
                     /\ Cardinality(stream'[i].tokens) + Cardinality(stream'[i].deferreds)
                          = MAX_MERCHANT_TOKENS
    <3>1. CASE i = h
      BY <2>1, <2>3, <2>5, <3>1, ZenonT(30) DEF Solvent
    <3>2. CASE i # h
      <4>1. stream'[i] = stream[i]
        BY <2>1, <3>2
      <4> QED BY <2>5, <4>1 DEF Solvent
    <3> QED BY <3>1, <3>2, SMTT(30)
  <2>6. ASSUME ~par.broke
        PROVE  \A k \in net' : k.type \notin OfSetup =>
                  /\ k.id \in stream'[k.hop].deferreds
                  /\ \E r : k.reqs = {r}
                  /\ \A l \in net' : l.type \notin OfSetup /\ l.hop = k.hop /\ l.id = k.id => l = k
    <3>1. net' \subseteq net
      BY <2>1
    <3> QED BY <2>4, <2>6, <3>1, Zenon DEF Solvent
  <2>7. \A k \in net' : k \in net
    BY <2>1
  <2>8. par'.broke = par.broke
    BY <2>1
  <2> QED BY <2>5, <2>6, <2>7, <2>8, ZenonT(30) DEF Solvent
<1>6. ASSUME NEW m \in net, NEW r, r.hop = m.hop, r.id = m.id, r.type \notin OfSetup,
             m.type \notin OfSetup, \E q : r.reqs = {q}, ~par.broke,
             net' = (net \ {m}) \cup {r}, UNCHANGED <<stream, par>>
      PROVE  /\ \A k \in net' : k.type \notin OfSetup =>
                  /\ k.id \in stream'[k.hop].deferreds
                  /\ \E q : k.reqs = {q}
                  /\ \A l \in net' : l.type \notin OfSetup /\ l.hop = k.hop /\ l.id = k.id => l = k
  <2>1. m.id \in stream[m.hop].deferreds
        /\ \A k \in net : k.type \notin OfSetup /\ k.hop = m.hop /\ k.id = m.id => k = m
    BY <1>6 DEF Solvent
  <2>2. \A k \in net' : k = r \/ (k \in net /\ k # m)
    BY <1>6
  <2>3. r.id \in stream'[r.hop].deferreds /\ stream' = stream
    BY <1>6, <2>1
  <2>4. ASSUME NEW k \in net', k.type \notin OfSetup
        PROVE  k.id \in stream'[k.hop].deferreds /\ \E q : k.reqs = {q}
    BY <1>6, <2>2, <2>3, <2>4, Zenon DEF Solvent
  <2>5. ASSUME NEW k \in net', NEW l \in net', k.type \notin OfSetup, l.type \notin OfSetup,
               l.hop = k.hop, l.id = k.id
        PROVE  l = k
    <3>1. CASE k = r /\ l = r
      BY <3>1
    <3>2. CASE k = r /\ l # r
      BY <1>6, <2>1, <2>2, <2>5, <3>2, Zenon
    <3>3. CASE k # r /\ l = r
      BY <1>6, <2>1, <2>2, <2>5, <3>3, Zenon
    <3>4. CASE k # r /\ l # r
      BY <1>6, <2>2, <2>5, <3>4, SMTT(30) DEF Solvent
    <3> QED BY <3>1, <3>2, <3>3, <3>4
  <2> QED BY <2>4, <2>5, Zenon
<1>7. ASSUME NEW m \in net, Forwarded(m) \/ Paid(m) PROVE Solvent'
  <2>1. PICK r : /\ r.hop = m.hop /\ r.id = m.id /\ r.type \in {"payment", "refusal", "receipt"}
                 /\ r.reqs = m.reqs \/ \E q : r.reqs = {q}
                 /\ net' = (net \ {m}) \cup {r}
    BY <1>7, ZenonT(30) DEF Forwarded, Paid, Message
  <2>2. UNCHANGED <<stream, par>> /\ m.type \notin OfSetup /\ r.type \notin OfSetup
    BY <1>7, <2>1 DEF Forwarded, Paid, OfSetup
  <2>3. \A k \in net' : k.type = "setup_reply" => k \in net
    BY <2>1
  <2>4. ~par.broke => \E q : r.reqs = {q}
    BY <2>1, <2>2, ZenonT(30) DEF Solvent
  <2> QED BY <1>6, <2>1, <2>2, <2>3, <2>4, ZenonT(30) DEF Solvent
<1>8. ASSUME NEW m \in net, NEW p, Received(m, p) PROVE Solvent'
  <2> DEFINE h == m.hop
  <2>1. \A k \in net' : k.type = "setup_reply" => k \in net
    BY <1>8, SMTT(30) DEF Received, Message
  <2>2. h \in Hops /\ m.type \notin OfSetup
    BY <1>0, <1>8 DEF Received, OfSetup
  <2>3. ASSUME ~par'.broke
        PROVE  /\ \A i \in Hops :
                    /\ stream'[i].pending = <<>>
                    /\ stream'[i].setupDone =>
                        /\ IsFiniteSet(stream'[i].tokens)
                        /\ Cardinality(stream'[i].tokens) + Cardinality(stream'[i].deferreds)
                             = MAX_MERCHANT_TOKENS
               /\ \A k \in net' : k.type \notin OfSetup =>
                    /\ k.id \in stream'[k.hop].deferreds
                    /\ \E q : k.reqs = {q}
                    /\ \A l \in net' : l.type \notin OfSetup /\ l.hop = k.hop /\ l.id = k.id => l = k
    <3>1. ~par.broke
      BY <1>8, <2>3, Zenon DEF Received, Receiving, Settling
    <3>2. stream[h].pending = <<>>
      BY <2>2, <3>1, ZenonT(30) DEF Solvent
    <3>3. /\ net' = net \ {m} /\ stream'[h].pending = <<>>
          /\ stream'[h].tokens = stream[h].tokens \cup m.reqs
          /\ stream'[h].deferreds = stream[h].deferreds \ {m.id}
          /\ stream'[h].setupDone = stream[h].setupDone
          /\ \A i \in Hops \ {h} : stream'[i] = stream[i]
      BY <1>8, <3>2 DEF Received
    <3>4. /\ m.id \in stream[h].deferreds
          /\ \A k \in net : k.type \notin OfSetup /\ k.hop = h /\ k.id = m.id => k = m
      BY <2>2, <3>1 DEF Solvent
    <3>5. PICK q : m.reqs = {q}
      BY <2>2, <3>1 DEF Solvent
    <3>6. q \notin stream[h].tokens
      BY <3>5 DEF Stocked
    <3>7. stream[h].setupDone =>
            /\ IsFiniteSet(stream'[h].tokens)
            /\ Cardinality(stream'[h].tokens) + Cardinality(stream'[h].deferreds) = MAX_MERCHANT_TOKENS
      <4> SUFFICES ASSUME stream[h].setupDone
                   PROVE  /\ IsFiniteSet(stream'[h].tokens)
                          /\ Cardinality(stream'[h].tokens) + Cardinality(stream'[h].deferreds)
                               = MAX_MERCHANT_TOKENS
        OBVIOUS
      <4> DEFINE T == stream[h].tokens
                 D == stream[h].deferreds
      <4>1. IsFiniteSet(T) /\ IsFiniteSet(D) /\ Cardinality(T) + Cardinality(D) = MAX_MERCHANT_TOKENS
        BY <2>2, <3>1, FiniteDeferreds DEF Solvent
      <4>2. stream'[h].tokens = T \cup {q} /\ stream'[h].deferreds = D \ {m.id}
        BY <3>3, <3>5
      <4>3. m.id \in D /\ q \notin T
        BY <3>4, <3>6
      <4> HIDE DEF T, D
      <4>4. IsFiniteSet(T \cup {q}) /\ Cardinality(T \cup {q}) = Cardinality(T) + 1
        BY <4>1, <4>3, FS_AddElement
      <4>5. Cardinality(D \ {m.id}) = Cardinality(D) - 1
        BY <4>1, <4>3, FS_RemoveElement, Zenon
      <4>6. Cardinality(T) \in Nat /\ Cardinality(D) \in Nat
        BY <4>1, FS_CardinalityType
      <4> QED BY <4>1, <4>2, <4>4, <4>5, <4>6, SMTT(30)
    <3>8. \A i \in Hops :
            /\ stream'[i].pending = <<>>
            /\ stream'[i].setupDone =>
                  /\ IsFiniteSet(stream'[i].tokens)
                  /\ Cardinality(stream'[i].tokens) + Cardinality(stream'[i].deferreds)
                       = MAX_MERCHANT_TOKENS
      BY <3>1, <3>3, <3>7, ZenonT(30) DEF Solvent
    <3>9. \A k \in net' : k.type \notin OfSetup => k.id \in stream'[k.hop].deferreds
      BY <1>0, <3>1, <3>3, <3>4 DEF Solvent
    <3> QED BY <3>1, <3>3, <3>8, <3>9, Zenon DEF Solvent
  <2> QED BY <2>1, <2>3, Zenon DEF Solvent
<1>9. ASSUME NEW token, NEW paid, NEW p, Requested(token, paid, p) PROVE Solvent'
  <2>0. /\ paid \subseteq Starting /\ Starting \subseteq Hops
        /\ net' = net \cup {Message("bank_relay", h, par.asked, {token[h]}) : h \in paid}
    BY <1>9 DEF Requested, Starting
  <2>1. \A k \in net' : k \in net \/ (k.type = "bank_relay" /\ k.hop \in paid /\ k.id = par.asked
                                      /\ k.reqs = {token[k.hop]}
                                      /\ k = Message("bank_relay", k.hop, par.asked, {token[k.hop]}))
    BY <2>0 DEF Message
  <2>2. \A k \in net' : k.type = "setup_reply" => k \in net
    BY <2>1, Zenon
  <2>3. ASSUME ~par'.broke
        PROVE  /\ \A h \in Hops :
                    /\ stream'[h].pending = <<>>
                    /\ stream'[h].setupDone =>
                        /\ IsFiniteSet(stream'[h].tokens)
                        /\ Cardinality(stream'[h].tokens) + Cardinality(stream'[h].deferreds)
                             = MAX_MERCHANT_TOKENS
               /\ \A k \in net' : k.type \notin OfSetup =>
                    /\ k.id \in stream'[k.hop].deferreds
                    /\ \E q : k.reqs = {q}
                    /\ \A l \in net' : l.type \notin OfSetup /\ l.hop = k.hop /\ l.id = k.id => l = k
    <3>a. /\ par'.broke = p.broke /\ (~p.broke => ~par.broke /\ paid = Starting)
          /\ par.setupDone /\ ~par.done /\ par.inflight < MAX_MERCHANT_TOKENS
          /\ \A h \in Starting : token[h] \in stream[h].tokens
      BY <1>9, Zenon DEF Requested, Settling
    <3>1. ~par.broke /\ paid = Starting
      BY <2>3, <3>a, Zenon
    <3>2. paid = Hops /\ Starting = Hops
      BY <3>a, <3>1, AllStart, Zenon
    <3>3. \A h \in Hops : token[h] \in stream[h].tokens
      BY <3>a, <3>2, Zenon
    <3>4. \A h \in Hops : /\ stream'[h].tokens = stream[h].tokens \ {token[h]}
                          /\ stream'[h].pending = stream[h].pending
                          /\ stream'[h].setupDone = stream[h].setupDone
                          /\ stream'[h].deferreds = stream[h].deferreds \cup {par.asked}
      <4> SUFFICES ASSUME NEW h \in Hops
                   PROVE  /\ stream'[h].tokens = stream[h].tokens \ {token[h]}
                          /\ stream'[h].pending = stream[h].pending
                          /\ stream'[h].setupDone = stream[h].setupDone
                          /\ stream'[h].deferreds = stream[h].deferreds \cup {par.asked}
        OBVIOUS
      <4>1. h \in Starting /\ h \in paid
        BY <3>2
      <4> QED BY <1>9, <4>1, ZenonT(30) DEF Requested
    <3>5. ASSUME NEW h \in Hops
          PROVE  /\ stream'[h].pending = <<>>
                 /\ IsFiniteSet(stream'[h].tokens)
                 /\ Cardinality(stream'[h].tokens) + Cardinality(stream'[h].deferreds)
                       = MAX_MERCHANT_TOKENS
      <4> DEFINE T == stream[h].tokens
                 D == stream[h].deferreds
                 q == token[h]
      <4>1. /\ IsFiniteSet(T) /\ IsFiniteSet(D)
            /\ Cardinality(T) + Cardinality(D) = MAX_MERCHANT_TOKENS
            /\ stream[h].pending = <<>>
        BY <1>9, <3>1, FiniteDeferreds, Zenon DEF Solvent, SettingUp, Requested
      <4>2. /\ stream'[h].tokens = T \ {q} /\ stream'[h].deferreds = D \cup {par.asked}
            /\ stream'[h].pending = <<>>
        BY <3>4, <4>1, SMTT(30)
      <4>3. par.asked \notin D /\ q \in T
        BY <3>3, FiniteDeferreds
      <4> HIDE DEF T, D, q
      <4>4. Cardinality(D \cup {par.asked}) = Cardinality(D) + 1
        BY <4>1, <4>3, FS_AddElement, Zenon
      <4>5. IsFiniteSet(T \ {q}) /\ Cardinality(T \ {q}) = Cardinality(T) - 1
        BY <4>1, <4>3, FS_RemoveElement, Zenon
      <4>6. Cardinality(T) \in Nat /\ Cardinality(D) \in Nat
        BY <4>1, FS_CardinalityType, Zenon
      <4> QED BY <4>1, <4>2, <4>4, <4>5, <4>6, SMTT(30)
    <3>6. \A k \in net : k.type \notin OfSetup => k.id \in stream[k.hop].deferreds /\ k.id # par.asked
      BY <1>0, <3>1, FiniteDeferreds, SMTT(30) DEF Solvent
    <3>7. ASSUME NEW k \in net', k.type \notin OfSetup
          PROVE  k.id \in stream'[k.hop].deferreds /\ \E q : k.reqs = {q}
      <4>1. CASE k \in net
        BY <1>0, <3>1, <3>4, <3>6, <3>7, <4>1, ZenonT(30) DEF Solvent
      <4>2. CASE k \notin net
        BY <2>1, <3>2, <3>4, <4>2, Zenon
      <4> QED BY <4>1, <4>2
    <3>8. ASSUME NEW k \in net', NEW l \in net', k.type \notin OfSetup, l.type \notin OfSetup,
                 l.hop = k.hop, l.id = k.id
          PROVE  l = k
      <4>1. CASE k \in net /\ l \in net
        BY <3>1, <3>8, <4>1 DEF Solvent
      <4>2. CASE k \notin net /\ l \notin net
        BY <2>1, <3>8, <4>2, Zenon
      <4>3. CASE (k \in net /\ l \notin net) \/ (k \notin net /\ l \in net)
        BY <2>1, <3>6, <3>8, <4>3, Zenon
      <4> QED BY <4>1, <4>2, <4>3, Zenon
    <3> QED BY <3>5, <3>7, <3>8, Zenon
  <2> QED BY <2>2, <2>3, ZenonT(30) DEF Solvent
<1> QED BY <1>1, <1>2, <1>3, <1>4, <1>5, <1>7, <1>8, <1>9, SMTT(30) DEF Effect

=============================================================================

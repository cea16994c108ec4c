--------------------------- MODULE PaymentsProofs ---------------------------
(***************************************************************************)
(* The payments of a circuit, for every number of hops, of merchant tokens *)
(* and of coins: hops are paid before the origin uses what it paid for,    *)
(* merchant tokens are neither doubled nor lost, no payment is forgotten.  *)
(***************************************************************************)
EXTENDS PaymentsCounts

-----------------------------------------------------------------------------
(***************************************************************************)
(* Hops are paid first.                                                    *)
(***************************************************************************)
\* The payments that hop h has been paid for, as far as the origin's books and the
\* receipts under way show, and whether h has handled its setup.
Handled(h) ==
    {id \in 0 .. par.asked - 1 :
       \/ id \notin stream[h].deferreds
       \/ \E m \in net : m.type = "receipt" /\ m.hop = h /\ m.id = id}
SetUp(h) == stream[h].setupDone \/ \E m \in net : m.type = "setup_reply" /\ m.hop = h

\* The payments that no hop's receipt is expected for any more.
Fired == {id \in 0 .. par.asked - 1 : \A h \in Hops : id \notin stream[h].deferreds}

\* A hop has ordered tokens for all it was paid for; the origin's Tor has and is told
\* to have tokens for no more than the payments that fired.
ServedAt(h) == Cardinality(Handled(h)) + (IF SetUp(h) THEN 1 ELSE 0) <= relay[h].tokens
Served == ~par.broke => \A h \in Hops : ServedAt(h)
Ordered ==
    tor.tokens + Len(tor.cmds) <= (IF par.setupDone THEN 1 ELSE 0) + Cardinality(Fired \ par.waiting)

\* The payments asked for so far are finitely many.
LEMMA FiniteIds ==
  ASSUME par.asked \in Nat, NEW S, S \subseteq 0 .. par.asked - 1
  PROVE  IsFiniteSet(S) /\ Cardinality(S) \in Nat
<1>1. IsFiniteSet(0 .. par.asked - 1)
  BY FS_Interval
<1>2. S \in SUBSET (0 .. par.asked - 1)
  OBVIOUS
<1>3. IsFiniteSet(S)
  BY <1>1, <1>2, FS_Subset, Zenon
<1> QED BY <1>3, FS_CardinalityType

\* A step at which hop h is paid for nothing new, or orders a token for one more.
LEMMA ServedKept ==
  ASSUME Types, NEW h \in Hops, ServedAt(h),
         Handled(h)' \subseteq Handled(h), SetUp(h)' => SetUp(h),
         relay'[h].tokens = relay[h].tokens
  PROVE  ServedAt(h)'
<1>1. par.asked \in Nat /\ relay[h].tokens \in Nat
  BY DEF Types, ParType, RelayType
<1>2. IsFiniteSet(Handled(h)) /\ Cardinality(Handled(h)) \in Nat
  BY <1>1, FiniteIds DEF Handled
<1> DEFINE S == Handled(h)
           T == Handled(h)'
           a == IF SetUp(h) THEN 1 ELSE 0
           b == IF SetUp(h)' THEN 1 ELSE 0
<1>3. Cardinality(T) \in Nat /\ Cardinality(T) <= Cardinality(S)
  <2> HIDE DEF S, T
  <2> QED BY <1>2, Shrinking, Zenon DEF S, T
<1>4. a \in Nat /\ b \in Nat /\ b <= a
  OBVIOUS
<1>5. Cardinality(S) + a <= relay[h].tokens
  BY DEF ServedAt
<1>6. Cardinality(T) + b <= relay'[h].tokens
  <2> HIDE DEF S, T, a, b
  <2> QED BY <1>1, <1>2, <1>3, <1>4, <1>5 DEF S
<1> QED BY <1>6 DEF ServedAt

\* A relay that gets a token may handle one payment more.
LEMMA ServedMore ==
  ASSUME Types, NEW h \in Hops, ServedAt(h),
         relay'[h].tokens = relay[h].tokens + 1,
         \/ Handled(h)' \subseteq Handled(h) /\ ~SetUp(h)
         \/ (\E id : Handled(h)' \subseteq Handled(h) \cup {id}) /\ (SetUp(h)' => SetUp(h))
  PROVE  ServedAt(h)'
<1>1. par.asked \in Nat /\ relay[h].tokens \in Nat
  BY DEF Types, ParType, RelayType
<1>2. IsFiniteSet(Handled(h)) /\ Cardinality(Handled(h)) \in Nat
  BY <1>1, FiniteIds, SMTT(30) DEF Handled
<1> DEFINE S == Handled(h)
           T == Handled(h)'
           a == IF SetUp(h) THEN 1 ELSE 0
           b == IF SetUp(h)' THEN 1 ELSE 0
<1>3. PICK c \in {0, 1} : Cardinality(T) \in Nat /\ Cardinality(T) <= Cardinality(S) + c
                          /\ b + c <= a + 1
  <2>1. CASE T \subseteq S /\ ~SetUp(h)
    <3>1. Cardinality(T) \in Nat /\ Cardinality(T) <= Cardinality(S)
      <4> HIDE DEF S, T
      <4> QED BY <1>2, <2>1, Shrinking, Zenon DEF S
    <3>2. Cardinality(T) <= Cardinality(S) + 0 /\ b + 0 <= a + 1
      <4>1. b + 0 <= a + 1
        OBVIOUS
      <4> HIDE DEF S, T, a, b
      <4> QED BY <1>2, <3>1, <4>1 DEF S
    <3> HIDE DEF S, T, a, b
    <3> QED BY <3>1, <3>2
  <2>2. CASE (\E id : T \subseteq S \cup {id}) /\ (SetUp(h)' => SetUp(h))
    <3>1. PICK id : T \subseteq S \cup {id}
      BY <2>2
    <3>2. IsFiniteSet(S \cup {id}) /\ Cardinality(S \cup {id}) \in Nat
          /\ Cardinality(S \cup {id}) <= Cardinality(S) + 1
      <4> HIDE DEF S
      <4>1. IsFiniteSet(S) /\ Cardinality(S) \in Nat
        BY <1>2 DEF S
      <4>2. /\ IsFiniteSet(S \cup {id})
            /\ Cardinality(S \cup {id}) = IF id \in S THEN Cardinality(S) ELSE Cardinality(S) + 1
        BY <4>1, FS_AddElement, ZenonT(30)
      <4> QED BY <4>1, <4>2
    <3>3. Cardinality(T) \in Nat /\ Cardinality(T) <= Cardinality(S \cup {id})
      <4> HIDE DEF S, T
      <4> QED BY <3>1, <3>2, Shrinking, Zenon
    <3>4. b + 1 <= a + 1
      BY <2>2
    <3>5. Cardinality(T) <= Cardinality(S) + 1
      <4> HIDE DEF S, T
      <4> QED BY <1>2, <3>2, <3>3 DEF S
    <3> HIDE DEF S, T, a, b
    <3> QED BY <3>3, <3>4, <3>5
  <2> QED BY <2>1, <2>2
<1>4. a \in Nat /\ b \in Nat
  OBVIOUS
<1>5. Cardinality(S) + a <= relay[h].tokens
  BY DEF ServedAt
<1>6. Cardinality(T) + b <= relay'[h].tokens
  <2> HIDE DEF S, T, a, b
  <2> QED BY <1>1, <1>2, <1>3, <1>4, <1>5 DEF S
<1> QED BY <1>6 DEF ServedAt

\* Every effect keeps Served.
LEMMA ServedStep ==
  Types /\ SettingUp /\ Counted /\ Solvent /\ Served /\ Effect => Served'
<1> SUFFICES ASSUME Types, SettingUp, Counted, Solvent, Served, Effect, ~par'.broke, NEW h \in Hops
             PROVE  ServedAt(h)'
  BY DEF Served
<1>0. \A m \in net : m.hop \in Hops
  BY DEF Types, MessageType
<1>a. ASSUME ~par.broke, UNCHANGED <<stream, relay>>, par'.asked = par.asked,
             \A k \in net' : k.type \in {"receipt", "setup_reply"} => k \in net
      PROVE  ServedAt(h)'
  <2>1. ServedAt(h) /\ relay'[h].tokens = relay[h].tokens
    BY <1>a DEF Served
  <2>2. Handled(h)' \subseteq Handled(h)
    BY <1>a DEF Handled
  <2>3. SetUp(h)' => SetUp(h)
    BY <1>a DEF SetUp
  <2> QED BY <2>1, <2>2, <2>3, ServedKept
<1>1. CASE Began
  <2>1. \A k \in net' : k.type \in {"receipt", "setup_reply"} => k \in net
    BY <1>1 DEF Began, Message
  <2>2. ~par.broke /\ UNCHANGED <<stream, relay>> /\ par'.asked = par.asked
    BY <1>1 DEF Began, SamePar
  <2> QED BY <1>a, <2>1, <2>2
<1>2. CASE Stopped \/ Answered \/ Credited
  BY <1>2, <1>a DEF Stopped, Answered, Credited, SamePar
<1>3. CASE Lost
  <2>1. net' \subseteq net
    BY <1>3 DEF Lost
  <2> QED BY <1>3, <1>a, <2>1 DEF Lost
<1>4. ASSUME NEW m \in net, Offered(m) PROVE ServedAt(h)'
  <2>1. UNCHANGED <<stream, par>> /\ m.type = "setup" /\ m.hop \in Hops
    BY <1>0, <1>4 DEF Offered
  <2>2. ~par.broke /\ ServedAt(h)
    BY <2>1 DEF Served
  <2>3. \A k \in net' : k \in net \/ (k.type = "setup_reply" /\ k.hop = m.hop)
    BY <1>4 DEF Offered, Message
  <2>4. Handled(h)' \subseteq Handled(h)
    BY <2>1, <2>3 DEF Handled
  <2>5. CASE h = m.hop
    <3>1. ~SetUp(h)
      BY <2>1, <2>5 DEF SetUp, SettingUp, OfSetup
    <3>2. relay'[h].tokens = relay[h].tokens + 1
      BY <1>4, <2>5 DEF Offered
    <3> QED BY <2>2, <2>4, <3>1, <3>2, ServedMore, SMTT(30)
  <2>6. CASE h # m.hop
    <3>1. SetUp(h)' => SetUp(h)
      BY <2>1, <2>3, <2>6 DEF SetUp
    <3>2. relay'[h].tokens = relay[h].tokens
      BY <1>4, <2>6, SMTT(30) DEF Offered
    <3> QED BY <2>2, <2>4, <3>1, <3>2, ServedKept, SMTT(30)
  <2> QED BY <2>5, <2>6, SMTT(30)
<1>5. ASSUME NEW m \in net, Accepted(m) PROVE ServedAt(h)'
  <2>1. /\ \A i \in Hops \ {m.hop} : stream'[i] = stream[i]
        /\ m.hop \in Hops /\ stream'[m.hop].deferreds = stream[m.hop].deferreds
        /\ m.type = "setup_reply" /\ net' = net \ {m} /\ UNCHANGED relay
        /\ par'.asked = par.asked /\ par'.broke = par.broke
    BY <1>0, <1>5 DEF Accepted
  <2>2. ServedAt(h) /\ relay'[h].tokens = relay[h].tokens
    BY <2>1 DEF Served
  <2>3. Handled(h)' \subseteq Handled(h)
    <3>1. stream'[h].deferreds = stream[h].deferreds
      BY <2>1
    <3> QED BY <2>1, <3>1 DEF Handled
  <2>4. SetUp(h)' => SetUp(h)
    BY <2>1 DEF SetUp
  <2> QED BY <2>2, <2>3, <2>4, ServedKept, SMTT(30)
<1>6. ASSUME NEW m \in net, Forwarded(m) PROVE ServedAt(h)'
  <2>1. \A k \in net' : k.type \in {"receipt", "setup_reply"} => k \in net
    BY <1>6, SMTT(30) DEF Forwarded, Message
  <2> QED BY <1>6, <1>a, <2>1 DEF Forwarded
<1>7. ASSUME NEW m \in net, Paid(m) PROVE ServedAt(h)'
  <2>1. UNCHANGED <<stream, par>> /\ m.hop \in Hops
    BY <1>0, <1>7 DEF Paid
  <2>2. ServedAt(h)
    BY <2>1 DEF Served
  <2>3. \A k \in net' : k \in net \/ (k.type = "receipt" /\ k.hop = m.hop /\ k.id = m.id)
    BY <1>7 DEF Paid, Message
  <2>4. SetUp(h)' => SetUp(h)
    BY <2>1, <2>3, SMTT(30) DEF SetUp
  <2>5. CASE h = m.hop
    <3>1. Handled(h)' \subseteq Handled(h) \cup {m.id}
      BY <2>1, <2>3 DEF Handled
    <3>2. relay'[h].tokens = relay[h].tokens + 1
      BY <1>7, <2>5 DEF Paid
    <3> QED BY <2>2, <2>4, <3>1, <3>2, ServedMore
  <2>6. CASE h # m.hop
    <3>1. Handled(h)' \subseteq Handled(h)
      BY <2>1, <2>3, <2>6, ZenonT(30) DEF Handled
    <3>2. relay'[h].tokens = relay[h].tokens
      BY <1>7, <2>6 DEF Paid
    <3> QED BY <2>2, <2>4, <3>1, <3>2, ServedKept, ZenonT(30)
  <2> QED BY <2>5, <2>6
<1>8. ASSUME NEW m \in net, NEW p, Received(m, p) PROVE ServedAt(h)'
  <2>1. ~par.broke /\ par'.asked = par.asked /\ UNCHANGED relay /\ m.hop \in Hops /\ m.type = "receipt"
    BY <1>0, <1>8, ZenonT(30) DEF Received, Receiving, Settling
  <2>2. stream[m.hop].pending = <<>>
    BY <2>1, SMTT(30) DEF Solvent
  <2>3. /\ net' = net \ {m}
        /\ stream'[m.hop].deferreds = stream[m.hop].deferreds \ {m.id}
        /\ stream'[m.hop].setupDone = stream[m.hop].setupDone
        /\ \A i \in Hops \ {m.hop} : stream'[i] = stream[i]
    BY <1>8, <2>2 DEF Received
  <2>4. ServedAt(h) /\ relay'[h].tokens = relay[h].tokens
    BY <2>1 DEF Served
  <2>5. SetUp(h)' => SetUp(h)
    BY <2>3 DEF SetUp
  <2>6. Handled(h)' \subseteq Handled(h)
    <3> SUFFICES ASSUME NEW id \in Handled(h)' PROVE id \in Handled(h)
      OBVIOUS
    <3>1. id \in 0 .. par.asked - 1
      BY <2>1 DEF Handled
    <3>2. \/ id \notin stream'[h].deferreds
          \/ \E k \in net' : k.type = "receipt" /\ k.hop = h /\ k.id = id
      BY DEF Handled
    <3>3. CASE h = m.hop /\ id = m.id
      BY <2>1, <3>1, <3>3 DEF Handled
    <3>4. CASE ~(h = m.hop /\ id = m.id)
      <4>1. id \in stream[h].deferreds => id \in stream'[h].deferreds
        BY <2>3, <3>4
      <4> QED BY <2>3, <3>1, <3>2, <4>1 DEF Handled
    <3> QED BY <3>3, <3>4
  <2> QED BY <2>4, <2>5, <2>6, ServedKept, SMTT(30)
<1>9. ASSUME NEW token, NEW paid, NEW p, Requested(token, paid, p) PROVE ServedAt(h)'
  <2>1. /\ ~par.broke /\ paid = Starting /\ par'.asked = par.asked + 1 /\ UNCHANGED relay
        /\ par.setupDone /\ ~par.done /\ par.inflight < MAX_MERCHANT_TOKENS
    BY <1>9 DEF Requested, Requesting, Settling
  <2>2. h \in Starting /\ h \in paid
    BY <2>1, AllStart, SMTT(30)
  <2>3. stream'[h].deferreds = stream[h].deferreds \cup {par.asked}
        /\ stream'[h].setupDone = stream[h].setupDone
    BY <1>9, <2>2, Zenon DEF Requested
  <2>4. \A k \in net' : k.type \in {"receipt", "setup_reply"} => k \in net
    <3>1. net' = net \cup {Message("bank_relay", i, par.asked, {token[i]}) : i \in paid}
      BY <1>9 DEF Requested
    <3> QED BY <3>1 DEF Message
  <2>5. ServedAt(h) /\ relay'[h].tokens = relay[h].tokens
    BY <2>1 DEF Served
  <2>6. SetUp(h)' => SetUp(h)
    BY <2>3, <2>4 DEF SetUp
  <2>7. Handled(h)' \subseteq Handled(h)
    <3> SUFFICES ASSUME NEW id \in Handled(h)' PROVE id \in Handled(h)
      OBVIOUS
    <3>1. /\ id \in 0 .. (par.asked + 1) - 1
          /\ \/ id \notin stream[h].deferreds \cup {par.asked}
             \/ \E k \in net : k.type = "receipt" /\ k.hop = h /\ k.id = id
      BY <2>1, <2>3, <2>4 DEF Handled
    <3>2. id # par.asked
      <4> SUFFICES ASSUME id = par.asked PROVE FALSE
        OBVIOUS
      <4>1. PICK k \in net : k.type = "receipt" /\ k.hop = h /\ k.id = par.asked
        BY <3>1, SMTT(30)
      <4>2. par.asked \in stream[h].deferreds
        BY <2>1, <4>1 DEF Solvent, OfSetup
      <4> QED BY <4>2, FiniteDeferreds
    <3>3. par.asked \in Nat
      BY DEF Types, ParType
    <3>4. id \in 0 .. par.asked - 1
      BY <3>1, <3>2, <3>3
    <3> QED BY <3>1, <3>4 DEF Handled
  <2> QED BY <2>5, <2>6, <2>7, ServedKept, ZenonT(30)
<1> QED BY <1>1, <1>2, <1>3, <1>4, <1>5, <1>6, <1>7, <1>8, <1>9, ZenonT(30) DEF Effect

\* The payments in A are settled, and at most one command is given for each.
LEMMA OrderedKept ==
  ASSUME Types, Types', Ordered, NEW A, IsFiniteSet(A),
         A \subseteq (Fired \ par.waiting)', Fired \ par.waiting \subseteq (Fired \ par.waiting)',
         A \cap (Fired \ par.waiting) = {},
         NEW g \in {0, 1},
         (IF par'.setupDone THEN 1 ELSE 0) = (IF par.setupDone THEN 1 ELSE 0) + g,
         tor'.tokens + Len(tor'.cmds) <= tor.tokens + Len(tor.cmds) + Cardinality(A) + g
  PROVE  Ordered'
<1> DEFINE S == Fired \ par.waiting
           T == (Fired \ par.waiting)'
           s == IF par.setupDone THEN 1 ELSE 0
           t == IF par'.setupDone THEN 1 ELSE 0
           k == tor.tokens + Len(tor.cmds)
           l == tor'.tokens + Len(tor'.cmds)
<1>1. par.asked \in Nat /\ par'.asked \in Nat /\ k \in Nat /\ l \in Nat
  <2>1. tor \in TorType /\ tor' \in TorType /\ par \in ParType /\ par' \in ParType
    BY DEF Types
  <2> QED BY <2>1, SMTT(30) DEF ParType, TorType
<1>2. IsFiniteSet(S) /\ Cardinality(S) \in Nat
  BY <1>1, FiniteIds DEF Fired
<1>3. IsFiniteSet(T) /\ Cardinality(T) \in Nat
  <2>1. T \subseteq 0 .. par'.asked - 1
    BY DEF Fired
  <2>2. IsFiniteSet(0 .. par'.asked - 1)
    <3>1. par'.asked - 1 \in Int
      BY <1>1
    <3> QED BY <3>1, FS_Interval
  <2> HIDE DEF T
  <2> QED BY <2>1, <2>2, Shrinking, Zenon
<1>4. Cardinality(S) + Cardinality(A) <= Cardinality(T) /\ Cardinality(A) \in Nat
  <2>1. S \cup A \subseteq T /\ S \cap A = {}
    OBVIOUS
  <2> HIDE DEF S, T
  <2>2. IsFiniteSet(S \cup A)
        /\ Cardinality(S \cup A) = Cardinality(S) + Cardinality(A) - Cardinality(S \cap A)
    BY <1>2, FS_Union, Zenon DEF S
  <2>3. Cardinality(S \cup A) <= Cardinality(T)
    BY <1>3, <2>1, Shrinking, Zenon DEF T
  <2>4. Cardinality(S \cap A) = 0 /\ Cardinality(A) \in Nat
    BY <2>1, FS_EmptySet, FS_CardinalityType, ZenonT(30)
  <2> QED BY <1>2, <1>3, <2>2, <2>3, <2>4 DEF S, T
<1>5. s \in Nat /\ t = s + g /\ k <= s + Cardinality(S) /\ l <= k + Cardinality(A) + g /\ g \in Nat
  BY DEF Ordered
<1>6. l <= t + Cardinality(T)
  <2> HIDE DEF S, T, s, t, k, l
  <2> QED BY <1>1, <1>2, <1>3, <1>4, <1>5, SMTT(30) DEF S, T
<1> QED BY <1>6 DEF Ordered

\* Every effect keeps Ordered.
LEMMA OrderedStep ==
  Types /\ Types' /\ SettingUp /\ Ordered /\ Effect => Ordered'
<1> SUFFICES ASSUME Types, Types', SettingUp, Ordered, Effect PROVE Ordered'
  OBVIOUS
<1>0. /\ tor.tokens \in Nat /\ Len(tor.cmds) \in Nat /\ tor'.tokens \in Nat /\ Len(tor'.cmds) \in Nat
      /\ tor.cmds \in Seq(Commands) /\ par.asked \in Nat
  BY SMTT(30) DEF Types, ParType, TorType
<1>e. IsFiniteSet({}) /\ Cardinality({}) = 0
  BY FS_EmptySet
<1>a. ASSUME Fired \ par.waiting \subseteq (Fired \ par.waiting)',
             par'.setupDone = par.setupDone,
             tor'.tokens + Len(tor'.cmds) <= tor.tokens + Len(tor.cmds)
      PROVE  Ordered'
  <2>1. (IF par'.setupDone THEN 1 ELSE 0) = (IF par.setupDone THEN 1 ELSE 0) + 0
    BY <1>a
  <2>2. tor'.tokens + Len(tor'.cmds) <= tor.tokens + Len(tor.cmds) + Cardinality({}) + 0
    BY <1>0, <1>a, <1>e
  <2> QED BY <1>a, <1>e, <2>1, <2>2, OrderedKept, Zenon
<1>b. ASSUME UNCHANGED stream, par'.asked = par.asked, par'.waiting \subseteq par.waiting
      PROVE  Fired \ par.waiting \subseteq (Fired \ par.waiting)'
  BY <1>b DEF Fired
<1>1. CASE Began \/ Stopped \/ Credited \/ Lost
  <2>1. /\ UNCHANGED stream /\ par'.asked = par.asked /\ par'.waiting \subseteq par.waiting
        /\ par'.setupDone = par.setupDone /\ tor'.tokens = tor.tokens /\ tor'.cmds = tor.cmds
    BY <1>1 DEF Began, Stopped, Credited, Lost, SamePar
  <2>2. tor'.tokens + Len(tor'.cmds) <= tor.tokens + Len(tor.cmds)
    BY <1>0, <2>1
  <2> QED BY <1>a, <1>b, <2>1, <2>2, ZenonT(30)
<1>2. CASE Answered
  <2>1. UNCHANGED <<stream, par>>
    BY <1>2 DEF Answered
  <2>2. Len(tor'.cmds) = Len(tor.cmds) - 1
    BY <1>0, <1>2 DEF Answered
  <2>3. tor'.tokens <= tor.tokens + 1
    BY <1>0, <1>2 DEF Answered
  <2>4. tor'.tokens + Len(tor'.cmds) <= tor.tokens + Len(tor.cmds)
    BY <1>0, <2>2, <2>3
  <2> QED BY <1>a, <1>b, <2>1, <2>4
<1>3. ASSUME NEW m \in net, Offered(m) \/ Forwarded(m) \/ Paid(m) PROVE Ordered'
  <2>1. UNCHANGED <<par, stream, tor>>
    BY <1>3 DEF Offered, Forwarded, Paid
  <2>2. tor'.tokens + Len(tor'.cmds) <= tor.tokens + Len(tor.cmds)
    BY <1>0, <2>1
  <2> QED BY <1>a, <1>b, <2>1, <2>2, ZenonT(30)
<1>4. ASSUME NEW m \in net, Accepted(m) PROVE Ordered'
  <2>1. /\ \A h \in Hops : stream'[h].deferreds = stream[h].deferreds
        /\ par'.asked = par.asked /\ par'.waiting = par.waiting
    BY <1>4, Zenon DEF Accepted
  <2>2. Fired \ par.waiting \subseteq (Fired \ par.waiting)'
    BY <2>1, SMTT(30) DEF Fired
  <2>3. CASE UNCHANGED <<par, tor>>
    <3>1. tor'.tokens + Len(tor'.cmds) <= tor.tokens + Len(tor.cmds)
      BY <1>0, <2>3
    <3> QED BY <1>a, <2>2, <2>3, <3>1
  <2>4. CASE ~UNCHANGED <<par, tor>>
    <3>1. ~par.setupDone
      BY <1>4 DEF Accepted, SettingUp, OfSetup, Types, MessageType
    <3>2. par'.setupDone /\ tor'.tokens = tor.tokens /\ tor'.cmds = Append(tor.cmds, "start")
      BY <1>4, <2>4 DEF Accepted
    <3>3. Len(tor'.cmds) = Len(tor.cmds) + 1
      BY <1>0, <3>2
    <3>4. (IF par'.setupDone THEN 1 ELSE 0) = (IF par.setupDone THEN 1 ELSE 0) + 1
      BY <3>1, <3>2
    <3>5. tor'.tokens + Len(tor'.cmds) <= tor.tokens + Len(tor.cmds) + Cardinality({}) + 1
      BY <1>0, <1>e, <3>2, <3>3, SMTT(30)
    <3> QED BY <1>e, <2>2, <3>4, <3>5, OrderedKept, ZenonT(30)
  <2> QED BY <2>3, <2>4, SMTT(30)
<1>5. ASSUME NEW p, Settling(p), p.setupDone = par.setupDone,
             par'.asked \in {par.asked, par.asked + 1}, p.waiting \in SUBSET (0 .. par'.asked - 1),
             p.waiting \in {par.waiting, par.waiting \cup {par.asked}},
             \A id \in 0 .. par.asked - 1 :
                (\A h \in Hops : id \notin stream[h].deferreds)
                   => (\A h \in Hops : id \notin stream'[h].deferreds),
             \A id \in Fired : id \in par.waiting <=> id \in p.waiting
      PROVE  Ordered'
  <2> DEFINE all == Settled(p, stream')
             A == IF p.done THEN {} ELSE all
  <2>1. /\ par'.waiting = p.waiting \ all /\ IsFiniteSet(all) /\ all \subseteq p.waiting
        /\ par'.setupDone = par.setupDone /\ tor'.tokens = tor.tokens
        /\ Len(tor'.cmds) = Len(tor.cmds) + (IF p.done THEN 0 ELSE Cardinality(all))
        /\ Cardinality(all) \in Nat
    BY <1>5, SMTT(30) DEF Settling
  <2>2. all \subseteq (Fired \ par.waiting)'
    BY <1>5, <2>1, Zenon DEF Settled, Fired
  <2>3. Fired \ par.waiting \subseteq (Fired \ par.waiting)'
    <3> SUFFICES ASSUME NEW id \in Fired, id \notin par.waiting
                 PROVE  id \in (Fired \ par.waiting)'
      OBVIOUS
    <3>1. id \in 0 .. par.asked - 1 /\ \A h \in Hops : id \notin stream'[h].deferreds
      BY <1>5 DEF Fired
    <3>2. id \in 0 .. par'.asked - 1
      BY <1>0, <1>5, <3>1, SMTT(30)
    <3>3. id \notin par'.waiting
      BY <1>5, <2>1, SMTT(30)
    <3> QED BY <3>1, <3>2, <3>3 DEF Fired
  <2>4. all \cap (Fired \ par.waiting) = {}
    BY <1>5, <2>1, SMTT(30)
  <2>5. /\ IsFiniteSet(A) /\ A \subseteq (Fired \ par.waiting)' /\ A \cap (Fired \ par.waiting) = {}
        /\ Cardinality(A) = IF p.done THEN 0 ELSE Cardinality(all)
    <3> HIDE DEF all
    <3>1. CASE p.done
      BY <1>e, <3>1
    <3>2. CASE ~p.done
      BY <2>1, <2>2, <2>4, <3>2
    <3> QED BY <3>1, <3>2
  <2>6. (IF par'.setupDone THEN 1 ELSE 0) = (IF par.setupDone THEN 1 ELSE 0) + 0
    BY <2>1
  <2>7. tor'.tokens + Len(tor'.cmds) <= tor.tokens + Len(tor.cmds) + Cardinality(A) + 0
    <3>1. Len(tor'.cmds) = Len(tor.cmds) + Cardinality(A) /\ Cardinality(A) \in Nat
      <4> HIDE DEF all, A
      <4> QED BY <2>1, <2>5
    <3> HIDE DEF A
    <3> QED BY <1>0, <2>1, <3>1
  <2> HIDE DEF A
  <2> QED BY <2>3, <2>5, <2>6, <2>7, OrderedKept, ZenonT(30)
<1>6. ASSUME NEW m \in net, NEW p, Received(m, p) PROVE Ordered'
  <2>1. \A i \in Hops : stream'[i].deferreds \subseteq stream[i].deferreds
    <3>1. stream'[m.hop].deferreds \subseteq stream[m.hop].deferreds
      BY <1>6, SMTT(30) DEF Received
    <3> QED BY <1>6, <3>1, ZenonT(30) DEF Received
  <2>2. /\ Settling(p) /\ p.setupDone = par.setupDone /\ par'.asked = par.asked
        /\ p.waiting = par.waiting
    BY <1>6, Zenon DEF Received, Receiving, Settling
  <2>3. p.waiting \in SUBSET (0 .. par'.asked - 1)
    BY <2>2, Zenon DEF Types
  <2>4. \A id \in 0 .. par.asked - 1 :
           (\A h \in Hops : id \notin stream[h].deferreds)
              => (\A h \in Hops : id \notin stream'[h].deferreds)
    BY <2>1, SMTT(30)
  <2> QED BY <1>5, <2>2, <2>3, <2>4, Zenon
<1>7. ASSUME NEW token, NEW paid, NEW p, Requested(token, paid, p) PROVE Ordered'
  <2>1. \A h \in Hops : stream'[h].deferreds \subseteq stream[h].deferreds \cup {par.asked}
    <3> SUFFICES ASSUME NEW h \in Hops
                 PROVE  stream'[h].deferreds \subseteq stream[h].deferreds \cup {par.asked}
      OBVIOUS
    <3>1. CASE h \in Starting
      <4>1. stream'[h].deferreds = IF h \in paid THEN stream[h].deferreds \cup {par.asked}
                                   ELSE stream[h].deferreds \ {par.asked}
        BY <1>7, <3>1, Zenon DEF Requested
      <4> QED BY <4>1, SMTT(30)
    <3>2. CASE h \notin Starting
      <4>1. stream'[h].deferreds = stream[h].deferreds \cup {par.asked}
        BY <1>7, <3>2, Zenon DEF Requested
      <4> QED BY <4>1
    <3> QED BY <3>1, <3>2, SMTT(30)
  <2>2. /\ Settling(p) /\ p.setupDone = par.setupDone /\ par'.asked = par.asked + 1
        /\ p.waiting = par.waiting \cup {par.asked}
    BY <1>7, Zenon DEF Requested, Requesting, Settling
  <2>3. p.waiting \in SUBSET (0 .. par'.asked - 1)
    <3>1. par.waiting \subseteq 0 .. par.asked - 1
      BY DEF Types
    <3> QED BY <1>0, <2>2, <3>1, SMTT(30)
  <2>4. ASSUME NEW id \in 0 .. par.asked - 1, \A h \in Hops : id \notin stream[h].deferreds
        PROVE  \A h \in Hops : id \notin stream'[h].deferreds
    <3>1. id # par.asked
      BY <1>0
    <3> QED BY <2>1, <2>4, <3>1
  <2>5. \A id \in Fired : id \in par.waiting <=> id \in p.waiting
    <3>1. \A id \in Fired : id # par.asked
      BY <1>0 DEF Fired
    <3> QED BY <2>2, <3>1
  <2> QED BY <1>5, <2>2, <2>3, <2>4, <2>5, Zenon
<1> QED BY <1>1, <1>2, <1>3, <1>4, <1>6, <1>7, ZenonT(30) DEF Effect

-----------------------------------------------------------------------------
(***************************************************************************)
(* The theorems.                                                           *)
(***************************************************************************)
PaymentsInv == Types /\ SettingUp /\ Stocked /\ Counted /\ Solvent /\ Served /\ Ordered

\* A new circuit satisfies PaymentsInv.
LEMMA PaymentsInit == Init => PaymentsInv
<1> SUFFICES ASSUME Init PROVE PaymentsInv
  OBVIOUS
<1> USE Constants
<1>1. Types
  <2>1. /\ par = [started |-> FALSE, setupDone |-> FALSE, initialTokensAdded |-> FALSE,
              done |-> FALSE, asked |-> 0, queued |-> 0, inflight |-> 0, credited |-> 0,
              waiting |-> {}, broke |-> FALSE]
        /\ stream = [h \in Hops |-> [setupDone |-> FALSE, tokens |-> {}, deferreds |-> {},
                                 pending |-> <<>>]]
        /\ relay = [h \in Hops |-> [requests |-> {}, next |-> 0, tokens |-> 0]]
        /\ open = [n \in Nodes |-> TRUE]
        /\ net = {}
        /\ tor = [tokens |-> 0, cmds |-> <<>>, replies |-> <<>>]
    BY Zenon DEF Init
  <2>2. par \in ParType /\ par.waiting = {} /\ par.asked = 0
    BY <2>1, SMTT(30) DEF ParType
  <2>3. stream \in [Hops -> StreamType] /\ \A h \in Hops : stream[h].deferreds = {}
    BY <2>1, SMTT(30) DEF StreamType
  <2>4. relay \in [Hops -> RelayType]
    BY <2>1, SMTT(30) DEF RelayType
  <2>5. tor \in TorType
    BY <2>1, SMTT(30) DEF TorType
  <2>6. open \in [Nodes -> BOOLEAN] /\ net \in SUBSET MessageType
    BY <2>1, SMTT(30)
  <2> QED BY <2>2, <2>3, <2>4, <2>5, <2>6, Zenon DEF Types
<1>2. /\ par.setupDone = FALSE /\ par.asked = 0 /\ par.queued = 0 /\ par.initialTokensAdded = FALSE
      /\ par.waiting = {} /\ par.inflight = 0 /\ par.credited = 0 /\ par.started = FALSE
  BY SMTT(30) DEF Init
<1>3. /\ net = {} /\ tor.tokens = 0 /\ tor.cmds = <<>> /\ tor.replies = <<>>
      /\ Len(tor.cmds) = 0 /\ Len(tor.replies) = 0
  BY SMTT(30) DEF Init
<1>4. \A h \in Hops : /\ stream[h].setupDone = FALSE /\ stream[h].tokens = {}
                      /\ stream[h].deferreds = {} /\ stream[h].pending = <<>>
                      /\ relay[h].requests = {} /\ relay[h].tokens = 0
  BY DEF Init
<1>5. SettingUp
  BY <1>2, <1>3, <1>4 DEF SettingUp
<1>6. Stocked
  BY <1>3, <1>4 DEF Stocked, Numbered
<1>7. Counted
  <2>1. Cardinality(par.waiting) = 0
    BY <1>2, FS_EmptySet
  <2> QED BY <1>2, <1>3, <1>4, <2>1 DEF Counted, NoneForgotten
<1>8. Solvent
  BY <1>3, <1>4 DEF Solvent
<1>9. Served
  <2> SUFFICES ASSUME NEW h \in Hops PROVE ServedAt(h)
    BY DEF Served
  <2>1. Handled(h) = {} /\ ~SetUp(h)
    BY <1>2, <1>3, <1>4 DEF Handled, SetUp
  <2> QED BY <1>4, <2>1, FS_EmptySet DEF ServedAt
<1>10. Ordered
  <2>1. Fired \ par.waiting = {}
    BY <1>2 DEF Fired
  <2>2. Cardinality(Fired \ par.waiting) = 0
    BY <2>1, FS_EmptySet
  <2> QED BY <1>2, <1>3, <2>2 DEF Ordered
<1> QED BY <1>1, <1>5, <1>6, <1>7, <1>8, <1>9, <1>10, ZenonT(30) DEF PaymentsInv

\* Every step keeps PaymentsInv.
LEMMA PaymentsStep == PaymentsInv /\ [Next]_vars => PaymentsInv'
<1> SUFFICES ASSUME PaymentsInv, [Next]_vars PROVE PaymentsInv'
  OBVIOUS
<1>1. Types /\ SettingUp /\ Stocked /\ Counted /\ Solvent /\ Served /\ Ordered
  BY DEF PaymentsInv
<1>2. Effect
  BY <1>1, Effects
<1>3. Types' /\ SettingUp' /\ Stocked' /\ Counted'
  BY <1>1, <1>2, TypesStep, SettingUpStep, StockedStep, CountedStep
<1>4. Solvent' /\ Served' /\ Ordered'
  BY <1>1, <1>2, <1>3, SolventStep, ServedStep, OrderedStep
<1> QED BY <1>3, <1>4 DEF PaymentsInv

\* PaymentsInv holds in every state.
LEMMA PaymentsInvariant == Spec => []PaymentsInv
<1>1. Init => PaymentsInv
  BY PaymentsInit
<1>2. PaymentsInv /\ [Next]_vars => PaymentsInv'
  BY PaymentsStep
<1> QED BY <1>1, <1>2, PTL DEF Spec

\* What PaymentsInv says of the relays.
LEMMA PaidFirstHolds == PaymentsInv => PaidWhileSolvent
<1> SUFFICES ASSUME PaymentsInv, ~par.broke, NEW h \in Hops PROVE tor.tokens <= relay[h].tokens
  BY DEF PaidWhileSolvent, PaidFirst
<1> DEFINE F == Fired \ par.waiting
           s == IF par.setupDone THEN 1 ELSE 0
           u == IF SetUp(h) THEN 1 ELSE 0
<1>1. par.asked \in Nat /\ relay[h].tokens \in Nat /\ tor.tokens \in Nat /\ Len(tor.cmds) \in Nat
  BY DEF PaymentsInv, Types, ParType, RelayType, TorType
<1>2. F \subseteq Handled(h)
  BY DEF Fired, Handled
<1>3. IsFiniteSet(Handled(h)) /\ Cardinality(Handled(h)) \in Nat
  BY <1>1, FiniteIds DEF Handled
<1>4. Cardinality(F) \in Nat /\ Cardinality(F) <= Cardinality(Handled(h))
  <2> HIDE DEF F
  <2> QED BY <1>2, <1>3, Shrinking, Zenon
<1>5. s \in Nat /\ u \in Nat /\ s <= u
  BY DEF PaymentsInv, SettingUp, SetUp
<1>6. tor.tokens + Len(tor.cmds) <= s + Cardinality(F)
  BY DEF PaymentsInv, Ordered
<1>7. Cardinality(Handled(h)) + u <= relay[h].tokens
  BY DEF PaymentsInv, Served, ServedAt
<1> HIDE DEF F, s, u
<1> QED BY <1>1, <1>3, <1>4, <1>5, <1>6, <1>7

\* Every hop has ordered the tokens of a payment before the origin's Tor may spend
\* them (PaidWhileSolvent), a merchant token is in one place and known to its relay
\* (RequestsKnown), stock and expected receipts of a hop add up to what it was given
\* (StockKept), and no payment that refill_payments asked for is forgotten
\* (NoneForgotten): for circuits of every length and for every number of merchant
\* tokens, coins and payments, whatever is lost, late, refused or closed.
THEOREM PaymentsAreSound == Spec => []PaymentsSound
<1>1. PaymentsInv => PaymentsSound
  <2> SUFFICES ASSUME PaymentsInv PROVE PaymentsSound
    OBVIOUS
  <2>1. PaidWhileSolvent
    BY PaidFirstHolds
  <2>2. RequestsKnown
    BY DEF PaymentsInv, Stocked, RequestsKnown, Carrying
  <2>3. StockKept
    BY DEF PaymentsInv, Solvent, StockKept
  <2>4. NoneForgotten
    BY DEF PaymentsInv, Counted
  <2> QED BY <2>1, <2>2, <2>3, <2>4, Zenon DEF PaymentsSound
<1> QED BY <1>1, PaymentsInvariant, PTL

\* The counters of ClientPaymentHandler never go below zero, and nothing is queued for
\* after the setup: the branch of send_payment_request that queues is not reached.
NothingQueued == par.inflight >= 0 /\ par.queued = 0

\* inflightReadTokens and inflightWriteTokens of the client never fall below zero, and
\* no payment is ever queued behind the setup, because refill_payments runs only after
\* initial_tokens_added.
THEOREM CountersStayPositive == Spec => []NothingQueued
<1>1. PaymentsInv => NothingQueued
  <2> SUFFICES ASSUME PaymentsInv PROVE NothingQueued
    OBVIOUS
  <2>1. par.inflight \in Int /\ Len(tor.cmds) \in Nat /\ Len(tor.replies) \in Nat
        /\ Cardinality(par.waiting) \in Nat
    BY FiniteWaiting, FS_CardinalityType DEF PaymentsInv, Types, ParType, TorType
  <2>2. Cardinality(par.waiting) + Len(tor.cmds) + Len(tor.replies)
          + (IF par.started /\ ~par.setupDone THEN 1 ELSE 0) <= par.inflight
    BY DEF PaymentsInv, Counted
  <2>3. par.inflight >= 0
    BY <2>1, <2>2
  <2> QED BY <2>3 DEF NothingQueued, PaymentsInv, SettingUp
<1> QED BY <1>1, PaymentsInvariant, PTL

=============================================================================

---------------------------- MODULE WalletEffects ---------------------------
(***************************************************************************)
(* What the operators of Wallet do to the client's state: the messages in  *)
(* the queue and on the way, the coins held, asked for and on deposit, and *)
(* the files.  A lemma describes one operator by a relation of the states  *)
(* before and after it, and the proofs about the actions use the relation. *)
(***************************************************************************)
EXTENDS Wallet, FiniteSetTheorems, SequenceTheorems, WellFoundedInduction, TLAPS

-----------------------------------------------------------------------------
(***************************************************************************)
(* Sets of naturals and subsets of a given size.                           *)
(***************************************************************************)

\* A set of naturals has a least element.
LEMMA Least == ASSUME NEW T \in SUBSET Nat, T # {} PROVE \E x \in T : \A y \in T : x <= y
<1> DEFINE R == OpToRel(<, Nat)
<1>1. IsWellFoundedOn(R, Nat)
  BY NatLessThanWellFounded, Zenon
<1>2. \A x, y \in Nat : x < y => <<x, y>> \in R
  BY DEF OpToRel
<1> HIDE DEF R
<1>3. \E x \in T : \A y \in T : ~ (<<y, x>> \in R)
  BY <1>1, WFMin, Zenon
<1>4. PICK x \in T : \A y \in T : ~ (<<y, x>> \in R)
  BY <1>3, Zenon
<1>5. \A y \in T : ~(y < x)
  BY <1>2, <1>4, Zenon
<1> QED BY <1>5

\* The n oldest coins of a set, which get_acoins takes: they exist.
OldestOf(B, n, S) ==
    Cardinality(S) = n /\ \A x \in S, y \in B \ S : IntervalOf[x] <= IntervalOf[y]

\* There is a set of n oldest coins, if there are n coins.
LEMMA OldestExist ==
  ASSUME NEW B \in SUBSET Coins, NEW n \in 0 .. Cardinality(B)
  PROVE  \E S \in SUBSET B : OldestOf(B, n, S)
<1> DEFINE Bad == {m \in 0 .. Cardinality(B) : \A S \in SUBSET B : ~OldestOf(B, m, S)}
<1>1. IsFiniteSet(B) /\ Cardinality(B) \in Nat
  BY WalletAssumption, FS_Subset, FS_CardinalityType
<1>2. SUFFICES ASSUME Bad # {} PROVE FALSE
  BY <1>1
<1>3. PICK m \in Bad : \A k \in Bad : m <= k
  <2> Bad \in SUBSET Nat
    BY <1>1
  <2> HIDE DEF Bad
  <2> QED BY <1>2, Least
<1>4. CASE m = 0
  <2>1. OldestOf(B, 0, {})
    BY FS_EmptySet DEF OldestOf
  <2> QED BY <1>3, <1>4, <2>1
<1>5. CASE m # 0
  <2>1. m - 1 \in 0 .. Cardinality(B) /\ m - 1 \notin Bad /\ m \in 1 .. Cardinality(B)
    BY <1>1, <1>3, <1>5
  <2>2. PICK S \in SUBSET B : OldestOf(B, m - 1, S)
    BY <2>1
  <2>3. IsFiniteSet(S) /\ Cardinality(S) = m - 1
    BY <1>1, <2>2, FS_Subset DEF OldestOf
  <2>4. B \ S # {}
    <3> SUFFICES ASSUME B \ S = {} PROVE FALSE
      OBVIOUS
    <3>1. S = B
      OBVIOUS
    <3> QED BY <1>1, <2>1, <2>3, <3>1
  <2> DEFINE I == {IntervalOf[y] : y \in B \ S}
  <2>5. I \in SUBSET Nat /\ I # {}
    BY <2>4, WalletAssumption
  <2>6. PICK i \in I : \A j \in I : i <= j
    <3> HIDE DEF I
    <3> QED BY <2>5, Least
  <2>7. PICK x \in B \ S : i = IntervalOf[x]
    BY <2>6
  <2>8. \A y \in B \ S : IntervalOf[x] <= IntervalOf[y]
    BY <2>6, <2>7
  <2>9. Cardinality(S \cup {x}) = m
    <3>1. Cardinality(S \cup {x}) = Cardinality(S) + 1
      BY <2>3, <2>7, FS_AddElement, Zenon
    <3> QED BY <2>1, <2>3, <3>1
  <2>10. OldestOf(B, m, S \cup {x})
    BY <2>2, <2>7, <2>8, <2>9, WalletAssumption DEF OldestOf
  <2> QED BY <1>3, <2>7, <2>10
<1> QED BY <1>4, <1>5

-----------------------------------------------------------------------------
(***************************************************************************)
(* The messages of a client: a queue q and open connections C.             *)
(***************************************************************************)
Kinds == {"request", "deposit"}
MsgType == [kind : Kinds, coins : SUBSET Coins, final : BOOLEAN]
ConnType == [id : Nat, kind : Kinds, coins : SUBSET Coins, final : BOOLEAN,
             stage : {"connecting", "sent", "replied", "received"}, num : Nat, got : BOOLEAN,
             code : {"none", "0", "1", "error"}, bal : Nat, ivl : Nat]

\* A message of kind K is queued or under way; at most one is; the coins of requests
\* that have not been answered.
Pend(q, C, K) == (\E i \in 1 .. Len(q) : q[i].kind = K) \/ (\E k \in C : k.kind = K)
OneOf(q, C, K) ==
    /\ \A i, j \in 1 .. Len(q) : q[i].kind = K /\ q[j].kind = K => i = j
    /\ \A k, l \in C : k.kind = K /\ l.kind = K => k = l
    /\ (\A i \in 1 .. Len(q) : q[i].kind # K) \/ (\A k \in C : k.kind # K)
Asked(q, C) ==
    {c \in Coins : \/ \E i \in 1 .. Len(q) : q[i].kind = "request" /\ c \in q[i].coins
                   \/ \E k \in C : k.kind = "request" /\ k.stage # "received" /\ c \in k.coins}

\* A connection to the bank carries the message it is made for.
LEMMA ConnIsConn ==
  ASSUME NEW m \in MsgType, NEW n \in Nat
  PROVE  /\ Conn(m, n) \in ConnType /\ Conn(m, n).kind = m.kind /\ Conn(m, n).coins = m.coins
         /\ Conn(m, n).stage = "connecting" /\ Conn(m, n).final = m.final
         /\ Conn(m, n).got = FALSE /\ Conn(m, n).id = n
  BY DEF Conn, ConnType, MsgType

\* send_message while another message is in progress.
LEMMA QueueOneMore ==
  ASSUME NEW q \in Seq(MsgType), NEW C \in SUBSET ConnType, NEW m \in MsgType,
         NEW r, r = Append(q, m)
  PROVE  /\ r \in Seq(MsgType)
         /\ \A K \in Kinds : K # m.kind =>
              (Pend(r, C, K) <=> Pend(q, C, K)) /\ (OneOf(q, C, K) => OneOf(r, C, K))
         /\ Pend(r, C, m.kind) /\ (~Pend(q, C, m.kind) => OneOf(r, C, m.kind))
         /\ Asked(r, C) \subseteq Asked(q, C) \cup m.coins
         /\ m.kind = "deposit" => Asked(r, C) \subseteq Asked(q, C)
<1>1. /\ r \in Seq(MsgType) /\ Len(r) = Len(q) + 1 /\ Len(q) \in Nat /\ r[Len(q) + 1] = m
      /\ \A i \in 1 .. Len(q) : r[i] = q[i]
  BY DEF MsgType
<1>2. \A i \in 1 .. Len(r) : i \in 1 .. Len(q) \/ i = Len(q) + 1
  BY <1>1
<1>3. \A i \in 1 .. Len(q) : i \in 1 .. Len(r) /\ i # Len(q) + 1
  BY <1>1
<1>4. Len(q) + 1 \in 1 .. Len(r)
  BY <1>1
<1>5. ASSUME NEW K \in Kinds, K # m.kind
      PROVE  (Pend(r, C, K) <=> Pend(q, C, K)) /\ (OneOf(q, C, K) => OneOf(r, C, K))
  <2>1. \A i \in 1 .. Len(r) : r[i].kind = K => i \in 1 .. Len(q) /\ q[i].kind = K
    BY <1>1, <1>2, <1>5
  <2>2. \A i \in 1 .. Len(q) : i \in 1 .. Len(r) /\ r[i].kind = q[i].kind
    BY <1>1, <1>3
  <2> QED BY <2>1, <2>2, Zenon DEF Pend, OneOf
<1>6. Pend(r, C, m.kind)
  BY <1>1, <1>4, Zenon DEF Pend
<1>7. ~Pend(q, C, m.kind) => OneOf(r, C, m.kind)
  BY <1>1, <1>2, ZenonT(30) DEF Pend, OneOf
<1>8. Asked(r, C) \subseteq Asked(q, C) \cup m.coins
  BY <1>1, <1>2, Zenon DEF Asked
<1>9. m.kind = "deposit" => Asked(r, C) \subseteq Asked(q, C)
  BY <1>1, <1>2 DEF Asked
<1> QED BY <1>1, <1>5, <1>6, <1>7, <1>8, <1>9

\* send_next_message of a message that was not queued.
OneMore(q, C, m, D) ==
    /\ \A K \in Kinds : K # m.kind =>
         (Pend(q, D, K) <=> Pend(q, C, K)) /\ (OneOf(q, C, K) => OneOf(q, D, K))
    /\ Pend(q, D, m.kind) /\ (~Pend(q, C, m.kind) => OneOf(q, D, m.kind))
    /\ Asked(q, D) \subseteq Asked(q, C) \cup m.coins
    /\ m.kind = "deposit" => Asked(q, D) \subseteq Asked(q, C)

\* Connecting for a message adds its connection.
LEMMA ConnectOneMore ==
  ASSUME NEW q \in Seq(MsgType), NEW C \in SUBSET ConnType, NEW m \in MsgType,
         NEW n \in Nat, NEW D, D = C \cup {Conn(m, n)}
  PROVE  OneMore(q, C, m, D)
<1> DEFINE d == Conn(m, n)
<1>1. d \in ConnType /\ d.kind = m.kind /\ d.coins = m.coins
  BY ConnIsConn, Zenon
<1> HIDE DEF d
<1>2. D = C \cup {d}
  BY DEF d
<1>3. \A k \in D : k \in C \/ k = d
  BY <1>2
<1>4. d \in D /\ \A k \in C : k \in D
  BY <1>2
<1> QED BY <1>1, <1>2, <1>3, <1>4, Zenon DEF OneMore, Pend, OneOf, Asked

\* on_bank_message_done: the head of the queue is the next to be sent.
Shifted(q, C, r, D) ==
    /\ \A K \in Kinds :
         (Pend(r, D, K) <=> Pend(q, C, K)) /\ (OneOf(q, C, K) => OneOf(r, D, K))
    /\ Asked(r, D) \subseteq Asked(q, C)

\* Connecting for the first message of the queue takes it off.
LEMMA ConnectHead ==
  ASSUME NEW q \in Seq(MsgType), q # <<>>, NEW C \in SUBSET ConnType, NEW n \in Nat,
         NEW D, D = C \cup {Conn(Head(q), n)}, NEW r, r = Tail(q)
  PROVE  D \in SUBSET ConnType /\ r \in Seq(MsgType) /\ Shifted(q, C, r, D)
<1> DEFINE h == Head(q)
           d == Conn(h, n)
<1>1. /\ Len(q) \in Nat \ {0} /\ Head(q) = q[1] /\ q[1] \in MsgType /\ r \in Seq(MsgType)
      /\ Len(r) = Len(q) - 1 /\ \A i \in 1 .. Len(r) : r[i] = q[i + 1]
  <2>1. Head(q) = q[1] /\ q[1] \in MsgType /\ r \in Seq(MsgType) /\ Len(r) = Len(q) - 1
    BY HeadTailProperties
  <2>2. Len(q) \in Nat \ {0}
    BY EmptySeq
  <2>3. \A i \in 1 .. Len(r) : r[i] = q[i + 1]
    BY <2>1, <2>2
  <2> QED BY <2>1, <2>2, <2>3
<1>2. d \in ConnType /\ d.kind = q[1].kind /\ d.coins = q[1].coins
  <2>1. h = q[1] /\ h \in MsgType
    BY <1>1
  <2> HIDE DEF h
  <2>2. d \in ConnType /\ d.kind = h.kind /\ d.coins = h.coins
    BY <2>1, ConnIsConn, Zenon
  <2> QED BY <2>1, <2>2, Zenon
<1> HIDE DEF d
<1>3. D = C \cup {d}
  BY DEF d
<1>4. \A k \in D : k \in C \/ k = d
  BY <1>3
<1>5. d \in D /\ \A k \in C : k \in D
  BY <1>3
<1>6. \A i \in 1 .. Len(q) : i = 1 \/ (i - 1 \in 1 .. Len(r) /\ r[i - 1] = q[i])
  BY <1>1
<1>7. \A i \in 1 .. Len(r) : i + 1 \in 1 .. Len(q) /\ r[i] = q[i + 1] /\ i + 1 # 1
  BY <1>1
<1>8. 1 \in 1 .. Len(q)
  BY <1>1
<1>9. \A i, j \in 1 .. Len(r) : i + 1 = j + 1 => i = j
  BY <1>1
<1>10. D \in SUBSET ConnType
  BY <1>2, <1>3
<1>11. \A K \in Kinds : Pend(r, D, K) <=> Pend(q, C, K)
  BY <1>2, <1>4, <1>5, <1>6, <1>7, <1>8 DEF Pend
<1>12. ASSUME NEW K \in Kinds, OneOf(q, C, K) PROVE OneOf(r, D, K)
  <2>1. \A i, j \in 1 .. Len(r) : r[i].kind = K /\ r[j].kind = K => i = j
    BY <1>7, <1>9, <1>12 DEF OneOf
  <2>2. \A k, l \in D : k.kind = K /\ l.kind = K => k = l
    <3>1. \A k, l \in C : k.kind = K /\ l.kind = K => k = l
      BY <1>12, Zenon DEF OneOf
    <3>2. d.kind = K => \A k \in C : k.kind # K
      BY <1>2, <1>8, <1>12, Zenon DEF OneOf
    <3> QED BY <1>4, <3>1, <3>2, Zenon
  <2>3. (\A i \in 1 .. Len(r) : r[i].kind # K) \/ (\A k \in D : k.kind # K)
    <3>1. CASE \A i \in 1 .. Len(q) : q[i].kind # K
      BY <1>7, <3>1, Zenon
    <3>2. CASE (\A k \in C : k.kind # K) /\ q[1].kind # K
      BY <1>2, <1>4, <3>2, Zenon
    <3>3. CASE q[1].kind = K
      <4>1. \A i, j \in 1 .. Len(q) : q[i].kind = K /\ q[j].kind = K => i = j
        BY <1>12, Zenon DEF OneOf
      <4> QED BY <1>7, <1>8, <3>3, <4>1, Zenon
    <3> QED BY <1>12, <3>1, <3>2, <3>3, Zenon DEF OneOf
  <2> QED BY <2>1, <2>2, <2>3 DEF OneOf
<1>13. Asked(r, D) \subseteq Asked(q, C)
  BY <1>2, <1>4, <1>7, <1>8 DEF Asked
<1> QED BY <1>1, <1>10, <1>11, <1>12, <1>13, Zenon DEF Shifted

\* A connection is over.
LEMMA OneLess ==
  ASSUME NEW q \in Seq(MsgType), NEW C \in SUBSET ConnType, NEW k \in C, NEW D, D = C \ {k}
  PROVE  /\ D \in SUBSET ConnType
         /\ \A K \in Kinds : OneOf(q, C, K) => OneOf(q, D, K)
         /\ \A K \in Kinds : K # k.kind => (Pend(q, D, K) <=> Pend(q, C, K))
         /\ OneOf(q, C, k.kind) => ~Pend(q, D, k.kind)
         /\ Asked(q, D) \subseteq Asked(q, C)
<1>1. \A l \in D : l \in C /\ l # k
  OBVIOUS
<1>2. \A l \in C : l = k \/ l \in D
  OBVIOUS
<1>3. k \in ConnType /\ D \in SUBSET ConnType
  OBVIOUS
<1>4. \A K \in Kinds : OneOf(q, C, K) => OneOf(q, D, K)
  BY <1>1, Zenon DEF OneOf
<1>5. \A K \in Kinds : K # k.kind => (Pend(q, D, K) <=> Pend(q, C, K))
  BY <1>1, <1>2, Zenon DEF Pend
<1>6. OneOf(q, C, k.kind) => ~Pend(q, D, k.kind)
  BY <1>1, Zenon DEF OneOf, Pend
<1>7. Asked(q, D) \subseteq Asked(q, C)
  BY <1>1, Zenon DEF Asked
<1> QED BY <1>3, <1>4, <1>5, <1>6, <1>7, Zenon

\* A connection gets on: its record is replaced.
Advanced(q, C, k, j, D) ==
    /\ \A K \in Kinds :
         (Pend(q, D, K) <=> Pend(q, C, K)) /\ (OneOf(q, C, K) => OneOf(q, D, K))
    /\ Asked(q, D) \subseteq Asked(q, C)
    /\ OneOf(q, C, "request") /\ k.kind = "request" /\ j.stage = "received"
         => Asked(q, D) = {}
    /\ k.kind = "request" /\ k.stage # "received" => k.coins \subseteq Asked(q, C)

\* A connection that gets one stage further.
LEMMA OneMoves ==
  ASSUME NEW q \in Seq(MsgType), NEW C \in SUBSET ConnType, NEW k \in C, NEW j \in ConnType,
         j.kind = k.kind, j.coins = k.coins, j.stage = "received" \/ k.stage # "received",
         NEW D, D = (C \ {k}) \cup {j}
  PROVE  Advanced(q, C, k, j, D)
<1>1. \A l \in D : (l \in C /\ l # k) \/ l = j
  OBVIOUS
<1>2. \A l \in C : l = k \/ l \in D
  OBVIOUS
<1>3. D \in SUBSET ConnType /\ j \in D /\ k.coins \subseteq Coins
  BY DEF ConnType
<1>4. \A K \in Kinds : Pend(q, D, K) <=> Pend(q, C, K)
  BY <1>1, <1>2, <1>3, Zenon DEF Pend
<1>5. ASSUME NEW K \in Kinds, OneOf(q, C, K) PROVE OneOf(q, D, K)
  <2>1. \A l, h \in D : l.kind = K /\ h.kind = K => l = h
    BY <1>1, <1>5, Zenon DEF OneOf
  <2>2. (\A i \in 1 .. Len(q) : q[i].kind # K) \/ (\A l \in D : l.kind # K)
    BY <1>1, <1>5, Zenon DEF OneOf
  <2> QED BY <1>5, <2>1, <2>2, Zenon DEF OneOf
<1>6. Asked(q, D) \subseteq Asked(q, C)
  BY <1>1, Zenon DEF Asked
<1>7. OneOf(q, C, "request") /\ k.kind = "request" /\ j.stage = "received" => Asked(q, D) = {}
  BY <1>1, Zenon DEF Asked, OneOf
<1>8. k.kind = "request" /\ k.stage # "received" => k.coins \subseteq Asked(q, C)
  BY <1>3, Zenon DEF Asked
<1> QED BY <1>4, <1>5, <1>6, <1>7, <1>8, Zenon DEF Advanced

-----------------------------------------------------------------------------
(***************************************************************************)
(* The client's record.                                                    *)
(***************************************************************************)
ClType == [phase : {"off", "login", "in", "stopping", "done"},
           ACoins : SUBSET Coins, depositing : SUBSET Coins, interval : Nat, balance : Nat,
           coinsChanged : BOOLEAN, messageQueue : Seq(MsgType), messageInProgress : BOOLEAN,
           messageNum : Nat, requestInProgress : BOOLEAN, depositInProgress : BOOLEAN,
           conns : SUBSET ConnType, used : SUBSET Coins]

Waits(s, K) == Pend(s.messageQueue, s.conns, K)
Single(s, K) == OneOf(s.messageQueue, s.conns, K)
Wanted(s) == Asked(s.messageQueue, s.conns)

\* At most one request is queued or under way, and in normal operation at most one
\* deposit; the flags tell.
Honest(s) ==
    /\ Single(s, "request")
    /\ s.phase = "in" => /\ Single(s, "deposit")
                         /\ s.requestInProgress <=> Waits(s, "request")
                         /\ s.depositInProgress <=> Waits(s, "deposit")

\* A coin of the wallet is not being deposited, and one that is still asked for is
\* neither; all of them are coins the client has come across.
Apart(s) ==
    /\ s.ACoins \cap s.depositing = {}
    /\ Wanted(s) \cap (s.ACoins \cup s.depositing) = {}
    /\ s.ACoins \cup s.depositing \cup Wanted(s) \subseteq s.used

\* Before login nothing is under way.
Blank(s) ==
    s.phase \in {"off", "login"} =>
        /\ s.messageQueue = <<>> /\ s.conns = {} /\ s.ACoins = {} /\ s.depositing = {}
        /\ ~s.requestInProgress /\ ~s.depositInProgress

Sane(s) == s \in ClType /\ Honest(s) /\ Apart(s) /\ Blank(s)

\* All fields but those about messages are the same.
Same(s, r) ==
    /\ r.phase = s.phase /\ r.ACoins = s.ACoins /\ r.depositing = s.depositing
    /\ r.interval = s.interval /\ r.balance = s.balance /\ r.coinsChanged = s.coinsChanged
    /\ r.requestInProgress = s.requestInProgress
    /\ r.depositInProgress = s.depositInProgress /\ r.used = s.used

\* What send_next_message does to the client.
LEMMA SendNextStep ==
  ASSUME NEW s \in ClType, NEW m, NEW n, n = s.messageNum + 1, NEW r, r = SendNext(s, m),
         Conn(m, n) \in ConnType
  PROVE  /\ r \in ClType /\ Same(s, r) /\ r.messageInProgress = s.messageInProgress
         /\ r.messageQueue = s.messageQueue /\ r.conns = s.conns \cup {Conn(m, n)}
         /\ r.messageNum = n
<1> DEFINE D == s.conns \cup {Conn(m, n)}
<1>1. D \in SUBSET ConnType /\ n \in Nat
  BY DEF ClType
<1>2. r = [s EXCEPT !.messageNum = n, !.conns = D]
  BY Zenon DEF SendNext
<1>3. r.conns = D /\ r.messageNum = n
  <2> HIDE DEF D
  <2> QED BY <1>1, <1>2 DEF ClType
<1>4. r \in ClType /\ Same(s, r) /\ r.messageInProgress = s.messageInProgress
      /\ r.messageQueue = s.messageQueue
  <2> HIDE DEF D
  <2> QED BY <1>1, <1>2, Zenon DEF ClType, Same
<1> QED BY <1>3, <1>4

\* send_message
LEMMA SendStep ==
  ASSUME NEW s \in ClType, NEW m \in MsgType, NEW r, r = Send(s, m)
  PROVE  /\ r \in ClType /\ Same(s, r)
         /\ \A K \in Kinds : K # m.kind =>
              (Waits(r, K) <=> Waits(s, K)) /\ (Single(s, K) => Single(r, K))
         /\ Waits(r, m.kind) /\ (~Waits(s, m.kind) => Single(r, m.kind))
         /\ Wanted(r) \subseteq Wanted(s) \cup m.coins
         /\ m.kind = "deposit" => Wanted(r) \subseteq Wanted(s)
<1>1. CASE s.messageInProgress
  <2>1. r = [s EXCEPT !.messageQueue = Append(@, m)]
    BY <1>1 DEF Send
  <2>2. Append(s.messageQueue, m) \in Seq(MsgType)
    BY DEF ClType
  <2>3. /\ r \in ClType /\ Same(s, r) /\ r.conns = s.conns
        /\ r.messageQueue = Append(s.messageQueue, m)
    BY <2>1, <2>2, Zenon DEF ClType, Same
  <2>4. s.messageQueue \in Seq(MsgType) /\ s.conns \in SUBSET ConnType
    BY DEF ClType
  <2> DEFINE q == s.messageQueue
             C == s.conns
             p == r.messageQueue
  <2>5. /\ \A K \in Kinds : K # m.kind =>
              (Pend(p, C, K) <=> Pend(q, C, K)) /\ (OneOf(q, C, K) => OneOf(p, C, K))
        /\ Pend(p, C, m.kind) /\ (~Pend(q, C, m.kind) => OneOf(p, C, m.kind))
        /\ Asked(p, C) \subseteq Asked(q, C) \cup m.coins
        /\ m.kind = "deposit" => Asked(p, C) \subseteq Asked(q, C)
    <3>1. p = Append(q, m) /\ q \in Seq(MsgType) /\ C \in SUBSET ConnType
      BY <2>3, <2>4
    <3> HIDE DEF p, q, C
    <3> QED BY <3>1, QueueOneMore, Zenon
  <2> QED BY <2>3, <2>5, Zenon DEF Waits, Single, Wanted
<1>2. CASE ~s.messageInProgress
  <2> DEFINE u == [s EXCEPT !.messageInProgress = TRUE]
             n == s.messageNum + 1
  <2>1. /\ u \in ClType /\ Same(s, u) /\ u.messageQueue = s.messageQueue /\ u.conns = s.conns
        /\ u.messageNum = s.messageNum
    BY Zenon DEF ClType, Same
  <2>2. r = SendNext(u, m) /\ n \in Nat
    BY <1>2 DEF Send, ClType
  <2> HIDE DEF u, n
  <2>3. Conn(m, n) \in ConnType
    BY <2>2, ConnIsConn, Zenon
  <2>4. n = u.messageNum + 1
    BY <2>1 DEF n
  <2>5. /\ r \in ClType /\ Same(u, r) /\ r.conns = s.conns \cup {Conn(m, n)}
        /\ r.messageQueue = s.messageQueue
    <3>1. /\ r \in ClType /\ Same(u, r) /\ r.conns = u.conns \cup {Conn(m, n)}
          /\ r.messageQueue = u.messageQueue
      BY <2>1, <2>2, <2>3, <2>4, SendNextStep
    <3> QED BY <2>1, <3>1, Zenon
  <2>6. Same(s, r)
    BY <2>1, <2>5, Zenon DEF Same
  <2>7. s.messageQueue \in Seq(MsgType) /\ s.conns \in SUBSET ConnType
    BY DEF ClType
  <2> DEFINE q == s.messageQueue
             C == s.conns
             D == r.conns
  <2>8. OneMore(q, C, m, D)
    <3>1. D = C \cup {Conn(m, n)} /\ q \in Seq(MsgType) /\ C \in SUBSET ConnType /\ n \in Nat
      BY <2>2, <2>5, <2>7
    <3> HIDE DEF D, q, C
    <3> QED BY <3>1, ConnectOneMore, Zenon
  <2> QED BY <2>5, <2>6, <2>8, Zenon DEF OneMore, Waits, Single, Wanted
<1> QED BY <1>1, <1>2

\* What a change of the messages must leave for the client to stay sane.
LEMMA SaneKept ==
  ASSUME NEW s, NEW r, Sane(s), r \in ClType, Same(s, r),
         \A K \in Kinds : (Waits(r, K) <=> Waits(s, K)) /\ (Single(s, K) => Single(r, K)),
         Wanted(r) \subseteq Wanted(s), Blank(r)
  PROVE  Sane(r)
<1>1. Honest(r)
  BY Zenon DEF Sane, Honest, Same, Kinds
<1>2. Apart(r)
  BY DEF Sane, Apart, Same
<1> QED BY <1>1, <1>2 DEF Sane

\* on_bank_message_done
LEMMA MessageDoneStep ==
  ASSUME NEW s \in ClType, NEW r, r = MessageDone(s)
  PROVE  /\ r \in ClType /\ Same(s, r)
         /\ \A K \in Kinds : (Waits(r, K) <=> Waits(s, K)) /\ (Single(s, K) => Single(r, K))
         /\ Wanted(r) \subseteq Wanted(s)
         /\ s.messageQueue = <<>> => r.messageQueue = <<>> /\ r.conns = s.conns
<1>0. s.messageQueue \in Seq(MsgType) /\ s.conns \in SUBSET ConnType
  BY DEF ClType
<1>1. CASE s.messageQueue = <<>>
  <2>1. r = [s EXCEPT !.messageInProgress = FALSE]
    BY <1>1 DEF MessageDone
  <2>2. /\ r \in ClType /\ Same(s, r) /\ r.conns = s.conns
        /\ r.messageQueue = s.messageQueue
    BY <2>1, Zenon DEF ClType, Same
  <2> QED BY <1>1, <2>2, ZenonT(30) DEF Waits, Single, Wanted
<1>2. CASE s.messageQueue # <<>>
  <2> DEFINE q == s.messageQueue
             p == Tail(q)
             u == [s EXCEPT !.messageQueue = p]
             n == s.messageNum + 1
             h == Head(q)
  <2>1. p \in Seq(MsgType) /\ h \in MsgType /\ n \in Nat
    BY <1>2, <1>0, HeadTailProperties DEF ClType
  <2>2. /\ u \in ClType /\ Same(s, u) /\ u.messageQueue = p /\ u.conns = s.conns
        /\ u.messageNum = s.messageNum
    <3> HIDE DEF p
    <3> QED BY <2>1, Zenon DEF ClType, Same
  <2>3. r = SendNext(u, h)
    BY <1>2 DEF MessageDone
  <2>4. n = u.messageNum + 1
    BY <2>2
  <2> HIDE DEF u, n, h
  <2>5. Conn(h, n) \in ConnType
    BY <2>1, ConnIsConn, Zenon
  <2>6. /\ r \in ClType /\ Same(u, r) /\ r.conns = s.conns \cup {Conn(h, n)}
        /\ r.messageQueue = p
    <3> HIDE DEF p
    <3>1. /\ r \in ClType /\ Same(u, r) /\ r.conns = u.conns \cup {Conn(h, n)}
          /\ r.messageQueue = u.messageQueue
      BY <2>2, <2>3, <2>4, <2>5, SendNextStep
    <3> QED BY <2>2, <3>1, Zenon
  <2>7. Same(s, r)
    BY <2>2, <2>6, Zenon DEF Same
  <2>8. /\ \A K \in Kinds : (Pend(p, r.conns, K) <=> Pend(q, s.conns, K))
                            /\ (OneOf(q, s.conns, K) => OneOf(p, r.conns, K))
        /\ Asked(p, r.conns) \subseteq Asked(q, s.conns)
    <3> DEFINE C == s.conns
               D == r.conns
    <3>1. /\ q \in Seq(MsgType) /\ q # <<>> /\ C \in SUBSET ConnType /\ n \in Nat
          /\ D = C \cup {Conn(Head(q), n)} /\ p = Tail(q)
      BY <1>0, <1>2, <2>1, <2>6 DEF h
    <3> HIDE DEF C, D, q, p
    <3>2. Shifted(q, C, p, D)
      BY <3>1, ConnectHead, Zenon
    <3> QED BY <3>2, Zenon DEF C, D, q, p, Shifted
  <2> QED BY <1>2, <2>6, <2>7, <2>8, Zenon DEF Waits, Single, Wanted
<1> QED BY <1>1, <1>2

\* The coins that request_coins asks for are new, and of the client's interval.
NewCoins(s) == {c \in Coins \ s.used : IntervalOf[c] = s.interval}

\* A client asks for new coins only.
LEMMA AskingStep == ASSUME NEW s \in ClType PROVE Asking(s) \in SUBSET NewCoins(s)
<1> DEFINE B == NewCoins(s)
           n == Smaller(Smaller(ACOIN_BATCH_SIZE, s.balance), Cardinality(B))
<1>1. B \in SUBSET Coins
  BY DEF NewCoins
<1>2. Cardinality(B) \in Nat
  <2> HIDE DEF B
  <2> QED BY <1>1, WalletAssumption, FS_Subset, FS_CardinalityType
<1>3. n \in 0 .. Cardinality(B)
  <2>1. s.balance \in Nat /\ ACOIN_BATCH_SIZE \in Nat
    BY WalletAssumption DEF ClType
  <2> HIDE DEF B
  <2> QED BY <1>2, <2>1 DEF Smaller
<1>4. Asking(s) = CHOOSE S \in SUBSET B : Cardinality(S) = n
  BY Zenon DEF Asking, NewCoins
<1> HIDE DEF B, n
<1>5. \E S \in SUBSET B : Cardinality(S) = n
  BY <1>1, <1>3, OldestExist DEF OldestOf
<1>6. Asking(s) \in SUBSET B
  BY <1>4, <1>5, Zenon
<1> QED BY <1>6 DEF B

\* What asking for coins may change.
Asks(s, r) ==
    /\ r.phase = s.phase /\ r.ACoins = s.ACoins /\ r.depositing = s.depositing
    /\ r.interval = s.interval /\ r.balance = s.balance /\ r.coinsChanged = s.coinsChanged
    /\ r.depositInProgress = s.depositInProgress
    /\ s.used \subseteq r.used
    /\ Wanted(r) \subseteq Wanted(s) \cup NewCoins(s)
    /\ s.requestInProgress \/ s.phase # "in" => r = s

\* Not asking is a way of asking.
LEMMA AsksNothing == ASSUME NEW s PROVE Asks(s, s)
  BY DEF Asks

\* request_coins
LEMMA RequestCoinsStep ==
  ASSUME NEW s, Sane(s), s.phase \in {"in", "stopping"}, NEW r, r = RequestCoins(s)
  PROVE  Sane(r) /\ Asks(s, r)
<1> DEFINE A == Asking(s)
<1>1. CASE s.phase = "stopping" \/ s.requestInProgress \/ A = {}
  BY <1>1, AsksNothing, Zenon DEF RequestCoins
<1>2. CASE ~(s.phase = "stopping" \/ s.requestInProgress \/ A = {})
  <2> DEFINE W == s.used \cup A
             u == [s EXCEPT !.requestInProgress = TRUE, !.used = W]
             m == [kind |-> "request", coins |-> A, final |-> FALSE]
  <2>0. s \in ClType /\ s.phase = "in" /\ A \in SUBSET NewCoins(s)
    BY <1>2, AskingStep DEF Sane
  <2>1. r = Send(u, m)
    BY <1>2 DEF RequestCoins
  <2> HIDE DEF A
  <2>2. A \in SUBSET Coins /\ A \cap s.used = {} /\ W \in SUBSET Coins
    BY <2>0 DEF NewCoins, ClType
  <2>3. m \in MsgType /\ m.kind = "request" /\ m.coins = A
    BY <2>2 DEF MsgType, Kinds
  <2> HIDE DEF m
  <2>4. /\ u \in ClType /\ u.used = W /\ u.requestInProgress
        /\ u.phase = s.phase /\ u.ACoins = s.ACoins /\ u.depositing = s.depositing
        /\ u.interval = s.interval /\ u.balance = s.balance /\ u.coinsChanged = s.coinsChanged
        /\ u.depositInProgress = s.depositInProgress
        /\ u.messageQueue = s.messageQueue /\ u.conns = s.conns
    <3> HIDE DEF W
    <3> QED BY <2>0, <2>2, Zenon DEF ClType
  <2> HIDE DEF u, W
  <2>5. Waits(u, "request") <=> Waits(s, "request")
    BY <2>4, Zenon DEF Waits
  <2>6. ~Waits(s, "request") /\ Single(s, "deposit")
        /\ (s.depositInProgress <=> Waits(s, "deposit"))
    BY <1>2, <2>0 DEF Sane, Honest
  <2>7. /\ r \in ClType /\ Same(u, r)
        /\ (Waits(r, "deposit") <=> Waits(u, "deposit"))
        /\ (Single(u, "deposit") => Single(r, "deposit"))
        /\ Waits(r, "request") /\ (~Waits(u, "request") => Single(r, "request"))
        /\ Wanted(r) \subseteq Wanted(u) \cup A
    BY <2>1, <2>3, <2>4, SendStep DEF Kinds
  <2>8. /\ r.phase = s.phase /\ r.ACoins = s.ACoins /\ r.depositing = s.depositing
        /\ r.interval = s.interval /\ r.balance = s.balance /\ r.coinsChanged = s.coinsChanged
        /\ r.depositInProgress = s.depositInProgress /\ r.requestInProgress /\ r.used = W
    BY <2>4, <2>7, Zenon DEF Same
  <2>9. Wanted(r) \subseteq Wanted(s) \cup A
    BY <2>4, <2>7, Zenon DEF Wanted
  <2>10. Single(r, "request") /\ Single(r, "deposit") /\ (Waits(r, "deposit") <=> Waits(s, "deposit"))
    BY <2>4, <2>5, <2>6, <2>7, Zenon DEF Single, Waits
  <2>11. Honest(r)
    BY <2>6, <2>7, <2>8, <2>10, Zenon DEF Honest
  <2>12. Apart(r)
    BY <2>2, <2>8, <2>9 DEF Apart, Sane, W
  <2>13. Blank(r)
    BY <2>0, <2>8 DEF Blank
  <2>14. Asks(s, r)
    BY <1>2, <2>0, <2>8, <2>9 DEF Asks, W
  <2> QED BY <2>7, <2>11, <2>12, <2>13, <2>14 DEF Sane
<1> QED BY <1>1, <1>2


\* Messages, flags and coins being deposited are the same, the wallet holds no more.
Poorer(s, u) ==
    /\ u.phase = s.phase /\ u.ACoins \subseteq s.ACoins /\ u.depositing = s.depositing
    /\ u.requestInProgress = s.requestInProgress
    /\ u.depositInProgress = s.depositInProgress /\ u.used = s.used
    /\ u.messageQueue = s.messageQueue /\ u.conns = s.conns

\* A sane client that has lost coins is sane.
LEMMA SanePoorer == ASSUME NEW s, NEW u, Sane(s), u \in ClType, Poorer(s, u)
                    PROVE  Sane(u) /\ Wanted(u) = Wanted(s)
<1>1. /\ Wanted(u) = Wanted(s)
      /\ \A K \in Kinds : (Waits(u, K) <=> Waits(s, K)) /\ (Single(s, K) => Single(u, K))
  BY Zenon DEF Wanted, Waits, Single, Poorer
<1>2. Honest(u)
  BY <1>1, Zenon DEF Sane, Honest, Poorer, Kinds
<1>3. Apart(u)
  BY <1>1 DEF Sane, Apart, Poorer
<1>4. Blank(u)
  BY DEF Sane, Blank, Poorer
<1> QED BY <1>1, <1>2, <1>3, <1>4 DEF Sane

\* check_wallet_balance
LEMMA CheckWalletStep ==
  ASSUME NEW s, Sane(s), NEW r, r = CheckWallet(s)
  PROVE  Sane(r) /\ Asks(s, r)
<1>1. CASE r = s
  BY <1>1, AsksNothing, Zenon
<1>2. CASE s.phase \in {"in", "stopping"} /\ r = RequestCoins(s)
  BY <1>2, RequestCoinsStep
<1> QED BY <1>1, <1>2, Zenon DEF CheckWallet, LoggedIn

\* What news of the account and of the interval may change.
Informed(s, b, i, r) ==
    /\ r.phase = s.phase /\ r.depositing = s.depositing
    /\ r.ACoins = (IF i > s.interval THEN {c \in s.ACoins : IntervalOf[c] # s.interval - 1}
                   ELSE s.ACoins)
    /\ r.interval = (IF i > s.interval THEN i ELSE s.interval)
    /\ r.balance = b /\ r.coinsChanged = s.coinsChanged
    /\ r.depositInProgress = s.depositInProgress /\ s.used \subseteq r.used
    /\ Wanted(r) \subseteq Wanted(s) \cup {c \in Coins \ s.used : IntervalOf[c] = r.interval}
    /\ s.requestInProgress \/ s.phase # "in" =>
         r.messageQueue = s.messageQueue /\ r.conns = s.conns /\ r.used = s.used
         /\ r.requestInProgress = s.requestInProgress

\* What the interval and the balance in an answer of the bank do to the client.
LEMMA NewInfoStep ==
  ASSUME NEW s, Sane(s), NEW b \in Nat, NEW i \in Nat, NEW r, r = NewInfo(s, b, i)
  PROVE  Sane(r) /\ Informed(s, b, i, r)
<1> DEFINE A == IF i > s.interval THEN {c \in s.ACoins : IntervalOf[c] # s.interval - 1}
                ELSE s.ACoins
           I == IF i > s.interval THEN i ELSE s.interval
           t == IF i > s.interval
                THEN [s EXCEPT !.ACoins = {c \in @ : IntervalOf[c] # s.interval - 1},
                               !.interval = i]
                ELSE s
           u == [t EXCEPT !.balance = b]
<1>0. s \in ClType
  BY DEF Sane
<1>1. A \in SUBSET Coins /\ A \subseteq s.ACoins /\ I \in Nat
  BY <1>0 DEF ClType
<1>2. t = [s EXCEPT !.ACoins = A, !.interval = I]
  <2>1. CASE i > s.interval
    BY <2>1, Zenon
  <2>2. CASE ~(i > s.interval)
    BY <1>0, <2>2, Zenon DEF ClType
  <2> QED BY <2>1, <2>2
<1>3. r = CheckWallet(u)
  BY Zenon DEF NewInfo, NewBalance
<1> HIDE DEF A, I, t
<1>4. u = [s EXCEPT !.ACoins = A, !.interval = I, !.balance = b]
  BY <1>0, <1>1, <1>2 DEF ClType
<1> HIDE DEF u
<1>5. u \in ClType /\ u.ACoins = A /\ u.interval = I /\ u.balance = b
      /\ u.coinsChanged = s.coinsChanged
  BY <1>0, <1>1, <1>4, Zenon DEF ClType
<1>6. Poorer(s, u)
  BY <1>0, <1>1, <1>4 DEF ClType, Poorer
<1>7. Sane(u) /\ Wanted(u) = Wanted(s)
  BY <1>5, <1>6, SanePoorer
<1>8. Sane(r) /\ Asks(u, r)
  BY <1>3, <1>7, CheckWalletStep
<1>9. Informed(s, b, i, r)
  <2>1. /\ r.phase = s.phase /\ r.depositing = s.depositing /\ r.ACoins = A
        /\ r.interval = I /\ r.balance = b /\ r.coinsChanged = s.coinsChanged
        /\ r.depositInProgress = s.depositInProgress /\ s.used \subseteq r.used
    BY <1>5, <1>6, <1>8, Zenon DEF Asks, Poorer
  <2>2. Wanted(r) \subseteq Wanted(s) \cup {c \in Coins \ s.used : IntervalOf[c] = r.interval}
    BY <1>5, <1>6, <1>7, <1>8, <2>1, Zenon DEF Asks, Poorer, NewCoins
  <2>3. s.requestInProgress \/ s.phase # "in" => r = u
    BY <1>6, <1>8, ZenonT(30) DEF Asks, Poorer
  <2>4. s.requestInProgress \/ s.phase # "in" =>
         r.messageQueue = s.messageQueue /\ r.conns = s.conns /\ r.used = s.used
         /\ r.requestInProgress = s.requestInProgress
    BY <1>6, <2>3, Zenon DEF Poorer
  <2> QED BY <2>1, <2>2, <2>4, Zenon DEF Informed, A, I
<1> QED BY <1>8, <1>9

\* on_new_balance_from_bank: news of the account alone.
LEMMA NewBalanceStep ==
  ASSUME NEW s, Sane(s), NEW b \in Nat, NEW r, r = NewBalance(s, b)
  PROVE  Sane(r) /\ Informed(s, b, 0, r)
<1>1. ~(0 > s.interval)
  BY DEF Sane, ClType
<1>2. r = NewInfo(s, b, 0)
  BY <1>1, Zenon DEF NewInfo
<1> QED BY <1>2, NewInfoStep

-----------------------------------------------------------------------------
(***************************************************************************)
(* Taking and depositing coins.                                            *)
(***************************************************************************)

\* get_acoins and remove_coin
LEMMA TakeStep ==
  ASSUME NEW s, Sane(s), NEW S \in SUBSET s.ACoins, NEW u, u = Take(s, S)
  PROVE  /\ Sane(u) /\ Poorer(s, u) /\ Wanted(u) = Wanted(s) /\ u.ACoins = s.ACoins \ S
         /\ u.interval = s.interval /\ u.balance = s.balance
         /\ u.coinsChanged = (s.coinsChanged \/ S # {})
<1> DEFINE A == s.ACoins \ S
           B == s.coinsChanged \/ S # {}
<1>0. s \in ClType
  BY DEF Sane
<1>1. A \in SUBSET Coins /\ A \subseteq s.ACoins /\ B \in BOOLEAN
  BY <1>0 DEF ClType
<1>2. u = [s EXCEPT !.ACoins = A, !.coinsChanged = B]
  BY Zenon DEF Take
<1> HIDE DEF A, B
<1>3. u \in ClType /\ u.ACoins = A /\ u.coinsChanged = B /\ u.interval = s.interval
      /\ u.balance = s.balance
  BY <1>0, <1>1, <1>2, Zenon DEF ClType
<1>4. Poorer(s, u)
  BY <1>0, <1>1, <1>2 DEF ClType, Poorer
<1>5. Sane(u) /\ Wanted(u) = Wanted(s)
  BY <1>3, <1>4, SanePoorer
<1> QED BY <1>3, <1>4, <1>5, Zenon DEF A, B

\* The coins get_acoins takes are coins of the wallet.
LEMMA OldestStep ==
  ASSUME NEW s \in ClType, NEW n \in Nat, NEW late \in BOOLEAN
  PROVE  Oldest(s, n, late) \in SUBSET s.ACoins
<1> DEFINE F == {c \in s.ACoins : late => IntervalOf[c] >= s.interval}
<1>1. F \in SUBSET Coins /\ F \subseteq s.ACoins
  BY DEF ClType
<1>2. Oldest(s, n, late) = IF Cardinality(F) < n THEN {}
                           ELSE CHOOSE S \in SUBSET F : OldestOf(F, n, S)
  BY Zenon DEF Oldest, OldestOf
<1> HIDE DEF F
<1>3. IsFiniteSet(F) /\ Cardinality(F) \in Nat
  BY <1>1, WalletAssumption, FS_Subset, FS_CardinalityType
<1>4. CASE Cardinality(F) < n
  BY <1>2, <1>4
<1>5. CASE ~(Cardinality(F) < n)
  <2>1. n \in 0 .. Cardinality(F)
    BY <1>3, <1>5
  <2>2. \E S \in SUBSET F : OldestOf(F, n, S)
    BY <1>1, <2>1, OldestExist
  <2>3. Oldest(s, n, late) \in SUBSET F
    BY <1>2, <1>5, <2>2, Zenon
  <2> QED BY <1>1, <2>3
<1> QED BY <1>4, <1>5


\* deposit_acoins, called when no deposit is in progress.
Deposited(s, S, r) ==
    /\ r.phase = s.phase /\ r.ACoins = s.ACoins /\ r.used = s.used
    /\ r.interval = s.interval /\ r.balance = s.balance /\ r.coinsChanged = s.coinsChanged
    /\ r.requestInProgress = s.requestInProgress
    /\ Wanted(r) \subseteq Wanted(s)
    /\ r.depositing = (IF s.phase = "in" THEN s.depositing \cup S ELSE s.depositing)

\* What deposit_acoins does to the client.
LEMMA DepositStep ==
  ASSUME NEW s, Sane(s), s.phase \in {"in", "stopping"}, ~s.depositInProgress,
         NEW S \in SUBSET s.used, S \cap (s.ACoins \cup Wanted(s)) = {},
         NEW r, r = Deposit([s EXCEPT !.depositInProgress = TRUE], S)
  PROVE  Sane(r) /\ Deposited(s, S, r)
<1> DEFINE u == [s EXCEPT !.depositInProgress = TRUE]
<1>0. s \in ClType /\ S \in SUBSET Coins
  BY DEF Sane, ClType
<1>1. CASE s.phase = "stopping"
  <2>1. r = u
    BY <1>0, <1>1 DEF Deposit, ClType
  <2>2. /\ u \in ClType /\ u.phase = s.phase /\ u.ACoins = s.ACoins /\ u.used = s.used
        /\ u.interval = s.interval /\ u.balance = s.balance /\ u.coinsChanged = s.coinsChanged
        /\ u.requestInProgress = s.requestInProgress /\ u.depositing = s.depositing
        /\ u.messageQueue = s.messageQueue /\ u.conns = s.conns
    BY <1>0, Zenon DEF ClType
  <2> HIDE DEF u
  <2>3. Wanted(u) = Wanted(s) /\ (Single(s, "request") <=> Single(u, "request"))
    BY <2>2, Zenon DEF Wanted, Single
  <2>4. Sane(u)
    BY <1>1, <2>2, <2>3 DEF Sane, Honest, Apart, Blank
  <2> QED BY <1>1, <2>1, <2>2, <2>3, <2>4, Zenon DEF Deposited
<1>2. CASE s.phase = "in"
  <2> DEFINE P == s.depositing \cup S
             v == [s EXCEPT !.depositInProgress = TRUE, !.depositing = P]
             m == [kind |-> "deposit", coins |-> S, final |-> FALSE]
  <2>1. P \in SUBSET Coins
    BY <1>0 DEF ClType
  <2>2. r = Send([u EXCEPT !.depositing = @ \cup S], m)
    BY <1>0, <1>2 DEF Deposit, ClType
  <2>3. [u EXCEPT !.depositing = @ \cup S] = v
    BY <1>0 DEF ClType
  <2>4. r = Send(v, m)
    BY <2>2, <2>3, Zenon
  <2>5. m \in MsgType /\ m.kind = "deposit"
    BY <1>0 DEF MsgType, Kinds
  <2> HIDE DEF m, P
  <2>6. /\ v \in ClType /\ v.phase = s.phase /\ v.ACoins = s.ACoins /\ v.used = s.used
        /\ v.interval = s.interval /\ v.balance = s.balance /\ v.coinsChanged = s.coinsChanged
        /\ v.requestInProgress = s.requestInProgress /\ v.depositing = P /\ v.depositInProgress
        /\ v.messageQueue = s.messageQueue /\ v.conns = s.conns
    BY <1>0, <2>1, Zenon DEF ClType
  <2> HIDE DEF v
  <2>7. /\ r \in ClType /\ Same(v, r)
        /\ (Waits(r, "request") <=> Waits(v, "request"))
        /\ (Single(v, "request") => Single(r, "request"))
        /\ Waits(r, "deposit") /\ (~Waits(v, "deposit") => Single(r, "deposit"))
        /\ Wanted(r) \subseteq Wanted(v)
    <3>1. /\ r \in ClType /\ Same(v, r)
          /\ \A K \in Kinds : K # m.kind =>
               (Waits(r, K) <=> Waits(v, K)) /\ (Single(v, K) => Single(r, K))
          /\ Waits(r, m.kind) /\ (~Waits(v, m.kind) => Single(r, m.kind))
          /\ m.kind = "deposit" => Wanted(r) \subseteq Wanted(v)
      BY <2>4, <2>5, <2>6, SendStep, Zenon
    <3>2. "request" \in Kinds /\ "request" # m.kind
      BY <2>5 DEF Kinds
    <3> QED BY <2>5, <3>1, <3>2, Zenon
  <2>8. /\ Wanted(v) = Wanted(s) /\ (Waits(v, "request") <=> Waits(s, "request"))
        /\ (Waits(v, "deposit") <=> Waits(s, "deposit"))
        /\ (Single(v, "request") <=> Single(s, "request"))
    BY <2>6, Zenon DEF Wanted, Waits, Single
  <2>9. /\ r.phase = s.phase /\ r.ACoins = s.ACoins /\ r.used = s.used
        /\ r.interval = s.interval /\ r.balance = s.balance /\ r.coinsChanged = s.coinsChanged
        /\ r.requestInProgress = s.requestInProgress /\ r.depositing = P /\ r.depositInProgress
    BY <2>6, <2>7, Zenon DEF Same
  <2>10. Honest(r)
    BY <1>2, <2>7, <2>8, <2>9, Zenon DEF Sane, Honest
  <2>11. Apart(r)
    BY <2>7, <2>8, <2>9, Zenon DEF Sane, Apart, P
  <2>12. Blank(r)
    BY <1>2, <2>9 DEF Blank
  <2> QED BY <1>2, <2>7, <2>8, <2>9, <2>10, <2>11, <2>12, Zenon DEF Sane, P, Deposited
<1> QED BY <1>1, <1>2

\* What the client's own work may change.
Works(s, r) ==
    /\ r.phase = s.phase /\ s.used \subseteq r.used /\ r.ACoins \subseteq s.ACoins
    /\ s.depositing \subseteq r.depositing
    /\ r.depositing \subseteq s.depositing \cup s.ACoins
    /\ Wanted(r) \subseteq Wanted(s) \cup (Coins \ s.used)
    /\ s.phase # "in" => Wanted(r) \subseteq Wanted(s) /\ r.depositing = s.depositing

\* Asking for coins is work of the client.
LEMMA AsksWorks == ASSUME NEW s, NEW r, Asks(s, r) PROVE Works(s, r)
  BY DEF Asks, Works, NewCoins

\* So is learning the balance.
LEMMA InformedWorks == ASSUME NEW s, NEW r, NEW b, NEW i, Informed(s, b, i, r) PROVE Works(s, r)
<1>1. s.phase # "in" => Wanted(r) = Wanted(s)
  BY Zenon DEF Informed, Wanted
<1>2. r.ACoins \subseteq s.ACoins
  BY DEF Informed
<1>3. Wanted(r) \subseteq Wanted(s) \cup (Coins \ s.used)
  BY DEF Informed
<1> QED BY <1>1, <1>2, <1>3 DEF Informed, Works

\* Taking coins and looking at what is left, as update_coins does.
LEMMA TakeCheckStep ==
  ASSUME NEW s, Sane(s), NEW S \in SUBSET s.ACoins,
         NEW r, r = IF S = {} THEN s ELSE CheckWallet(Take(s, S))
  PROVE  /\ Sane(r) /\ Works(s, r) /\ r.ACoins = s.ACoins \ S /\ r.depositing = s.depositing
         /\ r.depositInProgress = s.depositInProgress
         /\ Wanted(r) \subseteq Wanted(s) \cup (Coins \ s.used)
<1>1. CASE S = {}
  BY <1>1, SMTT(30) DEF Works
<1>2. CASE S # {}
  <2> DEFINE u == Take(s, S)
  <2>1. /\ Sane(u) /\ Poorer(s, u) /\ Wanted(u) = Wanted(s) /\ u.ACoins = s.ACoins \ S
    BY TakeStep
  <2>2. r = CheckWallet(u)
    BY <1>2
  <2> HIDE DEF u
  <2>3. Sane(r) /\ Asks(u, r)
    BY <2>1, <2>2, CheckWalletStep
  <2>4. r.ACoins = s.ACoins \ S /\ r.depositing = s.depositing
        /\ r.depositInProgress = s.depositInProgress
    BY <2>1, <2>3, Zenon DEF Asks, Poorer
  <2>5. Works(s, r)
    BY <2>1, <2>3 DEF Asks, Poorer, Works, NewCoins
  <2> QED BY <2>3, <2>4, <2>5, SMTT(30) DEF Works
<1> QED BY <1>1, <1>2, SMTT(30)


\* update_coins
LEMMA UpdateCoinsStep ==
  ASSUME NEW s, Sane(s), s.phase \in {"in", "stopping"}, NEW stale \in BOOLEAN,
         NEW late \in BOOLEAN, NEW poll \in BOOLEAN,
         NEW r, r = UpdateCoins(s, stale, late, poll)
  PROVE  Sane(r) /\ Works(s, r)
<1> DEFINE s1 == CheckWallet(s)
           prev == {c \in s1.ACoins : IntervalOf[c] = s1.interval - 1}
           old == IF stale THEN CHOOSE S \in SUBSET prev :
                           Cardinality(S) = Smaller(ACOIN_BATCH_SIZE, Cardinality(prev))
                  ELSE {}
           s2 == IF old = {} THEN s1 ELSE CheckWallet(Take(s1, old))
           tooMany == Wealth(s2) > ACOIN_HIGH_LEVEL
           more == IF tooMany THEN Oldest(s2, ACOIN_BATCH_SIZE, late) ELSE {}
           s3 == IF more = {} THEN s2 ELSE CheckWallet(Take(s2, more))
           all == s.depositing \cup old \cup more
           D == Deposit([s3 EXCEPT !.depositInProgress = TRUE], all)
<1>1. r = IF s1.depositInProgress THEN s1
          ELSE IF tooMany /\ AssertFails(s2) THEN s2
          ELSE IF all = {} /\ ~poll THEN s3
          ELSE D
  BY Zenon DEF UpdateCoins
<1>2. Sane(s1) /\ Asks(s, s1) /\ Works(s, s1)
  BY CheckWalletStep, AsksWorks
<1> HIDE DEF s1
<1>3. old \in SUBSET s1.ACoins
  <2>1. prev \in SUBSET Coins /\ prev \subseteq s1.ACoins
    BY <1>2 DEF Sane, ClType
  <2> DEFINE n == Smaller(ACOIN_BATCH_SIZE, Cardinality(prev))
  <2> HIDE DEF prev
  <2>2. n \in 0 .. Cardinality(prev)
    <3>1. Cardinality(prev) \in Nat /\ ACOIN_BATCH_SIZE \in Nat
      BY <2>1, WalletAssumption, FS_Subset, FS_CardinalityType, SMTT(30)
    <3> QED BY <3>1 DEF Smaller
  <2> HIDE DEF n
  <2>3. \E S \in SUBSET prev : Cardinality(S) = n
    BY <2>1, <2>2, OldestExist DEF OldestOf
  <2>4. (CHOOSE S \in SUBSET prev : Cardinality(S) = n) \in SUBSET prev
    BY <2>3, Zenon
  <2>5. old = IF stale THEN CHOOSE S \in SUBSET prev : Cardinality(S) = n ELSE {}
    BY Zenon DEF n
  <2>6. CASE stale
    BY <2>1, <2>4, <2>5, <2>6
  <2>7. CASE ~stale
    BY <2>5, <2>7, SMTT(30)
  <2> QED BY <2>6, <2>7
<1> HIDE DEF old
<1>4. /\ Sane(s2) /\ Works(s1, s2) /\ s2.ACoins = s1.ACoins \ old /\ s2.depositing = s1.depositing
      /\ s2.depositInProgress = s1.depositInProgress
  BY <1>2, <1>3, TakeCheckStep
<1> HIDE DEF s2
<1>5. more \in SUBSET s2.ACoins
  <2>1. CASE tooMany
    <3>1. s2 \in ClType /\ ACOIN_BATCH_SIZE \in Nat
      BY <1>4, WalletAssumption DEF Sane
    <3>2. Oldest(s2, ACOIN_BATCH_SIZE, late) \in SUBSET s2.ACoins
      BY <3>1, OldestStep
    <3> QED BY <2>1, <3>2
  <2>2. CASE ~tooMany
    BY <2>2, SMTT(30)
  <2> QED BY <2>1, <2>2
<1> HIDE DEF more
<1>6. /\ Sane(s3) /\ Works(s2, s3) /\ s3.ACoins = s2.ACoins \ more /\ s3.depositing = s2.depositing
      /\ s3.depositInProgress = s2.depositInProgress
  BY <1>4, <1>5, TakeCheckStep, SMTT(30)
<1> HIDE DEF s3
<1>7. Works(s, s2)
  BY <1>2, <1>4, SMTT(30) DEF Works
<1>8. Works(s, s3)
  BY <1>6, <1>7 DEF Works
<1>9. /\ s1.ACoins = s.ACoins /\ s1.depositing = s.depositing
      /\ s3.ACoins = s.ACoins \ (old \cup more) /\ old \cup more \subseteq s.ACoins
      /\ s3.depositing = s.depositing
  <2>1. s1.ACoins = s.ACoins /\ s1.depositing = s.depositing
    BY <1>2, Zenon DEF Asks
  <2> QED BY <1>3, <1>4, <1>5, <1>6, <2>1
<1>10. ASSUME ~s1.depositInProgress PROVE Sane(D) /\ Works(s, D)
  <2>1. all \in SUBSET s.used /\ all \cap s.ACoins = all \cap (old \cup more)
    BY <1>9 DEF Sane, Apart
  <2>2. all \in SUBSET s3.used
    BY <1>8, <2>1 DEF Works
  <2>3. all \cap s3.ACoins = {}
    BY <1>9 DEF Sane, Apart
  <2>4. all \cap Wanted(s3) = {}
    <3>1. all \subseteq s.depositing \cup s.ACoins
      BY <1>9
    <3> HIDE DEF all
    <3> QED BY <1>8, <2>1, <3>1 DEF Works, Sane, Apart
  <2>5. ~s3.depositInProgress /\ s3.phase \in {"in", "stopping"} /\ s3.phase = s.phase
    BY <1>4, <1>6, <1>8, <1>10, Zenon DEF Works
  <2>6. all \subseteq s.depositing \cup s.ACoins
    BY <1>9
  <2> HIDE DEF all
  <2>7. Sane(D) /\ Deposited(s3, all, D)
    <3>1. all \cap (s3.ACoins \cup Wanted(s3)) = {}
      BY <2>3, <2>4 DEF all
    <3>2. D = Deposit([s3 EXCEPT !.depositInProgress = TRUE], all)
      OBVIOUS
    <3> HIDE DEF D
    <3> QED BY <1>6, <2>2, <2>5, <3>1, <3>2, DepositStep, SMTT(30)
  <2> HIDE DEF D
  <2>8. Works(s, D)
    BY <1>8, <1>9, <2>5, <2>6, <2>7 DEF Works, Deposited
  <2> QED BY <2>7, <2>8
<1> HIDE DEF D, tooMany, all
<1> QED BY <1>1, <1>2, <1>4, <1>6, <1>7, <1>8, <1>10, Zenon


-----------------------------------------------------------------------------
(***************************************************************************)
(* The connections and the files.                                          *)
(***************************************************************************)

\* A connection's record is replaced by a later one.
Later(k, j) ==
    /\ j \in ConnType /\ j.kind = k.kind /\ j.coins = k.coins /\ j.final = k.final
    /\ j.stage = "received" \/ k.stage # "received"

\* What a connection that gets one stage further does to the client.
LEMMA MovedStep ==
  ASSUME NEW s, Sane(s), NEW k \in s.conns, NEW j, Later(k, j), NEW r, r = Moved(s, k, j)
  PROVE  /\ Sane(r) /\ Same(s, r) /\ r.conns = (s.conns \ {k}) \cup {j}
         /\ r.messageQueue = s.messageQueue /\ r.messageInProgress = s.messageInProgress
         /\ r.messageNum = s.messageNum
         /\ Wanted(r) \subseteq Wanted(s)
         /\ k.kind = "request" /\ j.stage = "received" => Wanted(r) = {}
         /\ k.kind = "request" /\ k.stage # "received" => k.coins \subseteq Wanted(s)
<1> DEFINE q == s.messageQueue
           C == s.conns
           D == (C \ {k}) \cup {j}
<1>0. s \in ClType /\ q \in Seq(MsgType) /\ C \in SUBSET ConnType /\ k \in C /\ Single(s, "request")
  BY DEF Sane, ClType, Honest
<1>1. D \in SUBSET ConnType
  BY <1>0 DEF Later
<1>2. r = [s EXCEPT !.conns = D]
  BY Zenon DEF Moved
<1>3. /\ r \in ClType /\ Same(s, r) /\ r.conns = D /\ r.messageQueue = q
      /\ r.messageInProgress = s.messageInProgress /\ r.messageNum = s.messageNum
  <2> HIDE DEF D
  <2> QED BY <1>0, <1>1, <1>2 DEF ClType, Same
<1>4. D = (C \ {k}) \cup {j}
  OBVIOUS
<1>5. /\ \A K \in Kinds :
           (Pend(q, D, K) <=> Pend(q, C, K)) /\ (OneOf(q, C, K) => OneOf(q, D, K))
      /\ Asked(q, D) \subseteq Asked(q, C)
      /\ OneOf(q, C, "request") /\ k.kind = "request" /\ j.stage = "received"
           => Asked(q, D) = {}
      /\ k.kind = "request" /\ k.stage # "received" => k.coins \subseteq Asked(q, C)
  <2>1. /\ j \in ConnType /\ j.kind = k.kind /\ j.coins = k.coins
        /\ j.stage = "received" \/ k.stage # "received"
    BY DEF Later
  <2> HIDE DEF q, C, D
  <2>2. Advanced(q, C, k, j, D)
    BY <1>0, <1>4, <2>1, OneMoves
  <2> QED BY <2>2, Zenon DEF Advanced
<1>6. /\ \A K \in Kinds : (Waits(r, K) <=> Waits(s, K)) /\ (Single(s, K) => Single(r, K))
      /\ Wanted(r) \subseteq Wanted(s)
      /\ k.kind = "request" /\ j.stage = "received" => Wanted(r) = {}
      /\ k.kind = "request" /\ k.stage # "received" => k.coins \subseteq Wanted(s)
  BY <1>0, <1>3, <1>5, Zenon DEF Waits, Single, Wanted
<1>7. Blank(r)
  BY <1>0, <1>3, SMTT(30) DEF Sane, Blank, Same
<1>8. Sane(r)
  BY <1>3, <1>6, <1>7, SaneKept, SMTT(30)
<1> QED BY <1>3, <1>6, <1>8, Zenon

\* What the two files and the client's memory have to do with each other.
Kept(s, f) ==
    /\ f \in [wallet : SUBSET Coins, deposit : SUBSET Coins]
    /\ f.wallet \cup f.deposit \subseteq s.used
    /\ Wanted(s) \cap (f.wallet \cup f.deposit) = {}
    /\ f.wallet \cap f.deposit = {} /\ s.ACoins \cap f.deposit = {}
Filed(s, f, b) ==
    /\ Kept(s, f) /\ b \in BOOLEAN
    /\ b => f.wallet \subseteq s.ACoins
    /\ s.phase \in {"stopping", "done"} /\ ~b => s.depositing \subseteq f.deposit

\* Work of the client keeps the files in order.
LEMMA FiledWorks ==
  ASSUME NEW s, NEW f, NEW r, Filed(s, f, FALSE), Works(s, r)
  PROVE  Filed(r, f, FALSE)
<1>1. Kept(r, f)
  BY DEF Filed, Kept, Works
<1>2. r.phase \in {"stopping", "done"} => r.depositing \subseteq f.deposit
  BY DEF Filed, Works
<1> QED BY <1>1, <1>2, SMTT(30) DEF Filed

\* The first write of save_coins.
LEMMA SaveStep ==
  ASSUME NEW s, NEW f, NEW r, Sane(r), Kept(r, f), r.ACoins = s.ACoins,
         NEW g, g = [f EXCEPT !.wallet = {c \in s.ACoins : IntervalOf[c] >= s.interval - 1}]
  PROVE  Filed(r, g, TRUE)
<1> DEFINE W == {c \in s.ACoins : IntervalOf[c] >= s.interval - 1}
<1>1. W \subseteq r.ACoins /\ W \in SUBSET Coins /\ r.ACoins \subseteq r.used
      /\ Wanted(r) \cap r.ACoins = {}
  BY DEF Sane, Apart, ClType
<1>2. g = [f EXCEPT !.wallet = W]
  OBVIOUS
<1> HIDE DEF W
<1>3. g \in [wallet : SUBSET Coins, deposit : SUBSET Coins] /\ g.wallet = W
      /\ g.deposit = f.deposit
  BY <1>1, <1>2 DEF Kept
<1>4. Kept(r, g)
  BY <1>1, <1>3, SMTT(30) DEF Kept
<1> QED BY <1>1, <1>3, <1>4 DEF Filed


\* on_bank_message_done and on_done of a factory: the connection k is over.
Done(s, k) ==
    LET v == MessageDone([s EXCEPT !.conns = @ \ {k}])
    IN IF k.kind = "request" THEN [v EXCEPT !.requestInProgress = FALSE]
       ELSE [v EXCEPT !.depositInProgress = FALSE,
                      !.depositing = IF k.got THEN @ \ k.coins ELSE @]

\* What the end of a connection does to the client.
LEMMA DoneStep ==
  ASSUME NEW s, Sane(s), NEW k \in s.conns, NEW r, r = Done(s, k)
  PROVE  /\ Sane(r) /\ r.phase = s.phase /\ r.ACoins = s.ACoins /\ r.used = s.used
         /\ r.depositing \subseteq s.depositing /\ r.interval = s.interval
         /\ Wanted(r) \subseteq Wanted(s) /\ r.coinsChanged = s.coinsChanged
         /\ k.kind = "request" \/ ~k.got => r.depositing = s.depositing
         /\ s.depositing \ k.coins \subseteq r.depositing
<1> DEFINE q == s.messageQueue
           C == s.conns
           D == C \ {k}
           u == [s EXCEPT !.conns = D]
           v == MessageDone(u)
<1>0. s \in ClType /\ q \in Seq(MsgType) /\ C \in SUBSET ConnType /\ k \in C /\ k \in ConnType
  BY DEF Sane, ClType
<1>1. k.kind \in Kinds /\ k.coins \in SUBSET Coins /\ k.got \in BOOLEAN
  BY <1>0, SMTT(30) DEF ConnType
<1>2. /\ \A K \in Kinds : OneOf(q, C, K) => OneOf(q, D, K)
      /\ \A K \in Kinds : K # k.kind => (Pend(q, D, K) <=> Pend(q, C, K))
      /\ OneOf(q, C, k.kind) => ~Pend(q, D, k.kind)
      /\ Asked(q, D) \subseteq Asked(q, C) /\ D \in SUBSET ConnType
  <2>1. D = C \ {k}
    OBVIOUS
  <2> HIDE DEF q, C, D
  <2> QED BY <1>0, <2>1, OneLess, Zenon
<1>3. u \in ClType /\ Same(s, u) /\ u.messageQueue = q /\ u.conns = D
  <2> HIDE DEF D
  <2> QED BY <1>0, <1>2 DEF ClType, Same
<1>4. r = IF k.kind = "request" THEN [v EXCEPT !.requestInProgress = FALSE]
          ELSE [v EXCEPT !.depositInProgress = FALSE,
                         !.depositing = IF k.got THEN @ \ k.coins ELSE @]
  BY Zenon DEF Done
<1> HIDE DEF u
<1>5. /\ v \in ClType /\ Same(u, v)
      /\ \A K \in Kinds : (Waits(v, K) <=> Waits(u, K)) /\ (Single(u, K) => Single(v, K))
      /\ Wanted(v) \subseteq Wanted(u)
  BY <1>3, MessageDoneStep
<1> HIDE DEF v
<1>6. /\ \A K \in Kinds : Single(s, K) => Single(v, K)
      /\ \A K \in Kinds : K # k.kind => (Waits(v, K) <=> Waits(s, K))
      /\ Single(s, k.kind) => ~Waits(v, k.kind)
      /\ Wanted(v) \subseteq Wanted(s)
  BY <1>1, <1>2, <1>3, <1>5, Zenon DEF Waits, Single, Wanted
<1>7. Same(s, v)
  BY <1>3, <1>5, Zenon DEF Same
<1>8. s.phase \notin {"off", "login"}
  BY <1>0 DEF Sane, Blank
<1>9. CASE k.kind = "request"
  <2>1. r = [v EXCEPT !.requestInProgress = FALSE]
    BY <1>4, <1>9
  <2>2. /\ r \in ClType /\ r.phase = v.phase /\ r.ACoins = v.ACoins /\ r.used = v.used
        /\ r.depositing = v.depositing /\ r.interval = v.interval
        /\ r.coinsChanged = v.coinsChanged /\ r.depositInProgress = v.depositInProgress
        /\ r.requestInProgress = FALSE
        /\ r.messageQueue = v.messageQueue /\ r.conns = v.conns
    BY <1>5, <2>1, Zenon DEF ClType
  <2>3. /\ Wanted(r) = Wanted(v)
        /\ \A K \in Kinds : (Waits(r, K) <=> Waits(v, K)) /\ (Single(r, K) <=> Single(v, K))
    BY <2>2, Zenon DEF Wanted, Waits, Single
  <2>4. /\ r.phase = s.phase /\ r.ACoins = s.ACoins /\ r.used = s.used
        /\ r.depositing = s.depositing /\ r.interval = s.interval
        /\ r.coinsChanged = s.coinsChanged /\ r.depositInProgress = s.depositInProgress
    BY <1>7, <2>2, Zenon DEF Same
  <2>5. "request" \in Kinds /\ "deposit" \in Kinds /\ "deposit" # k.kind
    BY <1>9 DEF Kinds
  <2>6. Honest(r)
    BY <1>6, <1>9, <2>2, <2>3, <2>4, <2>5, Zenon DEF Sane, Honest
  <2>7. Apart(r)
    BY <1>6, <2>3, <2>4, Zenon DEF Sane, Apart
  <2>8. Blank(r)
    BY <1>8, <2>4, Zenon DEF Blank
  <2> QED BY <1>6, <2>2, <2>3, <2>4, <2>6, <2>7, <2>8, Zenon DEF Sane
<1>10. CASE k.kind = "deposit"
  <2> DEFINE P == IF k.got THEN s.depositing \ k.coins ELSE s.depositing
  <2>0. P \in SUBSET Coins /\ P \subseteq s.depositing /\ s.depositing \ k.coins \subseteq P
        /\ (~k.got => P = s.depositing)
    BY <1>0 DEF ClType
  <2>1. r = [v EXCEPT !.depositInProgress = FALSE, !.depositing = P]
    <3>1. v.depositing = s.depositing /\ k.kind # "request"
      BY <1>7, <1>10 DEF Same
    <3>2. r = [v EXCEPT !.depositInProgress = FALSE,
                        !.depositing = IF k.got THEN v.depositing \ k.coins ELSE v.depositing]
      BY <1>4, <1>5, <3>1 DEF ClType
    <3> QED BY <3>1, <3>2, Zenon
  <2> HIDE DEF P
  <2>2. /\ r \in ClType /\ r.phase = v.phase /\ r.ACoins = v.ACoins /\ r.used = v.used
        /\ r.depositing = P /\ r.interval = v.interval
        /\ r.coinsChanged = v.coinsChanged /\ r.requestInProgress = v.requestInProgress
        /\ r.depositInProgress = FALSE
        /\ r.messageQueue = v.messageQueue /\ r.conns = v.conns
    BY <1>5, <2>0, <2>1, ZenonT(30) DEF ClType
  <2>3. /\ Wanted(r) = Wanted(v)
        /\ \A K \in Kinds : (Waits(r, K) <=> Waits(v, K)) /\ (Single(r, K) <=> Single(v, K))
    BY <2>2, Zenon DEF Wanted, Waits, Single
  <2>4. /\ r.phase = s.phase /\ r.ACoins = s.ACoins /\ r.used = s.used /\ r.interval = s.interval
        /\ r.coinsChanged = s.coinsChanged /\ r.requestInProgress = s.requestInProgress
    BY <1>7, <2>2, Zenon DEF Same
  <2>5. "request" \in Kinds /\ "deposit" \in Kinds /\ "request" # k.kind
    BY <1>10 DEF Kinds
  <2>6. Honest(r)
    BY <1>6, <1>10, <2>2, <2>3, <2>4, <2>5, Zenon DEF Sane, Honest
  <2>7. Apart(r)
    BY <1>6, <2>0, <2>2, <2>3, <2>4, SMTT(30) DEF Sane, Apart
  <2>8. Blank(r)
    BY <1>8, <2>4, Zenon DEF Blank
  <2>9. k.kind # "request"
    BY <1>10
  <2> QED BY <1>6, <2>0, <2>2, <2>3, <2>4, <2>6, <2>7, <2>8, <2>9, Zenon DEF Sane
<1> QED BY <1>1, <1>9, <1>10, SMTT(30) DEF Kinds


-----------------------------------------------------------------------------
(***************************************************************************)
(* The invariant, and that every step keeps it.                            *)
(***************************************************************************)

\* A client without messages.
LEMMA NothingAsked ==
  /\ \A K \in Kinds : ~Pend(<<>>, {}, K) /\ OneOf(<<>>, {}, K)
  /\ Asked(<<>>, {}) = {}
<1>1. \A i \in 1 .. Len(<<>>) : FALSE
  OBVIOUS
<1> QED BY <1>1, Zenon DEF Pend, OneOf, Asked

\* Two pieces of work are one.
LEMMA WorksTrans == ASSUME NEW s, NEW r, NEW t, Works(s, r), Works(r, t) PROVE Works(s, t)
  BY DEF Works

\* Leaving coins alone is work.
LEMMA SameWorks == ASSUME NEW s, NEW r, Same(s, r), Wanted(r) \subseteq Wanted(s) PROVE Works(s, r)
  BY DEF Same, Works

\* on_bank_message_done keeps the client sane.
LEMMA MessageDoneSane ==
  ASSUME NEW s, Sane(s), NEW r, r = MessageDone(s)
  PROVE  Sane(r) /\ Works(s, r)
<1>1. s \in ClType
  BY DEF Sane
<1>2. /\ r \in ClType /\ Same(s, r)
      /\ \A K \in Kinds : (Waits(r, K) <=> Waits(s, K)) /\ (Single(s, K) => Single(r, K))
      /\ Wanted(r) \subseteq Wanted(s)
      /\ s.messageQueue = <<>> => r.messageQueue = <<>> /\ r.conns = s.conns
  BY <1>1, MessageDoneStep
<1>3. Blank(r)
  BY <1>2, Zenon DEF Sane, Blank, Same
<1>4. Sane(r)
  BY <1>2, <1>3, SaneKept
<1> QED BY <1>2, <1>4, SameWorks

\* Another phase, outside normal operation.
Alike(s, r) ==
    /\ r.ACoins = s.ACoins /\ r.depositing = s.depositing /\ r.used = s.used
    /\ r.interval = s.interval /\ r.requestInProgress = s.requestInProgress
    /\ r.depositInProgress = s.depositInProgress
    /\ r.messageQueue = s.messageQueue /\ r.conns = s.conns

\* A client that logs out, or is about to, stays sane.
LEMMA Rephase ==
  ASSUME NEW s, Sane(s), NEW r \in ClType, Alike(s, r), r.phase # "in",
         r.phase \in {"off", "login"} => s.phase \in {"off", "login"}
  PROVE  Sane(r) /\ Wanted(r) = Wanted(s)
<1>1. Wanted(r) = Wanted(s) /\ (Single(s, "request") => Single(r, "request"))
  BY Zenon DEF Wanted, Single, Alike
<1>2. Honest(r)
  BY <1>1, Zenon DEF Sane, Honest
<1>3. Apart(r)
  BY <1>1, Zenon DEF Sane, Apart, Alike
<1>4. Blank(r)
  BY DEF Sane, Blank, Alike
<1> QED BY <1>1, <1>2, <1>3, <1>4 DEF Sane

\* Leaving coins alone keeps the files in order.
LEMMA FiledSame ==
  ASSUME NEW s, NEW f, NEW b, NEW r, Filed(s, f, b), Same(s, r), Wanted(r) \subseteq Wanted(s)
  PROVE  Filed(r, f, b)
<1>1. Kept(r, f)
  BY DEF Filed, Kept, Same
<1> QED BY <1>1, Zenon DEF Filed, Same

=============================================================================

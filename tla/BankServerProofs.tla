-------------------------- MODULE BankServerProofs --------------------------
(***************************************************************************)
(* Proofs about BankServer, for every set of users, relays, connections,   *)
(* coins and datagrams and every bound.                                    *)
(***************************************************************************)
EXTENDS BankServer, FiniteSetTheorems, SequenceTheorems, TLAPS

-----------------------------------------------------------------------------
(***************************************************************************)
(* Lemmas.                                                                 *)
(***************************************************************************)

\* The bill of a Request and the credit of a Deposit are natural numbers: a
\* message carries finitely many coins.
LEMMA CoinCount ==
    ASSUME NEW S, S \subseteq Coins
    PROVE  Cardinality(S) \in Nat
BY BankAssumption, FS_Subset, FS_CardinalityType

\* A connection that is not free carries a full record.
LEMMA OpenConnType ==
    ASSUME TypeOK, NEW k \in Conns, conn[k].pc # "free"
    PROVE  conn[k] \in OpenConn
BY DEF TypeOK, Free

\* Storing accepted coins keeps the repositories' intervals and adds coins only.
LEMMA StoreType ==
    ASSUME TypeOK, NEW S, S \subseteq Coins, Store(S)
    PROVE  /\ DOMAIN Acoins' = DOMAIN Acoins
           /\ \A i \in DOMAIN Acoins : Acoins'[i] \subseteq Coins /\ Acoins[i] \subseteq Acoins'[i]
BY DEF TypeOK, Store

\* The queue UDPServer.reply leaves behind after appending one request: it is
\* the last entries, in order.
LEMMA TrimmedQueue ==
    ASSUME NEW a \in Seq(Datagrams), NEW over \in 0 .. Len(a),
           NEW kept, kept = SubSeq(a, over + 1, Len(a))
    PROVE  /\ kept \in Seq(Datagrams) /\ Len(kept) = Len(a) - over
           /\ \A i \in 1 .. Len(kept) : kept[i] = a[over + i]
<1>1. Len(a) \in Nat /\ \A i \in (over + 1) .. Len(a) : a[i] \in Datagrams
  OBVIOUS
<1> QED
  BY <1>1, SubSeqProperties

-----------------------------------------------------------------------------
(***************************************************************************)
(* Types.                                                                  *)
(***************************************************************************)

\* The initial state has the declared types.
LEMMA TypeInit == Init => TypeOK
BY BankAssumption DEF Init, TypeOK, Free, Previous

\* Every step of the bank keeps them, because a Request only writes a balance
\* it has compared with 0 and a Deposit only adds.
LEMMA TypeStep == TypeOK /\ [Next]_vars => TypeOK'
<1> SUFFICES ASSUME TypeOK, [Next]_vars PROVE TypeOK'
  OBVIOUS
<1> USE DEF db, clock, udp
<1>1. ASSUME NEW k \in Conns, NEW r \in Relays, NEW kind \in {"request", "deposit"},
             NEW coins \in SUBSET Coins, StringReceived(k, r, kind, coins)
      PROVE  TypeOK'
  BY <1>1, SMTT(30) DEF StringReceived, TypeOK, OpenConn
<1>2. ASSUME NEW k \in Conns, FetchSymKey(k) PROVE TypeOK'
  <2>1. conn[k] \in OpenConn
    BY <1>2, OpenConnType DEF FetchSymKey
  <2>2. conn' \in [Conns -> {Free} \cup OpenConn]
    BY <1>2, <2>1, BankAssumption, ZenonT(30) DEF FetchSymKey, TypeOK, OpenConn
  <2> QED
    BY <1>2, <2>1, <2>2, BankAssumption, Zenon DEF FetchSymKey, TypeOK, OpenConn
<1>3. ASSUME NEW k \in Conns, Refuse(k) PROVE TypeOK'
  <2>1. conn[k] \in OpenConn
    BY <1>3, OpenConnType DEF Refuse
  <2>2. conn' \in [Conns -> {Free} \cup OpenConn]
    BY <1>3, <2>1, Zenon DEF Refuse, TypeOK, OpenConn
  <2>3. <<conn[k].relay, conn[k].num>> \in Relays \X Nat
    BY <2>1 DEF OpenConn
  <2>4. numWrites' \subseteq Relays \X Nat
    BY <1>3, <2>3 DEF Refuse, TypeOK
  <2> QED
    BY <1>3, <2>2, <2>4, Zenon DEF Refuse, TypeOK
<1>4. ASSUME NEW k \in Conns, HandleRequest(k) PROVE TypeOK'
  <2>1. conn[k] \in OpenConn
    BY <1>4, OpenConnType DEF HandleRequest
  <2>2. conn' \in [Conns -> {Free} \cup OpenConn]
    BY <1>4, <2>1, Zenon DEF HandleRequest, TypeOK, OpenConn
  <2>3. <<conn[k].relay, conn[k].num>> \in Relays \X Nat
    BY <2>1 DEF OpenConn
  <2>4. numWrites' \subseteq Relays \X Nat
    BY <1>4, <2>3, SMTT(30) DEF HandleRequest, TypeOK
  <2> QED
    BY <1>4, <2>2, <2>4 DEF HandleRequest, TypeOK
<1>5. ASSUME NEW k \in Conns, HandleDeposit(k) PROVE TypeOK'
  <2> DEFINE ok == {c \in conn[k].coins : DepositCode(c, Acoins) = "0"}
  <2>1. conn[k] \in OpenConn
    BY <1>5, OpenConnType DEF HandleDeposit
  <2>2. ok \subseteq Coins /\ Cardinality(ok) \in Nat
    BY <2>1, CoinCount DEF OpenConn
  <2>3. Store(ok) /\ Redeem(ok)
    BY <1>5 DEF HandleDeposit
  <2>4. /\ DOMAIN Acoins' \subseteq Int
        /\ \A i \in DOMAIN Acoins' : Acoins'[i] \subseteq Coins
    BY <2>2, <2>3, StoreType, Zenon DEF TypeOK
  <2>5. redeemed' \in [Coins -> Nat]
    BY <2>3 DEF Redeem, TypeOK
  <2>6. conn' \in [Conns -> {Free} \cup OpenConn]
    <3> HIDE DEF ok
    <3>1. conn' = [conn EXCEPT ![k].credit = Cardinality(ok),
                               ![k].pc = IF ok = {} THEN "balance" ELSE "credit"]
      BY <1>5 DEF HandleDeposit, ok
    <3> QED
      BY <2>1, <2>2, <3>1, Zenon DEF TypeOK, OpenConn
  <2>7. numWrites' \subseteq Relays \X Nat
    BY <1>5, <2>1, SMTT(30) DEF HandleDeposit, TypeOK, OpenConn
  <2> QED
    BY <1>5, <2>4, <2>5, <2>6, <2>7, Zenon DEF HandleDeposit, TypeOK
<1>6. ASSUME NEW k \in Conns, ReadBalance(k) PROVE TypeOK'
  <2>1. conn[k] \in OpenConn
    BY <1>6, OpenConnType DEF ReadBalance
  <2>3. Owner[conn[k].relay] \in Users /\ balance[Owner[conn[k].relay]] \in Nat
    BY <2>1, BankAssumption, SMTT(30) DEF OpenConn, TypeOK
  <2>2. conn' \in [Conns -> {Free} \cup OpenConn]
    <3> DEFINE b == balance[Owner[conn[k].relay]]
    <3>1. conn' = [conn EXCEPT ![k].bal = b, ![k].pc = "update"]
      BY <1>6, Zenon DEF ReadBalance
    <3>2. b \in Int
      BY <2>3
    <3> HIDE DEF b
    <3>3. [conn[k] EXCEPT !.bal = b, !.pc = "update"] \in OpenConn
      BY <2>1, <3>2, Zenon DEF OpenConn
    <3> QED BY <3>1, <3>3 DEF TypeOK
  <2> QED
    BY <1>6, <2>1, <2>3, <2>2, BankAssumption, Zenon DEF ReadBalance, TypeOK, OpenConn
<1>7. ASSUME NEW k \in Conns, UpdateAccount(k) PROVE TypeOK'
  <2> DEFINE proposed == conn[k].bal - Cardinality(conn[k].coins)
  <2>1. conn[k] \in OpenConn /\ proposed \in Int
    BY <1>7, OpenConnType, CoinCount DEF UpdateAccount, OpenConn
  <2> HIDE DEF proposed
  <2>2. Owner[conn[k].relay] \in Users
    BY <2>1, BankAssumption DEF OpenConn
  <2>3. CASE proposed >= 0
    <3>1. /\ balance' = [balance EXCEPT ![Owner[conn[k].relay]] = proposed]
          /\ conn' = [conn EXCEPT ![k].code = "0", ![k].bal = proposed, ![k].pc = "reply"]
      BY <1>7, <2>1, <2>3 DEF UpdateAccount, proposed
    <3>2. conn' \in [Conns -> {Free} \cup OpenConn]
      BY <2>1, <3>1, ZenonT(30) DEF TypeOK, OpenConn
    <3> QED
      BY <1>7, <2>1, <2>2, <2>3, <3>1, <3>2, SMTT(30) DEF UpdateAccount, TypeOK
  <2>4. CASE proposed < 0
    <3>1. /\ UNCHANGED balance
          /\ conn' = [conn EXCEPT ![k].code = "1", ![k].pc = "reply"]
      BY <1>7, <2>1, <2>4 DEF UpdateAccount, proposed
    <3>2. conn' \in [Conns -> {Free} \cup OpenConn]
      BY <2>1, <3>1, Zenon DEF TypeOK, OpenConn
    <3> QED
      BY <1>7, <3>1, <3>2, Zenon DEF UpdateAccount, TypeOK
  <2> QED
    BY <2>1, <2>3, <2>4
<1>8. ASSUME NEW k \in Conns, CreditAccount(k) PROVE TypeOK'
  <2>1. conn[k] \in OpenConn
    BY <1>8, OpenConnType DEF CreditAccount
  <2>2. Owner[conn[k].relay] \in Users /\ conn[k].credit \in Nat
    BY <2>1, BankAssumption DEF OpenConn
  <2>3. conn' \in [Conns -> {Free} \cup OpenConn]
    BY <1>8, <2>1, Zenon DEF CreditAccount, TypeOK, OpenConn
  <2>4. balance' \in [Users -> Nat]
    BY <1>8, <2>2, SMTT(30) DEF CreditAccount, TypeOK
  <2> QED
    BY <1>8, <2>3, <2>4, ZenonT(30) DEF CreditAccount, TypeOK
<1>9. ASSUME NEW k \in Conns, GetBalance(k) PROVE TypeOK'
  <2>1. conn[k] \in OpenConn
    BY <1>9, OpenConnType DEF GetBalance
  <2>2. PICK b \in Int : b = balance[Owner[conn[k].relay]]
    BY <2>1, BankAssumption DEF OpenConn, TypeOK
  <2>3. conn' = [conn EXCEPT ![k].bal = b, ![k].code = "0", ![k].pc = "reply"]
    BY <1>9, <2>2 DEF GetBalance
  <2>4. conn' \in [Conns -> {Free} \cup OpenConn]
    BY <2>1, <2>3, ZenonT(30) DEF TypeOK, OpenConn
  <2> QED
    BY <1>9, <2>4 DEF GetBalance, TypeOK
<1>10. ASSUME NEW k \in Conns, Reply(k) PROVE TypeOK'
  BY <1>10, OpenConnType, Zenon DEF Reply, TypeOK, OpenConn
<1>11. ASSUME NEW k \in Conns, ConnectionLost(k) PROVE TypeOK'
  BY <1>11 DEF ConnectionLost, TypeOK
<1>12. ASSUME NEW k \in Conns, DbFailure(k) PROVE TypeOK'
  <2>1. conn[k] \in OpenConn
    BY <1>12, OpenConnType DEF DbFailure
  <2>2. conn' \in [Conns -> {Free} \cup OpenConn]
    BY <1>12, <2>1, BankAssumption, ZenonT(30) DEF DbFailure, TypeOK, OpenConn
  <2>3. lost' \in Nat
    <3>1. lost' = lost + (IF conn[k].pc = "credit" THEN conn[k].credit ELSE 0)
      BY <1>12, Zenon DEF DbFailure
    <3>2. lost \in Nat /\ conn[k].credit \in Nat
      BY <2>1, Zenon DEF TypeOK, OpenConn
    <3> QED BY <3>1, <3>2
  <2> QED
    BY <1>12, <2>1, <2>2, <2>3, BankAssumption, Zenon DEF DbFailure, TypeOK, OpenConn
<1>13. ASSUME NEW w \in numWrites, WriteMsgnum(w) PROVE TypeOK'
  BY <1>13 DEF WriteMsgnum, TypeOK
<1>14. ASSUME NEW m \in Datagrams, DatagramReceived(m) PROVE TypeOK'
  <2>1. CASE m \in DOMAIN cache
    BY <1>14, <2>1 DEF DatagramReceived, TypeOK
  <2>2. CASE m \notin DOMAIN cache
    <3> DEFINE ok == {p \in Pays[m] : DepositCode(p[1], Acoins) = "0"}
               longer == Append(queue, m)
               over == IF Len(longer) > MAX_SIZE THEN Len(longer) - MAX_SIZE ELSE 0
               kept == SubSeq(longer, over + 1, Len(longer))
    <3>1. ok \subseteq Coins \X Coins
      BY BankAssumption
    <3>2. {p[1] : p \in ok} \subseteq Coins /\ {p[2] : p \in ok} \subseteq Coins
      BY <3>1
    <3>3. /\ Store({p[1] : p \in ok}) /\ Redeem({p[1] : p \in ok})
          /\ released' = released \cup {p[2] : p \in ok}
          /\ queue' = kept /\ DOMAIN cache' = Range(kept)
      BY <1>14, <2>2, Zenon DEF DatagramReceived
    <3>4. kept \in Seq(Datagrams)
      <4>1. Len(longer) = Len(queue) + 1 /\ Len(queue) \in Nat
        BY DEF TypeOK
      <4>2. queue \in Seq(Datagrams)
        BY DEF TypeOK
      <4>3. longer \in Seq(Datagrams)
        BY <4>2
      <4> HIDE DEF longer
      <4>4. over \in 0 .. Len(longer)
        BY <4>1, BankAssumption
      <4> HIDE DEF over
      <4>5. kept = SubSeq(longer, over + 1, Len(longer))
        OBVIOUS
      <4> HIDE DEF kept
      <4> QED
        BY <4>3, <4>4, <4>5, TrimmedQueue
    <3>5. Range(kept) \subseteq Datagrams
      <4> HIDE DEF kept
      <4> QED
        BY <3>4 DEF Range
    <3>6. /\ DOMAIN Acoins' \subseteq Int
          /\ \A i \in DOMAIN Acoins' : Acoins'[i] \subseteq Coins
      BY <3>2, <3>3, StoreType, ZenonT(30) DEF TypeOK
    <3>7. redeemed' \in [Coins -> Nat]
      BY <3>3 DEF Redeem, TypeOK
    <3> HIDE DEF ok, kept
    <3> QED
      BY <1>14, <3>2, <3>3, <3>4, <3>5, <3>6, <3>7 DEF DatagramReceived, TypeOK
  <2> QED
    BY <2>1, <2>2
<1>15. CASE Tick
  BY <1>15 DEF Tick, TypeOK
<1>16. CASE LearnInterval
  BY <1>16 DEF LearnInterval, TypeOK
<1>17. CASE LookupFails
  BY <1>17, Zenon DEF LookupFails, TypeOK
<1>18. CASE Restart
  BY <1>18 DEF Restart, TypeOK, Previous
<1>19. CASE UNCHANGED vars
  BY <1>19 DEF vars, TypeOK
<1> QED
  BY <1>1, <1>2, <1>3, <1>4, <1>5, <1>6, <1>7, <1>8, <1>9, <1>10, <1>11, <1>12,
     <1>13, <1>14, <1>15, <1>16, <1>17, <1>18, <1>19, SMTT(30) DEF Next, Serve

\* No message, payment, fault, interval change or restart ever takes a variable
\* out of its type; in particular no balance becomes negative.
THEOREM TypeCorrect == Spec => []TypeOK
BY TypeInit, TypeStep, PTL DEF Spec

-----------------------------------------------------------------------------
(***************************************************************************)
(* Coins are accepted once.                                                *)
(***************************************************************************)

\* The invariant behind LiveRepositories: a bank that still looks intervals up
\* is at most one interval behind the clock.
ClockInv ==
    /\ TypeOK
    /\ current > 0 /\ current <= today
    /\ lookup => today <= current + 1
    /\ DOMAIN Acoins = {current - 1, current}

\* The invariant behind AcceptedOnce: a redeemed coin is not from the future,
\* and as long as its interval is live its repository remembers it.
Remembered ==
    \A c \in Coins :
        /\ redeemed[c] <= 1
        /\ redeemed[c] = 1 =>
             /\ IntervalOf[c] <= current
             /\ IntervalOf[c] >= current - 1 => c \in Acoins[IntervalOf[c]]

\* The first lookup establishes ClockInv and every step keeps it.
LEMMA ClockInit == Init => ClockInv
BY TypeInit, BankAssumption DEF Init, ClockInv, Previous

\* Every step keeps ClockInv.
LEMMA ClockStep == ClockInv /\ [Next]_vars => ClockInv'
<1> SUFFICES ASSUME ClockInv, [Next]_vars PROVE ClockInv'
  OBVIOUS
<1> USE DEF db, clock, udp
<1>1. TypeOK'
  BY TypeStep DEF ClockInv
<1>2. ASSUME UNCHANGED clock, DOMAIN Acoins' = DOMAIN Acoins PROVE ClockInv'
  BY <1>1, <1>2 DEF ClockInv
<1>3. ASSUME NEW S, Store(S) PROVE DOMAIN Acoins' = DOMAIN Acoins
  BY <1>3, SMTT(30) DEF Store
<1>4. ASSUME NEW k \in Conns, Serve(k) \/ DbFailure(k) PROVE ClockInv'
  <2>1. CASE HandleDeposit(k)
    BY <1>2, <1>3, <2>1 DEF HandleDeposit
  <2> QED
    BY <1>2, <1>4, <2>1, Zenon DEF Serve, DbFailure, FetchSymKey, Refuse, HandleRequest, ReadBalance,
       UpdateAccount, CreditAccount, GetBalance, Reply, ConnectionLost
<1>5. ASSUME NEW m \in Datagrams, DatagramReceived(m) PROVE ClockInv'
  BY <1>2, <1>3, <1>5 DEF DatagramReceived
<1>6. CASE Tick
  BY <1>1, <1>6, SMTT(30) DEF Tick, ClockInv, TypeOK
<1>7. CASE LearnInterval
  <2>1. today = current + 1 /\ Previous(today) - 1 = current - 1
    BY <1>7 DEF LearnInterval, ClockInv, TypeOK, Previous
  <2>2. DOMAIN Acoins' = {current, current + 1}
    BY <1>7, <2>1 DEF LearnInterval, ClockInv, TypeOK
  <2> QED
    BY <1>1, <1>7, <2>1, <2>2 DEF LearnInterval, ClockInv, TypeOK
<1>8. CASE LookupFails
  BY <1>1, <1>8 DEF LookupFails, ClockInv
<1>9. CASE Restart
  BY <1>1, <1>9 DEF Restart, ClockInv, TypeOK, Previous
<1>10. ASSUME NEW k \in Conns, NEW r \in Relays, NEW kind \in {"request", "deposit"},
              NEW coins \in SUBSET Coins, StringReceived(k, r, kind, coins)
       PROVE  ClockInv'
  BY <1>2, <1>10 DEF StringReceived
<1>11. ASSUME NEW w \in numWrites, WriteMsgnum(w) PROVE ClockInv'
  BY <1>2, <1>11 DEF WriteMsgnum
<1>12. CASE UNCHANGED vars
  BY <1>2, <1>12 DEF vars
<1> QED
  BY <1>4, <1>5, <1>6, <1>7, <1>8, <1>9, <1>10, <1>11, <1>12 DEF Next

\* UDPServer.reply with a request that is not cached keeps the queue and the
\* cache in step: the new entry is not in the queue yet, the entries in front
\* leave both.
LEMMA CacheAppend ==
    ASSUME TypeOK, CacheInStep, NEW m \in Datagrams, m \notin DOMAIN cache,
           DatagramReceived(m)
    PROVE  CacheInStep'
<1> DEFINE longer == Append(queue, m)
           over == IF Len(longer) > MAX_SIZE THEN Len(longer) - MAX_SIZE ELSE 0
           kept == SubSeq(longer, over + 1, Len(longer))
<1>1. Len(longer) = Len(queue) + 1 /\ Len(queue) \in Nat /\ MAX_SIZE \in Nat
  BY BankAssumption DEF TypeOK
<1>2. over \in Nat /\ over <= Len(queue) + 1 /\ (Len(queue) + 1) - over <= MAX_SIZE
  BY <1>1
<1>3. queue' = kept /\ DOMAIN cache' = Range(kept)
  BY Zenon DEF DatagramReceived
<1> HIDE DEF over
<1>4. /\ kept \in Seq(Datagrams)
      /\ Len(kept) = (Len(queue) + 1) - over
      /\ \A i \in 1 .. Len(kept) : kept[i] = longer[over + i]
  <2>0. queue \in Seq(Datagrams)
    BY DEF TypeOK
  <2>1. longer \in Seq(Datagrams)
    BY <2>0
  <2>a. over \in 0 .. Len(longer)
    <3> DEFINE n == Len(longer)
    <3>1. n \in Nat /\ over <= n
      <4> HIDE DEF longer
      <4> QED BY <1>1, <1>2
    <3> HIDE DEF n
    <3> QED BY <1>2, <3>1
  <2>2. kept = SubSeq(longer, over + 1, Len(longer))
    OBVIOUS
  <2> HIDE DEF longer, kept
  <2>3. /\ kept \in Seq(Datagrams) /\ Len(kept) = Len(longer) - over
        /\ \A i \in 1 .. Len(kept) : kept[i] = longer[over + i]
    BY <2>1, <2>a, <2>2, TrimmedQueue
  <2>4. Len(kept) = (Len(queue) + 1) - over
    <3>1. Len(kept) = Len(longer) - over /\ Len(longer) = Len(queue) + 1
      BY <1>1, <2>3, Zenon
    <3> QED BY <3>1, Zenon
  <2> QED BY <2>3, <2>4, Zenon
<1>5. \A i, j \in 1 .. Len(queue) + 1 : longer[i] = longer[j] => i = j
  <2>1. \A i \in 1 .. Len(queue) : longer[i] = queue[i] /\ queue[i] # m
    BY DEF CacheInStep, Range, TypeOK
  <2>2. longer[Len(queue) + 1] = m
    BY DEF TypeOK
  <2>3. \A i, j \in 1 .. Len(queue) : queue[i] = queue[j] => i = j
    BY DEF CacheInStep, TypeOK
  <2> HIDE DEF longer
  <2> QED
    BY <1>1, <2>1, <2>2, <2>3
<1> HIDE DEF kept, longer
<1>6. \A i, j \in DOMAIN kept : kept[i] = kept[j] => i = j
  <2> SUFFICES ASSUME NEW i \in DOMAIN kept, NEW j \in DOMAIN kept, kept[i] = kept[j]
               PROVE  i = j
    BY Zenon
  <2> DEFINE n == Len(queue) + 1
             k == Len(kept)
  <2>1. DOMAIN kept = 1 .. k /\ k = n - over /\ n \in Nat /\ over \in Nat
    BY <1>1, <1>2, <1>4
  <2>2. kept[i] = longer[over + i] /\ kept[j] = longer[over + j]
    BY <1>4, <2>1, Zenon
  <2> HIDE DEF n, k
  <2>3. over + i \in 1 .. n /\ over + j \in 1 .. n /\ (over + i = over + j => i = j)
    BY <2>1
  <2>4. over + i = over + j
    BY <1>5, <2>2, <2>3, Zenon DEF n
  <2> QED BY <2>3, <2>4, Zenon
<1> QED
  BY <1>1, <1>2, <1>3, <1>4, <1>6 DEF CacheInStep

\* Every step keeps the cache of answers in step with the queue.
LEMMA CacheStep == TypeOK /\ CacheInStep /\ [Next]_vars => CacheInStep'
<1> SUFFICES ASSUME TypeOK, CacheInStep, [Next]_vars PROVE CacheInStep'
  OBVIOUS
<1> USE DEF db, clock, udp
<1>1. ASSUME UNCHANGED udp PROVE CacheInStep'
  BY <1>1 DEF CacheInStep, Range
<1>2. ASSUME NEW m \in Datagrams, DatagramReceived(m) PROVE CacheInStep'
  <2>1. CASE m \in DOMAIN cache
    BY <1>1, <1>2, <2>1 DEF DatagramReceived
  <2> QED
    BY <1>2, <2>1, CacheAppend
<1>3. CASE Restart
  BY <1>3, BankAssumption, SMTT(30) DEF Restart, CacheInStep, Range
<1>4. ASSUME NEW k \in Conns, Serve(k) \/ DbFailure(k) PROVE UNCHANGED udp
  BY <1>4, Zenon DEF Serve, DbFailure, FetchSymKey, Refuse, HandleRequest, HandleDeposit,
     ReadBalance, UpdateAccount, CreditAccount, GetBalance, Reply, ConnectionLost
<1>5. ASSUME NEW k \in Conns, NEW r \in Relays, NEW kind \in {"request", "deposit"},
             NEW coins \in SUBSET Coins, StringReceived(k, r, kind, coins)
      PROVE  UNCHANGED udp
  BY <1>5 DEF StringReceived
<1>6. ASSUME NEW w \in numWrites, WriteMsgnum(w) PROVE UNCHANGED udp
  BY <1>6 DEF WriteMsgnum
<1>7. ASSUME Tick \/ LearnInterval \/ LookupFails \/ UNCHANGED vars PROVE UNCHANGED udp
  BY <1>7 DEF Tick, LearnInterval, LookupFails, vars
<1> QED
  BY <1>1, <1>2, <1>3, <1>4, <1>5, <1>6, <1>7 DEF Next

\* Globals.Acoins has a key for every interval a valid coin can have, and no
\* other, and del cache[queue.pop(0)] finds its key, whatever fails or restarts:
\* deposit_acoin and UDPServer.reply never raise KeyError.
THEOREM TablesStayInStep == Spec => []TablesInStep
<1> DEFINE Inv == ClockInv /\ CacheInStep
<1>1. Init => Inv
  BY ClockInit, BankAssumption DEF Init, CacheInStep, Range
<1>2. Inv /\ [Next]_vars => Inv'
  BY ClockStep, CacheStep DEF ClockInv
<1>3. Inv => TablesInStep
  BY DEF ClockInv, TablesInStep, LiveRepositories, Previous, TypeOK
<1> HIDE DEF Inv
<1> QED
  BY <1>1, <1>2, <1>3, PTL DEF Spec

\* Accepting coins that have code 0 keeps Remembered: they were not redeemed
\* before, and are stored now.
LEMMA AcceptStep ==
    ASSUME ClockInv, Remembered, NEW S, S \subseteq Coins,
           \A c \in S : DepositCode(c, Acoins) = "0",
           Store(S), Redeem(S), UNCHANGED current
    PROVE  Remembered'
<1> SUFFICES ASSUME NEW c \in Coins
             PROVE  /\ redeemed'[c] <= 1
                    /\ redeemed'[c] = 1 =>
                         /\ IntervalOf[c] <= current
                         /\ IntervalOf[c] >= current - 1 => c \in Acoins'[IntervalOf[c]]
  BY DEF Remembered
<1>1. IntervalOf[c] \in Nat /\ current \in Nat /\ redeemed[c] \in Nat
  BY BankAssumption DEF ClockInv, TypeOK
<1>2. CASE c \in S
  <2>1. IntervalOf[c] \in {current - 1, current} /\ c \notin Acoins[IntervalOf[c]]
    BY <1>2 DEF DepositCode, IsValid
  <2>2. redeemed[c] = 0
    BY <1>1, <2>1 DEF Remembered
  <2>3. redeemed'[c] = 1
    BY <1>2, <2>2 DEF Redeem
  <2>4. c \in Acoins'[IntervalOf[c]]
    BY <1>2, <2>1 DEF Store, ClockInv
  <2> QED
    BY <1>1, <2>1, <2>3, <2>4
<1>3. CASE c \notin S
  <2>1. redeemed'[c] = redeemed[c]
    BY <1>1, <1>3 DEF Redeem
  <2>2. ASSUME IntervalOf[c] <= current, IntervalOf[c] >= current - 1,
               c \in Acoins[IntervalOf[c]]
        PROVE  c \in Acoins'[IntervalOf[c]]
    BY <1>1, <2>2 DEF Store, ClockInv
  <2> QED
    BY <1>1, <2>1, <2>2 DEF Remembered
<1> QED
  BY <1>2, <1>3

\* Between restarts every step keeps the memory of redeemed coins; a new
\* interval only forgets coins that are no longer valid.
LEMMA RememberStep ==
    ClockInv /\ Remembered /\ [Next]_vars /\ UNCHANGED restarts => Remembered'
<1> SUFFICES ASSUME ClockInv, Remembered, [Next]_vars, UNCHANGED restarts PROVE Remembered'
  OBVIOUS
<1> USE DEF db, clock, udp
<1>1. ASSUME UNCHANGED <<Acoins, redeemed, current>> PROVE Remembered'
  BY <1>1, SMTT(30) DEF Remembered
<1>2. ASSUME NEW k \in Conns, Serve(k) \/ DbFailure(k) PROVE Remembered'
  <2>1. CASE HandleDeposit(k)
    <3> DEFINE ok == {c \in conn[k].coins : DepositCode(c, Acoins) = "0"}
    <3>1. ok \subseteq Coins
      BY <2>1, OpenConnType DEF HandleDeposit, ClockInv, OpenConn
    <3>2. Store(ok) /\ Redeem(ok) /\ UNCHANGED current
      BY <2>1 DEF HandleDeposit
    <3> QED
      BY <3>1, <3>2, AcceptStep
  <2> QED
    BY <1>1, <1>2, <2>1, Zenon DEF Serve, DbFailure, FetchSymKey, Refuse, HandleRequest, ReadBalance,
       UpdateAccount, CreditAccount, GetBalance, Reply, ConnectionLost
<1>3. ASSUME NEW m \in Datagrams, DatagramReceived(m) PROVE Remembered'
  <2>1. CASE m \in DOMAIN cache
    BY <1>1, <1>3, <2>1 DEF DatagramReceived
  <2>2. CASE m \notin DOMAIN cache
    <3> DEFINE ok == {p \in Pays[m] : DepositCode(p[1], Acoins) = "0"}
               S == {p[1] : p \in ok}
    <3>1. S \subseteq Coins
      BY BankAssumption
    <3>2. \A c \in S : DepositCode(c, Acoins) = "0"
      BY SMTT(30)
    <3>3. Store(S) /\ Redeem(S) /\ UNCHANGED current
      BY <1>3, <2>2, Zenon DEF DatagramReceived
    <3> QED
      BY <3>1, <3>2, <3>3, AcceptStep
  <2> QED
    BY <2>1, <2>2
<1>4. CASE LearnInterval
  <2>1. today = current + 1 /\ Previous(today) - 1 = current - 1 /\ current \in Nat
    BY <1>4 DEF LearnInterval, ClockInv, TypeOK, Previous
  <2>2. Acoins'[current] = Acoins[current] /\ current' = current + 1 /\ UNCHANGED redeemed
    BY <1>4, <2>1 DEF LearnInterval, ClockInv, TypeOK
  <2>3. \A c \in Coins : IntervalOf[c] \in Nat
    BY BankAssumption
  <2> QED
    BY <2>1, <2>2, <2>3 DEF Remembered
<1>5. ASSUME NEW k \in Conns, NEW r \in Relays, NEW kind \in {"request", "deposit"},
             NEW coins \in SUBSET Coins, StringReceived(k, r, kind, coins)
      PROVE  Remembered'
  BY <1>1, <1>5 DEF StringReceived
<1>6. ASSUME NEW w \in numWrites, WriteMsgnum(w) PROVE Remembered'
  BY <1>1, <1>6 DEF WriteMsgnum
<1>7. CASE Tick \/ LookupFails
  BY <1>1, <1>7 DEF Tick, LookupFails
<1>8. CASE Restart
  BY <1>8 DEF Restart, ClockInv, TypeOK
<1>9. CASE UNCHANGED vars
  BY <1>1, <1>9, SMTT(30) DEF vars
<1> QED
  BY <1>2, <1>3, <1>4, <1>5, <1>6, <1>7, <1>8, <1>9 DEF Next

\* A bank process that is not restarted accepts no coin twice: neither two
\* deposits, nor a deposit and a payment, nor a datagram processed again after
\* its reply left the cache, in any order and over any number of intervals,
\* with or without database faults.
THEOREM NoDoubleSpending == Spec => []AcceptedOnce
<1> DEFINE Inv == ClockInv /\ (restarts = 0 => Remembered)
<1>1. Init => Inv
  BY ClockInit DEF Init, Remembered
<1>2. Inv /\ [Next]_vars => Inv'
  <2> SUFFICES ASSUME Inv, [Next]_vars PROVE Inv'
    OBVIOUS
  <2>1. ASSUME Restart PROVE restarts' # 0
    BY <2>1, SMTT(30) DEF Restart, ClockInv, TypeOK
  <2>2. ASSUME NEW k \in Conns, Serve(k) \/ DbFailure(k) PROVE UNCHANGED restarts
    BY <2>2, Zenon DEF Serve, DbFailure, FetchSymKey, Refuse, HandleRequest, HandleDeposit,
       ReadBalance, UpdateAccount, CreditAccount, GetBalance, Reply, ConnectionLost
  <2>3. ASSUME NEW k \in Conns, NEW r \in Relays, NEW kind \in {"request", "deposit"},
               NEW coins \in SUBSET Coins, StringReceived(k, r, kind, coins)
        PROVE  UNCHANGED restarts
    BY <2>3, ZenonT(30) DEF StringReceived
  <2>4. ASSUME NEW m \in Datagrams, DatagramReceived(m) PROVE UNCHANGED restarts
    BY <2>4 DEF DatagramReceived
  <2>5. ASSUME NEW w \in numWrites, WriteMsgnum(w) PROVE UNCHANGED restarts
    BY <2>5 DEF WriteMsgnum
  <2>6. ASSUME Tick \/ LearnInterval \/ LookupFails PROVE UNCHANGED restarts
    BY <2>6 DEF Tick, LearnInterval, LookupFails
  <2>7. ASSUME UNCHANGED vars PROVE UNCHANGED restarts
    BY <2>7 DEF vars
  <2>8. restarts' # 0 \/ UNCHANGED restarts
    BY <2>1, <2>2, <2>3, <2>4, <2>5, <2>6, <2>7 DEF Next
  <2> QED
    BY <2>8, ClockStep, RememberStep
<1>3. Inv => AcceptedOnce
  BY DEF Remembered, AcceptedOnce
<1> HIDE DEF Inv
<1> QED
  BY <1>1, <1>2, <1>3, PTL DEF Spec

-----------------------------------------------------------------------------
(***************************************************************************)
(* What one connection per account buys.                                   *)
(***************************************************************************)

\* An account has at most one connection open.
OneEach ==
    \A j, k \in Conns :
        conn[j].pc # "free" /\ conn[k].pc # "free"
          /\ Owner[conn[j].relay] = Owner[conn[k].relay] => j = k

\* No number is used before the client has sent it, and a message that has not
\* been compared yet is newer than everything written or about to be written.
Numbered ==
    /\ \A r \in Relays : msgnum[r] <= sent[r]
    /\ \A w \in numWrites : w[2] <= sent[w[1]]
    /\ \A k \in Conns : conn[k].pc \in {"select", "handle"} =>
         /\ conn[k].num = sent[conn[k].relay]
         /\ msgnum[conn[k].relay] < conn[k].num
         /\ \A w \in numWrites : w[1] = conn[k].relay => w[2] < conn[k].num

SerialInv == TypeOK /\ OneEach /\ ReadIsFresh /\ Numbered /\ InOrderAccepted

\* A step that lets one open connection move on, without touching balances,
\* numbers or its relay, keeps OneEach.
LEMMA OneEachKept ==
    ASSUME TypeOK, OneEach, NEW k \in Conns,
           conn[k].pc # "free",
           \A j \in Conns \ {k} : conn'[j] = conn[j],
           conn'[k].pc = "free" \/ conn'[k].relay = conn[k].relay
    PROVE  OneEach'
BY SMTT(30) DEF OneEach

\* A freshly started bank with no connection satisfies SerialInv.
LEMMA SerialInit == Init => SerialInv
BY TypeInit, BankAssumption
   DEF Init, SerialInv, OneEach, ReadIsFresh, Numbered, InOrderAccepted, Free

\* With one connection per account at a time every step keeps SerialInv.
LEMMA SerialStep == ASSUME Serialized PROVE SerialInv /\ [Next]_vars => SerialInv'
<1> SUFFICES ASSUME SerialInv, [Next]_vars PROVE SerialInv'
  OBVIOUS
<1> USE DEF db, clock, udp
<1>0. TypeOK /\ TypeOK'
  BY TypeStep DEF SerialInv
<1>1. ASSUME NEW k \in Conns, NEW r \in Relays, NEW kind \in {"request", "deposit"},
             NEW coins \in SUBSET Coins, StringReceived(k, r, kind, coins)
      PROVE  SerialInv'
  <2>1. /\ conn'[k].pc = "select" /\ conn'[k].relay = r /\ conn'[k].num = sent[r] + 1
        /\ \A j \in Conns \ {k} : conn'[j] = conn[j]
        /\ \A j \in Conns : conn[j].pc # "free" => Owner[conn[j].relay] # Owner[r]
        /\ sent' = [sent EXCEPT ![r] = @ + 1]
        /\ UNCHANGED <<balance, msgnum, numWrites>>
    BY <1>0, <1>1 DEF StringReceived, Busy, TypeOK
  <2>2. OneEach'
    BY <2>1, SMTT(30) DEF SerialInv, OneEach
  <2>3. ReadIsFresh' /\ InOrderAccepted'
    BY <2>1 DEF SerialInv, ReadIsFresh, InOrderAccepted
  <2>4. \A j \in Conns \ {k} : conn[j].pc # "free" => conn[j].relay # r
    BY <2>1, SMTT(30)
  <2>5. Numbered'
    <3>1. sent[r] \in Nat /\ sent'[r] = sent[r] + 1 /\ \A q \in Relays \ {r} : sent'[q] = sent[q]
      BY <1>0, <2>1, SMTT(30) DEF TypeOK
    <3>2. \A q \in Relays : msgnum'[q] \in Nat /\ sent[q] \in Nat
      BY <1>0, <2>1 DEF TypeOK
    <3>3. \A w \in numWrites : w[1] \in Relays /\ w[2] \in Nat
      BY <1>0, Zenon DEF TypeOK
    <3>4. \A j \in Conns : conn[j].pc # "free" => conn[j].relay \in Relays
      BY <1>0, OpenConnType DEF OpenConn
    <3>5. \A q \in Relays : msgnum'[q] <= sent'[q]
      BY <2>1, <3>1, <3>2, SMTT(30) DEF SerialInv, Numbered
    <3>6. \A w \in numWrites' : w[2] <= sent'[w[1]]
      BY <2>1, <3>1, <3>2, <3>3, SMTT(30) DEF SerialInv, Numbered
    <3>7. ASSUME NEW j \in Conns, conn'[j].pc \in {"select", "handle"}
          PROVE  /\ conn'[j].num = sent'[conn'[j].relay]
                 /\ msgnum'[conn'[j].relay] < conn'[j].num
                 /\ \A w \in numWrites' : w[1] = conn'[j].relay => w[2] < conn'[j].num
      <4>1. CASE j = k
        BY <2>1, <3>1, <3>2, <3>3, <4>1, SMTT(30) DEF SerialInv, Numbered
      <4>2. CASE j # k
        <5>1. conn'[j] = conn[j]
          BY <2>1, <4>2, Zenon
        <5>2. conn[j].pc \in {"select", "handle"} /\ conn[j].pc # "free"
          BY <3>7, <5>1
        <5>3. conn[j].relay # r /\ conn[j].relay \in Relays
          BY <2>4, <3>4, <4>2, <5>2, Zenon
        <5>4. sent'[conn[j].relay] = sent[conn[j].relay]
          BY <3>1, <5>3, Zenon
        <5>5. /\ conn[j].num = sent[conn[j].relay] /\ msgnum[conn[j].relay] < conn[j].num
              /\ \A w \in numWrites : w[1] = conn[j].relay => w[2] < conn[j].num
          BY <5>2, Zenon DEF SerialInv, Numbered
        <5> QED BY <2>1, <5>1, <5>4, <5>5, Zenon
      <4> QED
        BY <4>1, <4>2, SMTT(30)
    <3> QED
      BY <3>5, <3>6, <3>7, SMTT(30) DEF Numbered
  <2> QED
    BY <1>0, <2>2, <2>3, <2>5, ZenonT(30) DEF SerialInv
<1>2. ASSUME NEW k \in Conns, FetchSymKey(k) PROVE SerialInv'
  <2>1. /\ conn[k].pc = "select" /\ conn'[k].pc = "handle"
        /\ conn'[k].relay = conn[k].relay /\ conn'[k].num = conn[k].num
        /\ conn'[k].prev = msgnum[conn[k].relay]
        /\ \A j \in Conns \ {k} : conn'[j] = conn[j]
        /\ UNCHANGED <<balance, msgnum, numWrites, sent>>
    BY <1>0, <1>2, OpenConnType, SMTT(30) DEF FetchSymKey, TypeOK, OpenConn
  <2>2. OneEach'
    BY <1>0, <2>1, OneEachKept, SMTT(30) DEF SerialInv
  <2>3. Numbered'
    BY <2>1, ZenonT(30) DEF SerialInv, Numbered
  <2>4. ReadIsFresh'
    BY <2>1, Zenon DEF SerialInv, ReadIsFresh
  <2>5. conn[k].num \in Nat /\ msgnum[conn[k].relay] \in Nat
    BY <1>0, <2>1, OpenConnType, SMTT(30) DEF OpenConn, TypeOK
  <2>6. InOrderAccepted'
    BY <2>1, <2>5 DEF SerialInv, Numbered, InOrderAccepted
  <2> QED
    BY <1>0, <2>2, <2>3, <2>4, <2>6, ZenonT(30) DEF SerialInv
<1>3. ASSUME NEW k \in Conns, Refuse(k) \/ HandleRequest(k) \/ HandleDeposit(k) PROVE SerialInv'
  <2>0. conn[k] \in OpenConn
    BY <1>0, <1>3, OpenConnType, SMTT(30) DEF Refuse, HandleRequest, HandleDeposit
  <2>1. /\ conn[k].pc = "handle" /\ conn'[k].pc \in {"reply", "read", "balance", "credit"}
        /\ conn'[k].relay = conn[k].relay
        /\ \A j \in Conns \ {k} : conn'[j] = conn[j]
        /\ numWrites' \subseteq numWrites \cup {<<conn[k].relay, conn[k].num>>}
        /\ UNCHANGED <<balance, msgnum, sent>>
    <3>1. CASE Refuse(k)
      BY <1>0, <2>0, <3>1, Zenon DEF Refuse, TypeOK, OpenConn
    <3>2. CASE HandleRequest(k)
      BY <1>0, <2>0, <3>2 DEF HandleRequest, TypeOK, OpenConn
    <3>3. CASE HandleDeposit(k)
      BY <1>0, <2>0, <3>3, ZenonT(30) DEF HandleDeposit, TypeOK, OpenConn
    <3> QED
      BY <1>3, <3>1, <3>2, <3>3, SMTT(30)
  <2>2. OneEach'
    BY <1>0, <2>1, OneEachKept DEF SerialInv
  <2>3. ReadIsFresh' /\ InOrderAccepted'
    BY <2>1, SMTT(30) DEF SerialInv, ReadIsFresh, InOrderAccepted
  <2>4. \A j \in Conns \ {k} : conn[j].pc # "free" => conn[j].relay # conn[k].relay
    BY <2>1 DEF SerialInv, OneEach
  <2>5. \A w \in numWrites' : w \in numWrites \/ (w[1] = conn[k].relay /\ w[2] = conn[k].num)
    BY <2>1, SMTT(30)
  <2>6. Numbered'
    <3>1. \A w \in numWrites' : w[2] <= sent'[w[1]]
      BY <2>0, <2>1, <2>5, SMTT(30) DEF SerialInv, Numbered, OpenConn
    <3>2. ASSUME NEW j \in Conns, conn'[j].pc \in {"select", "handle"}
          PROVE  /\ conn'[j].num = sent'[conn'[j].relay]
                 /\ msgnum'[conn'[j].relay] < conn'[j].num
                 /\ \A w \in numWrites' : w[1] = conn'[j].relay => w[2] < conn'[j].num
      BY <2>1, <2>4, <2>5, <3>2 DEF SerialInv, Numbered
    <3> QED
      BY <2>1, <3>1, <3>2, Zenon DEF SerialInv, Numbered
  <2> QED
    BY <1>0, <2>2, <2>3, <2>6 DEF SerialInv
<1>4. ASSUME NEW k \in Conns, conn[k].pc # "free", conn'[k].pc \notin {"select", "handle"},
             conn'[k].pc = "free" \/ conn'[k].relay = conn[k].relay,
             \A j \in Conns \ {k} : conn'[j] = conn[j],
             UNCHANGED <<msgnum, numWrites, sent>>
      PROVE  OneEach' /\ Numbered' /\ InOrderAccepted'
  <2>1. OneEach'
    BY <1>0, <1>4, OneEachKept, Zenon DEF SerialInv
  <2>2. Numbered' /\ InOrderAccepted'
    BY <1>4, SMTT(30) DEF SerialInv, Numbered, InOrderAccepted
  <2> QED
    BY <2>1, <2>2, SMTT(30)
<1>5. ASSUME NEW k \in Conns, ReadBalance(k) PROVE SerialInv'
  <2>0. conn[k] \in OpenConn
    BY <1>0, <1>5, OpenConnType, SMTT(30) DEF ReadBalance
  <2>1. /\ conn[k].pc = "read" /\ conn'[k].pc = "update" /\ conn'[k].relay = conn[k].relay
        /\ conn'[k].bal = balance[Owner[conn[k].relay]]
        /\ \A j \in Conns \ {k} : conn'[j] = conn[j]
        /\ UNCHANGED <<balance, msgnum, numWrites, sent>>
    BY <1>0, <1>5, <2>0, ZenonT(30) DEF ReadBalance, TypeOK, OpenConn
  <2>2. ReadIsFresh'
    BY <2>1, Zenon DEF SerialInv, ReadIsFresh
  <2> QED
    BY <1>0, <1>4, <2>1, <2>2, Zenon DEF SerialInv
<1>6. ASSUME NEW k \in Conns, UpdateAccount(k) \/ CreditAccount(k) PROVE SerialInv'
  <2>0. conn[k] \in OpenConn
    BY <1>0, <1>6, OpenConnType, SMTT(30) DEF UpdateAccount, CreditAccount
  <2>1. /\ conn[k].pc # "free" /\ conn'[k].pc \in {"reply", "balance"}
        /\ conn'[k].relay = conn[k].relay
        /\ \A j \in Conns \ {k} : conn'[j] = conn[j]
        /\ UNCHANGED <<msgnum, numWrites, sent>>
    BY <1>0, <1>6, <2>0, SMTT(30) DEF UpdateAccount, CreditAccount, TypeOK, OpenConn
  <2>2. \A u \in Users \ {Owner[conn[k].relay]} : balance'[u] = balance[u]
    BY <1>0, <1>6, SMTT(30) DEF UpdateAccount, CreditAccount, TypeOK
  <2>3. ReadIsFresh'
    <3> SUFFICES ASSUME NEW j \in Conns, conn'[j].pc = "update"
                 PROVE  conn'[j].bal = balance'[Owner[conn'[j].relay]]
      BY DEF ReadIsFresh
    <3>1. j # k /\ conn'[j] = conn[j]
      BY <2>1
    <3>2. conn[j] \in OpenConn
      BY <1>0, <3>1, OpenConnType, Zenon
    <3>3. Owner[conn[j].relay] \in Users \ {Owner[conn[k].relay]}
      BY <2>1, <3>1, <3>2, BankAssumption, Zenon DEF SerialInv, OneEach, OpenConn
    <3> QED
      BY <2>2, <3>1, <3>3, SMTT(30) DEF SerialInv, ReadIsFresh
  <2> QED
    BY <1>0, <1>4, <2>1, <2>3, SMTT(30) DEF SerialInv
<1>7. ASSUME NEW k \in Conns, GetBalance(k) \/ Reply(k) \/ ConnectionLost(k) \/ DbFailure(k)
      PROVE  SerialInv'
  <2>0. conn[k] \in OpenConn
    BY <1>0, <1>7, OpenConnType, ZenonT(30) DEF GetBalance, Reply, ConnectionLost, DbFailure
  <2>1. /\ conn[k].pc # "free" /\ conn'[k].pc \in {"reply", "free", "stuck"}
        /\ conn'[k].pc = "free" \/ conn'[k].relay = conn[k].relay
        /\ \A j \in Conns \ {k} : conn'[j] = conn[j]
        /\ UNCHANGED <<balance, msgnum, numWrites, sent>>
    <3>1. CASE GetBalance(k)
      BY <1>0, <2>0, <3>1, ZenonT(30) DEF GetBalance, TypeOK, OpenConn
    <3>2. CASE Reply(k) \/ ConnectionLost(k)
      BY <1>0, <3>2 DEF Reply, ConnectionLost, TypeOK, Free
    <3>3. CASE DbFailure(k)
      BY <1>0, <2>0, <3>3, ZenonT(30) DEF DbFailure, TypeOK, OpenConn
    <3> QED
      BY <1>7, <3>1, <3>2, <3>3, SMTT(30)
  <2>2. ReadIsFresh'
    BY <2>1 DEF SerialInv, ReadIsFresh
  <2> QED
    BY <1>0, <1>4, <2>1, <2>2, SMTT(30) DEF SerialInv
<1>8. ASSUME NEW w \in numWrites, WriteMsgnum(w) PROVE SerialInv'
  <2>1. /\ numWrites' \subseteq numWrites
        /\ msgnum' = [msgnum EXCEPT ![w[1]] = w[2]]
        /\ UNCHANGED <<balance, sent, conn>>
    BY <1>8, SMTT(30) DEF WriteMsgnum
  <2>2. w[1] \in Relays /\ w[2] \in Nat
    BY <1>0, SMTT(30) DEF TypeOK
  <2>3. msgnum'[w[1]] = w[2] /\ \A r \in Relays \ {w[1]} : msgnum'[r] = msgnum[r]
    BY <1>0, <2>1, <2>2 DEF TypeOK
  <2>4. \A k \in Conns : conn[k].pc # "free" => conn[k].relay \in Relays
    BY <1>0, OpenConnType, SMTT(30) DEF OpenConn
  <2>5. Numbered'
    BY <2>1, <2>2, <2>3, <2>4, SMTT(30) DEF SerialInv, Numbered
  <2>6. OneEach' /\ ReadIsFresh' /\ InOrderAccepted'
    BY <2>1, Zenon DEF SerialInv, OneEach, ReadIsFresh, InOrderAccepted
  <2> QED
    BY <1>0, <2>5, <2>6 DEF SerialInv
<1>9. ASSUME UNCHANGED <<balance, msgnum, numWrites, sent, conn>> PROVE SerialInv'
  BY <1>0, <1>9, Zenon DEF SerialInv, OneEach, ReadIsFresh, Numbered, InOrderAccepted
<1>10. ASSUME NEW m \in Datagrams, DatagramReceived(m) PROVE SerialInv'
  BY <1>9, <1>10, SMTT(30) DEF DatagramReceived
<1>11. CASE Tick \/ LearnInterval \/ LookupFails
  BY <1>9, <1>11, ZenonT(30) DEF Tick, LearnInterval, LookupFails
<1>12. CASE Restart
  <2>1. /\ \A k \in Conns : conn'[k].pc = "free"
        /\ numWrites' = {} /\ UNCHANGED <<balance, msgnum, sent>>
    BY <1>12 DEF Restart, Free
  <2> QED
    BY <1>0, <2>1 DEF SerialInv, OneEach, ReadIsFresh, Numbered, InOrderAccepted
<1>13. CASE UNCHANGED vars
  BY <1>9, <1>13 DEF vars
<1> QED
  BY <1>1, <1>2, <1>3, <1>5, <1>6, <1>7, <1>8, <1>10, <1>11, <1>12, <1>13, ZenonT(30) DEF Next, Serve

\* As long as the clients of an account talk to the bank one message at a time,
\* the balance that Request.update_account computes with is the balance it
\* overwrites (the missing transaction around SELECT and UPDATE does no harm), and
\* a client that counts its messages is never refused as a replay, whenever and in
\* whatever order the UPDATEs of Msgnum are executed, and whether or not the bank
\* restarts.
THEOREM SerializedIsSound == Spec => []SerializedSound
<1>1. CASE Serialized
  <2>1. SerialInv => SerializedSound
    BY DEF SerialInv, SerializedSound
  <2>2. SerialInv /\ [Next]_vars => SerialInv'
    BY <1>1, SerialStep
  <2> QED
    BY <2>1, <2>2, SerialInit, PTL DEF Spec
<1>2. CASE ~Serialized
  <2>1. SerializedSound
    BY <1>2 DEF SerializedSound
  <2> QED
    BY <2>1, PTL
<1> QED
  BY <1>1, <1>2

\* What a step of the bank may do to the accounts: it changes at most one, and
\* that by exactly the coins of the message, a Request taking them from the
\* balance (and never more than there is) and a Deposit adding those it accepted.
BalanceStep ==
    \A u \in Users : balance'[u] # balance[u] =>
        /\ \A v \in Users \ {u} : balance'[v] = balance[v]
        /\ \E k \in Conns :
             /\ conn[k].pc # "free" /\ Owner[conn[k].relay] = u
             /\ \/ /\ conn[k].pc = "update"
                   /\ Cardinality(conn[k].coins) <= balance[u]
                   /\ balance'[u] = balance[u] - Cardinality(conn[k].coins)
                \/ /\ conn[k].pc = "credit"
                   /\ balance'[u] = balance[u] + conn[k].credit

\* Under the same condition the accounts move by exactly what the messages are
\* worth, although Request.update_account writes an absolute balance.
THEOREM AccountsMoveByTheBill == ASSUME Serialized PROVE Spec => [][BalanceStep]_vars
<1>1. SerialInv /\ [Next]_vars => [BalanceStep]_vars
  <2> SUFFICES ASSUME SerialInv, Next PROVE BalanceStep
    OBVIOUS
  <2> USE DEF db, clock, udp
  <2>1. ASSUME UNCHANGED balance PROVE BalanceStep
    BY <2>1, ZenonT(30) DEF BalanceStep
  <2>2. ASSUME NEW k \in Conns, Serve(k) \/ DbFailure(k) PROVE BalanceStep
    <3>1. ASSUME conn[k].pc # "free"
          PROVE  /\ conn[k] \in OpenConn /\ Owner[conn[k].relay] \in Users
                 /\ Cardinality(conn[k].coins) \in Nat
                 /\ balance \in [Users -> Nat]
      BY <3>1, OpenConnType, CoinCount, BankAssumption, ZenonT(30) DEF SerialInv, OpenConn, TypeOK
    <3>2. CASE UpdateAccount(k)
      <4>1. conn[k].bal = balance[Owner[conn[k].relay]]
        BY <3>2 DEF UpdateAccount, SerialInv, ReadIsFresh
      <4> QED
        BY <2>1, <3>1, <3>2, <4>1 DEF UpdateAccount, BalanceStep
    <3>3. CASE CreditAccount(k)
      BY <3>1, <3>3, SMTT(30) DEF CreditAccount, BalanceStep
    <3>4. CASE DbFailure(k)
      BY <2>1, <3>4, ZenonT(30) DEF DbFailure
    <3>5. CASE FetchSymKey(k) \/ Refuse(k) \/ ReadBalance(k) \/ GetBalance(k)
      BY <2>1, <3>5, ZenonT(30) DEF FetchSymKey, Refuse, ReadBalance, GetBalance
    <3>6. CASE HandleRequest(k)
      BY <2>1, <3>6, ZenonT(30) DEF HandleRequest
    <3>7. CASE HandleDeposit(k)
      BY <2>1, <3>7, ZenonT(30) DEF HandleDeposit
    <3>8. CASE Reply(k) \/ ConnectionLost(k)
      BY <2>1, <3>8, ZenonT(30) DEF Reply, ConnectionLost
    <3> QED
      BY <2>2, <3>2, <3>3, <3>4, <3>5, <3>6, <3>7, <3>8, ZenonT(30) DEF Serve
  <2>3. ASSUME NEW k \in Conns, NEW r \in Relays, NEW kind \in {"request", "deposit"},
               NEW coins \in SUBSET Coins, StringReceived(k, r, kind, coins)
        PROVE  UNCHANGED balance
    BY <2>3 DEF StringReceived
  <2>4. ASSUME NEW w \in numWrites, WriteMsgnum(w) PROVE UNCHANGED balance
    BY <2>4, Zenon DEF WriteMsgnum
  <2>5. ASSUME NEW m \in Datagrams, DatagramReceived(m) PROVE UNCHANGED balance
    BY <2>5, Zenon DEF DatagramReceived
  <2>6. ASSUME Tick \/ LearnInterval \/ LookupFails \/ Restart PROVE UNCHANGED balance
    BY <2>6, Zenon DEF Tick, LearnInterval, LookupFails, Restart
  <2> QED
    BY <2>1, <2>2, <2>3, <2>4, <2>5, <2>6 DEF Next
<1> QED
  BY <1>1, SerialInit, SerialStep, PTL DEF Spec

=============================================================================

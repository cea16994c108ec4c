------------------------------ MODULE BankMoney ------------------------------
(***************************************************************************)
(* Money is conserved: the proof of Conserved, for every set of accounts,  *)
(* connections, coins and datagrams.                                       *)
(***************************************************************************)
EXTENDS BankServerProofs, WellFoundedInduction

-----------------------------------------------------------------------------
(***************************************************************************)
(* SumFunction over a finite set.                                          *)
(***************************************************************************)

\* A counter that is counted up is neither where it was nor back at zero.
LEMMA Counting == \A n \in Nat : n + 1 # 0 /\ n + 1 # n
OBVIOUS

\* A set of numbers that is not empty has a least one.
LEMMA Least == ASSUME NEW T \in SUBSET Nat, T # {} PROVE \E x \in T : \A y \in T : x <= y
<1> DEFINE R == OpToRel(<, Nat)
<1>1. IsWellFoundedOn(R, Nat)
  BY NatLessThanWellFounded, Zenon
<1>2. \A x, y \in Nat : x < y => <<x, y>> \in R
  BY DEF OpToRel
<1> HIDE DEF R
<1>3. \E x \in T : \A y \in T : ~ (<<y, x>> \in R)
  BY <1>1, WFMin, Zenon
<1>4. PICK x \in T : \A y \in T : ~ (<<y, x>> \in R)
  BY <1>3, Zenon
<1>5. \A y \in T : ~(y < x)
  BY <1>2, <1>4, Zenon
<1> QED BY <1>5

\* The element the fold takes first, and its recursion.
First(s) == CHOOSE x \in s : TRUE
Totals(f, S, g) ==
    g = [s \in SUBSET S |-> IF s = {} THEN 0 ELSE f[First(s)] + g[s \ {First(s)}]]

\* What SumFunction adds up, with its folds expanded.
LEMMA SumUnfolds ==
  ASSUME NEW f PROVE SumFunction(f) = (CHOOSE g : Totals(f, DOMAIN f, g))[DOMAIN f]
BY Zenon DEF SumFunction, SumFunctionOnSet, FoldFunctionOnSet, MapThenFoldSet, Totals, First

\* Without its first element a set is smaller by one.
LEMMA Smaller ==
  ASSUME NEW S, IsFiniteSet(S), NEW s \in SUBSET S, s # {}
  PROVE  /\ First(s) \in s /\ s \ {First(s)} \in SUBSET S
         /\ Cardinality(s) \in Nat /\ Cardinality(s \ {First(s)}) = Cardinality(s) - 1
         /\ Cardinality(s) > 0
<1>1. First(s) \in s
  BY DEF First
<1>2. IsFiniteSet(s) /\ Cardinality(s) \in Nat
  BY FS_Subset, FS_CardinalityType
<1> DEFINE x == First(s)
<1> HIDE DEF x
<1>3. Cardinality(s \ {x}) = Cardinality(s) - 1
  BY <1>1, <1>2, FS_RemoveElement, Zenon DEF x
<1>4. Cardinality(s) # 0
  BY <1>2, FS_EmptySet
<1> QED BY <1>1, <1>2, <1>3, <1>4 DEF x

\* A set of subsets has one that is in it although the smaller ones are not.
LEMMA SmallestSet ==
  ASSUME NEW S, IsFiniteSet(S), NEW B \in SUBSET SUBSET S, B # {}
  PROVE  \E s \in B : s # {} => s \ {First(s)} \notin B
<1> DEFINE T == {Cardinality(s) : s \in B}
<1>1. \A s \in B : Cardinality(s) \in Nat
  BY FS_Subset, FS_CardinalityType
<1>2. T \in SUBSET Nat /\ T # {}
  BY <1>1
<1>3. PICK n \in T : \A m \in T : n <= m
  BY <1>2, Least, Zenon
<1>4. PICK s \in B : Cardinality(s) = n
  BY <1>3
<1>5. ASSUME s # {}, s \ {First(s)} \in B PROVE FALSE
  <2>1. Cardinality(s \ {First(s)}) = Cardinality(s) - 1 /\ Cardinality(s) \in Nat
    BY <1>5, Smaller
  <2>2. Cardinality(s \ {First(s)}) \in T
    BY <1>5, Zenon
  <2>3. n <= Cardinality(s \ {First(s)})
    BY <1>3, <2>2, Zenon
  <2> QED BY <1>4, <2>1, <2>3
<1> QED BY <1>5, Zenon

\* The recursive definition of the totals has a solution: by the least
\* cardinality of a set for which it would have none.
LEMMA TotalsExist ==
  ASSUME NEW S, IsFiniteSet(S), NEW f
  PROVE  \E g : Totals(f, S, g)
<1> DEFINE Upto(g, n) ==
             \A s \in SUBSET S : Cardinality(s) <= n =>
                g[s] = IF s = {} THEN 0 ELSE f[First(s)] + g[s \ {First(s)}]
           T == {n \in Nat : ~ \E g : Upto(g, n)}
<1>1. \A s \in SUBSET S : Cardinality(s) \in Nat /\ (Cardinality(s) = 0 => s = {})
                            /\ Cardinality(s) <= Cardinality(S)
  BY FS_Subset, FS_CardinalityType, FS_EmptySet
<1>2. \E g : Upto(g, 0)
  <2> DEFINE g == [s \in SUBSET S |-> 0]
  <2>1. Upto(g, 0)
    BY <1>1
  <2> QED BY <2>1, Zenon
<1>3. ASSUME NEW n \in Nat, \E g : Upto(g, n) PROVE \E g : Upto(g, n + 1)
  <2>1. PICK g : Upto(g, n)
    BY <1>3, Zenon
  <2> DEFINE h == [s \in SUBSET S |-> IF Cardinality(s) <= n THEN g[s]
                                      ELSE f[First(s)] + g[s \ {First(s)}]]
  <2>2. ASSUME NEW s \in SUBSET S, Cardinality(s) <= n + 1
        PROVE  h[s] = IF s = {} THEN 0 ELSE f[First(s)] + h[s \ {First(s)}]
    <3>1. CASE s = {}
      <4>1. Cardinality(s) <= n
        BY <3>1, FS_EmptySet
      <4> QED BY <2>1, <3>1, <4>1
    <3>2. CASE s # {}
      <4> DEFINE r == s \ {First(s)}
      <4>1. r \in SUBSET S /\ Cardinality(r) = Cardinality(s) - 1 /\ Cardinality(s) \in Nat
        BY <3>2, Smaller
      <4>2. Cardinality(r) <= n
        BY <2>2, <4>1
      <4>3. h[r] = g[r]
        BY <4>1, <4>2
      <4>4. h[s] = f[First(s)] + g[r]
        <5>1. CASE Cardinality(s) <= n
          BY <2>1, <3>2, <5>1
        <5>2. CASE ~(Cardinality(s) <= n)
          BY <5>2
        <5> QED BY <5>1, <5>2
      <4> HIDE DEF h
      <4> QED BY <3>2, <4>3, <4>4
    <3> QED BY <3>1, <3>2
  <2> HIDE DEF h
  <2>3. Upto(h, n + 1)
    BY <2>2
  <2> QED BY <2>3, Zenon
<1> HIDE DEF Upto
<1>4. \A n \in Nat : \E g : Upto(g, n)
  <2> SUFFICES ASSUME T # {} PROVE FALSE
    BY Zenon
  <2>1. T \in SUBSET Nat
    OBVIOUS
  <2>2. PICK n \in T : \A m \in T : n <= m
    BY <2>1, Least, Zenon
  <2>3. n \in Nat /\ ~ \E g : Upto(g, n)
    BY Zenon
  <2>4. n # 0
    BY <1>2, <2>3, Zenon
  <2>5. n - 1 \in Nat /\ ~(n <= n - 1) /\ (n - 1) + 1 = n
    BY <2>3, <2>4
  <2>6. \E g : Upto(g, n - 1)
    BY <2>2, <2>5, Zenon
  <2>7. \E g : Upto(g, (n - 1) + 1)
    BY <1>3, <2>5, <2>6, Zenon
  <2> QED BY <2>3, <2>5, <2>7, Zenon
<1>5. Cardinality(S) \in Nat
  BY FS_CardinalityType
<1>6. PICK g : Upto(g, Cardinality(S))
  BY <1>4, <1>5, Zenon
<1> DEFINE G == [s \in SUBSET S |-> g[s]]
<1>7. Totals(f, S, G)
  <2> SUFFICES ASSUME NEW s \in SUBSET S
               PROVE  g[s] = IF s = {} THEN 0 ELSE f[First(s)] + G[s \ {First(s)}]
    BY Zenon DEF Totals
  <2>1. s \ {First(s)} \in SUBSET S
    OBVIOUS
  <2>2. G[s \ {First(s)}] = g[s \ {First(s)}]
    BY <2>1, Zenon
  <2>3. Cardinality(s) <= Cardinality(S)
    BY <1>1
  <2> QED BY <1>6, <2>2, <2>3, Zenon DEF Upto
<1> QED BY <1>7, Zenon


\* The sum is the last of the totals, and a number.
LEMMA SumIsTotal ==
  ASSUME NEW S, IsFiniteSet(S), NEW f \in [S -> Int]
  PROVE  \E g : Totals(f, S, g) /\ SumFunction(f) = g[S]
<1>1. DOMAIN f = S
  OBVIOUS
<1>2. Totals(f, S, CHOOSE g : Totals(f, S, g))
  BY TotalsExist, Zenon
<1> QED BY <1>1, <1>2, SumUnfolds, Zenon

Adds(f, S, g) ==
    \A s \in SUBSET S :
        (s = {} => g[s] = 0) /\ (s # {} => g[s] = f[First(s)] + g[s \ {First(s)}])

\* One step of the totals.
LEMMA TotalsStep ==
  ASSUME NEW S, NEW f, NEW g, Totals(f, S, g)
  PROVE  Adds(f, S, g)
<1> DEFINE F(h) == [r \in SUBSET S |-> IF r = {} THEN 0 ELSE f[First(r)] + h[r \ {First(r)}]]
<1>1. g = F(g)
  BY Zenon DEF Totals
<1>2. \A s \in SUBSET S : F(g)[s] = IF s = {} THEN 0 ELSE f[First(s)] + g[s \ {First(s)}]
  BY Zenon
<1> QED BY <1>1, <1>2, Zenon DEF Adds

\* Totals of integers are integers.
LEMMA TotalsInt ==
  ASSUME NEW S, IsFiniteSet(S), NEW f \in [S -> Int], NEW g, Totals(f, S, g)
  PROVE  \A s \in SUBSET S : g[s] \in Int
<1> DEFINE B == {s \in SUBSET S : g[s] \notin Int}
<1> SUFFICES ASSUME B # {} PROVE FALSE
  OBVIOUS
<1>1. PICK s \in B : s # {} => s \ {First(s)} \notin B
  BY SmallestSet, Zenon
<1>2. s \in SUBSET S /\ g[s] \notin Int
  OBVIOUS
<1>0. \A r \in SUBSET S :
         (r = {} => g[r] = 0) /\ (r # {} => g[r] = f[First(r)] + g[r \ {First(r)}])
  <2>1. Adds(f, S, g)
    BY TotalsStep, Zenon
  <2> QED BY <2>1, Zenon DEF Adds
<1>3. s # {}
  <2>1. s = {} => g[s] = 0
    BY <1>0, <1>2, Zenon
  <2>2. 0 \in Int
    OBVIOUS
  <2> QED BY <1>2, <2>1, <2>2, Zenon
<1>4. First(s) \in S /\ s \ {First(s)} \in SUBSET S
  BY <1>2, <1>3, Smaller, Zenon
<1>5. g[s \ {First(s)}] \in Int
  BY <1>1, <1>3, <1>4
<1>6. g[s] = f[First(s)] + g[s \ {First(s)}]
  BY <1>0, <1>2, <1>3, Zenon
<1> QED BY <1>2, <1>4, <1>5, <1>6

\* The sum of integers is an integer.
LEMMA SumInt ==
  ASSUME NEW S, IsFiniteSet(S), NEW f \in [S -> Int]
  PROVE  SumFunction(f) \in Int
<1>1. PICK g : Totals(f, S, g) /\ SumFunction(f) = g[S]
  BY SumIsTotal
<1>2. \A s \in SUBSET S : g[s] \in Int
  BY <1>1, TotalsInt
<1> QED BY <1>1, <1>2

\* A sum of zeros is zero.
LEMMA SumZero ==
  ASSUME NEW S, IsFiniteSet(S), NEW f \in [S -> Int], \A x \in S : f[x] = 0
  PROVE  SumFunction(f) = 0
<1>1. PICK g : Totals(f, S, g) /\ SumFunction(f) = g[S]
  BY SumIsTotal
<1> DEFINE B == {s \in SUBSET S : g[s] # 0}
<1>2. \A s \in SUBSET S :
         (s = {} => g[s] = 0) /\ (s # {} => g[s] = f[First(s)] + g[s \ {First(s)}])
  <2>1. Adds(f, S, g)
    BY <1>1, TotalsStep, Zenon
  <2> QED BY <2>1, Zenon DEF Adds
<1>3. B = {}
  <2> SUFFICES ASSUME B # {} PROVE FALSE
    OBVIOUS
  <2>1. PICK s \in B : s # {} => s \ {First(s)} \notin B
    BY SmallestSet, Zenon
  <2>2. s \in SUBSET S /\ g[s] # 0
    OBVIOUS
  <2>3. s # {}
    BY <1>2, <2>2, Zenon
  <2>4. First(s) \in S /\ s \ {First(s)} \in SUBSET S
    BY <2>2, <2>3, Smaller, Zenon
  <2>5. g[s \ {First(s)}] = 0
    BY <2>1, <2>3, <2>4
  <2>6. g[s] = f[First(s)] + g[s \ {First(s)}]
    BY <1>2, <2>2, <2>3, Zenon
  <2> QED BY <2>2, <2>4, <2>5, <2>6
<1> QED BY <1>1, <1>3

\* A sum changes by as much as the one number that changes.
LEMMA SumChange ==
  ASSUME NEW S, IsFiniteSet(S), NEW f \in [S -> Int], NEW h \in [S -> Int], NEW x \in S,
         \A y \in S \ {x} : h[y] = f[y]
  PROVE  SumFunction(h) = SumFunction(f) + (h[x] - f[x])
<1>1. PICK g : Totals(f, S, g) /\ SumFunction(f) = g[S]
  BY SumIsTotal
<1>2. PICK k : Totals(h, S, k) /\ SumFunction(h) = k[S]
  BY SumIsTotal
<1> DEFINE d(s) == IF x \in s THEN h[x] - f[x] ELSE 0
           B == {s \in SUBSET S : k[s] # g[s] + d(s)}
<1>a. /\ \A s \in SUBSET S :
            (s = {} => g[s] = 0) /\ (s # {} => g[s] = f[First(s)] + g[s \ {First(s)}])
      /\ \A s \in SUBSET S :
            (s = {} => k[s] = 0) /\ (s # {} => k[s] = h[First(s)] + k[s \ {First(s)}])
  <2>1. \A s \in SUBSET S :
           (s = {} => g[s] = 0) /\ (s # {} => g[s] = f[First(s)] + g[s \ {First(s)}])
    <3>1. Adds(f, S, g)
      BY <1>1, TotalsStep, Zenon
    <3> QED BY <3>1, Zenon DEF Adds
  <2>2. \A s \in SUBSET S :
           (s = {} => k[s] = 0) /\ (s # {} => k[s] = h[First(s)] + k[s \ {First(s)}])
    <3>1. Adds(h, S, k)
      BY <1>2, TotalsStep, Zenon
    <3> QED BY <3>1, Zenon DEF Adds
  <2> QED BY <2>1, <2>2, Zenon
<1>b. \A s \in SUBSET S : g[s] \in Int
  BY <1>1, TotalsInt
<1>3. B = {}
  <2> SUFFICES ASSUME B # {} PROVE FALSE
    OBVIOUS
  <2>1. PICK s \in B : s # {} => s \ {First(s)} \notin B
    BY SmallestSet, Zenon
  <2>2. s \in SUBSET S /\ k[s] # g[s] + d(s)
    OBVIOUS
  <2>3. s # {}
    <3> SUFFICES ASSUME s = {} PROVE FALSE
      OBVIOUS
    <3>1. g[s] = 0 /\ k[s] = 0
      BY <1>a, <2>2, Zenon
    <3> QED BY <2>2, <3>1
  <2> DEFINE y == First(s)
             r == s \ {y}
  <2>4. y \in s /\ y \in S /\ r \in SUBSET S
    BY <2>2, <2>3, Smaller, Zenon
  <2>5. g[s] = f[y] + g[r] /\ k[s] = h[y] + k[r]
    BY <1>a, <2>2, <2>3, Zenon
  <2>6. k[r] = g[r] + d(r)
    BY <2>1, <2>3, <2>4
  <2>7. g[r] \in Int
    BY <1>b, <2>4, Zenon
  <2>8. y # x => h[y] = f[y]
    BY <2>4
  <2> HIDE DEF y
  <2>9. CASE y = x
    <3>1. d(r) = 0 /\ d(s) = h[x] - f[x]
      BY <2>4, <2>9
    <3> HIDE DEF d, r
    <3> QED BY <2>2, <2>4, <2>5, <2>6, <2>7, <2>9, <3>1
  <2>10. CASE y # x
    <3>1. d(r) = d(s) /\ d(s) \in Int
      BY <2>4, <2>10
    <3> HIDE DEF d, r
    <3> QED BY <2>2, <2>4, <2>5, <2>6, <2>7, <2>8, <2>10, <3>1
  <2> QED BY <2>9, <2>10
<1>4. S \in SUBSET S
  OBVIOUS
<1>5. k[S] = g[S] + d(S)
  BY <1>3, <1>4
<1> QED BY <1>1, <1>2, <1>5


-----------------------------------------------------------------------------
(***************************************************************************)
(* What a step does to a connection.                                       *)
(***************************************************************************)

\* A handler works for an open connection and leaves the others alone; it ends the
\* connection, or keeps what the message asked for.
LEMMA ServeEffect ==
  ASSUME TypeOK, NEW k \in Conns, Serve(k) \/ DbFailure(k)
  PROVE  /\ conn[k].pc # "free" /\ conn[k] \in OpenConn
         /\ \A j \in Conns \ {k} : conn'[j] = conn[j]
         /\ \/ conn'[k].pc = "free"
            \/ /\ conn'[k].kind = conn[k].kind /\ conn'[k].coins = conn[k].coins
               /\ conn'[k].pc \in {"credit", "balance"}
                    => conn[k].kind = "deposit" \/ conn[k].pc \in {"credit", "balance"}
               /\ conn'[k].pc \in {"read", "update"}
                    => conn[k].kind = "request" \/ conn[k].pc \in {"read", "update"}
<1> USE DEF db, clock, udp
<1>0. /\ conn[k].pc # "free"
      /\ conn \in [Conns -> {Free} \cup OpenConn]
  <2>1. conn[k].pc # "free"
    <3>1. CASE FetchSymKey(k) \/ Refuse(k) \/ HandleRequest(k) \/ HandleDeposit(k)
      BY <3>1, Zenon DEF FetchSymKey, Refuse, HandleRequest, HandleDeposit
    <3>2. CASE ReadBalance(k) \/ UpdateAccount(k) \/ CreditAccount(k) \/ GetBalance(k)
      BY <3>2, Zenon DEF ReadBalance, UpdateAccount, CreditAccount, GetBalance
    <3>3. CASE Reply(k) \/ ConnectionLost(k)
      BY <3>3, Zenon DEF Reply, ConnectionLost
    <3>4. CASE DbFailure(k)
      BY <3>4 DEF DbFailure
    <3> QED BY <3>1, <3>2, <3>3, <3>4, Zenon DEF Serve
  <2> QED BY <2>1, Zenon DEF TypeOK
<1>1. conn[k] \in OpenConn
  BY <1>0, OpenConnType, Zenon
<1> DEFINE P == /\ \A j \in Conns \ {k} : conn'[j] = conn[j]
                /\ \/ conn'[k].pc = "free"
                   \/ /\ conn'[k].kind = conn[k].kind /\ conn'[k].coins = conn[k].coins
                      /\ conn'[k].pc \in {"credit", "balance"}
                           => conn[k].kind = "deposit" \/ conn[k].pc \in {"credit", "balance"}
                      /\ conn'[k].pc \in {"read", "update"}
                           => conn[k].kind = "request" \/ conn[k].pc \in {"read", "update"}
<1>2. CASE FetchSymKey(k)
  BY <1>0, <1>1, <1>2 DEF FetchSymKey, OpenConn
<1>3. CASE Refuse(k)
  BY <1>0, <1>1, <1>3 DEF Refuse, OpenConn
<1>4. CASE HandleRequest(k)
  BY <1>0, <1>1, <1>4 DEF HandleRequest, OpenConn
<1>5. CASE HandleDeposit(k)
  <2> DEFINE ok == {c \in conn[k].coins : DepositCode(c, Acoins) = "0"}
             n == Cardinality(ok)
             to == IF ok = {} THEN "balance" ELSE "credit"
  <2>1. /\ conn' = [conn EXCEPT ![k].credit = n, ![k].pc = to]
        /\ conn[k].kind = "deposit" /\ to \in {"balance", "credit"}
    BY <1>5 DEF HandleDeposit
  <2> HIDE DEF n, to
  <2> QED BY <1>0, <1>1, <2>1 DEF OpenConn
<1>6. CASE ReadBalance(k)
  BY <1>0, <1>1, <1>6 DEF ReadBalance, OpenConn
<1>7. CASE UpdateAccount(k)
  <2> DEFINE v == conn[k].bal - Cardinality(conn[k].coins)
  <2>1. \/ conn' = [conn EXCEPT ![k].code = "0", ![k].bal = v, ![k].pc = "reply"]
        \/ conn' = [conn EXCEPT ![k].code = "1", ![k].pc = "reply"]
    BY <1>7, Zenon DEF UpdateAccount
  <2> HIDE DEF v
  <2> QED BY <1>0, <1>1, <2>1 DEF OpenConn
<1>8. CASE CreditAccount(k)
  BY <1>0, <1>1, <1>8 DEF CreditAccount, OpenConn
<1>9. CASE GetBalance(k)
  BY <1>0, <1>1, <1>9 DEF GetBalance, OpenConn
<1>10. CASE Reply(k)
  <2>1. conn' = [conn EXCEPT ![k] = Free]
    BY <1>10 DEF Reply
  <2> QED BY <1>0, <1>1, <2>1 DEF Free
<1>11. CASE ConnectionLost(k)
  BY <1>0, <1>1, <1>11 DEF ConnectionLost, Free
<1>12. CASE DbFailure(k)
  <2> DEFINE to == IF conn[k].pc = "select" THEN "reply" ELSE "stuck"
  <2>1. conn' = [conn EXCEPT ![k].code = "error", ![k].pc = to] /\ to \in {"reply", "stuck"}
    BY <1>0, <1>12 DEF DbFailure
  <2> HIDE DEF to
  <2> QED BY <1>0, <1>1, <2>1 DEF OpenConn
<1>13. P
  BY <1>2, <1>3, <1>4, <1>5, <1>6, <1>7, <1>8, <1>9, <1>10, <1>11, <1>12, ZenonT(30) DEF Serve
<1> QED BY <1>0, <1>1, <1>13, Zenon


-----------------------------------------------------------------------------
(***************************************************************************)
(* Coins are new when they are released.                                   *)
(***************************************************************************)
Asking(k) == conn[k].pc # "free" /\ conn[k].kind = "request"

\* What is being withdrawn is in nobody's hands and in no other message; the
\* database steps of a message are those of its kind.
Unused ==
    /\ \A k \in Conns : Asking(k) => conn[k].coins \cap (released \cup Tokens) = {}
    /\ \A j, k \in Conns : Asking(j) /\ Asking(k) /\ j # k
                             => conn[j].coins \cap conn[k].coins = {}
    /\ \A k \in Conns : conn[k].pc \in {"credit", "balance"} => conn[k].kind = "deposit"
    /\ \A k \in Conns : conn[k].pc \in {"read", "update"} => conn[k].kind = "request"

\* Only released coins are redeemed, and a token is released for a redeemed coin.
Tracked ==
    /\ \A c \in Coins : c \notin released => redeemed[c] = 0
    /\ \A m \in Datagrams : \A p \in Pays[m] : p[2] \in released => redeemed[p[1]] > 0

\* A step that releases nothing but tokens and coins of the connection it ends
\* keeps Unused.
LEMMA UnusedKept ==
  ASSUME TypeOK, Unused, NEW k \in Conns, conn[k].pc # "free",
         \A j \in Conns \ {k} : conn'[j] = conn[j],
         \/ conn'[k].pc = "free"
         \/ /\ conn'[k].kind = conn[k].kind /\ conn'[k].coins = conn[k].coins
            /\ conn'[k].pc \in {"credit", "balance"}
                 => conn[k].kind = "deposit" \/ conn[k].pc \in {"credit", "balance"}
            /\ conn'[k].pc \in {"read", "update"}
                 => conn[k].kind = "request" \/ conn[k].pc \in {"read", "update"},
         \/ released' = released
         \/ conn'[k].pc = "free" /\ Asking(k) /\ released' = released \cup conn[k].coins
  PROVE  Unused'
<1>1. \A j \in Conns : Asking(j)' => Asking(j) /\ conn'[j].coins = conn[j].coins
  BY Zenon DEF Asking
<1>2. \A j \in Conns : Asking(j)' => conn'[j].coins \cap (released' \cup Tokens) = {}
  <2>1. CASE released' = released
    BY <1>1, <2>1, Zenon DEF Unused
  <2>2. CASE conn'[k].pc = "free" /\ Asking(k) /\ released' = released \cup conn[k].coins
    <3> SUFFICES ASSUME NEW j \in Conns, Asking(j)'
                 PROVE  conn'[j].coins \cap (released' \cup Tokens) = {}
      OBVIOUS
    <3>1. j # k
      BY <2>2 DEF Asking
    <3>2. conn[j].coins \cap (released \cup Tokens) = {} /\ conn[j].coins \cap conn[k].coins = {}
      BY <1>1, <2>2, <3>1, Zenon DEF Unused
    <3> QED BY <1>1, <2>2, <3>2
  <2> QED BY <2>1, <2>2
<1>3. \A i, j \in Conns : Asking(i)' /\ Asking(j)' /\ i # j
                            => conn'[i].coins \cap conn'[j].coins = {}
  BY <1>1, Zenon DEF Unused
<1>4. /\ \A j \in Conns : conn'[j].pc \in {"credit", "balance"} => conn'[j].kind = "deposit"
      /\ \A j \in Conns : conn'[j].pc \in {"read", "update"} => conn'[j].kind = "request"
  <2>1. /\ \A j \in Conns \ {k} : conn'[j].pc \in {"credit", "balance"} => conn'[j].kind = "deposit"
        /\ \A j \in Conns \ {k} : conn'[j].pc \in {"read", "update"} => conn'[j].kind = "request"
    BY Zenon DEF Unused
  <2>2. /\ conn'[k].pc \in {"credit", "balance"} => conn'[k].kind = "deposit"
        /\ conn'[k].pc \in {"read", "update"} => conn'[k].kind = "request"
    BY Zenon DEF Unused
  <2> QED BY <2>1, <2>2, Zenon
<1> QED BY <1>2, <1>3, <1>4, Zenon DEF Unused

\* No handler of a message breaks Unused.
LEMMA UnusedServe ==
  ASSUME TypeOK, Unused, NEW k \in Conns, Serve(k) \/ DbFailure(k)
  PROVE  Unused'
<1> USE DEF db, clock, udp
<1>1. \/ released' = released
      \/ conn'[k].pc = "free" /\ Asking(k) /\ released' = released \cup conn[k].coins
  <2>1. CASE Reply(k)
    <3>1. conn' = [conn EXCEPT ![k] = Free] /\ conn[k].pc = "reply"
      BY <2>1 DEF Reply
    <3>2. conn'[k].pc = "free"
      BY <3>1 DEF TypeOK, Free
    <3>3. CASE conn[k].kind = "request" /\ conn[k].code = "0"
      BY <2>1, <3>1, <3>2, <3>3 DEF Reply, Asking
    <3>4. CASE ~(conn[k].kind = "request" /\ conn[k].code = "0")
      BY <2>1, <3>4 DEF Reply
    <3> QED BY <3>3, <3>4
  <2>2. CASE FetchSymKey(k) \/ Refuse(k) \/ HandleRequest(k) \/ HandleDeposit(k)
    BY <2>2, Zenon DEF FetchSymKey, Refuse, HandleRequest, HandleDeposit
  <2>3. CASE ReadBalance(k) \/ UpdateAccount(k) \/ CreditAccount(k) \/ GetBalance(k)
    BY <2>3, Zenon DEF ReadBalance, UpdateAccount, CreditAccount, GetBalance
  <2>4. CASE ConnectionLost(k) \/ DbFailure(k)
    BY <2>4, Zenon DEF ConnectionLost, DbFailure
  <2> QED BY <2>1, <2>2, <2>3, <2>4, Zenon DEF Serve
<1>2. /\ conn[k].pc # "free"
      /\ \A j \in Conns \ {k} : conn'[j] = conn[j]
      /\ \/ conn'[k].pc = "free"
         \/ /\ conn'[k].kind = conn[k].kind /\ conn'[k].coins = conn[k].coins
            /\ conn'[k].pc \in {"credit", "balance"}
                 => conn[k].kind = "deposit" \/ conn[k].pc \in {"credit", "balance"}
            /\ conn'[k].pc \in {"read", "update"}
                 => conn[k].kind = "request" \/ conn[k].pc \in {"read", "update"}
  BY ServeEffect, Zenon
<1> QED BY <1>1, <1>2, UnusedKept, Zenon

\* The coins of a new request are blank; a token is no blind of a request.
LEMMA UnusedReceived ==
  ASSUME TypeOK, Unused, NEW k \in Conns, NEW r \in Relays, NEW kind \in {"request", "deposit"},
         NEW coins \in SUBSET Coins, StringReceived(k, r, kind, coins)
  PROVE  Unused' /\ conn[k].pc = "free" /\ conn'[k].pc = "select"
           /\ \A j \in Conns \ {k} : conn'[j] = conn[j]
<1> USE DEF db, clock, udp
<1> DEFINE new == [pc |-> "select", relay |-> r, kind |-> kind, coins |-> coins,
                   num |-> sent[r] + 1, prev |-> 0, bal |-> 0, credit |-> 0, code |-> "none"]
<1>1. /\ conn[k].pc = "free" /\ conn' = [conn EXCEPT ![k] = new] /\ released' = released
      /\ kind = "request" => coins \subseteq Blank
  BY Zenon DEF StringReceived
<1>2. new.pc = "select" /\ new.kind = kind /\ new.coins = coins
  OBVIOUS
<1> HIDE DEF new
<1>3. conn'[k] = new /\ \A j \in Conns \ {k} : conn'[j] = conn[j]
  BY <1>1, Zenon DEF TypeOK
<1>4. \A j \in Conns \ {k} : Asking(j)' <=> Asking(j)
  BY <1>3, Zenon DEF Asking
<1>5. Asking(k)' => kind = "request"
  BY <1>2, <1>3, Zenon DEF Asking
<1>6. ASSUME kind = "request"
      PROVE  /\ coins \cap (released \cup Tokens) = {}
             /\ \A j \in Conns : Asking(j) => coins \cap conn[j].coins = {}
  <2>1. coins \subseteq Blank
    BY <1>1, <1>6
  <2> QED BY <2>1 DEF Blank, Asking
<1>7. \A j \in Conns : Asking(j)' => conn'[j].coins \cap (released' \cup Tokens) = {}
  <2>1. \A j \in Conns \ {k} : Asking(j)' => conn'[j].coins \cap (released' \cup Tokens) = {}
    BY <1>1, <1>3, <1>4, Zenon DEF Unused
  <2>2. Asking(k)' => conn'[k].coins \cap (released' \cup Tokens) = {}
    BY <1>1, <1>2, <1>3, <1>5, <1>6, Zenon
  <2> QED BY <2>1, <2>2, Zenon
<1>8. \A i, j \in Conns : Asking(i)' /\ Asking(j)' /\ i # j
                            => conn'[i].coins \cap conn'[j].coins = {}
  <2> SUFFICES ASSUME NEW i \in Conns, NEW j \in Conns, Asking(i)', Asking(j)', i # j
               PROVE  conn'[i].coins \cap conn'[j].coins = {}
    OBVIOUS
  <2>1. CASE i = k
    <3>1. coins \cap conn[j].coins = {} /\ conn'[i].coins = coins /\ conn'[j] = conn[j]
      BY <1>2, <1>3, <1>4, <1>5, <1>6, <2>1, Zenon
    <3> QED BY <3>1, Zenon
  <2>2. CASE j = k
    <3>1. coins \cap conn[i].coins = {} /\ conn'[j].coins = coins /\ conn'[i] = conn[i]
      BY <1>2, <1>3, <1>4, <1>5, <1>6, <2>2, Zenon
    <3> QED BY <3>1
  <2>3. CASE i # k /\ j # k
    BY <1>3, <1>4, <2>3, Zenon DEF Unused
  <2> QED BY <2>1, <2>2, <2>3
<1>9. /\ \A j \in Conns : conn'[j].pc \in {"credit", "balance"} => conn'[j].kind = "deposit"
      /\ \A j \in Conns : conn'[j].pc \in {"read", "update"} => conn'[j].kind = "request"
  <2>1. /\ \A j \in Conns \ {k} : conn'[j].pc \in {"credit", "balance"} => conn'[j].kind = "deposit"
        /\ \A j \in Conns \ {k} : conn'[j].pc \in {"read", "update"} => conn'[j].kind = "request"
    BY <1>3, Zenon DEF Unused
  <2>2. conn'[k].pc \notin {"credit", "balance", "read", "update"}
    BY <1>2, <1>3
  <2> QED BY <2>1, <2>2, Zenon
<1>10. conn'[k].pc = "select"
  BY <1>2, <1>3, Zenon
<1> QED BY <1>1, <1>3, <1>7, <1>8, <1>9, <1>10, Zenon DEF Unused


-----------------------------------------------------------------------------
(***************************************************************************)
(* The three parts of Worth.                                               *)
(***************************************************************************)
Owing == SumFunction([k \in Conns |-> Owed(k)])
Circulating == {c \in released : redeemed[c] = 0}

OwesNat == \A k \in Conns : Owed(k) \in Nat

\* What a connection is owed is a natural number.
LEMMA OwedNat == TypeOK => OwesNat
<1> SUFFICES ASSUME TypeOK, NEW k \in Conns PROVE Owed(k) \in Nat
  BY DEF OwesNat
<1>1. CASE conn[k].pc = "free"
  BY <1>1 DEF Owed
<1>2. CASE conn[k].pc # "free"
  <2>1. conn[k] \in OpenConn
    BY <1>2, OpenConnType, Zenon
  <2>2. conn[k].credit \in Nat /\ conn[k].coins \subseteq Coins
    BY <2>1 DEF OpenConn
  <2>3. Cardinality(conn[k].coins) \in Nat
    BY <2>2, CoinCount, Zenon
  <2> QED BY <2>2, <2>3 DEF Owed
<1> QED BY <1>1, <1>2

\* What the connections are owed together is a number.
LEMMA OwingInt == ASSUME TypeOK PROVE Owing \in Int
<1> DEFINE f == [k \in Conns |-> Owed(k)]
<1>1. f \in [Conns -> Int]
  BY OwedNat DEF OwesNat
<1>2. IsFiniteSet(Conns)
  BY BankAssumption, Zenon
<1> HIDE DEF f
<1>3. SumFunction(f) \in Int
  BY <1>1, <1>2, SumInt
<1> QED BY <1>3 DEF Owing, f

\* A step for one connection changes what is owed by the change of its part.
LEMMA OwingMoves ==
  ASSUME TypeOK, TypeOK', NEW k \in Conns, \A j \in Conns \ {k} : conn'[j] = conn[j]
  PROVE  Owing' = Owing + (Owed(k)' - Owed(k))
<1> DEFINE f == [j \in Conns |-> Owed(j)]
           g == [j \in Conns |-> Owed(j)']
<1>1. /\ \A j \in Conns : Owed(j) \in Nat
      /\ \A j \in Conns : Owed(j)' \in Nat
  <2>1. TypeOK' => OwesNat'
    BY OwedNat, PTL
  <2> QED BY OwedNat, <2>1 DEF OwesNat
<1>2. f \in [Conns -> Int] /\ g \in [Conns -> Int]
  <2> HIDE DEF f, g
  <2>1. \A j \in Conns : f[j] = Owed(j) /\ g[j] = Owed(j)'
    BY DEF f, g
  <2> QED BY <1>1 DEF f, g
<1>3. \A j \in Conns \ {k} : g[j] = f[j]
  BY DEF Owed
<1>4. f[k] = Owed(k) /\ g[k] = Owed(k)'
  OBVIOUS
<1>5. IsFiniteSet(Conns)
  BY BankAssumption, Zenon
<1>6. Owing = SumFunction(f) /\ Owing' = SumFunction(g)
  BY DEF Owing
<1> HIDE DEF f, g
<1>7. SumFunction(g) = SumFunction(f) + (g[k] - f[k])
  BY <1>2, <1>3, <1>5, SumChange
<1> QED BY <1>4, <1>6, <1>7

\* The accounts together hold a number of credits.
LEMMA AccountsInt == ASSUME TypeOK PROVE SumFunction(balance) \in Int
<1>1. balance \in [Users -> Int] /\ IsFiniteSet(Users)
  BY BankAssumption DEF TypeOK
<1> QED BY <1>1, SumInt

\* An UPDATE of one row changes the sum of the accounts by as much.
LEMMA AccountsMove ==
  ASSUME TypeOK, NEW u \in Users, NEW v \in Int, balance' = [balance EXCEPT ![u] = v]
  PROVE  SumFunction(balance') = SumFunction(balance) + (v - balance[u])
<1> DEFINE h == [balance EXCEPT ![u] = v]
<1>1. balance \in [Users -> Int] /\ IsFiniteSet(Users)
  BY BankAssumption DEF TypeOK
<1>2. h \in [Users -> Int] /\ h[u] = v /\ \A y \in Users \ {u} : h[y] = balance[y]
  BY <1>1
<1> HIDE DEF h
<1>3. SumFunction(h) = SumFunction(balance) + (h[u] - balance[u])
  BY <1>1, <1>2, SumChange
<1> QED BY <1>2, <1>3 DEF h

\* The coins in circulation can be counted.
LEMMA CirculatingNat ==
  ASSUME TypeOK PROVE IsFiniteSet(Circulating) /\ Cardinality(Circulating) \in Nat
<1>1. Circulating \in SUBSET Coins /\ IsFiniteSet(Coins)
  BY BankAssumption DEF TypeOK, Circulating
<1> QED BY <1>1, FS_Subset, FS_CardinalityType

\* Coins S are redeemed and new coins R released.
Circulate(S, R) ==
    /\ S \subseteq Circulating /\ R \subseteq Coins /\ R \cap released = {}
    /\ \A c \in Coins : redeemed'[c] = redeemed[c] + (IF c \in S THEN 1 ELSE 0)
    /\ released' = released \cup R

\* Coins redeemed leave the circulation, coins released enter it.
LEMMA CirculatingMoves ==
  ASSUME TypeOK, Tracked, NEW S, NEW R, Circulate(S, R)
  PROVE  Cardinality(Circulating') = Cardinality(Circulating) - Cardinality(S) + Cardinality(R)
<1>1. /\ S \subseteq Circulating /\ R \subseteq Coins /\ R \cap released = {}
      /\ Circulating \subseteq released /\ released \subseteq Coins
      /\ \A c \in Coins : redeemed[c] \in Nat
  BY DEF Circulate, TypeOK, Circulating
<1>2. Circulating' = (Circulating \ S) \cup R
  <2>1. \A c \in Coins : c \in released' <=> c \in released \/ c \in R
    BY DEF Circulate
  <2>2. \A c \in Coins : redeemed'[c] = 0 <=> redeemed[c] = 0 /\ c \notin S
    BY <1>1 DEF Circulate
  <2>3. \A c \in R : redeemed[c] = 0 /\ c \notin S
    BY <1>1 DEF Tracked
  <2>4. released' \subseteq Coins
    BY <1>1 DEF Circulate
  <2> QED BY <1>1, <2>1, <2>2, <2>3, <2>4 DEF Circulating
<1> DEFINE C == Circulating
           D == C \ S
<1>3. IsFiniteSet(C) /\ IsFiniteSet(R) /\ Cardinality(C) \in Nat /\ Cardinality(R) \in Nat
      /\ Cardinality(S) \in Nat
  <2>1. IsFiniteSet(Coins) /\ C \in SUBSET Coins /\ R \in SUBSET Coins /\ S \in SUBSET Coins
    BY <1>1, BankAssumption
  <2> HIDE DEF C
  <2> QED BY <2>1, FS_Subset, FS_CardinalityType
<1>4. C \cap S = S /\ D \cap R = {}
  BY <1>1
<1> HIDE DEF C
<1>5. IsFiniteSet(D) /\ Cardinality(D) = Cardinality(C) - Cardinality(S)
  BY <1>3, <1>4, FS_Difference, ZenonT(30)
<1> HIDE DEF D
<1>6. Cardinality(D \cup R) = Cardinality(D) + Cardinality(R) - Cardinality({})
  BY <1>3, <1>4, <1>5, FS_Union
<1>7. Cardinality({}) = 0
  BY FS_EmptySet
<1> QED BY <1>2, <1>3, <1>5, <1>6, <1>7 DEF C, D

\* Tokens stay in step with the coins they are for.
LEMMA TrackedKept ==
  ASSUME TypeOK, Tracked, NEW S, NEW R, Circulate(S, R),
         \A m \in Datagrams : \A p \in Pays[m] : p[2] \in R => p[1] \in S
  PROVE  Tracked'
<1>1. \A c \in Coins : redeemed[c] \in Nat
  BY DEF TypeOK
<1>2. ASSUME NEW c \in Coins, c \notin released' PROVE redeemed'[c] = 0
  <2>1. c \notin released /\ c \notin S
    BY <1>2 DEF Circulate, Circulating
  <2> QED BY <1>1, <2>1 DEF Circulate, Tracked
<1>3. ASSUME NEW m \in Datagrams, NEW p \in Pays[m], p[2] \in released'
      PROVE  redeemed'[p[1]] > 0
  <2>1. p[1] \in Coins
    BY BankAssumption
  <2>2. redeemed[p[1]] > 0 \/ p[1] \in S
    BY <1>3 DEF Circulate, Tracked
  <2> QED BY <1>1, <2>1, <2>2 DEF Circulate
<1> QED BY <1>2, <1>3 DEF Tracked

\* A coin deposit_acoin accepts is in circulation.
LEMMA AcceptedCirculates ==
  ASSUME ClockInv, Remembered, NEW c \in Coins, DepositCode(c, Acoins) = "0"
  PROVE  c \in Circulating
<1>1. IntervalOf[c] \in Nat /\ current \in Nat /\ redeemed[c] \in Nat
  BY BankAssumption DEF ClockInv, TypeOK
<1>2. c \in released /\ IntervalOf[c] \in {current - 1, current} /\ c \notin Acoins[IntervalOf[c]]
  BY DEF DepositCode, IsValid
<1>3. redeemed[c] = 0
  BY <1>1, <1>2 DEF Remembered
<1> QED BY <1>2, <1>3 DEF Circulating


-----------------------------------------------------------------------------
(***************************************************************************)
(* Every step conserves.                                                   *)
(***************************************************************************)
\* The parts of Worth are numbers.
LEMMA Numbers ==
  ASSUME TypeOK
  PROVE  /\ SumFunction(balance) \in Int /\ Owing \in Int /\ Cardinality(Circulating) \in Int
         /\ lost \in Int
<1>1. lost \in Int
  BY DEF TypeOK
<1>2. Cardinality(Circulating) \in Int
  BY CirculatingNat
<1> QED BY <1>1, <1>2, AccountsInt, OwingInt, Zenon

\* Moves of the parts that cancel out leave the total alone.
LEMMA WorthMoves ==
  ASSUME TypeOK, TypeOK', NEW a \in Int, NEW o \in Int, NEW c \in Int, NEW l \in Int,
         SumFunction(balance') = SumFunction(balance) + a, Owing' = Owing + o,
         Cardinality(Circulating') = Cardinality(Circulating) + c, lost' = lost + l,
         a + o + c + l = 0
  PROVE  Worth' + lost' = Worth + lost
<1>1. /\ SumFunction(balance) \in Int /\ Owing \in Int /\ Cardinality(Circulating) \in Int
      /\ lost \in Int
  BY Numbers, Zenon
<1>2. /\ Worth = SumFunction(balance) + Owing + Cardinality(Circulating)
      /\ Worth' = SumFunction(balance') + Owing' + Cardinality(Circulating')
  BY DEF Worth, Owing, Circulating
<1> DEFINE x == SumFunction(balance)
           y == Owing
           z == Cardinality(Circulating)
<1>3. x \in Int /\ y \in Int /\ z \in Int /\ lost \in Int
  BY <1>1
<1>4. Worth = x + y + z /\ Worth' = (x + a) + (y + o) + (z + c)
  BY <1>2
<1> HIDE DEF x, y, z
<1> QED BY <1>3, <1>4

\* A step that moves no money.
LEMMA QuietMoney ==
  ASSUME TypeOK, TypeOK', Tracked, NEW k \in Conns, \A j \in Conns \ {k} : conn'[j] = conn[j],
         Owed(k)' = Owed(k), UNCHANGED <<balance, released, redeemed, lost>>
  PROVE  Tracked' /\ Worth' + lost' = Worth + lost
<1>1. Owed(k) \in Int
  BY OwedNat DEF OwesNat
<1>2. Owing' = Owing + 0
  BY <1>1, OwingMoves
<1>3. /\ SumFunction(balance) \in Int /\ Cardinality(Circulating) \in Int /\ lost \in Int
  BY Numbers, Zenon
<1>4. Circulating' = Circulating
  BY DEF Circulating
<1>5. /\ SumFunction(balance') = SumFunction(balance) + 0
      /\ Cardinality(Circulating') = Cardinality(Circulating) + 0
      /\ lost' = lost + 0
  BY <1>3, <1>4
<1>6. Worth' + lost' = Worth + lost
  BY <1>2, <1>5, WorthMoves
<1> QED BY <1>6 DEF Tracked

\* The steps of a message that only look.
LEMMA QuietServe ==
  ASSUME TypeOK, TypeOK', Unused, Tracked, NEW k \in Conns,
         FetchSymKey(k) \/ Refuse(k) \/ HandleRequest(k) \/ ReadBalance(k)
           \/ GetBalance(k) \/ ConnectionLost(k)
  PROVE  Tracked' /\ Worth' + lost' = Worth + lost
<1> USE DEF db, clock, udp
<1>1. /\ \A j \in Conns \ {k} : conn'[j] = conn[j]
      /\ conn[k] \in OpenConn
  <2>1. Serve(k)
    BY Zenon DEF Serve
  <2> QED BY <2>1, ServeEffect, Zenon
<1>2. UNCHANGED <<balance, released, redeemed, lost>>
  BY Zenon DEF FetchSymKey, Refuse, HandleRequest, ReadBalance, GetBalance, ConnectionLost
<1>3. conn[k].pc \in {"select", "handle", "read", "balance", "stuck"}
  BY Zenon DEF FetchSymKey, Refuse, HandleRequest, ReadBalance, GetBalance, ConnectionLost
<1>4. Owed(k) = 0
  BY <1>3 DEF Owed
<1>5. Owed(k)' = 0
  <2>0. conn \in [Conns -> {Free} \cup OpenConn]
    BY DEF TypeOK
  <2>1. CASE FetchSymKey(k)
    <3>1. conn'[k].pc = "handle"
      BY <1>1, <2>0, <2>1 DEF FetchSymKey, OpenConn
    <3> QED BY <3>1 DEF Owed
  <2>2. CASE Refuse(k)
    <3>1. conn'[k].pc = "reply" /\ conn'[k].code = "error"
      BY <1>1, <2>0, <2>2 DEF Refuse, OpenConn
    <3> QED BY <3>1 DEF Owed
  <2>3. CASE HandleRequest(k)
    <3>1. conn'[k].pc = "read"
      BY <1>1, <2>0, <2>3 DEF HandleRequest, OpenConn
    <3> QED BY <3>1 DEF Owed
  <2>4. CASE ReadBalance(k)
    <3>1. conn'[k].pc = "update"
      BY <1>1, <2>0, <2>4 DEF ReadBalance, OpenConn
    <3> QED BY <3>1 DEF Owed
  <2>5. CASE GetBalance(k)
    <3>1. conn'[k].pc = "reply" /\ conn'[k].kind = conn[k].kind /\ conn[k].pc = "balance"
      BY <1>1, <2>0, <2>5 DEF GetBalance, OpenConn
    <3>2. conn[k].kind = "deposit"
      BY <3>1 DEF Unused
    <3> QED BY <3>1, <3>2 DEF Owed
  <2>6. CASE ConnectionLost(k)
    <3>1. conn'[k].pc = "free"
      BY <2>0, <2>6 DEF ConnectionLost, Free
    <3> QED BY <3>1 DEF Owed
  <2> QED BY <2>1, <2>2, <2>3, <2>4, <2>5, <2>6, ZenonT(30)
<1> QED BY <1>1, <1>2, <1>4, <1>5, QuietMoney

\* Request.update_account: what the account loses the client is owed.
LEMMA MoneyUpdate ==
  ASSUME TypeOK, TypeOK', Unused, Tracked, ReadIsFresh, NEW k \in Conns, UpdateAccount(k)
  PROVE  Tracked' /\ Worth' + lost' = Worth + lost
<1> USE DEF db, clock, udp
<1>1. /\ \A j \in Conns \ {k} : conn'[j] = conn[j]
      /\ conn[k] \in OpenConn
  <2>1. Serve(k)
    BY DEF Serve
  <2> QED BY <2>1, ServeEffect, Zenon
<1>2. /\ conn[k].pc = "update" /\ conn[k].kind = "request"
      /\ UNCHANGED <<released, redeemed, lost>>
      /\ conn \in [Conns -> {Free} \cup OpenConn]
  BY Zenon DEF UpdateAccount, Unused, TypeOK
<1> DEFINE u == Owner[conn[k].relay]
           n == Cardinality(conn[k].coins)
           v == conn[k].bal - n
<1>3. u \in Users /\ n \in Nat /\ conn[k].bal = balance[u] /\ balance[u] \in Nat
  <2>1. conn[k].relay \in Relays /\ conn[k].coins \subseteq Coins
    BY <1>1 DEF OpenConn
  <2>2. n \in Nat
    BY <2>1, CoinCount, Zenon
  <2> HIDE DEF n
  <2> QED BY <1>2, <2>1, <2>2, BankAssumption, ZenonT(30) DEF ReadIsFresh, TypeOK
<1>4. Owed(k) = 0
  BY <1>2 DEF Owed
<1>5. CASE v >= 0
  <2>1. /\ balance' = [balance EXCEPT ![u] = v]
        /\ conn' = [conn EXCEPT ![k].code = "0", ![k].bal = v, ![k].pc = "reply"]
    BY <1>3, <1>5 DEF UpdateAccount
  <2> DEFINE w == v
  <2> HIDE DEF w
  <2>2. /\ conn'[k].pc = "reply" /\ conn'[k].code = "0" /\ conn'[k].kind = "request"
        /\ conn'[k].coins = conn[k].coins
    <3>1. conn' = [conn EXCEPT ![k].code = "0", ![k].bal = w, ![k].pc = "reply"]
      BY <2>1 DEF w
    <3> QED BY <1>1, <1>2, <3>1 DEF OpenConn
  <2>3. Owed(k)' = n
    BY <2>2 DEF Owed
  <2>4. Owing' = Owing + n
    <3>1. Owing' = Owing + (Owed(k)' - Owed(k))
      BY <1>1, OwingMoves
    <3> HIDE DEF n
    <3> QED BY <1>3, <1>4, <2>3, <3>1
  <2> HIDE DEF n, u
  <2>5. SumFunction(balance') = SumFunction(balance) + (-n)
    <3>1. v \in Int /\ v - balance[u] = -n
      BY <1>3
    <3>2. SumFunction(balance') = SumFunction(balance) + (v - balance[u])
      BY <1>3, <2>1, <3>1, AccountsMove, Zenon
    <3> QED BY <3>1, <3>2
  <2>6. Circulating' = Circulating
    BY <1>2 DEF Circulating
  <2>7. /\ Cardinality(Circulating') = Cardinality(Circulating) + 0 /\ lost' = lost + 0
        /\ n \in Int /\ -n \in Int /\ (-n) + n + 0 + 0 = 0
    BY <1>2, <1>3, <2>6, Numbers
  <2>8. Worth' + lost' = Worth + lost
    BY <2>4, <2>5, <2>7, WorthMoves
  <2> QED BY <1>2, <2>8, ZenonT(30) DEF Tracked
<1>6. CASE v < 0
  <2>1. /\ balance' = balance
        /\ conn' = [conn EXCEPT ![k].code = "1", ![k].pc = "reply"]
    BY <1>3, <1>6 DEF UpdateAccount
  <2>2. conn'[k].pc = "reply" /\ conn'[k].code = "1"
    BY <1>1, <1>2, <2>1 DEF OpenConn
  <2>3. Owed(k)' = 0
    BY <2>2 DEF Owed
  <2> QED BY <1>1, <1>2, <1>4, <2>1, <2>3, QuietMoney
<1>7. v \in Int
  BY <1>3
<1> QED BY <1>5, <1>6, <1>7


\* Deposit.update_account: what the client was owed the account gets.
LEMMA MoneyCredit ==
  ASSUME TypeOK, TypeOK', Tracked, NEW k \in Conns, CreditAccount(k)
  PROVE  Tracked' /\ Worth' + lost' = Worth + lost
<1> USE DEF db, clock, udp
<1>1. /\ \A j \in Conns \ {k} : conn'[j] = conn[j]
      /\ conn[k] \in OpenConn
  <2>1. Serve(k)
    BY DEF Serve
  <2> QED BY <2>1, ServeEffect, Zenon
<1> DEFINE u == Owner[conn[k].relay]
           n == conn[k].credit
<1>2. /\ conn[k].pc = "credit" /\ UNCHANGED <<released, redeemed, lost>>
      /\ balance' = [balance EXCEPT ![u] = @ + n]
      /\ conn' = [conn EXCEPT ![k].pc = "balance"]
      /\ conn \in [Conns -> {Free} \cup OpenConn]
  BY DEF CreditAccount, TypeOK
<1>3. u \in Users /\ n \in Nat /\ balance[u] \in Nat
  <2>1. conn[k].relay \in Relays /\ conn[k].credit \in Nat
    BY <1>1 DEF OpenConn
  <2> QED BY <2>1, BankAssumption DEF TypeOK
<1>4. Owed(k) = n /\ Owed(k)' = 0
  <2>1. conn'[k].pc = "balance"
    BY <1>1, <1>2 DEF OpenConn
  <2> QED BY <1>2, <2>1 DEF Owed
<1>5. Owing' = Owing + (Owed(k)' - Owed(k))
  BY <1>1, OwingMoves
<1> HIDE DEF n, u
<1>6. Owing' = Owing + (-n)
  BY <1>3, <1>4, <1>5
<1>7. SumFunction(balance') = SumFunction(balance) + n
  <2> DEFINE v == balance[u] + n
  <2>1. v \in Int /\ v - balance[u] = n
    BY <1>3
  <2>2. balance' = [balance EXCEPT ![u] = v]
    BY <1>2
  <2> HIDE DEF v
  <2>3. SumFunction(balance') = SumFunction(balance) + (v - balance[u])
    BY <1>3, <2>1, <2>2, AccountsMove, Zenon
  <2> QED BY <2>1, <2>3
<1>8. Circulating' = Circulating
  BY <1>2 DEF Circulating
<1>9. /\ Cardinality(Circulating') = Cardinality(Circulating) + 0 /\ lost' = lost + 0
      /\ n \in Int /\ -n \in Int /\ n + (-n) + 0 + 0 = 0
  BY <1>2, <1>3, <1>8, Numbers
<1>10. Worth' + lost' = Worth + lost
  BY <1>6, <1>7, <1>9, WorthMoves
<1> QED BY <1>2, <1>10 DEF Tracked

\* A transaction fails: the credit of a deposit is lost, and nothing else.
LEMMA MoneyFailure ==
  ASSUME TypeOK, TypeOK', Tracked, NEW k \in Conns, DbFailure(k)
  PROVE  Tracked' /\ Worth' + lost' = Worth + lost
<1> USE DEF db, clock, udp
<1>1. /\ \A j \in Conns \ {k} : conn'[j] = conn[j]
      /\ conn[k] \in OpenConn
  BY ServeEffect, Zenon
<1> DEFINE n == IF conn[k].pc = "credit" THEN conn[k].credit ELSE 0
           to == IF conn[k].pc = "select" THEN "reply" ELSE "stuck"
<1>2. /\ conn[k].pc # "reply" /\ UNCHANGED <<balance, released, redeemed>>
      /\ lost' = lost + n
      /\ conn' = [conn EXCEPT ![k].code = "error", ![k].pc = to] /\ to \in {"reply", "stuck"}
      /\ conn \in [Conns -> {Free} \cup OpenConn]
  BY <1>1 DEF DbFailure, TypeOK
<1> HIDE DEF to
<1>3. n \in Nat
  BY <1>1 DEF OpenConn
<1>4. Owed(k) = n /\ Owed(k)' = 0
  <2>1. conn'[k].pc \in {"reply", "stuck"} /\ conn'[k].code = "error"
    BY <1>1, <1>2 DEF OpenConn
  <2> QED BY <1>2, <2>1 DEF Owed
<1>5. Owing' = Owing + (Owed(k)' - Owed(k))
  BY <1>1, OwingMoves
<1> HIDE DEF n
<1>6. Owing' = Owing + (-n)
  BY <1>3, <1>4, <1>5
<1>7. Circulating' = Circulating
  BY <1>2 DEF Circulating
<1>8. /\ SumFunction(balance') = SumFunction(balance) + 0
      /\ Cardinality(Circulating') = Cardinality(Circulating) + 0
      /\ n \in Int /\ -n \in Int /\ 0 + (-n) + 0 + n = 0
  BY <1>2, <1>3, <1>7, Numbers
<1>9. Worth' + lost' = Worth + lost
  BY <1>2, <1>6, <1>8, WorthMoves
<1> QED BY <1>2, <1>9 DEF Tracked

\* send_reply: the coins the client was owed are in circulation.
LEMMA MoneyReply ==
  ASSUME TypeOK, TypeOK', Unused, Tracked, NEW k \in Conns, Reply(k)
  PROVE  Tracked' /\ Worth' + lost' = Worth + lost
<1> USE DEF db, clock, udp
<1>1. /\ \A j \in Conns \ {k} : conn'[j] = conn[j]
      /\ conn[k] \in OpenConn
  <2>1. Serve(k)
    BY DEF Serve
  <2> QED BY <2>1, ServeEffect, Zenon
<1> DEFINE R == IF conn[k].kind = "request" /\ conn[k].code = "0" THEN conn[k].coins ELSE {}
           n == Cardinality(R)
<1>2. /\ conn[k].pc = "reply" /\ UNCHANGED <<balance, redeemed, lost>>
      /\ released' = released \cup R /\ conn' = [conn EXCEPT ![k] = Free]
      /\ conn \in [Conns -> {Free} \cup OpenConn]
  BY DEF Reply, TypeOK
<1>3. R \subseteq Coins /\ R \cap (released \cup Tokens) = {}
  <2>1. conn[k].coins \subseteq Coins
    BY <1>1 DEF OpenConn
  <2>2. Asking(k) => conn[k].coins \cap (released \cup Tokens) = {}
    BY DEF Unused
  <2> QED BY <1>2, <2>1, <2>2 DEF Asking
<1>4. n \in Nat
  BY <1>3, CoinCount, Zenon
<1>5. Owed(k) = n /\ Owed(k)' = 0
  <2>1. conn'[k].pc = "free"
    BY <1>2 DEF Free
  <2>2. Cardinality({}) = 0
    BY FS_EmptySet
  <2> QED BY <1>2, <2>1, <2>2 DEF Owed
<1>6. Owing' = Owing + (Owed(k)' - Owed(k))
  BY <1>1, OwingMoves, ZenonT(30)
<1> HIDE DEF R
<1>7. Circulate({}, R)
  <2>1. \A c \in Coins : redeemed[c] \in Nat
    BY DEF TypeOK
  <2> QED BY <1>2, <1>3, <2>1 DEF Circulate
<1>8. Tracked'
  <2>1. \A m \in Datagrams : \A p \in Pays[m] : p[2] \in R => p[1] \in {}
    BY <1>3 DEF Tokens
  <2> QED BY <1>7, <2>1, TrackedKept
<1>9. Cardinality(Circulating') = Cardinality(Circulating) + n
  <2>1. Cardinality(Circulating') = Cardinality(Circulating) - Cardinality({}) + Cardinality(R)
    BY <1>7, CirculatingMoves
  <2>2. Cardinality({}) = 0 /\ Cardinality(Circulating) \in Nat
    BY FS_EmptySet, CirculatingNat
  <2> QED BY <1>4, <2>1, <2>2
<1> HIDE DEF n
<1>10. Owing' = Owing + (-n)
  BY <1>4, <1>5, <1>6
<1>11. /\ SumFunction(balance') = SumFunction(balance) + 0 /\ lost' = lost + 0
       /\ n \in Int /\ -n \in Int /\ 0 + (-n) + n + 0 = 0
  BY <1>2, <1>4, Numbers
<1>12. Worth' + lost' = Worth + lost
  BY <1>9, <1>10, <1>11, WorthMoves
<1> QED BY <1>8, <1>12


\* Deposit.unpack_and_verify: the accepted coins leave circulation and are owed.
LEMMA MoneyDeposit ==
  ASSUME TypeOK, TypeOK', ClockInv, Remembered, Tracked, NEW k \in Conns, HandleDeposit(k)
  PROVE  Tracked' /\ Worth' + lost' = Worth + lost
<1> USE DEF db, clock, udp
<1>1. /\ \A j \in Conns \ {k} : conn'[j] = conn[j]
      /\ conn[k] \in OpenConn
  <2>1. Serve(k)
    BY DEF Serve
  <2> QED BY <2>1, ServeEffect, Zenon
<1> DEFINE S == {c \in conn[k].coins : DepositCode(c, Acoins) = "0"}
           n == Cardinality(S)
           to == IF S = {} THEN "balance" ELSE "credit"
<1>2. /\ conn[k].pc = "handle" /\ UNCHANGED <<balance, released, lost>>
      /\ Redeem(S) /\ conn' = [conn EXCEPT ![k].credit = n, ![k].pc = to]
      /\ conn \in [Conns -> {Free} \cup OpenConn]
  BY DEF HandleDeposit, TypeOK
<1>3. S \subseteq Coins /\ S \subseteq Circulating
  <2>1. S \subseteq Coins
    BY <1>1 DEF OpenConn
  <2>2. \A c \in S : DepositCode(c, Acoins) = "0"
    OBVIOUS
  <2> HIDE DEF S
  <2> QED BY <2>1, <2>2, AcceptedCirculates
<1>4. n \in Nat /\ (S = {} => n = 0)
  BY <1>3, CoinCount, FS_EmptySet, Zenon
<1>5. (to = "balance" /\ n = 0) \/ to = "credit"
  BY <1>4
<1> HIDE DEF S, n, to
<1>6. Owed(k) = 0 /\ Owed(k)' = n
  <2>1. conn'[k].pc = to /\ conn'[k].credit = n
    BY <1>1, <1>2 DEF OpenConn
  <2> QED BY <1>2, <1>5, <2>1 DEF Owed
<1>7. Owing' = Owing + (Owed(k)' - Owed(k))
  BY <1>1, OwingMoves
<1>8. Owing' = Owing + n
  BY <1>4, <1>6, <1>7
<1>9. Circulate(S, {})
  BY <1>2, <1>3 DEF Circulate, Redeem
<1>10. Tracked'
  BY <1>9, TrackedKept
<1>11. Cardinality(Circulating') = Cardinality(Circulating) + (-n)
  <2>1. Cardinality(Circulating') = Cardinality(Circulating) - Cardinality(S) + Cardinality({})
    BY <1>9, CirculatingMoves
  <2>2. Cardinality({}) = 0 /\ Cardinality(Circulating) \in Nat
    BY FS_EmptySet, CirculatingNat
  <2> QED BY <1>4, <2>1, <2>2 DEF n
<1>12. /\ SumFunction(balance') = SumFunction(balance) + 0 /\ lost' = lost + 0
       /\ n \in Int /\ -n \in Int /\ 0 + n + (-n) + 0 = 0
  BY <1>2, <1>4, Numbers
<1>13. Worth' + lost' = Worth + lost
  BY <1>8, <1>11, <1>12, WorthMoves
<1> QED BY <1>10, <1>13

\* The coins of a datagram and their tokens are as many.
LEMMA TokensForCoins ==
  ASSUME NEW m \in Datagrams, NEW ok \in SUBSET Pays[m]
  PROVE  Cardinality({p[2] : p \in ok}) = Cardinality({p[1] : p \in ok})
<1> DEFINE S == {p[1] : p \in ok}
           R == {p[2] : p \in ok}
           e(c) == (CHOOSE p \in ok : p[1] = c)[2]
           f == [c \in S |-> e(c)]
<1>1. S \subseteq Coins /\ R \subseteq Coins
  BY BankAssumption
<1>2. IsFiniteSet(S)
  BY <1>1, BankAssumption, FS_Subset
<1>3. \A p \in ok : f[p[1]] = p[2]
  <2> SUFFICES ASSUME NEW p \in ok PROVE f[p[1]] = p[2]
    OBVIOUS
  <2> DEFINE q == CHOOSE q \in ok : q[1] = p[1]
  <2>1. q \in ok /\ q[1] = p[1]
    BY Zenon
  <2>2. q = p
    BY <2>1, BankAssumption, Zenon
  <2> QED BY <2>2, Zenon
<1>4. \A c \in S : \E p \in ok : c = p[1]
  OBVIOUS
<1>5. \A c \in R : \E p \in ok : c = p[2]
  OBVIOUS
<1>6. \A p \in ok : p[1] \in S /\ p[2] \in R
  OBVIOUS
<1>7. \A p, q \in ok : p[2] = q[2] => p[1] = q[1]
  BY TokenAssumption
<1>8. \A c \in S : f[c] \in R
  <2> HIDE DEF f, S, R
  <2> QED BY <1>3, <1>4, <1>6
<1>9. f \in [S -> R]
  <2> HIDE DEF e, S, R
  <2> QED BY <1>8
<1> HIDE DEF f, S, R
<1>10. \A a, b \in S : f[a] = f[b] => a = b
  BY <1>3, <1>4, <1>7
<1>11. \A c \in R : \E a \in S : f[a] = c
  BY <1>3, <1>5, <1>6
<1>12. f \in Bijection(S, R)
  BY <1>9, <1>10, <1>11 DEF Bijection, Injection, Surjection, IsInjective
<1>13. ExistsBijection(S, R)
  BY <1>12 DEF ExistsBijection
<1> QED BY <1>2, <1>13, FS_Bijection DEF S, R

\* Payment.on_message: a token is released for every coin redeemed.
LEMMA MoneyDatagram ==
  ASSUME TypeOK, TypeOK', ClockInv, Remembered, Unused, Tracked,
         NEW m \in Datagrams, DatagramReceived(m)
  PROVE  Unused' /\ Tracked' /\ Worth' + lost' = Worth + lost
<1> USE DEF db, clock, udp
<1> DEFINE ok == {p \in Pays[m] : DepositCode(p[1], Acoins) = "0"}
           S == {p[1] : p \in ok}
           R == {p[2] : p \in ok}
<1>1. UNCHANGED <<balance, conn, lost>>
  BY ZenonT(30) DEF DatagramReceived
<1>2. CASE m \in DOMAIN cache
  <2>1. UNCHANGED <<released, redeemed>>
    BY <1>2, Zenon DEF DatagramReceived
  <2> QED BY <1>1, <2>1 DEF Unused, Tracked, Worth, Owed, Asking
<1>3. CASE m \notin DOMAIN cache
  <2>1. Redeem(S) /\ released' = released \cup R
    BY <1>3, Zenon DEF DatagramReceived
  <2>2. ok \in SUBSET Pays[m] /\ \A p \in ok : p[1] \in Coins /\ p[2] \in Coins
    <3>1. ok \in SUBSET Pays[m]
      OBVIOUS
    <3>2. Pays[m] \in SUBSET (Coins \X Coins)
      BY BankAssumption, ZenonT(30)
    <3> HIDE DEF ok
    <3> QED BY <3>1, <3>2
  <2>3. \A p \in ok : DepositCode(p[1], Acoins) = "0"
    OBVIOUS
  <2> HIDE DEF ok
  <2>4. \A p \in ok : p[1] \in Circulating
    BY <2>2, <2>3, AcceptedCirculates
  <2>5. \A p \in ok : p[2] \notin released
    <3>1. \A p \in ok : redeemed[p[1]] = 0
      BY <2>4 DEF Circulating
    <3> QED BY <2>2, <3>1 DEF Tracked
  <2>6. S \subseteq Circulating /\ R \subseteq Coins /\ R \cap released = {} /\ R \subseteq Tokens
        /\ S \subseteq Coins
    BY <2>2, <2>4, <2>5 DEF Tokens
  <2>7. Cardinality(R) = Cardinality(S)
    BY <2>2, TokensForCoins
  <2>8. \A n \in Datagrams : \A q \in Pays[n] : q[2] \in R => q[1] \in S
    BY <2>2, TokenAssumption
  <2> HIDE DEF S, R
  <2>9. Circulate(S, R)
    BY <2>1, <2>6 DEF Circulate, Redeem
  <2>10. Tracked'
    BY <2>8, <2>9, TrackedKept
  <2>11. Cardinality(Circulating') = Cardinality(Circulating) + 0
    <3>1. Cardinality(Circulating') = Cardinality(Circulating) - Cardinality(S) + Cardinality(R)
      BY <2>9, CirculatingMoves
    <3>2. Cardinality(S) \in Nat /\ Cardinality(Circulating) \in Nat
      BY <2>6, CoinCount, CirculatingNat, Zenon
    <3> QED BY <2>7, <3>1, <3>2
  <2>12. Owing' = Owing
    BY <1>1 DEF Owing, Owed
  <2>13. /\ SumFunction(balance') = SumFunction(balance) + 0 /\ lost' = lost + 0
         /\ Owing' = Owing + 0
    BY <1>1, <2>12, Numbers
  <2>14. Worth' + lost' = Worth + lost
    BY <2>11, <2>13, WorthMoves
  <2>15. Unused'
    <3>1. \A k \in Conns : Asking(k)' <=> Asking(k)
      BY <1>1 DEF Asking
    <3>2. released' \cup Tokens = released \cup Tokens
      BY <2>1, <2>6
    <3> QED BY <1>1, <3>1, <3>2 DEF Unused
  <2> QED BY <2>10, <2>14, <2>15
<1> QED BY <1>2, <1>3


-----------------------------------------------------------------------------
(***************************************************************************)
(* Conservation.                                                           *)
(***************************************************************************)
MoneyInv ==
    /\ ClockInv /\ SerialInv
    /\ restarts = 0 => Remembered /\ Unused /\ Tracked /\ Conserved

\* Money and coins are in order at the start.
LEMMA MoneyInit == Init => MoneyInv
<1> SUFFICES ASSUME Init PROVE MoneyInv
  OBVIOUS
<1>1. ClockInv /\ SerialInv
  BY ClockInit, SerialInit
<1>2. TypeOK
  BY <1>1 DEF SerialInv
<1>3. Unused
  <2>1. \A k \in Conns : conn[k].pc = "free"
    BY DEF Init, Free
  <2> QED BY <2>1 DEF Unused, Asking
<1>4. Tracked
  <2>1. released = Outstanding /\ \A c \in Coins : redeemed[c] = 0
    BY DEF Init
  <2>2. \A m \in Datagrams : \A p \in Pays[m] : p[2] \notin Outstanding
    BY TokenAssumption
  <2> QED BY <2>1, <2>2 DEF Tracked
<1>5. Remembered
  BY DEF Init, Remembered
<1>6. Conserved
  <2>1. Circulating = Outstanding
    BY BankAssumption DEF Init, Circulating
  <2>2. Owing = 0
    <3> DEFINE f == [k \in Conns |-> Owed(k)]
    <3>1. f = [k \in Conns |-> 0]
      BY DEF Init, Free, Owed
    <3> HIDE DEF f
    <3>2. f \in [Conns -> Int] /\ \A k \in Conns : f[k] = 0
      BY <3>1
    <3>3. IsFiniteSet(Conns)
      BY BankAssumption, Zenon
    <3>4. SumFunction(f) = 0
      BY <3>2, <3>3, SumZero
    <3> QED BY <3>4 DEF Owing, f
  <2>3. balance = StartBalance /\ lost = 0
    BY DEF Init
  <2>4. Worth = SumFunction(balance) + Owing + Cardinality(Circulating)
    BY DEF Worth, Owing, Circulating
  <2>5. SumFunction(balance) \in Int /\ Cardinality(Circulating) \in Int
    BY <1>2, Numbers
  <2> QED BY <2>1, <2>2, <2>3, <2>4, <2>5 DEF Conserved
<1> QED BY <1>1, <1>3, <1>4, <1>5, <1>6 DEF MoneyInv

\* Only Restart counts.
LEMMA RestartsOnly ==
  ASSUME [Next]_vars PROVE restarts' = restarts \/ (restarts' = restarts + 1 /\ Restart)
<1>1. ASSUME NEW k \in Conns, Serve(k) \/ DbFailure(k) PROVE UNCHANGED restarts
  BY <1>1, Zenon DEF Serve, DbFailure, FetchSymKey, Refuse, HandleRequest, HandleDeposit,
     ReadBalance, UpdateAccount, CreditAccount, GetBalance, Reply, ConnectionLost
<1>2. ASSUME NEW k \in Conns, NEW r \in Relays, NEW kind \in {"request", "deposit"},
             NEW coins \in SUBSET Coins, StringReceived(k, r, kind, coins)
      PROVE  UNCHANGED restarts
  BY <1>2, Zenon DEF StringReceived
<1>3. ASSUME NEW m \in Datagrams, DatagramReceived(m) PROVE UNCHANGED restarts
  BY <1>3, Zenon DEF DatagramReceived
<1>4. ASSUME NEW w \in numWrites, WriteMsgnum(w) PROVE UNCHANGED restarts
  BY <1>4, Zenon DEF WriteMsgnum
<1>5. ASSUME Tick \/ LearnInterval \/ LookupFails PROVE UNCHANGED restarts
  BY <1>5, Zenon DEF Tick, LearnInterval, LookupFails
<1>6. ASSUME Restart PROVE restarts' = restarts + 1
  BY <1>6, Zenon DEF Restart
<1>7. ASSUME UNCHANGED vars PROVE UNCHANGED restarts
  BY <1>7, Zenon DEF vars
<1>8. CASE Next
  BY <1>1, <1>2, <1>3, <1>4, <1>5, <1>6, <1>8, ZenonT(30) DEF Next
<1> QED BY <1>7, <1>8

\* What a step does to money and coins, as long as the bank is not restarted.
LEMMA MoneyStep ==
  ASSUME MoneyInv, TypeOK', Next, restarts = 0
  PROVE  \/ Restart
         \/ Unused' /\ Tracked' /\ Worth' + lost' = Worth + lost
<1> USE DEF db, clock, udp
<1>0. TypeOK /\ Unused /\ Tracked /\ ClockInv /\ Remembered /\ ReadIsFresh
  BY DEF MoneyInv, SerialInv
<1>1. ASSUME NEW k \in Conns, Serve(k) \/ DbFailure(k)
      PROVE  Unused' /\ Tracked' /\ Worth' + lost' = Worth + lost
  <2>1. Unused'
    BY <1>0, <1>1, UnusedServe, Zenon
  <2>2. CASE FetchSymKey(k) \/ Refuse(k) \/ HandleRequest(k) \/ ReadBalance(k)
               \/ GetBalance(k) \/ ConnectionLost(k)
    BY <1>0, <2>1, <2>2, QuietServe, Zenon
  <2>3. CASE HandleDeposit(k)
    BY <1>0, <2>1, <2>3, MoneyDeposit, Zenon
  <2>4. CASE UpdateAccount(k)
    BY <1>0, <2>1, <2>4, MoneyUpdate, Zenon
  <2>5. CASE CreditAccount(k)
    BY <1>0, <2>1, <2>5, MoneyCredit, Zenon
  <2>6. CASE Reply(k)
    BY <1>0, <2>1, <2>6, MoneyReply, ZenonT(30)
  <2>7. CASE DbFailure(k)
    BY <1>0, <2>1, <2>7, MoneyFailure, Zenon
  <2> QED BY <1>1, <2>2, <2>3, <2>4, <2>5, <2>6, <2>7, ZenonT(30) DEF Serve
<1>2. ASSUME NEW k \in Conns, NEW r \in Relays, NEW kind \in {"request", "deposit"},
             NEW coins \in SUBSET Coins, StringReceived(k, r, kind, coins)
      PROVE  Unused' /\ Tracked' /\ Worth' + lost' = Worth + lost
  <2>1. /\ Unused' /\ conn[k].pc = "free" /\ conn'[k].pc = "select"
        /\ \A j \in Conns \ {k} : conn'[j] = conn[j]
    BY <1>0, <1>2, UnusedReceived, Zenon
  <2>2. UNCHANGED <<balance, released, redeemed, lost>>
    BY <1>2, Zenon DEF StringReceived
  <2>3. Owed(k)' = Owed(k)
    BY <2>1 DEF Owed
  <2>4. Tracked' /\ Worth' + lost' = Worth + lost
    BY <1>0, <2>1, <2>2, <2>3, QuietMoney, ZenonT(30)
  <2> QED BY <2>1, <2>4
<1>3. ASSUME UNCHANGED <<balance, conn, released, redeemed, lost>>
      PROVE  Unused' /\ Tracked' /\ Worth' + lost' = Worth + lost
  BY <1>0, <1>3 DEF Unused, Tracked, Worth, Owed, Asking
<1>4. ASSUME NEW w \in numWrites, WriteMsgnum(w)
      PROVE  UNCHANGED <<balance, conn, released, redeemed, lost>>
  BY <1>4, Zenon DEF WriteMsgnum
<1>5. ASSUME Tick \/ LearnInterval \/ LookupFails
      PROVE  UNCHANGED <<balance, conn, released, redeemed, lost>>
  BY <1>5, Zenon DEF Tick, LearnInterval, LookupFails
<1>6. ASSUME NEW m \in Datagrams, DatagramReceived(m)
      PROVE  Unused' /\ Tracked' /\ Worth' + lost' = Worth + lost
  BY <1>0, <1>6, MoneyDatagram, Zenon
<1> QED BY <1>1, <1>2, <1>3, <1>4, <1>5, <1>6, ZenonT(30) DEF Next

\* Every step keeps them in order.
LEMMA MoneyInvStep == ASSUME Serialized PROVE MoneyInv /\ [Next]_vars => MoneyInv'
<1> SUFFICES ASSUME MoneyInv, [Next]_vars PROVE MoneyInv'
  OBVIOUS
<1>1. ClockInv' /\ SerialInv'
  BY ClockStep, SerialStep, Zenon DEF MoneyInv
<1>2. TypeOK /\ TypeOK'
  BY <1>1, Zenon DEF MoneyInv, SerialInv
<1>3. restarts' = 0 => restarts = 0 /\ UNCHANGED restarts /\ ~Restart
  <2>1. restarts \in Nat
    BY <1>2, Zenon DEF TypeOK
  <2>2. restarts' = restarts \/ (restarts' = restarts + 1 /\ Restart)
    BY RestartsOnly, Zenon
  <2>3. Restart => restarts' = restarts + 1
    BY DEF Restart
  <2>4. restarts + 1 # 0 /\ restarts + 1 # restarts
    BY <2>1, Counting, Zenon
  <2> QED BY <2>2, <2>3, <2>4, ZenonT(30)
<1>4. ASSUME restarts' = 0 PROVE Remembered' /\ Unused' /\ Tracked' /\ Conserved'
  <2>1. restarts = 0 /\ UNCHANGED restarts /\ Remembered /\ Unused /\ Tracked /\ Conserved
    BY <1>3, <1>4, Zenon DEF MoneyInv
  <2>2. Remembered'
    BY <2>1, RememberStep, Zenon DEF MoneyInv
  <2>3. Unused' /\ Tracked' /\ Worth' + lost' = Worth + lost
    <3>1. CASE Next
      BY <1>2, <1>3, <1>4, <2>1, <3>1, MoneyStep, ZenonT(30)
    <3>2. CASE UNCHANGED vars
      <4>1. UNCHANGED <<balance, conn, released, redeemed, lost>>
        BY <3>2, Zenon DEF vars, db
      <4> QED BY <2>1, <4>1 DEF Unused, Tracked, Worth, Owed, Asking
    <3> QED BY <3>1, <3>2
  <2>4. Conserved'
    BY <2>1, <2>3, Zenon DEF Conserved
  <2> QED BY <2>2, <2>3, <2>4
<1> QED BY <1>1, <1>4, Zenon DEF MoneyInv

\* One connection per account at a time makes the bank conserve money: whatever
\* requests, deposits, payments, repeated datagrams and interval changes do between
\* the SELECT and the UPDATE of a handler, every credit that leaves an account is a
\* coin somebody holds or is about to get, and only a failing UPDATE loses any.
THEOREM MoneyIsConserved == ASSUME Serialized PROVE Spec => []Conserved
<1>1. MoneyInv => Conserved
  BY DEF MoneyInv, Conserved
<1>2. Init => MoneyInv
  BY MoneyInit
<1>3. MoneyInv /\ [Next]_vars => MoneyInv'
  BY MoneyInvStep
<1> QED BY <1>1, <1>2, <1>3, PTL DEF Spec

=============================================================================

---------------------------- MODULE RefillProofs ----------------------------
(***************************************************************************)
(* What Circuit.refill_payments computes, for every size of a cell and of  *)
(* a payment: the assertion of the code never fails, and every payment is  *)
(* for exactly the cells that its coins pay.                               *)
(***************************************************************************)
EXTENDS Refill, SequenceTheorems, WellFoundedInduction, TLAPS

\* A set of naturals has a least element.
LEMMA Least == ASSUME NEW T \in SUBSET Nat, T # {} PROVE \E x \in T : \A y \in T : x <= y
<1> DEFINE R == OpToRel(<, Nat)
<1>1. IsWellFoundedOn(R, Nat)
  BY NatLessThanWellFounded, Zenon
<1>2. \A x, y \in Nat : x < y => <<x, y>> \in R
  BY DEF OpToRel
<1> HIDE DEF R
<1>3. \E x \in T : \A y \in T : ~ (<<y, x>> \in R)
  BY <1>1, WFMin, Zenon
<1>4. PICK x \in T : \A y \in T : ~ (<<y, x>> \in R)
  BY <1>3, Zenon
<1>5. \A y \in T : ~(y < x)
  BY <1>2, <1>4, Zenon
<1> QED BY <1>5

-----------------------------------------------------------------------------
(***************************************************************************)
(* Sums of the first n numbers of a function on 1 .. n.                    *)
(***************************************************************************)
Runs(g, a, n) == g \in [0 .. n -> Int] /\ g[0] = 0 /\ \A i \in 1 .. n : g[i] = g[i - 1] + a[i]
Sum(a, n) == CHOOSE v \in Int : \E g : Runs(g, a, n) /\ v = g[n]

\* There is one running total, and only one.
LEMMA RunExists ==
  ASSUME NEW n \in Nat, NEW a, \A i \in 1 .. n : a[i] \in Int
  PROVE  \E g : Runs(g, a, n)
<1> SUFFICES ASSUME ~\E g : Runs(g, a, n) PROVE FALSE
  OBVIOUS
<1> DEFINE T == {m \in 0 .. n : ~\E g : Runs(g, a, m)}
<1>1. T \in SUBSET Nat /\ T # {}
  OBVIOUS
<1>2. PICK m \in T : \A y \in T : m <= y
  BY <1>1, Least, Zenon
<1>3. m \in 0 .. n /\ ~\E g : Runs(g, a, m)
  OBVIOUS
<1>4. m # 0
  <2>1. Runs([i \in 0 .. 0 |-> 0], a, 0)
    BY DEF Runs
  <2> QED BY <1>3, <2>1
<1>5. m - 1 \in 0 .. n /\ m - 1 \notin T
  BY <1>2, <1>3, <1>4
<1>6. PICK g : Runs(g, a, m - 1)
  BY <1>5
<1> DEFINE h == [i \in 0 .. m |-> IF i < m THEN g[i] ELSE g[m - 1] + a[m]]
<1>7. Runs(h, a, m)
  <2>1. g \in [0 .. m - 1 -> Int] /\ g[0] = 0 /\ \A i \in 1 .. m - 1 : g[i] = g[i - 1] + a[i]
    BY <1>6 DEF Runs
  <2>2. a[m] \in Int /\ m \in Nat \ {0}
    BY <1>3, <1>4
  <2>3. h \in [0 .. m -> Int] /\ h[0] = 0
    BY <2>1, <2>2
  <2>4. ASSUME NEW i \in 1 .. m PROVE h[i] = h[i - 1] + a[i]
    <3>1. CASE i = m
      BY <2>1, <2>2, <3>1
    <3>2. CASE i \in 1 .. m - 1
      BY <2>1, <2>2, <3>2
    <3> QED BY <2>2, <3>1, <3>2
  <2> HIDE DEF h
  <2> QED BY <2>3, <2>4 DEF Runs
<1> QED BY <1>3, <1>7

\* The recurrence of a running sum has one solution: by the least index where two
\* would differ.
LEMMA RunUnique ==
  ASSUME NEW n \in Nat, NEW a, NEW g, Runs(g, a, n), NEW b, NEW h, Runs(h, b, n),
         \A i \in 1 .. n : a[i] = b[i]
  PROVE  \A i \in 0 .. n : g[i] = h[i]
<1> SUFFICES ASSUME NEW k \in 0 .. n, g[k] # h[k] PROVE FALSE
  OBVIOUS
<1> DEFINE T == {m \in 0 .. n : g[m] # h[m]}
<1>1. T \in SUBSET Nat /\ T # {}
  OBVIOUS
<1>2. PICK m \in T : \A y \in T : m <= y
  BY <1>1, Least, Zenon
<1>3. m \in 0 .. n /\ g[m] # h[m]
  OBVIOUS
<1>4. m # 0
  BY <1>3 DEF Runs
<1>5. m - 1 \in 0 .. n /\ m \in 1 .. n /\ m - 1 \notin T
  BY <1>2, <1>3, <1>4
<1>6. g[m - 1] = h[m - 1]
  BY <1>5
<1> QED BY <1>3, <1>5, <1>6 DEF Runs

\* The sum, one number at a time.
LEMMA SumIs ==
  ASSUME NEW n \in Nat, NEW a, NEW g, Runs(g, a, n)
  PROVE  \A m \in 0 .. n : Sum(a, m) = g[m]
<1> SUFFICES ASSUME NEW m \in 0 .. n PROVE Sum(a, m) = g[m]
  OBVIOUS
<1> DEFINE f == [i \in 0 .. m |-> g[i]]
<1>1. Runs(f, a, m) /\ f[m] = g[m] /\ g[m] \in Int
  BY DEF Runs
<1> HIDE DEF f
<1>2. \E v \in Int : \E h : Runs(h, a, m) /\ v = h[m]
  BY <1>1
<1>3. PICK h : Runs(h, a, m) /\ Sum(a, m) = h[m]
  BY <1>2, Zenon DEF Sum
<1>4. h[m] = f[m]
  BY <1>1, <1>3, RunUnique
<1> QED BY <1>1, <1>3, <1>4

\* Sum(a, m) follows the recurrence of a running sum.
LEMMA SumStep ==
  ASSUME NEW n \in Nat, NEW a, \A i \in 1 .. n : a[i] \in Int
  PROVE  /\ Sum(a, 0) = 0
         /\ \A m \in 0 .. n : Sum(a, m) \in Int
         /\ \A m \in 1 .. n : Sum(a, m) = Sum(a, m - 1) + a[m]
<1>1. PICK g : Runs(g, a, n)
  BY RunExists
<1>2. \A m \in 0 .. n : Sum(a, m) = g[m]
  BY <1>1, SumIs
<1> QED BY <1>1, <1>2 DEF Runs

\* Equal entries have equal sums.
LEMMA SumSame ==
  ASSUME NEW n \in Nat, NEW a, \A i \in 1 .. n : a[i] \in Int, NEW b, \A i \in 1 .. n : a[i] = b[i]
  PROVE  Sum(a, n) = Sum(b, n)
<1>1. PICK g : Runs(g, a, n)
  BY RunExists
<1>2. Runs(g, b, n)
  BY <1>1 DEF Runs
<1>3. n \in 0 .. n
  OBVIOUS
<1> QED BY <1>1, <1>2, <1>3, SumIs

\* A sum of naturals is a natural, a sum of ones counts them.
LEMMA SumNat ==
  ASSUME NEW n \in Nat, NEW a, \A i \in 1 .. n : a[i] \in Nat
  PROVE  Sum(a, n) \in Nat
<1> SUFFICES ASSUME Sum(a, n) \notin Nat PROVE FALSE
  OBVIOUS
<1>0. /\ Sum(a, 0) = 0
      /\ \A m \in 1 .. n : Sum(a, m) = Sum(a, m - 1) + a[m]
  BY SumStep
<1> DEFINE T == {m \in 0 .. n : Sum(a, m) \notin Nat}
<1>1. T \in SUBSET Nat /\ T # {}
  OBVIOUS
<1>2. PICK m \in T : \A y \in T : m <= y
  BY <1>1, Least, Zenon
<1>3. m \in 1 .. n /\ Sum(a, m) \notin Nat
  BY <1>0
<1>4. m - 1 \in 0 .. n /\ m - 1 \notin T
  BY <1>2, <1>3
<1> QED BY <1>0, <1>3, <1>4

\* A sum of ones counts them.
LEMMA SumOnes ==
  ASSUME NEW n \in Nat, NEW a, \A i \in 1 .. n : a[i] = 1
  PROVE  Sum(a, n) = n
<1> SUFFICES ASSUME Sum(a, n) # n PROVE FALSE
  OBVIOUS
<1>0. /\ Sum(a, 0) = 0
      /\ \A m \in 1 .. n : Sum(a, m) = Sum(a, m - 1) + a[m]
  BY SumStep
<1> DEFINE T == {m \in 0 .. n : Sum(a, m) # m}
<1>1. T \in SUBSET Nat /\ T # {}
  OBVIOUS
<1>2. PICK m \in T : \A y \in T : m <= y
  BY <1>1, Least, Zenon
<1>3. m \in 1 .. n /\ Sum(a, m) # m
  BY <1>0
<1>4. m - 1 \in 0 .. n /\ m - 1 \notin T
  BY <1>2, <1>3
<1> QED BY <1>0, <1>3, <1>4

\* One number less, and the numbers of one function after those of another.
LEMMA SumWithout ==
  ASSUME NEW n \in Nat, NEW a, \A i \in 1 .. n : a[i] \in Int,
         NEW i \in 1 .. n, NEW b, \A j \in 1 .. n - 1 : b[j] = a[IF j < i THEN j ELSE j + 1]
  PROVE  Sum(b, n - 1) = Sum(a, n) - a[i]
<1> SUFFICES ASSUME Sum(b, n - 1) # Sum(a, n) - a[i] PROVE FALSE
  OBVIOUS
<1>0. \A m \in 1 .. n : Sum(a, m) = Sum(a, m - 1) + a[m] /\ Sum(a, m) \in Int /\ Sum(a, m - 1) \in Int
  BY SumStep
<1>1. \A j \in 1 .. n - 1 : b[j] \in Int
  OBVIOUS
<1>2. \A m \in 1 .. n - 1 : Sum(b, m) = Sum(b, m - 1) + b[m] /\ Sum(b, m) \in Int
  BY <1>1, SumStep
<1> DEFINE T == {m \in i - 1 .. n - 1 : Sum(b, m) # Sum(a, m + 1) - a[i]}
<1>3. T \in SUBSET Nat /\ T # {}
  <2>1. n - 1 \in T
    OBVIOUS
  <2> QED BY <2>1
<1>4. PICK m \in T : \A y \in T : m <= y
  BY <1>3, Least, Zenon
<1>5. m \in i - 1 .. n - 1 /\ Sum(b, m) # Sum(a, m + 1) - a[i]
  OBVIOUS
<1>6. CASE m = i - 1
  <2>1. Sum(b, i - 1) = Sum(a, i - 1)
    <3>1. i - 1 \in Nat /\ (\A j \in 1 .. i - 1 : b[j] = a[j] /\ b[j] \in Int)
      BY <1>1
    <3> QED BY <3>1, SumSame
  <2>2. Sum(a, i) = Sum(a, i - 1) + a[i] /\ Sum(a, i - 1) \in Int /\ a[i] \in Int
    BY <1>0
  <2>3. m + 1 = i
    BY <1>6
  <2> QED BY <1>5, <1>6, <2>1, <2>2, <2>3
<1>7. CASE m # i - 1
  <2>1. m - 1 \in i - 1 .. n - 1 /\ m - 1 \notin T /\ m \in 1 .. n - 1 /\ m + 1 \in 1 .. n /\ m >= i
    BY <1>4, <1>5, <1>7
  <2>2. Sum(b, m - 1) = Sum(a, m) - a[i]
    <3>1. (m - 1) + 1 = m
      BY <2>1
    <3> QED BY <2>1, <3>1
  <2>3. Sum(b, m) = Sum(b, m - 1) + b[m] /\ b[m] = a[m + 1]
    BY <1>2, <2>1
  <2>4. Sum(a, m + 1) = Sum(a, m) + a[m + 1] /\ Sum(a, m) \in Int /\ a[m + 1] \in Int /\ a[i] \in Int
    <3>1. (m + 1) - 1 = m
      BY <2>1
    <3> QED BY <1>0, <2>1, <3>1
  <2> QED BY <1>5, <2>2, <2>3, <2>4
<1> QED BY <1>6, <1>7

\* The sum of a concatenation is the sum of the two sums.
LEMMA SumConcat ==
  ASSUME NEW k \in Nat, NEW a, \A i \in 1 .. k : a[i] \in Int,
         NEW n \in Nat, NEW b, \A i \in 1 .. n : b[i] \in Int,
         NEW c, \A i \in 1 .. k : c[i] = a[i], \A i \in 1 .. n : c[k + i] = b[i]
  PROVE  Sum(c, k + n) = Sum(a, k) + Sum(b, n)
<1> SUFFICES ASSUME Sum(c, k + n) # Sum(a, k) + Sum(b, n) PROVE FALSE
  OBVIOUS
<1>0. Sum(a, k) \in Int /\ Sum(b, 0) = 0
  <2>1. k \in 0 .. k
    OBVIOUS
  <2> QED BY <2>1, SumStep, Zenon
<1>1. \A i \in 1 .. k + n : c[i] \in Int
  <2> SUFFICES ASSUME NEW i \in 1 .. k + n PROVE c[i] \in Int
    OBVIOUS
  <2>1. CASE i \in 1 .. k
    BY <2>1
  <2>2. CASE i - k \in 1 .. n
    <3>1. i = k + (i - k)
      OBVIOUS
    <3> QED BY <2>2, <3>1
  <2> QED BY <2>1, <2>2
<1>2. \A m \in 1 .. k + n : Sum(c, m) = Sum(c, m - 1) + c[m] /\ Sum(c, m) \in Int
  BY <1>1, SumStep
<1>3. \A m \in 1 .. n : Sum(b, m) = Sum(b, m - 1) + b[m] /\ Sum(b, m) \in Int /\ Sum(b, m - 1) \in Int
  BY SumStep
<1> DEFINE T == {m \in 0 .. n : Sum(c, k + m) # Sum(a, k) + Sum(b, m)}
<1>4. T \in SUBSET Nat /\ T # {}
  OBVIOUS
<1>5. PICK m \in T : \A y \in T : m <= y
  BY <1>4, Least, Zenon
<1>6. m \in 0 .. n /\ Sum(c, k + m) # Sum(a, k) + Sum(b, m)
  OBVIOUS
<1>7. m # 0
  <2>1. Sum(c, k) = Sum(a, k)
    BY SumSame
  <2> QED BY <1>0, <1>6, <2>1
<1>8. m - 1 \in 0 .. n /\ m - 1 \notin T /\ m \in 1 .. n /\ k + m \in 1 .. k + n
  BY <1>5, <1>6, <1>7
<1>9. Sum(c, k + (m - 1)) = Sum(a, k) + Sum(b, m - 1)
  BY <1>8
<1>10. Sum(c, k + m) = Sum(c, k + (m - 1)) + b[m]
  <2>1. (k + m) - 1 = k + (m - 1) /\ c[k + m] = b[m]
    BY <1>8
  <2> QED BY <1>2, <1>8, <2>1
<1> QED BY <1>0, <1>3, <1>6, <1>8, <1>9, <1>10

-----------------------------------------------------------------------------
(***************************************************************************)
(* The size of a payment.                                                  *)
(***************************************************************************)

\* Integer division: the quotient times the divisor is within a divisor of the
\* dividend.
LEMMA Quotient ==
  ASSUME NEW n \in Nat, NEW d \in Nat \ {0}
  PROVE  /\ n \div d \in Nat
         /\ d * (n \div d) <= n
         /\ n < d * (n \div d) + d
  BY Z3

\* A product with a positive factor is monotone.
LEMMA Cancel ==
  ASSUME NEW x \in Int, NEW y \in Int, NEW d \in Nat \ {0}, d * x < d * y
  PROVE  x < y
<1>1. SUFFICES ASSUME y <= x PROVE FALSE
  OBVIOUS
<1>2. d * y <= d * x
  BY <1>1, Z3
<1> QED BY <1>2, Z3

\* refill_payments: "cannot have negative leftover cells".  The payments that are
\* bought always cover the cells both directions need.
THEOREM LeftoverPositive ==
  ASSUME NEW r \in Nat, NEW w \in Nat
  PROVE  /\ NumPayments(r, w) \in Nat \ {0}
         /\ Leftover(r, w) \in Nat \ {0}
<1> DEFINE B == BYTES_PER_CELL
           C == CELLS_PER_PAYMENT
           a == r \div B
           b == w \div B
           t == r + w + 2 * B
           q == t \div (B * C)
<1>1. B \in Nat \ {0} /\ C \in Nat \ {0}
  BY SizeAssumption
<1>2. B * C \in Nat \ {0}
  BY <1>1, Z3
<1>3. t \in Nat
  BY <1>1
<1> HIDE DEF B, C
<1>4. a \in Nat /\ B * a <= r /\ b \in Nat /\ B * b <= w
  BY <1>1, Quotient
<1>5. q \in Nat /\ t < (B * C) * q + (B * C)
  <2> HIDE DEF t
  <2> QED BY <1>2, <1>3, Quotient
<1> HIDE DEF a, b, q
<1>6. B * (a + b + 2) <= t
  BY <1>1, <1>4, Z3 DEF t
<1> HIDE DEF t
<1>7. (B * C) * q + (B * C) = B * ((1 + q) * C)
  BY <1>1, <1>5, Z3
<1>8. B * (a + b + 2) < B * ((1 + q) * C)
  BY <1>1, <1>3, <1>4, <1>5, <1>6, <1>7, Z3
<1>9. a + b + 2 \in Int /\ (1 + q) * C \in Int
  BY <1>1, <1>4, <1>5, Z3
<1>10. a + b + 2 < (1 + q) * C
  BY <1>1, <1>8, <1>9, Cancel
<1>11. NumPayments(r, w) = 1 + q /\ Leftover(r, w) = (1 + q) * C - ((1 + a) + (1 + b))
  BY DEF NumPayments, Leftover, NumCells, a, b, q, t, B, C
<1> QED BY <1>1, <1>4, <1>5, <1>9, <1>10, <1>11, Z3

\* One cell each way is always bought, and the two directions share out exactly
\* what the coins pay for.
LEMMA PaymentExact ==
  ASSUME NEW r \in Nat, NEW w \in Nat
  PROVE  /\ Payment(r, w) \in PaymentType
         /\ Payment(r, w).read + Payment(r, w).write = Payment(r, w).n * CELLS_PER_PAYMENT
         /\ Payment(r, w).read >= 1 /\ Payment(r, w).write >= 1
<1> DEFINE left == Leftover(r, w)
           n == NumPayments(r, w)
           a == NumCells(r)
           b == NumCells(w)
           C == CELLS_PER_PAYMENT
<1>1. n \in Nat \ {0} /\ left \in Nat
  BY LeftoverPositive
<1>2. a \in Nat \ {0} /\ b \in Nat \ {0}
  <2>1. r \div BYTES_PER_CELL \in Nat /\ w \div BYTES_PER_CELL \in Nat
    BY SizeAssumption, Quotient
  <2> QED BY <2>1 DEF NumCells
<1>3. n * C \in Nat /\ left = n * C - (a + b)
  <2>1. C \in Nat
    BY SizeAssumption
  <2>2. n * C \in Nat
    <3> HIDE DEF n, C
    <3> QED BY <1>1, <2>1, Z3
  <2> QED BY <2>2 DEF Leftover
<1>4. left \div 2 \in Nat /\ left % 2 \in Nat /\ left = 2 * (left \div 2) + (left % 2)
  <2> HIDE DEF left
  <2> QED BY <1>1, Z3
<1>5. Payment(r, w) = [n |-> n,
                       read |-> a + IF r > 0 /\ w > 0 THEN left \div 2 + (left % 2)
                                    ELSE IF r > 0 THEN left ELSE 0,
                       write |-> b + IF r > 0 /\ w > 0 THEN left \div 2
                                     ELSE IF r > 0 THEN 0 ELSE left]
  BY DEF Payment
<1> DEFINE rd == a + IF r > 0 /\ w > 0 THEN left \div 2 + (left % 2)
                     ELSE IF r > 0 THEN left ELSE 0
           wr == b + IF r > 0 /\ w > 0 THEN left \div 2
                     ELSE IF r > 0 THEN 0 ELSE left
<1>6. rd \in Nat \ {0} /\ wr \in Nat \ {0} /\ rd + wr = a + b + left
  <2> HIDE DEF left, a, b
  <2> QED BY <1>1, <1>2, <1>4
<1>7. a + b + left = n * C
  <2> DEFINE total == n * C
  <2> HIDE DEF left, n, a, b, total
  <2> QED BY <1>1, <1>2, <1>3 DEF total
<1> HIDE DEF left, n, a, b, C, rd, wr
<1>8. Payment(r, w) = [n |-> n, read |-> rd, write |-> wr]
  BY <1>5 DEF rd, wr
<1> QED BY <1>1, <1>6, <1>7, <1>8 DEF PaymentType, C

\* With the sizes of the code one payment is always enough: the most that can be
\* missing, two low levels and what Tor lets the counts fall below zero, is less
\* than a payment (2 * (2048 + 100) + 2 < 10240 cells).
THEOREM OnePaymentIsEnough ==
  ASSUME NEW r \in Nat, NEW w \in Nat,
         r <= LOW_PAR_BYTES + CIRCWINDOW_INCREMENT * BYTES_PER_CELL,
         w <= LOW_PAR_BYTES + CIRCWINDOW_INCREMENT * BYTES_PER_CELL,
         2 * (LOW_PAR_BYTES + CIRCWINDOW_INCREMENT * BYTES_PER_CELL) + 2 * BYTES_PER_CELL
            < BYTES_PER_CELL * CELLS_PER_PAYMENT
  PROVE  Payment(r, w).n = 1
<1> DEFINE t == r + w + 2 * BYTES_PER_CELL
           d == BYTES_PER_CELL * CELLS_PER_PAYMENT
           x == LOW_PAR_BYTES + CIRCWINDOW_INCREMENT * BYTES_PER_CELL
<1>1. d \in Nat \ {0} /\ t \in Nat /\ x \in Nat
  BY SizeAssumption, RefillAssumption, Z3
<1>2. t < d
  <2>1. BYTES_PER_CELL \in Nat /\ r <= x /\ w <= x /\ 2 * x + 2 * BYTES_PER_CELL < d
    BY SizeAssumption, RefillAssumption
  <2> HIDE DEF x, d
  <2> QED BY <1>1, <2>1
<1>3. t \div d \in Nat /\ d * (t \div d) <= t
  <2> HIDE DEF t, d
  <2> QED BY <1>1, Quotient
<1>4. t \div d = 0
  <2> DEFINE q == t \div d
  <2> HIDE DEF t, d, q
  <2>1. q \in Nat /\ d * q < d * 1
    BY <1>1, <1>2, <1>3, Z3 DEF q
  <2>2. q < 1
    BY <1>1, <2>1, Cancel
  <2> QED BY <2>1, <2>2 DEF q
<1> QED BY <1>4 DEF Payment, NumPayments

-----------------------------------------------------------------------------
\* The inductive invariant: payments in progress are exact, and so is the type.
IInv == TypeOK /\ ExactPayments

\* A relay is never asked to pay a negative number of tokens.
LEMMA MissingNat ==
  ASSUME NEW x \in Int
  PROVE  Missing(x) \in Nat
  BY SizeAssumption, RefillAssumption DEF Missing

\* A new circuit satisfies IInv.
LEMMA InitIInv == Init => IInv
<1> SUFFICES ASSUME Init PROVE IInv
  OBVIOUS
<1>1. CELLS_PER_PAYMENT \div 2 \in Int
  BY SizeAssumption, RefillAssumption
<1> QED BY <1>1, SizeAssumption, RefillAssumption DEF Init, IInv, TypeOK, ExactPayments

\* token_level_event keeps IInv, whatever payments it starts.
LEMMA StartIInv ==
  ASSUME IInv, TokenLevels
  PROVE  IInv'
<1> DEFINE p == Payment(MissingRead, MissingWrite)
<1>1. MissingRead \in Nat /\ MissingWrite \in Nat
  <2>1. payed.read \in Int /\ inflight.read \in Int /\ payed.write \in Int /\ inflight.write \in Int
    BY DEF IInv, TypeOK
  <2>2. (payed.read + inflight.read) * BYTES_PER_CELL \in Int
        /\ (payed.write + inflight.write) * BYTES_PER_CELL \in Int
    BY <2>1, SizeAssumption, Z3
  <2> QED BY <2>2, MissingNat DEF MissingRead, MissingWrite
<1>2. /\ p \in PaymentType /\ p.read >= 1 /\ p.write >= 1
      /\ p.read + p.write = p.n * CELLS_PER_PAYMENT
  BY <1>1, PaymentExact
<1>3. Start(p)
  BY DEF TokenLevels
<1> HIDE DEF p
<1>4. payments \in Seq(PaymentType) /\ payments' = Append(payments, p)
  BY <1>3 DEF Start, IInv, TypeOK
<1>5. TypeOK'
  BY <1>2, <1>3, <1>4, SMTT(30) DEF Start, IInv, TypeOK, PaymentType
<1>6. ExactPayments'
  <2> SUFFICES ASSUME NEW i \in 1 .. Len(payments')
               PROVE  /\ payments'[i].read + payments'[i].write
                            = payments'[i].n * CELLS_PER_PAYMENT
                      /\ payments'[i].read >= 1 /\ payments'[i].write >= 1
    BY DEF ExactPayments
  <2>1. CASE i = Len(payments) + 1
    BY <1>2, <1>4, <2>1
  <2>2. CASE i \in 1 .. Len(payments)
    <3>1. payments'[i] = payments[i]
      BY <1>4, <2>2
    <3> QED BY <2>2, <3>1 DEF IInv, ExactPayments
  <2> QED BY <1>4, <2>1, <2>2
<1> QED BY <1>5, <1>6 DEF IInv

\* A sequence without its i-th element has the other elements, in order.
LEMMA WithoutIth ==
  ASSUME NEW S, NEW s \in Seq(S), NEW i \in 1 .. Len(s)
  PROVE  /\ Without(s, i) \in Seq(S) /\ Len(Without(s, i)) = Len(s) - 1
         /\ \A j \in 1 .. Len(s) - 1 : Without(s, i)[j] = s[IF j < i THEN j ELSE j + 1]
<1> DEFINE t == Without(s, i)
           u == SubSeq(s, 1, i - 1)
           v == SubSeq(s, i + 1, Len(s))
<1>1. /\ u \in Seq(S) /\ Len(u) = i - 1
      /\ \A j \in 1 .. i - 1 : u[j] = s[j]
  OBVIOUS
<1>2. /\ v \in Seq(S) /\ Len(v) = Len(s) - i
      /\ \A j \in 1 .. Len(s) - i : v[j] = s[i + j]
  <2>1. Len(s) \in Nat /\ i \in Nat /\ i >= 1 /\ i <= Len(s)
    OBVIOUS
  <2>2. \A k \in i + 1 .. Len(s) : s[k] \in S
    BY <2>1
  <2>3. Len(v) = Len(s) - i
    BY <2>1
  <2>4. \A j \in 1 .. Len(s) - i : v[j] = s[i + j]
    BY <2>1
  <2>5. v \in Seq(S)
    BY <2>1, <2>2
  <2> QED BY <2>3, <2>4, <2>5
<1>3. t = u \o v
  BY DEF Without
<1> HIDE DEF t, u, v
<1>4. /\ t \in Seq(S) /\ Len(t) = Len(u) + Len(v)
      /\ \A j \in 1 .. Len(u) + Len(v) : t[j] = IF j <= Len(u) THEN u[j] ELSE v[j - Len(u)]
  BY <1>1, <1>2, <1>3, ConcatProperties, Zenon
<1>5. Len(t) = Len(s) - 1 /\ Len(s) \in Nat /\ i \in Nat /\ i >= 1 /\ i <= Len(s)
  <2>1. Len(s) \in Nat /\ i \in Nat /\ i >= 1 /\ i <= Len(s)
    OBVIOUS
  <2>2. Len(t) = (i - 1) + (Len(s) - i)
    BY <1>1, <1>2, <1>4
  <2> QED BY <2>1, <2>2
<1>6. ASSUME NEW j \in 1 .. Len(s) - 1
      PROVE  t[j] = s[IF j < i THEN j ELSE j + 1]
  <2>1. CASE j < i
    <3>1. j \in 1 .. i - 1
      BY <1>5, <2>1
    <3>2. j \in 1 .. Len(u) + Len(v) /\ j <= Len(u)
      BY <1>1, <1>2, <1>5, <2>1
    <3>3. t[j] = u[j]
      BY <1>4, <3>2, Zenon
    <3>4. u[j] = s[j]
      BY <1>1, <3>1
    <3> QED BY <2>1, <3>3, <3>4
  <2>2. CASE ~(j < i)
    <3>1. j - (i - 1) \in 1 .. Len(s) - i /\ i + (j - (i - 1)) = j + 1
      BY <1>5, <2>2
    <3>2. t[j] = v[j - (i - 1)]
      <4>1. j \in 1 .. Len(u) + Len(v) /\ ~(j <= Len(u)) /\ Len(u) = i - 1
        BY <1>1, <1>2, <1>5, <2>2
      <4> QED BY <1>4, <4>1, Zenon
    <3>3. v[j - (i - 1)] = s[i + (j - (i - 1))]
      BY <1>2, <3>1, SMTT(30)
    <3> QED BY <2>2, <3>1, <3>2, <3>3
  <2> QED BY <2>1, <2>2
<1> QED BY <1>4, <1>5, <1>6 DEF t

\* add_tokens keeps IInv for every payment in flight.
LEMMA AddTokensIInv ==
  ASSUME IInv, NEW i \in 1 .. Len(payments), AddTokens(i)
  PROVE  IInv'
<1> DEFINE p == payments[i]
<1>1. /\ payments \in Seq(PaymentType) /\ p \in PaymentType /\ added \in Seq(PaymentType)
      /\ payed.read \in Int /\ payed.write \in Int /\ inflight \in [read : Int, write : Int]
  BY DEF IInv, TypeOK
<1>2. /\ payments' \in Seq(PaymentType)
      /\ \A j \in 1 .. Len(payments') : \E k \in 1 .. Len(payments) : payments'[j] = payments[k]
  <2>1. payments' = Without(payments, i)
    BY DEF AddTokens
  <2>2. /\ payments' \in Seq(PaymentType) /\ Len(payments') = Len(payments) - 1
        /\ \A j \in 1 .. Len(payments) - 1 : payments'[j] = payments[IF j < i THEN j ELSE j + 1]
    BY <1>1, <2>1, WithoutIth, Zenon
  <2>3. \A j \in 1 .. Len(payments) - 1 : (IF j < i THEN j ELSE j + 1) \in 1 .. Len(payments)
    BY <1>1
  <2> QED BY <2>2, <2>3, Zenon
<1>3. added' \in Seq(PaymentType)
  BY <1>1 DEF AddTokens
<1>4. payed' \in [read : Int, write : Int]
  <2>1. p.read \in Int /\ p.write \in Int
    BY <1>1, SMTT(30) DEF PaymentType
  <2>2. \/ payed' = payed
        \/ payed' = [read |-> payed.read + p.read, write |-> payed.write + p.write]
    BY DEF AddTokens
  <2>3. payed \in [read : Int, write : Int]
    BY DEF IInv, TypeOK
  <2> QED BY <1>1, <2>1, <2>2, <2>3, SMTT(30)
<1>5. TypeOK'
  BY <1>1, <1>2, <1>3, <1>4 DEF TypeOK, AddTokens
<1>6. ExactPayments'
  BY <1>2 DEF ExactPayments, IInv
<1> QED BY <1>5, <1>6 DEF IInv

\* Every step keeps IInv.
LEMMA NextIInv == IInv /\ [Next]_vars => IInv'
<1> SUFFICES ASSUME IInv, [Next]_vars PROVE IInv'
  OBVIOUS
<1>0. payed.read \in Int /\ payed.write \in Int /\ payed \in [read : Int, write : Int]
  BY DEF IInv, TypeOK
<1>1. CASE ReadCell
  <2>1. payed' \in [read : Int, write : Int]
    BY <1>0, <1>1 DEF ReadCell
  <2> QED BY <1>1, <2>1 DEF ReadCell, IInv, TypeOK, ExactPayments
<1>2. CASE WriteCell
  <2>1. payed' \in [read : Int, write : Int]
    BY <1>0, <1>2 DEF WriteCell
  <2> QED BY <1>2, <2>1 DEF WriteCell, IInv, TypeOK, ExactPayments
<1>3. CASE TokenLevels
  BY <1>3, StartIInv
<1>4. CASE TokensAdded
  <2>1. added \in Seq(PaymentType) /\ added # <<>>
    BY <1>4 DEF TokensAdded, IInv, TypeOK
  <2>2. added[1] \in PaymentType /\ Tail(added) \in Seq(PaymentType)
    BY <2>1
  <2>3. inflight' \in [read : Int, write : Int]
    BY <1>4, <2>2, SMTT(30) DEF TokensAdded, IInv, TypeOK, PaymentType
  <2>4. payed' = payed /\ payments' = payments /\ added' = Tail(added)
    BY <1>4, Zenon DEF TokensAdded
  <2>5. TypeOK'
    <3>1. payed' \in [read : Int, write : Int] /\ payments' \in Seq(PaymentType)
      BY <2>4, Zenon DEF IInv, TypeOK
    <3>2. added' \in Seq(PaymentType)
      BY <2>2, <2>4, Zenon
    <3> QED BY <2>3, <3>1, <3>2, Zenon DEF TypeOK
  <2>6. ExactPayments'
    <3>1. ExactPayments
      BY DEF IInv
    <3> QED BY <2>4, <3>1, Zenon DEF ExactPayments
  <2> QED BY <2>5, <2>6 DEF IInv
<1>5. CASE \E i \in 1 .. Len(payments) : AddTokens(i)
  BY <1>5, AddTokensIInv
<1>6. CASE UNCHANGED vars
  BY <1>6 DEF vars, IInv, TypeOK, ExactPayments
<1> QED BY <1>1, <1>2, <1>3, <1>4, <1>5, <1>6 DEF Next

\* IInv holds in every state.
LEMMA AlwaysIInv == Spec => []IInv
<1>1. Init => IInv
  BY InitIInv
<1>2. IInv /\ [Next]_vars => IInv'
  BY NextIInv
<1> QED BY <1>1, <1>2, PTL DEF Spec

\* Type correctness of the account of a circuit, for all constants: in particular
\* no payment is ever negative in one direction.
THEOREM TypeCorrect == Spec => []TypeOK
<1>1. IInv => TypeOK
  BY DEF IInv
<1> QED BY <1>1, AlwaysIInv, PTL

\* refill_payments asks for exactly what it pays, and for a cell at least in each
\* direction, in every state of the circuit and for all constants.
THEOREM PaymentsAreExact == Spec => []ExactPayments
<1>1. IInv => ExactPayments
  BY DEF IInv
<1> QED BY <1>1, AlwaysIInv, PTL


-----------------------------------------------------------------------------
(***************************************************************************)
(* What is in flight is the sum of the payments in progress, and there are *)
(* never more than two of them.                                            *)
(***************************************************************************)

\* What can be missing in one direction at most: the low level and what Tor lets a
\* count fall below zero.
Level == LOW_PAR_BYTES + CIRCWINDOW_INCREMENT * BYTES_PER_CELL

\* The proportions of the code, in cells 3 * (2048 + 100) + 2 < 10240: a payment that
\* is shared between the two directions still covers either of them.
Proportions ==
    /\ BYTES_PER_CELL < Level
    /\ 3 * Level + 2 * BYTES_PER_CELL < BYTES_PER_CELL * CELLS_PER_PAYMENT
    /\ MAX_MERCHANT_TOKENS >= 2

\* As long as a payment with this many cells one way is in flight, no other is made
\* for the sake of that way.
ForRead(p) == p.read * BYTES_PER_CELL >= Level
ForWrite(p) == p.write * BYTES_PER_CELL >= Level

\* Multiplication by a size keeps an order.
LEMMA Monotone ==
  ASSUME NEW x \in Int, NEW y \in Int, NEW d \in Nat, x <= y
  PROVE  x * d <= y * d
  BY Z3

\* The level below which a circuit is refilled, and a window of cells, are numbers
\* of bytes.
LEMMA LevelNat == Level \in Nat /\ CIRCWINDOW_INCREMENT * BYTES_PER_CELL \in Nat
<1>1. CIRCWINDOW_INCREMENT * BYTES_PER_CELL \in Nat
  BY SizeAssumption, RefillAssumption, Z3
<1> QED BY <1>1, SizeAssumption DEF Level

\* A direction with something missing gets at least Level out of the payment.
LEMMA Share ==
  ASSUME NEW r \in Nat, NEW w \in Nat, r <= Level, w <= Level, Proportions
  PROVE  /\ Payment(r, w).n = 1
         /\ r > 0 => ForRead(Payment(r, w))
         /\ w > 0 => ForWrite(Payment(r, w))
         /\ r = 0 /\ w > 0 => ~ForRead(Payment(r, w))
         /\ w = 0 /\ r > 0 => ~ForWrite(Payment(r, w))
<1> DEFINE B == BYTES_PER_CELL
           C == CELLS_PER_PAYMENT
           L == Level
           p == Payment(r, w)
           a == NumCells(r)
           b == NumCells(w)
           left == Leftover(r, w)
           BC == B * C
<1>1. /\ B \in Nat \ {0} /\ C \in Nat \ {0} /\ L \in Nat /\ BC \in Nat
      /\ 3 * L + 2 * B < BC /\ B < L /\ r <= L /\ w <= L
  <2>1. B \in Nat \ {0} /\ C \in Nat \ {0} /\ L \in Nat
    BY SizeAssumption, LevelNat
  <2>2. BC \in Nat
    <3> HIDE DEF B, C
    <3> QED BY <2>1, Z3
  <2> QED BY <2>1, <2>2 DEF Proportions
<1>2. p.n = 1
  <2>1. 2 * Level + 2 * BYTES_PER_CELL < BYTES_PER_CELL * CELLS_PER_PAYMENT
    <3> HIDE DEF L, B, BC
    <3>1. 2 * L + 2 * B < BC
      BY <1>1
    <3> QED BY <3>1 DEF L, B, BC
  <2> QED BY <2>1, OnePaymentIsEnough DEF Level
<1>3. /\ a \in Nat /\ B * a <= B + r /\ B <= B * a
      /\ b \in Nat /\ B * b <= B + w /\ B <= B * b
      /\ (r = 0 => a = 1) /\ (w = 0 => b = 1)
  <2> DEFINE x == r \div B
             y == w \div B
  <2>1. x \in Nat /\ B * x <= r /\ y \in Nat /\ B * y <= w
    BY <1>1, Quotient
  <2>2. (r = 0 => x = 0) /\ (w = 0 => y = 0)
    <3>1. ASSUME NEW z \in Nat, B * z <= 0 PROVE z = 0
      <4> HIDE DEF B
      <4> QED BY <1>1, <3>1, Z3
    <3> HIDE DEF x, y, B
    <3> QED BY <2>1, <3>1
  <2>3. a = 1 + x /\ b = 1 + y
    BY DEF NumCells
  <2> HIDE DEF x, y, B, a, b
  <2>4. B * a = B + B * x /\ B * b = B + B * y
    BY <1>1, <2>1, <2>3, Z3
  <2>5. B * x \in Nat /\ B * y \in Nat
    BY <1>1, <2>1, Z3
  <2> QED BY <1>1, <2>1, <2>2, <2>3, <2>4, <2>5
<1>4. left = C - (a + b) /\ left \in Nat
  <2>1. left \in Nat
    BY LeftoverPositive
  <2>2. NumPayments(r, w) = 1
    BY <1>2 DEF Payment
  <2> QED BY <1>1, <2>1, <2>2 DEF Leftover
<1>5. left \div 2 \in Nat /\ left % 2 \in Nat /\ left % 2 <= 1 /\ left = 2 * (left \div 2) + (left % 2)
  <2> HIDE DEF left
  <2> QED BY <1>4, Z3
<1>6. /\ p.read = a + IF r > 0 /\ w > 0 THEN left \div 2 + (left % 2)
                      ELSE IF r > 0 THEN left ELSE 0
      /\ p.write = b + IF r > 0 /\ w > 0 THEN left \div 2
                       ELSE IF r > 0 THEN 0 ELSE left
  BY DEF Payment
<1> DEFINE h == left \div 2
           e == left % 2
           rd == p.read
           wr == p.write
<1> HIDE DEF h, e, left, a, b, p, B, C, L, BC, rd, wr
<1>7. ASSUME r > 0 PROVE rd * B >= L
  <2>1. CASE w = 0
    <3>1. rd = C - 1
      BY <1>1, <1>3, <1>4, <1>6, <1>7, <2>1 DEF rd
    <3>2. rd * B = BC - B
      BY <1>1, <3>1, Z3 DEF BC
    <3> QED BY <1>1, <3>2
  <2>2. CASE w > 0
    <3>1. rd = a + h + e
      BY <1>3, <1>5, <1>6, <1>7, <2>2 DEF rd, h, e
    <3>2. 2 * rd >= (C + a) - b /\ rd \in Nat
      BY <1>1, <1>3, <1>4, <1>5, <3>1 DEF h, e
    <3>3. ((C + a) - b) * B <= (2 * rd) * B
      BY <1>1, <1>3, <3>2, Monotone
    <3>4. ((C + a) - b) * B = (BC + B * a) - B * b /\ (2 * rd) * B = 2 * (rd * B)
          /\ rd * B \in Int /\ B * a \in Int /\ B * b \in Int
      BY <1>1, <1>3, <3>2, Z3 DEF BC
    <3> DEFINE X == rd * B
               Y == B * a
               Z == B * b
    <3>5. X \in Int /\ Y \in Int /\ Z \in Int /\ (BC + Y) - Z <= 2 * X /\ B <= Y /\ Z <= B + w
      BY <1>3, <3>3, <3>4
    <3> HIDE DEF X, Y, Z
    <3>6. X >= L
      BY <1>1, <3>5
    <3> QED BY <3>6 DEF X
  <2> QED BY <2>1, <2>2
<1>8. ASSUME w > 0 PROVE wr * B >= L
  <2>1. CASE r = 0
    <3>1. wr = C - 1
      BY <1>1, <1>3, <1>4, <1>6, <1>8, <2>1 DEF wr
    <3>2. wr * B = BC - B
      BY <1>1, <3>1, Z3 DEF BC
    <3> QED BY <1>1, <3>2
  <2>2. CASE r > 0
    <3>1. wr = b + h
      BY <1>3, <1>5, <1>6, <1>8, <2>2 DEF wr, h
    <3>2. 2 * wr >= ((C + b) - a) - 1 /\ wr \in Nat
      BY <1>1, <1>3, <1>4, <1>5, <3>1 DEF h, e
    <3>3. (((C + b) - a) - 1) * B <= (2 * wr) * B
      BY <1>1, <1>3, <3>2, Monotone
    <3>4. (((C + b) - a) - 1) * B = ((BC + B * b) - B * a) - B /\ (2 * wr) * B = 2 * (wr * B)
          /\ wr * B \in Int /\ B * a \in Int /\ B * b \in Int
      BY <1>1, <1>3, <3>2, Z3 DEF BC
    <3> DEFINE X == wr * B
               Y == B * a
               Z == B * b
    <3>5. X \in Int /\ Y \in Int /\ Z \in Int /\ ((BC + Z) - Y) - B <= 2 * X /\ B <= Z /\ Y <= B + r
      BY <1>3, <3>3, <3>4
    <3> HIDE DEF X, Y, Z
    <3>6. X >= L
      BY <1>1, <3>5
    <3> QED BY <3>6 DEF X
  <2> QED BY <2>1, <2>2
<1>9. ASSUME r = 0, w > 0 PROVE ~(rd * B >= L)
  <2>1. rd = 1
    BY <1>3, <1>6, <1>9 DEF rd
  <2>2. rd * B = B
    BY <1>1, <2>1
  <2> QED BY <1>1, <2>2
<1>10. ASSUME w = 0, r > 0 PROVE ~(wr * B >= L)
  <2>1. wr = 1
    BY <1>3, <1>6, <1>10 DEF wr
  <2>2. wr * B = B
    BY <1>1, <2>1
  <2> QED BY <1>1, <2>2
<1> QED BY <1>2, <1>7, <1>8, <1>9, <1>10 DEF ForRead, ForWrite, p, rd, wr, B, L


-----------------------------------------------------------------------------
\* The cells of the payments of a sequence.
Reads(s) == [i \in 1 .. Len(s) |-> s[i].read]
Writes(s) == [i \in 1 .. Len(s) |-> s[i].write]
ReadSum(s) == Sum(Reads(s), Len(s))
WriteSum(s) == Sum(Writes(s), Len(s))

\* The bytes in flight are numbers, in each direction.
LEMMA SumsNat ==
  ASSUME NEW s \in Seq(PaymentType)
  PROVE  /\ ReadSum(s) \in Nat /\ WriteSum(s) \in Nat
         /\ \A i \in 1 .. Len(s) : Reads(s)[i] \in Nat /\ Writes(s)[i] \in Nat
<1>1. Len(s) \in Nat /\ \A i \in 1 .. Len(s) : Reads(s)[i] \in Nat /\ Writes(s)[i] \in Nat
  <2> SUFFICES ASSUME NEW i \in 1 .. Len(s) PROVE Reads(s)[i] \in Nat /\ Writes(s)[i] \in Nat
    OBVIOUS
  <2>1. s[i] \in PaymentType
    OBVIOUS
  <2>2. s[i].read \in Nat /\ s[i].write \in Nat
    BY <2>1, Zenon DEF PaymentType
  <2> QED BY <2>2 DEF Reads, Writes
<1> DEFINE n == Len(s)
           a == Reads(s)
           b == Writes(s)
<1>2. n \in Nat /\ (\A i \in 1 .. n : a[i] \in Nat) /\ (\A i \in 1 .. n : b[i] \in Nat)
  BY <1>1
<1> HIDE DEF n, a, b
<1>3. Sum(a, n) \in Nat
  BY <1>2, SumNat
<1>4. Sum(b, n) \in Nat
  BY <1>2, SumNat
<1> QED BY <1>1, <1>3, <1>4 DEF ReadSum, WriteSum, a, b, n

\* A new payment adds its bytes to the bytes in flight.
LEMMA SumsAppend ==
  ASSUME NEW s \in Seq(PaymentType), NEW p \in PaymentType
  PROVE  /\ ReadSum(Append(s, p)) = ReadSum(s) + p.read
         /\ WriteSum(Append(s, p)) = WriteSum(s) + p.write
<1> DEFINE t == Append(s, p)
           n == Len(s)
<1>1. /\ t \in Seq(PaymentType) /\ Len(t) = n + 1 /\ n \in Nat /\ n + 1 \in 1 .. n + 1
      /\ (n + 1) - 1 = n /\ t[n + 1] = p /\ \A i \in 1 .. n : t[i] = s[i]
  OBVIOUS
<1> HIDE DEF t, n
<1>2. /\ \A i \in 1 .. n + 1 : Reads(t)[i] \in Int /\ Writes(t)[i] \in Int
      /\ \A i \in 1 .. n : Reads(s)[i] \in Int /\ Writes(s)[i] \in Int
  BY <1>1, SumsNat DEF n
<1>3. Reads(t)[n + 1] = p.read /\ Writes(t)[n + 1] = p.write
  BY <1>1 DEF Reads, Writes
<1>4. \A i \in 1 .. n : Reads(t)[i] = Reads(s)[i] /\ Writes(t)[i] = Writes(s)[i]
  BY <1>1 DEF Reads, Writes, n
<1> DEFINE a == Reads(t)
           b == Writes(t)
           m == n + 1
<1> HIDE DEF a, b, m
<1>5. Sum(a, m) = Sum(a, n) + p.read /\ Sum(b, m) = Sum(b, n) + p.write
  <2>1. /\ m \in Nat /\ m \in 1 .. m /\ m - 1 = n /\ a[m] = p.read /\ b[m] = p.write
        /\ (\A i \in 1 .. m : a[i] \in Int) /\ (\A i \in 1 .. m : b[i] \in Int)
    BY <1>1, <1>2, <1>3 DEF a, b, m
  <2>2. Sum(a, m) = Sum(a, m - 1) + a[m]
    BY <2>1, SumStep, Zenon
  <2>3. Sum(b, m) = Sum(b, m - 1) + b[m]
    BY <2>1, SumStep, Zenon
  <2> QED BY <2>1, <2>2, <2>3
<1>6. Sum(Reads(t), n + 1) = Sum(Reads(t), n) + p.read
      /\ Sum(Writes(t), n + 1) = Sum(Writes(t), n) + p.write
  BY <1>5 DEF a, b, m
<1>7. Sum(Reads(s), n) = Sum(Reads(t), n) /\ Sum(Writes(s), n) = Sum(Writes(t), n)
  BY <1>1, <1>2, <1>4, SumSame, Zenon
<1> QED BY <1>1, <1>6, <1>7 DEF ReadSum, WriteSum, t, n

\* t is s without its i-th payment.
LEMMA SumsWithout ==
  ASSUME NEW s \in Seq(PaymentType), NEW i \in 1 .. Len(s), NEW t \in Seq(PaymentType),
         Len(t) = Len(s) - 1, \A j \in 1 .. Len(s) - 1 : t[j] = s[IF j < i THEN j ELSE j + 1]
  PROVE  /\ ReadSum(t) = ReadSum(s) - s[i].read
         /\ WriteSum(t) = WriteSum(s) - s[i].write
<1> DEFINE n == Len(s)
<1>1. /\ n \in Nat /\ i \in 1 .. n /\ Len(t) = n - 1
      /\ \A j \in 1 .. n : Reads(s)[j] \in Int /\ Writes(s)[j] \in Int
  BY SumsNat
<1>2. Reads(s)[i] = s[i].read /\ Writes(s)[i] = s[i].write
  BY DEF Reads, Writes
<1>3. ASSUME NEW j \in 1 .. n - 1
      PROVE  /\ Reads(t)[j] = Reads(s)[IF j < i THEN j ELSE j + 1]
             /\ Writes(t)[j] = Writes(s)[IF j < i THEN j ELSE j + 1]
  <2> DEFINE k == IF j < i THEN j ELSE j + 1
  <2>1. k \in 1 .. Len(s) /\ j \in 1 .. Len(t) /\ t[j] = s[k]
    BY <1>1
  <2> HIDE DEF k
  <2>2. Reads(t)[j] = Reads(s)[k] /\ Writes(t)[j] = Writes(s)[k]
    BY <2>1 DEF Reads, Writes
  <2> QED BY <2>2 DEF k
<1> HIDE DEF n
<1>4. Sum(Reads(t), n - 1) = Sum(Reads(s), n) - Reads(s)[i]
  BY <1>1, <1>3, SumWithout, ZenonT(30)
<1>5. Sum(Writes(t), n - 1) = Sum(Writes(s), n) - Writes(s)[i]
  BY <1>1, <1>3, SumWithout, ZenonT(30)
<1> QED BY <1>1, <1>2, <1>4, <1>5 DEF ReadSum, WriteSum, n

\* One payment of a sequence is no more than all of them.
LEMMA PartOfSum ==
  ASSUME NEW s \in Seq(PaymentType), NEW i \in 1 .. Len(s)
  PROVE  s[i].read <= ReadSum(s) /\ s[i].write <= WriteSum(s)
<1>1. /\ Without(s, i) \in Seq(PaymentType) /\ Len(Without(s, i)) = Len(s) - 1
      /\ \A j \in 1 .. Len(s) - 1 : Without(s, i)[j] = s[IF j < i THEN j ELSE j + 1]
  BY WithoutIth
<1>2. /\ ReadSum(Without(s, i)) = ReadSum(s) - s[i].read
      /\ WriteSum(Without(s, i)) = WriteSum(s) - s[i].write
  <2> DEFINE t == Without(s, i)
  <2>1. /\ t \in Seq(PaymentType) /\ Len(t) = Len(s) - 1
        /\ \A j \in 1 .. Len(s) - 1 : t[j] = s[IF j < i THEN j ELSE j + 1]
    BY <1>1
  <2> HIDE DEF t
  <2>2. ReadSum(t) = ReadSum(s) - s[i].read /\ WriteSum(t) = WriteSum(s) - s[i].write
    BY <2>1, SumsWithout
  <2> QED BY <2>2 DEF t
<1>3. /\ ReadSum(Without(s, i)) \in Nat /\ WriteSum(Without(s, i)) \in Nat
      /\ ReadSum(s) \in Nat /\ WriteSum(s) \in Nat
  BY <1>1, SumsNat
<1>4. s[i].read \in Nat /\ s[i].write \in Nat
  <2>1. s[i] \in PaymentType
    OBVIOUS
  <2> QED BY <2>1 DEF PaymentType
<1> QED BY <1>2, <1>3, <1>4, SMTT(30)


-----------------------------------------------------------------------------
\* What is in flight, counted.
Counted ==
    /\ inflight.read = ReadSum(payments) + ReadSum(added)
    /\ inflight.write = WriteSum(payments) + WriteSum(added)

\* Tor never lets a count fall below -CIRCWINDOW_INCREMENT.
Floor == payed.read >= -CIRCWINDOW_INCREMENT /\ payed.write >= -CIRCWINDOW_INCREMENT

\* Every payment in progress is a single one and covers a direction, and no two of
\* them the same.
Few ==
    /\ \A i \in 1 .. Len(payments) :
          payments[i].n = 1 /\ (ForRead(payments[i]) \/ ForWrite(payments[i]))
    /\ \A i, j \in 1 .. Len(payments) : i # j =>
          /\ ~(ForRead(payments[i]) /\ ForRead(payments[j]))
          /\ ~(ForWrite(payments[i]) /\ ForWrite(payments[j]))

RefillInv == IInv /\ Counted /\ Floor /\ (Proportions => Few)

\* A new circuit satisfies RefillInv.
LEMMA RefillInit == Init => RefillInv
<1> SUFFICES ASSUME Init PROVE RefillInv
  OBVIOUS
<1>1. IInv
  BY InitIInv
<1>2. payments = <<>> /\ added = <<>> /\ inflight.read = 0 /\ inflight.write = 0
  BY DEF Init
<1>3. ReadSum(<<>>) = 0 /\ WriteSum(<<>>) = 0
  <2> DEFINE a == Reads(<<>>)
             b == Writes(<<>>)
  <2> HIDE DEF a, b
  <2>1. Sum(a, 0) = 0
    BY SumStep
  <2>2. Sum(b, 0) = 0
    BY SumStep
  <2>3. Len(<<>>) = 0
    OBVIOUS
  <2> QED BY <2>1, <2>2, <2>3 DEF ReadSum, WriteSum, a, b
<1>4. Counted
  BY <1>2, <1>3 DEF Counted
<1>5. Floor
  <2>1. CELLS_PER_PAYMENT \div 2 \in Nat /\ 2 * (CELLS_PER_PAYMENT \div 2) <= CELLS_PER_PAYMENT
    BY SizeAssumption, Quotient
  <2> DEFINE h == CELLS_PER_PAYMENT \div 2
  <2>2. /\ payed.read = CIRCWINDOW_START + h
        /\ payed.write = CIRCWINDOW_START + CELLS_PER_PAYMENT - h
    BY DEF Init
  <2>3. h \in Nat /\ 2 * h <= CELLS_PER_PAYMENT
    BY <2>1
  <2> HIDE DEF h
  <2> QED BY <2>2, <2>3, SizeAssumption, RefillAssumption DEF Floor
<1>6. Few
  BY <1>2 DEF Few
<1> QED BY <1>1, <1>4, <1>5, <1>6 DEF RefillInv

\* What can be missing in a direction, and what it says of the payments in flight.
LEMMA MissingBound ==
  ASSUME NEW x \in Int, NEW y \in Nat, x >= -CIRCWINDOW_INCREMENT
  PROVE  /\ Missing((x + y) * BYTES_PER_CELL) \in Nat
         /\ Missing((x + y) * BYTES_PER_CELL) <= Level
         /\ Missing((x + y) * BYTES_PER_CELL) > 0 => y * BYTES_PER_CELL < Level
<1> DEFINE B == BYTES_PER_CELL
           I == CIRCWINDOW_INCREMENT
           z == (x + y) * B
           IB == I * B
           yB == y * B
<1>1. /\ B \in Nat /\ I \in Nat /\ LOW_PAR_BYTES \in Nat
  BY SizeAssumption, RefillAssumption
<1>2. z \in Int /\ IB \in Nat /\ yB \in Nat /\ z >= yB - IB
  <2> HIDE DEF B, I
  <2>1. z \in Int /\ IB \in Nat /\ yB \in Nat
    BY <1>1, Z3
  <2>2. (y - I) * B <= (x + y) * B
    BY <1>1, Monotone DEF I
  <2>3. (y - I) * B = yB - IB
    BY <1>1, Z3
  <2> QED BY <2>1, <2>2, <2>3
<1>3. Level = LOW_PAR_BYTES + IB
  BY DEF Level
<1> HIDE DEF z, IB, yB
<1>4. /\ Missing(z) \in Nat /\ Missing(z) <= Level /\ (Missing(z) > 0 => yB < Level)
  BY <1>1, <1>2, <1>3 DEF Missing
<1> QED BY <1>4 DEF z, yB


\* token_level_event: the direction that is missing something has no payment in
\* flight, and gets one.
LEMMA LevelsStep ==
  ASSUME RefillInv, TokenLevels
  PROVE  RefillInv'
<1> DEFINE r == MissingRead
           w == MissingWrite
           p == Payment(r, w)
           n == Len(payments)
<1>1. /\ payments \in Seq(PaymentType) /\ added \in Seq(PaymentType) /\ n \in Nat
      /\ inflight.read \in Int /\ inflight.write \in Int /\ payed.read \in Int /\ payed.write \in Int
  BY DEF RefillInv, IInv, TypeOK
<1>2. ReadSum(payments) \in Nat /\ WriteSum(payments) \in Nat
      /\ ReadSum(added) \in Nat /\ WriteSum(added) \in Nat
  BY <1>1, SumsNat, Zenon
<1>3. /\ inflight.read = ReadSum(payments) + ReadSum(added)
      /\ inflight.write = WriteSum(payments) + WriteSum(added)
      /\ payed.read >= -CIRCWINDOW_INCREMENT /\ payed.write >= -CIRCWINDOW_INCREMENT
  BY DEF RefillInv, Counted, Floor
<1>4. /\ r \in Nat /\ r <= Level /\ (r > 0 => inflight.read * BYTES_PER_CELL < Level)
      /\ w \in Nat /\ w <= Level /\ (w > 0 => inflight.write * BYTES_PER_CELL < Level)
  <2>1. inflight.read \in Nat /\ inflight.write \in Nat
    BY <1>2, <1>3
  <2> QED BY <1>1, <1>3, <2>1, MissingBound, Zenon DEF MissingRead, MissingWrite
<1>5. r + w > 0 /\ Start(p)
  BY DEF TokenLevels
<1>6. p \in PaymentType
  BY <1>4, PaymentExact
<1>7. /\ payments' = Append(payments, p) /\ added' = added /\ payed' = payed
      /\ inflight'.read = inflight.read + p.read /\ inflight'.write = inflight.write + p.write
  BY <1>5 DEF Start
<1>8. IInv'
  BY StartIInv DEF RefillInv
<1> HIDE DEF r, w, p, n
<1>9. Counted'
  <2>1. /\ ReadSum(payments') = ReadSum(payments) + p.read
        /\ WriteSum(payments') = WriteSum(payments) + p.write
    BY <1>1, <1>6, <1>7, SumsAppend
  <2>2. p.read \in Nat /\ p.write \in Nat
    BY <1>6 DEF PaymentType
  <2>3. ReadSum(added') = ReadSum(added) /\ WriteSum(added') = WriteSum(added)
    BY <1>7
  <2> QED BY <1>2, <1>3, <1>7, <2>1, <2>2, <2>3, SMTT(30) DEF Counted
<1>10. Floor'
  BY <1>7 DEF RefillInv, Floor
<1>11. ASSUME Proportions PROVE Few'
  <2>1. Few
    BY <1>11 DEF RefillInv
  <2>2. /\ p.n = 1 /\ (r > 0 => ForRead(p)) /\ (w > 0 => ForWrite(p))
        /\ (r = 0 /\ w > 0 => ~ForRead(p)) /\ (w = 0 /\ r > 0 => ~ForWrite(p))
    BY <1>4, <1>11, Share DEF p
  <2>3. ASSUME NEW i \in 1 .. n PROVE /\ r > 0 => ~ForRead(payments[i])
                                      /\ w > 0 => ~ForWrite(payments[i])
    <3> DEFINE x == payments[i].read
               y == payments[i].write
               f == inflight.read
               g == inflight.write
    <3>1. x \in Nat /\ y \in Nat
      <4>1. payments[i] \in PaymentType
        BY <1>1 DEF n
      <4> QED BY <4>1 DEF PaymentType
    <3>2. x <= ReadSum(payments) /\ y <= WriteSum(payments)
      BY <1>1, PartOfSum DEF n
    <3>0. f = ReadSum(payments) + ReadSum(added) /\ g = WriteSum(payments) + WriteSum(added)
      BY <1>3
    <3> HIDE DEF x, y, f, g
    <3>3. x <= f /\ y <= g /\ f \in Int /\ g \in Int
      BY <1>2, <3>0, <3>1, <3>2
    <3>4. x * BYTES_PER_CELL <= f * BYTES_PER_CELL /\ y * BYTES_PER_CELL <= g * BYTES_PER_CELL
      BY <3>1, <3>3, SizeAssumption, Monotone
    <3>5. /\ x * BYTES_PER_CELL \in Int /\ f * BYTES_PER_CELL \in Int
          /\ y * BYTES_PER_CELL \in Int /\ g * BYTES_PER_CELL \in Int
      BY <3>1, <3>3, SizeAssumption, Z3
    <3>6. /\ r > 0 => f * BYTES_PER_CELL < Level
          /\ w > 0 => g * BYTES_PER_CELL < Level
      BY <1>4 DEF f, g
    <3>7. /\ r > 0 => ~(x * BYTES_PER_CELL >= Level)
          /\ w > 0 => ~(y * BYTES_PER_CELL >= Level)
      BY <3>4, <3>5, <3>6, LevelNat
    <3> QED BY <3>7 DEF ForRead, ForWrite, x, y
  <2>4. /\ Len(payments') = n + 1 /\ payments'[n + 1] = p
        /\ \A i \in 1 .. n : payments'[i] = payments[i]
    BY <1>1, <1>6, <1>7 DEF n
  <2>5. (r > 0 \/ w > 0) /\ (r = 0 \/ r > 0) /\ (w = 0 \/ w > 0)
    BY <1>4, <1>5
  <2>6. \A i \in 1 .. n + 1 : i \in 1 .. n \/ i = n + 1
    BY <1>1
  <2>7. \A i \in 1 .. Len(payments') :
           payments'[i].n = 1 /\ (ForRead(payments'[i]) \/ ForWrite(payments'[i]))
    BY <2>1, <2>2, <2>4, <2>5, <2>6, Zenon DEF Few, n
  <2>8. \A i \in 1 .. n : ~(ForRead(p) /\ ForRead(payments[i])) /\ ~(ForWrite(p) /\ ForWrite(payments[i]))
    BY <2>2, <2>3, <2>5, Zenon
  <2>9. ASSUME NEW i \in 1 .. n + 1, NEW j \in 1 .. n + 1, i # j
        PROVE  /\ ~(ForRead(payments'[i]) /\ ForRead(payments'[j]))
               /\ ~(ForWrite(payments'[i]) /\ ForWrite(payments'[j]))
    <3>1. CASE i \in 1 .. n /\ j \in 1 .. n
      BY <2>1, <2>4, <2>9, <3>1, Zenon DEF Few, n
    <3>2. CASE i = n + 1 /\ j \in 1 .. n
      BY <2>4, <2>8, <3>2, Zenon
    <3>3. CASE j = n + 1 /\ i \in 1 .. n
      BY <2>4, <2>8, <3>3, Zenon
    <3> QED BY <2>6, <2>9, <3>1, <3>2, <3>3, Zenon
  <2> QED BY <2>4, <2>7, <2>9, Zenon DEF Few
<1> QED BY <1>8, <1>9, <1>10, <1>11 DEF RefillInv


\* ADDTOKENS: a payment goes from those in progress to those that Tor knows.
LEMMA AddTokensStep ==
  ASSUME RefillInv, NEW i \in 1 .. Len(payments), AddTokens(i)
  PROVE  RefillInv'
<1> DEFINE p == payments[i]
<1>1. /\ payments \in Seq(PaymentType) /\ added \in Seq(PaymentType) /\ p \in PaymentType
      /\ payed.read \in Int /\ payed.write \in Int
  BY DEF RefillInv, IInv, TypeOK
<1>2. p.read \in Nat /\ p.write \in Nat
  BY <1>1, Zenon DEF PaymentType
<1>3. /\ payments' \in Seq(PaymentType) /\ Len(payments') = Len(payments) - 1
      /\ \A j \in 1 .. Len(payments) - 1 : payments'[j] = payments[IF j < i THEN j ELSE j + 1]
  <2>1. payments' = Without(payments, i)
    BY DEF AddTokens
  <2> QED BY <1>1, <2>1, WithoutIth, Zenon
<1>4. added' = Append(added, p) /\ inflight' = inflight
  BY DEF AddTokens
<1>5. IInv'
  BY AddTokensIInv DEF RefillInv
<1>6. Counted'
  <2>1. /\ ReadSum(payments') = ReadSum(payments) - p.read
        /\ WriteSum(payments') = WriteSum(payments) - p.write
    BY <1>1, <1>3, SumsWithout, Zenon
  <2> HIDE DEF p
  <2>2. /\ ReadSum(added') = ReadSum(added) + p.read
        /\ WriteSum(added') = WriteSum(added) + p.write
    BY <1>1, <1>4, SumsAppend
  <2>3. ReadSum(payments) \in Nat /\ WriteSum(payments) \in Nat
        /\ ReadSum(added) \in Nat /\ WriteSum(added) \in Nat
    BY <1>1, SumsNat, Zenon
  <2>4. /\ inflight.read = ReadSum(payments) + ReadSum(added)
        /\ inflight.write = WriteSum(payments) + WriteSum(added)
    BY DEF RefillInv, Counted
  <2> QED BY <1>2, <1>4, <2>1, <2>2, <2>3, <2>4, SMTT(30) DEF Counted
<1>7. Floor'
  <2>1. payed.read >= -CIRCWINDOW_INCREMENT /\ payed.write >= -CIRCWINDOW_INCREMENT
    BY DEF RefillInv, Floor
  <2>2. \/ payed' = payed
        \/ payed' = [read |-> payed.read + p.read, write |-> payed.write + p.write]
    BY DEF AddTokens
  <2>3. payed'.read >= payed.read /\ payed'.write >= payed.write
        /\ payed'.read \in Int /\ payed'.write \in Int
    <3> HIDE DEF p
    <3> QED BY <1>1, <1>2, <2>2
  <2> QED BY <1>1, <2>1, <2>3, RefillAssumption DEF Floor
<1>8. ASSUME Few PROVE Few'
  <2> DEFINE k(j) == IF j < i THEN j ELSE j + 1
  <2>1. Len(payments) \in Nat /\ i \in 1 .. Len(payments)
    BY <1>1
  <2>2. /\ \A j \in 1 .. Len(payments') : k(j) \in 1 .. Len(payments) /\ payments'[j] = payments[k(j)]
        /\ \A j, l \in 1 .. Len(payments') : j # l => k(j) # k(l)
    BY <1>3, <2>1
  <2> HIDE DEF k
  <2> QED BY <1>8, <2>2, ZenonT(30) DEF Few
<1> QED BY <1>5, <1>6, <1>7, <1>8, Zenon DEF RefillInv

\* _add_tokens_callback
LEMMA TokensAddedStep ==
  ASSUME RefillInv, TokensAdded
  PROVE  RefillInv'
<1> DEFINE p == added[1]
<1>1. /\ payments \in Seq(PaymentType) /\ added \in Seq(PaymentType) /\ added # <<>>
      /\ inflight.read \in Int /\ inflight.write \in Int
  BY DEF RefillInv, IInv, TypeOK, TokensAdded
<1>2. 1 \in 1 .. Len(added) /\ p \in PaymentType
  BY <1>1
<1>3. /\ added' = Tail(added) /\ payments' = payments /\ payed' = payed
      /\ inflight'.read = inflight.read - p.read /\ inflight'.write = inflight.write - p.write
  BY DEF TokensAdded
<1>4. /\ added' \in Seq(PaymentType) /\ Len(added') = Len(added) - 1
      /\ \A j \in 1 .. Len(added) - 1 : added'[j] = added[IF j < 1 THEN j ELSE j + 1]
  BY <1>1, <1>2, <1>3
<1>5. p.read \in Nat /\ p.write \in Nat
  BY <1>2 DEF PaymentType
<1>6. IInv'
  BY NextIInv DEF RefillInv, Next
<1>7. Counted'
  <2>1. ReadSum(added') = ReadSum(added) - p.read /\ WriteSum(added') = WriteSum(added) - p.write
    BY <1>1, <1>2, <1>4, SumsWithout
  <2>2. ReadSum(payments) \in Nat /\ WriteSum(payments) \in Nat
        /\ ReadSum(added) \in Nat /\ WriteSum(added) \in Nat
    BY <1>1, SumsNat, Zenon
  <2>3. /\ inflight.read = ReadSum(payments) + ReadSum(added)
        /\ inflight.write = WriteSum(payments) + WriteSum(added)
    BY DEF RefillInv, Counted
  <2>4. ReadSum(payments') = ReadSum(payments) /\ WriteSum(payments') = WriteSum(payments)
    BY <1>3
  <2> HIDE DEF p
  <2> QED BY <1>3, <1>5, <2>1, <2>2, <2>3, <2>4 DEF Counted
<1>8. Floor'
  BY <1>3 DEF RefillInv, Floor
<1>9. ASSUME Few PROVE Few'
  BY <1>3, <1>9 DEF Few
<1> QED BY <1>6, <1>7, <1>8, <1>9, Zenon DEF RefillInv

\* A cell uses up what was paid, down to the floor.
LEMMA CellStep ==
  ASSUME RefillInv, ReadCell \/ WriteCell \/ UNCHANGED vars
  PROVE  RefillInv'
<1>1. payments' = payments /\ added' = added /\ inflight' = inflight
  BY DEF ReadCell, WriteCell, vars
<1>2. IInv'
  BY NextIInv DEF RefillInv, Next
<1>3. Counted'
  BY <1>1 DEF RefillInv, Counted
<1>4. Floor'
  <2>1. payed.read \in Int /\ payed.write \in Int /\ payed \in [read : Int, write : Int]
    BY DEF RefillInv, IInv, TypeOK
  <2>2. payed.read >= -CIRCWINDOW_INCREMENT /\ payed.write >= -CIRCWINDOW_INCREMENT
    BY DEF RefillInv, Floor
  <2>3. CASE ReadCell
    BY <2>1, <2>2, <2>3, RefillAssumption DEF ReadCell, Floor
  <2>4. CASE WriteCell
    BY <2>1, <2>2, <2>4, RefillAssumption DEF WriteCell, Floor
  <2>5. CASE UNCHANGED vars
    BY <2>2, <2>5 DEF vars, Floor
  <2> QED BY <2>3, <2>4, <2>5
<1>5. ASSUME Few PROVE Few'
  BY <1>1, <1>5 DEF Few
<1> QED BY <1>2, <1>3, <1>4, <1>5, Zenon DEF RefillInv

\* RefillInv holds in every state.
LEMMA AlwaysRefillInv == Spec => []RefillInv
<1>1. Init => RefillInv
  BY RefillInit
<1>2. RefillInv /\ [Next]_vars => RefillInv'
  <2> SUFFICES ASSUME RefillInv, [Next]_vars PROVE RefillInv'
    OBVIOUS
  <2>1. CASE ReadCell \/ WriteCell \/ UNCHANGED vars
    BY <2>1, CellStep
  <2>2. CASE TokenLevels
    BY <2>2, LevelsStep
  <2>3. CASE TokensAdded
    BY <2>3, TokensAddedStep
  <2>4. CASE \E i \in 1 .. Len(payments) : AddTokens(i)
    BY <2>4, AddTokensStep
  <2> QED BY <2>1, <2>2, <2>3, <2>4 DEF Next
<1> QED BY <1>1, <1>2, PTL DEF Spec


-----------------------------------------------------------------------------
\* The recursive sums of the two properties are these sums.
LEMMA CountedIsSum ==
  ASSUME TypeOK, Counted
  PROVE  InflightIsSum
<1> DEFINE all == payments \o added
           n == Len(all)
           zero == [read |-> 0, write |-> 0]
           sum[i \in 0 .. n] ==
             IF i = 0 THEN zero
             ELSE [read |-> sum[i - 1].read + all[i].read, write |-> sum[i - 1].write + all[i].write]
           R == Reads(all)
           W == Writes(all)
           good == [i \in 0 .. n |-> [read |-> Sum(R, i), write |-> Sum(W, i)]]
<1>1. /\ payments \in Seq(PaymentType) /\ added \in Seq(PaymentType) /\ all \in Seq(PaymentType)
      /\ n = Len(payments) + Len(added) /\ n \in Nat /\ Len(payments) \in Nat /\ Len(added) \in Nat
      /\ \A i \in 1 .. Len(payments) : all[i] = payments[i]
      /\ \A i \in 1 .. Len(added) : all[Len(payments) + i] = added[i]
  BY DEF TypeOK
<1> HIDE DEF all
<1>2. /\ \A i \in 1 .. n : R[i] \in Int /\ W[i] \in Int
      /\ \A i \in 1 .. n : R[i] = all[i].read /\ W[i] = all[i].write
  <2>1. \A i \in 1 .. Len(all) : Reads(all)[i] \in Nat /\ Writes(all)[i] \in Nat
    BY <1>1, SumsNat, Zenon
  <2>2. \A i \in 1 .. Len(all) : Reads(all)[i] = all[i].read /\ Writes(all)[i] = all[i].write
    BY DEF Reads, Writes
  <2> QED BY <2>1, <2>2
<1>3. /\ Sum(R, 0) = 0 /\ \A m \in 1 .. n : Sum(R, m) = Sum(R, m - 1) + R[m]
      /\ Sum(W, 0) = 0 /\ \A m \in 1 .. n : Sum(W, m) = Sum(W, m - 1) + W[m]
  <2>1. (\A i \in 1 .. n : R[i] \in Int) /\ (\A i \in 1 .. n : W[i] \in Int) /\ n \in Nat
    BY <1>1, <1>2
  <2> HIDE DEF R, W, n
  <2> QED BY <2>1, SumStep, Zenon
<1> HIDE DEF R, W, n
<1> DEFINE F(f) == [i \in 0 .. n |->
                      IF i = 0 THEN zero
                      ELSE [read |-> f[i - 1].read + all[i].read, write |-> f[i - 1].write + all[i].write]]
<1>4. good = F(good)
  <2> SUFFICES ASSUME NEW i \in 0 .. n
               PROVE  good[i] = IF i = 0 THEN zero
                                ELSE [read  |-> good[i - 1].read + all[i].read,
                                      write |-> good[i - 1].write + all[i].write]
    OBVIOUS
  <2>1. CASE i = 0
    BY <1>1, <1>3, <2>1
  <2>2. CASE i \in 1 .. n
    <3>1. i - 1 \in 0 .. n
      BY <1>1, <2>2
    <3>2. good[i - 1].read = Sum(R, i - 1) /\ good[i - 1].write = Sum(W, i - 1)
      BY <3>1
    <3>3. Sum(R, i) = Sum(R, i - 1) + all[i].read /\ Sum(W, i) = Sum(W, i - 1) + all[i].write
      BY <1>2, <1>3, <2>2
    <3> QED BY <1>1, <2>2, <3>2, <3>3
  <2> QED BY <1>1, <2>1, <2>2
<1>5. sum = F(sum)
  <2> HIDE DEF good
  <2>1. \E f : f = F(f)
    BY <1>4, Zenon
  <2> QED BY <2>1, Zenon DEF sum
<1> HIDE DEF sum, good
<1>6. sum[n] = good[n]
  <2> SUFFICES ASSUME sum[n] # good[n] PROVE FALSE
    OBVIOUS
  <2> DEFINE T == {m \in 0 .. n : sum[m] # good[m]}
  <2>1. T \in SUBSET Nat /\ T # {}
    BY <1>1, SMTT(30)
  <2>2. PICK m \in T : \A y \in T : m <= y
    BY <2>1, Least, Zenon
  <2>3. m \in 0 .. n /\ sum[m] # good[m]
    OBVIOUS
  <2>4. m # 0
    BY <1>4, <1>5, <2>3
  <2>5. m - 1 \in 0 .. n /\ m - 1 \notin T
    BY <1>1, <2>2, <2>3, <2>4
  <2>6. sum[m - 1] = good[m - 1]
    BY <2>5, SMTT(30)
  <2>7. /\ sum[m] = [read |-> sum[m - 1].read + all[m].read, write |-> sum[m - 1].write + all[m].write]
        /\ good[m] = [read |-> good[m - 1].read + all[m].read, write |-> good[m - 1].write + all[m].write]
    BY <1>4, <1>5, <2>3, <2>4, Zenon
  <2> QED BY <2>3, <2>6, <2>7
<1>7. /\ Sum(R, n) = ReadSum(payments) + ReadSum(added)
      /\ Sum(W, n) = WriteSum(payments) + WriteSum(added)
  <2> DEFINE k == Len(payments)
             m == Len(added)
             a == Reads(payments)
             b == Reads(added)
             c == Writes(payments)
             d == Writes(added)
  <2>1. /\ n = k + m /\ k \in Nat /\ m \in Nat
        /\ (\A i \in 1 .. k : a[i] \in Int) /\ (\A i \in 1 .. m : b[i] \in Int)
        /\ (\A i \in 1 .. k : c[i] \in Int) /\ (\A i \in 1 .. m : d[i] \in Int)
    <3>1. /\ \A i \in 1 .. k : a[i] \in Nat /\ c[i] \in Nat
          /\ \A i \in 1 .. m : b[i] \in Nat /\ d[i] \in Nat
      BY <1>1, SumsNat, Zenon
    <3>2. n = k + m /\ k \in Nat /\ m \in Nat
      BY <1>1
    <3> HIDE DEF k, m, a, b, c, d
    <3> QED BY <3>1, <3>2
  <2>2. /\ (\A i \in 1 .. k : R[i] = a[i]) /\ (\A i \in 1 .. m : R[k + i] = b[i])
        /\ (\A i \in 1 .. k : W[i] = c[i]) /\ (\A i \in 1 .. m : W[k + i] = d[i])
    <3>1. /\ \A i \in 1 .. k : i \in 1 .. n
          /\ \A i \in 1 .. m : k + i \in 1 .. n
      BY <1>1
    <3> QED BY <1>1, <1>2, <3>1, Zenon DEF Reads, Writes
  <2> HIDE DEF k, m, a, b, c, d
  <2>3. Sum(R, k + m) = Sum(a, k) + Sum(b, m)
    <3>1. /\ k \in Nat /\ m \in Nat
          /\ (\A i \in 1 .. k : a[i] \in Int) /\ (\A i \in 1 .. m : b[i] \in Int)
          /\ (\A i \in 1 .. k : R[i] = a[i]) /\ (\A i \in 1 .. m : R[k + i] = b[i])
      BY <2>1, <2>2, Zenon
    <3> QED BY <3>1, SumConcat
  <2>4. Sum(W, k + m) = Sum(c, k) + Sum(d, m)
    <3>1. /\ k \in Nat /\ m \in Nat
          /\ (\A i \in 1 .. k : c[i] \in Int) /\ (\A i \in 1 .. m : d[i] \in Int)
          /\ (\A i \in 1 .. k : W[i] = c[i]) /\ (\A i \in 1 .. m : W[k + i] = d[i])
      BY <2>1, <2>2, Zenon
    <3> QED BY <3>1, SumConcat
  <2> QED BY <2>1, <2>3, <2>4 DEF ReadSum, WriteSum, k, m, a, b, c, d
<1>8. inflight = good[n]
  <2>1. good[n] = [read |-> Sum(R, n), write |-> Sum(W, n)]
    BY <1>1 DEF good
  <2>2. inflight = [read |-> inflight.read, write |-> inflight.write]
    BY DEF TypeOK
  <2> QED BY <1>7, <2>1, <2>2 DEF Counted
<1>9. inflight = sum[n]
  BY <1>6, <1>8
<1> QED BY <1>9, Zenon DEF InflightIsSum, sum, n, all

\* Merchants that hand out few tokens have enough of them.
LEMMA FewIsEnough ==
  ASSUME TypeOK, Proportions, Few
  PROVE  EnoughMerchantTokens
<1> DEFINE n == Len(payments)
           coins[i \in 0 .. n] == IF i = 0 THEN 0 ELSE coins[i - 1] + payments[i].n
           F(f) == [i \in 0 .. n |-> IF i = 0 THEN 0 ELSE f[i - 1] + payments[i].n]
           good == [i \in 0 .. n |-> i]
<1>1. n \in Nat /\ \A i \in 1 .. n : payments[i].n = 1
  BY DEF TypeOK, Few
<1>2. good = F(good)
  <2> HIDE DEF n
  <2> QED BY <1>1
<1>3. coins = F(coins)
  <2> HIDE DEF n, good
  <2>1. \E f : f = F(f)
    BY <1>2, Zenon
  <2> QED BY <2>1, Zenon DEF coins
<1> HIDE DEF coins, n, good
<1>4. coins[n] = good[n]
  <2> SUFFICES ASSUME coins[n] # good[n] PROVE FALSE
    OBVIOUS
  <2> DEFINE T == {m \in 0 .. n : coins[m] # good[m]}
  <2>1. T \in SUBSET Nat /\ T # {}
    BY <1>1
  <2>2. PICK m \in T : \A y \in T : m <= y
    BY <2>1, Least, Zenon
  <2>3. m \in 0 .. n /\ coins[m] # good[m]
    OBVIOUS
  <2>4. m # 0
    BY <1>2, <1>3, <2>3
  <2>5. m - 1 \in 0 .. n /\ m - 1 \notin T
    BY <1>1, <2>2, <2>3, <2>4
  <2>6. coins[m - 1] = good[m - 1]
    BY <2>5
  <2>7. coins[m] = coins[m - 1] + payments[m].n /\ good[m] = good[m - 1] + payments[m].n
    BY <1>2, <1>3, <2>3, <2>4, Zenon
  <2> QED BY <2>3, <2>6, <2>7
<1>5. n <= 2
  <2> SUFFICES ASSUME n > 2 PROVE FALSE
    BY <1>1
  <2>1. 1 \in 1 .. n /\ 2 \in 1 .. n /\ 3 \in 1 .. n /\ 1 # 2 /\ 1 # 3 /\ 2 # 3
    BY <1>1
  <2> QED BY <2>1, Zenon DEF Few, n
<1>6. coins[n] <= MAX_MERCHANT_TOKENS
  BY <1>1, <1>4, <1>5, RefillAssumption DEF Proportions, good
<1> QED BY <1>6, Zenon DEF EnoughMerchantTokens, coins, n

\* What refill_payments believes to be in flight is what the payments in progress are
\* for, in every order of receipts and replies and for all constants.
THEOREM InflightIsExact == Spec => []InflightIsSum
<1>1. RefillInv => InflightIsSum
  BY CountedIsSum DEF RefillInv, IInv
<1> QED BY <1>1, AlwaysRefillInv, PTL

\* With the proportions of the code a circuit has at most two payments in progress,
\* one for each direction, so that two merchant tokens suffice and send_payment never
\* has to put a payment off.
THEOREM RefillIsSound == Spec => [](Proportions => RefillSound)
<1>1. RefillInv => (Proportions => RefillSound)
  BY CountedIsSum, FewIsEnough DEF RefillInv, IInv, RefillSound
<1> QED BY <1>1, AlwaysRefillInv, PTL

=============================================================================

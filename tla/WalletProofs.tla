---------------------------- MODULE WalletProofs ----------------------------
(***************************************************************************)
(* The client's wallet, for every set of coins, every level and batch size *)
(* and any number of failures, crashes and intervals: stops, crashes and   *)
(* restarts never confuse the client.                                      *)
(***************************************************************************)
EXTENDS WalletEffects

\* The state of the bank as the client meets it, and the inductive invariant: the
\* client is in a sane state, and its files hold what they have to hold.
BankType == [balance : Nat, redeemed : SUBSET Coins, interval : Nat, msgnum : Nat]
WalletInv == Sane(cl) /\ Filed(cl, files, saving) /\ bank \in BankType

\* A client that starts satisfies WalletInv.
LEMMA WalletInit == Init => WalletInv
<1> SUFFICES ASSUME Init PROVE WalletInv
  OBVIOUS
<1>1. cl = Fresh /\ files = [wallet |-> {}, deposit |-> {}] /\ saving = FALSE
      /\ bank = [balance |-> StartBalance, redeemed |-> {}, interval |-> 1, msgnum |-> 0]
  BY SMTT(30) DEF Init
<1>2. /\ cl \in ClType /\ cl.phase = "off" /\ cl.ACoins = {} /\ cl.depositing = {}
      /\ cl.messageQueue = <<>> /\ cl.conns = {}
      /\ ~cl.requestInProgress /\ ~cl.depositInProgress
  BY <1>1, SMTT(30) DEF Fresh, ClType
<1>3. Wanted(cl) = {} /\ Single(cl, "request")
  BY <1>2, NothingAsked DEF Wanted, Single, Kinds
<1>4. Sane(cl)
  BY <1>2, <1>3, SMTT(30) DEF Sane, Honest, Apart, Blank
<1>5. Filed(cl, files, saving)
  BY <1>1, <1>2, <1>3, Zenon DEF Filed, Kept
<1>6. bank \in BankType
  BY <1>1, WalletAssumption DEF BankType
<1> QED BY <1>4, <1>5, <1>6 DEF WalletInv

\* A step of the client that is work, with the files left alone.
LEMMA WorkStep ==
  ASSUME WalletInv, ~saving, Sane(cl'), Works(cl, cl'), UNCHANGED <<files, saving>>,
         bank' \in BankType
  PROVE  WalletInv'
<1>1. Filed(cl, files, FALSE) /\ saving' = FALSE /\ files' = files
  BY DEF WalletInv, Filed
<1>2. Filed(cl', files, FALSE)
  BY <1>1, FiledWorks, Zenon
<1> QED BY <1>1, <1>2, Zenon DEF WalletInv


\* Logging in.
LEMMA LoginSteps ==
  ASSUME WalletInv, Login \/ LoginClosed \/ LoginFails PROVE WalletInv'
<1>0. Sane(cl) /\ cl \in ClType /\ Filed(cl, files, FALSE) /\ ~saving /\ bank' \in BankType
      /\ UNCHANGED <<files, saving>>
  BY DEF WalletInv, Sane, Filed, Login, LoginClosed, LoginFails
<1>1. CASE Login
  <2>1. cl' = [cl EXCEPT !.phase = "login"] /\ cl.phase = "off"
    BY <1>1 DEF Login
  <2>2. cl' \in ClType /\ cl'.phase = "login" /\ Alike(cl, cl')
    BY <1>0, <2>1 DEF ClType, Alike
  <2>3. Sane(cl') /\ Wanted(cl') = Wanted(cl)
    BY <1>0, <2>1, <2>2, Rephase, Zenon
  <2>4. Filed(cl', files, FALSE)
    BY <1>0, <2>2, <2>3 DEF Filed, Kept, Alike
  <2>5. files' = files /\ saving' = FALSE
    BY <1>0, <2>1, <1>1, ZenonT(30) DEF WalletInv, Login, Filed
  <2> QED BY <1>0, <2>3, <2>4, <2>5, Zenon DEF WalletInv
<1>2. CASE LoginClosed
  <2>1. cl' = MessageDone(cl)
    BY <1>2 DEF LoginClosed
  <2>2. Sane(cl') /\ Works(cl, cl')
    BY <1>0, <2>1, MessageDoneSane
  <2> QED BY <1>0, <2>2, WorkStep
<1>3. CASE LoginFails
  <2> DEFINE v == MessageDone(cl)
             p == IF v.phase = "login" THEN "off" ELSE v.phase
  <2>1. Sane(v) /\ Works(cl, v)
    BY <1>0, MessageDoneSane
  <2>2. cl' = [v EXCEPT !.phase = p]
    BY <1>3, Zenon DEF LoginFails
  <2> HIDE DEF v
  <2>3. v \in ClType /\ Filed(v, files, FALSE)
    BY <1>0, <2>1, FiledWorks, ZenonT(30) DEF Sane
  <2>4. CASE v.phase = "login"
    <3>1. cl' = [v EXCEPT !.phase = "off"]
      BY <2>2, <2>4
    <3>2. cl' \in ClType /\ cl'.phase = "off" /\ Alike(v, cl')
      BY <2>3, <3>1 DEF ClType, Alike
    <3>3. Sane(cl') /\ Wanted(cl') = Wanted(v)
      BY <2>1, <2>4, <3>2, Rephase
    <3>4. Filed(cl', files', saving')
      <4>1. Kept(cl', files)
        BY <2>3, <3>2, <3>3, ZenonT(30) DEF Filed, Kept, Alike
      <4>2. Filed(cl', files, FALSE)
        BY <3>2, <4>1 DEF Filed
      <4>3. files' = files /\ saving' = FALSE
        BY <1>0 DEF WalletInv, Filed
      <4> QED BY <4>2, <4>3, Zenon
    <3> QED BY <1>0, <3>3, <3>4 DEF WalletInv
  <2>5. CASE v.phase # "login"
    <3>0. p = v.phase
      BY <2>5
    <3>1. cl' = v
      <4>1. [v EXCEPT !.phase = v.phase] = v
        BY <2>3 DEF ClType
      <4> HIDE DEF p
      <4> QED BY <2>2, <3>0, <4>1, ZenonT(30)
    <3> QED BY <1>0, <2>1, <3>1, WorkStep
  <2> QED BY <2>4, <2>5
<1> QED BY <1>1, <1>2, <1>3

\* LoginProtocol.stringReceived, with load_coins.
LEMMA LoginAnsweredStep == ASSUME WalletInv, LoginAnswered PROVE WalletInv'
<1> DEFINE known == NewInfo(cl, bank.balance, bank.interval)
           fresh(S) == {c \in S : IntervalOf[c] \in (bank.interval - 1) .. (bank.interval + 1)}
           A == fresh(files.wallet)
           P == fresh(files.deposit)
           B == A # {}
           loaded == [known EXCEPT !.phase = "in", !.ACoins = A, !.depositing = P,
                                   !.coinsChanged = B]
<1>0. /\ Sane(cl) /\ Filed(cl, files, FALSE) /\ ~saving /\ UNCHANGED <<files, saving>>
      /\ bank.balance \in Nat /\ bank.interval \in Nat
  BY DEF WalletInv, Sane, Filed, LoginAnswered, BankType
<1>1. bank' \in BankType
  BY DEF WalletInv, LoginAnswered, BankType
<1>2. cl' = IF cl.phase = "login" THEN CheckWallet(loaded) ELSE known
  BY Zenon DEF LoginAnswered
<1>3. A \in SUBSET files.wallet /\ P \in SUBSET files.deposit /\ B \in BOOLEAN
  OBVIOUS
<1> HIDE DEF A, P, B
<1>4. Sane(known) /\ Informed(cl, bank.balance, bank.interval, known) /\ Works(cl, known)
  <2>1. Sane(known) /\ Informed(cl, bank.balance, bank.interval, known)
    BY <1>0, NewInfoStep
  <2> HIDE DEF known
  <2> QED BY <2>1, InformedWorks
<1> HIDE DEF known
<1>5. CASE cl.phase # "login"
  <2>1. cl' = known
    BY <1>2, <1>5
  <2> QED BY <1>0, <1>1, <1>4, <2>1, WorkStep, SMTT(30)
<1>6. CASE cl.phase = "login"
  <2>1. Filed(known, files, FALSE) /\ known \in ClType /\ known.phase = "login"
    BY <1>0, <1>4, <1>6, FiledWorks, ZenonT(30) DEF Sane, Works
  <2>2. A \in SUBSET Coins /\ P \in SUBSET Coins
    BY <1>3, <2>1 DEF Filed, Kept
  <2>3. /\ loaded \in ClType /\ loaded.phase = "in" /\ loaded.ACoins = A /\ loaded.depositing = P
        /\ loaded.used = known.used /\ loaded.messageQueue = known.messageQueue
        /\ loaded.conns = known.conns /\ loaded.requestInProgress = known.requestInProgress
        /\ loaded.depositInProgress = known.depositInProgress
    BY <1>3, <2>1, <2>2, Zenon DEF ClType
  <2>4. /\ loaded.messageQueue = <<>> /\ loaded.conns = {}
        /\ ~loaded.requestInProgress /\ ~loaded.depositInProgress
    BY <1>4, <2>1, <2>3 DEF Sane, Blank
  <2>5. cl' = CheckWallet(loaded)
    BY <1>2, <1>6
  <2> HIDE DEF loaded
  <2>6. Wanted(loaded) = {} /\ \A K \in Kinds : ~Waits(loaded, K) /\ Single(loaded, K)
    BY <2>4, NothingAsked, Zenon DEF Wanted, Waits, Single
  <2>7. Honest(loaded)
    BY <2>4, <2>6, SMTT(30) DEF Honest, Kinds
  <2>8. Apart(loaded)
    BY <1>3, <2>1, <2>3, <2>6, SMTT(30) DEF Apart, Filed, Kept
  <2>9. Sane(loaded)
    BY <2>3, <2>7, <2>8, SMTT(30) DEF Sane, Blank
  <2>10. Sane(cl') /\ Works(loaded, cl')
    BY <2>5, <2>9, CheckWalletStep, AsksWorks, SMTT(30)
  <2>11. Filed(loaded, files, FALSE)
    BY <1>3, <2>1, <2>3, <2>6, SMTT(30) DEF Filed, Kept
  <2>12. Filed(cl', files, FALSE)
    BY <2>10, <2>11, FiledWorks, ZenonT(30)
  <2>13. saving' = FALSE /\ files' = files
    BY <1>0 DEF Filed
  <2> QED BY <1>1, <2>10, <2>12, <2>13, ZenonT(30) DEF WalletInv
<1> QED BY <1>5, <1>6


\* The timer, payments, earned coins and what else the client does by itself.
LEMMA UpdateTimerStep ==
  ASSUME WalletInv, NEW stale \in BOOLEAN, NEW late \in BOOLEAN, NEW poll \in BOOLEAN,
         UpdateTimer(stale, late, poll)
  PROVE  WalletInv'
<1> DEFINE s == UpdateCoins(cl, stale, late, poll)
<1>0. /\ Sane(cl) /\ Filed(cl, files, FALSE) /\ ~saving /\ bank' \in BankType
      /\ cl.phase \in {"in", "stopping"}
  BY DEF WalletInv, Sane, Filed, UpdateTimer, Idle, LoggedIn
<1>1. SaveIfChanged(s) /\ cl' = [s EXCEPT !.coinsChanged = FALSE]
  BY Zenon DEF UpdateTimer
<1>2. Sane(s) /\ Works(cl, s)
  BY <1>0, UpdateCoinsStep
<1> HIDE DEF s
<1>3. Filed(s, files, FALSE) /\ s \in ClType
  BY <1>0, <1>2, FiledWorks, Zenon DEF Sane
<1>4. /\ cl' \in ClType /\ Poorer(s, cl') /\ cl'.ACoins = s.ACoins
  BY <1>1, <1>3, Zenon DEF ClType, Poorer
<1>5. Sane(cl') /\ Wanted(cl') = Wanted(s)
  BY <1>2, <1>4, SanePoorer
<1>6. Kept(cl', files)
  BY <1>3, <1>4, <1>5 DEF Filed, Kept, Poorer
<1>7. CASE s.coinsChanged
  <2>1. files' = [files EXCEPT !.wallet = {c \in s.ACoins : IntervalOf[c] >= s.interval - 1}]
        /\ saving' = TRUE
    BY <1>1, <1>7 DEF SaveIfChanged, Save
  <2>2. Filed(cl', files', TRUE)
    BY <1>4, <1>5, <1>6, <2>1, SaveStep, ZenonT(30)
  <2> QED BY <1>0, <1>5, <2>1, <2>2, ZenonT(30) DEF WalletInv
<1>8. CASE ~s.coinsChanged
  <2>1. files' = files /\ saving' = FALSE
    BY <1>0, <1>1, <1>8 DEF SaveIfChanged, WalletInv, Filed
  <2>2. Filed(cl', files, FALSE)
    BY <1>3, <1>4, <1>6 DEF Filed, Poorer
  <2> QED BY <1>0, <1>5, <2>1, <2>2, ZenonT(30) DEF WalletInv
<1> QED BY <1>7, <1>8

\* Spending a coin keeps WalletInv.
LEMMA SpendStep == ASSUME WalletInv, NEW late \in BOOLEAN, Spend(late) PROVE WalletInv'
<1> DEFINE S == Oldest(cl, 1, late)
<1>0. /\ Sane(cl) /\ cl \in ClType /\ ~saving /\ bank' \in BankType
      /\ UNCHANGED <<files, saving>>
  BY DEF WalletInv, Sane, Spend, Idle
<1>1. S # {} /\ cl' = CheckWallet(Take(cl, S))
  BY DEF Spend
<1>2. S \in SUBSET cl.ACoins
  BY <1>0, OldestStep
<1> HIDE DEF S
<1>3. cl' = IF S = {} THEN cl ELSE CheckWallet(Take(cl, S))
  BY <1>1
<1>4. Sane(cl') /\ Works(cl, cl')
  BY <1>0, <1>2, <1>3, TakeCheckStep
<1> QED BY <1>0, <1>4, WorkStep, SMTT(30)

\* Earning a coin keeps WalletInv.
LEMMA EarnStep == ASSUME WalletInv, NEW c \in Coins, Earn(c) PROVE WalletInv'
<1> DEFINE A == cl.ACoins \cup {c}
           U == cl.used \cup {c}
<1>0. /\ Sane(cl) /\ cl \in ClType /\ Filed(cl, files, FALSE) /\ ~saving /\ bank' \in BankType
      /\ UNCHANGED <<files, saving>> /\ cl.phase \in {"in", "stopping"} /\ c \notin cl.used
  BY DEF WalletInv, Sane, Filed, Earn, Idle, LoggedIn
<1>1. cl' = [cl EXCEPT !.ACoins = A, !.coinsChanged = TRUE, !.used = U]
  BY Zenon DEF Earn
<1>2. A \in SUBSET Coins /\ U \in SUBSET Coins
  BY <1>0 DEF ClType
<1>3. /\ cl' \in ClType /\ cl'.phase = cl.phase /\ cl'.ACoins = A /\ cl'.used = U
      /\ cl'.depositing = cl.depositing
      /\ cl'.requestInProgress = cl.requestInProgress
      /\ cl'.depositInProgress = cl.depositInProgress
      /\ cl'.messageQueue = cl.messageQueue /\ cl'.conns = cl.conns
  <2> HIDE DEF A, U
  <2> QED BY <1>0, <1>1, <1>2, ZenonT(30) DEF ClType
<1>4. /\ Wanted(cl') = Wanted(cl)
      /\ \A K \in Kinds : (Waits(cl', K) <=> Waits(cl, K)) /\ (Single(cl', K) <=> Single(cl, K))
  BY <1>3, Zenon DEF Wanted, Waits, Single
<1>5. Honest(cl')
  BY <1>0, <1>3, <1>4, ZenonT(30) DEF Sane, Honest, Kinds
<1>6. Apart(cl')
  BY <1>0, <1>3, <1>4 DEF Sane, Apart
<1>7. Blank(cl')
  BY <1>0, <1>3, SMTT(30) DEF Blank
<1>8. Kept(cl', files)
  BY <1>0, <1>3, <1>4, SMTT(30) DEF Filed, Kept
<1>9. Filed(cl', files, FALSE)
  BY <1>0, <1>3, <1>8, SMTT(30) DEF Filed
<1>10. files' = files /\ saving' = FALSE
  BY <1>0 DEF WalletInv, Filed
<1> QED BY <1>0, <1>3, <1>5, <1>6, <1>7, <1>9, <1>10, ZenonT(30) DEF WalletInv, Sane

\* Polling the bank and looking at the coins of the next interval keep WalletInv.
LEMMA PollStep == ASSUME WalletInv, Poll \/ CheckNextACoins PROVE WalletInv'
<1>0. /\ Sane(cl) /\ ~saving /\ bank' \in BankType
      /\ UNCHANGED <<files, saving>> /\ cl.phase \in {"in", "stopping"}
  BY DEF WalletInv, Poll, CheckNextACoins, Idle, LoggedIn
<1>1. CASE Poll
  <2> DEFINE S == {}
  <2>1. ~cl.depositInProgress /\ cl' = Deposit([cl EXCEPT !.depositInProgress = TRUE], S)
        /\ S \in SUBSET cl.used /\ S \cap (cl.ACoins \cup Wanted(cl)) = {}
    BY <1>1 DEF Poll
  <2> HIDE DEF S
  <2>2. Sane(cl') /\ Deposited(cl, S, cl')
    BY <1>0, <2>1, DepositStep
  <2>3. Works(cl, cl')
    BY <2>2 DEF Works, Deposited, S
  <2> QED BY <1>0, <2>2, <2>3, WorkStep
<1>2. CASE CheckNextACoins
  <2>1. cl' = RequestCoins(cl)
    BY <1>2 DEF CheckNextACoins
  <2>2. Sane(cl') /\ Works(cl, cl')
    BY <1>0, <2>1, RequestCoinsStep, AsksWorks, SMTT(30)
  <2> QED BY <1>0, <2>2, WorkStep, SMTT(30)
<1> QED BY <1>1, <1>2


\* A message to the bank.
LEMMA OnTheWayStep ==
  ASSUME WalletInv, NEW k \in cl.conns, ConnectionMade(k) \/ BankAnswers(k) \/ BankRefuses(k)
  PROVE  WalletInv'
<1> DEFINE Fits(j) == Later(k, j) /\ cl' = Moved(cl, k, j)
<1>0. /\ Sane(cl) /\ cl \in ClType /\ Filed(cl, files, saving) /\ bank \in BankType
      /\ k \in ConnType /\ cl.messageNum \in Nat
      /\ bank.balance \in Nat /\ bank.interval \in Nat /\ bank.redeemed \in SUBSET Coins
  BY DEF WalletInv, Sane, ClType, BankType
<1>1. UNCHANGED <<files, saving>>
  BY SMTT(30) DEF ConnectionMade, BankAnswers, BankRefuses
<1>2. CASE ConnectionMade(k)
  <2>1. \E j : Fits(j)
    <3> DEFINE x == [k EXCEPT !.stage = "sent", !.num = cl.messageNum]
               y == [k EXCEPT !.stage = "received"]
    <3>1. Later(k, x) /\ Later(k, y)
      BY <1>0, <1>2, Zenon DEF Later, ConnType, ConnectionMade
    <3>2. cl' = Moved(cl, k, x) \/ cl' = Moved(cl, k, y)
      BY <1>2 DEF ConnectionMade
    <3> HIDE DEF x, y
    <3> QED BY <3>1, <3>2, Zenon
  <2>2. bank' \in BankType
    BY <1>0, <1>2 DEF ConnectionMade
  <2> QED BY <2>1, <2>2, <1>0, <1>1, MovedStep, FiledSame, SMTT(30) DEF WalletInv
<1>3. CASE BankAnswers(k)
  <2> DEFINE ok == {c \in k.coins \ bank.redeemed : IntervalOf[c] \in {bank.interval - 1, bank.interval}}
             n == Cardinality(k.coins)
             o == Cardinality(ok)
             paid == k.kind = "request" /\ n <= bank.balance
             after == bank.balance + (IF k.kind = "deposit" THEN o ELSE IF paid THEN -n ELSE 0)
             z == IF k.kind = "request" /\ ~paid THEN "1" ELSE "0"
             R == IF k.kind = "deposit" THEN bank.redeemed \cup ok ELSE bank.redeemed
             x == [k EXCEPT !.stage = "replied", !.bal = after, !.ivl = bank.interval, !.code = z]
  <2>1. /\ k.stage = "sent" /\ cl' = Moved(cl, k, x) /\ k.num > bank.msgnum
        /\ bank' = [bank EXCEPT !.msgnum = k.num, !.balance = after,
                      !.redeemed = IF k.kind = "deposit" THEN @ \cup ok ELSE @]
    BY <1>3, ZenonT(30) DEF BankAnswers
  <2>2. k.coins \in SUBSET Coins /\ ok \in SUBSET Coins /\ k.num \in Nat /\ R \in SUBSET Coins
    BY <1>0 DEF ConnType
  <2>3. n \in Nat /\ o \in Nat
    <3> HIDE DEF ok
    <3> QED BY <2>2, WalletAssumption, FS_Subset, FS_CardinalityType, SMTT(30)
  <2>4. after \in Nat /\ z \in {"0", "1"}
    <3> HIDE DEF n, o
    <3> QED BY <1>0, <2>3
  <2>5. bank' = [bank EXCEPT !.msgnum = k.num, !.balance = after, !.redeemed = R]
    <3> HIDE DEF after, ok
    <3> QED BY <1>0, <2>1 DEF BankType
  <2> HIDE DEF after, z, ok, R
  <2>6. Later(k, x)
    BY <1>0, <2>1, <2>4, Zenon DEF Later, ConnType
  <2>7. bank' \in BankType
    BY <1>0, <2>2, <2>4, <2>5, ZenonT(30) DEF BankType
  <2> HIDE DEF x
  <2> QED BY <2>1, <2>6, <2>7, <1>0, <1>1, MovedStep, FiledSame DEF WalletInv
<1>4. CASE BankRefuses(k)
  <2> DEFINE x == [k EXCEPT !.stage = "replied", !.code = "error"]
  <2>1. cl' = Moved(cl, k, x) /\ k.stage = "sent"
    BY <1>4 DEF BankRefuses
  <2>2. Later(k, x)
    BY <1>0, <2>1, ZenonT(30) DEF Later, ConnType
  <2>3. bank' \in BankType
    BY <1>0, <1>4 DEF BankRefuses
  <2> HIDE DEF x
  <2> QED BY <2>1, <2>2, <2>3, <1>0, <1>1, MovedStep, FiledSame, SMTT(30) DEF WalletInv
<1> QED BY <1>2, <1>3, <1>4, SMTT(30)

\* ACoinRequestProtocol.stringReceived
LEMMA RequestAnsweredStep ==
  ASSUME WalletInv, NEW k \in cl.conns, RequestAnswered(k) PROVE WalletInv'
<1> DEFINE j == [k EXCEPT !.stage = "received"]
           s == Moved(cl, k, j)
           b == IF k.code = "error" THEN GarbageBalance ELSE k.bal
           got == IF k.code = "0" THEN k.coins ELSE {}
           t == NewBalance(s, b)
<1>0. /\ Sane(cl) /\ cl \in ClType /\ Filed(cl, files, FALSE) /\ ~saving /\ bank' \in BankType
      /\ UNCHANGED <<files, saving>> /\ k \in ConnType /\ k.stage = "replied" /\ k.kind = "request"
  BY DEF WalletInv, Sane, Filed, ClType, RequestAnswered
<1>1. IF LoggedIn(cl)
      THEN cl' = [t EXCEPT !.ACoins = @ \cup got, !.coinsChanged = @ \/ got # {}]
      ELSE cl' = s
  BY Zenon DEF RequestAnswered
<1>2. Later(k, j) /\ j.stage = "received" /\ j.kind = "request"
  BY <1>0 DEF Later, ConnType
<1>3. b \in Nat /\ got \in SUBSET k.coins /\ k.coins \in SUBSET Coins
  BY <1>0, WalletAssumption DEF ConnType, GarbageBalance
<1> HIDE DEF j, b, got
<1>4. /\ Sane(s) /\ Same(cl, s) /\ Wanted(s) = {} /\ k.coins \subseteq Wanted(cl)
      /\ s.conns = (cl.conns \ {k}) \cup {j}
  BY <1>0, <1>2, MovedStep, SMTT(30)
<1> HIDE DEF s
<1>5. Works(cl, s)
  BY <1>4, SameWorks
<1>6. CASE ~LoggedIn(cl)
  BY <1>0, <1>1, <1>4, <1>5, <1>6, WorkStep, SMTT(30)
<1>7. CASE LoggedIn(cl)
  <2>1. Sane(t) /\ Informed(s, b, 0, t)
    BY <1>3, <1>4, NewBalanceStep, SMTT(30)
  <2>2. s.phase = cl.phase /\ s.phase \in {"in", "stopping"}
    BY <1>4, <1>7, SMTT(30) DEF Same, LoggedIn
  <2>3. s.requestInProgress \/ s.phase # "in"
    <3>1. Waits(s, "request")
      BY <1>2, <1>4 DEF Waits, Pend
    <3> QED BY <1>4, <3>1, SMTT(30) DEF Sane, Honest
  <2> HIDE DEF t
  <2>4. /\ t.phase = cl.phase /\ t.depositing = cl.depositing /\ t.ACoins = cl.ACoins
        /\ t.used = cl.used /\ t.messageQueue = s.messageQueue /\ t.conns = s.conns
    <3>1. ~(0 > s.interval)
      BY <1>4 DEF Sane, ClType
    <3> QED BY <1>4, <2>1, <2>3, <3>1, Zenon DEF Informed, Same
  <2>5. Wanted(t) = {}
    BY <1>4, <2>4, ZenonT(30) DEF Wanted
  <2> DEFINE A == cl.ACoins \cup got
             B == t.coinsChanged \/ got # {}
  <2>6. A \in SUBSET Coins /\ B \in BOOLEAN /\ t \in ClType
    BY <1>0, <1>3, <2>1 DEF Sane, ClType
  <2>7. cl' = [t EXCEPT !.ACoins = A, !.coinsChanged = B]
    BY <1>1, <1>7, <2>4, Zenon
  <2> HIDE DEF A, B
  <2>8. /\ cl' \in ClType /\ cl'.phase = t.phase /\ cl'.ACoins = A /\ cl'.used = t.used
        /\ cl'.depositing = t.depositing
        /\ cl'.requestInProgress = t.requestInProgress
        /\ cl'.depositInProgress = t.depositInProgress
        /\ cl'.messageQueue = t.messageQueue /\ cl'.conns = t.conns
    BY <2>6, <2>7, Zenon DEF ClType
  <2>9. /\ Wanted(cl') = {}
        /\ \A K \in Kinds : (Waits(cl', K) <=> Waits(t, K)) /\ (Single(cl', K) <=> Single(t, K))
    BY <2>5, <2>8, Zenon DEF Wanted, Waits, Single
  <2>10. Honest(cl')
    BY <2>1, <2>8, <2>9, Zenon DEF Sane, Honest, Kinds
  <2>11. Apart(cl')
    BY <1>0, <1>3, <1>4, <2>4, <2>8, <2>9, ZenonT(30) DEF Sane, Apart, A
  <2>12. Blank(cl')
    BY <2>2, <2>4, <2>8, SMTT(30) DEF Blank
  <2>13. Kept(cl', files)
    BY <1>0, <1>3, <1>4, <2>4, <2>8, <2>9, SMTT(30) DEF Filed, Kept, A
  <2>14. Filed(cl', files, FALSE)
    BY <1>0, <2>4, <2>8, <2>13, ZenonT(30) DEF Filed
  <2>15. files' = files /\ saving' = FALSE
    BY <1>0, SMTT(30) DEF WalletInv, Filed
  <2> QED BY <1>0, <2>8, <2>10, <2>11, <2>12, <2>14, <2>15, ZenonT(30) DEF WalletInv, Sane
<1> QED BY <1>6, <1>7


\* ACoinDepositProtocol.stringReceived
LEMMA DepositAnsweredStep ==
  ASSUME WalletInv, NEW k \in cl.conns, DepositAnswered(k) PROVE WalletInv'
<1> DEFINE j == [k EXCEPT !.stage = "received", !.got = TRUE]
           s == Moved(cl, k, j)
<1>0. /\ Sane(cl) /\ cl \in ClType /\ ~saving /\ bank' \in BankType
      /\ UNCHANGED <<files, saving>> /\ k \in ConnType
  BY DEF WalletInv, Sane, ClType, DepositAnswered
<1>1. \/ cl' = s
      \/ cl' = NewInfo(s, GarbageBalance, GarbageInterval)
      \/ cl' = NewInfo(s, k.bal, k.ivl)
  BY Zenon DEF DepositAnswered
<1>2. Later(k, j)
  BY <1>0, ZenonT(30) DEF Later, ConnType
<1>3. /\ GarbageBalance \in Nat /\ GarbageInterval \in Nat /\ k.bal \in Nat /\ k.ivl \in Nat
  BY <1>0, WalletAssumption DEF ConnType, GarbageBalance, GarbageInterval
<1> HIDE DEF j
<1>4. Sane(s) /\ Works(cl, s)
  BY <1>0, <1>2, MovedStep, SameWorks
<1> HIDE DEF s
<1>5. CASE cl' = s
  BY <1>0, <1>4, <1>5, WorkStep, SMTT(30)
<1>6. ASSUME NEW b \in Nat, NEW i \in Nat, cl' = NewInfo(s, b, i) PROVE WalletInv'
  <2>1. Sane(cl') /\ Works(s, cl')
    BY <1>4, <1>6, NewInfoStep, InformedWorks, SMTT(30)
  <2>2. Works(cl, cl')
    BY <1>4, <2>1, WorksTrans, SMTT(30)
  <2> QED BY <1>0, <2>1, <2>2, WorkStep, SMTT(30)
<1> QED BY <1>1, <1>3, <1>5, <1>6, SMTT(30)

\* clientConnectionLost and clientConnectionFailed, with _shutdown_success.
LEMMA OverStep ==
  ASSUME WalletInv, NEW k \in cl.conns, ConnectionLost(k) \/ ConnectionFails(k) PROVE WalletInv'
<1> DEFINE t == Done(cl, k)
<1>0. /\ Sane(cl) /\ Filed(cl, files, FALSE) /\ ~saving /\ bank' \in BankType
      /\ ConnectionOver(k)
  BY DEF WalletInv, Filed, ConnectionLost, ConnectionFails
<1>1. IF k.final /\ k.got
      THEN cl' = [t EXCEPT !.phase = "done", !.coinsChanged = FALSE] /\ Save(t)
      ELSE cl' = t /\ UNCHANGED <<files, saving>>
  BY <1>0, Zenon DEF ConnectionOver, Done
<1>2. /\ Sane(t) /\ t.phase = cl.phase /\ t.ACoins = cl.ACoins /\ t.used = cl.used
      /\ t.depositing \subseteq cl.depositing /\ t.interval = cl.interval
      /\ Wanted(t) \subseteq Wanted(cl)
  BY <1>0, DoneStep, SMTT(30)
<1> HIDE DEF t
<1>3. Kept(t, files) /\ t \in ClType
  BY <1>0, <1>2 DEF Filed, Kept, Sane
<1>4. CASE ~(k.final /\ k.got)
  <2>1. cl' = t /\ files' = files /\ saving' = FALSE
    BY <1>0, <1>1, <1>4, SMTT(30) DEF WalletInv, Filed
  <2>2. Filed(t, files, FALSE)
    BY <1>0, <1>2, <1>3 DEF Filed
  <2> QED BY <1>0, <1>2, <2>1, <2>2, Zenon DEF WalletInv
<1>5. CASE k.final /\ k.got
  <2>1. cl' = [t EXCEPT !.phase = "done", !.coinsChanged = FALSE] /\ saving' = TRUE
        /\ files' = [files EXCEPT !.wallet = {c \in t.ACoins : IntervalOf[c] >= t.interval - 1}]
    BY <1>1, <1>5 DEF Save
  <2>2. cl' \in ClType /\ cl'.phase = "done" /\ Alike(t, cl')
    BY <1>3, <2>1, Zenon DEF ClType, Alike
  <2>3. Sane(cl') /\ Wanted(cl') = Wanted(t)
    BY <1>2, <2>2, Rephase
  <2>4. Kept(cl', files) /\ cl'.ACoins = t.ACoins
    BY <1>3, <2>2, <2>3, Zenon DEF Kept, Alike
  <2>5. Filed(cl', files', TRUE)
    BY <2>1, <2>3, <2>4, SaveStep, Zenon
  <2> QED BY <1>0, <2>1, <2>3, <2>5, ZenonT(30) DEF WalletInv
<1> QED BY <1>4, <1>5, SMTT(30)

\* stop, when the user is logged in.
LEMMA StopInStep == ASSUME WalletInv, Stop, cl.phase = "in" PROVE WalletInv'
<1> DEFINE P == cl.depositing \cup cl.ACoins
           s == [cl EXCEPT !.phase = "stopping", !.messageQueue = <<>>, !.ACoins = {},
                           !.depositing = @ \cup cl.ACoins, !.coinsChanged = FALSE]
           last == IF cl.depositInProgress THEN cl.ACoins ELSE s.depositing
           m == [kind |-> "deposit", coins |-> last, final |-> TRUE]
<1>0. /\ Sane(cl) /\ cl \in ClType /\ Filed(cl, files, FALSE) /\ ~saving /\ bank' \in BankType
  BY DEF WalletInv, Sane, Filed, Stop, Idle
<1>1. Save(s) /\ cl' = Send(s, m)
  BY Zenon DEF Stop
<1>2. s = [cl EXCEPT !.phase = "stopping", !.messageQueue = <<>>, !.ACoins = {},
                     !.depositing = P, !.coinsChanged = FALSE]
      /\ P \in SUBSET Coins
  BY <1>0 DEF ClType
<1> HIDE DEF s, P
<1>3. /\ s \in ClType /\ s.phase = "stopping" /\ s.messageQueue = <<>> /\ s.ACoins = {}
      /\ s.depositing = P /\ s.used = cl.used /\ s.conns = cl.conns
  <2>1. <<>> \in Seq(MsgType) /\ {} \in SUBSET Coins
    OBVIOUS
  <2> QED BY <1>0, <1>2, <2>1, ZenonT(30) DEF ClType
<1>4. last \in SUBSET Coins
  BY <1>0, <1>2, <1>3 DEF ClType
<1> HIDE DEF last
<1>5. m \in MsgType /\ m.kind = "deposit"
  BY <1>4 DEF MsgType, Kinds
<1> HIDE DEF m
<1>6. /\ cl' \in ClType /\ Same(s, cl') /\ Wanted(cl') \subseteq Wanted(s)
      /\ (Single(s, "request") => Single(cl', "request"))
  <2>1. /\ cl' \in ClType /\ Same(s, cl')
        /\ \A K \in Kinds : K # m.kind =>
             (Waits(cl', K) <=> Waits(s, K)) /\ (Single(s, K) => Single(cl', K))
        /\ m.kind = "deposit" => Wanted(cl') \subseteq Wanted(s)
    BY <1>1, <1>3, <1>5, SendStep, SMTT(30)
  <2>2. "request" \in Kinds /\ "request" # m.kind
    BY <1>5 DEF Kinds
  <2> QED BY <1>5, <2>1, <2>2, Zenon
<1>7. Wanted(s) \subseteq Wanted(cl) /\ Single(s, "request")
  <2>1. \A i \in 1 .. Len(<<>>) : FALSE
    OBVIOUS
  <2>2. Single(cl, "request")
    BY <1>0 DEF Sane, Honest
  <2> QED BY <1>3, <2>1, <2>2, Zenon DEF Wanted, Asked, Single, OneOf
<1>8. /\ cl'.phase = "stopping" /\ cl'.ACoins = {} /\ cl'.depositing = P /\ cl'.used = cl.used
  BY <1>3, <1>6, Zenon DEF Same
<1>9. Sane(cl')
  <2>1. Honest(cl')
    BY <1>6, <1>7, <1>8, SMTT(30) DEF Honest
  <2>2. Apart(cl')
    BY <1>0, <1>6, <1>7, <1>8, SMTT(30) DEF Sane, Apart, P
  <2> QED BY <1>6, <1>8, <2>1, <2>2, SMTT(30) DEF Sane, Blank
<1>10. Kept(cl', files)
  BY <1>0, <1>6, <1>7, <1>8, SMTT(30) DEF Filed, Kept
<1>11. files' = [files EXCEPT !.wallet = {c \in s.ACoins : IntervalOf[c] >= s.interval - 1}]
       /\ saving' = TRUE
  BY <1>1 DEF Save
<1>12. Filed(cl', files', TRUE)
  <2>1. cl'.ACoins = s.ACoins
    BY <1>3, <1>8
  <2> QED BY <1>9, <1>10, <1>11, <2>1, SaveStep, Zenon
<1> QED BY <1>0, <1>9, <1>11, <1>12, Zenon DEF WalletInv


\* stop before the login is over, the end of the program, and the second write of
\* save_coins.
LEMMA EndSteps ==
  ASSUME WalletInv, (Stop /\ cl.phase # "in") \/ ShutdownTimeout \/ FinishSave \/ Exit \/ Crash
  PROVE  WalletInv'
<1>0. Sane(cl) /\ cl \in ClType /\ Filed(cl, files, saving) /\ bank' \in BankType
  BY DEF WalletInv, Sane, Stop, ShutdownTimeout, FinishSave, Exit, Crash, Gone
<1>1. CASE Stop /\ cl.phase # "in"
  <2>1. /\ cl.phase = "login" /\ files' = files /\ saving' = saving /\ saving = FALSE
        /\ cl' = [cl EXCEPT !.phase = "done", !.messageQueue = <<>>]
    BY <1>0, <1>1 DEF Stop, Idle, Filed
  <2>2. cl.messageQueue = <<>> /\ cl.depositing = {}
    BY <1>0, <2>1 DEF Sane, Blank
  <2>3. cl' \in ClType /\ cl'.phase = "done" /\ Alike(cl, cl')
    <3>1. <<>> \in Seq(MsgType)
      OBVIOUS
    <3> QED BY <1>0, <2>1, <2>2, <3>1, Zenon DEF ClType, Alike
  <2>4. Sane(cl') /\ Wanted(cl') = Wanted(cl)
    BY <1>0, <2>3, Rephase
  <2>5. Kept(cl', files)
    BY <1>0, <2>3, <2>4, Zenon DEF Filed, Kept, Alike
  <2>6. Filed(cl', files, FALSE)
    BY <2>2, <2>3, <2>5 DEF Filed, Alike
  <2> QED BY <1>0, <2>1, <2>4, <2>6, Zenon DEF WalletInv
<1>2. CASE ShutdownTimeout
  <2>1. /\ cl.phase = "stopping" /\ files' = files /\ saving' = saving /\ saving = FALSE
        /\ cl' = [cl EXCEPT !.phase = "done"]
    BY <1>0, <1>2 DEF ShutdownTimeout, Filed
  <2>2. cl' \in ClType /\ cl'.phase = "done" /\ Alike(cl, cl')
    BY <1>0, <2>1, SMTT(30) DEF ClType, Alike
  <2>3. Sane(cl') /\ Wanted(cl') = Wanted(cl)
    BY <1>0, <2>2, Rephase
  <2>4. Kept(cl', files)
    BY <1>0, <2>2, <2>3, Zenon DEF Filed, Kept, Alike
  <2>5. Filed(cl', files, FALSE)
    BY <1>0, <2>1, <2>2, <2>4 DEF Filed, Alike
  <2> QED BY <1>0, <2>1, <2>3, <2>5, Zenon DEF WalletInv
<1>3. CASE FinishSave
  <2> DEFINE P == cl.depositing
  <2>1. cl' = cl /\ saving /\ saving' = FALSE /\ files' = [files EXCEPT !.deposit = P]
    BY <1>3 DEF FinishSave
  <2>2. files \in [wallet : SUBSET Coins, deposit : SUBSET Coins] /\ P \in SUBSET Coins
        /\ files.wallet \subseteq cl.ACoins
    BY <1>0, <2>1 DEF Filed, Kept, ClType
  <2> HIDE DEF P
  <2>3. /\ files' \in [wallet : SUBSET Coins, deposit : SUBSET Coins]
        /\ files'.wallet = files.wallet /\ files'.deposit = P
    BY <2>1, <2>2, SMTT(30)
  <2>4. Kept(cl, files')
    BY <1>0, <2>2, <2>3, SMTT(30) DEF Filed, Kept, Sane, Apart, P
  <2>5. Filed(cl, files', FALSE)
    BY <2>3, <2>4 DEF Filed, P
  <2> QED BY <1>0, <2>1, <2>5, Zenon DEF WalletInv
<1>4. CASE Exit \/ Crash
  <2>1. cl' = [Fresh EXCEPT !.used = cl.used] /\ saving' = FALSE /\ files' = files
    BY <1>4 DEF Exit, Crash, Gone
  <2>2. /\ cl' \in ClType /\ cl'.phase = "off" /\ cl'.ACoins = {} /\ cl'.depositing = {}
        /\ cl'.messageQueue = <<>> /\ cl'.conns = {} /\ cl'.used = cl.used
        /\ ~cl'.requestInProgress /\ ~cl'.depositInProgress
    <3>1. /\ Fresh \in ClType /\ Fresh.phase = "off" /\ Fresh.ACoins = {} /\ Fresh.depositing = {}
          /\ Fresh.messageQueue = <<>> /\ Fresh.conns = {}
          /\ ~Fresh.requestInProgress /\ ~Fresh.depositInProgress
      BY DEF Fresh, ClType
    <3>2. cl.used \in SUBSET Coins
      BY <1>0, SMTT(30) DEF ClType
    <3> QED BY <2>1, <3>1, <3>2, SMTT(30) DEF ClType
  <2>3. Wanted(cl') = {} /\ Single(cl', "request")
    BY <2>2, NothingAsked, SMTT(30) DEF Wanted, Single, Kinds
  <2>4. Sane(cl')
    BY <2>2, <2>3, SMTT(30) DEF Sane, Honest, Apart, Blank
  <2>5. Kept(cl', files)
    BY <1>0, <2>2, <2>3, SMTT(30) DEF Filed, Kept
  <2>6. Filed(cl', files, FALSE)
    BY <2>2, <2>5, SMTT(30) DEF Filed
  <2> QED BY <1>0, <2>1, <2>4, <2>6, Zenon DEF WalletInv
<1> QED BY <1>1, <1>2, <1>3, <1>4

\* Every step keeps WalletInv.
LEMMA WalletStep == WalletInv /\ [Next]_vars => WalletInv'
<1> SUFFICES ASSUME WalletInv, [Next]_vars PROVE WalletInv'
  OBVIOUS
<1>1. CASE Tick
  <2>1. bank' \in BankType /\ cl' = cl /\ files' = files /\ saving' = saving
    BY <1>1 DEF WalletInv, Tick, BankType
  <2> QED BY <2>1, Zenon DEF WalletInv
<1>2. CASE UNCHANGED vars
  BY <1>2 DEF vars, WalletInv
<1>3. CASE Stop
  BY <1>3, StopInStep, EndSteps, SMTT(30)
<1>4. CASE Progress
  BY <1>4, LoginSteps, LoginAnsweredStep, EndSteps, OnTheWayStep, RequestAnsweredStep,
     DepositAnsweredStep, OverStep, SMTT(30) DEF Progress
<1> QED BY <1>1, <1>2, <1>3, <1>4, LoginSteps, UpdateTimerStep, SpendStep, EarnStep, PollStep,
           OverStep, EndSteps, SMTT(30) DEF Next

\* Stops, crashes and restarts never confuse the client, whatever the bank
\* answers and whenever connections fail: a coin is in the wallet or being
\* deposited, never both, in memory and on disk; acoinRequestInProgress and
\* acoinDepositInProgress tell the truth in normal operation; and what stop() has
\* in hand is in the file.
THEOREM ClientStaysSound == Spec => []ClientSound
<1>1. WalletInv => ClientSound
  <2> SUFFICES ASSUME WalletInv PROVE ClientSound
    BY SMTT(30)
  <2>1. OnePlace
    BY DEF WalletInv, Sane, Apart, Filed, Kept, OnePlace
  <2>2. StopSaves
    BY DEF WalletInv, Filed, StopSaves
  <2>3. FlagsHonest
    <3> SUFFICES ASSUME cl.phase = "in"
                 PROVE  /\ cl.requestInProgress = Pending("request")
                        /\ cl.depositInProgress = Pending("deposit")
      BY DEF FlagsHonest
    <3>1. cl.messageQueue \in Seq(MsgType) /\ cl.requestInProgress \in BOOLEAN
          /\ cl.depositInProgress \in BOOLEAN
      BY DEF WalletInv, Sane, ClType
    <3>2. Range(cl.messageQueue) = {cl.messageQueue[i] : i \in 1 .. Len(cl.messageQueue)}
      BY <3>1 DEF Range
    <3>3. \A K \in Kinds : Pending(K) <=> Waits(cl, K)
      BY <3>2 DEF Pending, Messages, Waits, Pend
    <3>4. \A K \in Kinds : Pending(K) \in BOOLEAN
      BY DEF Pending
    <3>5. /\ cl.requestInProgress <=> Pending("request")
          /\ cl.depositInProgress <=> Pending("deposit")
      BY <3>3 DEF WalletInv, Sane, Honest, Kinds
    <3> QED BY <3>1, <3>4, <3>5, Zenon DEF Kinds
  <2> QED BY <2>1, <2>2, <2>3 DEF ClientSound
<1> QED BY <1>1, WalletInit, WalletStep, PTL DEF Spec

=============================================================================

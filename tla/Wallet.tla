------------------------------- MODULE Wallet -------------------------------
(***************************************************************************)
(* The client's side of the bank: BankConnection (client/core/bank/        *)
(* Bank.py) with the factories of the messages it sends.  It keeps the     *)
(* ACoins of the user in memory and in two files, withdraws when it has    *)
(* few, deposits when it has many or when they are about to expire, and    *)
(* deposits everything when the program stops.                             *)
(*                                                                         *)
(* The client is one event loop; its state is the record cl and every      *)
(* method that changes it is an operator from records to records, so that  *)
(* an action is the whole callback.  The bank answers a message in one     *)
(* step (module BankServer has the details).  Comparisons with the time of *)
(* day inside an interval are left to chance.                              *)
(***************************************************************************)
EXTENDS Integers, Sequences, FiniteSets, Functions

CONSTANTS
    Coins,            \* every coin of the run
    IntervalOf,       \* [Coins -> Nat]
    ACOIN_LOW_LEVEL, ACOIN_HIGH_LEVEL, ACOIN_BATCH_SIZE,
    StartBalance,     \* the account when the run starts
    MaxInterval,      \* bound: last interval
    MaxJump,          \* bound: intervals that may pass unnoticed by the client
    MaxNum,           \* bound: messages sent without need
    MaxFailures,      \* bound: connections that fail or time out
    MaxCrashes,       \* bound: crashes of the client
    BankErrors,       \* TRUE: the bank may answer with an error text
    Stops,            \* TRUE: the user may stop the program
    Prompt            \* TRUE: what login starts is over before the next timer fires

ASSUME WalletAssumption ==
    /\ IsFiniteSet(Coins) /\ IntervalOf \in [Coins -> Nat]
    /\ {ACOIN_LOW_LEVEL, ACOIN_HIGH_LEVEL, ACOIN_BATCH_SIZE, StartBalance, MaxInterval,
        MaxJump, MaxNum, MaxFailures, MaxCrashes} \subseteq Nat
    /\ {BankErrors, Stops, Prompt} \subseteq BOOLEAN

VARIABLES
    cl,        \* the client's memory
    files,     \* acoins.txt and acoins_in_deposit.txt
    saving,    \* between the two writes of save_coins
    login,     \* the connection to the login server
    bank,      \* the bank: account, redeemed coins, interval, last message number
    owned,     \* coins that have been in the wallet
    spent,     \* coins given away in payments
    failures, crashes,
    calm       \* nobody has stopped the program and it has not crashed

life == <<crashes, calm>>
vars == <<cl, files, saving, login, bank, owned, spent, failures, life>>

\* What an error text of the bank looks like when it is read as four integers.
GarbageBalance == StartBalance + 1000
GarbageInterval == MaxInterval + 1000

Smaller(a, b) == IF a < b THEN a ELSE b
LoggedIn(s) == s.phase \in {"in", "stopping"}
Wealth(s) == Cardinality({c \in s.ACoins : IntervalOf[c] \in {s.interval - 1, s.interval}})
Conn(m, n) == [id |-> n, kind |-> m.kind, coins |-> m.coins, final |-> m.final,
               stage |-> "connecting", num |-> 0, got |-> FALSE,
               code |-> "none", bal |-> 0, ivl |-> 0]

-----------------------------------------------------------------------------
(***************************************************************************)
(* The methods of BankConnection.                                          *)
(***************************************************************************)

\* send_next_message: the number is counted up when the connection is started.
SendNext(s, m) == [s EXCEPT !.messageNum = @ + 1, !.conns = @ \cup {Conn(m, s.messageNum + 1)}]

\* send_message
Send(s, m) ==
    IF s.messageInProgress
    THEN [s EXCEPT !.messageQueue = Append(@, m)]
    ELSE SendNext([s EXCEPT !.messageInProgress = TRUE], m)

\* on_bank_message_done
MessageDone(s) ==
    IF s.messageQueue = <<>>
    THEN [s EXCEPT !.messageInProgress = FALSE]
    ELSE SendNext([s EXCEPT !.messageQueue = Tail(@)], Head(s.messageQueue))

\* request_coins: as many as a batch holds and the account is thought to pay for.
Asking(s) ==
    LET blank == {c \in Coins \ s.used : IntervalOf[c] = s.interval}
        n == Smaller(Smaller(ACOIN_BATCH_SIZE, s.balance), Cardinality(blank))
    IN CHOOSE S \in SUBSET blank : Cardinality(S) = n

RequestCoins(s) ==
    IF s.phase = "stopping" \/ s.requestInProgress \/ Asking(s) = {} THEN s
    ELSE Send([s EXCEPT !.requestInProgress = TRUE, !.used = @ \cup Asking(s)],
              [kind |-> "request", coins |-> Asking(s), final |-> FALSE])

\* check_wallet_balance
CheckWallet(s) ==
    IF LoggedIn(s) /\ Wealth(s) < ACOIN_LOW_LEVEL THEN RequestCoins(s) ELSE s

\* on_new_balance_from_bank, on_new_info
NewBalance(s, b) == CheckWallet([s EXCEPT !.balance = b])

NewInfo(s, b, i) ==
    NewBalance(IF i > s.interval
               THEN [s EXCEPT !.ACoins = {c \in @ : IntervalOf[c] # s.interval - 1},
                              !.interval = i]
               ELSE s, b)

\* get_acoins: the n oldest coins; none past the cutoff if late.  Its assertion
\* fails when coins older than the previous interval are left.
AssertFails(s) == \E c \in s.ACoins : IntervalOf[c] < s.interval - 1
Oldest(s, n, late) ==
    LET fit == {c \in s.ACoins : late => IntervalOf[c] >= s.interval} IN
    IF Cardinality(fit) < n THEN {}
    ELSE CHOOSE S \in SUBSET fit : /\ Cardinality(S) = n
           /\ \A x \in S, y \in fit \ S : IntervalOf[x] <= IntervalOf[y]

Take(s, S) ==
    [s EXCEPT !.ACoins = @ \ S, !.coinsChanged = @ \/ S # {}]

\* deposit_acoins
Deposit(s, S) ==
    IF s.phase = "stopping" THEN s
    ELSE Send([s EXCEPT !.depositing = @ \cup S],
              [kind |-> "deposit", coins |-> S, final |-> FALSE])

\* A variant: update_coins that deposits the coins it takes now, and does not try
\* again what an earlier deposit left.
UpdateNoRetry(s0, stale, late, poll) ==
    LET s1 == CheckWallet(s0)
        old == {c \in s1.ACoins : stale /\ IntervalOf[c] = s1.interval - 1}
        s2 == IF old = {} THEN s1 ELSE CheckWallet(Take(s1, old))
    IN IF s1.depositInProgress THEN s1
       ELSE IF old = {} /\ ~poll THEN s2
       ELSE Deposit([s2 EXCEPT !.depositInProgress = TRUE], old)

\* update_coins, without the final save_coins.  stale, late and poll are the
\* comparisons with beginDepositACoinTime, sendOldACoinCutoff and the time to
\* ask for the next interval.
UpdateCoins(s0, stale, late, poll) ==
    LET s1 == CheckWallet(s0)
        prev == {c \in s1.ACoins : IntervalOf[c] = s1.interval - 1}
        old == IF stale THEN CHOOSE S \in SUBSET prev :
                        Cardinality(S) = Smaller(ACOIN_BATCH_SIZE, Cardinality(prev))
               ELSE {}
        s2 == IF old = {} THEN s1 ELSE CheckWallet(Take(s1, old))
        tooMany == Wealth(s2) > ACOIN_HIGH_LEVEL
        more == IF tooMany THEN Oldest(s2, ACOIN_BATCH_SIZE, late) ELSE {}
        s3 == IF more = {} THEN s2 ELSE CheckWallet(Take(s2, more))
        all == s0.depositing \cup old \cup more
    IN IF s1.depositInProgress THEN s1
       ELSE IF tooMany /\ AssertFails(s2) THEN s2
       ELSE IF all = {} /\ ~poll THEN s3
       ELSE Deposit([s3 EXCEPT !.depositInProgress = TRUE], all)

\* The first write of save_coins; the second follows in FinishSave.
Save(s) ==
    /\ files' = [files EXCEPT !.wallet = {c \in s.ACoins : IntervalOf[c] >= s.interval - 1}]
    /\ saving' = TRUE
SaveIfChanged(s) == IF s.coinsChanged THEN Save(s) ELSE UNCHANGED <<files, saving>>

-----------------------------------------------------------------------------
(***************************************************************************)
(* Logging in.                                                             *)
(***************************************************************************)
Fresh == [phase |-> "off", ACoins |-> {}, depositing |-> {}, interval |-> 0, balance |-> 0,
          coinsChanged |-> FALSE, messageQueue |-> <<>>, messageInProgress |-> FALSE,
          messageNum |-> 0, requestInProgress |-> FALSE, depositInProgress |-> FALSE,
          conns |-> {}, used |-> {}]

\* Timers, payments and the user find the client between two callbacks.
Idle == ~saving /\ (Prompt => login = "none" /\ (cl.conns # {} => cl.messageInProgress))
Spare == cl.messageNum + Len(cl.messageQueue) < MaxNum

\* login: a connection to the login server, outside send_message.
Login ==
    /\ ~saving /\ cl.phase = "off" /\ login = "none"
    /\ login' = "open"
    /\ cl' = [cl EXCEPT !.phase = "login"]
    /\ UNCHANGED <<files, saving, bank, owned, spent, failures, life>>

\* LoginProtocol.stringReceived: on_new_info, then on_login_success with
\* load_coins and check_wallet_balance unless the user has stopped the bank
\* meanwhile.  The login server has reset the relay's message number.
LoginAnswered ==
    LET known == NewInfo(cl, bank.balance, bank.interval)
        fresh(S) == {c \in S : IntervalOf[c] \in (bank.interval - 1) .. (bank.interval + 1)}
        loaded == [known EXCEPT !.phase = "in", !.ACoins = fresh(files.wallet),
                     !.depositing = fresh(files.deposit),
                     !.coinsChanged = fresh(files.wallet) # {}]
    IN
    /\ ~saving /\ login = "open"
    /\ login' = "closing"
    /\ cl' = IF cl.phase = "login" THEN CheckWallet(loaded) ELSE known
    /\ bank' = [bank EXCEPT !.msgnum = 0]
    /\ UNCHANGED <<files, saving, owned, spent, failures, life>>

\* LoginFactory.clientConnectionLost after the answer: the base class counts it
\* as a bank message that is done.
LoginClosed ==
    /\ ~saving /\ login = "closing"
    /\ login' = "none"
    /\ cl' = MessageDone(cl)
    /\ UNCHANGED <<files, saving, bank, owned, spent, failures, life>>

\* clientConnectionFailed, or clientConnectionLost without an answer.
LoginFails ==
    /\ ~saving /\ login = "open" /\ failures < MaxFailures
    /\ login' = "none"
    /\ cl' = [MessageDone(cl) EXCEPT !.phase = IF @ = "login" THEN "off" ELSE @]
    /\ failures' = failures + 1
    /\ UNCHANGED <<files, saving, bank, owned, spent, life>>

-----------------------------------------------------------------------------
(***************************************************************************)
(* Using coins.                                                            *)
(***************************************************************************)

\* The ten second timer.  beginDepositACoinTime comes before sendOldACoinCutoff,
\* and that before the next interval.
UpdateTimer(stale, late, poll) ==
    LET s == UpdateCoins(cl, stale, late, poll) IN
    /\ Idle /\ LoggedIn(cl)
    /\ poll => late /\ Spare
    /\ late => stale
    /\ SaveIfChanged(s)
    /\ cl' = [s EXCEPT !.coinsChanged = FALSE]
    /\ UNCHANGED <<login, bank, owned, spent, failures, life>>

\* get_acoins for a payment.
Spend(late) ==
    LET S == Oldest(cl, 1, late) IN
    /\ Idle /\ LoggedIn(cl)
    /\ ~AssertFails(cl) /\ S # {}
    /\ cl' = CheckWallet(Take(cl, S))
    /\ spent' = spent \cup S
    /\ UNCHANGED <<files, saving, login, bank, owned, failures, life>>

\* on_earned_coin, for a coin whose request this relay made in its current or
\* in the previous interval.
Earn(c) ==
    /\ Idle /\ LoggedIn(cl)
    /\ c \in Coins \ cl.used /\ IntervalOf[c] \in {cl.interval - 1, cl.interval}
    /\ cl' = [cl EXCEPT !.ACoins = @ \cup {c}, !.coinsChanged = TRUE, !.used = @ \cup {c}]
    /\ owned' = owned \cup {c}
    /\ UNCHANGED <<files, saving, login, bank, spent, failures, life>>

\* on_update: out of credits, and a while since the last news of the account.
Poll ==
    /\ Idle /\ LoggedIn(cl) /\ Spare
    /\ cl.balance + Wealth(cl) <= 0 /\ ~cl.depositInProgress
    /\ cl' = Deposit([cl EXCEPT !.depositInProgress = TRUE], {})
    /\ UNCHANGED <<files, saving, login, bank, owned, spent, failures, life>>

\* check_next_acoins, before old coins stop being used.
CheckNextACoins ==
    /\ Idle /\ LoggedIn(cl)
    /\ \A c \in cl.ACoins : IntervalOf[c] # cl.interval
    /\ cl' = RequestCoins(cl)
    /\ UNCHANGED <<files, saving, login, bank, owned, spent, failures, life>>

\* The clock: the bank enters its next interval.
Tick ==
    /\ bank.interval < MaxInterval
    /\ cl.phase # "off" => bank.interval - cl.interval < MaxJump
    /\ bank' = [bank EXCEPT !.interval = @ + 1]
    /\ UNCHANGED <<cl, files, saving, login, owned, spent, failures, life>>

-----------------------------------------------------------------------------
(***************************************************************************)
(* A message to the bank.                                                  *)
(***************************************************************************)
Moved(s, k, j) == [s EXCEPT !.conns = (@ \ {k}) \cup {j}]

\* connectionMade: make_bank_prefix writes the number the client is at now.
ConnectionMade(k) ==
    /\ ~saving /\ k.stage = "connecting"
    /\ cl' = IF LoggedIn(cl)
             THEN Moved(cl, k, [k EXCEPT !.stage = "sent", !.num = cl.messageNum])
             ELSE Moved(cl, k, [k EXCEPT !.stage = "received"])
    /\ UNCHANGED <<files, saving, login, bank, owned, spent, failures, life>>

\* The bank handles the message.
BankAnswers(k) ==
    LET ok == {c \in k.coins \ bank.redeemed : IntervalOf[c] \in {bank.interval - 1, bank.interval}}
        n == Cardinality(k.coins)
        paid == k.kind = "request" /\ n <= bank.balance
        after == bank.balance + (IF k.kind = "deposit" THEN Cardinality(ok) ELSE IF paid THEN -n ELSE 0)
    IN
    /\ k.stage = "sent" /\ k.num > bank.msgnum
    /\ bank' = [bank EXCEPT !.msgnum = k.num, !.balance = after,
                  !.redeemed = IF k.kind = "deposit" THEN @ \cup ok ELSE @]
    /\ cl' = Moved(cl, k, [k EXCEPT !.stage = "replied", !.bal = after, !.ivl = bank.interval,
                             !.code = IF k.kind = "request" /\ ~paid THEN "1" ELSE "0"])
    /\ UNCHANGED <<files, saving, login, owned, spent, failures, life>>

\* The bank refuses the number, or something fails in it: an error text.
BankRefuses(k) ==
    /\ k.stage = "sent"
    /\ k.num <= bank.msgnum \/ BankErrors
    /\ cl' = Moved(cl, k, [k EXCEPT !.stage = "replied", !.code = "error"])
    /\ UNCHANGED <<files, saving, login, bank, owned, spent, failures, life>>

\* ACoinRequestProtocol.stringReceived
RequestAnswered(k) ==
    LET s == Moved(cl, k, [k EXCEPT !.stage = "received"])
        b == IF k.code = "error" THEN GarbageBalance ELSE k.bal
        got == IF k.code = "0" THEN k.coins ELSE {}
        t == NewBalance(s, b)
    IN
    /\ ~saving /\ k.stage = "replied" /\ k.kind = "request"
    /\ IF LoggedIn(cl)
       THEN /\ cl' = [t EXCEPT !.ACoins = @ \cup got, !.coinsChanged = @ \/ got # {}]
            /\ owned' = owned \cup got
       ELSE cl' = s /\ UNCHANGED owned
    /\ UNCHANGED <<files, saving, login, bank, spent, failures, life>>

\* ACoinDepositProtocol.stringReceived: gotResponse is set before the answer is
\* decrypted and parsed.
DepositAnswered(k) ==
    LET s == Moved(cl, k, [k EXCEPT !.stage = "received", !.got = TRUE]) IN
    /\ ~saving /\ k.stage = "replied" /\ k.kind = "deposit"
    /\ cl' = IF ~LoggedIn(cl) THEN s
             ELSE IF k.code = "error" THEN NewInfo(s, GarbageBalance, GarbageInterval)
             ELSE NewInfo(s, k.bal, k.ivl)
    /\ UNCHANGED <<files, saving, login, bank, owned, spent, failures, life>>

\* A variant: on_done forgets the coins without an answer.
OverForgets(k) ==
    LET s == MessageDone([cl EXCEPT !.conns = @ \ {k}]) IN
    /\ cl' = IF k.kind = "request" THEN [s EXCEPT !.requestInProgress = FALSE]
             ELSE [s EXCEPT !.depositInProgress = FALSE, !.depositing = @ \ k.coins]
    /\ UNCHANGED <<files, saving>>

\* A variant: on_done clears acoinDepositInProgress only after an answer.
OverStuck(k) ==
    LET s == MessageDone([cl EXCEPT !.conns = @ \ {k}]) IN
    /\ cl' = IF k.kind = "request" THEN [s EXCEPT !.requestInProgress = FALSE]
             ELSE IF k.got THEN [s EXCEPT !.depositInProgress = FALSE, !.depositing = @ \ k.coins]
             ELSE s
    /\ UNCHANGED <<files, saving>>

\* clientConnectionFailed and clientConnectionLost: on_bank_message_done, then
\* the factory's own flag and coins.  The end of the shutdown deposit runs
\* _shutdown_success; _shutdown_failure only raises a NameError.
ConnectionOver(k) ==
    LET s == MessageDone([cl EXCEPT !.conns = @ \ {k}])
        t == IF k.kind = "request" THEN [s EXCEPT !.requestInProgress = FALSE]
             ELSE [s EXCEPT !.depositInProgress = FALSE,
                            !.depositing = IF k.got THEN @ \ k.coins ELSE @]
    IN IF k.final /\ k.got
       THEN cl' = [t EXCEPT !.phase = "done", !.coinsChanged = FALSE] /\ Save(t)
       ELSE cl' = t /\ UNCHANGED <<files, saving>>
ConnectionLost(k) ==
    /\ ~saving /\ k.stage = "received"
    /\ ConnectionOver(k)
    /\ UNCHANGED <<login, bank, owned, spent, failures, life>>

\* The connection cannot be made, or is closed by on_timeout before the answer.
ConnectionFails(k) ==
    /\ ~saving /\ k.stage # "received" /\ failures < MaxFailures
    /\ failures' = failures + 1
    /\ ConnectionOver(k)
    /\ UNCHANGED <<login, bank, owned, spent, life>>

-----------------------------------------------------------------------------
(***************************************************************************)
(* Stopping, crashing and starting again.                                  *)
(***************************************************************************)

\* stop: the queue is dropped, every coin becomes a coin being deposited, the
\* files are written and one last deposit is sent.
Stop ==
    LET s == [cl EXCEPT !.phase = "stopping", !.messageQueue = <<>>, !.ACoins = {},
                        !.depositing = @ \cup cl.ACoins, !.coinsChanged = FALSE]
        last == IF cl.depositInProgress THEN cl.ACoins ELSE s.depositing
    IN
    /\ Stops /\ Idle
    /\ \/ /\ cl.phase = "in"
          /\ Save(s)
          /\ cl' = Send(s, [kind |-> "deposit", coins |-> last, final |-> TRUE])
       \/ /\ cl.phase = "login"
          /\ cl' = [cl EXCEPT !.phase = "done", !.messageQueue = <<>>]
          /\ UNCHANGED <<files, saving>>
    /\ calm' = FALSE
    /\ UNCHANGED <<login, bank, owned, spent, failures, crashes>>

\* _shutdown_timeout
ShutdownTimeout ==
    /\ ~saving /\ cl.phase = "stopping"
    /\ cl' = [cl EXCEPT !.phase = "done"]
    /\ UNCHANGED <<files, saving, login, bank, owned, spent, failures, life>>

\* The second write of save_coins.
FinishSave ==
    /\ saving /\ saving' = FALSE
    /\ files' = [files EXCEPT !.deposit = cl.depositing]
    /\ UNCHANGED <<cl, login, bank, owned, spent, failures, life>>

\* The process is gone and with it everything but the files.
Gone ==
    /\ cl' = [Fresh EXCEPT !.used = cl.used]
    /\ login' = "none" /\ saving' = FALSE
    /\ UNCHANGED <<files, bank, owned, spent, failures>>
Exit == cl.phase = "done" /\ ~saving /\ Gone /\ UNCHANGED life
Crash == cl.phase # "off" /\ crashes < MaxCrashes /\ crashes' = crashes + 1 /\ calm' = FALSE /\ Gone

-----------------------------------------------------------------------------
Init ==
    /\ cl = Fresh
    /\ files = [wallet |-> {}, deposit |-> {}]
    /\ saving = FALSE /\ login = "none"
    /\ bank = [balance |-> StartBalance, redeemed |-> {}, interval |-> 1, msgnum |-> 0]
    /\ owned = {} /\ spent = {} /\ failures = 0 /\ crashes = 0 /\ calm = TRUE

\* What goes on by itself: answers arrive, connections close, files get written.
Progress ==
    \/ Login \/ LoginAnswered \/ LoginClosed \/ FinishSave
    \/ \E k \in cl.conns :
         \/ ConnectionMade(k) \/ BankAnswers(k) \/ BankRefuses(k)
         \/ RequestAnswered(k) \/ DepositAnswered(k) \/ ConnectionLost(k)

Next ==
    \/ Progress
    \/ LoginFails
    \/ \E stale, late, poll \in BOOLEAN : UpdateTimer(stale, late, poll)
    \/ \E late \in BOOLEAN : Spend(late)
    \/ \E c \in Coins : Earn(c)
    \/ Poll \/ CheckNextACoins \/ Tick
    \/ \E k \in cl.conns : ConnectionFails(k)
    \/ Stop \/ ShutdownTimeout \/ Exit \/ Crash

Spec == Init /\ [][Next]_vars

-----------------------------------------------------------------------------
(***************************************************************************)
(* Properties.                                                             *)
(***************************************************************************)
Messages == Range(cl.messageQueue) \cup cl.conns
Pending(kind) == \E m \in Messages : m.kind = kind
Expired(c) == IntervalOf[c] < bank.interval - 1
Held == IF LoggedIn(cl) THEN cl.ACoins \cup cl.depositing ELSE files.wallet \cup files.deposit

\* Type correctness of the client, its files and the bank's side.
TypeOK ==
    /\ cl.phase \in {"off", "login", "in", "stopping", "done"}
    /\ cl.ACoins \cup cl.depositing \cup cl.used \subseteq Coins
    /\ {cl.interval, cl.balance, cl.messageNum} \subseteq Nat
    /\ {cl.coinsChanged, cl.messageInProgress, cl.requestInProgress, cl.depositInProgress} \subseteq BOOLEAN
    /\ \A m \in Messages : m.kind \in {"request", "deposit"} /\ m.coins \subseteq Coins
    /\ files \in [wallet : SUBSET Coins, deposit : SUBSET Coins]
    /\ login \in {"none", "open", "closing"}
    /\ bank.balance \in Nat /\ bank.redeemed \subseteq Coins /\ bank.interval \in 1 .. MaxInterval

\* No coin is lost: a coin that was ever in the wallet is still held (in memory,
\* or in the files when the client is not running), or has been paid to somebody,
\* or redeemed at the bank, or has expired there.  Deposits that fail, time out
\* or are answered late, and interval changes, never make one disappear.
NoCoinLost == \A c \in owned : c \in Held \cup spent \cup bank.redeemed \/ Expired(c)

\* A coin is in one place: it is never in the wallet while it is being deposited,
\* in memory and on disk, whenever the client stops, crashes or starts.
OnePlace == cl.ACoins \cap cl.depositing = {} /\ files.wallet \cap files.deposit = {}

\* get_acoins: "remove these coins from our list.  They will never be used for
\* anything else."
SpentForGood == spent \cap (cl.ACoins \cup cl.depositing) = {}

\* acoinRequestInProgress and acoinDepositInProgress tell the truth while the
\* client is in normal operation: the first is set exactly while a request is
\* queued or under way, the second exactly while a deposit is.  A flag left set
\* would end all withdrawals or all deposits for good.
FlagsHonest ==
    cl.phase = "in" => /\ cl.requestInProgress = Pending("request")
                       /\ cl.depositInProgress = Pending("deposit")

\* "We only have a single connection open to the bank" (comment on messageQueue).
SingleConnection == Cardinality(cl.conns) <= 1

\* The assertion of get_acoins: "acoins from bad interval still exist".
NoBadIntervals == LoggedIn(cl) => ~AssertFails(cl)

\* While the program stops, and when it has, what is still to be deposited is in
\* the file, so that the next start retries it: a deposit that fails or is
\* overtaken by the timeout loses nothing that stop() had in hand.
StopSaves ==
    cl.phase \in {"stopping", "done"} /\ ~saving => cl.depositing \subseteq files.deposit

\* Stops, crashes and restarts never confuse the client: every coin is in one
\* place, the flags are honest, and stop() leaves behind what it had in hand.
ClientSound == OnePlace /\ FlagsHonest /\ StopSaves

\* Up to its first stop or crash, a client that hears of every interval, whose
\* login connection is over before its first message and whose bank does not
\* fail, loses no coin, uses none twice, has one connection at a time and never
\* runs into the assertion of get_acoins.
CoinsSound ==
    calm /\ Prompt /\ ~BankErrors /\ MaxJump <= 1 =>
        NoCoinLost /\ SpentForGood /\ SingleConnection /\ NoBadIntervals

=============================================================================

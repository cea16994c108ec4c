----------------------------- MODULE BankServer -----------------------------
(***************************************************************************)
(* The bank: one Twisted event loop that serves TCP connections (ACoin     *)
(* requests and deposits, bank/BankServer.py and bank/ACoinMessages.py)    *)
(* and UDP datagrams (payments), on top of a PostgreSQL database reached   *)
(* through a thread pool.  Every callback of the event loop and every      *)
(* database transaction is one action; between them anything may happen.   *)
(*                                                                         *)
(* One ACoin is worth one credit (ACOIN_VALUE), so a set of coins is worth *)
(* its cardinality.                                                        *)
(***************************************************************************)
EXTENDS Integers, Sequences, FiniteSets, Functions

CONSTANTS
    Users,         \* rows of Accounts
    Relays,        \* rows of Relays: a relay speaks for its owner's account
    Owner,         \* [Relays -> Users]
    Conns,         \* TCP connections that can be open at once
    Coins,         \* every blind the bank may ever sign
    IntervalOf,    \* [Coins -> Nat], the interval written in the coin
    Outstanding,   \* coins in circulation when the bank starts
    Datagrams,     \* payment datagrams
    Pays,          \* [Datagrams -> SUBSET (Coins \X Coins)], <<coin, token>> pairs
    StartBalance,  \* [Users -> Nat]
    FirstInterval, \* interval in which the bank starts
    MaxInterval,   \* bound: last interval of a run
    MaxMsgnum,     \* bound: messages sent by one relay
    MaxBatch,      \* bound: coins in one TCP message
    MAX_SIZE,      \* capacity of the UDP reply cache
    Serialized,    \* TRUE: an account has one bank connection open at a time
    DbFaults,      \* TRUE: a database transaction may fail
    MaxRestarts    \* bound: restarts of the bank process

ASSUME BankAssumption ==
    /\ IsFiniteSet(Users) /\ IsFiniteSet(Conns)
    /\ IsFiniteSet(Coins) /\ Outstanding \subseteq Coins
    /\ Owner \in [Relays -> Users]
    /\ IntervalOf \in [Coins -> Nat]
    /\ Pays \in [Datagrams -> SUBSET (Coins \X Coins)]
    /\ \A m \in Datagrams : \A p, q \in Pays[m] : p[1] = q[1] => p = q
    /\ StartBalance \in [Users -> Nat]
    /\ FirstInterval \in Nat \ {0} /\ MaxInterval \in Nat
    /\ MaxMsgnum \in Nat /\ MaxBatch \in Nat /\ MAX_SIZE \in Nat
    /\ Serialized \in BOOLEAN /\ DbFaults \in BOOLEAN /\ MaxRestarts \in Nat

\* A merchant draws a random blind for every token, so a token belongs to one coin.
ASSUME TokenAssumption ==
    \A m, n \in Datagrams : \A p \in Pays[m], q \in Pays[n] :
        p[2] \notin Outstanding /\ (p[2] = q[2] => p[1] = q[1])

VARIABLES
    balance,     \* DB: Accounts.Balance
    msgnum,      \* DB: Relays.Msgnum
    numWrites,   \* UPDATEs of Relays.Msgnum issued and not yet executed
    today,       \* the interval the wall clock is in
    current,     \* Globals.CURRENT_INTERVAL
    Acoins,      \* Globals.Acoins: interval -> coins redeemed in it
    lookup,      \* TRUE while the next interval lookup is scheduled
    cache,       \* UDP reply cache: datagram -> reply
    queue,       \* the cached datagrams, oldest first
    conn,        \* state of each TCP connection
    sent,        \* last message number each relay has used
    released,    \* coins whose signature the bank has sent out
    redeemed,    \* how often each coin has been accepted
    restarts,
    lost         \* credits of deposits whose UPDATE has failed

db == <<balance, msgnum, numWrites>>
clock == <<today, current, lookup>>
udp == <<cache, queue>>
vars == <<db, clock, Acoins, udp, conn, sent, released, redeemed, restarts, lost>>

Free == [pc |-> "free"]

(***************************************************************************)
(* Coins.                                                                  *)
(***************************************************************************)

\* get_intervals: the interval before cur.  Interval 0 is followed back to 1.
Previous(cur) == IF cur = 0 THEN 1 ELSE cur - 1

\* ACoin.is_valid: a bank signature, and one of the two live intervals.
IsValid(c) == c \in released /\ IntervalOf[c] \in {current - 1, current}

\* deposit_acoin: the code for a coin, given the coins redeemed so far.
DepositCode(c, spent) ==
    IF ~IsValid(c) THEN "1" ELSE IF c \in spent[IntervalOf[c]] THEN "2" ELSE "0"

\* get_correct_set(...).add for each accepted coin.
Store(coins) ==
    Acoins' = [i \in DOMAIN Acoins |-> Acoins[i] \cup {c \in coins : IntervalOf[c] = i}]

Redeem(coins) ==
    redeemed' = [c \in Coins |-> redeemed[c] + (IF c \in coins THEN 1 ELSE 0)]

Tokens == UNION {{p[2] : p \in Pays[m]} : m \in Datagrams}

\* Blinds nobody has used yet.
Blank == Coins \ (released \cup Tokens \cup UNION {conn[k].coins : k \in
                     {j \in Conns : conn[j].pc # "free" /\ conn[j].kind = "request"}})

-----------------------------------------------------------------------------
(***************************************************************************)
(* Relays.Msgnum and the start of a TCP message.                           *)
(***************************************************************************)
Busy(u) == \E k \in Conns : conn[k].pc # "free" /\ Owner[conn[k].relay] = u

\* TCPServer.stringReceived, sym_decrypt: a first message arrives; the relay's
\* row is selected.  The client increments its number for every message.
StringReceived(k, r, kind, coins) ==
    /\ conn[k].pc = "free"
    /\ Serialized => ~Busy(Owner[r])
    /\ sent[r] < MaxMsgnum
    /\ Cardinality(coins) <= MaxBatch
    /\ kind = "request" => coins \subseteq Blank
    /\ sent' = [sent EXCEPT ![r] = @ + 1]
    /\ conn' = [conn EXCEPT ![k] = [pc |-> "select", relay |-> r, kind |-> kind,
                  coins |-> coins, num |-> sent[r] + 1, prev |-> 0, bal |-> 0,
                  credit |-> 0, code |-> "none"]]
    /\ UNCHANGED <<db, clock, Acoins, udp, released, redeemed, restarts, lost>>

\* fetch_sym_key: owner, message number and key as the database has them now.
FetchSymKey(k) ==
    /\ conn[k].pc = "select"
    /\ conn' = [conn EXCEPT ![k].prev = msgnum[conn[k].relay], ![k].pc = "handle"]
    /\ UNCHANGED <<db, clock, Acoins, udp, sent, released, redeemed, restarts, lost>>

\* update_db refuses the message, or Request.unpack_and_mint finds no coin
\* asked for: err sends an error text and closes.
Refused(c) == c.num <= c.prev \/ (c.kind = "request" /\ c.coins = {})
Refuse(k) ==
    /\ conn[k].pc = "handle" /\ Refused(conn[k])
    /\ numWrites' = numWrites \cup
           {w \in {<<conn[k].relay, conn[k].num>>} : conn[k].num > conn[k].prev}
    /\ conn' = [conn EXCEPT ![k].code = "error", ![k].pc = "reply"]
    /\ UNCHANGED <<balance, msgnum, clock, Acoins, udp, sent, released, redeemed, restarts, lost>>

\* update_db issues the UPDATE of Msgnum and does not wait for it;
\* handle_message hands over to Request.unpack_and_mint (the coins are signed,
\* the balance is asked for) ...
HandleRequest(k) ==
    /\ conn[k].pc = "handle" /\ ~Refused(conn[k]) /\ conn[k].kind = "request"
    /\ numWrites' = numWrites \cup {<<conn[k].relay, conn[k].num>>}
    /\ conn' = [conn EXCEPT ![k].pc = "read"]
    /\ UNCHANGED <<balance, msgnum, clock, Acoins, udp, sent, released, redeemed, restarts, lost>>

\* Variant: every coin of the message is credited, whatever its code.
CreditEveryCoin(k) ==
    LET ok == {c \in conn[k].coins : DepositCode(c, Acoins) = "0"} IN
    /\ conn[k].pc = "handle" /\ ~Refused(conn[k]) /\ conn[k].kind = "deposit"
    /\ numWrites' = numWrites \cup {<<conn[k].relay, conn[k].num>>}
    /\ Store(ok) /\ Redeem(ok)
    /\ conn' = [conn EXCEPT ![k].credit = Cardinality(conn[k].coins), ![k].pc = "credit"]
    /\ UNCHANGED <<balance, msgnum, clock, udp, sent, released, restarts, lost>>

\* ... or to Deposit.unpack_and_verify: every coin is marked at once, and the
\* credit for the accepted ones is left to the database.
HandleDeposit(k) ==
    LET ok == {c \in conn[k].coins : DepositCode(c, Acoins) = "0"} IN
    /\ conn[k].pc = "handle" /\ ~Refused(conn[k]) /\ conn[k].kind = "deposit"
    /\ numWrites' = numWrites \cup {<<conn[k].relay, conn[k].num>>}
    /\ Store(ok) /\ Redeem(ok)
    /\ conn' = [conn EXCEPT ![k].credit = Cardinality(ok),
                            ![k].pc = IF ok = {} THEN "balance" ELSE "credit"]
    /\ UNCHANGED <<balance, msgnum, clock, udp, sent, released, restarts, lost>>

\* An issued UPDATE of Msgnum is executed, in any order.
WriteMsgnum(w) ==
    /\ w \in numWrites
    /\ numWrites' = numWrites \ {w}
    /\ msgnum' = [msgnum EXCEPT ![w[1]] = w[2]]
    /\ UNCHANGED <<balance, clock, Acoins, udp, conn, sent, released, redeemed, restarts, lost>>

-----------------------------------------------------------------------------
(***************************************************************************)
(* The database steps of a request and of a deposit.                       *)
(***************************************************************************)

\* Variant: the balance is the one the bank remembers from its start.
ReadCached(k) ==
    /\ conn[k].pc = "read"
    /\ conn' = [conn EXCEPT ![k].bal = StartBalance[Owner[conn[k].relay]], ![k].pc = "update"]
    /\ UNCHANGED <<db, clock, Acoins, udp, sent, released, redeemed, restarts, lost>>

\* Request.unpack_and_mint's SELECT Balance.
ReadBalance(k) ==
    /\ conn[k].pc = "read"
    /\ conn' = [conn EXCEPT ![k].bal = balance[Owner[conn[k].relay]], ![k].pc = "update"]
    /\ UNCHANGED <<db, clock, Acoins, udp, sent, released, redeemed, restarts, lost>>

\* Variant: a bill that is too high is not answered.
UpdateNoReply(k) ==
    LET proposed == conn[k].bal - Cardinality(conn[k].coins) IN
    /\ conn[k].pc = "update"
    /\ proposed >= 0
    /\ balance' = [balance EXCEPT ![Owner[conn[k].relay]] = proposed]
    /\ conn' = [conn EXCEPT ![k].code = "0", ![k].bal = proposed, ![k].pc = "reply"]
    /\ UNCHANGED <<msgnum, numWrites, clock, Acoins, udp, sent, released, redeemed, restarts, lost>>

\* Request.update_account: the new balance is the one read before, minus the
\* bill, and is written as an absolute value.
UpdateAccount(k) ==
    LET proposed == conn[k].bal - Cardinality(conn[k].coins) IN
    /\ conn[k].pc = "update"
    /\ \/ /\ proposed >= 0
          /\ balance' = [balance EXCEPT ![Owner[conn[k].relay]] = proposed]
          /\ conn' = [conn EXCEPT ![k].code = "0", ![k].bal = proposed, ![k].pc = "reply"]
       \/ /\ proposed < 0
          /\ conn' = [conn EXCEPT ![k].code = "1", ![k].pc = "reply"]
          /\ UNCHANGED balance
    /\ UNCHANGED <<msgnum, numWrites, clock, Acoins, udp, sent, released, redeemed, restarts, lost>>

\* Deposit.update_account: Balance = Balance + credit.
CreditAccount(k) ==
    /\ conn[k].pc = "credit"
    /\ balance' = [balance EXCEPT ![Owner[conn[k].relay]] = @ + conn[k].credit]
    /\ conn' = [conn EXCEPT ![k].pc = "balance"]
    /\ UNCHANGED <<msgnum, numWrites, clock, Acoins, udp, sent, released, redeemed, restarts, lost>>

\* Deposit.get_balance.
GetBalance(k) ==
    /\ conn[k].pc = "balance"
    /\ conn' = [conn EXCEPT ![k].bal = balance[Owner[conn[k].relay]],
                            ![k].code = "0", ![k].pc = "reply"]
    /\ UNCHANGED <<db, clock, Acoins, udp, sent, released, redeemed, restarts, lost>>

\* send_reply and Deposit.reply through TCPServer.reply: the answer goes out,
\* with the signatures of a successful request, and the connection is dropped.
Reply(k) ==
    /\ conn[k].pc = "reply"
    /\ released' = released \cup
           (IF conn[k].kind = "request" /\ conn[k].code = "0" THEN conn[k].coins ELSE {})
    /\ conn' = [conn EXCEPT ![k] = Free]
    /\ UNCHANGED <<db, clock, Acoins, udp, sent, redeemed, restarts, lost>>

\* A transaction fails.  In fetch_sym_key the errback of sym_decrypt answers;
\* inside a handler nobody listens and the connection is left as it is until
\* the client gives up.
DbFailure(k) ==
    /\ DbFaults
    /\ conn[k].pc \in {"select", "read", "update", "credit", "balance"}
    /\ conn[k].pc = "update" => conn[k].bal >= Cardinality(conn[k].coins)
    /\ conn' = [conn EXCEPT ![k].code = "error",
                            ![k].pc = IF @ = "select" THEN "reply" ELSE "stuck"]
    /\ lost' = lost + (IF conn[k].pc = "credit" THEN conn[k].credit ELSE 0)
    /\ UNCHANGED <<db, clock, Acoins, udp, sent, released, redeemed, restarts>>

\* connectionLost on a connection that will never be answered.
ConnectionLost(k) ==
    /\ conn[k].pc = "stuck"
    /\ conn' = [conn EXCEPT ![k] = Free]
    /\ UNCHANGED <<db, clock, Acoins, udp, sent, released, redeemed, restarts, lost>>

-----------------------------------------------------------------------------
(***************************************************************************)
(* Payments over UDP.                                                      *)
(***************************************************************************)

\* Variant: the cache is never trimmed.
DatagramKept(m) ==
    LET ok == {p \in Pays[m] : DepositCode(p[1], Acoins) = "0"} IN
    /\ \A p \in Pays[m] : p[1] \in released
    /\ m \notin DOMAIN cache
    /\ Store({p[1] : p \in ok}) /\ Redeem({p[1] : p \in ok})
    /\ released' = released \cup {p[2] : p \in ok}
    /\ queue' = Append(queue, m)
    /\ cache' = [n \in DOMAIN cache \cup {m} |-> IF n = m THEN Pays[m] ELSE cache[n]]
    /\ UNCHANGED <<db, clock, conn, sent, restarts, lost>>

\* UDPServer.datagramReceived: a datagram whose reply is cached gets that
\* reply again.  Any other goes through Payment.on_message, which redeems the
\* valid coins and signs a token for each, and its reply is cached; the oldest
\* entries make room.
DatagramReceived(m) ==
    LET ok == {p \in Pays[m] : DepositCode(p[1], Acoins) = "0"}
        longer == Append(queue, m)
        over == IF Len(longer) > MAX_SIZE THEN Len(longer) - MAX_SIZE ELSE 0
        kept == SubSeq(longer, over + 1, Len(longer))
    IN
    /\ \A p \in Pays[m] : p[1] \in released
    /\ \/ /\ m \in DOMAIN cache
          /\ UNCHANGED <<Acoins, redeemed, released, udp>>
       \/ /\ m \notin DOMAIN cache
          /\ Store({p[1] : p \in ok}) /\ Redeem({p[1] : p \in ok})
          /\ released' = released \cup {p[2] : p \in ok}
          /\ queue' = kept
          /\ cache' = [n \in Range(kept) |->
                         IF n = m THEN [p \in Pays[m] |-> DepositCode(p[1], Acoins)]
                                  ELSE cache[n]]
    /\ UNCHANGED <<db, clock, conn, sent, restarts, lost>>

-----------------------------------------------------------------------------
(***************************************************************************)
(* Intervals.                                                              *)
(***************************************************************************)

\* The wall clock enters the next interval.  An interval lasts 12 hours and the
\* bank looks it up a minute after the start, so a bank that still looks
\* intervals up is never two behind.
Tick ==
    /\ today < MaxInterval
    /\ today = current \/ ~lookup
    /\ today' = today + 1
    /\ UNCHANGED <<db, current, lookup, Acoins, udp, conn, sent, released, redeemed, restarts, lost>>

\* Variant: all repositories start empty in a new interval.
LearnAfresh ==
    /\ lookup /\ today > current
    /\ current' = today
    /\ Acoins' = [i \in {Previous(today), today} |-> {}]
    /\ UNCHANGED <<db, today, lookup, udp, conn, sent, released, redeemed, restarts, lost>>

\* learned_current_acoin_interval and on_new_interval: an empty repository for
\* the new interval, none for the one that has expired, and the next lookup.
LearnInterval ==
    /\ lookup /\ today > current
    /\ current' = today
    /\ Acoins' = [i \in (DOMAIN Acoins \cup {today}) \ {Previous(today) - 1} |->
                    IF i = today THEN {} ELSE Acoins[i]]
    /\ UNCHANGED <<db, today, lookup, udp, conn, sent, released, redeemed, restarts, lost>>

\* The lookup's transaction fails, or finds too few rows: err prints, or
\* learned_current_acoin_interval returns early, and no lookup is scheduled.
LookupFails ==
    /\ DbFaults /\ lookup /\ today > current
    /\ lookup' = FALSE
    /\ UNCHANGED <<db, today, current, Acoins, udp, conn, sent, released, redeemed, restarts, lost>>

\* The process is stopped and started: initialize builds empty repositories
\* for the interval it is in, caches and connections are gone.
Restart ==
    /\ restarts < MaxRestarts
    /\ restarts' = restarts + 1
    /\ current' = today /\ lookup' = TRUE
    /\ Acoins' = [i \in {Previous(today), today} |-> {}]
    /\ cache' = <<>> /\ queue' = <<>>
    /\ conn' = [k \in Conns |-> Free]
    /\ numWrites' = {}
    /\ UNCHANGED <<balance, msgnum, today, sent, released, redeemed, lost>>

-----------------------------------------------------------------------------
Init ==
    /\ balance = StartBalance
    /\ msgnum = [r \in Relays |-> 0] /\ sent = [r \in Relays |-> 0]
    /\ numWrites = {}
    /\ today = FirstInterval /\ current = FirstInterval /\ lookup = TRUE
    /\ Acoins = [i \in {Previous(FirstInterval), FirstInterval} |-> {}]
    /\ cache = <<>> /\ queue = <<>>
    /\ conn = [k \in Conns |-> Free]
    /\ released = Outstanding
    /\ redeemed = [c \in Coins |-> 0]
    /\ restarts = 0 /\ lost = 0

\* What the event loop and the database do for a connection once it is open.
Serve(k) ==
    \/ FetchSymKey(k) \/ Refuse(k) \/ HandleRequest(k) \/ HandleDeposit(k)
    \/ ReadBalance(k) \/ UpdateAccount(k) \/ CreditAccount(k) \/ GetBalance(k)
    \/ Reply(k) \/ ConnectionLost(k)

Next ==
    \/ \E k \in Conns, r \in Relays, kind \in {"request", "deposit"}, coins \in SUBSET Coins :
          StringReceived(k, r, kind, coins)
    \/ \E k \in Conns : Serve(k) \/ DbFailure(k)
    \/ \E w \in numWrites : WriteMsgnum(w)
    \/ \E m \in Datagrams : DatagramReceived(m)
    \/ Tick \/ LearnInterval \/ LookupFails \/ Restart

Spec == Init /\ [][Next]_vars

-----------------------------------------------------------------------------
(***************************************************************************)
(* Properties.                                                             *)
(***************************************************************************)
OpenConn == [pc : {"select", "handle", "read", "update", "credit", "balance", "reply", "stuck"},
             relay : Relays, kind : {"request", "deposit"}, coins : SUBSET Coins,
             num : Nat, prev : Nat, bal : Int, credit : Nat,
             code : {"none", "0", "1", "error"}]

\* Every variable has the shape the code gives it; in particular no balance
\* written by Request.update_account or Deposit.update_account is negative.
TypeOK ==
    /\ balance \in [Users -> Nat]
    /\ msgnum \in [Relays -> Nat] /\ sent \in [Relays -> Nat]
    /\ numWrites \subseteq Relays \X Nat
    /\ today \in Nat /\ current \in Nat /\ lookup \in BOOLEAN
    /\ DOMAIN Acoins \subseteq Int /\ \A i \in DOMAIN Acoins : Acoins[i] \subseteq Coins
    /\ DOMAIN cache \subseteq Datagrams /\ queue \in Seq(Datagrams)
    /\ conn \in [Conns -> {Free} \cup OpenConn]
    /\ released \subseteq Coins
    /\ redeemed \in [Coins -> Nat]
    /\ restarts \in Nat /\ lost \in Nat

\* As long as the bank is not restarted, deposit_acoin accepts a coin at most once
\* in its life, however deposits, payments, repeated datagrams and interval
\* changes interleave.
AcceptedOnce == restarts = 0 => \A c \in Coins : redeemed[c] <= 1

\* on_new_interval keeps exactly the repositories deposit_acoin may index: the
\* lookup Globals.Acoins[coin.interval] never misses for a valid coin, and
\* expired repositories do not pile up.
LiveRepositories == DOMAIN Acoins = {Previous(current), current}

\* UDPServer.reply keeps the queue and the cache in step and within MAX_SIZE:
\* del cache[queue.pop(0)] always finds its key.
CacheInStep ==
    /\ Len(queue) <= MAX_SIZE
    /\ DOMAIN cache = Range(queue)
    /\ \A i, j \in DOMAIN queue : queue[i] = queue[j] => i = j

\* The balance a Request computes with is still the balance of the account when
\* the absolute value is written, although a SELECT and an UPDATE are two
\* transactions: no credit or debit falls in between.
ReadIsFresh ==
    \A k \in Conns : conn[k].pc = "update" => conn[k].bal = balance[Owner[conn[k].relay]]

\* A relay that numbers its messages 1, 2, 3, ... is never taken for a replay,
\* although the UPDATEs of Msgnum are not awaited and may be executed late and
\* out of order.
InOrderAccepted ==
    \A k \in Conns : conn[k].pc = "handle" => conn[k].num > conn[k].prev

\* The bank's tables fit each other at every moment, over failing lookups and
\* restarts too.
TablesInStep == LiveRepositories /\ CacheInStep

\* One connection per account at a time (the client's Bank.send_message queues its
\* other messages) is all the bank needs to be right about balances and numbers.
SerializedSound == Serialized => ReadIsFresh /\ InOrderAccepted

\* What the accounts, the coins in circulation and the handlers in progress are
\* worth together.
Owed(k) ==
    IF conn[k].pc = "credit" THEN conn[k].credit
    ELSE IF conn[k].pc = "reply" /\ conn[k].kind = "request" /\ conn[k].code = "0"
         THEN Cardinality(conn[k].coins) ELSE 0
Worth ==
    SumFunction(balance) + SumFunction([k \in Conns |-> Owed(k)])
      + Cardinality({c \in released : redeemed[c] = 0})

\* Withdrawing, paying and depositing in any order creates no money, and loses
\* none but the credit of a deposit whose transaction fails after its coins have
\* been marked.  (A restarted bank has forgotten the coins it redeemed.)
Conserved ==
    restarts = 0 => Worth + lost = SumFunction(StartBalance) + Cardinality(Outstanding)

=============================================================================

# BitBlinder in TLA+

BitBlinder is an anonymising network in which the users of a relay pay for the
traffic it carries. A circuit runs through a modified Tor (`src/innomitor`); a
Python client (`src/client`) drives that Tor and pays every hop with *ACoins*,
blindly signed coins that a bank (`src/bank`) issues and takes back. This
directory models the money and the traffic it pays for: the bank, the wallet of
a client, the payment protocol of a circuit, the decision when to pay, the
transport of the payment messages and the token accounting inside Tor.

## The parts of the system

| part | sources | modules |
|---|---|---|
| bank server | `bank/BankServer.py`, `ACoinMessages.py`, `BankUtil.py` | `BankServer`, `BankServerProofs` |
| wallet and bank connection | `client/core/bank/*` | `Wallet` |
| when and how much to pay | `client/core/tor/Circuit.py`, `EventHandler.py` | `PaymentSize`, `Refill`, `RefillProofs` |
| payment protocol of a circuit (PAR) | `ClientPaymentHandler.py`, `ServerPaymentHandler.py`, `PaymentStream.py`, `PaymentMessageHandler.py` | `Payments` |
| payment messages as Tor cells | `TorMessages.py`, `innomitor/src/or/command.c`, `control.c` | `TorMessages` |
| tokens and windows in Tor | `innomitor/src/or/relay.c`, `control.c` | `TorTokens` |
| login server | `bank/LoginSSLserver.py` | planned |
| UDP proxy for payments | `client/core/bank/UDPPayment.py` | its outcome, in `Payments` |
| life of circuits, streams, applications | `Circuit.py`, `Stream.py`, `SocksApp.py`, `Application.py` | planned |
| DHT lookups over a circuit | `client/core/network/dht` | their messages, in `TorMessages` |

They meet as follows. The **wallet** withdraws coins from the **bank** (a request)
and gives back those it earned (a deposit), over one TCP connection at a time.
When Tor reports (**TorTokens**) that a circuit runs low, the client decides on a
payment (**Refill**) and sends one coin and one merchant token for each hop
through the first hop to the bank by UDP; the bank answers with a coin for the
merchant, the merchant sends a receipt with fresh tokens and orders tokens from
its own Tor, and when all receipts are in, the origin orders its own
(**Payments**). All of these messages are cut into cells and put together again
by **TorMessages**.

The modules are separate because each is checked against all that its
environment can do: `Refill` and `TorTokens` let a payment end at any time,
`Payments` lets the bank, Tor and each hop answer, fail or be late, and `Wallet`
has its own small bank. `PaymentSize`, the arithmetic of `refill_payments`, is
shared by `Refill` and `TorTokens`.

## Modules and code

`PROJECT.json` maps every definition to its lines. Here is the shape.

**BankServer.** A step is one callback of the Twisted event loop or one database
transaction; between two of them anything may happen. `conn[k].pc` says which
callback of a TCP connection is due: `select` (`fetch_sym_key`), `handle`
(`update_db`, `handle_message`), `read` and `update` (the two transactions of a
`Request`), `credit` and `balance` (those of a `Deposit`), `reply`, or `stuck`
after a failed transaction that nobody listens to. `numWrites` holds the updates
of `Msgnum`, which the code issues and does not await. `DatagramReceived` is the
whole UDP handler, with the reply cache and its eviction. `Tick`,
`LearnInterval`, `LookupFails` and `Restart` are the clock, the chain of
lookups and the loss of everything in memory. Coins and merchant tokens are model
values, and signatures are perfect. A coin is worth one credit.
Payments over TCP and the event log are left out.

**Wallet.** `cl` is the memory of the `Bank` object: the coins by interval, those
being deposited, the message queue, the two in-progress flags and the
connections; `files` are the two coin files. `RequestCoins`, `Deposit`,
`CheckWallet`, `SendNext`, `MessageDone` and so on are functions on `cl` and have
the names of the methods, so that an action such as `UpdateTimer` composes all
the calls of its handler. `Stop`, `ShutdownTimeout`, `Exit` and `Crash` end a
client, and a login starts it again from its files. What the bank does with a
message is one external step.

**PaymentSize, Refill.** The numbers of a payment, and the account of a circuit:
`payed` (Tor's counters), `inflight` and the payments in progress, both before
ADDTOKENS and between ADDTOKENS and its answer. Traffic is one cell at a time.

**Payments.** Setup, requests, payments, receipts, both timers, ADDTOKENS and its
answer, and closing, for `N` hops. `par` is the `ClientPaymentHandler` with the
flags of its circuit, `stream[h]` the `PaymentStream`, `relay[h]` the
`ServerPaymentHandler`; messages in `net` are received in any order. A circuit
may be closed at any node at any time, and messages to a closed node are dropped.
Tokens are counted in payments, one coin each (theorem `OnePaymentIsEnough`
says when that is exact).

**TorMessages.** Cells in FIFO links, Tor's control commands, one buffer per
circuit and node. Messages sent directly go hop by hop; messages sent over the
circuit arrive as relay cells.

**TorTokens.** Per node the tokens of both directions, per direction the package
and deliver windows, the cells on every link and whether the end reads its
streams. `Package`, `Receive` and `ADDTOKENS` contain everything that the C
functions call: stopping, resuming and sending sendmes. The origin
pays by the rule of `PaymentSize`, hops receive a payment in any order among
themselves, and the origin adds its own tokens last.

The `MC*` modules give the instances their values, and `MCBankServer` defines
`Conserved`, which needs sums.

## Runs

| run | question | bounds |
|---|---|---|
| `bank` | No coin accepted twice, no money created or lost, the two live repositories exist, the cache and its queue agree; every message is answered and the bank follows the clock. | 2 accounts, 2 connections, 2 datagrams over the same coin, 3 intervals, cache of 1, 1 message per relay |
| `bank_faults` | The same structures with late `Msgnum` writes, failing transactions and lookups and a restart: reads are fresh and counted messages are accepted. | 1 account, 2 messages, 1 restart |
| `bank_lost_update` | *violation*: two relays of one account | two connections of one account at once |
| `wallet` | No coin lost, none offered again after it was spent, one connection, no coin of a dead interval, every deposit ends. | 3 coins of 2 intervals, 3 intervals, 1 failure |
| `wallet_crash` | Stop, crash anywhere, restart from the files: a coin is in one place, the flags are honest, a stop saves what is in deposit. | 2 coins, 1 crash |
| `refill` | Payments are exact, the inflight tokens are those of the payments in progress, the merchant tokens suffice, the account recovers. | cells of 3 bytes, payments of 15 cells, low mark of 3 cells |
| `tor_download` | A paid download over a relay and an exit: windows agree, nobody closes the circuit as unpaid, data keeps flowing. | 2 hops, windows of 8 and 4 |
| `tor_both_ways` | With data both ways no window is overrun. | 1 hop, windows of 4 and 2 |
| `payments` | Hops are paid before the origin uses what it paid for, as long as the wallet had coins; merchant tokens are known to their relay, in one place, and their stock is kept; no payment is forgotten, and each ends. | 2 hops, 3 payments, 2 tokens, 3 coins and one more later |
| `payments_unpaid` | *violation*: the wallet runs out | 2 coins, 2 payments |
| `messages` | Payment messages and short DHT messages arrive whole and all arrive. | 2 hops, 6 messages of 1 or 2 cells |
| `messages_setup` | *violation*: setup replies | 2 replies of 2 cells |

Bounds are named constants and are chosen for the case that could go wrong:
three intervals, because a repository is deleted at the second change; a cache
of one datagram, so that it overflows; two datagrams that pay with the same
coin; a payment more than the merchant tokens; windows of two increments and a
low mark that keeps the proportions of the code (a window of 1000 cells that
moves by 100, payments of 5 MB, a low mark of 1 MB). The proportions matter: an
ordinary window is smaller than the low mark and two low marks are smaller than
a payment.

Deadlock is checked, except where the system may stop: a circuit that was closed
or made its last payment (`payments*`, `tor_both_ways`) and a set of messages
that were all delivered (`messages*`).

### Fairness

- Bank: weak fairness of each connection's next callback, the pending updates and
  the interval lookup. The reactor runs what is due and the database answers.
  Clients and the clock have no obligation, and fault actions are never fair.
- Wallet: weak fairness of what the reactor and the bank still have to do, strong
  fairness of the ten-second timer firing while the client is idle. It fires
  for ever, and weak fairness would let it find the client busy each time.
- Refill, Payments, TorTokens: Tor's event of every second, Tor's answers to its
  commands and the timers of `PAR_TIMEOUT`. `PaymentsEnd` assumes nothing of the
  network, the hops and the bank: the timers alone end a payment. In
  `Refill` and `TorTokens` a payment arrives in the end, since otherwise
  the circuit is closed. `TorTokens` also assumes that streams have data.
- TorMessages: Tor executes commands and processes cells.

### Where the code and its documents disagree

Three runs show it:

1. `bank_lost_update`: `Request.update_account` writes an absolute balance computed
   from an earlier transaction. Two messages of one account at once lose a credit,
   and `acoins.txt:120` says that nobody can lose money.
   With one connection per account this cannot happen (`ReadIsFresh`, proved).
2. `payments_unpaid`: when the wallet is empty, `PaymentStream` fails its deferred,
   whose first errback logs the error and swallows it. `all_receipts_received`
   sees a success and the origin takes tokens for which no hop was paid.
3. `messages_setup`: replies of two hops interleave in the origin's only buffer.

More is seen by changing one constant of a passing configuration and looking at
the property named; the runs keep to the side on which the property holds:

| configuration | constant | property that fails | code |
|---|---|---|---|
| `BankServer.cfg` | `MaxRestarts = 1` | `AcceptedOnce` | spent coins are in memory only, `BankServer.py:84` (`acoins.txt:270`) |
| `BankServer.cfg` | `DbFaults = TRUE` | `FollowsClock` | a failed lookup ends the chain, `BankUtil.py:53` |
| `BankServer.cfg` | `DbFaults = TRUE` | `Conserved` | coins are marked before the credit, `ACoinMessages.py:190` |
| `Wallet.cfg` | `Prompt = FALSE` | `SingleConnection` | login still closing, `LoginFactory.py:76` (`Bank.py:102`) |
| `Wallet.cfg` | `MaxJump = 2` | `NoBadIntervals` | only one old interval is cleared, `Bank.py:450` (`:536`) |
| `Wallet.cfg` | `Stops = TRUE` | `NoCoinLost` | `deposit_acoins` returns early, `Bank.py:409` (`acoins.txt:250`) |
| `Wallet.cfg` | `MaxCrashes = 1` | `NoCoinLost`, `SpentForGood` | files are written later, `Bank.py:551`, `:657` |
| `Wallet.cfg` | `BankErrors = TRUE` | `NoCoinLost` | an error text is parsed as an answer, `ACoinDepositFactory.py:29` |

## Proofs

`BankServerProofs`, from `BankAssumption` alone, for any number of accounts,
connections, coins, datagrams and intervals:

- `TypeCorrect`: `TypeOK`, one step per action. No balance is negative because
  a request compares before it writes and a deposit only adds.
- `RepositoriesLive`: `LiveRepositories`. It is not inductive: the deletion
  of `previous - 1` is only right if no interval was skipped. `ClockInv` adds
  that a bank that still looks intervals up is at most one behind.
- `NoDoubleSpending` (`MaxRestarts = 0`): `AcceptedOnce`. `Remembered` says
  that a redeemed coin is not from the future, and that its repository has it as
  long as its interval is live; so when the repository goes the coin has expired.
- `SerializedReadsAreFresh`, `SerializedNumbersAccepted` (`Serialized`):
  `ReadIsFresh` and `InOrderAccepted`, from `SerialInv`: one open connection per
  account, whose number is above everything stored or still to be written.

`RefillProofs`, from `SizeAssumption` and `RefillAssumption`:

- `LeftoverPositive`: the assertion of `refill_payments` on `leftoverCells`, for
  all natural numbers, by two facts on integer division.
- `OnePaymentIsEnough`: a circuit that misses at most the low mark and one window
  increment each way asks for one payment, if a payment covers both
  together. In cells of the code: 2 (2048 + 100) + 2 < 10240.
- `TypeCorrect`, and `PaymentsAreExact` (`ExactPayments`): every payment is for
  exactly the cells its coins buy and at least one each way.

Only model-checked: `CacheInStep` and `Conserved` (a sum over a set), all of
`Wallet`, `Payments`, `TorTokens` and `TorMessages`, and the sums in `Refill`
(induction over a sequence). Liveness is beyond the prover.

## Limits of the models

- `NeverUnpaid` is checked for data in one direction and payments that reach a
  hop in the order in which they were made.
- `Payments` has one coin per payment.
- `Wallet` has one bank answer per message, and one size of message.
- Not modelled: the cryptography, stream windows and connection queues of stock
  Tor, the user interface, vendored code (BitTorrent, khashmir, antipool,
  pyasn1, miniupnpc) and the scripts in `authority`, `logging`, `relay_stats`,
  `server_manager` and `bank`.

## Plan

1. Done: the modules, runs and proofs above.
2. The UDP proxy: its retry timer against `PAR_TIMEOUT` and a bank that answers
   late, composed with the reply cache of `BankServer`.
3. The life of circuits and streams (`Circuit.py`, `Stream.py`, `SocksApp.py`)
   under Tor's events, with a circuit closed while its id is on the way, and the
   life of an application (start, stop and restart in any order).
4. The login server: agreement of the session key and the message number.
5. An abstract register of coins (issued, spent once, expired), and `BankServer`
   as an implementation of it, checked and proved; the same register under
   `Payments`.
6. Proofs: `CacheInStep`, `OnePlace` and `FlagsHonest` of the wallet,
   `RequestsKnown` and `NoneForgotten` of `Payments`.
7. The request and callback bookkeeping of the DHT proxy.

------------------------------ MODULE MCWallet ------------------------------
(***************************************************************************)
(* Wallet for TLC: a client that is left alone (part "calm", the constants *)
(* of the cfg), and one with a coin less that is stopped, crashed and      *)
(* started again.                                                          *)
(***************************************************************************)
EXTENDS Wallet

CONSTANTS a1, a2, b1

MCIntervalOf == [c \in Coins |-> IF c = b1 THEN 2 ELSE 1]

Crashing == INSTANCE Wallet WITH
              Coins <- {a1, b1}, IntervalOf <- [c \in {a1, b1} |-> IF c = b1 THEN 2 ELSE 1],
              MaxNum <- 1, MaxCrashes <- 1, Stops <- TRUE

VARIABLE part
walletVars == <<part, vars>>

WalletInit == \/ part = "calm" /\ Init
              \/ part = "crash" /\ Crashing!Init
WalletNext == /\ UNCHANGED part
              /\ \/ part = "calm" /\ Next
                 \/ part = "crash" /\ Crashing!Next

\* Fairness for the client that is left alone: the reactor goes on, the ten second
\* timer goes on firing and finds the client idle.
WalletSpec ==
    /\ WalletInit /\ [][WalletNext]_walletVars
    /\ WF_vars(part = "calm" /\ Progress)
    /\ SF_vars(part = "calm" /\ \E stale, late \in BOOLEAN : UpdateTimer(stale, late, FALSE))

\* Every deposit of a client that is left alone is over in the end.
DepositsOver ==
    \A c \in Coins : part = "calm" /\ c \in cl.depositing ~> c \notin cl.depositing
=============================================================================

---------------------------- MODULE OceanWallet ----------------------------
(***************************************************************************)
(* The ocean wallet, an external service the daemon reaches over gRPC, and *)
(* the chain it watches, as internal/infrastructure/ocean-wallet and       *)
(* internal/core/application/wallet use them.                              *)
(*                                                                         *)
(* SelectUtxos locks the coins it returns until a deadline.  A coin whose  *)
(* deadline has passed is unlocked and may be selected again.  A           *)
(* transaction reaches the chain first and the wallet later.  Each of      *)
(* these changes is announced on the stream of utxo notifications, which   *)
(* exists only while a daemon is listening.                                *)
(***************************************************************************)
EXTENDS Naturals, Sequences, FiniteSets

CONSTANTS
  Trades,       \* identifies a trade and the transaction that settles it
  MarketUtxos,  \* coins of the market account
  FeeUtxos,     \* coins of the fee account
  Nobody,       \* spender of an unspent coin
  LockTime      \* how long a selected coin stays locked

Utxos == MarketUtxos \cup FeeUtxos

ASSUME OceanAssumption ==
  /\ MarketUtxos \cap FeeUtxos = {}
  /\ Nobody \notin Trades
  /\ LockTime \in Nat \ {0}

VARIABLES
  lockedUntil,  \* deadline of the lock on a coin, 0 when it is not locked
  spender,      \* the transaction on the chain that spends a coin
  seen,         \* the transactions the wallet knows of
  confirmed,    \* the ones it has seen in a block
  stream        \* notifications sent and not yet received by the daemon

oceanVars == <<lockedUntil, spender, seen, confirmed, stream>>

OceanInit ==
  /\ lockedUntil = [u \in Utxos |-> 0]
  /\ spender = [u \in Utxos |-> Nobody]
  /\ seen = {}
  /\ confirmed = {}
  /\ stream = <<>>

Notify(listening, type, utxos) ==
  stream' = IF listening
            THEN Append(stream, [type |-> type, utxos |-> utxos])
            ELSE stream

\* The coins of an account the wallet believes it can spend.
Spendable(account) ==
  {u \in account : lockedUntil[u] = 0 /\ spender[u] \notin seen}

SelectUtxos(utxos, now) ==
  /\ lockedUntil' = [u \in Utxos |-> IF u \in utxos THEN now + LockTime
                                                    ELSE lockedUntil[u]]
  /\ Notify(TRUE, "LOCKED", utxos)
  /\ UNCHANGED <<spender, seen, confirmed>>

\* Locks past their deadline are released together.
UnlockExpired(now, listening) ==
  LET released == {u \in Utxos : lockedUntil[u] \in 1..now}
  IN  /\ released # {}
      /\ lockedUntil' = [u \in Utxos |-> IF u \in released THEN 0
                                                           ELSE lockedUntil[u]]
      /\ Notify(listening, "UNLOCKED", released)
      /\ UNCHANGED <<spender, seen, confirmed>>

\* The transaction of trade t spends utxos, unless some other got there first.
CanSpend(t, utxos) == \A u \in utxos : spender[u] \in {Nobody, t}
Spend(t, utxos) ==
  /\ CanSpend(t, utxos)
  /\ spender' = [u \in Utxos |-> IF u \in utxos THEN t ELSE spender[u]]
  /\ UNCHANGED <<lockedUntil, seen, confirmed, stream>>

\* The wallet learns of a transaction: its coins are no longer locked.
SeeSpent(t, listening) ==
  LET spent == {u \in Utxos : spender[u] = t}
  IN  /\ spent # {}
      /\ t \notin seen
      /\ seen' = seen \cup {t}
      /\ lockedUntil' = [u \in Utxos |-> IF u \in spent THEN 0
                                                        ELSE lockedUntil[u]]
      /\ Notify(listening, "SPENT", spent)
      /\ UNCHANGED <<spender, confirmed>>

SeeConfirmed(t, listening) ==
  /\ t \in seen \ confirmed
  /\ confirmed' = confirmed \cup {t}
  /\ Notify(listening, "CONFIRMED_SPENT", {u \in Utxos : spender[u] = t})
  /\ UNCHANGED <<lockedUntil, spender, seen>>
=============================================================================

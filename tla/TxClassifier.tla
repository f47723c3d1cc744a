----------------------------- MODULE TxClassifier -----------------------------
(***************************************************************************)
(* Deposits and withdrawals (internal/core/application/operator/           *)
(* service.go, classifyAndStoreTx): a transaction of the wallet is         *)
(* notified several times, classified for each account it concerns, stored *)
(* and announced by a goroutine.                                           *)
(*                                                                         *)
(* The records of different transactions have different keys, so one       *)
(* transaction is followed.  Coins of the same owner and asset are added   *)
(* up: the classification asks which assets an account spends and gets,    *)
(* and how much.                                                           *)
(***************************************************************************)
EXTENDS Integers, FiniteSetsExt

CONSTANTS
  FeeAccount,
  Markets,        \* the accounts of markets
  Fragmenters,    \* the accounts of the fragmenters
  Outside,        \* everybody else
  Assets,
  NativeAsset,
  Transactions,   \* candidates for the transaction
  Word,           \* the number of unsigned integers
  NoRecord,
  MaxEvents,      \* bound on the notifications
  MaxFaults       \* bound on failed writes and crashes

Accounts == {FeeAccount} \cup Markets \cup Fragmenters
Owners == Accounts \cup {Outside}

ASSUME ClassifierAssumption ==
  /\ NativeAsset \in Assets
  /\ Outside \notin Accounts
  /\ FeeAccount \notin Markets \cup Fragmenters
  /\ Markets \cap Fragmenters = {}
  /\ Word \in Nat \ {0} /\ {MaxEvents, MaxFaults} \subseteq Nat
  /\ Transactions \subseteq [in : [Owners -> [Assets -> 0..(Word - 1)]],
                            out : [Owners -> [Assets -> 0..(Word - 1)]],
                            fee : Nat, known : BOOLEAN]
  /\ \A S \in SUBSET Assets : /\ NoRecord \notin [S -> Int]
                               /\ NoRecord \notin [account : Accounts, amounts : [S -> Int]]

VARIABLES
  tx,             \* the transaction
  events,         \* notifications sent so far
  handler,        \* classifyAndStoreTx
  deposits,       \* the stored deposits of the transaction
  withdrawals,    \* the stored withdrawal of the transaction
  addresses,      \* the markets whose account the wallet holds
  markets,        \* the markets in the repository
  pending,        \* events that goroutines are about to publish
  published,      \* events published (history)
  up,
  faults,
  handled         \* a notification was handled to its end (history)

vars == <<tx, events, handler, deposits, withdrawals, addresses, markets, pending,
          published, up, faults, handled>>

Total(amounts, asset) == MapThenSumSet(LAMBDA o : amounts[o][asset], Owners)

Spent(a) == {asset \in Assets : tx.in[a][asset] > 0}
Gained(a) == {asset \in Assets : tx.out[a][asset] > 0}
Spenders == {o \in Owners : Spent(o) # {}}

\* The transactions there are: of others; of the daemon, which spends the coins
\* of at most one account besides those of the fee account; and trades, where a
\* market and somebody else spend, and the market gets an asset that it does not
\* spend.
Possible ==
  /\ \A asset \in Assets : Total(tx.in, asset) =
       Total(tx.out, asset) + (IF asset = NativeAsset THEN tx.fee ELSE 0)
  /\ \A a \in Accounts : \A asset \in Spent(a) : tx.out[a][asset] <= tx.in[a][asset]
  /\ Spenders # {}
  /\ \/ Spenders = {Outside}
     \/ \E a \in Accounts : Spenders \subseteq {a, FeeAccount}
     \/ \E m \in Markets : /\ {m, Outside} \subseteq Spenders
                           /\ Spenders \subseteq {m, FeeAccount, Outside}
                           /\ Gained(m) \ Spent(m) # {}

\* The accounts a notification names.
AccountNames == {a \in Accounts : Spent(a) \cup Gained(a) # {}}

-----------------------------------------------------------------------------
(***************************************************************************)
(* The classification.                                                     *)
(***************************************************************************)
\* getTxInfo finds the coins of an account by its addresses, and an account that
\* the wallet no longer holds has none.
Owned(a) == a \notin Markets \/ a \in addresses
ownedInputs(a) == IF Owned(a) THEN Spent(a) ELSE {}
ownedOutputs(a) == IF Owned(a) THEN Gained(a) ELSE {}

\* The inputs of others count if the wallet knows the transactions they spend.
notOwnedInputs(a) == Spenders \ ({a} \cup (IF tx.known THEN {} ELSE {Outside}))
notOwnedOutputs(a) == {o \in Owners \ {a} : Gained(o) # {}}

isDeposit(a) == ownedInputs(a) = {} /\ ownedOutputs(a) # {}

\* An account that pays, and gets another asset for it, has withdrawn.
AnySpender(a) ==
  IF a = FeeAccount
  THEN ownedInputs(a) # {} /\ notOwnedInputs(a) = {} /\ notOwnedOutputs(a) # {}
  ELSE ownedInputs(a) # {} \/ ownedOutputs(a) = {}

isWithdrawal(a) ==
  IF a = FeeAccount
  THEN ownedInputs(a) # {} /\ notOwnedInputs(a) = {} /\ notOwnedOutputs(a) # {}
  ELSE ownedOutputs(a) \subseteq ownedInputs(a)

depositAmountPerAsset(a) == [asset \in ownedOutputs(a) |-> tx.out[a][asset]]

\* The difference of the coins spent and the change; the network fee is not a
\* withdrawal of the fee account.
withdrawalAmountPerAsset(a) ==
  [asset \in ownedInputs(a) |->
     (tx.in[a][asset] - tx.out[a][asset]
        - (IF a = FeeAccount /\ asset = NativeAsset THEN tx.fee ELSE 0)) % Word]

Kinds == {"deposit", "withdrawal"}

\* The records to insert, those of the list that goes to the goroutine, those of
\* the second list, and how many were new.
Handler(pc, todo, list, second, count) ==
  [pc |-> pc, todo |-> todo, list |-> list, second |-> second, count |-> count]
Waiting == Handler("wait", {}, {}, {}, 0)

NoEvents == [k \in Kinds |-> [a \in Accounts |-> 0]]

Init ==
  /\ tx \in Transactions
  /\ Possible
  /\ events = 0
  /\ handler = Waiting
  /\ deposits = [a \in Accounts |-> NoRecord]
  /\ withdrawals = NoRecord
  /\ addresses = Markets
  /\ markets = Markets
  /\ pending = NoEvents
  /\ published = NoEvents
  /\ up = TRUE
  /\ faults = 0
  /\ handled = FALSE

-----------------------------------------------------------------------------
(***************************************************************************)
(* The handler: deposits, then withdrawals.                                *)
(***************************************************************************)
HandlerVars == <<tx, events, addresses, markets, published, up, handled>>

\* A notification of a transaction that was broadcast or seen; one that finds the
\* goroutine busy is dropped.
Receive ==
  LET new == {[account |-> a, amounts |-> depositAmountPerAsset(a)] :
                a \in {b \in AccountNames : isDeposit(b)}}
      gone == {[account |-> a, amounts |-> withdrawalAmountPerAsset(a)] :
                a \in {b \in AccountNames : isWithdrawal(b)}}
  IN  /\ up
      /\ events < MaxEvents
      /\ events' = events + 1
      /\ handler' = IF handler = Waiting THEN Handler("deposit", new, new, gone, 0)
                    ELSE handler
      /\ UNCHANGED <<tx, deposits, withdrawals, addresses, markets, pending, published,
                     up, faults, handled>>

\* The record of an account is inserted unless its key is taken.  The key of a
\* deposit is made of account and transaction, that of a withdrawal is the
\* transaction.
InsertDeposit(r) ==
  /\ handler.pc = "deposit"
  /\ deposits' = IF deposits[r.account] = NoRecord
                 THEN [deposits EXCEPT ![r.account] = r.amounts] ELSE deposits
  /\ UNCHANGED withdrawals

InsertWithdrawal(r) ==
  /\ handler.pc = "withdrawal"
  /\ withdrawals' = IF withdrawals = NoRecord THEN r ELSE withdrawals
  /\ UNCHANGED deposits

InsertRecord ==
  \E r \in handler.todo :
    /\ InsertDeposit(r) \/ InsertWithdrawal(r)
    /\ handler' = [handler EXCEPT
         !.todo = @ \ {r},
         !.count = IF <<deposits, withdrawals>>' = <<deposits, withdrawals>> THEN @ ELSE @ + 1]
    /\ UNCHANGED <<HandlerVars, pending, faults>>

\* From deposits to withdrawals, and from these to the next notification.
AfterInserts ==
  IF handler.pc = "deposit"
  THEN handler' = Handler("withdrawal", handler.second, handler.second, {}, 0)
       /\ UNCHANGED handled
  ELSE handler' = Waiting /\ handled' = TRUE

\* An error ends the insertions, and nothing is announced.
InsertFails ==
  /\ handler.todo # {}
  /\ faults < MaxFaults
  /\ faults' = faults + 1
  /\ AfterInserts
  /\ UNCHANGED <<tx, events, deposits, withdrawals, addresses, markets, pending, published, up>>

NumOf(list, a) == Cardinality({r \in list : r.account = a})

\* All records are announced, new or not.
AnnounceAlways ==
  /\ handler.pc # "wait"
  /\ handler.todo = {}
  /\ pending' = [pending EXCEPT ![handler.pc] =
                   [a \in Accounts |-> @[a] + NumOf(handler.list, a)]]
  /\ AfterInserts
  /\ UNCHANGED <<tx, events, deposits, withdrawals, addresses, markets, published, up, faults>>

\* If any record was new, a goroutine announces the whole list.
Announce ==
  /\ handler.pc # "wait"
  /\ handler.todo = {}
  /\ pending' =
       IF handler.count = 0 THEN pending
       ELSE [pending EXCEPT ![handler.pc] =
               [a \in Accounts |-> @[a] + NumOf(handler.list, a)]]
  /\ AfterInserts
  /\ UNCHANGED <<tx, events, deposits, withdrawals, addresses, markets, published, up, faults>>

-----------------------------------------------------------------------------
(***************************************************************************)
(* The goroutines.                                                         *)
(***************************************************************************)
Dies ==
  /\ up' = FALSE
  /\ handler' = Waiting
  /\ pending' = NoEvents
  /\ UNCHANGED <<tx, events, deposits, withdrawals, addresses, markets, published, handled>>

\* The accounts whose event needs no lookup, or finds its market.
Known(a) == a = FeeAccount \/ a \in Fragmenters \/ a \in markets

\* A fragmenter ends the loop instead of being passed over.
PublishUntilFragmenter(k) ==
  \E a \in Accounts :
    /\ pending[k][a] > 0
    /\ Known(a)
    /\ IF a \in Fragmenters
       THEN /\ pending' = [pending EXCEPT ![k] = [b \in Accounts |-> 0]]
            /\ UNCHANGED published
       ELSE /\ pending' = [pending EXCEPT ![k][a] = @ - 1]
            /\ published' = [published EXCEPT ![k][a] = @ + 1]
    /\ UNCHANGED <<tx, events, handler, deposits, withdrawals, addresses, markets, up, faults, handled>>

\* One event, in the order of the list; the fragmenters are passed over.
Publish(k) ==
  \E a \in Accounts :
    /\ pending[k][a] > 0
    /\ Known(a)
    /\ pending' = [pending EXCEPT ![k][a] = @ - 1]
    /\ published' = IF a \in Fragmenters THEN published
                    ELSE [published EXCEPT ![k][a] = @ + 1]
    /\ UNCHANGED <<tx, events, handler, deposits, withdrawals, addresses, markets, up, faults, handled>>

\* A market that is gone is dereferenced, which ends the process.
PublishPanics(k) ==
  /\ \E a \in Accounts : pending[k][a] > 0 /\ ~Known(a)
  /\ Dies
  /\ UNCHANGED faults

\* DropMarket: the account, then the market.
DeleteAccount ==
  /\ up
  /\ \E m \in addresses : addresses' = addresses \ {m}
  /\ UNCHANGED <<tx, events, handler, deposits, withdrawals, markets, pending, published,
                 up, faults, handled>>

DeleteMarket ==
  /\ up
  /\ \E m \in markets \ addresses : markets' = markets \ {m}
  /\ UNCHANGED <<tx, events, handler, deposits, withdrawals, addresses, pending,
                 published, up, faults, handled>>

Crash ==
  /\ up
  /\ faults < MaxFaults
  /\ faults' = faults + 1
  /\ Dies

Restart ==
  /\ ~up
  /\ up' = TRUE
  /\ UNCHANGED <<tx, events, handler, deposits, withdrawals, addresses, markets, pending,
                 published, faults, handled>>

HandlerStep == InsertRecord \/ Announce

Publisher(k) == Publish(k) \/ PublishPanics(k)

Next ==
  \/ Receive
  \/ HandlerStep
  \/ InsertFails
  \/ \E k \in Kinds : Publisher(k)
  \/ DeleteAccount
  \/ DeleteMarket
  \/ Crash
  \/ Restart

\* The goroutines run on; notifications may stop.
Spec ==
  /\ Init /\ [][Next]_vars
  /\ WF_vars(HandlerStep)
  /\ \A k \in Kinds : WF_vars(Publisher(k))

-----------------------------------------------------------------------------
\* What the transaction changes for an account, by adding up the coins.
Net(a, asset) == tx.out[a][asset] - tx.in[a][asset]

\* What the accounts other than a get of an asset from a, if a alone spends.
LeftFrom(a, asset) == Total(tx.out, asset) - tx.out[a][asset]

\* Who deposited, and who withdrew, by the coins.
Deposited(a) == \A asset \in Assets : tx.in[a][asset] = 0
Withdrew(a) ==
  /\ \E asset \in Assets : tx.in[a][asset] > 0
  /\ IF a = FeeAccount
     THEN /\ Spenders = {a}
          /\ \E o \in Owners \ {a}, asset \in Assets : tx.out[o][asset] > 0
     ELSE \A asset \in Assets : tx.out[a][asset] > 0 => tx.in[a][asset] > 0

\* A notification was handled without a failure, and no market was dropped.
HandledWell == handled /\ faults = 0 /\ addresses = Markets

\* A deposit is what an account gained and is stored only if the account gave
\* nothing; once all is handled, every such account has its deposit.
DepositsMatchChain ==
  /\ \A a \in Accounts : deposits[a] # NoRecord =>
       /\ Deposited(a)
       /\ \A asset \in DOMAIN deposits[a] : deposits[a][asset] = Net(a, asset)
  /\ HandledWell => \A a \in AccountNames : Deposited(a) => deposits[a] # NoRecord

\* A withdrawal is what an account gave and is stored only if the account got no
\* other asset, or is the fee account and alone paid; once all is handled, there
\* is a withdrawal if some account withdrew.
WithdrawalsMatchChain ==
  /\ withdrawals # NoRecord /\ addresses = Markets =>
       LET a == withdrawals.account
       IN  /\ Withdrew(a)
           /\ a # FeeAccount => \A asset \in DOMAIN withdrawals.amounts :
                withdrawals.amounts[asset] = -Net(a, asset)
  /\ HandledWell => ((\E a \in AccountNames : Withdrew(a)) => withdrawals # NoRecord)

\* The fee account withdraws what others got, without the network fee.
FeeWithdrawalMatchesChain ==
  withdrawals # NoRecord /\ addresses = Markets =>
    LET a == withdrawals.account
    IN  a = FeeAccount => \A asset \in DOMAIN withdrawals.amounts :
          withdrawals.amounts[asset] = LeftFrom(a, asset)

\* The records agree with the coins: nothing is stored that did not happen, with
\* the amounts the coins add up to, and once a notification was handled without a
\* failure every change has its record.  The market of the account must not have
\* been dropped (service.go, classifyAndStoreTx; types.go, isDeposit, isWithdrawal
\* and the amounts).
RecordsMatchChain ==
  DepositsMatchChain /\ WithdrawalsMatchChain /\ FeeWithdrawalMatchesChain

\* No event is published twice, although the same transaction is notified again
\* and again, a failed insertion is made up for by a later notification and the
\* goroutine announces records that were stored before (service.go,
\* classifyAndStoreTx).
AnnouncedOnce ==
  \A k \in Kinds, a \in Accounts : published[k][a] + pending[k][a] <= 1

\* A stored deposit is announced, unless a write failed, the daemon crashed or a
\* market was dropped in between (service.go, classifyAndStoreTx).
DepositsAnnounced ==
  \A a \in Accounts \ Fragmenters :
    deposits[a] # NoRecord ~>
      (published["deposit"][a] = 1 \/ faults > 0 \/ addresses # Markets)
=============================================================================
